---------------------------- MODULE LexerProofs -----------------------------
(***************************************************************************)
(* Proof that the lexer, which sees one character and at one place two, is *)
(* right about the text: at each step the tokens made, followed by those   *)
(* that C has from the token at hand on, are all that C has, in every text *)
(* that may still come.                                                    *)
(***************************************************************************)
EXTENDS Lexer, SequenceTheorems, FiniteSetTheorems, WellFoundedInduction, TLAPS

-----------------------------------------------------------------------------
(***************************************************************************)
(* Numbers: least and greatest ones, and induction.                        *)
(***************************************************************************)
LEMMA LeastOne ==
    ASSUME NEW S, S \subseteq Nat, S # {}
    PROVE  \E m \in S : \A k \in S : m <= k
  <1> DEFINE Less == {p \in Nat \X Nat : p[1] < p[2]}
  <1>1. IsWellFoundedOn(Less, Nat)
    BY NatLessThanWellFounded DEF OpToRel
  <1> HIDE DEF Less
  <1>2. PICK m \in S : \A k \in S : <<k, m>> \notin Less
    BY <1>1, WFMin
  <1>3. \A k \in S : ~(k < m)
    BY <1>2 DEF Less
  <1> QED BY <1>3

LEMMA Counting ==
    ASSUME NEW T, 0 \in T, \A n \in Nat : n \in T => n + 1 \in T
    PROVE  \A n \in Nat : n \in T
  <1> DEFINE Missing == Nat \ T
  <1>1. ASSUME Missing # {} PROVE FALSE
    <2>1. PICK m \in Missing : \A k \in Missing : m <= k
      BY <1>1, LeastOne
    <2>2. m # 0 /\ m \in Nat /\ m - 1 \in Nat /\ m - 1 + 1 = m
      OBVIOUS
    <2>3. m - 1 \in T
      BY <2>1, <2>2
    <2> QED BY <2>2, <2>3
  <1> QED BY <1>1

LEMMA LeastIs ==
    ASSUME NEW S, S \subseteq Int, NEW m \in S, \A k \in S : m <= k
    PROVE  Min(S) = m
  <1>1. \A x \in S : (\A k \in S : x <= k) => x = m
    OBVIOUS
  <1>2. Min(S) \in S /\ \A k \in S : Min(S) <= k
    BY DEF Min
  <1> QED BY <1>1, <1>2

LEMMA GreatestIs ==
    ASSUME NEW S, S \subseteq Int, NEW m \in S, \A k \in S : k <= m
    PROVE  Max(S) = m
  <1>1. \A x \in S : (\A k \in S : x >= k) => x = m
    OBVIOUS
  <1>2. Max(S) \in S /\ \A k \in S : Max(S) >= k
    BY DEF Max
  <1> QED BY <1>1, <1>2

LEMMA LeastIn ==
    ASSUME NEW S, S \subseteq Nat, S # {}
    PROVE  Min(S) \in S /\ \A k \in S : Min(S) <= k
  <1>1. PICK m \in S : \A k \in S : m <= k
    BY LeastOne
  <1> QED BY <1>1 DEF Min

LEMMA GreatestIn ==
    ASSUME NEW b \in Nat, NEW S, S \subseteq 0 .. b, S # {}
    PROVE  Max(S) \in S /\ \A k \in S : k <= Max(S)
  <1> DEFINE D == {b - k : k \in S}
  <1>1. D \subseteq Nat /\ D # {}
    <2>1. \A k \in S : k \in 0 .. b
      OBVIOUS
    <2>2. \A k \in S : b - k \in Nat
      BY <2>1
    <2> QED BY <2>2
  <1>2. PICK d \in D : \A k \in D : d <= k
    <2> HIDE DEF D
    <2> QED BY <1>1, LeastOne
  <1>3. PICK m \in S : d = b - m
    OBVIOUS
  <1>4. \A k \in S : k <= m
    <2> SUFFICES ASSUME NEW k \in S PROVE k <= m
      OBVIOUS
    <2>1. b - k \in D
      OBVIOUS
    <2>2. d <= b - k
      BY <1>2, <2>1
    <2> QED BY <1>3, <2>2
  <1> QED BY <1>4 DEF Max

\* A recursive function exists whose every value is a step from the one before.
Steps(f, V, first, step, n) == /\ f \in [0 .. n -> V] /\ f[0] = first
                               /\ \A k \in 1 .. n : f[k] = step[<<f[k - 1], k>>]

LEMMA StepsExist ==
    ASSUME NEW V, NEW first \in V, NEW step \in [V \X Nat -> V]
    PROVE  \A n \in Nat : \E f : Steps(f, V, first, step, n)
  <1> DEFINE T == {n \in Nat : \E f : Steps(f, V, first, step, n)}
  <1>1. 0 \in T
    <2>1. Steps([k \in 0 .. 0 |-> first], V, first, step, 0)
      BY DEF Steps
    <2> QED BY <2>1
  <1>2. ASSUME NEW n \in Nat, n \in T PROVE n + 1 \in T
    <2>1. PICK f : Steps(f, V, first, step, n)
      BY <1>2
    <2>2. PICK x \in V : x = step[<<f[n], n + 1>>]
      <3>1. f[n] \in V
        BY <2>1 DEF Steps
      <3>2. <<f[n], n + 1>> \in V \X Nat
        BY <3>1
      <3> QED BY <3>2
    <2> DEFINE g == [k \in 0 .. n + 1 |-> IF k = n + 1 THEN x ELSE f[k]]
    <2>3. g[n + 1] = x /\ \A k \in 0 .. n : g[k] = f[k] /\ f[k] \in V
      BY <2>1 DEF Steps
    <2>4. g \in [0 .. n + 1 -> V]
      <3>1. \A k \in 0 .. n + 1 : (IF k = n + 1 THEN x ELSE f[k]) \in V
        BY <2>1, <2>2 DEF Steps
      <3> QED BY <3>1
    <2> HIDE DEF g
    <2>5. ASSUME NEW k \in 1 .. n + 1 PROVE g[k] = step[<<g[k - 1], k>>]
      <3>1. k - 1 \in 0 .. n /\ g[k - 1] = f[k - 1]
        BY <2>3
      <3>2. CASE k = n + 1
        <4>1. k - 1 = n
          BY <3>2
        <4> QED BY <2>2, <2>3, <3>1, <3>2, <4>1
      <3>3. CASE k # n + 1
        <4>1. k \in 1 .. n /\ k \in 0 .. n
          BY <3>3
        <4> QED BY <2>1, <2>3, <3>1, <4>1 DEF Steps
      <3> QED BY <3>2, <3>3
    <2>6. g[0] = first
      <3>1. 0 \in 0 .. n
        OBVIOUS
      <3> QED BY <2>1, <2>3, <3>1 DEF Steps
    <2> QED BY <2>4, <2>5, <2>6 DEF Steps
  <1> HIDE DEF T
  <1>3. \A n \in Nat : n \in T
    BY <1>1, <1>2, Counting
  <1> QED BY <1>3 DEF T

LEMMA StepsAgree ==
    ASSUME NEW V, NEW first, NEW s1, NEW s2, NEW n \in Nat, NEW m \in Nat, n <= m,
           NEW f, NEW g, Steps(f, V, first, s1, n), Steps(g, V, first, s2, m),
           \A v \in V : \A k \in 1 .. n : s1[<<v, k>>] = s2[<<v, k>>]
    PROVE  \A k \in 0 .. n : f[k] = g[k]
  <1> DEFINE T == {k \in Nat : k \in 0 .. n => f[k] = g[k]}
  <1>1. 0 \in T
    BY DEF Steps
  <1>2. ASSUME NEW k \in Nat, k \in T PROVE k + 1 \in T
    <2> SUFFICES ASSUME k + 1 \in 0 .. n PROVE f[k + 1] = g[k + 1]
      OBVIOUS
    <2>1. k + 1 \in 1 .. n /\ k + 1 \in 1 .. m /\ k \in 0 .. n /\ (k + 1) - 1 = k
      OBVIOUS
    <2>2. f[k] \in V /\ f[k] = g[k]
      BY <1>2, <2>1 DEF Steps
    <2>3. f[k + 1] = s1[<<f[k], k + 1>>] /\ g[k + 1] = s2[<<g[k], k + 1>>]
      BY <2>1 DEF Steps
    <2> QED BY <2>1, <2>2, <2>3
  <1> HIDE DEF T
  <1>3. \A k \in Nat : k \in T
    BY <1>1, <1>2, Counting
  <1> QED BY <1>3 DEF T

-----------------------------------------------------------------------------
(***************************************************************************)
(* What digits are worth.                                                  *)
(***************************************************************************)
LEMMA ValueIs == \A d \in Digits : Value(d) \in 0 .. 9
  <1> SUFFICES ASSUME NEW d \in Digits PROVE \E v \in 0 .. 9 : <<"0", "1", "2", "3", "4", "5", "6", "7", "8", "9">>[v + 1] = d
    BY DEF Value
  <1> DEFINE ds == <<"0", "1", "2", "3", "4", "5", "6", "7", "8", "9">>
  <1>1. \E k \in 1 .. 10 : ds[k] = d
    BY DEF Digits
  <1>2. PICK k \in 1 .. 10 : ds[k] = d
    BY <1>1
  <1>3. k - 1 \in 0 .. 9 /\ (k - 1) + 1 = k
    OBVIOUS
  <1> QED BY <1>2, <1>3

WorthOf(f, t, i, j) == f = [k \in 0 .. j |-> IF k < i THEN 0
                                             ELSE IF t[k] \in Digits THEN f[k - 1] * 10 + Value(t[k])
                                             ELSE f[k - 1]]
Worths(t, i, j) == CHOOSE f : WorthOf(f, t, i, j)

DigitStep(t, i) == [p \in Nat \X Nat |-> IF p[2] < i THEN 0
                                         ELSE IF t[p[2]] \in Digits THEN p[1] * 10 + Value(t[p[2]])
                                         ELSE p[1]]

LEMMA DigitStepIs ==
    ASSUME NEW t, NEW i \in Nat
    PROVE  /\ DigitStep(t, i) \in [Nat \X Nat -> Nat]
           /\ \A n, k \in Nat : DigitStep(t, i)[<<n, k>>] =
                 IF k < i THEN 0 ELSE IF t[k] \in Digits THEN n * 10 + Value(t[k]) ELSE n
  <1>1. ASSUME NEW p \in Nat \X Nat
        PROVE  (IF p[2] < i THEN 0 ELSE IF t[p[2]] \in Digits THEN p[1] * 10 + Value(t[p[2]]) ELSE p[1]) \in Nat
    <2>1. t[p[2]] \in Digits => Value(t[p[2]]) \in Nat
      BY ValueIs
    <2>2. p[1] \in Nat
      OBVIOUS
    <2> QED BY <2>1, <2>2
  <1>2. DigitStep(t, i) \in [Nat \X Nat -> Nat]
    BY <1>1 DEF DigitStep
  <1>3. ASSUME NEW n \in Nat, NEW k \in Nat
        PROVE  DigitStep(t, i)[<<n, k>>] =
                 IF k < i THEN 0 ELSE IF t[k] \in Digits THEN n * 10 + Value(t[k]) ELSE n
    <2>1. <<n, k>> \in Nat \X Nat /\ <<n, k>>[1] = n /\ <<n, k>>[2] = k
      OBVIOUS
    <2> QED BY <2>1 DEF DigitStep
  <1> QED BY <1>2, <1>3

LEMMA WorthsAre ==
    ASSUME NEW t, NEW i \in Nat \ {0}, NEW j \in Nat
    PROVE  Steps(Worths(t, i, j), Nat, 0, DigitStep(t, i), j) /\ Worth(t, i, j) = Worths(t, i, j)[j]
  <1>1. /\ DigitStep(t, i) \in [Nat \X Nat -> Nat]
        /\ \A n, k \in Nat : DigitStep(t, i)[<<n, k>>] =
                 IF k < i THEN 0 ELSE IF t[k] \in Digits THEN n * 10 + Value(t[k]) ELSE n
    BY DigitStepIs
  <1>2. PICK f : Steps(f, Nat, 0, DigitStep(t, i), j)
    BY <1>1, StepsExist
  <1>3. ASSUME NEW k \in 0 .. j
        PROVE  f[k] = IF k < i THEN 0 ELSE IF t[k] \in Digits THEN f[k - 1] * 10 + Value(t[k]) ELSE f[k - 1]
    <2>1. CASE k = 0
      BY <1>2, <2>1 DEF Steps
    <2>2. CASE k # 0
      <3>1. k \in 1 .. j /\ k \in Nat /\ k - 1 \in 0 .. j
        BY <2>2
      <3>2. f[k - 1] \in Nat /\ f[k] = DigitStep(t, i)[<<f[k - 1], k>>]
        BY <1>2, <3>1 DEF Steps
      <3> QED BY <1>1, <3>1, <3>2
    <2> QED BY <2>1, <2>2
  <1>4. WorthOf(f, t, i, j)
    <2>1. f = [k \in 0 .. j |-> f[k]]
      BY <1>2 DEF Steps
    <2> QED BY <1>3, <2>1 DEF WorthOf
  <1>5. WorthOf(Worths(t, i, j), t, i, j)
    BY <1>4 DEF Worths
  <1> DEFINE c == Worths(t, i, j)
             T == {k \in Nat : k \in 0 .. j => c[k] \in Nat}
  <1>6. \A k \in 0 .. j : c[k] = IF k < i THEN 0 ELSE IF t[k] \in Digits THEN c[k - 1] * 10 + Value(t[k]) ELSE c[k - 1]
    BY <1>5 DEF WorthOf
  <1>7. DOMAIN c = 0 .. j /\ c = [k \in 0 .. j |-> c[k]]
    BY <1>5 DEF WorthOf
  <1>8. Worth(t, i, j) = c[j]
    BY DEF Worth, Worths, WorthOf
  <1> HIDE DEF c
  <1>9. 0 \in T
    BY <1>6
  <1>10. ASSUME NEW k \in Nat, k \in T PROVE k + 1 \in T
    <2> SUFFICES ASSUME k + 1 \in 0 .. j PROVE c[k + 1] \in Nat
      OBVIOUS
    <2>1. k \in 0 .. j /\ (k + 1) - 1 = k
      OBVIOUS
    <2>2. c[k] \in Nat
      BY <1>10, <2>1
    <2>3. t[k + 1] \in Digits => Value(t[k + 1]) \in Nat
      BY ValueIs
    <2> QED BY <1>6, <2>1, <2>2, <2>3
  <1>11. \A k \in Nat : k \in T
    <2> HIDE DEF T
    <2> QED BY <1>9, <1>10, Counting
  <1>12. c \in [0 .. j -> Nat]
    BY <1>7, <1>11
  <1>13. ASSUME NEW k \in 1 .. j PROVE c[k] = DigitStep(t, i)[<<c[k - 1], k>>]
    <2>1. k \in 0 .. j /\ k \in Nat /\ k - 1 \in 0 .. j
      OBVIOUS
    <2>2. c[k - 1] \in Nat
      BY <1>12, <2>1
    <2> QED BY <1>1, <1>6, <2>1, <2>2
  <1>14. c[0] = 0
    BY <1>6
  <1> QED BY <1>8, <1>12, <1>13, <1>14 DEF Steps, c

\* Horner's rule.
Horner(t, i, k, n) == Worth(t, i, n) = IF n < i THEN 0
                                       ELSE IF t[n] \in Digits THEN Worth(t, i, k) * 10 + Value(t[n])
                                       ELSE Worth(t, i, k)

LEMMA WorthIs ==
    ASSUME NEW t, NEW i \in Nat \ {0}
    PROVE  /\ \A k \in Nat : Worth(t, i, k) \in Nat
           /\ \A k, n \in Nat : n = k + 1 => Horner(t, i, k, n)
           /\ \A k \in Nat : k < i => Worth(t, i, k) = 0
  <1>1. /\ DigitStep(t, i) \in [Nat \X Nat -> Nat]
        /\ \A n, k \in Nat : DigitStep(t, i)[<<n, k>>] =
                 IF k < i THEN 0 ELSE IF t[k] \in Digits THEN n * 10 + Value(t[k]) ELSE n
    BY DigitStepIs
  <1>2. ASSUME NEW k \in Nat PROVE Worth(t, i, k) \in Nat
    <2>1. PICK f : Steps(f, Nat, 0, DigitStep(t, i), k) /\ Worth(t, i, k) = f[k]
      BY WorthsAre
    <2>2. k \in 0 .. k
      OBVIOUS
    <2> QED BY <2>1, <2>2 DEF Steps
  <1>3. ASSUME NEW k \in Nat, NEW n \in Nat, n = k + 1
        PROVE  Horner(t, i, k, n)
    <2>1. PICK f : Steps(f, Nat, 0, DigitStep(t, i), k) /\ Worth(t, i, k) = f[k]
      BY WorthsAre
    <2>2. PICK g : Steps(g, Nat, 0, DigitStep(t, i), n) /\ Worth(t, i, n) = g[n]
      BY WorthsAre
    <2>3. k <= n /\ n \in 1 .. n /\ n - 1 = k /\ k \in 0 .. k /\ k \in 0 .. n
      BY <1>3
    <2>4. \A j \in 0 .. k : f[j] = g[j]
      BY <2>1, <2>2, <2>3, StepsAgree
    <2>5. g[n] = DigitStep(t, i)[<<g[n - 1], n>>]
      BY <2>2, <2>3 DEF Steps
    <2>6. g[k] \in Nat
      BY <2>2, <2>3 DEF Steps
    <2>7. g[k] = Worth(t, i, k)
      BY <2>1, <2>3, <2>4
    <2> QED BY <1>1, <2>2, <2>3, <2>5, <2>6, <2>7 DEF Horner
  <1>4. ASSUME NEW k \in Nat, k < i PROVE Worth(t, i, k) = 0
    <2>1. CASE k = 0
      <3>1. PICK f : Steps(f, Nat, 0, DigitStep(t, i), k) /\ Worth(t, i, k) = f[k]
        BY WorthsAre
      <3> QED BY <2>1, <3>1 DEF Steps
    <2>2. CASE k # 0
      <3>1. PICK j \in Nat : k = j + 1
        <4>1. k - 1 \in Nat /\ k = (k - 1) + 1
          BY <2>2
        <4> QED BY <4>1
      <3> QED BY <1>3, <1>4, <3>1 DEF Horner
    <2> QED BY <2>1, <2>2
  <1> QED BY <1>2, <1>3, <1>4

-----------------------------------------------------------------------------
(***************************************************************************)
(* Literals: which places a backslash precedes, and the characters meant.  *)
(***************************************************************************)
PlainIn(t, i, k) == {j \in i .. k - 1 : t[j] # "\\"}

LEMMA EscapedStep ==
    ASSUME NEW t, NEW i \in Nat, t[i] # "\\"
    PROVE  \A k, n \in Nat : n = k + 1 /\ k >= i =>
              (Escaped(t, i, n) <=> k > i /\ t[k] = "\\" /\ ~Escaped(t, i, k))
  <1>1. ASSUME NEW k \in Nat, k > i
        PROVE  Max(PlainIn(t, i, k)) \in i .. k - 1 /\ \A j \in PlainIn(t, i, k) : j <= Max(PlainIn(t, i, k))
    <2>1. i \in PlainIn(t, i, k) /\ PlainIn(t, i, k) \subseteq 0 .. k /\ PlainIn(t, i, k) \subseteq i .. k - 1
      BY <1>1 DEF PlainIn
    <2>2. PICK S : S = PlainIn(t, i, k)
      OBVIOUS
    <2>3. Max(S) \in S /\ \A j \in S : j <= Max(S)
      BY <2>1, <2>2, GreatestIn
    <2> QED BY <2>1, <2>2, <2>3
  <1>2. ASSUME NEW k \in Nat PROVE Escaped(t, i, k) <=> (k - Max(PlainIn(t, i, k))) % 2 = 0
    BY DEF Escaped, PlainIn
  <1> SUFFICES ASSUME NEW k \in Nat, NEW n \in Nat, n = k + 1, k >= i
               PROVE  Escaped(t, i, n) <=> k > i /\ t[k] = "\\" /\ ~Escaped(t, i, k)
    OBVIOUS
  <1>3. n > i /\ n - 1 = k
    OBVIOUS
  <1>4. PICK mn : mn = Max(PlainIn(t, i, n))
    OBVIOUS
  <1>5. mn \in i .. k /\ (Escaped(t, i, n) <=> (n - mn) % 2 = 0)
    BY <1>1, <1>2, <1>3, <1>4
  <1>6. CASE k > i /\ t[k] = "\\"
    <2>1. PlainIn(t, i, n) = PlainIn(t, i, k)
      BY <1>3, <1>6 DEF PlainIn
    <2>2. mn = Max(PlainIn(t, i, k))
      BY <1>4, <2>1
    <2>3. mn < k /\ (Escaped(t, i, k) <=> (k - mn) % 2 = 0)
      BY <1>1, <1>2, <1>6, <2>2
    <2>4. PICK d \in Nat : d = k - mn
      BY <1>5, <2>3
    <2>5. n - mn = d + 1 /\ ((d + 1) % 2 = 0 <=> d % 2 # 0)
      BY <1>5, <2>4
    <2> QED BY <1>5, <1>6, <2>3, <2>4, <2>5
  <1>7. CASE ~(k > i /\ t[k] = "\\")
    <2>1. k \in PlainIn(t, i, n)
      BY <1>3, <1>7 DEF PlainIn
    <2>2. mn = k
      BY <1>1, <1>3, <1>4, <1>5, <2>1
    <2>3. (n - mn) % 2 # 0
      BY <2>2
    <2> QED BY <1>5, <1>7, <2>3
  <1> QED BY <1>6, <1>7

CharsMade(t) == {t[j] : j \in Nat} \cup {Stands(t[j]) : j \in Nat}

OneMore(t, i, j, s) == IF j <= i + 1 THEN <<>>
                       ELSE IF Escaped(t, i, j - 1) THEN Append(s, Stands(t[j - 1]))
                       ELSE IF t[j - 1] = "\\" THEN s
                       ELSE Append(s, t[j - 1])
CharsFn(f, t, i, k) == f = [j \in 0 .. k |-> OneMore(t, i, j, f[j - 1])]
Chars(t, i, k)      == CHOOSE f : CharsFn(f, t, i, k)
CharStep(t, i)      == [p \in Seq(CharsMade(t)) \X Nat |-> OneMore(t, i, p[2], p[1])]

LEMMA CharStepIs ==
    ASSUME NEW t, NEW i \in Nat
    PROVE  /\ CharStep(t, i) \in [Seq(CharsMade(t)) \X Nat -> Seq(CharsMade(t))]
           /\ \A s \in Seq(CharsMade(t)) : \A k \in Nat : CharStep(t, i)[<<s, k>>] = OneMore(t, i, k, s)
  <1>1. ASSUME NEW s \in Seq(CharsMade(t)), NEW k \in Nat PROVE OneMore(t, i, k, s) \in Seq(CharsMade(t))
    <2>1. CASE k <= i + 1
      BY <2>1 DEF OneMore
    <2>2. CASE k > i + 1
      <3>1. k - 1 \in Nat
        BY <2>2
      <3>2. t[k - 1] \in CharsMade(t) /\ Stands(t[k - 1]) \in CharsMade(t)
        BY <3>1 DEF CharsMade
      <3> QED BY <3>2, AppendProperties DEF OneMore
    <2> QED BY <2>1, <2>2
  <1>2. \A p \in Seq(CharsMade(t)) \X Nat : p[1] \in Seq(CharsMade(t)) /\ p[2] \in Nat
    OBVIOUS
  <1>3. CharStep(t, i) \in [Seq(CharsMade(t)) \X Nat -> Seq(CharsMade(t))]
    BY <1>1, <1>2 DEF CharStep
  <1>4. ASSUME NEW s \in Seq(CharsMade(t)), NEW k \in Nat PROVE CharStep(t, i)[<<s, k>>] = OneMore(t, i, k, s)
    <2>1. <<s, k>> \in Seq(CharsMade(t)) \X Nat /\ <<s, k>>[1] = s /\ <<s, k>>[2] = k
      OBVIOUS
    <2> QED BY <2>1 DEF CharStep
  <1> QED BY <1>3, <1>4

LEMMA CharsAre ==
    ASSUME NEW t, NEW i \in Nat, NEW k \in Nat
    PROVE  Steps(Chars(t, i, k), Seq(CharsMade(t)), <<>>, CharStep(t, i), k) /\ CharsOf(t, i, k) = Chars(t, i, k)[k]
  <1>1. /\ CharStep(t, i) \in [Seq(CharsMade(t)) \X Nat -> Seq(CharsMade(t))]
        /\ \A s \in Seq(CharsMade(t)) : \A j \in Nat : CharStep(t, i)[<<s, j>>] = OneMore(t, i, j, s)
    BY CharStepIs
  <1>2. PICK V, step : V = Seq(CharsMade(t)) /\ step = CharStep(t, i)
    OBVIOUS
  <1>3. <<>> \in V /\ step \in [V \X Nat -> V] /\ \A s \in V : \A j \in Nat : step[<<s, j>>] = OneMore(t, i, j, s)
    BY <1>1, <1>2
  <1>4. PICK f : Steps(f, V, <<>>, step, k)
    BY <1>3, StepsExist
  <1>5. ASSUME NEW j \in 0 .. k PROVE f[j] = OneMore(t, i, j, f[j - 1])
    <2>1. CASE j = 0
      BY <1>4, <2>1 DEF Steps, OneMore
    <2>2. CASE j # 0
      <3>1. j \in 1 .. k /\ j \in Nat /\ j - 1 \in 0 .. k
        BY <2>2
      <3>2. f[j - 1] \in V /\ f[j] = step[<<f[j - 1], j>>]
        BY <1>4, <3>1 DEF Steps
      <3> QED BY <1>3, <3>1, <3>2
    <2> QED BY <2>1, <2>2
  <1>6. CharsFn(f, t, i, k)
    <2>1. f = [j \in 0 .. k |-> f[j]]
      BY <1>4 DEF Steps
    <2> QED BY <1>5, <2>1 DEF CharsFn
  <1>7. CharsFn(Chars(t, i, k), t, i, k)
    BY <1>6 DEF Chars
  <1>8. CharsOf(t, i, k) = Chars(t, i, k)[k]
    BY DEF CharsOf, Chars, CharsFn, OneMore
  <1>9. PICK c : c = Chars(t, i, k)
    OBVIOUS
  <1>10. DOMAIN c = 0 .. k /\ c = [j \in 0 .. k |-> c[j]] /\ \A j \in 0 .. k : c[j] = OneMore(t, i, j, c[j - 1])
    BY <1>7, <1>9 DEF CharsFn
  <1> DEFINE T == {j \in Nat : j \in 0 .. k => c[j] \in V}
  <1>11. 0 \in T
    <2>1. c[0] = <<>>
      BY <1>10 DEF OneMore
    <2> QED BY <1>3, <2>1
  <1>12. ASSUME NEW j \in Nat, j \in T PROVE j + 1 \in T
    <2> SUFFICES ASSUME j + 1 \in 0 .. k PROVE c[j + 1] \in V
      OBVIOUS
    <2>1. j \in 0 .. k /\ (j + 1) - 1 = j /\ j + 1 \in Nat
      OBVIOUS
    <2>2. c[j] \in V
      BY <1>12, <2>1
    <2>3. <<c[j], j + 1>> \in V \X Nat
      BY <2>1, <2>2
    <2>4. step[<<c[j], j + 1>>] \in V
      BY <1>3, <2>3
    <2>5. c[j + 1] = OneMore(t, i, j + 1, c[j])
      BY <1>10, <2>1
    <2>6. step[<<c[j], j + 1>>] = OneMore(t, i, j + 1, c[j])
      BY <1>3, <2>1, <2>2
    <2> QED BY <2>4, <2>5, <2>6
  <1>13. \A j \in Nat : j \in T
    <2> HIDE DEF T
    <2> QED BY <1>11, <1>12, Counting
  <1>14. \A j \in 0 .. k : c[j] \in V
    BY <1>13
  <1>15. c \in [0 .. k -> V]
    BY <1>10, <1>14
  <1>16. ASSUME NEW j \in 1 .. k PROVE c[j] = step[<<c[j - 1], j>>]
    <2>1. j \in 0 .. k /\ j \in Nat /\ j - 1 \in 0 .. k
      OBVIOUS
    <2> QED BY <1>3, <1>10, <1>14, <2>1
  <1>17. c[0] = <<>>
    BY <1>10 DEF OneMore
  <1>18. Steps(c, V, <<>>, step, k)
    BY <1>15, <1>16, <1>17 DEF Steps
  <1> QED BY <1>2, <1>8, <1>9, <1>18

LEMMA CharsIs ==
    ASSUME NEW t, NEW i \in Nat
    PROVE  /\ \A k \in Nat : CharsOf(t, i, k) \in Seq(CharsMade(t))
           /\ \A k, n \in Nat : n = k + 1 /\ k >= i => CharsOf(t, i, n) =
                 IF k = i THEN <<>>
                 ELSE IF Escaped(t, i, k) THEN Append(CharsOf(t, i, k), Stands(t[k]))
                 ELSE IF t[k] = "\\" THEN CharsOf(t, i, k)
                 ELSE Append(CharsOf(t, i, k), t[k])
  <1>1. ASSUME NEW k \in Nat PROVE CharsOf(t, i, k) \in Seq(CharsMade(t))
    <2>1. PICK f, V : Steps(f, V, <<>>, CharStep(t, i), k) /\ CharsOf(t, i, k) = f[k] /\ V = Seq(CharsMade(t))
      BY CharsAre
    <2>2. k \in 0 .. k
      OBVIOUS
    <2> QED BY <2>1, <2>2 DEF Steps
  <1>2. PICK V, step : V = Seq(CharsMade(t)) /\ step = CharStep(t, i)
    OBVIOUS
  <1>3. \A s \in V : \A j \in Nat : step[<<s, j>>] = OneMore(t, i, j, s)
    BY <1>2, CharStepIs
  <1> SUFFICES ASSUME NEW k \in Nat, NEW n \in Nat, n = k + 1, k >= i
               PROVE  CharsOf(t, i, n) = IF k = i THEN <<>>
                                         ELSE IF Escaped(t, i, k) THEN Append(CharsOf(t, i, k), Stands(t[k]))
                                         ELSE IF t[k] = "\\" THEN CharsOf(t, i, k)
                                         ELSE Append(CharsOf(t, i, k), t[k])
    BY <1>1
  <1>4. CharsOf(t, i, n) = OneMore(t, i, n, CharsOf(t, i, k))
    <2>1. PICK f : Steps(f, V, <<>>, step, k) /\ CharsOf(t, i, k) = f[k]
      BY <1>2, CharsAre
    <2>2. k <= n /\ n \in 1 .. n /\ n - 1 = k /\ k \in 0 .. k /\ k \in 0 .. n
      OBVIOUS
    <2>3. PICK g : Steps(g, V, <<>>, step, n) /\ CharsOf(t, i, n) = g[n]
      BY <1>2, CharsAre
    <2>4. \A j \in 0 .. k : f[j] = g[j]
      BY <2>1, <2>2, <2>3, StepsAgree
    <2>5. g[n] = step[<<g[n - 1], n>>]
      BY <2>2, <2>3 DEF Steps
    <2>6. g[k] \in V
      BY <2>2, <2>3 DEF Steps
    <2>7. g[k] = CharsOf(t, i, k)
      BY <2>1, <2>2, <2>4
    <2> QED BY <1>3, <2>2, <2>3, <2>5, <2>6, <2>7
  <1>5. n - 1 = k /\ (n <= i + 1 <=> k = i)
    OBVIOUS
  <1> QED BY <1>4, <1>5 DEF OneMore

-----------------------------------------------------------------------------
(***************************************************************************)
(* Places in a text: lines and columns, units of literals, ends of lines.  *)
(***************************************************************************)
BreaksIn(t, i) == {j \in 1 .. i - 1 : t[j] = "\n"}

LEMMA PosIs == \A t : PosOf(t, 1) = [line |-> 1, col |-> 1]
  <1> SUFFICES ASSUME NEW t PROVE PosOf(t, 1) = [line |-> 1, col |-> 1]
    OBVIOUS
  <1>1. BreaksIn(t, 1) = {}
    BY DEF BreaksIn
  <1>2. PosOf(t, 1) = [line |-> 1 + Cardinality(BreaksIn(t, 1)), col |-> 1 - Max(BreaksIn(t, 1) \cup {0})]
    BY DEF PosOf, BreaksIn
  <1>3. PICK S : S = BreaksIn(t, 1) \cup {0}
    OBVIOUS
  <1>4. Max(S) = 0
    <2>1. S = {0}
      BY <1>1, <1>3
    <2>2. S \subseteq Int /\ 0 \in S /\ \A k \in S : k <= 0
      BY <2>1
    <2> QED BY <2>2, GreatestIs
  <1>5. Cardinality({}) = 0
    BY FS_EmptySet
  <1> QED BY <1>1, <1>2, <1>3, <1>4, <1>5

LEMMA PosStep ==
    ASSUME NEW t, NEW i \in Nat \ {0}, NEW n \in Nat, n = i + 1
    PROVE  PosOf(t, n) = IF t[i] = "\n" THEN [line |-> PosOf(t, i).line + 1, col |-> 1]
                         ELSE [PosOf(t, i) EXCEPT !.col = @ + 1]
  <1>1. PICK B, C : B = BreaksIn(t, i) /\ C = BreaksIn(t, n)
    OBVIOUS
  <1>2. /\ PosOf(t, i) = [line |-> 1 + Cardinality(B), col |-> i - Max(B \cup {0})]
        /\ PosOf(t, n) = [line |-> 1 + Cardinality(C), col |-> n - Max(C \cup {0})]
    BY <1>1 DEF PosOf, BreaksIn
  <1>3. B \subseteq 1 .. i /\ i \notin B /\ IsFiniteSet(B) /\ Cardinality(B) \in Nat
    <2>1. B \subseteq 1 .. i /\ i \notin B
      BY <1>1 DEF BreaksIn
    <2>2. IsFiniteSet(1 .. i)
      BY FS_Interval
    <2> QED BY <2>1, <2>2, FS_Subset, FS_CardinalityType
  <1>4. Max(B \cup {0}) \in 0 .. i
    <2>1. PICK S : S = B \cup {0}
      OBVIOUS
    <2>2. S \subseteq 0 .. i /\ S # {} /\ i \in Nat
      BY <1>3, <2>1
    <2>3. Max(S) \in S
      BY <2>2, GreatestIn
    <2> QED BY <2>1, <2>2, <2>3
  <1>5. CASE t[i] = "\n"
    <2>1. C = B \cup {i}
      BY <1>1, <1>5 DEF BreaksIn
    <2>2. Cardinality(C) = Cardinality(B) + 1
      BY <1>3, <2>1, FS_AddElement
    <2>3. PICK S : S = C \cup {0}
      OBVIOUS
    <2>4. Max(S) = i
      <3>1. S \subseteq Int /\ i \in S /\ \A k \in S : k <= i
        BY <1>3, <2>1, <2>3
      <3> QED BY <3>1, GreatestIs
    <2>5. n - i = 1
      OBVIOUS
    <2>6. PICK c \in Nat, m \in Nat : c = Cardinality(B) /\ m = Max(B \cup {0})
      BY <1>3, <1>4
    <2>7. PosOf(t, n) = [line |-> 1 + (c + 1), col |-> 1]
      BY <1>2, <2>2, <2>3, <2>4, <2>5, <2>6
    <2>8. PosOf(t, i) = [line |-> 1 + c, col |-> i - m]
      BY <1>2, <2>6
    <2>9. PosOf(t, i).line = 1 + c /\ 1 + (c + 1) = (1 + c) + 1
      BY <2>8
    <2> QED BY <1>5, <2>7, <2>9
  <1>6. CASE t[i] # "\n"
    <2>1. C = B
      BY <1>1, <1>6 DEF BreaksIn
    <2>2. PICK m \in 0 .. i : m = Max(B \cup {0})
      BY <1>4
    <2>3. n - m = (i - m) + 1
      BY <2>2
    <2>4. PICK c \in Nat : c = Cardinality(B)
      BY <1>3
    <2>5. PosOf(t, n) = [line |-> 1 + c, col |-> (i - m) + 1]
      BY <1>2, <2>1, <2>2, <2>3, <2>4
    <2>6. PosOf(t, i) = [line |-> 1 + c, col |-> i - m]
      BY <1>2, <2>2, <2>4
    <2> QED BY <1>6, <2>5, <2>6
  <1> QED BY <1>5, <1>6

LEMMA UnitsStep ==
    ASSUME NEW t, NEW i \in Nat, NEW k \in Nat, NEW n \in Nat, n = k + 1, k >= i
    PROVE  /\ IsFiniteSet(UnitsOf(t, i, k)) /\ Cardinality(UnitsOf(t, i, k)) \in Nat
           /\ k = i \/ Escaped(t, i, k) => UnitsOf(t, i, n) = UnitsOf(t, i, k)
           /\ k # i /\ ~Escaped(t, i, k) => UnitsOf(t, i, n) = UnitsOf(t, i, k) \cup {k}
           /\ k \notin UnitsOf(t, i, k)
  <1>1. UnitsOf(t, i, k) \subseteq i + 1 .. k - 1
    BY DEF UnitsOf
  <1>2. IsFiniteSet(i + 1 .. k - 1)
    BY FS_Interval
  <1>3. IsFiniteSet(UnitsOf(t, i, k)) /\ Cardinality(UnitsOf(t, i, k)) \in Nat
    BY <1>1, <1>2, FS_Subset, FS_CardinalityType
  <1>4. n - 1 = k
    OBVIOUS
  <1>5. ASSUME NEW j \in Int
        PROVE  j \in UnitsOf(t, i, n) <=> j \in UnitsOf(t, i, k) \/ (j = k /\ k # i /\ ~Escaped(t, i, k))
    <2>1. j \in i + 1 .. k <=> j \in i + 1 .. k - 1 \/ (j = k /\ k # i)
      OBVIOUS
    <2> QED BY <1>4, <2>1 DEF UnitsOf
  <1>6. UnitsOf(t, i, n) \subseteq Int /\ UnitsOf(t, i, k) \subseteq Int
    BY DEF UnitsOf
  <1> QED BY <1>1, <1>3, <1>5, <1>6

LEMMA UnitsAre ==
    ASSUME NEW t, NEW i \in Nat, NEW k \in Nat, k >= i
    PROVE  /\ IsFiniteSet(UnitsOf(t, i, k)) /\ Cardinality(UnitsOf(t, i, k)) \in Nat
           /\ k \notin UnitsOf(t, i, k)
  <1>1. PICK n \in Nat : n = k + 1
    OBVIOUS
  <1> QED BY <1>1, UnitsStep

LEMMA LineEnds ==
    ASSUME NEW t, Len(t) \in Nat, NEW i \in 1 .. Len(t), CommentAt(t, i)
    PROVE  /\ EndOfLine(t, i) \in i + 1 .. Len(t) + 1
           /\ \A n \in i .. Len(t) + 1 : (/\ n <= Len(t) => t[n] = "\n"
                                          /\ \A k \in i .. n - 1 : t[k] # "\n") => EndOfLine(t, i) = n
  <1>1. t[i] # "\n"
    BY DEF CommentAt
  <1>2. PICK E : E = {j \in i .. Len(t) : t[j] = "\n"} \cup {Len(t) + 1}
    OBVIOUS
  <1>3. EndOfLine(t, i) = Min(E)
    BY <1>2 DEF EndOfLine
  <1>4. E \subseteq i + 1 .. Len(t) + 1 /\ E \subseteq Nat /\ E # {} /\ E \subseteq Int
    BY <1>1, <1>2
  <1>5. Min(E) \in E
    BY <1>4, LeastIn
  <1>6. ASSUME NEW n \in i .. Len(t) + 1, n <= Len(t) => t[n] = "\n", \A k \in i .. n - 1 : t[k] # "\n"
        PROVE  Min(E) = n
    <2>1. n \in E
      BY <1>2, <1>6
    <2>2. \A k \in E : n <= k
      BY <1>2, <1>6
    <2> QED BY <1>4, <2>1, <2>2, LeastIs
  <1> QED BY <1>3, <1>4, <1>5, <1>6

-----------------------------------------------------------------------------
(***************************************************************************)
(* The longest token at a place, when it is no literal.                    *)
(***************************************************************************)
LEMMA ShortSeqs ==
    ASSUME NEW S, NEW s \in Seq(S)
    PROVE  /\ Len(s) = 0 => s = <<>>
           /\ Len(s) = 1 => s = <<s[1]>>
           /\ Len(s) = 2 => s = <<s[1], s[2]>>
           /\ Len(s) = 3 => s = <<s[1], s[2], s[3]>>
  OBVIOUS

LEMMA PieceIs ==
    ASSUME NEW S, NEW t \in Seq(S), NEW a \in 1 .. Len(t) + 1, NEW j \in a - 1 .. Len(t)
    PROVE  /\ SubSeq(t, a, j) \in Seq(S) /\ Len(SubSeq(t, a, j)) = j - a + 1
           /\ \A k \in 1 .. j - a + 1 : SubSeq(t, a, j)[k] = t[a + k - 1]
  <1>1. \A k \in a .. j : t[k] \in S
    OBVIOUS
  <1> QED BY <1>1, SubSeqProperties

Suffix1 == {"u", "U", "l", "L"}
SuffixIs(s) == \/ s = <<>>
               \/ Len(s) = 1 /\ s[1] \in Suffix1
               \/ Len(s) = 2 /\ s[1] \in {"u", "U"} /\ s[2] \in {"l", "L"}

LEMMA SuffixesAre == ASSUME NEW S, NEW s \in Seq(S) PROVE s \in NumberSuffixes <=> SuffixIs(s)
  <1>1. ASSUME NEW u \in {<<>>, <<"u">>, <<"U">>}, NEW l \in {<<>>, <<"l">>, <<"L">>}
        PROVE  SuffixIs(u \o l)
    <2>1. CASE u = <<>>
      <3>1. u \o l = l
        BY <2>1
      <3> QED BY <3>1 DEF SuffixIs, Suffix1
    <2>2. CASE u # <<>> /\ l = <<>>
      <3>1. u \o l = u
        BY <2>2
      <3> QED BY <2>2, <3>1 DEF SuffixIs, Suffix1
    <2>3. CASE u # <<>> /\ l # <<>>
      <3>1. PICK a \in {"u", "U"} : u = <<a>>
        BY <2>3
      <3>2. PICK b \in {"l", "L"} : l = <<b>>
        BY <2>3
      <3>3. PICK both : both = <<a, b>>
        OBVIOUS
      <3>4. Len(both) = 2 /\ both[1] = a /\ both[2] = b
        BY <3>3
      <3>5. <<a>> \o <<b>> = both
        <4>1. <<a, b>> = <<a>> \o <<b>>
          OBVIOUS
        <4> QED BY <3>3, <4>1
      <3>6. u \o l = both
        BY <3>1, <3>2, <3>5
      <3>7. SuffixIs(both)
        BY <3>4 DEF SuffixIs
      <3> QED BY <3>6, <3>7
    <2> QED BY <2>1, <2>2, <2>3
  <1> DEFINE U == {<<>>, <<"u">>, <<"U">>}
             L == {<<>>, <<"l">>, <<"L">>}
  <1>2. s \in NumberSuffixes <=> \E u \in U, l \in L : s = u \o l
    <2>1. NumberSuffixes = {u \o l : u \in U, l \in L}
      BY DEF NumberSuffixes
    <2> HIDE DEF U, L
    <2> QED BY <2>1
  <1>3. ASSUME s \in NumberSuffixes PROVE SuffixIs(s)
    <2>1. PICK u \in U, l \in L : s = u \o l
      <3> HIDE DEF U, L
      <3> QED BY <1>3, <1>2
    <2> QED BY <1>1, <2>1
  <1>4. ASSUME SuffixIs(s) PROVE s \in NumberSuffixes
    <2>1. PICK u \in {<<>>, <<"u">>, <<"U">>}, l \in {<<>>, <<"l">>, <<"L">>} : s = u \o l
      <3>1. CASE s = <<>>
        <4>1. s = <<>> \o <<>>
          BY <3>1
        <4> QED BY <4>1
      <3>2. CASE Len(s) = 1 /\ s[1] \in {"u", "U"}
        <4>1. <<s[1]>> = <<s[1]>> \o <<>>
          OBVIOUS
        <4>2. s = <<s[1]>>
          BY <3>2, ShortSeqs
        <4>3. <<s[1]>> \in {<<>>, <<"u">>, <<"U">>}
          BY <3>2
        <4> QED BY <4>1, <4>2, <4>3
      <3>3. CASE Len(s) = 1 /\ s[1] \in {"l", "L"}
        <4>1. <<s[1]>> = <<>> \o <<s[1]>>
          OBVIOUS
        <4>2. s = <<s[1]>>
          BY <3>3, ShortSeqs
        <4>3. <<s[1]>> \in {<<>>, <<"l">>, <<"L">>}
          BY <3>3
        <4> QED BY <4>1, <4>2, <4>3
      <3>4. CASE Len(s) = 2 /\ s[1] \in {"u", "U"} /\ s[2] \in {"l", "L"}
        <4>1. <<s[1], s[2]>> = <<s[1]>> \o <<s[2]>>
          OBVIOUS
        <4>2. s = <<s[1], s[2]>>
          BY <3>4, ShortSeqs
        <4>3. <<s[1]>> \in {<<>>, <<"u">>, <<"U">>} /\ <<s[2]>> \in {<<>>, <<"l">>, <<"L">>}
          BY <3>4
        <4> QED BY <4>1, <4>2, <4>3
      <3> QED BY <1>4, <3>1, <3>2, <3>3, <3>4 DEF SuffixIs, Suffix1
    <2>2. u \in U /\ l \in L
      OBVIOUS
    <2> HIDE DEF U, L
    <2> QED BY <1>2, <2>1, <2>2
  <1> QED BY <1>3, <1>4

LEMMA SuffixAt ==
    ASSUME NEW S, NEW t \in Seq(S), NEW a \in 1 .. Len(t) + 1, NEW j \in a - 1 .. Len(t)
    PROVE  SubSeq(t, a, j) \in NumberSuffixes <=>
             \/ j = a - 1
             \/ j = a /\ t[a] \in Suffix1
             \/ j = a + 1 /\ t[a] \in {"u", "U"} /\ t[a + 1] \in {"l", "L"}
  <1>1. PICK s : s = SubSeq(t, a, j)
    OBVIOUS
  <1>2. s \in Seq(S) /\ Len(s) = j - a + 1 /\ \A k \in 1 .. j - a + 1 : s[k] = t[a + k - 1]
    BY <1>1, PieceIs
  <1>3. s \in NumberSuffixes <=> SuffixIs(s)
    BY <1>2, SuffixesAre
  <1>4. (Len(s) >= 1 => s[1] = t[a]) /\ (Len(s) = 2 => s[2] = t[a + 1])
    BY <1>2
  <1>5. (s = <<>> <=> j = a - 1) /\ (Len(s) = 1 <=> j = a) /\ (Len(s) = 2 <=> j = a + 1)
    BY <1>2
  <1> QED BY <1>1, <1>3, <1>4, <1>5 DEF SuffixIs

IsPunctuator(s) == \/ Len(s) = 2 /\ Pairs(s[1], s[2])
                   \/ Len(s) = 3 /\ s[1] = "." /\ s[2] = "." /\ s[3] = "."

LEMMA PunctuatorsAre == ASSUME NEW S, NEW s \in Seq(S) PROVE s \in Punctuators <=> IsPunctuator(s)
  <1>1. ASSUME s \in Punctuators PROVE IsPunctuator(s)
    BY <1>1 DEF Punctuators, IsPunctuator, Pairs
  <1>2. ASSUME Len(s) = 2, Pairs(s[1], s[2]) PROVE s \in Punctuators
    <2>1. s = <<s[1], s[2]>>
      BY <1>2, ShortSeqs
    <2>2. <<s[1], s[2]>> \in Punctuators
      BY <1>2 DEF Pairs, Punctuators
    <2> QED BY <2>1, <2>2
  <1>3. ASSUME Len(s) = 3, s[1] = "." /\ s[2] = "." /\ s[3] = "." PROVE s \in Punctuators
    <2>1. s = <<s[1], s[2], s[3]>>
      BY <1>3, ShortSeqs
    <2>2. s = <<".", ".", ".">>
      BY <1>3, <2>1
    <2> QED BY <2>2 DEF Punctuators
  <1> QED BY <1>1, <1>2, <1>3 DEF IsPunctuator

LEMMA PunctuatorAt ==
    ASSUME NEW S, NEW t \in Seq(S), NEW a \in 1 .. Len(t), NEW j \in a .. Len(t)
    PROVE  SubSeq(t, a, j) \in Punctuators <=>
             \/ j = a + 1 /\ Pairs(t[a], t[a + 1])
             \/ j = a + 2 /\ t[a] = "." /\ t[a + 1] = "." /\ t[a + 2] = "."
  <1>1. PICK s : s = SubSeq(t, a, j)
    OBVIOUS
  <1>2. s \in Seq(S) /\ Len(s) = j - a + 1 /\ \A k \in 1 .. j - a + 1 : s[k] = t[a + k - 1]
    BY <1>1, PieceIs
  <1>3. s \in Punctuators <=> IsPunctuator(s)
    BY <1>2, PunctuatorsAre
  <1>4. (Len(s) >= 2 => s[1] = t[a] /\ s[2] = t[a + 1]) /\ (Len(s) = 3 => s[3] = t[a + 2])
    BY <1>2
  <1>5. (Len(s) = 2 <=> j = a + 1) /\ (Len(s) = 3 <=> j = a + 2)
    BY <1>2
  <1> QED BY <1>1, <1>3, <1>4, <1>5 DEF IsPunctuator

Longer(t, b, j) == IsNumber(t, b, j) \/ IsWord(t, b, j) \/ IsSym(t, b, j)

LEMMA LongestIs ==
    ASSUME NEW t, Len(t) \in Nat, NEW b \in 1 .. Len(t)
    PROVE  /\ LongestAt(t, b) \in b .. Len(t)
           /\ \A j \in b .. Len(t) : Longer(t, b, j) => j <= LongestAt(t, b)
           /\ \A m \in b .. Len(t) : Longer(t, b, m) /\ (\A j \in m + 1 .. Len(t) : ~Longer(t, b, j))
                                       => LongestAt(t, b) = m
  <1>1. PICK L : L = {j \in b .. Len(t) : Longer(t, b, j)}
    OBVIOUS
  <1>2. LongestAt(t, b) = Max(L)
    BY <1>1 DEF LongestAt, Longer
  <1>3. Longer(t, b, b)
    BY DEF Longer, IsSym
  <1>4. L \subseteq 0 .. Len(t) /\ L # {} /\ L \subseteq Int
    BY <1>1, <1>3
  <1>5. Max(L) \in L /\ \A k \in L : k <= Max(L)
    BY <1>4, GreatestIn
  <1>6. ASSUME NEW m \in b .. Len(t), Longer(t, b, m), \A j \in m + 1 .. Len(t) : ~Longer(t, b, j)
        PROVE  Max(L) = m
    <2>1. m \in L
      BY <1>1, <1>6
    <2>2. \A k \in L : k <= m
      BY <1>1, <1>6
    <2> QED BY <1>4, <2>1, <2>2, GreatestIs
  <1> QED BY <1>1, <1>2, <1>5, <1>6

LEMMA KindsApart ==
    ASSUME NEW c
    PROVE  /\ c \in Digits => c \notin Letters /\ c \notin Suffix1 /\ c \notin Quotes /\ c \notin Blanks
                              /\ c # "#" /\ c # "/" /\ c # "." /\ \A d : ~Pairs(c, d)
           /\ c \in Letters => c \notin Quotes /\ c \notin Blanks /\ c # "#" /\ c # "/" /\ c # "."
                               /\ \A d : ~Pairs(c, d)
           /\ c \in Quotes => c \notin Blanks /\ c # "#" /\ c # "/" /\ c # "\\"
  <1>1. c \in Digits => c \notin Letters /\ c \notin Suffix1 /\ c \notin Quotes /\ c \notin Blanks
                              /\ c # "#" /\ c # "/" /\ c # "."
    BY ZenonT(60) DEF Digits, Letters, Suffix1, Quotes, Blanks
  <1>2. c \in Digits \/ c \in Letters => \A d : ~Pairs(c, d)
    <2>1. c \in {"<", ">", "!", "=", "&", "|", "+", "-"} => c \notin Digits /\ c \notin Letters
      BY ZenonT(60) DEF Digits, Letters
    <2> QED BY <2>1 DEF Pairs
  <1>3. c \in Letters => c \notin Quotes /\ c \notin Blanks /\ c # "#" /\ c # "/" /\ c # "."
    BY DEF Letters, Quotes, Blanks
  <1>4. c \in Quotes => c \notin Blanks /\ c # "#" /\ c # "/" /\ c # "\\"
    BY DEF Quotes, Blanks
  <1> QED BY <1>1, <1>2, <1>3, <1>4

\* How far a number goes whose digits end at d.
LEMMA NumberGoes ==
    ASSUME NEW S, NEW t \in Seq(S), NEW b \in 1 .. Len(t), NEW d \in b .. Len(t),
           AllIn(t, b, d, Digits), d < Len(t) => t[d + 1] \notin Digits, NEW j \in b .. Len(t)
    PROVE  /\ Longer(t, b, j) <=> j = b \/ IsNumber(t, b, j)
           /\ IsNumber(t, b, j) => \/ j <= d
                                   \/ j = d + 1 /\ t[d + 1] \in Suffix1
                                   \/ j = d + 2 /\ t[d + 1] \in {"u", "U"} /\ t[d + 2] \in {"l", "L"}
           /\ \/ j = d
              \/ j = d + 1 /\ t[d + 1] \in Suffix1
              \/ j = d + 2 /\ t[d + 1] \in {"u", "U"} /\ t[d + 2] \in {"l", "L"}
              => IsNumber(t, b, j)
  <1>1. t[b] \in Digits
    BY DEF AllIn
  <1>2. Longer(t, b, j) <=> j = b \/ IsNumber(t, b, j)
    <2>1. ~IsWord(t, b, j)
      BY <1>1, KindsApart DEF IsWord
    <2>2. SubSeq(t, b, j) \notin Punctuators
      BY <1>1, KindsApart, PunctuatorAt
    <2> QED BY <2>1, <2>2 DEF Longer, IsSym
  <1>3. ASSUME IsNumber(t, b, j)
        PROVE  \/ j <= d
               \/ j = d + 1 /\ t[d + 1] \in Suffix1
               \/ j = d + 2 /\ t[d + 1] \in {"u", "U"} /\ t[d + 2] \in {"l", "L"}
    <2>1. PICK e \in b .. j : AllIn(t, b, e, Digits) /\ SubSeq(t, e + 1, j) \in NumberSuffixes
      BY <1>3 DEF IsNumber
    <2>2. e <= d
      <3>1. CASE d < e
        <4>1. d + 1 \in b .. e /\ d < Len(t)
          BY <3>1
        <4> QED BY <2>1, <4>1 DEF AllIn
      <3> QED BY <3>1
    <2>3. PICK a : a = e + 1
      OBVIOUS
    <2>4. a \in 1 .. Len(t) + 1 /\ j \in a - 1 .. Len(t)
      BY <2>3
    <2>5. \/ j = a - 1
          \/ j = a /\ t[a] \in Suffix1
          \/ j = a + 1 /\ t[a] \in {"u", "U"} /\ t[a + 1] \in {"l", "L"}
      BY <2>1, <2>3, <2>4, SuffixAt
    <2>6. CASE e = d
      <3>1. a - 1 = d /\ a = d + 1 /\ a + 1 = d + 2
        BY <2>3, <2>6
      <3> QED BY <2>5, <3>1
    <2>7. CASE e < d
      <3>1. a \in b .. d
        BY <2>3, <2>7
      <3>2. t[a] \in Digits
        BY <3>1 DEF AllIn
      <3>3. t[a] \notin Suffix1
        BY <3>2, KindsApart
      <3>4. j = a - 1
        BY <2>5, <3>3 DEF Suffix1
      <3> QED BY <2>3, <2>7, <3>4
    <2> QED BY <2>2, <2>6, <2>7
  <1>4. ASSUME \/ j = d
               \/ j = d + 1 /\ t[d + 1] \in Suffix1
               \/ j = d + 2 /\ t[d + 1] \in {"u", "U"} /\ t[d + 2] \in {"l", "L"}
        PROVE  IsNumber(t, b, j)
    <2>1. PICK a : a = d + 1
      OBVIOUS
    <2>2. a \in 1 .. Len(t) + 1 /\ j \in a - 1 .. Len(t) /\ a - 1 = d /\ a + 1 = d + 2 /\ d \in b .. j
      BY <1>4, <2>1
    <2>3. SubSeq(t, a, j) \in NumberSuffixes
      BY <1>4, <2>1, <2>2, SuffixAt
    <2> QED BY <2>1, <2>2, <2>3 DEF IsNumber
  <1> QED BY <1>2, <1>3, <1>4

LEMMA WordGoes ==
    ASSUME NEW S, NEW t \in Seq(S), NEW b \in 1 .. Len(t), t[b] \in Letters, NEW j \in b .. Len(t)
    PROVE  Longer(t, b, j) <=> AllIn(t, b, j, Letters \cup Digits)
  <1>1. t[b] \notin Digits /\ \A d : ~Pairs(t[b], d)
    BY KindsApart
  <1>2. ~IsNumber(t, b, j)
    BY <1>1 DEF IsNumber, AllIn
  <1>3. SubSeq(t, b, j) \notin Punctuators
    BY <1>1, KindsApart, PunctuatorAt
  <1>4. j = b => AllIn(t, b, j, Letters \cup Digits)
    BY DEF AllIn
  <1> QED BY <1>2, <1>3, <1>4 DEF Longer, IsSym, IsWord

LEMMA SymGoes ==
    ASSUME NEW S, NEW t \in Seq(S), NEW b \in 1 .. Len(t), t[b] \notin Letters, t[b] \notin Digits,
           NEW j \in b .. Len(t)
    PROVE  Longer(t, b, j) <=> \/ j = b
                               \/ j = b + 1 /\ Pairs(t[b], t[b + 1])
                               \/ j = b + 2 /\ t[b] = "." /\ t[b + 1] = "." /\ t[b + 2] = "."
  <1>1. ~IsNumber(t, b, j) /\ ~IsWord(t, b, j)
    BY DEF IsNumber, AllIn, IsWord
  <1> QED BY <1>1, PunctuatorAt DEF Longer, IsSym

\* p is the place that closes a literal, or lies before it.
NotClosed(t, b, p) == \A k \in b + 1 .. p - 1 : t[k] = t[b] => Escaped(t, b, k)
Closes(t, b, p)    == t[p] = t[b] /\ ~Escaped(t, b, p)

LEMMA LiteralEnds ==
    ASSUME NEW t, Len(t) \in Nat, NEW b \in 1 .. Len(t)
    PROVE  /\ EndOfLiteral(t, b) \in b + 1 .. Len(t) + 1
           /\ \A p \in b + 1 .. Len(t) + 1 : NotClosed(t, b, p) =>
                 /\ p <= EndOfLiteral(t, b)
                 /\ p = Len(t) + 1 \/ Closes(t, b, p) => EndOfLiteral(t, b) = p
                 /\ p <= Len(t) /\ ~Closes(t, b, p) => p < EndOfLiteral(t, b)
  <1>1. PICK E : E = ClosesAt(t, b) \cup {Len(t) + 1}
    OBVIOUS
  <1>2. EndOfLiteral(t, b) = Min(E)
    BY <1>1 DEF EndOfLiteral
  <1>3. \A k : k \in E <=> k = Len(t) + 1 \/ (k \in b + 1 .. Len(t) /\ Closes(t, b, k))
    BY <1>1 DEF ClosesAt, Closes
  <1>4. E \subseteq b + 1 .. Len(t) + 1 /\ E # {} /\ E \subseteq Nat
    BY <1>1, <1>3
  <1>5. Min(E) \in E /\ \A k \in E : Min(E) <= k
    BY <1>4, LeastIn
  <1> SUFFICES ASSUME NEW p \in b + 1 .. Len(t) + 1, NotClosed(t, b, p)
               PROVE  /\ p <= Min(E)
                      /\ p = Len(t) + 1 \/ Closes(t, b, p) => Min(E) = p
                      /\ p <= Len(t) /\ ~Closes(t, b, p) => p < Min(E)
    BY <1>2, <1>4, <1>5
  <1>6. PICK e \in E : e = Min(E)
    BY <1>5
  <1>7. e \in b + 1 .. Len(t) + 1
    BY <1>4, <1>6
  <1>8. p <= e
    <2>1. CASE e < p
      <3>1. e \in b + 1 .. p - 1 /\ e # Len(t) + 1
        BY <1>7, <2>1
      <3>2. Closes(t, b, e)
        BY <1>3, <1>6, <3>1
      <3> QED BY <3>1, <3>2 DEF NotClosed, Closes
    <2> QED BY <1>7, <2>1
  <1>9. ASSUME p = Len(t) + 1 \/ Closes(t, b, p) PROVE e = p
    <2>1. p \in E
      BY <1>3, <1>9
    <2> QED BY <1>5, <1>6, <1>7, <1>8, <2>1
  <1>10. ASSUME p <= Len(t), ~Closes(t, b, p) PROVE p < e
    <2>1. p # e
      BY <1>3, <1>6, <1>10
    <2> QED BY <1>7, <1>8, <2>1
  <1> QED BY <1>6, <1>8, <1>9, <1>10

LEMMA BehindIn ==
    ASSUME NEW t, Len(t) \in Nat, NEW b \in 1 .. Len(t), FaultsAt(t, b) = {}
    PROVE  Behind(t, b) \in b + 1 .. Len(t) + 1
  <1>1. CASE t[b] \notin Quotes
    <2>1. LongestAt(t, b) \in b .. Len(t)
      BY LongestIs
    <2> QED BY <1>1, <2>1 DEF Behind
  <1>2. CASE t[b] \in Quotes
    <2>1. PICK e \in b + 1 .. Len(t) + 1 : e = EndOfLiteral(t, b)
      BY LiteralEnds
    <2>2. CASE e = Len(t) + 1
      <3>1. LiteralFaults(t, b) = {}
        BY <1>2 DEF FaultsAt
      <3>2. Escaped(t, b, e)
        <4>1. CASE ~Escaped(t, b, e)
          <5>1. <<e, "unterminated string/char literal">> \in LiteralFaults(t, b)
            BY <2>1, <2>2, <4>1 DEF LiteralFaults
          <5> QED BY <3>1, <5>1
        <4> QED BY <4>1
      <3>3. <<e, "unknown escape sequence">> \in LiteralFaults(t, b)
        BY <2>1, <2>2, <3>2 DEF LiteralFaults
      <3> QED BY <3>1, <3>3
    <2>3. CASE e # Len(t) + 1
      BY <1>2, <2>1, <2>3 DEF Behind
    <2> QED BY <2>2, <2>3
  <1> QED BY <1>1, <1>2

-----------------------------------------------------------------------------
(***************************************************************************)
(* The tokens of a text from a place on.                                   *)
(***************************************************************************)
IsFrom(f, t) == f = [i \in 1 .. Len(t) + 1 |-> TokensFrom(f, t, i)]
Froms(t)     == CHOOSE f : IsFrom(f, t)
From(t, i)   == Froms(t)[i]

LEMMA FromAgree ==
    ASSUME NEW t, Len(t) \in Nat, NEW f, NEW g, NEW i \in 1 .. Len(t) + 1,
           \A j \in i + 1 .. Len(t) + 1 : f[j] = g[j]
    PROVE  TokensFrom(f, t, i) = TokensFrom(g, t, i)
  <1>1. CASE i > Len(t)
    BY <1>1 DEF TokensFrom
  <1>2. CASE ~(i > Len(t))
    <2>1. i \in 1 .. Len(t) /\ i + 1 \in i + 1 .. Len(t) + 1
      BY <1>2
    <2>2. CommentAt(t, i) => f[EndOfLine(t, i)] = g[EndOfLine(t, i)]
      BY <2>1, LineEnds
    <2>3. FaultsAt(t, i) = {} => f[Behind(t, i)] = g[Behind(t, i)]
      BY <2>1, BehindIn
    <2> QED BY <2>1, <2>2, <2>3 DEF TokensFrom
  <1> QED BY <1>1, <1>2

LEMMA FromIs ==
    ASSUME NEW t, Len(t) \in Nat
    PROVE  \A i \in 1 .. Len(t) + 1 : From(t, i) = TokensFrom(Froms(t), t, i)
  <1> DEFINE N == Len(t) + 1
             Good(f, n) == \A i \in N + 1 - n .. N : i \in 1 .. N => f[i] = TokensFrom(f, t, i)
             T == {n \in Nat : \E f : Good(f, n)}
  <1>1. N \in Nat
    OBVIOUS
  <1>2. 0 \in T
    <2>1. N + 1 - 0 = N + 1 /\ \A i \in N + 1 .. N : FALSE
      OBVIOUS
    <2>2. \A f : Good(f, 0)
      BY <2>1
    <2> HIDE DEF Good
    <2> QED BY <2>2
  <1>3. ASSUME NEW n \in Nat, n \in T PROVE n + 1 \in T
    <2>1. PICK f : Good(f, n)
      BY <1>3
    <2> DEFINE g == [i \in 1 .. N |-> IF i = N - n THEN TokensFrom(f, t, i) ELSE f[i]]
    <2>2. \A i \in 1 .. N : i # N - n => g[i] = f[i]
      OBVIOUS
    <2>3. N - n \in 1 .. N => g[N - n] = TokensFrom(f, t, N - n)
      OBVIOUS
    <2> HIDE DEF g
    <2>4. ASSUME NEW i \in N + 1 - (n + 1) .. N, i \in 1 .. N
          PROVE  g[i] = TokensFrom(g, t, i)
      <3>1. \A j \in i + 1 .. N : f[j] = g[j]
        BY <1>1, <2>2, <2>4
      <3>2. TokensFrom(f, t, i) = TokensFrom(g, t, i)
        BY <2>4, <3>1, FromAgree
      <3>3. g[i] = TokensFrom(f, t, i)
        <4>1. CASE i = N - n
          BY <2>3, <2>4, <4>1
        <4>2. CASE i # N - n
          <5>1. i \in N + 1 - n .. N
            BY <1>1, <2>4, <4>2
          <5> QED BY <2>1, <2>2, <2>4, <4>2, <5>1
        <4> QED BY <4>1, <4>2
      <3> QED BY <3>2, <3>3
    <2>5. Good(g, n + 1)
      BY <2>4
    <2> HIDE DEF Good
    <2> QED BY <2>5
  <1>4. \A n \in Nat : n \in T
    <2> HIDE DEF T
    <2> QED BY <1>2, <1>3, Counting
  <1>5. PICK f : Good(f, N)
    BY <1>1, <1>4
  <1> DEFINE g == [i \in 1 .. N |-> f[i]]
  <1>6. \A i \in 1 .. N : f[i] = TokensFrom(f, t, i)
    <2>1. \A i \in 1 .. N : i \in N + 1 - N .. N
      BY <1>1
    <2> QED BY <1>5, <2>1
  <1>7. \A i \in 1 .. N : TokensFrom(f, t, i) = TokensFrom(g, t, i)
    <2> SUFFICES ASSUME NEW i \in 1 .. N PROVE TokensFrom(f, t, i) = TokensFrom(g, t, i)
      OBVIOUS
    <2>1. \A j \in i + 1 .. N : f[j] = g[j]
      OBVIOUS
    <2> HIDE DEF g
    <2> QED BY <2>1, FromAgree
  <1>8. g = [i \in 1 .. N |-> TokensFrom(g, t, i)]
    <2>1. \A i \in 1 .. N : f[i] = TokensFrom(g, t, i)
      BY <1>6, <1>7
    <2> HIDE DEF g
    <2>2. [i \in 1 .. N |-> f[i]] = [i \in 1 .. N |-> TokensFrom(g, t, i)]
      BY <2>1
    <2> QED BY <2>2 DEF g
  <1>9. IsFrom(g, t)
    BY <1>8 DEF IsFrom
  <1> HIDE DEF g
  <1>10. IsFrom(Froms(t), t)
    BY <1>9 DEF Froms
  <1> QED BY <1>10 DEF IsFrom, From

LEMMA TokensAre == \A t : Tokens(t) = From(t, 1)
  BY DEF Tokens, From, Froms, IsFrom

ErrorAt(t, f)  == Token("error", f[2], PosOf(t, f[1]), NoVal)
EofOf(t)       == Token("eof", Joined(<<>>), PosOf(t, Len(t) + 1), NoVal)
TokensOf(t)    == {TokenAt(t, i) : i \in 1 .. Len(t)} \cup {EofOf(t)}
                  \cup {ErrorAt(t, FirstFault(FaultsAt(t, i))) : i \in 1 .. Len(t)}

LEMMA FromTyped ==
    ASSUME NEW t, Len(t) \in Nat
    PROVE  \A i \in 1 .. Len(t) + 1 : From(t, i) \in Seq(TokensOf(t))
  <1> DEFINE N == Len(t) + 1
             T == {n \in Nat : \A i \in 1 .. N : i >= N - n => From(t, i) \in Seq(TokensOf(t))}
  <1>1. ASSUME NEW n \in Nat, \A i \in 1 .. N : i > N - n => From(t, i) \in Seq(TokensOf(t)),
               NEW i \in 1 .. N, i >= N - n
        PROVE  From(t, i) \in Seq(TokensOf(t))
    <2>1. From(t, i) = TokensFrom(Froms(t), t, i)
      BY FromIs
    <2>2. CASE i > Len(t)
      <3>1. i = Len(t) + 1
        BY <2>2
      <3>2. TokensFrom(Froms(t), t, i) = <<EofOf(t)>>
        BY <2>2, <3>1 DEF TokensFrom, EofOf
      <3>3. EofOf(t) \in TokensOf(t)
        BY DEF TokensOf
      <3> QED BY <2>1, <3>2, <3>3
    <2>3. CASE ~(i > Len(t))
      <3>1. i \in 1 .. Len(t)
        BY <2>3
      <3>2. \A j \in i + 1 .. N : From(t, j) \in Seq(TokensOf(t))
        BY <1>1
      <3>3. i + 1 \in i + 1 .. N
        BY <3>1
      <3>4. CASE t[i] \in Blanks
        <4>1. From(t, i) = From(t, i + 1)
          BY <2>1, <2>3, <3>4 DEF TokensFrom, From
        <4> QED BY <3>2, <3>3, <4>1
      <3>5. CASE t[i] \notin Blanks /\ CommentAt(t, i)
        <4>1. From(t, i) = From(t, EndOfLine(t, i))
          BY <2>1, <2>3, <3>5 DEF TokensFrom, From
        <4>2. EndOfLine(t, i) \in i + 1 .. N
          BY <3>1, <3>5, LineEnds
        <4> QED BY <3>2, <4>1, <4>2
      <3>6. CASE t[i] \notin Blanks /\ ~CommentAt(t, i) /\ FaultsAt(t, i) = {}
        <4>1. From(t, i) = <<TokenAt(t, i)>> \o From(t, Behind(t, i))
          BY <2>1, <2>3, <3>6 DEF TokensFrom, From
        <4>2. Behind(t, i) \in i + 1 .. N
          BY <3>1, <3>6, BehindIn
        <4>3. TokenAt(t, i) \in TokensOf(t)
          BY <3>1 DEF TokensOf
        <4>4. <<TokenAt(t, i)>> \in Seq(TokensOf(t)) /\ From(t, Behind(t, i)) \in Seq(TokensOf(t))
          BY <3>2, <4>2, <4>3
        <4> QED BY <4>1, <4>4, ConcatProperties
      <3>7. CASE t[i] \notin Blanks /\ ~CommentAt(t, i) /\ FaultsAt(t, i) # {}
        <4>1. From(t, i) = <<ErrorAt(t, FirstFault(FaultsAt(t, i)))>>
          BY <2>1, <2>3, <3>7 DEF TokensFrom, ErrorAt
        <4>2. ErrorAt(t, FirstFault(FaultsAt(t, i))) \in TokensOf(t)
          BY <3>1 DEF TokensOf
        <4> QED BY <4>1, <4>2
      <3> QED BY <3>4, <3>5, <3>6, <3>7
    <2> QED BY <2>2, <2>3
  <1>2. 0 \in T
    <2>1. ASSUME NEW i \in 1 .. N, i >= N - 0 PROVE From(t, i) \in Seq(TokensOf(t))
      <3>1. \A j \in 1 .. N : ~(j > N - 0)
        OBVIOUS
      <3>2. \A j \in 1 .. N : j > N - 0 => From(t, j) \in Seq(TokensOf(t))
        BY <3>1
      <3> QED BY <1>1, <2>1, <3>2
    <2> QED BY <2>1
  <1>3. ASSUME NEW n \in Nat, n \in T PROVE n + 1 \in T
    <2>1. \A i \in 1 .. N : i > N - (n + 1) => From(t, i) \in Seq(TokensOf(t))
      BY <1>3
    <2>2. n + 1 \in Nat
      OBVIOUS
    <2> QED BY <1>1, <2>1, <2>2
  <1>4. \A n \in Nat : n \in T
    <2> HIDE DEF T
    <2> QED BY <1>2, <1>3, Counting
  <1>5. N \in Nat /\ \A i \in 1 .. N : i >= N - N
    OBVIOUS
  <1> QED BY <1>4, <1>5

LEMMA FromCases ==
    ASSUME NEW t, Len(t) \in Nat
    PROVE  /\ From(t, Len(t) + 1) = <<EofOf(t)>>
           /\ \A i \in 1 .. Len(t) :
                 /\ \A n \in Nat : t[i] \in Blanks /\ n = i + 1 => From(t, i) = From(t, n)
                 /\ t[i] \notin Blanks /\ CommentAt(t, i) => From(t, i) = From(t, EndOfLine(t, i))
                 /\ t[i] \notin Blanks /\ ~CommentAt(t, i) /\ FaultsAt(t, i) = {} =>
                       From(t, i) = <<TokenAt(t, i)>> \o From(t, Behind(t, i))
                 /\ t[i] \notin Blanks /\ ~CommentAt(t, i) /\ FaultsAt(t, i) # {} =>
                       From(t, i) = <<ErrorAt(t, FirstFault(FaultsAt(t, i)))>>
  <1>1. From(t, Len(t) + 1) = <<EofOf(t)>>
    <2>1. PICK n \in 1 .. Len(t) + 1 : n = Len(t) + 1
      OBVIOUS
    <2>2. From(t, n) = TokensFrom(Froms(t), t, n)
      BY FromIs
    <2>3. n > Len(t)
      BY <2>1
    <2>4. TokensFrom(Froms(t), t, n) = <<Token("eof", Joined(<<>>), PosOf(t, n), NoVal)>>
      BY <2>3 DEF TokensFrom
    <2> QED BY <2>1, <2>2, <2>4 DEF EofOf
  <1>2. ASSUME NEW i \in 1 .. Len(t)
        PROVE  /\ \A n \in Nat : t[i] \in Blanks /\ n = i + 1 => From(t, i) = From(t, n)
               /\ t[i] \notin Blanks /\ CommentAt(t, i) => From(t, i) = From(t, EndOfLine(t, i))
               /\ t[i] \notin Blanks /\ ~CommentAt(t, i) /\ FaultsAt(t, i) = {} =>
                     From(t, i) = <<TokenAt(t, i)>> \o From(t, Behind(t, i))
               /\ t[i] \notin Blanks /\ ~CommentAt(t, i) /\ FaultsAt(t, i) # {} =>
                     From(t, i) = <<ErrorAt(t, FirstFault(FaultsAt(t, i)))>>
    <2>1. From(t, i) = TokensFrom(Froms(t), t, i) /\ ~(i > Len(t))
      BY FromIs
    <2>2. ASSUME NEW n \in Nat, t[i] \in Blanks, n = i + 1 PROVE From(t, i) = From(t, n)
      BY <2>1, <2>2 DEF TokensFrom, From
    <2>3. ASSUME t[i] \notin Blanks, CommentAt(t, i) PROVE From(t, i) = From(t, EndOfLine(t, i))
      BY <2>1, <2>3 DEF TokensFrom, From
    <2>4. ASSUME t[i] \notin Blanks, ~CommentAt(t, i), FaultsAt(t, i) = {}
          PROVE  From(t, i) = <<TokenAt(t, i)>> \o From(t, Behind(t, i))
      BY <2>1, <2>4 DEF TokensFrom, From
    <2>5. ASSUME t[i] \notin Blanks, ~CommentAt(t, i), FaultsAt(t, i) # {}
          PROVE  From(t, i) = <<ErrorAt(t, FirstFault(FaultsAt(t, i)))>>
      BY <2>1, <2>5 DEF TokensFrom, ErrorAt
    <2> QED BY <2>2, <2>3, <2>4, <2>5
  <1> QED BY <1>1, <1>2

-----------------------------------------------------------------------------
(***************************************************************************)
(* What is wrong with a token, and where.                                  *)
(***************************************************************************)
Units(t, b, k) == Cardinality(UnitsOf(t, b, k))

LitFault(t, b, k, why) ==
    LET end == EndOfLiteral(t, b)
    IN  \/ /\ why = "unknown escape sequence"
           /\ k \in b + 1 .. end /\ Escaped(t, b, k) /\ (k <= Len(t) => ~IsEscape(t[k]))
        \/ /\ why = "unterminated string/char literal"
           /\ k = end /\ k = Len(t) + 1 /\ ~Escaped(t, b, k)
        \/ /\ why = "too many characters in char literal"
           /\ k \in UnitsOf(t, b, end) /\ t[b] = "'" /\ Units(t, b, k) = 1
        \/ /\ why = "string/char literal too long"
           /\ k \in UnitsOf(t, b, end) /\ t[b] = "\"" /\ Units(t, b, k) = MAX_TOK_LEN
        \/ /\ why = "empty char literal"
           /\ k = end /\ t[b] = "'" /\ UnitsOf(t, b, end) = {} /\ k <= Len(t)

Overflow(t, b, k) == t[b] \in Digits /\ t[k] \in Digits /\ Worth(t, b, k) > ULONG_MAX

PlainFault(t, b, k, why) ==
    \/ why = "integer literal overflow" /\ k \in b .. LongestAt(t, b) /\ Overflow(t, b, k)
    \/ why = "token too long" /\ k = b + MAX_TOK_LEN /\ k <= LongestAt(t, b) /\ ~Overflow(t, b, k)

FaultAt(t, b, k, why) == IF t[b] \in Quotes THEN LitFault(t, b, k, why) ELSE PlainFault(t, b, k, why)

LEMMA LiteralFaultsAre ==
    ASSUME NEW t, Len(t) \in Nat, NEW b \in 1 .. Len(t), NEW g
    PROVE  g \in LiteralFaults(t, b) <=> \E why : \E k \in Nat : g = <<k, why>> /\ LitFault(t, b, k, why)
  <1> DEFINE end   == EndOfLiteral(t, b)
             units == UnitsOf(t, b, end)
             A == {j \in b + 1 .. end : Escaped(t, b, j) /\ (j <= Len(t) => ~IsEscape(t[j]))}
             B == {j \in {end} : j = Len(t) + 1 /\ ~Escaped(t, b, j)}
             C == {j \in units : t[b] = "'" /\ Units(t, b, j) = 1}
             D == {j \in units : t[b] = "\"" /\ Units(t, b, j) = MAX_TOK_LEN}
             E == {j \in {end} : t[b] = "'" /\ units = {} /\ j <= Len(t)}
  <1>1. end \in b + 1 .. Len(t) + 1
    BY LiteralEnds
  <1>2. ASSUME NEW j \in units PROVE Cardinality({i \in units : i < j}) = Units(t, b, j)
    <2>1. j \in b + 1 .. end - 1
      BY DEF UnitsOf
    <2>2. \A i \in Int : (i \in b + 1 .. end - 1 /\ i < j) <=> i \in b + 1 .. j - 1
      BY <1>1, <2>1
    <2>3. {i \in units : i < j} = UnitsOf(t, b, j)
      <3> HIDE DEF end
      <3> QED BY <2>2 DEF UnitsOf
    <2> QED BY <2>3 DEF Units
  <1>3. /\ {j \in units : t[b] = "'" /\ Cardinality({i \in units : i < j}) = 1} = C
        /\ {j \in units : t[b] = "\"" /\ Cardinality({i \in units : i < j}) = MAX_TOK_LEN} = D
    <2> HIDE DEF units
    <2> QED BY <1>2
  <1>4. LiteralFaults(t, b) = {<<k, "unknown escape sequence">> : k \in A}
                              \cup {<<k, "unterminated string/char literal">> : k \in B}
                              \cup {<<k, "too many characters in char literal">> : k \in C}
                              \cup {<<k, "string/char literal too long">> : k \in D}
                              \cup {<<k, "empty char literal">> : k \in E}
    BY <1>3 DEF LiteralFaults
  <1>5. \A k : /\ k \in A <=> k \in b + 1 .. end /\ Escaped(t, b, k) /\ (k <= Len(t) => ~IsEscape(t[k]))
               /\ k \in B <=> k = end /\ k = Len(t) + 1 /\ ~Escaped(t, b, k)
               /\ k \in C <=> k \in units /\ t[b] = "'" /\ Units(t, b, k) = 1
               /\ k \in D <=> k \in units /\ t[b] = "\"" /\ Units(t, b, k) = MAX_TOK_LEN
               /\ k \in E <=> k = end /\ t[b] = "'" /\ units = {} /\ k <= Len(t)
    OBVIOUS
  <1>6. \A k : k \in A \/ k \in B \/ k \in C \/ k \in D \/ k \in E => k \in Nat
    <2>1. units \subseteq Nat /\ b + 1 .. end \subseteq Nat /\ end \in Nat
      BY <1>1 DEF UnitsOf
    <2> QED BY <1>5, <2>1
  <1>7. \A k, why : LitFault(t, b, k, why) <=>
                       \/ why = "unknown escape sequence" /\ k \in A
                       \/ why = "unterminated string/char literal" /\ k \in B
                       \/ why = "too many characters in char literal" /\ k \in C
                       \/ why = "string/char literal too long" /\ k \in D
                       \/ why = "empty char literal" /\ k \in E
    BY <1>5 DEF LitFault
  <1> HIDE DEF A, B, C, D, E
  <1>8. ASSUME g \in LiteralFaults(t, b) PROVE \E why : \E k \in Nat : g = <<k, why>> /\ LitFault(t, b, k, why)
    <2>1. ASSUME NEW k \in A, g = <<k, "unknown escape sequence">> PROVE \E why : \E j \in Nat : g = <<j, why>> /\ LitFault(t, b, j, why)
      <3>1. k \in Nat /\ LitFault(t, b, k, "unknown escape sequence")
        BY <1>6, <1>7
      <3> QED BY <2>1, <3>1
    <2>2. ASSUME NEW k \in B, g = <<k, "unterminated string/char literal">> PROVE \E why : \E j \in Nat : g = <<j, why>> /\ LitFault(t, b, j, why)
      <3>1. k \in Nat /\ LitFault(t, b, k, "unterminated string/char literal")
        BY <1>6, <1>7
      <3> QED BY <2>2, <3>1
    <2>3. ASSUME NEW k \in C, g = <<k, "too many characters in char literal">> PROVE \E why : \E j \in Nat : g = <<j, why>> /\ LitFault(t, b, j, why)
      <3>1. k \in Nat /\ LitFault(t, b, k, "too many characters in char literal")
        BY <1>6, <1>7
      <3> QED BY <2>3, <3>1
    <2>4. ASSUME NEW k \in D, g = <<k, "string/char literal too long">> PROVE \E why : \E j \in Nat : g = <<j, why>> /\ LitFault(t, b, j, why)
      <3>1. k \in Nat /\ LitFault(t, b, k, "string/char literal too long")
        BY <1>6, <1>7
      <3> QED BY <2>4, <3>1
    <2>5. ASSUME NEW k \in E, g = <<k, "empty char literal">> PROVE \E why : \E j \in Nat : g = <<j, why>> /\ LitFault(t, b, j, why)
      <3>1. k \in Nat /\ LitFault(t, b, k, "empty char literal")
        BY <1>6, <1>7
      <3> QED BY <2>5, <3>1
    <2> QED BY <1>4, <1>8, <2>1, <2>2, <2>3, <2>4, <2>5
  <1>9. ASSUME NEW k \in Nat, NEW why, g = <<k, why>>, LitFault(t, b, k, why) PROVE g \in LiteralFaults(t, b)
    <2>1. CASE why = "unknown escape sequence" /\ k \in A
      BY <1>4, <1>9, <2>1
    <2>2. CASE why = "unterminated string/char literal" /\ k \in B
      BY <1>4, <1>9, <2>2
    <2>3. CASE why = "too many characters in char literal" /\ k \in C
      BY <1>4, <1>9, <2>3
    <2>4. CASE why = "string/char literal too long" /\ k \in D
      BY <1>4, <1>9, <2>4
    <2>5. CASE why = "empty char literal" /\ k \in E
      BY <1>4, <1>9, <2>5
    <2> QED BY <1>7, <1>9, <2>1, <2>2, <2>3, <2>4, <2>5
  <1> QED BY <1>8, <1>9

LEMMA PlainFaultsAre ==
    ASSUME NEW t, Len(t) \in Nat, NEW b \in 1 .. Len(t), t[b] \notin Quotes, NEW g
    PROVE  g \in FaultsAt(t, b) <=> \E why : \E k \in Nat : g = <<k, why>> /\ PlainFault(t, b, k, why)
  <1> DEFINE A == {j \in b .. LongestAt(t, b) : Overflow(t, b, j)}
             B == {j \in {b + MAX_TOK_LEN} : j <= LongestAt(t, b) /\ ~Overflow(t, b, j)}
             own == IF t[b] \in Digits THEN NumberFaults(t, b) ELSE {}
             C == {j \in {b + MAX_TOK_LEN} : j <= LongestAt(t, b) /\ \A f \in own : f[1] # j}
  <1>1. own = {<<k, "integer literal overflow">> : k \in A}
    <2>1. CASE t[b] \in Digits
      <3>1. A = {j \in b .. LongestAt(t, b) : t[j] \in Digits /\ Worth(t, b, j) > ULONG_MAX}
        BY <2>1 DEF Overflow
      <3> QED BY <2>1, <3>1 DEF NumberFaults
    <2>2. CASE t[b] \notin Digits
      <3>1. A = {}
        BY <2>2 DEF Overflow
      <3> QED BY <2>2, <3>1
    <2> QED BY <2>1, <2>2
  <1>2. FaultsAt(t, b) = own \cup {<<k, "token too long">> : k \in C}
    BY DEF FaultsAt
  <1>3. C = B
    <2>1. ASSUME NEW j, j = b + MAX_TOK_LEN, j <= LongestAt(t, b)
          PROVE  (\A f \in own : f[1] # j) <=> ~Overflow(t, b, j)
      <3>1. j \in b .. LongestAt(t, b)
        BY <2>1, TokensAssumption, LongestIs
      <3>2. j \in A <=> Overflow(t, b, j)
        BY <3>1
      <3>3. (\A f \in own : f[1] # j) <=> j \notin A
        <4> HIDE DEF A, own
        <4>1. \A f \in own : \E k \in A : f = <<k, "integer literal overflow">>
          BY <1>1
        <4>2. ASSUME j \in A PROVE \E f \in own : f[1] = j
          <5>1. <<j, "integer literal overflow">> \in own
            BY <1>1, <4>2
          <5>2. <<j, "integer literal overflow">>[1] = j
            OBVIOUS
          <5> QED BY <5>1, <5>2
        <4>3. ASSUME NEW f \in own, f[1] = j PROVE j \in A
          <5>1. PICK k \in A : f = <<k, "integer literal overflow">>
            BY <4>1
          <5>2. f[1] = k
            BY <5>1
          <5> QED BY <4>3, <5>2
        <4> QED BY <4>2, <4>3
      <3> QED BY <3>2, <3>3
    <2> HIDE DEF own
    <2> QED BY <2>1
  <1>4. \A k : /\ k \in A <=> k \in b .. LongestAt(t, b) /\ Overflow(t, b, k)
               /\ k \in B <=> k = b + MAX_TOK_LEN /\ k <= LongestAt(t, b) /\ ~Overflow(t, b, k)
    OBVIOUS
  <1>5. \A k : k \in A \/ k \in B => k \in Nat
    BY LongestIs, TokensAssumption
  <1>6. \A k, why : PlainFault(t, b, k, why) <=>
                       \/ why = "integer literal overflow" /\ k \in A
                       \/ why = "token too long" /\ k \in B
    BY <1>4 DEF PlainFault
  <1> HIDE DEF A, B, C, own
  <1>7. FaultsAt(t, b) = {<<k, "integer literal overflow">> : k \in A} \cup {<<k, "token too long">> : k \in B}
    BY <1>1, <1>2, <1>3
  <1>8. ASSUME g \in FaultsAt(t, b) PROVE \E why : \E k \in Nat : g = <<k, why>> /\ PlainFault(t, b, k, why)
    <2>1. ASSUME NEW k \in A, g = <<k, "integer literal overflow">> PROVE \E why : \E j \in Nat : g = <<j, why>> /\ PlainFault(t, b, j, why)
      <3>1. k \in Nat /\ PlainFault(t, b, k, "integer literal overflow")
        BY <1>5, <1>6
      <3> QED BY <2>1, <3>1
    <2>2. ASSUME NEW k \in B, g = <<k, "token too long">> PROVE \E why : \E j \in Nat : g = <<j, why>> /\ PlainFault(t, b, j, why)
      <3>1. k \in Nat /\ PlainFault(t, b, k, "token too long")
        BY <1>5, <1>6
      <3> QED BY <2>2, <3>1
    <2> QED BY <1>7, <1>8, <2>1, <2>2
  <1>9. ASSUME NEW k \in Nat, NEW why, g = <<k, why>>, PlainFault(t, b, k, why) PROVE g \in FaultsAt(t, b)
    <2>1. CASE why = "integer literal overflow" /\ k \in A
      BY <1>7, <1>9, <2>1
    <2>2. CASE why = "token too long" /\ k \in B
      BY <1>7, <1>9, <2>2
    <2> QED BY <1>6, <1>9, <2>1, <2>2
  <1> QED BY <1>8, <1>9

LEMMA FaultsAre ==
    ASSUME NEW t, Len(t) \in Nat, NEW b \in 1 .. Len(t), NEW g
    PROVE  g \in FaultsAt(t, b) <=> \E why : \E k \in Nat : g = <<k, why>> /\ FaultAt(t, b, k, why)
  <1>1. CASE t[b] \in Quotes
    BY <1>1, LiteralFaultsAre DEF FaultsAt, FaultAt
  <1>2. CASE t[b] \notin Quotes
    BY <1>2, PlainFaultsAre DEF FaultAt
  <1> QED BY <1>1, <1>2

LEMMA NoFaultIs ==
    ASSUME NEW t, Len(t) \in Nat, NEW b \in 1 .. Len(t), \A k \in Nat : \A why : ~FaultAt(t, b, k, why)
    PROVE  FaultsAt(t, b) = {}
  BY FaultsAre

LEMMA ErrorIs ==
    ASSUME NEW t, Len(t) \in Nat, NEW b \in 1 .. Len(t), t[b] \notin Blanks, ~CommentAt(t, b),
           NEW p \in Nat, NEW why, FaultAt(t, b, p, why),
           \A k \in Nat : \A w : FaultAt(t, b, k, w) => k >= p /\ (k = p => w = why)
    PROVE  From(t, b) = <<Token("error", why, PosOf(t, p), NoVal)>>
  <1>1. PICK faults : faults = FaultsAt(t, b)
    OBVIOUS
  <1>2. PICK f : f = <<p, why>>
    OBVIOUS
  <1>3. f \in faults
    BY <1>1, <1>2, FaultsAre
  <1>4. ASSUME NEW g \in faults PROVE f[1] <= g[1] /\ (g[1] <= f[1] => g = f)
    <2>1. PICK w : \E k \in Nat : g = <<k, w>> /\ FaultAt(t, b, k, w)
      BY <1>1, FaultsAre
    <2> PICK k \in Nat : g = <<k, w>> /\ FaultAt(t, b, k, w)
      BY <2>1
    <2>2. k >= p /\ (k = p => w = why)
      BY <2>1
    <2>3. f[1] = p /\ g[1] = k
      BY <1>2, <2>1
    <2> QED BY <1>2, <2>1, <2>2, <2>3
  <1>5. \A x \in faults : (\A g \in faults : x[1] <= g[1]) => x = f
    BY <1>3, <1>4
  <1>6. FirstFault(faults) \in faults /\ \A g \in faults : FirstFault(faults)[1] <= g[1]
    BY <1>3, <1>4 DEF FirstFault
  <1>7. FirstFault(faults) = f
    BY <1>5, <1>6
  <1>8. From(t, b) = <<ErrorAt(t, f)>>
    BY <1>1, <1>3, <1>7, FromCases
  <1>9. f[1] = p /\ f[2] = why
    BY <1>2
  <1> QED BY <1>8, <1>9 DEF ErrorAt

\* The places up to p begin a literal that is right so far.
Most(c) == IF c = "'" THEN 1 ELSE MAX_TOK_LEN
RightSoFar(t, b, p) ==
    /\ t[b] \in Quotes /\ p \in b + 1 .. Len(t) + 1
    /\ \A k \in b + 1 .. p - 1 : IF Escaped(t, b, k) THEN IsEscape(t[k]) ELSE t[k] # t[b]
    /\ Units(t, b, p) <= Most(t[b])

LEMMA RightIsQuiet ==
    ASSUME NEW t, Len(t) \in Nat, NEW b \in 1 .. Len(t), NEW p \in Nat, RightSoFar(t, b, p),
           NEW end, end = EndOfLiteral(t, b)
    PROVE  /\ end \in p .. Len(t) + 1
           /\ p = Len(t) + 1 \/ Closes(t, b, p) => end = p
           /\ p <= Len(t) /\ ~Closes(t, b, p) => end > p
           /\ \A k \in Nat : \A why : LitFault(t, b, k, why) => k >= p
  <1>1. p \in b + 1 .. Len(t) + 1 /\ NotClosed(t, b, p)
    BY DEF RightSoFar, NotClosed
  <1>2. /\ end \in b + 1 .. Len(t) + 1 /\ p <= end
        /\ p = Len(t) + 1 \/ Closes(t, b, p) => end = p
        /\ p <= Len(t) /\ ~Closes(t, b, p) => end > p
    BY <1>1, LiteralEnds
  <1>3. end \in p .. Len(t) + 1
    BY <1>1, <1>2
  <1>4. ASSUME NEW k \in Nat, k < p, k \in UnitsOf(t, b, end) PROVE Units(t, b, k) < Units(t, b, p)
    <2>1. k \in b + 1 .. p - 1 /\ ~Escaped(t, b, k)
      BY <1>3, <1>4 DEF UnitsOf
    <2>2. UnitsOf(t, b, k) \cup {k} \subseteq UnitsOf(t, b, p)
      BY <2>1 DEF UnitsOf
    <2>3. /\ IsFiniteSet(UnitsOf(t, b, k)) /\ k \notin UnitsOf(t, b, k)
          /\ Cardinality(UnitsOf(t, b, k)) \in Nat
      <3>1. k >= b
        BY <2>1
      <3> QED BY <3>1, UnitsAre
    <2>4. IsFiniteSet(UnitsOf(t, b, p)) /\ Cardinality(UnitsOf(t, b, p)) \in Nat
      <3>1. p >= b
        BY <1>1
      <3> QED BY <3>1, UnitsAre
    <2>5. Cardinality(UnitsOf(t, b, k) \cup {k}) = Cardinality(UnitsOf(t, b, k)) + 1
      BY <2>3, FS_AddElement
    <2>6. Cardinality(UnitsOf(t, b, k) \cup {k}) <= Cardinality(UnitsOf(t, b, p))
      BY <2>2, <2>4, FS_Subset
    <2> QED BY <2>3, <2>4, <2>5, <2>6 DEF Units
  <1>5. ASSUME NEW k \in Nat, NEW why, LitFault(t, b, k, why), k < p PROVE FALSE
    <2>1. CASE k \in b + 1 .. end /\ Escaped(t, b, k) /\ (k <= Len(t) => ~IsEscape(t[k]))
      <3>1. k \in b + 1 .. p - 1 /\ k <= Len(t)
        BY <1>1, <1>5, <2>1
      <3> QED BY <2>1, <3>1 DEF RightSoFar
    <2>2. CASE k = end
      BY <1>3, <1>5, <2>2
    <2>3. CASE k \in UnitsOf(t, b, end) /\ Units(t, b, k) = Most(t[b])
      <3>1. Most(t[b]) < Units(t, b, p)
        BY <1>4, <1>5, <2>3
      <3>2. Units(t, b, p) <= Most(t[b])
        BY DEF RightSoFar
      <3>3. Most(t[b]) \in Nat
        BY TokensAssumption DEF Most
      <3>4. Units(t, b, p) \in Nat
        <4>1. p >= b
          BY <1>1
        <4> QED BY <4>1, UnitsAre DEF Units
      <3> QED BY <3>1, <3>2, <3>3, <3>4
    <2>4. t[b] = "'" \/ t[b] = "\""
      BY DEF RightSoFar, Quotes
    <2> QED BY <1>5, <2>1, <2>2, <2>3, <2>4 DEF LitFault, Most
  <1> QED BY <1>2, <1>3, <1>5

LEMMA LiteralOk ==
    ASSUME NEW t, Len(t) \in Nat, NEW b \in 1 .. Len(t), NEW p \in Nat, RightSoFar(t, b, p),
           p <= Len(t), Closes(t, b, p), t[b] = "'" => UnitsOf(t, b, p) # {}
    PROVE  FaultsAt(t, b) = {} /\ EndOfLiteral(t, b) = p
  <1>1. PICK end : end = EndOfLiteral(t, b)
    OBVIOUS
  <1>2. end = p /\ \A k \in Nat : \A why : LitFault(t, b, k, why) => k >= p
    BY <1>1, RightIsQuiet
  <1>3. ASSUME NEW k \in Nat, NEW why, LitFault(t, b, k, why) PROVE FALSE
    <2>1. k >= p
      BY <1>2, <1>3
    <2>2. k \notin UnitsOf(t, b, end)
      BY <1>2, <2>1 DEF UnitsOf
    <2>3. k = p => ~Escaped(t, b, k)
      BY DEF Closes
    <2>4. k \in b + 1 .. end => k = p
      BY <1>2, <2>1
    <2>5. k = end => k # Len(t) + 1
      BY <1>2
    <2> QED BY <1>1, <1>2, <1>3, <2>2, <2>3, <2>4, <2>5 DEF LitFault
  <1>4. t[b] \in Quotes
    BY DEF RightSoFar
  <1> QED BY <1>1, <1>2, <1>3, <1>4, NoFaultIs DEF FaultAt

LEMMA LiteralWrong ==
    ASSUME NEW t, Len(t) \in Nat, NEW b \in 1 .. Len(t), NEW p \in Nat, RightSoFar(t, b, p), NEW why,
           LitFault(t, b, p, why), \A w : LitFault(t, b, p, w) => w = why
    PROVE  From(t, b) = <<Token("error", why, PosOf(t, p), NoVal)>>
  <1>1. t[b] \in Quotes
    BY DEF RightSoFar
  <1>2. t[b] \notin Blanks /\ ~CommentAt(t, b)
    BY <1>1, KindsApart DEF CommentAt
  <1>3. \A k \in Nat : \A w : LitFault(t, b, k, w) => k >= p
    <2>1. PICK end : end = EndOfLiteral(t, b)
      OBVIOUS
    <2> QED BY <2>1, RightIsQuiet
  <1>4. FaultAt(t, b, p, why) /\ \A k \in Nat : \A w : FaultAt(t, b, k, w) => k >= p /\ (k = p => w = why)
    BY <1>1, <1>3 DEF FaultAt
  <1> QED BY <1>2, <1>4, ErrorIs

\* The complaints at the place p of a literal that is right up to there.
LEMMA LiteralComplaints ==
    ASSUME NEW t, Len(t) \in Nat, NEW b \in 1 .. Len(t), NEW p \in Nat, RightSoFar(t, b, p)
    PROVE  /\ Escaped(t, b, p) /\ (p <= Len(t) => ~IsEscape(t[p])) /\ UnitsOf(t, b, p) # {} =>
                From(t, b) = <<Token("error", "unknown escape sequence", PosOf(t, p), NoVal)>>
           /\ ~Escaped(t, b, p) /\ p = Len(t) + 1 =>
                From(t, b) = <<Token("error", "unterminated string/char literal", PosOf(t, p), NoVal)>>
           /\ ~Escaped(t, b, p) /\ p <= Len(t) /\ t[p] # t[b] /\ t[b] = "'" /\ Units(t, b, p) = 1 =>
                From(t, b) = <<Token("error", "too many characters in char literal", PosOf(t, p), NoVal)>>
           /\ ~Escaped(t, b, p) /\ p <= Len(t) /\ t[p] # t[b] /\ t[b] = "\"" /\ Units(t, b, p) = MAX_TOK_LEN =>
                From(t, b) = <<Token("error", "string/char literal too long", PosOf(t, p), NoVal)>>
           /\ Closes(t, b, p) /\ p <= Len(t) /\ t[b] = "'" /\ UnitsOf(t, b, p) = {} =>
                From(t, b) = <<Token("error", "empty char literal", PosOf(t, p), NoVal)>>
  <1>1. PICK end : end = EndOfLiteral(t, b)
    OBVIOUS
  <1>2. /\ end \in p .. Len(t) + 1
        /\ p = Len(t) + 1 \/ Closes(t, b, p) => end = p
        /\ p <= Len(t) /\ ~Closes(t, b, p) => end > p
    BY <1>1, RightIsQuiet
  <1>3. p \in b + 1 .. Len(t) + 1
    BY DEF RightSoFar
  <1>4. p \in UnitsOf(t, b, end) <=> ~Escaped(t, b, p) /\ p < end
    BY <1>2, <1>3 DEF UnitsOf
  <1>5. \A w : LitFault(t, b, p, w) <=>
          \/ w = "unknown escape sequence" /\ Escaped(t, b, p) /\ (p <= Len(t) => ~IsEscape(t[p]))
          \/ w = "unterminated string/char literal" /\ p = end /\ p = Len(t) + 1 /\ ~Escaped(t, b, p)
          \/ w = "too many characters in char literal" /\ ~Escaped(t, b, p) /\ p < end /\ t[b] = "'"
             /\ Units(t, b, p) = 1
          \/ w = "string/char literal too long" /\ ~Escaped(t, b, p) /\ p < end /\ t[b] = "\""
             /\ Units(t, b, p) = MAX_TOK_LEN
          \/ w = "empty char literal" /\ p = end /\ t[b] = "'" /\ UnitsOf(t, b, end) = {} /\ p <= Len(t)
    <2>1. p \in b + 1 .. end
      BY <1>2, <1>3
    <2> QED BY <1>1, <1>4, <2>1 DEF LitFault
  <1>6. ASSUME Escaped(t, b, p), p <= Len(t) => ~IsEscape(t[p]), UnitsOf(t, b, p) # {}
        PROVE  From(t, b) = <<Token("error", "unknown escape sequence", PosOf(t, p), NoVal)>>
    <2>1. LitFault(t, b, p, "unknown escape sequence")
      BY <1>5, <1>6
    <2>2. \A w : LitFault(t, b, p, w) => w = "unknown escape sequence"
      BY <1>5, <1>6
    <2> QED BY <2>1, <2>2, LiteralWrong
  <1>7. ASSUME ~Escaped(t, b, p), p = Len(t) + 1
        PROVE  From(t, b) = <<Token("error", "unterminated string/char literal", PosOf(t, p), NoVal)>>
    <2>1. p = end /\ ~(p < end) /\ ~(p <= Len(t))
      BY <1>2, <1>7
    <2>2. LitFault(t, b, p, "unterminated string/char literal")
      BY <1>5, <1>7, <2>1
    <2>3. \A w : LitFault(t, b, p, w) => w = "unterminated string/char literal"
      BY <1>5, <1>7, <2>1
    <2> QED BY <2>2, <2>3, LiteralWrong
  <1>8. ASSUME ~Escaped(t, b, p), p <= Len(t), t[p] # t[b], t[b] = "'", Units(t, b, p) = 1
        PROVE  From(t, b) = <<Token("error", "too many characters in char literal", PosOf(t, p), NoVal)>>
    <2>1. p < end /\ p # end /\ t[b] # "\""
      BY <1>2, <1>8 DEF Closes
    <2>2. LitFault(t, b, p, "too many characters in char literal")
      BY <1>5, <1>8, <2>1
    <2>3. \A w : LitFault(t, b, p, w) => w = "too many characters in char literal"
      BY <1>5, <1>8, <2>1
    <2> QED BY <2>2, <2>3, LiteralWrong
  <1>9. ASSUME ~Escaped(t, b, p), p <= Len(t), t[p] # t[b], t[b] = "\"", Units(t, b, p) = MAX_TOK_LEN
        PROVE  From(t, b) = <<Token("error", "string/char literal too long", PosOf(t, p), NoVal)>>
    <2>1. p < end /\ p # end /\ t[b] # "'"
      <3>1. ~Closes(t, b, p)
        BY <1>9 DEF Closes
      <3>2. t[b] # "'"
        BY <1>9
      <3>3. p <= Len(t)
        BY <1>9
      <3>4. p < end /\ p # end
        BY <1>2, <3>1, <3>3
      <3> QED BY <3>2, <3>4
    <2>2. LitFault(t, b, p, "string/char literal too long")
      BY <1>5, <1>9, <2>1
    <2>3. \A w : LitFault(t, b, p, w) => w = "string/char literal too long"
      BY <1>5, <1>9, <2>1
    <2> QED BY <2>2, <2>3, LiteralWrong
  <1>10. ASSUME Closes(t, b, p), p <= Len(t), t[b] = "'", UnitsOf(t, b, p) = {}
         PROVE  From(t, b) = <<Token("error", "empty char literal", PosOf(t, p), NoVal)>>
    <2>1. p = end /\ ~(p < end) /\ p # Len(t) + 1 /\ ~Escaped(t, b, p)
      BY <1>2, <1>10 DEF Closes
    <2>2. LitFault(t, b, p, "empty char literal")
      BY <1>5, <1>10, <2>1
    <2>3. \A w : LitFault(t, b, p, w) => w = "empty char literal"
      BY <1>5, <1>10, <2>1
    <2> QED BY <2>2, <2>3, LiteralWrong
  <1> QED BY <1>6, <1>7, <1>8, <1>9, <1>10

LEMMA PlainWrong ==
    ASSUME NEW t, Len(t) \in Nat, NEW b \in 1 .. Len(t), t[b] \notin Quotes, t[b] \notin Blanks, ~CommentAt(t, b),
           NEW p \in Nat, p >= b, p <= LongestAt(t, b), p <= b + MAX_TOK_LEN, \A k \in b .. p - 1 : ~Overflow(t, b, k)
    PROVE  /\ Overflow(t, b, p) =>
                From(t, b) = <<Token("error", "integer literal overflow", PosOf(t, p), NoVal)>>
           /\ ~Overflow(t, b, p) /\ p = b + MAX_TOK_LEN =>
                From(t, b) = <<Token("error", "token too long", PosOf(t, p), NoVal)>>
  <1>1. LongestAt(t, b) \in b .. Len(t) /\ MAX_TOK_LEN \in Nat
    BY LongestIs, TokensAssumption
  <1>2. \A k, w : FaultAt(t, b, k, w) <=> PlainFault(t, b, k, w)
    BY DEF FaultAt
  <1>3. ASSUME NEW k \in Nat, NEW w, PlainFault(t, b, k, w) PROVE k >= p
    <2>1. CASE k \in b .. LongestAt(t, b) /\ Overflow(t, b, k)
      <3>1. k \notin b .. p - 1 /\ k >= b
        BY <2>1
      <3> QED BY <3>1
    <2>2. CASE k = b + MAX_TOK_LEN
      BY <1>1, <2>2
    <2> QED BY <1>3, <2>1, <2>2 DEF PlainFault
  <1>4. ASSUME Overflow(t, b, p)
        PROVE  From(t, b) = <<Token("error", "integer literal overflow", PosOf(t, p), NoVal)>>
    <2>1. p \in b .. LongestAt(t, b)
      BY <1>1
    <2>2. PlainFault(t, b, p, "integer literal overflow")
      BY <1>4, <2>1 DEF PlainFault
    <2>3. \A w : PlainFault(t, b, p, w) => w = "integer literal overflow"
      BY <1>4 DEF PlainFault
    <2>4. \A k \in Nat : \A w : FaultAt(t, b, k, w) => k >= p /\ (k = p => w = "integer literal overflow")
      BY <1>2, <1>3, <2>3
    <2>5. FaultAt(t, b, p, "integer literal overflow")
      BY <1>2, <2>2
    <2> QED BY <2>4, <2>5, ErrorIs
  <1>5. ASSUME ~Overflow(t, b, p), p = b + MAX_TOK_LEN
        PROVE  From(t, b) = <<Token("error", "token too long", PosOf(t, p), NoVal)>>
    <2>1. PlainFault(t, b, p, "token too long")
      BY <1>5 DEF PlainFault
    <2>2. \A w : PlainFault(t, b, p, w) => w = "token too long"
      BY <1>5 DEF PlainFault
    <2>3. \A k \in Nat : \A w : FaultAt(t, b, k, w) => k >= p /\ (k = p => w = "token too long")
      BY <1>2, <1>3, <2>2
    <2>4. FaultAt(t, b, p, "token too long")
      BY <1>2, <2>1
    <2> QED BY <2>3, <2>4, ErrorIs
  <1> QED BY <1>4, <1>5

LEMMA PlainOk ==
    ASSUME NEW t, Len(t) \in Nat, NEW b \in 1 .. Len(t), t[b] \notin Quotes, t[b] \notin Blanks, ~CommentAt(t, b),
           NEW m \in Nat, m = LongestAt(t, b), m < b + MAX_TOK_LEN, \A k \in b .. m : ~Overflow(t, b, k),
           NEW n \in Nat, n = m + 1
    PROVE  From(t, b) = <<TokenAt(t, b)>> \o From(t, n) /\ TokenAt(t, b) \in TokensOf(t)
  <1>1. \A k \in Nat : \A w : ~FaultAt(t, b, k, w)
    <2> SUFFICES ASSUME NEW k \in Nat, NEW w, PlainFault(t, b, k, w) PROVE FALSE
      BY DEF FaultAt
    <2>1. ~(k \in b .. LongestAt(t, b) /\ Overflow(t, b, k))
      OBVIOUS
    <2>2. ~(k = b + MAX_TOK_LEN /\ k <= LongestAt(t, b))
      BY TokensAssumption
    <2> QED BY <2>1, <2>2 DEF PlainFault
  <1>2. FaultsAt(t, b) = {}
    BY <1>1, NoFaultIs
  <1>3. Behind(t, b) = n
    BY DEF Behind
  <1>4. From(t, b) = <<TokenAt(t, b)>> \o From(t, Behind(t, b))
    BY <1>2, FromCases
  <1>5. TokenAt(t, b) \in TokensOf(t)
    BY DEF TokensOf
  <1> QED BY <1>3, <1>4, <1>5

-----------------------------------------------------------------------------
(***************************************************************************)
(* Whole tokens.                                                           *)
(***************************************************************************)
DigitsTo(t, b, d) == /\ d \in b .. Len(t) /\ AllIn(t, b, d, Digits)
                     /\ \A k \in b .. d : Worth(t, b, k) <= ULONG_MAX
DigitsEnd(t, d)   == d < Len(t) => t[d + 1] \notin Digits

LEMMA DigitsBegin ==
    ASSUME NEW t, NEW b \in 1 .. Len(t), t[b] \in Digits
    PROVE  t[b] \notin Quotes /\ t[b] \notin Blanks /\ ~CommentAt(t, b)
  BY KindsApart DEF CommentAt

SuffixEnds(t, d, m) ==
    \/ m = d /\ (d < Len(t) => t[d + 1] \notin Suffix1)
    \/ m = d + 1 /\ t[d + 1] \in {"u", "U"} /\ (d + 2 <= Len(t) => t[d + 2] \notin {"l", "L"})
    \/ m = d + 1 /\ t[d + 1] \in {"l", "L"}
    \/ m = d + 2 /\ t[d + 1] \in {"u", "U"} /\ t[d + 2] \in {"l", "L"}

LEMMA NumberEnds ==
    ASSUME NEW S, NEW t \in Seq(S), NEW b \in 1 .. Len(t), NEW d \in Nat, DigitsTo(t, b, d), DigitsEnd(t, d),
           NEW m \in d .. Len(t), SuffixEnds(t, d, m), m < b + MAX_TOK_LEN, NEW n \in Nat, n = m + 1
    PROVE  /\ From(t, b) = <<TokenAt(t, b)>> \o From(t, n) /\ TokenAt(t, b) \in TokensOf(t)
           /\ TokenAt(t, b) = Token("num", Joined(SubSeq(t, b, m)), PosOf(t, b),
                                    [NoVal EXCEPT !.n = Worth(t, b, d),
                                                  !.u = m > d /\ t[d + 1] \in {"u", "U"},
                                                  !.l = m > d /\ t[m] \in {"l", "L"}])
  <1>1. d \in b .. Len(t) /\ m \in b .. Len(t) /\ AllIn(t, b, d, Digits) /\ t[b] \in Digits
    BY DEF DigitsTo, AllIn
  <1>2. d < Len(t) => t[d + 1] \notin Digits
    BY DEF DigitsEnd
  <1>3. Longer(t, b, m)
    <2>1. \/ m = d
          \/ m = d + 1 /\ t[d + 1] \in Suffix1
          \/ m = d + 2 /\ t[d + 1] \in {"u", "U"} /\ t[d + 2] \in {"l", "L"}
      BY DEF SuffixEnds, Suffix1
    <2>2. IsNumber(t, b, m)
      BY <1>1, <1>2, <2>1, NumberGoes
    <2> QED BY <2>2 DEF Longer
  <1>4. ASSUME NEW j \in m + 1 .. Len(t), Longer(t, b, j) PROVE FALSE
    <2>1. j \in b .. Len(t) /\ j # b /\ j > d
      BY <1>1
    <2>2. \/ j <= d
          \/ j = d + 1 /\ t[d + 1] \in Suffix1
          \/ j = d + 2 /\ t[d + 1] \in {"u", "U"} /\ t[d + 2] \in {"l", "L"}
      BY <1>1, <1>2, <1>4, <2>1, NumberGoes
    <2> QED BY <2>1, <2>2 DEF SuffixEnds, Suffix1
  <1>5. m = LongestAt(t, b)
    BY <1>1, <1>3, <1>4, LongestIs
  <1>6. \A k \in d + 1 .. m : t[k] \in Suffix1
    BY DEF SuffixEnds, Suffix1
  <1>7. \A k \in d + 1 .. m : t[k] \notin Digits
    BY <1>6, KindsApart
  <1>8. \A k \in b .. m : ~Overflow(t, b, k)
    <2> SUFFICES ASSUME NEW k \in b .. m, Overflow(t, b, k) PROVE FALSE
      OBVIOUS
    <2>1. CASE k <= d
      <3>1. k \in b .. d
        BY <2>1
      <3>2. Worth(t, b, k) <= ULONG_MAX
        BY <3>1 DEF DigitsTo
      <3>3. Worth(t, b, k) \in Nat /\ ULONG_MAX \in Nat
        <4>1. b \in Nat \ {0} /\ k \in Nat
          BY <3>1
        <4> QED BY <4>1, WorthIs, TokensAssumption
      <3> QED BY <3>2, <3>3 DEF Overflow
    <2>2. CASE k > d
      <3>1. k \in d + 1 .. m
        BY <2>2
      <3> QED BY <1>7, <3>1 DEF Overflow
    <2> QED BY <1>1, <2>1, <2>2
  <1>9. From(t, b) = <<TokenAt(t, b)>> \o From(t, n) /\ TokenAt(t, b) \in TokensOf(t)
    <2>1. t[b] \notin Quotes /\ t[b] \notin Blanks /\ ~CommentAt(t, b)
      BY <1>1, DigitsBegin
    <2>2. m \in Nat
      BY <1>1
    <2> QED BY <1>5, <1>8, <2>1, <2>2, PlainOk
  <1>10. Worth(t, b, m) = Worth(t, b, d)
    <2>1. \A k, j \in Nat : j = k - 1 /\ k > d /\ k <= m => Worth(t, b, k) = Worth(t, b, j)
      <3> SUFFICES ASSUME NEW k \in Nat, NEW j \in Nat, j = k - 1, k > d, k <= m
                   PROVE  Worth(t, b, k) = Worth(t, b, j)
        OBVIOUS
      <3>1. k \in d + 1 .. m /\ ~(k < b) /\ k = j + 1
        BY <1>1
      <3>2. t[k] \notin Digits
        BY <1>7, <3>1
      <3>3. b \in Nat \ {0}
        OBVIOUS
      <3>4. Horner(t, b, j, k)
        BY <3>1, <3>3, WorthIs
      <3> QED BY <3>1, <3>2, <3>4 DEF Horner
    <2>2. m = d \/ m = d + 1 \/ m = d + 2
      BY DEF SuffixEnds
    <2>3. CASE m = d
      BY <2>3
    <2>4. CASE m = d + 1
      BY <2>1, <2>4
    <2>5. CASE m = d + 2
      <3>1. PICK j \in Nat : j = d + 1
        OBVIOUS
      <3>2. j = m - 1 /\ d = j - 1 /\ m > d /\ j > d /\ j <= m /\ m \in Nat
        BY <2>5, <3>1
      <3>3. Worth(t, b, m) = Worth(t, b, j) /\ Worth(t, b, j) = Worth(t, b, d)
        BY <2>1, <3>2
      <3> QED BY <3>3
    <2> QED BY <2>2, <2>3, <2>4, <2>5
  <1>11. ASSUME NEW X, X \subseteq Suffix1 PROVE Has(t, b, m, X) <=> \E k \in d + 1 .. m : t[k] \in X
    <2>1. \A k \in b .. d : t[k] \notin X
      BY <1>1, <1>11, KindsApart DEF AllIn
    <2>2. \A k \in b .. m : k \in b .. d \/ k \in d + 1 .. m
      BY <1>1
    <2>3. \A k \in d + 1 .. m : k \in b .. m
      BY <1>1
    <2> QED BY <2>1, <2>2, <2>3 DEF Has
  <1>12. Has(t, b, m, {"u", "U"}) <=> m > d /\ t[d + 1] \in {"u", "U"}
    <2>1. {"u", "U"} \subseteq Suffix1
      BY DEF Suffix1
    <2>2. (\E k \in d + 1 .. m : t[k] \in {"u", "U"}) <=> m > d /\ t[d + 1] \in {"u", "U"}
      BY DEF SuffixEnds
    <2> QED BY <1>11, <2>1, <2>2
  <1>13. Has(t, b, m, {"l", "L"}) <=> m > d /\ t[m] \in {"l", "L"}
    <2>1. {"l", "L"} \subseteq Suffix1
      BY DEF Suffix1
    <2>2. (\E k \in d + 1 .. m : t[k] \in {"l", "L"}) <=> m > d /\ t[m] \in {"l", "L"}
      BY DEF SuffixEnds
    <2> QED BY <1>11, <2>1, <2>2
  <1>14. TokenAt(t, b) = Token("num", Joined(SubSeq(t, b, m)), PosOf(t, b),
                               [NoVal EXCEPT !.n = Worth(t, b, m), !.u = Has(t, b, m, {"u", "U"}),
                                             !.l = Has(t, b, m, {"l", "L"})])
    <2>1. t[b] \notin Quotes /\ KindOf(t[b]) = "num"
      BY <1>1, DigitsBegin, KindsApart DEF KindOf
    <2> QED BY <1>5, <2>1 DEF TokenAt
  <1>15. Has(t, b, m, {"u", "U"}) = (m > d /\ t[d + 1] \in {"u", "U"})
    BY <1>12 DEF Has
  <1>16. Has(t, b, m, {"l", "L"}) = (m > d /\ t[m] \in {"l", "L"})
    BY <1>13 DEF Has
  <1> QED BY <1>9, <1>10, <1>14, <1>15, <1>16

-----------------------------------------------------------------------------
(***************************************************************************)
(* What is so while the lexer is at the place p of a text t: the text, as  *)
(* long as it turns out to be, and the token at hand.                      *)
(***************************************************************************)
IsText(t)  == t \in Seq(Range(t)) /\ EOF \notin Range(t)
Fits(t, p) == /\ IsText(t) /\ p \in 1 .. Len(t) + 1
              /\ IF p > Len(t) THEN chr = EOF ELSE chr = t[p]
              /\ chr_pos = PosOf(t, p)

\* The tokens made, and those that C has from the place b on.
Started(t, b) == toks \in Seq(TokensOf(t)) /\ Tokens(t) = toks \o From(t, b)

Opened(t, b, kind) == b \in 1 .. Len(t) /\ tok = kind /\ tok_pos = PosOf(t, b) /\ Started(t, b)
Spelt(t, b, p)     == b <= p /\ p <= b + MAX_TOK_LEN /\ tok_str = SubSeq(t, b, p - 1)

AtBlank(t, p) == Started(t, p) /\ chr \in Blanks /\ tok_str = <<>>

InNumber(t, b, p) == /\ Opened(t, b, "num") /\ Spelt(t, b, p)
                     /\ t[b] \in Digits /\ (p = b \/ DigitsTo(t, b, p - 1))
                     /\ tok_val = [NoVal EXCEPT !.n = Worth(t, b, p - 1)]

InSuffix(t, b, p) ==
    /\ Opened(t, b, "num") /\ Spelt(t, b, p)
    /\ \E d \in Nat : /\ DigitsTo(t, b, d) /\ DigitsEnd(t, d)
                      /\ \/ /\ p = d + 1 /\ (p <= Len(t) => t[p] \notin {"u", "U"})
                            /\ tok_val = [NoVal EXCEPT !.n = Worth(t, b, d)]
                         \/ /\ p = d + 2 /\ t[d + 1] \in {"u", "U"}
                            /\ tok_val = [NoVal EXCEPT !.n = Worth(t, b, d), !.u = TRUE]

InWord(t, b, p) == /\ Opened(t, b, "wrd") /\ Spelt(t, b, p)
                   /\ t[b] \in Letters /\ AllIn(t, b, p - 1, Letters \cup Digits)

LiteralKind(c) == IF c = "'" THEN "chr" ELSE "str"
SlashesIn(t, b, p) == {k \in UnitsOf(t, b, p) : t[k] = "\\"}
AtQuote(t, p) == /\ Opened(t, p, LiteralKind(t[p])) /\ t[p] \in Quotes
                 /\ tok_str = <<>> /\ tok_val = NoVal
InLiteral(t, b, p, half) ==
    /\ Opened(t, b, LiteralKind(t[b])) /\ RightSoFar(t, b, p)
    /\ Escaped(t, b, p) <=> half = 1
    /\ tok_val = [NoVal EXCEPT !.str = CharsOf(t, b, p)]
    /\ Units(t, b, p) = Len(CharsOf(t, b, p)) + half
    /\ tok_str = [n \in 1 .. Cardinality(SlashesIn(t, b, p)) |-> "\\"]

\* Neither a blank nor the beginning of a token of another kind.
SymAt(t, b) == t[b] \notin Blanks \cup Quotes /\ t[b] \notin Digits /\ t[b] \notin Letters
AtSym(t, p) == Opened(t, p, "sym") /\ SymAt(t, p) /\ tok_str = <<>>
AtSecond(t, b, p) == Opened(t, b, "sym") /\ SymAt(t, b) /\ p = b + 1 /\ tok_str = <<t[b]>>
AtLastDot(t, b, p) == /\ Opened(t, b, "sym") /\ SymAt(t, b) /\ p = b + 2
                      /\ t[b] = "." /\ t[b + 1] = "." /\ tok_str = <<t[b], t[b + 1]>>

InRemark(t, b, p) == /\ b \in 1 .. Len(t) /\ p \in b + 1 .. Len(t) + 1
                     /\ Started(t, b) /\ t[b] \notin Blanks /\ CommentAt(t, b)
                     /\ \A k \in b .. p - 1 : t[k] # "\n"

AtEof(t, p)    == /\ Started(t, p) /\ chr = EOF /\ p = Len(t) + 1
                  /\ tok = "eof" /\ tok_str = <<>> /\ tok_pos = PosOf(t, p)
Complete(t, p) == /\ toks \in Seq(TokensOf(t)) /\ tok # "eof" /\ Made(tok) \in TokensOf(t)
                  /\ Tokens(t) = toks \o (<<Made(tok)>> \o From(t, p))
Ended(t)       == /\ toks \in Seq(TokensOf(t)) /\ toks = Tokens(t)
                  /\ Last(toks).kind = "eof" => chr = EOF

Held(t, p) ==
    /\ mode = "begin"    => Started(t, p)
    /\ mode = "blank"    => AtBlank(t, p)
    /\ mode = "num"      => \E b : InNumber(t, b, p)
    /\ mode = "long"     => \E b : InSuffix(t, b, p)
    /\ mode = "wrd"      => \E b : InWord(t, b, p)
    /\ mode = "open"     => AtQuote(t, p)
    /\ mode = "literal"  => \E b : InLiteral(t, b, p, 0)
    /\ mode = "escape"   => \E b : InLiteral(t, b, p, 1)
    /\ mode = "sym"      => AtSym(t, p)
    /\ mode = "second"   => \E b : AtSecond(t, b, p)
    /\ mode = "dots"     => \E b : AtSecond(t, b, p) /\ t[b] = "." /\ chr = "."
    /\ mode = "last dot" => \E b : AtLastDot(t, b, p)
    /\ mode = "comment"  => \E b : InRemark(t, b, p)
    /\ mode = "end"      => AtEof(t, p) \/ Complete(t, p)
    /\ mode = "lexed"    => Ended(t)

LEMMA TextIs ==
    ASSUME NEW t, IsText(t)
    PROVE  Len(t) \in Nat /\ t \in Seq(Range(t)) /\ \A k \in 1 .. Len(t) : t[k] # EOF
  BY DEF IsText, Range

\* The last tokens.
LEMMA ErrorStep ==
    ASSUME NEW t, NEW p, NEW b, NEW why, Fits(t, p), Started(t, b), b \in 1 .. Len(t),
           From(t, b) = <<Token("error", why, PosOf(t, p), NoVal)>>, err_at(why)
    PROVE  Ended(t)' /\ mode' = "lexed"
  <1>1. PICK e : e = Token("error", why, PosOf(t, p), NoVal)
    OBVIOUS
  <1>2. toks' = Append(toks, e) /\ mode' = "lexed"
    BY <1>1 DEF err_at, Fits, To
  <1>3. PICK Ts : Ts = TokensOf(t)
    OBVIOUS
  <1>4. toks \in Seq(Ts) /\ <<e>> \in Seq(Ts) /\ Tokens(t) = toks \o <<e>>
    <2>1. From(t, b) \in Seq(TokensOf(t))
      <3>1. Len(t) \in Nat
        BY TextIs DEF Fits
      <3>2. b \in 1 .. Len(t) + 1
        BY <3>1
      <3> QED BY <3>1, <3>2, FromTyped
    <2> QED BY <1>1, <1>3, <2>1 DEF Started
  <1>5. e \in Ts
    <2>1. <<e>>[1] = e /\ Len(<<e>>) = 1
      OBVIOUS
    <2> QED BY <1>4, <2>1, ElementOfSeq
  <1>6. Append(toks, e) \in Seq(Ts) /\ Append(toks, e) = toks \o <<e>> /\ Last(Append(toks, e)) = e
    BY <1>4, <1>5, AppendProperties, AppendIsConcat DEF Last
  <1>7. e.kind = "error"
    BY <1>1 DEF Token
  <1> QED BY <1>2, <1>3, <1>4, <1>6, <1>7 DEF Ended

LEMMA EndStep ==
    ASSUME NEW t, NEW p, Fits(t, p), Held(t, p), End
    PROVE  Held(t, p)'
  <1>1. PICK Ts : Ts = TokensOf(t)
    OBVIOUS
  <1>2. PICK e : e = Made(tok)
    OBVIOUS
  <1>3. toks' = Append(toks, e) /\ chr' = chr /\ mode' = IF tok = "eof" THEN "lexed" ELSE "begin"
    BY <1>2 DEF End, To
  <1>4. Len(t) \in Nat
    BY TextIs DEF Fits
  <1>5. CASE AtEof(t, p)
    <2>1. From(t, p) = <<EofOf(t)>> /\ e = EofOf(t)
      BY <1>2, <1>4, <1>5, FromCases DEF AtEof, EofOf, Made
    <2>2. toks \in Seq(Ts) /\ Tokens(t) = toks \o <<e>> /\ e \in Ts
      BY <1>1, <1>5, <2>1 DEF AtEof, Started, TokensOf
    <2>3. Append(toks, e) \in Seq(Ts) /\ Append(toks, e) = toks \o <<e>>
      BY <2>2, AppendProperties, AppendIsConcat
    <2>4. mode' = "lexed" /\ chr' = EOF
      BY <1>3, <1>5 DEF AtEof
    <2>5. Ended(t)'
      BY <1>1, <1>3, <2>2, <2>3, <2>4 DEF Ended
    <2> QED BY <2>4, <2>5 DEF Held
  <1>6. CASE Complete(t, p)
    <2>1. /\ toks \in Seq(Ts) /\ e \in Ts /\ tok # "eof"
          /\ Tokens(t) = toks \o (<<e>> \o From(t, p))
      BY <1>1, <1>2, <1>6 DEF Complete
    <2>2. PICK f \in Seq(Ts) : f = From(t, p)
      BY <1>1, <1>4, FromTyped DEF Fits
    <2>3. Append(toks, e) \in Seq(Ts) /\ Append(toks, e) = toks \o <<e>>
      BY <2>1, AppendProperties, AppendIsConcat
    <2>4. <<e>> \in Seq(Ts)
      BY <2>1
    <2>5. toks \o (<<e>> \o f) = (toks \o <<e>>) \o f
      BY <2>1, <2>2, <2>4, ConcatAssociative
    <2>6. mode' = "begin"
      BY <1>3, <2>1
    <2>7. Started(t, p)'
      BY <1>1, <1>3, <2>1, <2>2, <2>3, <2>5 DEF Started
    <2> QED BY <2>6, <2>7 DEF Held
  <1> QED BY <1>5, <1>6 DEF Held, End

LEMMA CompleteIs ==
    ASSUME NEW t, NEW b, NEW p, Started(t, b), tok # "eof",
           Made(tok) = TokenAt(t, b), TokenAt(t, b) \in TokensOf(t),
           From(t, b) = <<TokenAt(t, b)>> \o From(t, p)
    PROVE  Complete(t, p)
  BY DEF Complete, Started

LEMMA OverflowsIs ==
    \A n \in Nat : \A d \in 0 .. 9 : Overflows(n, d) <=> n * 10 + d > ULONG_MAX
  BY TokensAssumption DEF Overflows

\* A token grows by a character, or has grown too long.
LEMMA SpeltStep ==
    ASSUME NEW t, NEW p, NEW b, NEW q, NEW m, Fits(t, p), Spelt(t, b, p), b \in 1 .. Len(t), next_chr(m),
           Fits(t, q)', skip_chr => q = p + 1, chr # EOF
    PROVE  /\ p \in b .. Len(t) /\ t[p] = chr
           /\ \/ p = b + MAX_TOK_LEN /\ err_at("token too long")
              \/ /\ q = p + 1 /\ Spelt(t, b, q)' /\ mode' = m
                 /\ UNCHANGED <<tok, tok_pos, toks>>
  <1>1. /\ t \in Seq(Range(t)) /\ Len(t) \in Nat /\ MAX_TOK_LEN \in Nat
        /\ p \in 1 .. Len(t) + 1 /\ b <= p /\ p <= b + MAX_TOK_LEN /\ tok_str = SubSeq(t, b, p - 1)
    BY TextIs, TokensAssumption DEF Fits, Spelt
  <1>2. p \in b .. Len(t) /\ t[p] = chr
    BY <1>1 DEF Fits
  <1>3. Len(tok_str) = p - b
    <2>1. b \in 1 .. Len(t) + 1 /\ p - 1 \in b - 1 .. Len(t)
      BY <1>1
    <2>2. Len(SubSeq(t, b, p - 1)) = (p - 1) - b + 1
      BY <1>1, <2>1, PieceIs
    <2> QED BY <1>1, <2>2
  <1>4. CASE Len(tok_str) = MAX_TOK_LEN
    <2>1. err_at("token too long")
      BY <1>4 DEF next_chr
    <2>2. p = b + MAX_TOK_LEN
      BY <1>1, <1>2, <1>3, <1>4
    <2> QED BY <1>2, <2>1, <2>2
  <1>5. CASE Len(tok_str) # MAX_TOK_LEN
    <2>1. /\ q = p + 1 /\ mode' = m /\ tok_str' = Append(tok_str, chr)
          /\ UNCHANGED <<tok, tok_pos, toks>>
      BY <1>5 DEF next_chr, To
    <2>2. SubSeq(t, b, p) = Append(SubSeq(t, b, p - 1), t[p])
      <3>1. \A k \in b .. p : t[k] \in Range(t)
        <4>1. \A k \in b .. p : k \in 1 .. Len(t)
          BY <1>2
        <4> QED BY <1>1, <4>1
      <3>2. b \in Int /\ p \in Int /\ b <= p
        BY <1>2
      <3> QED BY <3>1, <3>2, SubSeqRecursiveSecond
    <2>3. q - 1 = p
      BY <1>1, <2>1
    <2>4. tok_str' = SubSeq(t, b, q - 1)
      BY <1>1, <1>2, <2>1, <2>2, <2>3
    <2>5. b <= q /\ q <= b + MAX_TOK_LEN
      BY <1>1, <1>3, <1>5, <2>1
    <2> QED BY <1>2, <2>1, <2>4, <2>5 DEF Spelt
  <1> QED BY <1>4, <1>5

-----------------------------------------------------------------------------
(***************************************************************************)
(* The steps of the lexer, from a place p to the place q.                  *)
(***************************************************************************)
Moves(t, p, q) == /\ Fits(t, p) /\ Held(t, p) /\ Fits(t, q)'
                  /\ skip_chr /\ mode # "boot" => q = p + 1
                  /\ UNCHANGED <<chr, chr_pos>> => q = p

\* The step may be seen from the tokens alone.
LEMMA HeldIf ==
    ASSUME NEW t, NEW q
    PROVE  /\ (mode' = "begin" /\ Started(t, q)') \/ (mode' = "blank" /\ AtBlank(t, q)') => Held(t, q)'
           /\ mode' = "num" /\ (\E b : InNumber(t, b, q)') => Held(t, q)'
           /\ mode' = "long" /\ (\E b : InSuffix(t, b, q)') => Held(t, q)'
           /\ mode' = "wrd" /\ (\E b : InWord(t, b, q)') => Held(t, q)'
           /\ mode' = "open" /\ AtQuote(t, q)' => Held(t, q)'
           /\ mode' = "literal" /\ (\E b : InLiteral(t, b, q, 0)') => Held(t, q)'
           /\ mode' = "escape" /\ (\E b : InLiteral(t, b, q, 1)') => Held(t, q)'
           /\ mode' = "sym" /\ AtSym(t, q)' => Held(t, q)'
           /\ mode' = "second" /\ (\E b : AtSecond(t, b, q)') => Held(t, q)'
           /\ mode' = "last dot" /\ (\E b : AtLastDot(t, b, q)') => Held(t, q)'
           /\ mode' = "comment" /\ (\E b : InRemark(t, b, q)') => Held(t, q)'
           /\ mode' = "end" /\ (AtEof(t, q) \/ Complete(t, q))' => Held(t, q)'
           /\ mode' = "lexed" /\ Ended(t)' => Held(t, q)'
  BY DEF Held

LEMMA BeginStep ==
    ASSUME NEW t, NEW p, NEW q, Moves(t, p, q), Begin
    PROVE  Held(t, q)'
  <1>1. /\ Fits(t, p) /\ Started(t, p) /\ Len(t) \in Nat /\ q = p /\ p \in 1 .. Len(t) + 1
        /\ UNCHANGED <<chr, chr_pos, toks>> /\ tok_str' = <<>> /\ tok_pos' = PosOf(t, p)
        /\ \A k \in 1 .. Len(t) : t[k] # EOF
    BY TextIs DEF Moves, Fits, Held, Begin, To
  <1>2. Started(t, p)'
    BY <1>1 DEF Started
  <1>3. /\ chr = EOF => chr \notin Blanks /\ chr \notin Digits /\ chr \notin Letters
        /\ chr \in Blanks => chr \notin Digits /\ chr \notin Letters /\ chr # "\"" /\ chr # "'"
        /\ chr \in Digits => chr \notin Letters /\ chr # "\"" /\ chr # "'"
        /\ chr \in Letters => chr # "\"" /\ chr # "'"
        /\ EOF # "\"" /\ EOF # "'"
    BY KindsApart, ZenonT(60) DEF Blanks, Digits, Letters, EOF, Quotes
  <1>4. /\ mode' = CASE tok' = "eof" -> "end"
                     [] tok' = "none" -> "blank"
                     [] tok' \in {"str", "chr"} -> "open"
                     [] OTHER -> tok'
        /\ tok_val' = IF tok' \in {"num", "str", "chr"} THEN NoVal ELSE tok_val
    BY DEF Begin, To
  <1>5. CASE chr = EOF
    <2>1. p = Len(t) + 1
      BY <1>1, <1>5 DEF Fits
    <2>2. tok' = "eof"
      BY <1>5, <1>3 DEF Begin
    <2>3. tok' = "eof" /\ mode' = "end"
      BY <1>4, <2>2
    <2>4. AtEof(t, q)'
      BY <1>1, <1>2, <1>5, <2>1, <2>3 DEF AtEof
    <2> QED BY <2>3, <2>4, HeldIf
  <1>6. CASE chr # EOF
    <2>1. p \in 1 .. Len(t) /\ chr = t[p]
      BY <1>1, <1>6 DEF Fits
    <2>2. CASE chr \in Blanks
      <3>1. tok' = "none"
        BY <1>6, <1>3, <2>2 DEF Begin
      <3>2. tok' = "none" /\ mode' = "blank"
        BY <1>4, <3>1
      <3>3. AtBlank(t, q)'
        BY <1>1, <1>2, <2>2 DEF AtBlank
      <3> QED BY <3>2, <3>3, HeldIf
    <2>3. CASE chr \notin Blanks
      <3>1. ASSUME NEW kind, tok' = kind PROVE Opened(t, p, kind)'
        BY <1>1, <1>2, <2>1, <3>1 DEF Opened
      <3>2. Spelt(t, p, p)'
        <4>1. SubSeq(t, p, p - 1) = <<>>
          BY <1>1, SubSeqEmpty
        <4> QED BY <1>1, <4>1, TokensAssumption DEF Spelt
      <3>3. CASE chr \in Digits
        <4>1. tok' = "num"
          BY <1>6, <1>3, <2>3, <3>3 DEF Begin
        <4>2. tok' = "num" /\ mode' = "num" /\ tok_val' = NoVal
          BY <1>4, <4>1
        <4>3. Worth(t, p, p - 1) = 0
          <5>1. p \in Nat \ {0} /\ p - 1 \in Nat /\ p - 1 < p
            BY <1>1
          <5> QED BY <5>1, WorthIs
        <4>4. [NoVal EXCEPT !.n = 0] = NoVal
          BY DEF NoVal
        <4>5. Opened(t, p, "num")'
          BY <3>1, <4>2
        <4>6. InNumber(t, p, q)'
          BY <1>1, <2>1, <3>2, <3>3, <4>2, <4>3, <4>4, <4>5 DEF InNumber
        <4> QED BY <4>2, <4>6, HeldIf
      <3>4. CASE chr \in Letters
        <4>1. chr \notin Digits
          BY <3>4, KindsApart
        <4>2. tok' = "wrd"
          BY <1>6, <1>3, <2>3, <3>4, <4>1 DEF Begin
        <4>3. tok' = "wrd" /\ mode' = "wrd"
          BY <1>4, <4>2
        <4>4. Opened(t, p, "wrd")'
          BY <3>1, <4>3
        <4>5. AllIn(t, p, p - 1, Letters \cup Digits)
          BY <1>1 DEF AllIn
        <4>6. InWord(t, p, q)'
          BY <1>1, <2>1, <3>2, <3>4, <4>4, <4>5 DEF InWord
        <4> QED BY <4>3, <4>6, HeldIf
      <3>5. CASE chr \in Quotes
        <4>1. chr \notin Digits /\ chr \notin Letters /\ (chr = "'" \/ chr = "\"")
          BY <3>5, KindsApart DEF Quotes
        <4>2. tok' = LiteralKind(chr)
          BY <1>6, <2>3, <4>1 DEF Begin, LiteralKind
        <4>3. mode' = "open" /\ tok_val' = NoVal
          BY <4>2 DEF Begin, To, LiteralKind
        <4>4. Opened(t, p, LiteralKind(t[p]))'
          BY <2>1, <3>1, <4>2
        <4>5. AtQuote(t, q)'
          BY <1>1, <2>1, <3>5, <4>3, <4>4 DEF AtQuote
        <4> QED BY <4>3, <4>5, HeldIf
      <3>6. CASE chr \notin Digits /\ chr \notin Letters /\ chr \notin Quotes
        <4>1. chr # "'" /\ chr # "\""
          BY <3>6 DEF Quotes
        <4>2. tok' = "sym" /\ mode' = "sym"
          BY <1>6, <2>3, <3>6, <4>1 DEF Begin, To
        <4>3. Opened(t, p, "sym")'
          BY <3>1, <4>2
        <4>4. AtSym(t, q)'
          BY <1>1, <2>1, <2>3, <3>6, <4>3 DEF AtSym, SymAt
        <4> QED BY <4>2, <4>4, HeldIf
      <3> QED BY <3>3, <3>4, <3>5, <3>6
    <2> QED BY <2>2, <2>3
  <1> QED BY <1>5, <1>6

LEMMA BlankStep ==
    ASSUME NEW t, NEW p, NEW q, Moves(t, p, q), Blank
    PROVE  Held(t, q)'
  <1>1. /\ Fits(t, p) /\ AtBlank(t, p) /\ Len(t) \in Nat /\ \A k \in 1 .. Len(t) : t[k] # EOF
        /\ next_chr("begin")
    BY TextIs DEF Moves, Fits, Held, Blank, Next_chr
  <1>2. Len(tok_str) # MAX_TOK_LEN
    BY <1>1, TokensAssumption DEF AtBlank
  <1>3. q = p + 1 /\ mode' = "begin" /\ UNCHANGED toks
    BY <1>1, <1>2 DEF next_chr, Moves, To, Blank
  <1>4. chr # EOF
    BY <1>1 DEF AtBlank, Blanks, EOF
  <1>5. p \in 1 .. Len(t) /\ t[p] \in Blanks
    BY <1>1, <1>4 DEF AtBlank, Fits
  <1>6. From(t, p) = From(t, q)
    <2>1. q \in Nat
      BY <1>3, <1>5
    <2> QED BY <1>1, <1>3, <1>5, <2>1, FromCases
  <1>7. Started(t, q)'
    BY <1>1, <1>3, <1>6 DEF AtBlank, Started
  <1> QED BY <1>3, <1>7, HeldIf

LEMMA WorthBound ==
    ASSUME NEW t, Len(t) \in Nat, NEW b \in 1 .. Len(t), NEW d, DigitsTo(t, b, d)
    PROVE  \A k \in b .. d : ~Overflow(t, b, k)
  <1> SUFFICES ASSUME NEW k \in b .. d, Overflow(t, b, k) PROVE FALSE
    OBVIOUS
  <1>1. d \in b .. Len(t) /\ Worth(t, b, k) <= ULONG_MAX
    BY DEF DigitsTo
  <1>2. b \in Nat \ {0} /\ k \in Nat
    BY <1>1
  <1>3. Worth(t, b, k) \in Nat /\ ULONG_MAX \in Nat
    BY <1>2, WorthIs, TokensAssumption
  <1> QED BY <1>1, <1>3 DEF Overflow

LEMMA NumberSoFar ==
    ASSUME NEW S, NEW t \in Seq(S), NEW b \in 1 .. Len(t), NEW p \in b .. Len(t), t[p] \in Digits,
           NEW o \in Nat, p = o + 1, p = b \/ DigitsTo(t, b, o)
    PROVE  /\ AllIn(t, b, p, Digits) /\ p <= LongestAt(t, b) /\ \A k \in b .. p - 1 : ~Overflow(t, b, k)
           /\ Worth(t, b, o) \in Nat /\ Value(t[p]) \in 0 .. 9
           /\ Worth(t, b, p) = Worth(t, b, o) * 10 + Value(t[p])
           /\ Worth(t, b, p) <= ULONG_MAX => DigitsTo(t, b, p)
  <1>1. p - 1 = o
    OBVIOUS
  <1>2. AllIn(t, b, p, Digits)
    <2>1. CASE p = b
      BY <2>1 DEF AllIn
    <2>2. CASE DigitsTo(t, b, o)
      <3>1. \A k \in b .. p : k \in b .. o \/ k = p
        OBVIOUS
      <3> QED BY <2>2, <3>1 DEF DigitsTo, AllIn
    <2> QED BY <2>1, <2>2
  <1>3. \A k \in b .. o : ~Overflow(t, b, k) /\ Worth(t, b, k) <= ULONG_MAX
    <2>1. CASE p = b
      <3>1. \A k \in b .. o : FALSE
        BY <2>1
      <3> QED BY <3>1
    <2>2. CASE DigitsTo(t, b, o)
      BY <2>2, WorthBound DEF DigitsTo
    <2> QED BY <2>1, <2>2
  <1>4. p <= LongestAt(t, b)
    <2>1. SubSeq(t, p + 1, p) = <<>>
      <3>1. p \in Int /\ p + 1 \in Int /\ p < p + 1
        OBVIOUS
      <3> QED BY <3>1, SubSeqEmpty
    <2>2. <<>> \in NumberSuffixes
      <3>1. <<>> \in Seq(S)
        OBVIOUS
      <3>2. SuffixIs(<<>>)
        BY DEF SuffixIs
      <3> QED BY <3>1, <3>2, SuffixesAre
    <2>3. p \in b .. p
      OBVIOUS
    <2>4. IsNumber(t, b, p)
      BY <1>2, <2>1, <2>2, <2>3 DEF IsNumber
    <2> QED BY <2>4, LongestIs DEF Longer
  <1>5. b \in Nat \ {0} /\ p \in Nat /\ ~(p < b)
    OBVIOUS
  <1>6. Worth(t, b, o) \in Nat /\ Worth(t, b, p) \in Nat /\ Horner(t, b, o, p)
    BY <1>5, WorthIs
  <1>7. Value(t[p]) \in 0 .. 9
    BY ValueIs
  <1>8. Worth(t, b, p) = Worth(t, b, o) * 10 + Value(t[p])
    BY <1>5, <1>6 DEF Horner
  <1>9. ASSUME Worth(t, b, p) <= ULONG_MAX PROVE DigitsTo(t, b, p)
    <2>1. \A k \in b .. p : k \in b .. o \/ k = p
      OBVIOUS
    <2> QED BY <1>2, <1>3, <1>9, <2>1 DEF DigitsTo
  <1> QED BY <1>1, <1>2, <1>3, <1>4, <1>6, <1>7, <1>8, <1>9

LEMMA NumberStep ==
    ASSUME NEW t, NEW p, NEW q, Moves(t, p, q), Digit
    PROVE  Held(t, q)'
  <1>1. PICK b : InNumber(t, b, p)
    BY DEF Moves, Held, Digit
  <1>2. /\ Fits(t, p) /\ Fits(t, q)' /\ t \in Seq(Range(t)) /\ Len(t) \in Nat /\ p \in 1 .. Len(t) + 1
        /\ b \in 1 .. Len(t) /\ b <= p /\ p <= b + MAX_TOK_LEN
    BY <1>1, TextIs DEF Moves, Fits, InNumber, Opened, Spelt
  <1>3. chr \in Digits /\ chr # EOF
    BY DEF Digit, Digits, EOF
  <1>4. p \in b .. Len(t) /\ t[p] = chr
    BY <1>2, <1>3 DEF Fits
  <1>5. PICK o \in Nat : o = p - 1 /\ p = o + 1
    <2>1. p - 1 \in Nat /\ p = (p - 1) + 1
      BY <1>2
    <2> QED BY <2>1
  <1>6. /\ AllIn(t, b, p, Digits) /\ p <= LongestAt(t, b) /\ \A k \in b .. p - 1 : ~Overflow(t, b, k)
        /\ Worth(t, b, o) \in Nat /\ Value(t[p]) \in 0 .. 9
        /\ Worth(t, b, p) = Worth(t, b, o) * 10 + Value(t[p])
        /\ Worth(t, b, p) <= ULONG_MAX => DigitsTo(t, b, p)
    <2>1. p = b \/ DigitsTo(t, b, o)
      BY <1>1, <1>5 DEF InNumber
    <2> QED BY <1>2, <1>3, <1>4, <1>5, <2>1, NumberSoFar
  <1>7. tok_val = [NoVal EXCEPT !.n = Worth(t, b, o)] /\ tok_val.n = Worth(t, b, o)
    BY <1>1, <1>5 DEF InNumber, NoVal
  <1>8. Overflows(tok_val.n, Value(chr)) <=> Worth(t, b, p) > ULONG_MAX
    BY <1>4, <1>6, <1>7, OverflowsIs
  <1>9. /\ t[b] \notin Quotes /\ t[b] \notin Blanks /\ ~CommentAt(t, b) /\ t[b] \in Digits
        /\ Started(t, b) /\ Spelt(t, b, p)
    BY <1>1, <1>2, DigitsBegin DEF InNumber, Opened
  <1>10. /\ Overflow(t, b, p) => From(t, b) = <<Token("error", "integer literal overflow", PosOf(t, p), NoVal)>>
         /\ ~Overflow(t, b, p) /\ p = b + MAX_TOK_LEN =>
              From(t, b) = <<Token("error", "token too long", PosOf(t, p), NoVal)>>
    <2>1. p \in Nat /\ p >= b
      BY <1>2
    <2> QED BY <1>2, <1>6, <1>9, <2>1, PlainWrong
  <1>11. CASE Overflows(tok_val.n, Value(chr))
    <2>1. err_at("integer literal overflow")
      BY <1>11 DEF Digit
    <2>2. Overflow(t, b, p)
      BY <1>3, <1>4, <1>8, <1>9, <1>11 DEF Overflow
    <2>3. Ended(t)' /\ mode' = "lexed"
      BY <1>2, <1>9, <1>10, <2>1, <2>2, ErrorStep
    <2> QED BY <2>3, HeldIf
  <1>12. CASE ~Overflows(tok_val.n, Value(chr))
    <2>1. /\ next_chr("num")
          /\ tok_val' = IF mode' = "lexed" THEN tok_val ELSE [tok_val EXCEPT !.n = @ * 10 + Value(chr)]
      BY <1>12 DEF Digit
    <2>2. skip_chr => q = p + 1
      BY DEF Moves, Digit
    <2>3. \/ p = b + MAX_TOK_LEN /\ err_at("token too long")
          \/ /\ q = p + 1 /\ Spelt(t, b, q)' /\ mode' = "num"
             /\ UNCHANGED <<tok, tok_pos, toks>>
      BY <1>2, <1>3, <1>9, <2>1, <2>2, SpeltStep
    <2>4. CASE p = b + MAX_TOK_LEN /\ err_at("token too long")
      <3>1. ~Overflow(t, b, p)
        BY <1>8, <1>12 DEF Overflow
      <3>2. Ended(t)' /\ mode' = "lexed"
        BY <1>2, <1>9, <1>10, <2>4, <3>1, ErrorStep
      <3> QED BY <3>2, HeldIf
    <2>5. CASE /\ q = p + 1 /\ Spelt(t, b, q)' /\ mode' = "num"
               /\ UNCHANGED <<tok, tok_pos, toks>>
      <3>1. Opened(t, b, "num")'
        BY <1>1, <2>5 DEF InNumber, Opened, Started
      <3>2. Worth(t, b, p) <= ULONG_MAX
        <4>1. Worth(t, b, p) \in Nat
          BY <1>6
        <4> QED BY <1>8, <1>12, <4>1, TokensAssumption
      <3>3. q - 1 = p
        BY <1>4, <2>5
      <3>4. tok_val' = [NoVal EXCEPT !.n = Worth(t, b, p)]
        <4>1. tok_val' = [tok_val EXCEPT !.n = Worth(t, b, o) * 10 + Value(t[p])]
          BY <1>4, <1>7, <2>1, <2>5
        <4> QED BY <1>6, <1>7, <4>1 DEF NoVal
      <3>5. InNumber(t, b, q)'
        BY <1>6, <1>9, <2>5, <3>1, <3>2, <3>3, <3>4 DEF InNumber
      <3> QED BY <2>5, <3>5, HeldIf
    <2> QED BY <2>3, <2>4, <2>5
  <1> QED BY <1>11, <1>12

\* The number of which the digits end before p.
LEMMA SuffixToo ==
    ASSUME NEW S, NEW t \in Seq(S), NEW b \in 1 .. Len(t), NEW d \in Nat, DigitsTo(t, b, d), DigitsEnd(t, d),
           NEW p \in d + 1 .. Len(t),
           \/ p = d + 1 /\ t[p] \in Suffix1
           \/ p = d + 2 /\ t[d + 1] \in {"u", "U"} /\ t[p] \in {"l", "L"}
    PROVE  p <= LongestAt(t, b) /\ \A k \in b .. p : ~Overflow(t, b, k)
  <1>1. d \in b .. Len(t) /\ AllIn(t, b, d, Digits) /\ p \in b .. Len(t)
    BY DEF DigitsTo
  <1>2. Longer(t, b, p)
    <2>1. d < Len(t) => t[d + 1] \notin Digits
      BY DEF DigitsEnd
    <2> QED BY <1>1, <2>1, NumberGoes DEF Longer
  <1>3. p <= LongestAt(t, b)
    BY <1>1, <1>2, LongestIs
  <1>4. \A k \in d + 1 .. p : t[k] \in Suffix1
    BY DEF Suffix1
  <1>5. \A k \in d + 1 .. p : ~Overflow(t, b, k)
    BY <1>4, KindsApart DEF Overflow
  <1>6. \A k \in b .. d : ~Overflow(t, b, k)
    BY WorthBound
  <1>7. \A k \in b .. p : k \in b .. d \/ k \in d + 1 .. p
    BY <1>1
  <1> QED BY <1>3, <1>5, <1>6, <1>7

LEMMA SuffixUStep ==
    ASSUME NEW t, NEW p, NEW q, Moves(t, p, q), SuffixU
    PROVE  Held(t, q)'
  <1>1. PICK b : InNumber(t, b, p)
    BY DEF Moves, Held, SuffixU, Suffix
  <1>2. /\ Fits(t, p) /\ Fits(t, q)' /\ t \in Seq(Range(t)) /\ Len(t) \in Nat /\ p \in 1 .. Len(t) + 1
        /\ b \in 1 .. Len(t) /\ b <= p /\ p <= b + MAX_TOK_LEN
    BY <1>1, TextIs DEF Moves, Fits, InNumber, Opened, Spelt
  <1>3. chr \in {"u", "U"} /\ chr # EOF /\ next_chr("long")
    BY DEF SuffixU, Suffix, EOF
  <1>4. p \in b .. Len(t) /\ t[p] = chr
    BY <1>2, <1>3 DEF Fits
  <1>5. PICK d \in Nat : d = p - 1 /\ p = d + 1
    <2>1. p - 1 \in Nat /\ p = (p - 1) + 1
      BY <1>2
    <2> QED BY <2>1
  <1>6. t[p] \in Suffix1 /\ t[p] \notin Digits
    BY <1>3, <1>4, KindsApart DEF Suffix1
  <1>7. DigitsTo(t, b, d)
    <2>1. p # b
      BY <1>1, <1>6 DEF InNumber
    <2> QED BY <1>1, <1>5, <2>1 DEF InNumber
  <1>8. DigitsEnd(t, d)
    BY <1>5, <1>6 DEF DigitsEnd
  <1>9. p \in d + 1 .. Len(t)
    BY <1>4, <1>5
  <1>10. p <= LongestAt(t, b) /\ \A k \in b .. p : ~Overflow(t, b, k)
    BY <1>2, <1>5, <1>6, <1>7, <1>8, <1>9, SuffixToo
  <1>11. /\ t[b] \notin Quotes /\ t[b] \notin Blanks /\ ~CommentAt(t, b) /\ t[b] \in Digits
         /\ Started(t, b) /\ Spelt(t, b, p)
    BY <1>1, <1>2, DigitsBegin DEF InNumber, Opened
  <1>12. skip_chr => q = p + 1
    BY DEF Moves, SuffixU, Suffix
  <1>13. \/ p = b + MAX_TOK_LEN /\ err_at("token too long")
         \/ /\ q = p + 1 /\ Spelt(t, b, q)' /\ mode' = "long"
            /\ UNCHANGED <<tok, tok_pos, toks>>
    BY <1>2, <1>3, <1>11, <1>12, SpeltStep
  <1>14. CASE p = b + MAX_TOK_LEN /\ err_at("token too long")
    <2>1. p \in Nat /\ p >= b
      BY <1>2
    <2>2. p \in b .. p /\ \A k \in b .. p - 1 : k \in b .. p
      BY <1>2
    <2>3. From(t, b) = <<Token("error", "token too long", PosOf(t, p), NoVal)>>
      BY <1>2, <1>10, <1>11, <1>14, <2>1, <2>2, PlainWrong
    <2>4. Ended(t)' /\ mode' = "lexed"
      BY <1>2, <1>11, <1>14, <2>3, ErrorStep
    <2> QED BY <2>4, HeldIf
  <1>15. CASE /\ q = p + 1 /\ Spelt(t, b, q)' /\ mode' = "long"
              /\ UNCHANGED <<tok, tok_pos, toks>>
    <2>1. Opened(t, b, "num")'
      BY <1>1, <1>15 DEF InNumber, Opened, Started
    <2>2. tok_val' = [NoVal EXCEPT !.n = Worth(t, b, d), !.u = TRUE]
      <3>1. tok_val' = [tok_val EXCEPT !.u = TRUE]
        BY <1>15 DEF SuffixU
      <3>2. tok_val = [NoVal EXCEPT !.n = Worth(t, b, d)]
        BY <1>1, <1>5 DEF InNumber
      <3> QED BY <3>1, <3>2 DEF NoVal
    <2>3. q = d + 2
      BY <1>5, <1>15
    <2>4. InSuffix(t, b, q)'
      BY <1>3, <1>4, <1>5, <1>7, <1>8, <1>15, <2>1, <2>2, <2>3 DEF InSuffix
    <2> QED BY <1>15, <2>4, HeldIf
  <1> QED BY <1>13, <1>14, <1>15

LEMMA NoSuffixUStep ==
    ASSUME NEW t, NEW p, NEW q, Moves(t, p, q), NoSuffixU
    PROVE  Held(t, q)'
  <1>1. PICK b : InNumber(t, b, p)
    BY DEF Moves, Held, NoSuffixU
  <1>2. /\ Fits(t, p) /\ Len(t) \in Nat /\ p \in 1 .. Len(t) + 1
        /\ b \in 1 .. Len(t) /\ b <= p
    BY <1>1, TextIs DEF Moves, Fits, InNumber, Opened, Spelt
  <1>3. chr \notin Digits /\ chr \notin {"u", "U"} /\ mode' = "long" /\ UNCHANGED <<chr, chr_pos, lexed>>
    BY DEF NoSuffixU, Stay, To
  <1>4. q = p
    BY <1>3 DEF Moves
  <1>5. p <= Len(t) => t[p] \notin Digits /\ t[p] \notin {"u", "U"}
    BY <1>2, <1>3 DEF Fits
  <1>6. PICK d \in Nat : d = p - 1 /\ p = d + 1
    <2>1. p - 1 \in Nat /\ p = (p - 1) + 1
      BY <1>2
    <2> QED BY <2>1
  <1>7. DigitsTo(t, b, d)
    <2>1. p # b
      BY <1>1, <1>2, <1>5 DEF InNumber
    <2> QED BY <1>1, <1>6, <2>1 DEF InNumber
  <1>8. DigitsEnd(t, d)
    BY <1>2, <1>5, <1>6 DEF DigitsEnd
  <1>9. tok_val = [NoVal EXCEPT !.n = Worth(t, b, d)]
    BY <1>1, <1>6 DEF InNumber
  <1>10. Opened(t, b, "num") /\ Spelt(t, b, p)
    BY <1>1 DEF InNumber
  <1>11. InSuffix(t, b, p)
    BY <1>5, <1>6, <1>7, <1>8, <1>9, <1>10 DEF InSuffix
  <1>12. InSuffix(t, b, q)'
    BY <1>3, <1>4, <1>11 DEF InSuffix, Opened, Started, Spelt, lexed
  <1> QED BY <1>3, <1>12, HeldIf

\* A token is complete after a step that leaves those before it.
LEMMA CompleteAfter ==
    ASSUME NEW t, NEW b, NEW q, Started(t, b), UNCHANGED toks, NEW kind, tok' = kind, kind # "eof",
           NEW e, Made(tok)' = e, e = TokenAt(t, b), e \in TokensOf(t), From(t, b) = <<e>> \o From(t, q)
    PROVE  Complete(t, q)'
  <1>1. Made(tok)' \in TokensOf(t) /\ tok' # "eof"
    OBVIOUS
  <1>2. toks' \in Seq(TokensOf(t)) /\ Tokens(t) = toks' \o (<<Made(tok)'>> \o From(t, q))
    BY DEF Started
  <1> QED BY <1>1, <1>2 DEF Complete

LEMMA NumberAfter ==
    ASSUME NEW t, t \in Seq(Range(t)), NEW b \in 1 .. Len(t), NEW d \in Nat, DigitsTo(t, b, d), DigitsEnd(t, d),
           NEW m \in d .. Len(t), SuffixEnds(t, d, m), m < b + MAX_TOK_LEN, NEW n \in Nat, n = m + 1,
           Started(t, b), UNCHANGED toks, tok' = "num", tok_pos' = PosOf(t, b), tok_str' = SubSeq(t, b, m),
           NEW u, u = (m > d /\ t[d + 1] \in {"u", "U"}), NEW l, l = (m > d /\ t[m] \in {"l", "L"}),
           tok_val' = [NoVal EXCEPT !.n = Worth(t, b, d), !.u = u, !.l = l]
    PROVE  Complete(t, n)'
  <1>1. PICK e : e = TokenAt(t, b)
    OBVIOUS
  <1>2. PICK v : v = [NoVal EXCEPT !.n = Worth(t, b, d), !.u = u, !.l = l]
    OBVIOUS
  <1>3. v = [NoVal EXCEPT !.n = Worth(t, b, d), !.u = m > d /\ t[d + 1] \in {"u", "U"},
                          !.l = m > d /\ t[m] \in {"l", "L"}]
    BY <1>2, Zenon
  <1>4. From(t, b) = <<e>> \o From(t, n) /\ e \in TokensOf(t)
        /\ e = Token("num", Joined(SubSeq(t, b, m)), PosOf(t, b), v)
    <2>1. From(t, b) = <<e>> \o From(t, n) /\ e \in TokensOf(t)
      BY <1>1, NumberEnds, ZenonT(60)
    <2>2. e = Token("num", Joined(SubSeq(t, b, m)), PosOf(t, b), v)
      BY <1>1, <1>3, NumberEnds, ZenonT(60)
    <2> QED BY <2>1, <2>2
  <1>5. Made(tok)' = e
    BY <1>2, <1>4 DEF Made
  <1>6. PICK kind : kind = "num" /\ kind # "eof"
    OBVIOUS
  <1> QED BY <1>1, <1>4, <1>5, <1>6, CompleteAfter

LEMMA NoVals ==
    ASSUME NEW w
    PROVE  /\ [NoVal EXCEPT !.n = w] = [NoVal EXCEPT !.n = w, !.u = FALSE, !.l = FALSE]
           /\ [NoVal EXCEPT !.n = w, !.u = TRUE] = [NoVal EXCEPT !.n = w, !.u = TRUE, !.l = FALSE]
           /\ [[NoVal EXCEPT !.n = w] EXCEPT !.l = TRUE] = [NoVal EXCEPT !.n = w, !.u = FALSE, !.l = TRUE]
  <1>1. /\ NoVal.u = FALSE /\ NoVal.l = FALSE
        /\ NoVal = [n |-> NoVal.n, u |-> NoVal.u, l |-> NoVal.l, str |-> NoVal.str]
    BY DEF NoVal
  <1> QED BY <1>1

LEMMA SuffixLStep ==
    ASSUME NEW t, NEW p, NEW q, Moves(t, p, q), SuffixL
    PROVE  Held(t, q)'
  <1>1. PICK b : InSuffix(t, b, p)
    BY DEF Moves, Held, SuffixL, Suffix
  <1>2. /\ Fits(t, p) /\ Fits(t, q)' /\ t \in Seq(Range(t)) /\ Len(t) \in Nat /\ p \in 1 .. Len(t) + 1
        /\ b \in 1 .. Len(t) /\ b <= p /\ p <= b + MAX_TOK_LEN
    BY <1>1, TextIs DEF Moves, Fits, InSuffix, Opened, Spelt
  <1>3. chr \in {"l", "L"} /\ chr # EOF /\ next_chr("end")
    BY DEF SuffixL, Suffix, EOF
  <1>4. p \in b .. Len(t) /\ t[p] = chr
    BY <1>2, <1>3 DEF Fits
  <1>5. PICK d \in Nat : /\ DigitsTo(t, b, d) /\ DigitsEnd(t, d)
                         /\ \/ /\ p = d + 1 /\ (p <= Len(t) => t[p] \notin {"u", "U"})
                               /\ tok_val = [NoVal EXCEPT !.n = Worth(t, b, d)]
                            \/ /\ p = d + 2 /\ t[d + 1] \in {"u", "U"}
                               /\ tok_val = [NoVal EXCEPT !.n = Worth(t, b, d), !.u = TRUE]
    BY <1>1 DEF InSuffix
  <1>6. /\ p \in d + 1 .. Len(t)
        /\ \/ p = d + 1 /\ t[p] \in Suffix1
           \/ p = d + 2 /\ t[d + 1] \in {"u", "U"} /\ t[p] \in {"l", "L"}
    BY <1>3, <1>4, <1>5 DEF Suffix1
  <1>7. p <= LongestAt(t, b) /\ \A k \in b .. p : ~Overflow(t, b, k)
    BY <1>2, <1>5, <1>6, SuffixToo
  <1>8. t[b] \in Digits
    <2>1. b \in b .. d
      BY <1>2, <1>5 DEF DigitsTo
    <2> QED BY <1>5, <2>1 DEF DigitsTo, AllIn
  <1>9. /\ t[b] \notin Quotes /\ t[b] \notin Blanks /\ ~CommentAt(t, b)
        /\ Started(t, b) /\ Spelt(t, b, p) /\ tok = "num" /\ tok_pos = PosOf(t, b)
    BY <1>1, <1>2, <1>8, DigitsBegin DEF InSuffix, Opened
  <1>10. skip_chr => q = p + 1
    BY DEF Moves, SuffixL, Suffix
  <1>11. \/ p = b + MAX_TOK_LEN /\ err_at("token too long")
         \/ /\ q = p + 1 /\ Spelt(t, b, q)' /\ mode' = "end"
            /\ UNCHANGED <<tok, tok_pos, toks>>
    BY <1>2, <1>3, <1>9, <1>10, SpeltStep
  <1>12. CASE p = b + MAX_TOK_LEN /\ err_at("token too long")
    <2>1. p \in Nat /\ p >= b
      BY <1>2
    <2>2. p \in b .. p /\ \A k \in b .. p - 1 : k \in b .. p
      BY <1>2
    <2>3. From(t, b) = <<Token("error", "token too long", PosOf(t, p), NoVal)>>
      BY <1>2, <1>7, <1>9, <1>12, <2>1, <2>2, PlainWrong
    <2>4. Ended(t)' /\ mode' = "lexed"
      BY <1>2, <1>9, <1>12, <2>3, ErrorStep
    <2> QED BY <2>4, HeldIf
  <1>13. CASE /\ q = p + 1 /\ Spelt(t, b, q)' /\ mode' = "end"
              /\ UNCHANGED <<tok, tok_pos, toks>>
    <2>1. tok_val' = [tok_val EXCEPT !.l = TRUE]
      BY <1>13 DEF SuffixL
    <2>2. SuffixEnds(t, d, p) /\ p \in d .. Len(t) /\ (p > d /\ t[p] \in {"l", "L"}) = TRUE
      BY <1>3, <1>4, <1>6, <1>5 DEF SuffixEnds, Suffix1
    <2>3. PICK u : /\ u = (p > d /\ t[d + 1] \in {"u", "U"})
                   /\ tok_val' = [NoVal EXCEPT !.n = Worth(t, b, d), !.u = u, !.l = TRUE]
      <3>1. CASE p = d + 1
        <4>1. tok_val = [NoVal EXCEPT !.n = Worth(t, b, d)] /\ (p > d /\ t[d + 1] \in {"u", "U"}) = FALSE
          BY <1>3, <1>4, <1>5, <3>1
        <4>2. tok_val' = [NoVal EXCEPT !.n = Worth(t, b, d), !.u = FALSE, !.l = TRUE]
          BY <2>1, <4>1, NoVals
        <4> QED BY <4>1, <4>2
      <3>2. CASE p = d + 2
        <4>1. tok_val = [NoVal EXCEPT !.n = Worth(t, b, d), !.u = TRUE] /\ (p > d /\ t[d + 1] \in {"u", "U"}) = TRUE
          BY <1>5, <3>2
        <4>2. tok_val' = [NoVal EXCEPT !.n = Worth(t, b, d), !.u = TRUE, !.l = TRUE]
          BY <2>1, <4>1 DEF NoVal
        <4> QED BY <4>1, <4>2
      <3> QED BY <1>5, <3>1, <3>2
    <2>4. PICK l : l = TRUE
      OBVIOUS
    <2>5. q \in Nat /\ q - 1 = p /\ p < b + MAX_TOK_LEN /\ tok_str' = SubSeq(t, b, q - 1)
      <3>1. b <= q /\ q <= b + MAX_TOK_LEN /\ tok_str' = SubSeq(t, b, q - 1)
        BY <1>13 DEF Spelt
      <3>2. PICK M \in Nat : M = MAX_TOK_LEN
        BY TokensAssumption
      <3> QED BY <1>2, <1>13, <3>1, <3>2
    <2>6. /\ tok' = "num" /\ tok_pos' = PosOf(t, b) /\ tok_str' = SubSeq(t, b, p)
          /\ UNCHANGED toks
      BY <1>9, <1>13, <2>5
    <2>7. Complete(t, q)'
      BY <1>2, <1>5, <1>9, <1>13, <2>2, <2>3, <2>5, <2>6, <2>4, NumberAfter
    <2> QED BY <1>13, <2>7, HeldIf
  <1> QED BY <1>11, <1>12, <1>13

LEMMA NoSuffixLStep ==
    ASSUME NEW t, NEW p, NEW q, Moves(t, p, q), NoSuffixL
    PROVE  Held(t, q)'
  <1>1. PICK b : InSuffix(t, b, p)
    BY DEF Moves, Held, NoSuffixL
  <1>2. /\ Fits(t, p) /\ t \in Seq(Range(t)) /\ Len(t) \in Nat /\ p \in 1 .. Len(t) + 1
        /\ b \in 1 .. Len(t) /\ b <= p /\ p <= b + MAX_TOK_LEN
    BY <1>1, TextIs DEF Moves, Fits, InSuffix, Opened, Spelt
  <1>3. chr \notin {"l", "L"} /\ mode' = "end" /\ UNCHANGED <<chr, chr_pos, lexed>>
    BY DEF NoSuffixL, Stay, To
  <1>4. q = p
    BY <1>3 DEF Moves
  <1>5. p <= Len(t) => t[p] \notin {"l", "L"}
    BY <1>2, <1>3 DEF Fits
  <1>6. PICK d \in Nat : /\ DigitsTo(t, b, d) /\ DigitsEnd(t, d)
                         /\ \/ /\ p = d + 1 /\ (p <= Len(t) => t[p] \notin {"u", "U"})
                               /\ tok_val = [NoVal EXCEPT !.n = Worth(t, b, d)]
                            \/ /\ p = d + 2 /\ t[d + 1] \in {"u", "U"}
                               /\ tok_val = [NoVal EXCEPT !.n = Worth(t, b, d), !.u = TRUE]
    BY <1>1 DEF InSuffix
  <1>7. PICK m \in Nat : m = p - 1 /\ p = m + 1
    <2>1. p - 1 \in Nat /\ p = (p - 1) + 1
      BY <1>2
    <2> QED BY <2>1
  <1>8. d \in b .. Len(t) /\ m \in d .. Len(t) /\ SuffixEnds(t, d, m)
    <2>1. d \in b .. Len(t)
      BY <1>6 DEF DigitsTo
    <2>2. CASE p = d + 1
      BY <1>2, <1>5, <1>6, <1>7, <2>1, <2>2 DEF SuffixEnds, Suffix1
    <2>3. CASE p = d + 2
      <3>1. t[d + 1] \in {"u", "U"} /\ m = d + 1
        BY <1>6, <1>7, <2>3
      <3> QED BY <1>2, <1>5, <1>7, <2>1, <2>3, <3>1 DEF SuffixEnds, Suffix1
    <2> QED BY <1>6, <2>2, <2>3
  <1>9. (m > d /\ t[m] \in {"l", "L"}) = FALSE
    <2>1. CASE p = d + 1
      BY <1>7, <2>1
    <2>2. CASE p = d + 2
      <3>1. t[d + 1] \in {"u", "U"} /\ m = d + 1
        BY <1>6, <1>7, <2>2
      <3>2. t[m] \in {"u", "U"}
        BY <3>1
      <3> QED BY <3>2
    <2> QED BY <1>6, <2>1, <2>2
  <1>10. PICK u : /\ u = (m > d /\ t[d + 1] \in {"u", "U"})
                  /\ tok_val = [NoVal EXCEPT !.n = Worth(t, b, d), !.u = u, !.l = FALSE]
    <2>1. CASE p = d + 1
      <3>1. tok_val = [NoVal EXCEPT !.n = Worth(t, b, d)] /\ (m > d /\ t[d + 1] \in {"u", "U"}) = FALSE
        BY <1>6, <1>7, <2>1
      <3>2. tok_val = [NoVal EXCEPT !.n = Worth(t, b, d), !.u = FALSE, !.l = FALSE]
        BY <3>1, NoVals
      <3> QED BY <3>1, <3>2
    <2>2. CASE p = d + 2
      <3>1. tok_val = [NoVal EXCEPT !.n = Worth(t, b, d), !.u = TRUE] /\ (m > d /\ t[d + 1] \in {"u", "U"}) = TRUE
        BY <1>6, <1>7, <2>2
      <3>2. tok_val = [NoVal EXCEPT !.n = Worth(t, b, d), !.u = TRUE, !.l = FALSE]
        BY <3>1, NoVals
      <3> QED BY <3>1, <3>2
    <2> QED BY <1>6, <2>1, <2>2
  <1>11. PICK l : l = FALSE
    OBVIOUS
  <1>12. p \in Nat /\ m < b + MAX_TOK_LEN
    <2>1. PICK M \in Nat : M = MAX_TOK_LEN
      BY TokensAssumption
    <2> QED BY <1>2, <1>7, <2>1
  <1>13. /\ tok' = "num" /\ tok_pos' = PosOf(t, b) /\ tok_str' = SubSeq(t, b, m)
         /\ UNCHANGED <<toks, tok_val>> /\ Started(t, b)
    BY <1>1, <1>3, <1>7 DEF InSuffix, Opened, Spelt, lexed
  <1>14. Complete(t, p)'
    BY <1>2, <1>6, <1>7, <1>8, <1>9, <1>10, <1>12, <1>13, <1>11, NumberAfter
  <1> QED BY <1>3, <1>4, <1>14, HeldIf

\* Words and punctuators.
LEMMA PlainAfter ==
    ASSUME NEW t, Len(t) \in Nat, NEW b \in 1 .. Len(t), t[b] \notin Quotes, t[b] \notin Blanks, ~CommentAt(t, b),
           t[b] \notin Digits, NEW kind, kind = KindOf(t[b]), kind \in {"wrd", "sym"},
           NEW m \in Nat, m = LongestAt(t, b), m < b + MAX_TOK_LEN, NEW n \in Nat, n = m + 1,
           Started(t, b), UNCHANGED toks, tok' = kind, tok_pos' = PosOf(t, b), tok_str' = SubSeq(t, b, m)
    PROVE  Complete(t, n)'
  <1>1. PICK e : e = TokenAt(t, b)
    OBVIOUS
  <1>2. \A k \in b .. m : ~Overflow(t, b, k)
    BY DEF Overflow
  <1>3. From(t, b) = <<e>> \o From(t, n) /\ e \in TokensOf(t)
    BY <1>1, <1>2, PlainOk
  <1>4. e = Token(kind, Joined(SubSeq(t, b, m)), PosOf(t, b), NoVal)
    BY <1>1 DEF TokenAt
  <1>5. Made(tok)' = e
    BY <1>4 DEF Made
  <1>6. kind # "eof"
    OBVIOUS
  <1> QED BY <1>1, <1>3, <1>5, <1>6, CompleteAfter

LEMMA LetterStep ==
    ASSUME NEW t, NEW p, NEW q, Moves(t, p, q), Letter
    PROVE  Held(t, q)'
  <1>1. PICK b : InWord(t, b, p)
    BY DEF Moves, Held, Letter
  <1>2. /\ Fits(t, p) /\ Fits(t, q)' /\ t \in Seq(Range(t)) /\ Len(t) \in Nat /\ p \in 1 .. Len(t) + 1
        /\ b \in 1 .. Len(t) /\ b <= p /\ p <= b + MAX_TOK_LEN
    BY <1>1, TextIs DEF Moves, Fits, InWord, Opened, Spelt
  <1>3. chr \in Letters \cup Digits /\ chr # EOF /\ next_chr("wrd")
    BY DEF Letter, Letters, Digits, EOF, Next_chr
  <1>4. p \in b .. Len(t) /\ t[p] = chr
    BY <1>2, <1>3 DEF Fits
  <1>5. AllIn(t, b, p, Letters \cup Digits)
    <2>1. \A k \in b .. p : k \in b .. p - 1 \/ k = p
      BY <1>4
    <2> QED BY <1>1, <1>3, <1>4, <2>1 DEF InWord, AllIn
  <1>6. /\ t[b] \in Letters /\ t[b] \notin Digits /\ t[b] \notin Quotes /\ t[b] \notin Blanks /\ ~CommentAt(t, b)
        /\ Started(t, b) /\ Spelt(t, b, p)
    BY <1>1, KindsApart DEF InWord, Opened, CommentAt
  <1>7. skip_chr => q = p + 1
    BY DEF Moves, Letter
  <1>8. \/ p = b + MAX_TOK_LEN /\ err_at("token too long")
        \/ /\ q = p + 1 /\ Spelt(t, b, q)' /\ mode' = "wrd"
           /\ UNCHANGED <<tok, tok_pos, toks>>
    BY <1>2, <1>3, <1>6, <1>7, SpeltStep
  <1>9. CASE p = b + MAX_TOK_LEN /\ err_at("token too long")
    <2>1. p \in Nat /\ p >= b
      BY <1>2
    <2>2. p <= LongestAt(t, b)
      <3>1. Longer(t, b, p)
        BY <1>2, <1>4, <1>5, <1>6, WordGoes
      <3> QED BY <1>2, <1>4, <3>1, LongestIs
    <2>3. ~Overflow(t, b, p) /\ \A k \in b .. p - 1 : ~Overflow(t, b, k)
      BY <1>6 DEF Overflow
    <2>4. From(t, b) = <<Token("error", "token too long", PosOf(t, p), NoVal)>>
      BY <1>2, <1>6, <1>9, <2>1, <2>2, <2>3, PlainWrong
    <2>5. Ended(t)' /\ mode' = "lexed"
      BY <1>2, <1>6, <1>9, <2>4, ErrorStep
    <2> QED BY <2>5, HeldIf
  <1>10. CASE /\ q = p + 1 /\ Spelt(t, b, q)' /\ mode' = "wrd"
              /\ UNCHANGED <<tok, tok_pos, toks>>
    <2>1. Opened(t, b, "wrd")'
      BY <1>1, <1>10 DEF InWord, Opened, Started
    <2>2. q - 1 = p
      BY <1>4, <1>10
    <2>3. InWord(t, b, q)'
      BY <1>5, <1>6, <1>10, <2>1, <2>2 DEF InWord
    <2> QED BY <1>10, <2>3, HeldIf
  <1> QED BY <1>8, <1>9, <1>10

LEMMA EndOfWordStep ==
    ASSUME NEW t, NEW p, NEW q, Moves(t, p, q), EndOfWord
    PROVE  Held(t, q)'
  <1>1. PICK b : InWord(t, b, p)
    BY DEF Moves, Held, EndOfWord
  <1>2. /\ Fits(t, p) /\ t \in Seq(Range(t)) /\ Len(t) \in Nat /\ p \in 1 .. Len(t) + 1
        /\ b \in 1 .. Len(t) /\ b <= p /\ p <= b + MAX_TOK_LEN
    BY <1>1, TextIs DEF Moves, Fits, InWord, Opened, Spelt
  <1>3. chr \notin Letters \cup Digits /\ mode' = "end" /\ UNCHANGED <<chr, chr_pos, lexed>>
    BY DEF EndOfWord, Stay, To
  <1>4. q = p
    BY <1>3 DEF Moves
  <1>5. p <= Len(t) => t[p] \notin Letters \cup Digits
    BY <1>2, <1>3 DEF Fits
  <1>6. /\ t[b] \in Letters /\ t[b] \notin Digits /\ t[b] \notin Quotes /\ t[b] \notin Blanks /\ ~CommentAt(t, b)
        /\ KindOf(t[b]) = "wrd" /\ Started(t, b)
    BY <1>1, KindsApart DEF InWord, Opened, CommentAt, KindOf
  <1>7. PICK m \in Nat : m = p - 1 /\ p = m + 1
    <2>1. p - 1 \in Nat /\ p = (p - 1) + 1
      BY <1>2
    <2> QED BY <2>1
  <1>8. m \in b .. Len(t)
    <2>1. p # b
      BY <1>2, <1>5, <1>6
    <2> QED BY <1>2, <1>7, <2>1
  <1>9. m = LongestAt(t, b)
    <2>1. Longer(t, b, m)
      BY <1>1, <1>2, <1>6, <1>7, <1>8, WordGoes DEF InWord
    <2>2. ASSUME NEW j \in m + 1 .. Len(t) PROVE ~Longer(t, b, j)
      <3>1. j \in b .. Len(t) /\ p \in b .. j /\ p <= Len(t)
        BY <1>2, <1>7, <1>8
      <3>2. ~AllIn(t, b, j, Letters \cup Digits)
        BY <1>5, <3>1 DEF AllIn
      <3> QED BY <1>2, <1>6, <3>1, <3>2, WordGoes
    <2> QED BY <1>2, <1>8, <2>1, <2>2, LongestIs
  <1>10. p \in Nat /\ m < b + MAX_TOK_LEN
    <2>1. PICK M \in Nat : M = MAX_TOK_LEN
      BY TokensAssumption
    <2> QED BY <1>2, <1>7, <2>1
  <1>11. /\ tok' = "wrd" /\ tok_pos' = PosOf(t, b) /\ tok_str' = SubSeq(t, b, m)
         /\ UNCHANGED toks
    BY <1>1, <1>3, <1>7 DEF InWord, Opened, Spelt, lexed
  <1>12. PICK kind : kind = "wrd" /\ kind \in {"wrd", "sym"}
    OBVIOUS
  <1>13. Complete(t, p)'
    BY <1>2, <1>6, <1>7, <1>9, <1>10, <1>11, <1>12, PlainAfter
  <1> QED BY <1>3, <1>4, <1>13, HeldIf

\* The lexer's escape sequences are those of C.
LEMMA EscapesAre ==
    ASSUME NEW c
    PROVE  /\ c \in Range(escapes) <=> IsEscape(c)
           /\ IsEscape(c) => Unescaped(c) = Stands(c)
  <1>1. DOMAIN escapes = 1 .. 12
    BY DEF escapes
  <1>2. /\ escapes[1] = "a" /\ escapes[2] = "b" /\ escapes[3] = "f" /\ escapes[4] = "n" /\ escapes[5] = "r" /\ escapes[6] = "t"
        /\ escapes[7] = "v" /\ escapes[8] = "\\" /\ escapes[9] = "'" /\ escapes[11] = "?" /\ escapes[12] = "0"
    BY DEF escapes
  <1>3. /\ unescapes[1] = "BEL" /\ unescapes[2] = "BS" /\ unescapes[3] = "\f" /\ unescapes[4] = "\n" /\ unescapes[5] = "\r" /\ unescapes[6] = "\t"
        /\ unescapes[7] = "VT" /\ unescapes[8] = "\\" /\ unescapes[9] = "'" /\ unescapes[11] = "?" /\ unescapes[12] = "NUL"
    BY DEF unescapes
  <1>4. escapes[10] = "\"" /\ unescapes[10] = "\""
    BY DEF escapes, unescapes
  <1>5. /\ escapes[10] # "a" /\ escapes[10] # "b" /\ escapes[10] # "f" /\ escapes[10] # "n" /\ escapes[10] # "r" /\ escapes[10] # "t"
        /\ escapes[10] # "v" /\ escapes[10] # "\\" /\ escapes[10] # "'" /\ escapes[10] # "?" /\ escapes[10] # "0"
    BY <1>4, Zenon
  <1>6. \A i \in 1 .. 12 : \/ i = 1 \/ i = 2 \/ i = 3 \/ i = 4 \/ i = 5 \/ i = 6
                            \/ i = 7 \/ i = 8 \/ i = 9 \/ i = 10 \/ i = 11 \/ i = 12
    OBVIOUS
  <1>7. \A i, j \in 1 .. 12 : escapes[i] = escapes[j] => i = j
    BY <1>2, <1>5, <1>6
  <1> DEFINE Both(i) == <<escapes[i], unescapes[i]>>
  <1>8. /\ Both(1) = <<"a", "BEL">> /\ Both(2) = <<"b", "BS">> /\ Both(3) = <<"f", "\f">>
        /\ Both(4) = <<"n", "\n">> /\ Both(5) = <<"r", "\r">> /\ Both(6) = <<"t", "\t">>
        /\ Both(7) = <<"v", "VT">> /\ Both(8) = <<"\\", "\\">> /\ Both(9) = <<"'", "'">>
        /\ Both(10) = <<"\"", "\"">> /\ Both(11) = <<"?", "?">> /\ Both(12) = <<"0", "NUL">>
    BY <1>2, <1>3, <1>4, Zenon
  <1>9. \A i \in 1 .. 12 : Both(i)[1] = escapes[i] /\ Both(i)[2] = unescapes[i]
    OBVIOUS
  <1> HIDE DEF Both
  <1>10. /\ Both(1) \in SimpleEscapes /\ Both(2) \in SimpleEscapes /\ Both(3) \in SimpleEscapes
         /\ Both(4) \in SimpleEscapes /\ Both(5) \in SimpleEscapes /\ Both(6) \in SimpleEscapes
         /\ Both(7) \in SimpleEscapes /\ Both(8) \in SimpleEscapes /\ Both(9) \in SimpleEscapes
         /\ Both(10) \in SimpleEscapes /\ Both(11) \in SimpleEscapes /\ Both(12) \in SimpleEscapes
    BY <1>8, Zenon DEF SimpleEscapes
  <1>11. \A i \in 1 .. 12 : Both(i) \in SimpleEscapes
    BY <1>6, <1>10
  <1>12. \A e \in SimpleEscapes : \/ e = Both(1) \/ e = Both(2) \/ e = Both(3) \/ e = Both(4) \/ e = Both(5)
                                  \/ e = Both(6) \/ e = Both(7) \/ e = Both(8) \/ e = Both(9) \/ e = Both(10)
                                  \/ e = Both(11) \/ e = Both(12)
    BY <1>8, Zenon DEF SimpleEscapes
  <1>13. \A e \in SimpleEscapes : \E i \in 1 .. 12 : e = Both(i)
    BY <1>12
  <1>14. c \in Range(escapes) <=> \E i \in 1 .. 12 : escapes[i] = c
    BY <1>1 DEF Range
  <1>15. IsEscape(c) <=> \E i \in 1 .. 12 : escapes[i] = c
    BY <1>9, <1>11, <1>13 DEF IsEscape
  <1>16. ASSUME NEW i \in 1 .. 12, escapes[i] = c PROVE Unescaped(c) = Stands(c)
    <2>1. (CHOOSE j \in DOMAIN escapes : escapes[j] = c) = i
      BY <1>1, <1>7, <1>16
    <2>2. Unescaped(c) = unescapes[i]
      BY <2>1 DEF Unescaped
    <2>3. \A e \in SimpleEscapes : e[1] = c => e = Both(i)
      BY <1>7, <1>9, <1>13, <1>16
    <2>4. Both(i) \in SimpleEscapes /\ Both(i)[1] = c
      BY <1>9, <1>11, <1>16
    <2>5. (CHOOSE e \in SimpleEscapes : e[1] = c) = Both(i)
      BY <2>3, <2>4
    <2> QED BY <1>9, <2>2, <2>5 DEF Stands
  <1> QED BY <1>14, <1>15, <1>16

\* A literal that is right so far, and a character more.
LEMMA LiteralGoes ==
    ASSUME NEW t, Len(t) \in Nat, NEW b \in 1 .. Len(t), NEW p \in Nat, p <= Len(t), NEW q \in Nat, q = p + 1,
           RightSoFar(t, b, p),
           IF Escaped(t, b, p) THEN IsEscape(t[p]) ELSE t[p] # t[b] /\ Units(t, b, p) < Most(t[b])
    PROVE  /\ RightSoFar(t, b, q)
           /\ Escaped(t, b, q) <=> t[p] = "\\" /\ ~Escaped(t, b, p)
           /\ Units(t, b, q) = Units(t, b, p) + (IF Escaped(t, b, p) THEN 0 ELSE 1)
           /\ CharsOf(t, b, q) = IF Escaped(t, b, p) THEN Append(CharsOf(t, b, p), Stands(t[p]))
                                 ELSE IF t[p] = "\\" THEN CharsOf(t, b, p)
                                 ELSE Append(CharsOf(t, b, p), t[p])
           /\ SlashesIn(t, b, q) = IF t[p] = "\\" /\ ~Escaped(t, b, p) THEN SlashesIn(t, b, p) \cup {p}
                                   ELSE SlashesIn(t, b, p)
  <1>1. p \in b + 1 .. Len(t) /\ q \in b + 1 .. Len(t) + 1 /\ p > b /\ p >= b /\ p # b /\ b \in Nat
    BY DEF RightSoFar
  <1>2. t[b] \in Quotes /\ t[b] # "\\"
    BY KindsApart DEF RightSoFar
  <1>3. Escaped(t, b, q) <=> t[p] = "\\" /\ ~Escaped(t, b, p)
    BY <1>1, <1>2, EscapedStep
  <1>4. CharsOf(t, b, q) = IF Escaped(t, b, p) THEN Append(CharsOf(t, b, p), Stands(t[p]))
                           ELSE IF t[p] = "\\" THEN CharsOf(t, b, p)
                           ELSE Append(CharsOf(t, b, p), t[p])
    BY <1>1, CharsIs
  <1>5. /\ IsFiniteSet(UnitsOf(t, b, p)) /\ Cardinality(UnitsOf(t, b, p)) \in Nat
        /\ UnitsOf(t, b, q) = IF Escaped(t, b, p) THEN UnitsOf(t, b, p) ELSE UnitsOf(t, b, p) \cup {p}
        /\ p \notin UnitsOf(t, b, p)
    <2>1. /\ Escaped(t, b, p) => UnitsOf(t, b, q) = UnitsOf(t, b, p)
          /\ ~Escaped(t, b, p) => UnitsOf(t, b, q) = UnitsOf(t, b, p) \cup {p}
      BY <1>1, UnitsStep
    <2>2. /\ IsFiniteSet(UnitsOf(t, b, p)) /\ Cardinality(UnitsOf(t, b, p)) \in Nat
          /\ p \notin UnitsOf(t, b, p)
      BY <1>1, UnitsAre
    <2> QED BY <1>1, <2>1, <2>2
  <1>6. Units(t, b, q) = Units(t, b, p) + (IF Escaped(t, b, p) THEN 0 ELSE 1)
    <2>1. PICK U : U = UnitsOf(t, b, p)
      OBVIOUS
    <2>2. Cardinality(U \cup {p}) = Cardinality(U) + 1
      BY <1>5, <2>1, FS_AddElement
    <2>3. CASE Escaped(t, b, p)
      BY <1>5, <2>3 DEF Units
    <2>4. CASE ~Escaped(t, b, p)
      BY <1>5, <2>1, <2>2, <2>4 DEF Units
    <2> QED BY <2>3, <2>4
  <1>7. SlashesIn(t, b, q) = IF t[p] = "\\" /\ ~Escaped(t, b, p) THEN SlashesIn(t, b, p) \cup {p}
                             ELSE SlashesIn(t, b, p)
    BY <1>5 DEF SlashesIn
  <1>8. RightSoFar(t, b, q)
    <2>1. \A k \in b + 1 .. q - 1 : k \in b + 1 .. p - 1 \/ k = p
      OBVIOUS
    <2>2. \A k \in b + 1 .. q - 1 : IF Escaped(t, b, k) THEN IsEscape(t[k]) ELSE t[k] # t[b]
      BY <2>1 DEF RightSoFar
    <2>3. Units(t, b, q) <= Most(t[b])
      <3>1. Most(t[b]) \in Nat /\ Units(t, b, p) \in Nat /\ Units(t, b, p) <= Most(t[b])
        BY <1>5, TokensAssumption DEF Most, Units, RightSoFar
      <3> QED BY <1>6, <3>1
    <2> QED BY <1>1, <1>2, <2>2, <2>3 DEF RightSoFar
  <1> QED BY <1>3, <1>4, <1>6, <1>7, <1>8

LEMMA SlashesAre ==
    ASSUME NEW t, NEW b \in Nat, NEW p \in Nat, p >= b
    PROVE  /\ IsFiniteSet(SlashesIn(t, b, p)) /\ Cardinality(SlashesIn(t, b, p)) \in Nat
           /\ Cardinality(SlashesIn(t, b, p)) <= Units(t, b, p) /\ Units(t, b, p) \in Nat
           /\ p \notin SlashesIn(t, b, p)
  <1>1. /\ IsFiniteSet(UnitsOf(t, b, p)) /\ Cardinality(UnitsOf(t, b, p)) \in Nat
        /\ p \notin UnitsOf(t, b, p)
    BY UnitsAre
  <1>2. SlashesIn(t, b, p) \subseteq UnitsOf(t, b, p)
    BY DEF SlashesIn
  <1> QED BY <1>1, <1>2, FS_Subset, FS_CardinalityType DEF Units

LEMMA OpenStep ==
    ASSUME NEW t, NEW p, NEW q, Moves(t, p, q), Open
    PROVE  Held(t, q)'
  <1>1. /\ AtQuote(t, p) /\ Len(t) \in Nat /\ p \in 1 .. Len(t) + 1 /\ p \in 1 .. Len(t) /\ t[p] \in Quotes
        /\ Skip("literal") /\ UNCHANGED tok_val /\ skip_chr
    BY TextIs DEF Moves, Fits, Held, Open, AtQuote, Opened, Skip
  <1>2. mode' = "literal" /\ q = p + 1 /\ UNCHANGED <<tok, tok_str, tok_pos, toks, tok_val>>
    BY <1>1 DEF Skip, To, Moves, Open
  <1>3. q \in Nat /\ q \in p + 1 .. Len(t) + 1 /\ p \in Nat
    BY <1>1, <1>2
  <1>4. t[p] # "\\"
    BY <1>1, KindsApart
  <1>5. ~Escaped(t, p, q)
    <2>1. p >= p /\ ~(p > p)
      BY <1>3
    <2> QED BY <1>2, <1>3, <1>4, <2>1, EscapedStep
  <1>6. CharsOf(t, p, q) = <<>>
    <2>1. p >= p
      BY <1>3
    <2> QED BY <1>2, <1>3, <2>1, CharsIs
  <1>7. UnitsOf(t, p, q) = {} /\ Units(t, p, q) = 0
    <2>1. UnitsOf(t, p, q) = {}
      BY <1>2, <1>3 DEF UnitsOf
    <2> QED BY <2>1, FS_EmptySet DEF Units
  <1>8. SlashesIn(t, p, q) = {} /\ Cardinality(SlashesIn(t, p, q)) = 0
    <2>1. SlashesIn(t, p, q) = {}
      BY <1>7 DEF SlashesIn
    <2> QED BY <2>1, FS_EmptySet
  <1>9. RightSoFar(t, p, q)
    <2>1. \A k \in p + 1 .. q - 1 : FALSE
      BY <1>2, <1>3
    <2>2. 0 <= Most(t[p])
      BY TokensAssumption DEF Most
    <2> QED BY <1>1, <1>3, <1>7, <2>1, <2>2 DEF RightSoFar
  <1>10. tok_val' = [NoVal EXCEPT !.str = CharsOf(t, p, q)]
    BY <1>1, <1>2, <1>6 DEF AtQuote, NoVal
  <1>11. tok_str' = [n \in 1 .. Cardinality(SlashesIn(t, p, q)) |-> "\\"]
    <2>1. [n \in 1 .. 0 |-> "\\"] = <<>>
      OBVIOUS
    <2> QED BY <1>1, <1>2, <1>8, <2>1 DEF AtQuote
  <1>12. Opened(t, p, LiteralKind(t[p]))'
    BY <1>1, <1>2 DEF AtQuote, Opened, Started
  <1>13. Units(t, p, q) = Len(CharsOf(t, p, q)) + 0
    BY <1>6, <1>7
  <1>14. InLiteral(t, p, q, 0)'
    BY <1>5, <1>9, <1>10, <1>11, <1>12, <1>13 DEF InLiteral
  <1> QED BY <1>2, <1>14, HeldIf

\* What the lexer knows of a literal it is in.
LEMMA LiteralIs ==
    ASSUME NEW t, NEW p, NEW b, NEW half, Fits(t, p), InLiteral(t, b, p, half)
    PROVE  /\ Len(t) \in Nat /\ b \in 1 .. Len(t) /\ p \in 1 .. Len(t) + 1 /\ p \in Nat /\ p > b
           /\ RightSoFar(t, b, p) /\ t[b] \in Quotes /\ Started(t, b) /\ tok_pos = PosOf(t, b)
           /\ tok = LiteralKind(t[b]) /\ tok \in {"str", "chr"} /\ (tok = "chr" <=> t[b] = "'") /\ (t[b] = "\"" <=> t[b] # "'")
           /\ (tok = "str" <=> t[b] # "'") /\ delim = t[b]
           /\ p <= Len(t) => t[p] = chr /\ chr # EOF
           /\ p > Len(t) => p = Len(t) + 1 /\ chr = EOF
           /\ Units(t, b, p) \in Nat /\ Units(t, b, p) <= Most(t[b])
           /\ tok_val.str = CharsOf(t, b, p) /\ CharsOf(t, b, p) \in Seq(CharsMade(t))
           /\ Units(t, b, p) = Len(CharsOf(t, b, p)) + half
           /\ UnitsOf(t, b, p) = {} <=> Units(t, b, p) = 0
  <1>1. /\ Len(t) \in Nat /\ b \in 1 .. Len(t) /\ p \in 1 .. Len(t) + 1 /\ p \in Nat
        /\ p > Len(t) => p = Len(t) + 1 /\ chr = EOF
    BY TextIs DEF Fits, InLiteral, Opened
  <1>2. p <= Len(t) => t[p] = chr /\ chr # EOF
    BY <1>1, TextIs DEF Fits
  <1>3. /\ RightSoFar(t, b, p) /\ t[b] \in Quotes /\ p > b /\ Started(t, b) /\ tok_pos = PosOf(t, b)
        /\ tok = LiteralKind(t[b]) /\ Units(t, b, p) <= Most(t[b]) /\ Units(t, b, p) = Len(CharsOf(t, b, p)) + half
    BY <1>1 DEF InLiteral, Opened, RightSoFar
  <1>4. t[b] = "'" \/ t[b] = "\""
    BY <1>3 DEF Quotes
  <1>5. "'" # "\"" /\ "str" # "chr"
    OBVIOUS
  <1>6. /\ tok \in {"str", "chr"} /\ (tok = "chr" <=> t[b] = "'") /\ (t[b] = "\"" <=> t[b] # "'")
        /\ (tok = "str" <=> t[b] # "'") /\ delim = t[b]
    BY <1>3, <1>4, <1>5, Zenon DEF LiteralKind, delim
  <1>7. tok_val.str = CharsOf(t, b, p)
    BY DEF InLiteral, NoVal
  <1>8. CharsOf(t, b, p) \in Seq(CharsMade(t))
    BY <1>1, CharsIs
  <1>9. IsFiniteSet(UnitsOf(t, b, p)) /\ Cardinality(UnitsOf(t, b, p)) \in Nat
    BY <1>1, <1>3, UnitsAre
  <1>10. UnitsOf(t, b, p) = {} <=> Units(t, b, p) = 0
    BY <1>9, FS_EmptySet DEF Units
  <1> QED BY <1>1, <1>2, <1>3, <1>6, <1>7, <1>8, <1>9, <1>10 DEF Units

\* The character at p taken, whether the lexer stood behind a backslash (half) or not.
LEMMA LiteralAfter ==
    ASSUME NEW t, NEW p, NEW q, NEW b, NEW half \in {0, 1}, NEW then \in {0, 1},
           Fits(t, p), InLiteral(t, b, p, half), p <= Len(t), q = p + 1,
           half = 1 => IsEscape(chr) /\ then = 0,
           half = 0 => chr # t[b] /\ Len(CharsOf(t, b, p)) < Most(t[b]) /\ (then = 1 <=> chr = "\\"),
           UNCHANGED <<tok, tok_pos, toks>>,
           then = 0 => /\ tok_val' = [tok_val EXCEPT !.str = Append(@, IF half = 1 THEN Stands(chr) ELSE chr)]
                       /\ UNCHANGED tok_str,
           then = 1 => UNCHANGED tok_val /\ tok_str' = Append(tok_str, "\\")
    PROVE  InLiteral(t, b, q, then)'
  <1>1. /\ Len(t) \in Nat /\ b \in 1 .. Len(t) /\ p \in Nat /\ p > b /\ RightSoFar(t, b, p)
        /\ t[p] = chr /\ t[b] \in Quotes
        /\ Units(t, b, p) \in Nat /\ Units(t, b, p) <= Most(t[b])
        /\ tok_val.str = CharsOf(t, b, p) /\ CharsOf(t, b, p) \in Seq(CharsMade(t))
        /\ Units(t, b, p) = Len(CharsOf(t, b, p)) + half
    <2>1. /\ Len(t) \in Nat /\ b \in 1 .. Len(t) /\ p \in 1 .. Len(t) + 1 /\ p \in Nat /\ p > b
          /\ RightSoFar(t, b, p) /\ t[b] \in Quotes
          /\ p <= Len(t) => t[p] = chr /\ chr # EOF
      BY LiteralIs
    <2>2. /\ Units(t, b, p) \in Nat /\ Units(t, b, p) <= Most(t[b])
          /\ tok_val.str = CharsOf(t, b, p) /\ CharsOf(t, b, p) \in Seq(CharsMade(t))
      BY LiteralIs
    <2>3. Units(t, b, p) = Len(CharsOf(t, b, p)) + half
      BY DEF InLiteral
    <2> QED BY <2>1, <2>2, <2>3
  <1>2. q \in Nat /\ q = p + 1 /\ (Escaped(t, b, p) <=> half = 1) /\ b \in Nat /\ q >= b /\ p >= b
    BY <1>1 DEF InLiteral
  <1>3. half = 0 => Units(t, b, p) < Most(t[b])
    BY <1>1
  <1>4. /\ RightSoFar(t, b, q)
        /\ Escaped(t, b, q) <=> t[p] = "\\" /\ ~Escaped(t, b, p)
        /\ Units(t, b, q) = Units(t, b, p) + (IF Escaped(t, b, p) THEN 0 ELSE 1)
        /\ CharsOf(t, b, q) = IF Escaped(t, b, p) THEN Append(CharsOf(t, b, p), Stands(t[p]))
                              ELSE IF t[p] = "\\" THEN CharsOf(t, b, p)
                              ELSE Append(CharsOf(t, b, p), t[p])
        /\ SlashesIn(t, b, q) = IF t[p] = "\\" /\ ~Escaped(t, b, p) THEN SlashesIn(t, b, p) \cup {p}
                                ELSE SlashesIn(t, b, p)
    <2>1. IF Escaped(t, b, p) THEN IsEscape(t[p]) ELSE t[p] # t[b] /\ Units(t, b, p) < Most(t[b])
      BY <1>1, <1>2, <1>3
    <2> QED BY <1>1, <1>2, <2>1, LiteralGoes, ZenonT(60)
  <1>5. Escaped(t, b, q) <=> then = 1
    BY <1>1, <1>2, <1>4
  <1>6. PICK c : c = IF half = 1 THEN Stands(chr) ELSE chr
    OBVIOUS
  <1>7. then = 0 => CharsOf(t, b, q) = Append(CharsOf(t, b, p), c)
    BY <1>1, <1>2, <1>4, <1>5, <1>6
  <1>8. then = 1 => CharsOf(t, b, q) = CharsOf(t, b, p) /\ half = 0
    BY <1>1, <1>2, <1>4, <1>5
  <1>9. tok_val' = [NoVal EXCEPT !.str = CharsOf(t, b, q)]
    <2>1. tok_val = [NoVal EXCEPT !.str = CharsOf(t, b, p)]
      BY DEF InLiteral
    <2>2. CASE then = 0
      <3>1. tok_val' = [tok_val EXCEPT !.str = Append(CharsOf(t, b, p), c)]
        BY <1>1, <1>6, <2>2
      <3> QED BY <1>7, <2>1, <2>2, <3>1 DEF NoVal
    <2>3. CASE then = 1
      BY <1>8, <2>1, <2>3
    <2> QED BY <2>2, <2>3
  <1>10. Units(t, b, q) = Len(CharsOf(t, b, q)) + then
    <2>1. PICK n \in Nat : n = Len(CharsOf(t, b, p))
      BY <1>1
    <2>2. CASE then = 0
      <3>1. Len(Append(CharsOf(t, b, p), c)) = n + 1
        <4>1. PICK s \in Seq(CharsMade(t)) : s = CharsOf(t, b, p)
          BY <1>1
        <4>2. c \in CharsMade(t)
          <5>1. t[p] \in CharsMade(t) /\ Stands(t[p]) \in CharsMade(t)
            BY <1>1 DEF CharsMade
          <5> QED BY <1>1, <1>6, <5>1
        <4> QED BY <2>1, <4>1, <4>2, AppendProperties
      <3>2. Len(CharsOf(t, b, q)) = n + 1
        BY <1>7, <2>2, <3>1
      <3> QED BY <1>1, <1>2, <1>4, <2>1, <2>2, <3>2
    <2>3. CASE then = 1
      BY <1>1, <1>2, <1>4, <1>8, <2>1, <2>3
    <2> QED BY <2>2, <2>3
  <1>11. tok_str' = [n \in 1 .. Cardinality(SlashesIn(t, b, q)) |-> "\\"]
    <2>1. tok_str = [n \in 1 .. Cardinality(SlashesIn(t, b, p)) |-> "\\"]
      BY DEF InLiteral
    <2>2. CASE then = 0
      BY <1>1, <1>2, <1>4, <1>5, <2>1, <2>2
    <2>3. CASE then = 1
      <3>1. SlashesIn(t, b, q) = SlashesIn(t, b, p) \cup {p}
        BY <1>4, <1>5, <2>3
      <3>2. PICK U : U = SlashesIn(t, b, p)
        OBVIOUS
      <3>3. IsFiniteSet(U) /\ p \notin U /\ Cardinality(U) \in Nat
        BY <1>1, <1>2, <3>2, SlashesAre
      <3>4. PICK c1 \in Nat : c1 = Cardinality(U)
        BY <3>3
      <3>5. Cardinality(SlashesIn(t, b, q)) = c1 + 1
        BY <3>1, <3>2, <3>3, <3>4, FS_AddElement
      <3>6. Append([n \in 1 .. c1 |-> "\\"], "\\") = [n \in 1 .. c1 + 1 |-> "\\"]
        OBVIOUS
      <3> QED BY <2>1, <2>3, <3>2, <3>5, <3>6, <3>4
    <2> QED BY <2>2, <2>3
  <1>12. Opened(t, b, LiteralKind(t[b]))'
    BY DEF InLiteral, Opened, Started
  <1> QED BY <1>4, <1>5, <1>9, <1>10, <1>11, <1>12 DEF InLiteral

LEMMA BackslashStep ==
    ASSUME NEW t, NEW p, NEW q, Moves(t, p, q), Backslash
    PROVE  Held(t, q)'
  <1>1. PICK b : InLiteral(t, b, p, 0)
    BY DEF Moves, Held, Backslash
  <1>2. PICK none \in {0, 1} : none = 0
    OBVIOUS
  <1>3. PICK one \in {0, 1} : one = 1
    OBVIOUS
  <1>4. Fits(t, p) /\ chr = "\\" /\ chr # EOF /\ LiteralError = "none" /\ next_chr("escape") /\ UNCHANGED tok_val
    BY DEF Backslash, Moves, Next_chr, EOF
  <1>5. /\ Len(t) \in Nat /\ b \in 1 .. Len(t) /\ p \in 1 .. Len(t) + 1 /\ p \in Nat /\ p > b
        /\ t[b] \in Quotes /\ (tok = "chr" <=> t[b] = "'")
        /\ p > Len(t) => p = Len(t) + 1 /\ chr = EOF
        /\ Units(t, b, p) \in Nat /\ Units(t, b, p) <= Most(t[b])
        /\ tok_val.str = CharsOf(t, b, p) /\ CharsOf(t, b, p) \in Seq(CharsMade(t))
    BY <1>1, <1>4, LiteralIs
  <1>6. p <= Len(t)
    BY <1>4, <1>5
  <1>7. Units(t, b, p) = Len(CharsOf(t, b, p)) /\ Len(CharsOf(t, b, p)) \in Nat
    BY <1>1, <1>5 DEF InLiteral
  <1>8. Len(CharsOf(t, b, p)) < Most(t[b])
    <2>1. CASE t[b] = "'"
      <3>1. CharsOf(t, b, p) = <<>>
        BY <1>4, <1>5, <2>1 DEF LiteralError
      <3> QED BY <2>1, <3>1 DEF Most
    <2>2. CASE t[b] # "'"
      <3>1. Len(CharsOf(t, b, p)) # MAX_TOK_LEN
        BY <1>4, <1>5, <2>2 DEF LiteralError
      <3>2. Most(t[b]) = MAX_TOK_LEN /\ MAX_TOK_LEN \in Nat
        BY <2>2, TokensAssumption DEF Most
      <3> QED BY <1>5, <1>7, <3>1, <3>2
    <2> QED BY <2>1, <2>2
  <1>9. chr # t[b]
    BY <1>4, <1>5, KindsApart
  <1>10. Len(tok_str) # MAX_TOK_LEN
    <2>1. PICK c : c = Cardinality(SlashesIn(t, b, p))
      OBVIOUS
    <2>2. c \in Nat /\ c <= Units(t, b, p)
      BY <1>5, <2>1, SlashesAre
    <2>3. tok_str = [n \in 1 .. c |-> "\\"]
      BY <1>1, <2>1 DEF InLiteral
    <2>4. Len(tok_str) = c
      BY <2>2, <2>3
    <2>5. Most(t[b]) <= MAX_TOK_LEN /\ Most(t[b]) \in Nat /\ MAX_TOK_LEN \in Nat
      BY TokensAssumption DEF Most
    <2> QED BY <1>7, <1>8, <2>2, <2>4, <2>5
  <1>11. /\ q = p + 1 /\ mode' = "escape" /\ tok_str' = Append(tok_str, "\\")
         /\ UNCHANGED <<tok, tok_pos, toks>>
    BY <1>4, <1>10 DEF next_chr, To, Moves, Backslash
  <1>12. InLiteral(t, b, q, one)'
    <2>1. InLiteral(t, b, p, none)
      BY <1>1, <1>2
    <2>2. none = 1 => FALSE
      BY <1>2
    <2>3. one = 0 => FALSE
      BY <1>3
    <2> QED BY <1>3, <1>4, <1>6, <1>8, <1>9, <1>11, <2>1, <2>2, <2>3, LiteralAfter
  <1>13. InLiteral(t, b, q, 1)'
    BY <1>3, <1>12 DEF InLiteral
  <1> QED BY <1>11, <1>13, HeldIf

LEMMA PlainStep ==
    ASSUME NEW t, NEW p, NEW q, Moves(t, p, q), Plain
    PROVE  Held(t, q)'
  <1>1. PICK b : InLiteral(t, b, p, 0)
    BY DEF Moves, Held, Plain
  <1>2. PICK none \in {0, 1} : none = 0
    OBVIOUS
  <1>3. /\ Fits(t, p) /\ chr # delim /\ chr # "\\" /\ LiteralError = "none" /\ skip_chr
        /\ UNCHANGED <<tok, tok_pos, toks, tok_str>> /\ mode' = "literal"
        /\ tok_val' = [tok_val EXCEPT !.str = Append(@, chr)]
    BY DEF Plain, Moves, Decode, Skip, To
  <1>4. /\ Len(t) \in Nat /\ b \in 1 .. Len(t) /\ p \in 1 .. Len(t) + 1 /\ p \in Nat /\ p > b
        /\ t[b] \in Quotes /\ (tok = "chr" <=> t[b] = "'") /\ delim = t[b]
        /\ p > Len(t) => p = Len(t) + 1 /\ chr = EOF
        /\ Units(t, b, p) \in Nat /\ Units(t, b, p) <= Most(t[b])
        /\ tok_val.str = CharsOf(t, b, p) /\ CharsOf(t, b, p) \in Seq(CharsMade(t))
    BY <1>1, <1>3, LiteralIs
  <1>5. p <= Len(t)
    <2>1. chr # EOF
      BY <1>3 DEF LiteralError
    <2> QED BY <1>4, <2>1
  <1>6. Units(t, b, p) = Len(CharsOf(t, b, p)) /\ Len(CharsOf(t, b, p)) \in Nat
    BY <1>1, <1>4 DEF InLiteral
  <1>7. Len(CharsOf(t, b, p)) < Most(t[b])
    <2>1. CASE t[b] = "'"
      <3>1. CharsOf(t, b, p) = <<>>
        BY <1>3, <1>4, <2>1 DEF LiteralError
      <3> QED BY <2>1, <3>1 DEF Most
    <2>2. CASE t[b] # "'"
      <3>1. Len(CharsOf(t, b, p)) # MAX_TOK_LEN
        BY <1>3, <1>4, <2>2 DEF LiteralError
      <3>2. Most(t[b]) = MAX_TOK_LEN /\ MAX_TOK_LEN \in Nat
        BY <2>2, TokensAssumption DEF Most
      <3> QED BY <1>4, <1>6, <3>1, <3>2
    <2> QED BY <2>1, <2>2
  <1>8. q = p + 1
    BY <1>3 DEF Moves, Plain
  <1>9. InLiteral(t, b, q, none)'
    <2>1. InLiteral(t, b, p, none)
      BY <1>1, <1>2
    <2>2. (none = 1 => FALSE) /\ (none = 1 <=> chr = "\\") /\ chr # t[b]
      BY <1>2, <1>3, <1>4
    <2>3. tok_val' = [tok_val EXCEPT !.str = Append(@, IF none = 1 THEN Stands(chr) ELSE chr)]
      BY <1>3, <2>2
    <2> QED BY <1>3, <1>5, <1>7, <1>8, <2>1, <2>2, <2>3, LiteralAfter
  <1>10. InLiteral(t, b, q, 0)'
    BY <1>2, <1>9 DEF InLiteral
  <1> QED BY <1>3, <1>10, HeldIf

LEMMA EscapeStep ==
    ASSUME NEW t, NEW p, NEW q, Moves(t, p, q), Escape
    PROVE  Held(t, q)'
  <1>1. PICK b : InLiteral(t, b, p, 1)
    BY DEF Moves, Held, Escape
  <1>2. PICK none \in {0, 1} : none = 0
    OBVIOUS
  <1>3. PICK one \in {0, 1} : one = 1
    OBVIOUS
  <1>4. Fits(t, p)
    BY DEF Moves
  <1>5. /\ Len(t) \in Nat /\ b \in 1 .. Len(t) /\ p \in 1 .. Len(t) + 1 /\ p \in Nat /\ p > b
        /\ t[b] \in Quotes /\ Started(t, b) /\ RightSoFar(t, b, p)
        /\ p <= Len(t) => t[p] = chr /\ chr # EOF
        /\ p > Len(t) => p = Len(t) + 1 /\ chr = EOF
        /\ CharsOf(t, b, p) \in Seq(CharsMade(t))
        /\ UnitsOf(t, b, p) = {} <=> Units(t, b, p) = 0
    BY <1>1, <1>4, LiteralIs
  <1>6. CASE chr \in Range(escapes)
    <2>1. IsEscape(chr) /\ Unescaped(chr) = Stands(chr)
      BY <1>6, EscapesAre
    <2>2. p <= Len(t)
      <3>1. ~IsEscape(EOF)
        BY DEF IsEscape, SimpleEscapes, EOF
      <3> QED BY <1>5, <2>1, <3>1
    <2>3. /\ skip_chr /\ UNCHANGED <<tok, tok_pos, toks, tok_str>> /\ mode' = "literal"
          /\ tok_val' = [tok_val EXCEPT !.str = Append(@, Stands(chr))]
      BY <1>6, <2>1 DEF Escape, Decode, Skip, To
    <2>4. q = p + 1
      BY <2>3 DEF Moves, Escape
    <2>5. InLiteral(t, b, q, none)'
      <3>1. InLiteral(t, b, p, one)
        BY <1>1, <1>3
      <3>2. (one = 0 => FALSE) /\ (none = 1 => FALSE)
        BY <1>2, <1>3
      <3>3. tok_val' = [tok_val EXCEPT !.str = Append(@, IF one = 1 THEN Stands(chr) ELSE chr)]
        BY <1>3, <2>3
      <3> QED BY <1>2, <1>4, <2>1, <2>2, <2>3, <2>4, <3>1, <3>2, <3>3, LiteralAfter
    <2>6. InLiteral(t, b, q, 0)'
      BY <1>2, <2>5 DEF InLiteral
    <2> QED BY <2>3, <2>6, HeldIf
  <1>7. CASE chr \notin Range(escapes)
    <2>1. err_at("unknown escape sequence") /\ ~IsEscape(chr)
      BY <1>7, EscapesAre DEF Escape
    <2>2. Escaped(t, b, p) /\ UnitsOf(t, b, p) # {}
      <3>1. Units(t, b, p) = Len(CharsOf(t, b, p)) + 1 /\ Len(CharsOf(t, b, p)) \in Nat
        BY <1>1, <1>5 DEF InLiteral
      <3> QED BY <1>1, <1>5, <3>1 DEF InLiteral
    <2>3. From(t, b) = <<Token("error", "unknown escape sequence", PosOf(t, p), NoVal)>>
      BY <1>5, <2>1, <2>2, LiteralComplaints
    <2>4. Ended(t)' /\ mode' = "lexed"
      BY <1>4, <1>5, <2>1, <2>3, ErrorStep
    <2> QED BY <2>4, HeldIf
  <1> QED BY <1>6, <1>7

LEMMA BadLiteralStep ==
    ASSUME NEW t, NEW p, NEW q, Moves(t, p, q), BadLiteral
    PROVE  Held(t, q)'
  <1>1. PICK b : InLiteral(t, b, p, 0)
    BY DEF Moves, Held, BadLiteral
  <1>2. /\ Fits(t, p) /\ chr # delim /\ LiteralError # "none" /\ err_at(LiteralError)
    BY DEF BadLiteral, Moves
  <1>3. /\ Len(t) \in Nat /\ b \in 1 .. Len(t) /\ p \in 1 .. Len(t) + 1 /\ p \in Nat /\ p > b
        /\ t[b] \in Quotes /\ Started(t, b) /\ RightSoFar(t, b, p) /\ delim = t[b]
        /\ (tok = "chr" <=> t[b] = "'")
        /\ p <= Len(t) => t[p] = chr /\ chr # EOF
        /\ p > Len(t) => p = Len(t) + 1 /\ chr = EOF
        /\ Units(t, b, p) \in Nat /\ Units(t, b, p) <= Most(t[b])
        /\ tok_val.str = CharsOf(t, b, p) /\ CharsOf(t, b, p) \in Seq(CharsMade(t))
    BY <1>1, <1>2, LiteralIs
  <1>4. ~Escaped(t, b, p) /\ Units(t, b, p) = Len(CharsOf(t, b, p)) /\ Len(CharsOf(t, b, p)) \in Nat
    BY <1>1, <1>3 DEF InLiteral
  <1>5. PICK why : why = LiteralError
    OBVIOUS
  <1>6. From(t, b) = <<Token("error", why, PosOf(t, p), NoVal)>>
    <2>1. CASE chr = EOF
      <3>1. why = "unterminated string/char literal"
        BY <1>5, <2>1, Zenon DEF LiteralError
      <3>2. p = Len(t) + 1
        BY <1>3, <2>1
      <3> QED BY <1>3, <1>4, <3>1, <3>2, LiteralComplaints
    <2>2. CASE chr # EOF /\ t[b] = "'" /\ tok_val.str # <<>>
      <3>1. tok = "chr"
        BY <1>3, <2>2
      <3>2. why = "too many characters in char literal"
        BY <1>5, <2>2, <3>1, Zenon DEF LiteralError
      <3>3. p <= Len(t) /\ t[p] # t[b]
        BY <1>2, <1>3, <2>2
      <3>4. Units(t, b, p) = 1
        <4>1. Len(CharsOf(t, b, p)) # 0
          BY <1>3, <2>2
        <4> QED BY <1>3, <1>4, <2>2, <4>1 DEF Most
      <3> QED BY <1>3, <1>4, <2>2, <3>3, <3>4, <3>2, LiteralComplaints
    <2>3. CASE chr # EOF /\ ~(t[b] = "'" /\ tok_val.str # <<>>)
      <3>1. Len(tok_val.str) = MAX_TOK_LEN /\ why = "string/char literal too long"
        BY <1>2, <1>3, <1>5, <2>3 DEF LiteralError
      <3>2. Units(t, b, p) = MAX_TOK_LEN /\ t[b] # "'"
        <4>1. Len(CharsOf(t, b, p)) = MAX_TOK_LEN
          BY <1>3, <3>1
        <4>2. CharsOf(t, b, p) # <<>>
          BY <1>3, <4>1, TokensAssumption
        <4> QED BY <1>3, <1>4, <2>3, <4>1, <4>2
      <3>3. t[b] = "\""
        BY <1>3, <3>2 DEF Quotes
      <3>4. p <= Len(t) /\ t[p] # t[b]
        BY <1>2, <1>3, <2>3
      <3> QED BY <1>3, <1>4, <3>1, <3>2, <3>4, <3>3, LiteralComplaints
    <2> QED BY <2>1, <2>2, <2>3
  <1>7. err_at(why)
    BY <1>2, <1>5
  <1>8. Ended(t)' /\ mode' = "lexed"
    BY <1>2, <1>3, <1>6, <1>7, ErrorStep
  <1> QED BY <1>8, HeldIf

LEMMA CloseStep ==
    ASSUME NEW t, NEW p, NEW q, Moves(t, p, q), Close
    PROVE  Held(t, q)'
  <1>1. PICK b : InLiteral(t, b, p, 0)
    BY DEF Moves, Held, Close
  <1>2. Fits(t, p) /\ chr = delim
    BY DEF Close, Moves
  <1>3. /\ Len(t) \in Nat /\ b \in 1 .. Len(t) /\ p \in 1 .. Len(t) + 1 /\ p \in Nat /\ p > b
        /\ t[b] \in Quotes /\ Started(t, b) /\ RightSoFar(t, b, p) /\ delim = t[b] /\ tok = LiteralKind(t[b])
        /\ (tok = "chr" <=> t[b] = "'") /\ tok_pos = PosOf(t, b) /\ tok \in {"str", "chr"}
        /\ p <= Len(t) => t[p] = chr /\ chr # EOF
        /\ p > Len(t) => p = Len(t) + 1 /\ chr = EOF
        /\ tok_val.str = CharsOf(t, b, p) /\ CharsOf(t, b, p) \in Seq(CharsMade(t))
        /\ UnitsOf(t, b, p) = {} <=> Units(t, b, p) = 0
    BY <1>1, <1>2, LiteralIs
  <1>4. ~Escaped(t, b, p) /\ Units(t, b, p) = Len(CharsOf(t, b, p)) /\ Len(CharsOf(t, b, p)) \in Nat
    BY <1>1, <1>3 DEF InLiteral
  <1>5. p <= Len(t) /\ Closes(t, b, p)
    <2>1. chr # EOF
      BY <1>2, <1>3 DEF Quotes, EOF
    <2> QED BY <1>2, <1>3, <1>4, <2>1 DEF Closes
  <1>6. UnitsOf(t, b, p) = {} <=> tok_val.str = <<>>
    BY <1>3, <1>4
  <1>7. CASE tok = "chr" /\ tok_val.str = <<>>
    <2>1. err_at("empty char literal")
      BY <1>7 DEF Close
    <2>2. From(t, b) = <<Token("error", "empty char literal", PosOf(t, p), NoVal)>>
      BY <1>3, <1>5, <1>6, <1>7, LiteralComplaints
    <2>3. Ended(t)' /\ mode' = "lexed"
      BY <1>2, <1>3, <2>1, <2>2, ErrorStep
    <2> QED BY <2>3, HeldIf
  <1>8. CASE ~(tok = "chr" /\ tok_val.str = <<>>)
    <2>1. /\ skip_chr /\ mode' = "end" /\ UNCHANGED <<tok, tok_str, tok_pos, toks>>
          /\ tok_val' = [tok_val EXCEPT !.n = Len(tok_val.str)]
      BY <1>8 DEF Close, Skip, To
    <2>2. q = p + 1
      BY <2>1 DEF Moves, Close
    <2>3. FaultsAt(t, b) = {} /\ EndOfLiteral(t, b) = p
      <3>1. t[b] = "'" => UnitsOf(t, b, p) # {}
        BY <1>3, <1>6, <1>8
      <3> QED BY <1>3, <1>5, <3>1, LiteralOk
    <2>4. PICK e : e = TokenAt(t, b)
      OBVIOUS
    <2>5. t[b] \notin Blanks /\ ~CommentAt(t, b)
      BY <1>3, KindsApart DEF CommentAt
    <2>6. Behind(t, b) = q
      <3>1. Behind(t, b) = 1 + p
        BY <1>3, <2>3 DEF Behind
      <3> QED BY <1>3, <2>2, <3>1
    <2>7. From(t, b) = <<e>> \o From(t, q) /\ e \in TokensOf(t)
      <3>1. From(t, b) = <<e>> \o From(t, Behind(t, b))
        BY <1>3, <2>3, <2>4, <2>5, FromCases
      <3>2. e \in TokensOf(t)
        BY <1>3, <2>4 DEF TokensOf
      <3> QED BY <2>6, <3>1, <3>2
    <2>8. Backslashes(t, b) = tok_str
      BY <1>1, <2>3 DEF Backslashes, InLiteral, SlashesIn
    <2>9. PICK s : s = CharsOf(t, b, p)
      OBVIOUS
    <2>10. e = Token(LiteralKind(t[b]), Joined(tok_str), PosOf(t, b), [NoVal EXCEPT !.n = Len(s), !.str = s])
      BY <1>3, <2>3, <2>4, <2>8, <2>9 DEF TokenAt, LiteralKind
    <2>11. tok_val' = [NoVal EXCEPT !.n = Len(s), !.str = s]
      <3>1. tok_val = [NoVal EXCEPT !.str = s] /\ tok_val.str = s
        BY <1>1, <1>3, <2>9 DEF InLiteral
      <3> QED BY <2>1, <3>1 DEF NoVal
    <2>12. PICK kind : kind = LiteralKind(t[b])
      OBVIOUS
    <2>13. Made(tok)' = e /\ tok' = kind /\ kind # "eof"
      BY <1>3, <2>1, <2>10, <2>11, <2>12 DEF Made
    <2>14. Complete(t, q)'
      BY <1>3, <2>1, <2>4, <2>7, <2>13, CompleteAfter
    <2> QED BY <2>1, <2>14, HeldIf
  <1> QED BY <1>7, <1>8

LEMMA SymPieces ==
    ASSUME NEW S, NEW t \in Seq(S), NEW b \in 1 .. Len(t)
    PROVE  /\ SubSeq(t, b, b) = <<t[b]>>
           /\ \A p \in 1 .. Len(t) : p = b + 1 => SubSeq(t, b, p) = <<t[b], t[p]>>
           /\ \A p \in 1 .. Len(t) : \A o \in Nat : p = b + 2 /\ o = b + 1 => SubSeq(t, b, p) = <<t[b], t[o], t[p]>>
  <1>1. ASSUME NEW p \in b .. Len(t)
        PROVE  /\ SubSeq(t, b, p) \in Seq(S) /\ Len(SubSeq(t, b, p)) = p - b + 1
               /\ \A k \in 1 .. p - b + 1 : SubSeq(t, b, p)[k] = t[b + k - 1]
    BY PieceIs
  <1>2. SubSeq(t, b, b) = <<t[b]>>
    <2>1. PICK s : s = SubSeq(t, b, b)
      OBVIOUS
    <2>2. s \in Seq(S) /\ Len(s) = 1 /\ s[1] = t[b]
      <3>1. b \in b .. Len(t) /\ b - b + 1 = 1 /\ b + 1 - 1 = b /\ 1 \in 1 .. b - b + 1
        OBVIOUS
      <3> QED BY <1>1, <2>1, <3>1
    <2> QED BY <2>1, <2>2, ShortSeqs
  <1>3. ASSUME NEW p \in 1 .. Len(t), p = b + 1 PROVE SubSeq(t, b, p) = <<t[b], t[p]>>
    <2>1. PICK s : s = SubSeq(t, b, p)
      OBVIOUS
    <2>2. s \in Seq(S) /\ Len(s) = 2 /\ s[1] = t[b] /\ s[2] = t[p]
      <3>1. p \in b .. Len(t) /\ p - b + 1 = 2 /\ b + 1 - 1 = b /\ b + 2 - 1 = p /\ 1 \in 1 .. p - b + 1 /\ 2 \in 1 .. p - b + 1
        BY <1>3
      <3> QED BY <1>1, <2>1, <3>1
    <2> QED BY <2>1, <2>2, ShortSeqs
  <1>4. ASSUME NEW p \in 1 .. Len(t), NEW o \in Nat, p = b + 2, o = b + 1 PROVE SubSeq(t, b, p) = <<t[b], t[o], t[p]>>
    <2>1. PICK s : s = SubSeq(t, b, p)
      OBVIOUS
    <2>2. s \in Seq(S) /\ Len(s) = 3 /\ s[1] = t[b] /\ s[2] = t[o] /\ s[3] = t[p]
      <3>1. /\ p \in b .. Len(t) /\ p - b + 1 = 3 /\ b + 1 - 1 = b /\ b + 2 - 1 = o /\ b + 3 - 1 = p
            /\ 1 \in 1 .. p - b + 1 /\ 2 \in 1 .. p - b + 1 /\ 3 \in 1 .. p - b + 1
        BY <1>4
      <3> QED BY <1>1, <2>1, <3>1
    <2> QED BY <2>1, <2>2, ShortSeqs
  <1> QED BY <1>2, <1>3, <1>4

LEMMA SymStep ==
    ASSUME NEW t, NEW p, NEW q, Moves(t, p, q), Sym
    PROVE  Held(t, q)'
  <1>1. /\ AtSym(t, p) /\ Len(t) \in Nat /\ p \in 1 .. Len(t) /\ t[p] = chr /\ next_chr("second") /\ tok_str = <<>>
        /\ Opened(t, p, "sym") /\ SymAt(t, p)
    BY TextIs DEF Moves, Fits, Held, Sym, AtSym, Opened, Next_chr
  <1>2. Len(tok_str) # MAX_TOK_LEN
    BY <1>1, TokensAssumption
  <1>3. /\ mode' = "second" /\ q = p + 1 /\ UNCHANGED <<tok, tok_pos, toks>> /\ tok_str' = <<t[p]>>
    BY <1>1, <1>2 DEF next_chr, To, Moves, Sym
  <1>4. Opened(t, p, "sym")'
    BY <1>1, <1>3 DEF Opened, Started
  <1>5. AtSecond(t, p, q)'
    BY <1>1, <1>3, <1>4 DEF AtSecond
  <1> QED BY <1>3, <1>5, HeldIf

LEMMA SecondIs ==
    ASSUME NEW t, NEW p, NEW b, Fits(t, p), AtSecond(t, b, p)
    PROVE  /\ t \in Seq(Range(t)) /\ Len(t) \in Nat /\ b \in 1 .. Len(t) /\ p \in 1 .. Len(t) + 1 /\ p = b + 1
           /\ Started(t, b) /\ tok = "sym" /\ tok_pos = PosOf(t, b) /\ tok_str = <<t[b]>> /\ prev = t[b]
           /\ t[b] \notin Blanks /\ t[b] \notin Quotes /\ t[b] \notin Digits /\ t[b] \notin Letters /\ t[b] # EOF
           /\ p <= Len(t) => t[p] = chr /\ chr # EOF
           /\ p > Len(t) => chr = EOF
           /\ KindOf(t[b]) = "sym" /\ Len(tok_str) # MAX_TOK_LEN
  <1>1. /\ IsText(t) /\ t \in Seq(Range(t)) /\ Len(t) \in Nat /\ b \in 1 .. Len(t) /\ p \in 1 .. Len(t) + 1 /\ p = b + 1
        /\ Started(t, b) /\ tok = "sym" /\ tok_pos = PosOf(t, b) /\ tok_str = <<t[b]>> /\ prev = t[b] /\ SymAt(t, b)
    BY TextIs DEF Fits, AtSecond, Opened, prev
  <1>2. \A k \in 1 .. Len(t) : t[k] # EOF
    BY <1>1, TextIs
  <1>3. p <= Len(t) => t[p] = chr /\ chr # EOF
    BY <1>1, <1>2 DEF Fits
  <1>4. p > Len(t) => chr = EOF
    BY DEF Fits
  <1>5. t[b] \notin Blanks /\ t[b] \notin Quotes /\ t[b] \notin Digits /\ t[b] \notin Letters
    BY <1>1 DEF SymAt
  <1>6. KindOf(t[b]) = "sym"
    BY <1>5 DEF KindOf
  <1>7. Len(tok_str) # MAX_TOK_LEN
    BY <1>1, TokensAssumption
  <1> QED BY <1>1, <1>2, <1>3, <1>4, <1>5, <1>6, <1>7

LEMMA HashStep ==
    ASSUME NEW t, NEW p, NEW q, Moves(t, p, q), Hash
    PROVE  Held(t, q)'
  <1>1. PICK b : AtSecond(t, b, p)
    BY DEF Moves, Held, Hash
  <1>2. /\ Len(t) \in Nat /\ b \in 1 .. Len(t) /\ p \in 1 .. Len(t) + 1 /\ p = b + 1 /\ Started(t, b)
        /\ prev = t[b] /\ t[b] \notin Blanks
    BY <1>1, SecondIs DEF Moves
  <1>3. t[b] = "#" /\ mode' = "comment" /\ UNCHANGED <<chr, chr_pos, lexed>> /\ q = p
    BY <1>2 DEF Hash, Stay, To, Moves
  <1>4. \A k \in b .. p - 1 : t[k] # "\n"
    <2>1. \A k \in b .. p - 1 : k = b
      BY <1>2
    <2> QED BY <1>3, <2>1
  <1>5. InRemark(t, b, q)'
    BY <1>2, <1>3, <1>4 DEF InRemark, Started, CommentAt, lexed
  <1> QED BY <1>3, <1>5, HeldIf

LEMMA SlashStep ==
    ASSUME NEW t, NEW p, NEW q, Moves(t, p, q), Slash
    PROVE  Held(t, q)'
  <1>1. PICK b : AtSecond(t, b, p)
    BY DEF Moves, Held, Slash
  <1>2. /\ Len(t) \in Nat /\ b \in 1 .. Len(t) /\ p \in 1 .. Len(t) + 1 /\ p = b + 1 /\ Started(t, b)
        /\ prev = t[b] /\ t[b] \notin Blanks /\ Len(tok_str) # MAX_TOK_LEN
        /\ p <= Len(t) => t[p] = chr /\ chr # EOF
        /\ p > Len(t) => chr = EOF
    BY <1>1, SecondIs DEF Moves
  <1>3. t[b] = "/" /\ chr = "/" /\ next_chr("comment")
    BY <1>2 DEF Slash, Next_chr
  <1>4. p <= Len(t) /\ t[p] = "/"
    BY <1>2, <1>3 DEF EOF
  <1>5. mode' = "comment" /\ q = p + 1 /\ UNCHANGED toks
    BY <1>2, <1>3 DEF next_chr, To, Moves, Slash
  <1>6. \A k \in b .. q - 1 : t[k] # "\n"
    <2>1. \A k \in b .. q - 1 : k = b \/ k = p
      BY <1>2, <1>5
    <2> QED BY <1>3, <1>4, <2>1
  <1>7. CommentAt(t, b)
    BY <1>2, <1>3, <1>4 DEF CommentAt
  <1>8. InRemark(t, b, q)'
    BY <1>2, <1>4, <1>5, <1>6, <1>7 DEF InRemark, Started
  <1> QED BY <1>5, <1>8, HeldIf

LEMMA InCommentStep ==
    ASSUME NEW t, NEW p, NEW q, Moves(t, p, q), InComment
    PROVE  Held(t, q)'
  <1>1. PICK b : InRemark(t, b, p)
    BY DEF Moves, Held, InComment
  <1>2. /\ Len(t) \in Nat /\ b \in 1 .. Len(t) /\ p \in b + 1 .. Len(t) + 1 /\ Started(t, b)
        /\ chr # EOF /\ chr # "\n"
        /\ p <= Len(t) => t[p] = chr
        /\ p > Len(t) => chr = EOF
    BY <1>1, TextIs DEF Moves, InRemark, Fits, InComment
  <1>3. p <= Len(t) /\ t[p] = chr
    BY <1>2
  <1>4. mode' = "comment" /\ q = p + 1 /\ UNCHANGED toks
    BY DEF InComment, Skip, To, Moves
  <1>5. \A k \in b .. q - 1 : t[k] # "\n"
    <2>1. \A k \in b .. q - 1 : k \in b .. p - 1 \/ k = p
      BY <1>2, <1>4
    <2> QED BY <1>1, <1>2, <1>3, <2>1 DEF InRemark
  <1>6. InRemark(t, b, q)'
    BY <1>1, <1>2, <1>3, <1>4, <1>5 DEF InRemark, Started
  <1> QED BY <1>4, <1>6, HeldIf

LEMMA EndCommentStep ==
    ASSUME NEW t, NEW p, NEW q, Moves(t, p, q), EndComment
    PROVE  Held(t, q)'
  <1>1. PICK b : InRemark(t, b, p)
    BY DEF Moves, Held, EndComment
  <1>2. /\ Len(t) \in Nat /\ b \in 1 .. Len(t) /\ p \in b + 1 .. Len(t) + 1 /\ Started(t, b)
        /\ chr \in {"\n", EOF} /\ t[b] \notin Blanks /\ CommentAt(t, b)
        /\ \A k \in b .. p - 1 : t[k] # "\n"
        /\ \A k \in 1 .. Len(t) : t[k] # EOF
        /\ p <= Len(t) => t[p] = chr
    BY <1>1, TextIs DEF Moves, InRemark, Fits, EndComment
  <1>3. p <= Len(t) => t[p] = "\n"
    BY <1>2
  <1>4. EndOfLine(t, b) = p
    <2>1. p \in b .. Len(t) + 1
      BY <1>2
    <2> QED BY <1>2, <1>3, <2>1, LineEnds
  <1>5. From(t, b) = From(t, p)
    BY <1>2, <1>4, FromCases
  <1>6. mode' = "begin" /\ q = p /\ UNCHANGED toks
    BY DEF EndComment, Stay, To, Moves, lexed
  <1>7. Started(t, q)'
    BY <1>2, <1>5, <1>6 DEF Started
  <1> QED BY <1>6, <1>7, HeldIf

\* A pair is no ellipsis and no comment.
LEMMA PairsApart ==
    \A c, d : Pairs(c, d) => c # "." /\ c # "#" /\ c # "/" /\ d # EOF
  BY DEF Pairs, EOF

LEMMA PairStep ==
    ASSUME NEW t, NEW p, NEW q, Moves(t, p, q), Pair
    PROVE  Held(t, q)'
  <1>1. PICK b : AtSecond(t, b, p)
    BY DEF Moves, Held, Pair
  <1>2. /\ t \in Seq(Range(t)) /\ Len(t) \in Nat /\ b \in 1 .. Len(t) /\ p \in 1 .. Len(t) + 1 /\ p = b + 1
        /\ Started(t, b) /\ tok = "sym" /\ tok_pos = PosOf(t, b) /\ tok_str = <<t[b]>> /\ prev = t[b]
        /\ t[b] \notin Blanks /\ t[b] \notin Quotes /\ t[b] \notin Digits /\ t[b] \notin Letters
        /\ p <= Len(t) => t[p] = chr
        /\ p > Len(t) => chr = EOF
        /\ KindOf(t[b]) = "sym" /\ Len(tok_str) # MAX_TOK_LEN
    BY <1>1, SecondIs DEF Moves
  <1>3. Pairs(t[b], chr) /\ next_chr("end")
    BY <1>2 DEF Pair, Next_chr
  <1>4. t[b] # "." /\ t[b] # "#" /\ t[b] # "/" /\ chr # EOF
    BY <1>3, PairsApart
  <1>5. p \in b .. Len(t) /\ p \in 1 .. Len(t) /\ t[p] = chr /\ ~CommentAt(t, b)
    BY <1>2, <1>4 DEF CommentAt
  <1>6. /\ mode' = "end" /\ q = p + 1 /\ UNCHANGED <<tok, tok_pos, toks>>
        /\ tok_str' = <<t[b], t[p]>>
    BY <1>2, <1>3, <1>5 DEF next_chr, To, Moves, Pair
  <1>7. p = LongestAt(t, b)
    <2>1. Longer(t, b, p)
      BY <1>2, <1>3, <1>5, SymGoes
    <2>2. ASSUME NEW j \in p + 1 .. Len(t) PROVE ~Longer(t, b, j)
      <3>1. j \in b .. Len(t) /\ j # b /\ j # b + 1
        BY <1>2
      <3> QED BY <1>2, <1>4, <3>1, SymGoes
    <2> QED BY <1>2, <1>5, <2>1, <2>2, LongestIs
  <1>8. p \in Nat /\ q \in Nat /\ p < b + MAX_TOK_LEN
    <2>1. PICK M \in Nat : M = MAX_TOK_LEN /\ M >= 3
      BY TokensAssumption
    <2> QED BY <1>2, <1>6, <2>1
  <1>9. tok' = "sym" /\ tok_pos' = PosOf(t, b) /\ tok_str' = SubSeq(t, b, p) /\ UNCHANGED toks
    BY <1>2, <1>5, <1>6, SymPieces
  <1>10. PICK kind : kind = "sym" /\ kind \in {"wrd", "sym"}
    OBVIOUS
  <1>11. Complete(t, q)'
    BY <1>2, <1>5, <1>6, <1>7, <1>8, <1>9, <1>10, PlainAfter
  <1> QED BY <1>6, <1>11, HeldIf

\* A punctuator of one character.
LEMMA OneAfter ==
    ASSUME NEW t, NEW p, NEW b, Fits(t, p), AtSecond(t, b, p), ~CommentAt(t, b),
           ~Pairs(t[b], chr), p + 1 <= Len(t) => ~(t[b] = "." /\ chr = "." /\ t[p + 1] = "."),
           UNCHANGED lexed
    PROVE  Complete(t, p)'
  <1>1. /\ t \in Seq(Range(t)) /\ Len(t) \in Nat /\ b \in 1 .. Len(t) /\ p \in 1 .. Len(t) + 1 /\ p = b + 1
        /\ Started(t, b) /\ tok = "sym" /\ tok_pos = PosOf(t, b) /\ tok_str = <<t[b]>>
        /\ t[b] \notin Blanks /\ t[b] \notin Quotes /\ t[b] \notin Digits /\ t[b] \notin Letters
        /\ p <= Len(t) => t[p] = chr
        /\ KindOf(t[b]) = "sym"
    BY SecondIs
  <1>2. b = LongestAt(t, b)
    <2>1. Longer(t, b, b)
      BY DEF Longer, IsSym
    <2>2. ASSUME NEW j \in b + 1 .. Len(t) PROVE ~Longer(t, b, j)
      <3>1. j \in b .. Len(t) /\ j # b /\ p <= Len(t)
        BY <1>1
      <3>2. b + 1 = p /\ b + 2 = p + 1 /\ t[p] = chr
        BY <1>1, <3>1
      <3>3. CASE j = p
        <4>1. j # b + 2 /\ t[b + 1] = chr
          BY <3>2, <3>3
        <4> QED BY <1>1, <3>1, <4>1, SymGoes
      <3>4. CASE j = p + 1
        <4>1. j # b + 1 /\ t[b + 1] = chr /\ t[b + 2] = t[p + 1] /\ p + 1 <= Len(t)
          BY <3>2, <3>4
        <4> QED BY <1>1, <3>1, <4>1, SymGoes
      <3>5. CASE j # p /\ j # p + 1
        <4>1. j # b + 1 /\ j # b + 2
          BY <3>2, <3>5
        <4> QED BY <1>1, <3>1, <4>1, SymGoes
      <3> QED BY <3>3, <3>4, <3>5
    <2>3. b \in b .. Len(t)
      BY <1>1
    <2> QED BY <1>1, <2>1, <2>2, <2>3, LongestIs
  <1>3. b \in Nat /\ p \in Nat /\ b < b + MAX_TOK_LEN
    <2>1. PICK M \in Nat : M = MAX_TOK_LEN /\ M >= 3
      BY TokensAssumption
    <2> QED BY <1>1, <2>1
  <1>4. tok' = "sym" /\ tok_pos' = PosOf(t, b) /\ tok_str' = SubSeq(t, b, b) /\ UNCHANGED toks
    BY <1>1, SymPieces DEF lexed
  <1>5. PICK kind : kind = "sym" /\ kind \in {"wrd", "sym"}
    OBVIOUS
  <1> QED BY <1>1, <1>2, <1>3, <1>4, <1>5, PlainAfter

LEMMA SingleStep ==
    ASSUME NEW t, NEW p, NEW q, Moves(t, p, q), Single
    PROVE  Held(t, q)'
  <1>1. PICK b : AtSecond(t, b, p) /\ Fits(t, p)
    BY DEF Moves, Held, Single
  <1>2. /\ Len(t) \in Nat /\ b \in 1 .. Len(t) /\ p = b + 1 /\ prev = t[b]
        /\ p <= Len(t) => t[p] = chr
    BY <1>1, SecondIs
  <1>3. /\ t[b] # "#" /\ ~(t[b] = "/" /\ chr = "/") /\ ~Pairs(t[b], chr) /\ ~(t[b] = "." /\ chr = ".")
        /\ mode' = "end" /\ UNCHANGED <<chr, chr_pos, lexed>> /\ UNCHANGED lexed
    BY <1>2 DEF Single, TwoDots, Stay, To
  <1>4. q = p
    BY <1>3 DEF Moves
  <1>5. ~CommentAt(t, b)
    <2>1. b < Len(t) => t[b + 1] = chr
      BY <1>2
    <2> QED BY <1>3, <2>1 DEF CommentAt
  <1>6. Complete(t, p)'
    BY <1>1, <1>3, <1>5, OneAfter
  <1> QED BY <1>3, <1>4, <1>6, HeldIf

LEMMA PeekStep ==
    ASSUME NEW t, NEW p, NEW q, Moves(t, p, q), Peek,
           mode' = "end" /\ p + 1 <= Len(t) => t[p + 1] # "."
    PROVE  Held(t, q)'
  <1>1. PICK b : AtSecond(t, b, p) /\ Fits(t, p)
    BY DEF Moves, Held, Peek
  <1>2. prev = t[b]
    BY <1>1, SecondIs
  <1>3. /\ t[b] = "." /\ chr = "." /\ mode' \in {"dots", "end"}
        /\ UNCHANGED <<chr, chr_pos, lexed>> /\ UNCHANGED lexed /\ chr' = chr
    BY <1>2 DEF Peek, TwoDots, To
  <1>4. q = p
    BY <1>3 DEF Moves
  <1>5. CASE mode' = "dots"
    <2>1. AtSecond(t, b, q)'
      BY <1>1, <1>3, <1>4 DEF AtSecond, Opened, Started, lexed
    <2>2. chr' = "."
      BY <1>3
    <2> QED BY <1>3, <1>5, <2>1, <2>2 DEF Held
  <1>6. CASE mode' = "end"
    <2>1. ~CommentAt(t, b) /\ ~Pairs(t[b], chr)
      BY <1>3 DEF CommentAt, Pairs
    <2>2. Complete(t, p)'
      BY <1>1, <1>3, <1>6, <2>1, OneAfter
    <2> QED BY <1>4, <1>6, <2>2, HeldIf
  <1> QED BY <1>3, <1>5, <1>6

LEMMA Appends == \A c, d, e : Append(<<c>>, d) = <<c, d>> /\ Append(<<c, d>>, e) = <<c, d, e>>
  <1> SUFFICES ASSUME NEW c, NEW d, NEW e
               PROVE  Append(<<c>>, d) = <<c, d>> /\ Append(<<c, d>>, e) = <<c, d, e>>
    OBVIOUS
  <1>1. PICK S : S = {c, d, e}
    OBVIOUS
  <1>2. c \in S /\ d \in S /\ e \in S
    BY <1>1
  <1>3. <<c>> \in Seq(S) /\ Len(<<c>>) = 1 /\ <<c>>[1] = c
    BY <1>2
  <1>4. <<c, d>> \in Seq(S) /\ Len(<<c, d>>) = 2 /\ <<c, d>>[1] = c /\ <<c, d>>[2] = d
    BY <1>2
  <1>5. Append(<<c>>, d) = <<c, d>>
    <2>1. PICK s : s = Append(<<c>>, d)
      OBVIOUS
    <2>2. s \in Seq(S) /\ Len(s) = 2 /\ s[1] = c /\ s[2] = d
      BY <1>2, <1>3, <2>1, AppendProperties
    <2> QED BY <2>1, <2>2, ShortSeqs
  <1>6. Append(<<c, d>>, e) = <<c, d, e>>
    <2>1. PICK s : s = Append(<<c, d>>, e)
      OBVIOUS
    <2>2. s \in Seq(S) /\ Len(s) = 3 /\ s[1] = c /\ s[2] = d /\ s[3] = e
      BY <1>2, <1>4, <2>1, AppendProperties
    <2> QED BY <2>1, <2>2, ShortSeqs
  <1> QED BY <1>5, <1>6

\* At an ellipsis, peek_char has seen the last dot.
LastSeen == mode = "last dot" => chr = "."

LEMMA DotStep ==
    ASSUME NEW t, NEW p, NEW q, Moves(t, p, q), Dot, LastSeen
    PROVE  Held(t, q)'
  <1>1. CASE mode = "dots" /\ Next_chr("last dot")
    <2>1. PICK b : AtSecond(t, b, p) /\ Fits(t, p) /\ t[b] = "." /\ chr = "."
      BY <1>1 DEF Moves, Held
    <2>2. /\ t \in Seq(Range(t)) /\ Len(t) \in Nat /\ b \in 1 .. Len(t) /\ p = b + 1
          /\ tok = "sym" /\ tok_pos = PosOf(t, b) /\ tok_str = <<t[b]>> /\ Len(tok_str) # MAX_TOK_LEN
          /\ p <= Len(t) => t[p] = chr
          /\ p > Len(t) => chr = EOF
      BY <2>1, SecondIs
    <2>3. t[p] = chr /\ t[p] = "."
      BY <2>1, <2>2 DEF EOF
    <2>4. /\ mode' = "last dot" /\ q = p + 1 /\ UNCHANGED <<tok, tok_pos, toks>>
          /\ tok_str' = Append(tok_str, chr)
      <3>1. Len(tok_str) # MAX_TOK_LEN
        BY <2>2
      <3> QED BY <1>1, <3>1 DEF next_chr, Next_chr, To, Moves
    <2>5. tok_str' = <<t[b], t[p]>>
      <3>1. PICK c, d : c = t[b] /\ d = t[p]
        OBVIOUS
      <3>2. tok_str' = Append(<<c>>, d)
        BY <2>2, <2>3, <2>4, <3>1
      <3> QED BY <3>1, <3>2, Appends
    <2>6. Opened(t, b, "sym")' /\ SymAt(t, b)
      BY <2>1, <2>4 DEF AtSecond, Opened, Started
    <2>7. q = b + 2
      <3>1. b \in Nat /\ p = b + 1 /\ q = p + 1
        <4>1. q = p + 1
          BY <2>4
        <4> QED BY <2>2, <4>1
      <3> QED BY <3>1
    <2>8. AtLastDot(t, b, q)'
      <3>1. t[b + 1] = t[p] /\ t[b + 1] = "."
        BY <2>2, <2>3
      <3>2. tok_str' = <<t[b], t[b + 1]>>
        BY <2>5, <3>1
      <3> QED BY <2>1, <2>6, <2>7, <3>1, <3>2 DEF AtLastDot
    <2> QED BY <2>4, <2>8, HeldIf
  <1>2. CASE mode = "last dot" /\ Next_chr("end")
    <2>1. PICK b : AtLastDot(t, b, p) /\ Fits(t, p) /\ chr = "."
      BY <1>2 DEF Moves, Held, LastSeen
    <2>2. Len(t) \in Nat /\ b \in 1 .. Len(t) /\ p \in 1 .. Len(t) + 1 /\ p = b + 2 /\ t \in Seq(Range(t))
      BY <2>1, TextIs DEF AtLastDot, Opened, Fits
    <2>3. PICK o \in Nat : o = b + 1
      BY <2>2
    <2>4. /\ Started(t, b) /\ tok = "sym" /\ tok_pos = PosOf(t, b) /\ tok_str = <<t[b], t[o]>>
          /\ t[b] = "." /\ t[o] = "."
      BY <2>1, <2>3 DEF AtLastDot, Opened
    <2>5. Len(tok_str) # MAX_TOK_LEN
      <3>1. PICK c, d : c = t[b] /\ d = t[o]
        OBVIOUS
      <3>2. tok_str = <<c, d>>
        BY <2>4, <3>1
      <3>3. Len(tok_str) = 2
        BY <3>2
      <3> QED BY <3>3, TokensAssumption
    <2>6. p \in 1 .. Len(t) /\ p \in b .. Len(t) /\ t[p] = chr /\ t[p] = "."
      BY <2>1, <2>2 DEF EOF, Fits
    <2>7. /\ mode' = "end" /\ q = p + 1 /\ UNCHANGED <<tok, tok_pos, toks>>
          /\ tok_str' = Append(tok_str, chr)
      BY <1>2, <2>5 DEF next_chr, Next_chr, To, Moves
    <2>8. tok_str' = <<t[b], t[o], t[p]>>
      <3>1. PICK c, d, e : c = t[b] /\ d = t[o] /\ e = t[p]
        OBVIOUS
      <3>2. tok_str' = Append(<<c, d>>, e)
        BY <2>4, <2>6, <2>7, <3>1
      <3> QED BY <3>1, <3>2, Appends
    <2>9. /\ t[b] \notin Blanks /\ t[b] \notin Quotes /\ t[b] \notin Digits /\ t[b] \notin Letters
          /\ KindOf(t[b]) = "sym" /\ ~CommentAt(t, b)
      BY <2>1, <2>4 DEF AtLastDot, SymAt, KindOf, CommentAt
    <2>10. p = LongestAt(t, b)
      <3>1. Longer(t, b, p)
        <4>1. t[b + 1] = "." /\ t[b + 2] = "."
          BY <2>2, <2>3, <2>4, <2>6
        <4>2. t[b] = "." /\ p = b + 2 /\ p \in b .. Len(t)
          BY <2>2, <2>4, <2>6
        <4> QED BY <2>2, <2>9, <4>1, <4>2, SymGoes
      <3>2. ASSUME NEW j \in p + 1 .. Len(t) PROVE ~Longer(t, b, j)
        <4>1. j \in b .. Len(t) /\ j # b /\ j # b + 1 /\ j # b + 2
          BY <2>2
        <4> QED BY <2>2, <2>9, <4>1, SymGoes
      <3> QED BY <2>2, <2>6, <3>1, <3>2, LongestIs
    <2>11. p \in Nat /\ q \in Nat /\ p < b + MAX_TOK_LEN
      <3>1. PICK M \in Nat : M = MAX_TOK_LEN /\ M >= 3
        BY TokensAssumption
      <3>2. b \in Nat /\ p = b + 2 /\ q = p + 1
        BY <2>2, <2>7
      <3> QED BY <3>1, <3>2
    <2>12. tok' = "sym" /\ tok_pos' = PosOf(t, b) /\ UNCHANGED toks
      BY <2>4, <2>7
    <2>13. tok_str' = SubSeq(t, b, p)
      BY <2>2, <2>3, <2>6, <2>8, SymPieces
    <2>14. PICK kind : kind = "sym" /\ kind \in {"wrd", "sym"}
      OBVIOUS
    <2>15. Complete(t, q)'
      BY <2>2, <2>4, <2>7, <2>9, <2>10, <2>11, <2>12, <2>13, <2>14, PlainAfter
    <2> QED BY <2>7, <2>15, HeldIf
  <1> QED BY <1>1, <1>2 DEF Dot

LEMMA BootStep ==
    ASSUME NEW t, NEW q, IsText(t), q = 1, toks = <<>>, Boot
    PROVE  Held(t, q)'
  <1>1. mode' = "begin" /\ toks' = <<>>
    BY DEF Boot, Skip, To
  <1>2. PICK f : f = From(t, 1)
    OBVIOUS
  <1>3. Tokens(t) = f
    BY <1>2, TokensAre
  <1>4. f \in Seq(TokensOf(t))
    <2>1. Len(t) \in Nat
      BY TextIs
    <2>2. 1 \in 1 .. Len(t) + 1
      BY <2>1
    <2> QED BY <1>2, <2>1, <2>2, FromTyped
  <1>5. <<>> \in Seq(TokensOf(t)) /\ f = <<>> \o f
    BY <1>4, ConcatEmptySeq, EmptySeq
  <1>6. Started(t, q)'
    BY <1>1, <1>2, <1>3, <1>5 DEF Started
  <1> QED BY <1>1, <1>6, HeldIf

-----------------------------------------------------------------------------
(***************************************************************************)
(* The input.  What has been reached of it is known, what follows is not:  *)
(* a text that the lexer may yet turn out to have is any longer part of    *)
(* the input, and once EOF is seen it is what was reached.                 *)
(***************************************************************************)
Reached == sent - ahead
Place   == IF chr = EOF THEN Reached + 1 ELSE Reached
Seen(t, p) == /\ p = Place
              /\ \E n \in Reached .. Len(src) : (chr = EOF => n = Reached) /\ t = SubSeq(src, 1, n)

InputTyped == IsText(src) /\ sent \in 0 .. Len(src) /\ ahead \in 0 .. sent

\* Why the input ends where it does.
AtEnd  == \/ Reached = Len(src)
          \/ CharSigned /\ Reached + 1 \in 1 .. Len(src) /\ src[Reached + 1] = "0xFF"
CharOk == IF chr = EOF THEN failed = {} => AtEnd
          ELSE Reached \in 1 .. Len(src) /\ chr = src[Reached]
PosOk  == chr_pos = PosOf(src, Place)
DotsOk == mode = "dots" => chr = "." /\ ahead > 0 /\ src[Reached + 1] = "."
BootOk == mode = "boot" => /\ sent = 0 /\ ahead = 0 /\ chr = "NUL" /\ failed = {} /\ toks = <<>>
                           /\ chr_pos = [line |-> 1, col |-> 0]

Good == mode \notin {"boot", "given", "parsed"} /\ "lex" \notin failed
LexInv == /\ InputTyped /\ BootOk
          /\ Good => /\ CharOk /\ PosOk /\ DotsOk /\ LastSeen
                     /\ \A t, p : Seen(t, p) => Held(t, p)

LEMMA PrefixIs ==
    ASSUME NEW S, NEW s \in Seq(S), NEW n \in 0 .. Len(s), NEW t, t = SubSeq(s, 1, n)
    PROVE  t \in Seq(S) /\ Len(t) = n /\ \A k \in 1 .. n : t[k] = s[k]
  <1>1. CASE n = 0
    BY <1>1, SubSeqEmpty
  <1>2. CASE n # 0
    <2>1. 1 \in 1 .. Len(s) + 1 /\ n \in 1 - 1 .. Len(s) /\ n - 1 + 1 = n /\ \A k \in 1 .. n : 1 + k - 1 = k
      BY <1>2
    <2> QED BY <2>1, PieceIs
  <1> QED BY <1>1, <1>2

LEMMA PosPrefix ==
    ASSUME NEW S, NEW s \in Seq(S), NEW n \in 0 .. Len(s), NEW i \in 1 .. n + 1
    PROVE  PosOf(SubSeq(s, 1, n), i) = PosOf(s, i)
  <1>1. PICK t : t = SubSeq(s, 1, n)
    OBVIOUS
  <1>2. \A k \in 1 .. n : t[k] = s[k]
    BY <1>1, PrefixIs
  <1>3. \A j \in 1 .. i - 1 : t[j] = s[j]
    BY <1>2
  <1>4. BreaksIn(t, i) = BreaksIn(s, i)
    BY <1>3 DEF BreaksIn
  <1>5. /\ PosOf(t, i) = [line |-> 1 + Cardinality(BreaksIn(t, i)), col |-> i - Max(BreaksIn(t, i) \cup {0})]
        /\ PosOf(s, i) = [line |-> 1 + Cardinality(BreaksIn(s, i)), col |-> i - Max(BreaksIn(s, i) \cup {0})]
    BY DEF PosOf, BreaksIn
  <1> QED BY <1>1, <1>4, <1>5

LEMMA PosTyped ==
    ASSUME NEW s, NEW i \in Nat \ {0}
    PROVE  \E a \in Nat, c \in Int : PosOf(s, i) = [line |-> a, col |-> c]
  <1>1. PICK B : B = BreaksIn(s, i)
    OBVIOUS
  <1>2. PosOf(s, i) = [line |-> 1 + Cardinality(B), col |-> i - Max(B \cup {0})]
    BY <1>1 DEF PosOf, BreaksIn
  <1>3. IsFiniteSet(B) /\ B \cup {0} \subseteq 0 .. i
    <2>1. B \subseteq 1 .. i
      BY <1>1 DEF BreaksIn
    <2>2. IsFiniteSet(1 .. i)
      BY FS_Interval
    <2>3. IsFiniteSet(B)
      BY <2>1, <2>2, FS_Subset
    <2> QED BY <2>1, <2>3
  <1>4. Cardinality(B) \in Nat
    BY <1>3, FS_CardinalityType
  <1>5. PICK C : C = B \cup {0} /\ C # {} /\ C \subseteq 0 .. i
    BY <1>3
  <1>6. Max(C) \in C
    <2>1. i \in Nat
      OBVIOUS
    <2> QED BY <1>5, <2>1, GreatestIn
  <1>7. PICK m \in 0 .. i : m = Max(C)
    BY <1>5, <1>6
  <1>8. PICK k \in Nat : k = Cardinality(B)
    BY <1>4
  <1>9. i - m \in Int /\ 1 + k \in Nat
    BY <1>7, <1>8
  <1>10. PosOf(s, i) = [line |-> 1 + k, col |-> i - m]
    BY <1>2, <1>5, <1>7, <1>8
  <1> QED BY <1>9, <1>10

\* What is seen of the input is a text, and the lexer is at its place.
LEMMA SeenFits ==
    ASSUME NEW t, NEW p, InputTyped, CharOk, PosOk, Seen(t, p)
    PROVE  Fits(t, p) /\ Len(t) \in Reached .. Len(src) /\ \A k \in 1 .. Len(t) : t[k] = src[k]
  <1>1. PICK n \in Reached .. Len(src) : (chr = EOF => n = Reached) /\ t = SubSeq(src, 1, n)
    BY DEF Seen
  <1>2. /\ src \in Seq(Range(src)) /\ Len(src) \in Nat /\ \A k \in 1 .. Len(src) : src[k] # EOF
        /\ Reached \in 0 .. Len(src) /\ p = Place
    BY TextIs DEF InputTyped, Reached, Seen
  <1>3. n \in 0 .. Len(src)
    BY <1>2
  <1>4. t \in Seq(Range(src)) /\ Len(t) = n /\ \A k \in 1 .. n : t[k] = src[k]
    BY <1>1, <1>2, <1>3, PrefixIs
  <1>5. IsText(t)
    <2>1. DOMAIN t = 1 .. n
      BY <1>4
    <2>2. Range(t) = {t[k] : k \in 1 .. n}
      BY <2>1 DEF Range
    <2>3. t \in Seq(Range(t))
      BY <1>3, <1>4, <2>2
    <2>4. EOF \notin Range(t)
      BY <1>2, <1>3, <1>4, <2>2
    <2> QED BY <2>3, <2>4 DEF IsText
  <1>6. p \in 1 .. n + 1 /\ IF p > n THEN chr = EOF ELSE chr = t[p]
    <2>1. CASE chr = EOF
      BY <1>1, <1>2, <1>3, <2>1 DEF Place
    <2>2. CASE chr # EOF
      <3>1. Reached \in 1 .. n /\ chr = src[Reached] /\ p = Reached
        BY <1>2, <1>3, <2>2 DEF CharOk, Place
      <3> QED BY <1>3, <1>4, <3>1
    <2> QED BY <2>1, <2>2
  <1>7. chr_pos = PosOf(t, p)
    BY <1>1, <1>2, <1>3, <1>6, PosPrefix DEF PosOk
  <1> QED BY <1>4, <1>5, <1>6, <1>7 DEF Fits

LEMMA PeekIs ==
    ASSUME InputTyped, NEW x \in peek_char
    PROVE  /\ x.sent \in 0 .. Len(src) /\ x.ahead \in 0 .. x.sent /\ x.sent - x.ahead = Reached
           /\ \/ ~x.bad /\ x.ahead > 0 /\ Reached + 1 \in 1 .. Len(src) /\ x.c = AsChr(src[Reached + 1])
              \/ ~x.bad /\ x.c = EOF /\ Reached = Len(src)
              \/ x.bad /\ x.c = EOF
           /\ ahead > 0 => x.c = AsChr(src[Reached + 1])
  <1>1. Len(src) \in Nat /\ sent \in 0 .. Len(src) /\ ahead \in 0 .. sent
    BY TextIs DEF InputTyped
  <1>2. CASE ahead > 0
    <2>1. x = Peeked(AsChr(src[sent - ahead + 1]), sent, ahead, FALSE)
      BY <1>2 DEF peek_char
    <2>2. x.c = AsChr(src[sent - ahead + 1]) /\ x.sent = sent /\ x.ahead = ahead
      BY <2>1 DEF Peeked
    <2>3. ~x.bad
      <3>1. x.bad = FALSE
        BY <2>1 DEF Peeked
      <3> QED BY <3>1
    <2>4. sent - ahead + 1 \in 1 .. Len(src)
      BY <1>1, <1>2
    <2> QED BY <1>1, <1>2, <2>2, <2>3, <2>4 DEF Reached
  <1>3. CASE ~(ahead > 0)
    <2>1. ahead = 0 /\ Reached = sent
      BY <1>1, <1>3 DEF Reached
    <2>2. \/ \E n \in 1 .. RDBUF_CAP : sent + n <= Len(src) /\ x = Peeked(AsChr(src[sent + 1]), sent + n, n, FALSE)
          \/ sent = Len(src) /\ x = Peeked(EOF, sent, 0, FALSE)
          \/ x = Peeked(EOF, sent, 0, TRUE)
      BY <1>3 DEF peek_char
    <2>3. ASSUME NEW n \in 1 .. RDBUF_CAP, sent + n <= Len(src), x = Peeked(AsChr(src[sent + 1]), sent + n, n, FALSE)
          PROVE  /\ x.sent \in 0 .. Len(src) /\ x.ahead \in 0 .. x.sent /\ x.sent - x.ahead = Reached
                 /\ ~x.bad /\ x.ahead > 0 /\ Reached + 1 \in 1 .. Len(src) /\ x.c = AsChr(src[Reached + 1])
      <3>1. x.c = AsChr(src[sent + 1]) /\ x.sent = sent + n /\ x.ahead = n
        BY <2>3 DEF Peeked
      <3>2. ~x.bad
        <4>1. x.bad = FALSE
          BY <2>3 DEF Peeked
        <4> QED BY <4>1
      <3>3. n \in Nat /\ n > 0
        BY LexerAssumption
      <3>4. sent + n \in 0 .. Len(src) /\ n \in 0 .. sent + n /\ (sent + n) - n = sent /\ sent + 1 \in 1 .. Len(src)
        BY <1>1, <2>3, <3>3
      <3> QED BY <2>1, <3>1, <3>2, <3>3, <3>4
    <2>4. CASE sent = Len(src) /\ x = Peeked(EOF, sent, 0, FALSE)
      <3>1. x.c = EOF /\ x.sent = sent /\ x.ahead = 0
        BY <2>4 DEF Peeked
      <3>2. ~x.bad
        <4>1. x.bad = FALSE
          BY <2>4 DEF Peeked
        <4> QED BY <4>1
      <3>3. /\ x.sent \in 0 .. Len(src) /\ x.ahead \in 0 .. x.sent /\ x.sent - x.ahead = Reached
            /\ Reached = Len(src)
        <4>1. sent = Len(src)
          BY <2>4
        <4> QED BY <1>1, <2>1, <3>1, <4>1
      <3> QED BY <1>3, <3>1, <3>2, <3>3
    <2>5. CASE x = Peeked(EOF, sent, 0, TRUE)
      <3>1. x.c = EOF /\ x.sent = sent /\ x.ahead = 0
        BY <2>5 DEF Peeked
      <3>2. x.bad
        <4>1. x.bad = TRUE
          BY <2>5 DEF Peeked
        <4> QED BY <4>1
      <3> QED BY <1>1, <1>3, <2>1, <3>1, <3>2
    <2> QED BY <1>3, <2>2, <2>3, <2>4, <2>5
  <1> QED BY <1>2, <1>3

\* skip_chr goes on by a byte, or there is none.
LEMMA SkipIs ==
    ASSUME InputTyped, skip_chr
    PROVE  /\ InputTyped' /\ src' = src /\ failed \subseteq failed'
           /\ \/ /\ chr' # EOF /\ Reached' = Reached + 1 /\ Reached' \in 1 .. Len(src)
                 /\ chr' = src[Reached'] /\ chr' = src[Reached + 1]
              \/ chr' = EOF /\ Reached' = Reached /\ (failed' = {} => AtEnd')
           /\ ahead > 0 => chr' = AsChr(src[Reached + 1])
  <1>1. PICK x \in peek_char :
          /\ chr' = x.c /\ sent' = x.sent /\ ahead' = IF x.c = EOF THEN x.ahead ELSE x.ahead - 1
          /\ failed' = IF x.bad THEN failed \cup {"skip_chr"} ELSE failed
    BY DEF skip_chr
  <1>2. src' = src
    BY DEF skip_chr
  <1>3. /\ x.sent \in 0 .. Len(src) /\ x.ahead \in 0 .. x.sent /\ x.sent - x.ahead = Reached
        /\ \/ ~x.bad /\ x.ahead > 0 /\ Reached + 1 \in 1 .. Len(src) /\ x.c = AsChr(src[Reached + 1])
           \/ ~x.bad /\ x.c = EOF /\ Reached = Len(src)
           \/ x.bad /\ x.c = EOF
        /\ ahead > 0 => x.c = AsChr(src[Reached + 1])
    BY PeekIs
  <1>4. /\ IsText(src) /\ Len(src) \in Nat /\ \A k \in 1 .. Len(src) : src[k] # EOF
        /\ Reached \in Int
    BY TextIs DEF InputTyped, Reached
  <1>5. failed \subseteq failed' /\ (failed' = {} => ~x.bad)
    BY <1>1
  <1>6. InputTyped'
    <2>1. ahead' \in 0 .. sent'
      <3>1. x.c # EOF => x.ahead > 0
        BY <1>3
      <3> QED BY <1>1, <1>3, <3>1
    <2> QED BY <1>1, <1>2, <1>3, <1>4, <2>1 DEF InputTyped
  <1>7. CASE x.c = EOF
    <2>1. Reached' = Reached
      BY <1>1, <1>3, <1>7 DEF Reached
    <2>2. failed' = {} => AtEnd'
      <3>1. SUFFICES ASSUME failed' = {} PROVE AtEnd'
        OBVIOUS
      <3>2. CASE Reached + 1 \in 1 .. Len(src) /\ x.c = AsChr(src[Reached + 1])
        <4>1. CharSigned /\ src[Reached + 1] = "0xFF"
          BY <1>4, <1>7, <3>2 DEF AsChr
        <4> QED BY <1>2, <2>1, <3>2, <4>1 DEF AtEnd
      <3>3. CASE Reached = Len(src)
        BY <1>2, <2>1, <3>3 DEF AtEnd
      <3> QED BY <1>3, <1>5, <3>1, <3>2, <3>3
    <2> QED BY <1>1, <1>2, <1>3, <1>5, <1>6, <1>7, <2>1, <2>2
  <1>8. CASE x.c # EOF
    <2>1. x.ahead > 0 /\ Reached + 1 \in 1 .. Len(src) /\ x.c = AsChr(src[Reached + 1])
      BY <1>3, <1>8
    <2>2. x.c = src[Reached + 1]
      BY <1>8, <2>1 DEF AsChr
    <2>3. Reached' = Reached + 1
      <3>1. ahead' = x.ahead - 1 /\ sent' = x.sent
        BY <1>1, <1>8
      <3> QED BY <1>3, <3>1 DEF Reached
    <2>4. Reached' \in 1 .. Len(src) /\ chr' = src[Reached'] /\ chr' # EOF
      BY <1>1, <1>8, <2>1, <2>2, <2>3
    <2> QED BY <1>1, <1>2, <1>3, <1>5, <1>6, <2>2, <2>3, <2>4
  <1> QED BY <1>7, <1>8

LEMMA SkipMoves ==
    ASSUME InputTyped, CharOk, PosOk, chr # EOF, skip_chr
    PROVE  /\ CharOk' /\ PosOk' /\ Place' = Place + 1 /\ chr_pos' # chr_pos
           /\ \A t, q : Seen(t, q)' => q = Place + 1 /\ Seen(t, Place)
  <1>1. /\ src' = src
        /\ \/ /\ chr' # EOF /\ Reached' = Reached + 1 /\ Reached' \in 1 .. Len(src)
              /\ chr' = src[Reached'] /\ chr' = src[Reached + 1]
           \/ chr' = EOF /\ Reached' = Reached /\ (failed' = {} => AtEnd')
    BY SkipIs
  <1>2. Len(src) \in Nat /\ Reached \in 1 .. Len(src) /\ chr = src[Reached] /\ Place = Reached
    BY TextIs DEF InputTyped, CharOk, Place
  <1>3. Place' = Place + 1
    BY <1>1, <1>2 DEF Place
  <1>4. CharOk'
    BY <1>1 DEF CharOk
  <1>5. PICK i \in Nat \ {0}, n \in Nat : i = Place /\ n = i + 1 /\ n = Place'
    BY <1>2, <1>3
  <1>6. chr_pos' = IF src[i] = "\n" THEN [line |-> PosOf(src, i).line + 1, col |-> 1]
                   ELSE [PosOf(src, i) EXCEPT !.col = @ + 1]
    BY <1>2, <1>5 DEF skip_chr, PosOk
  <1>7. chr_pos' = PosOf(src, n)
    BY <1>5, <1>6, PosStep
  <1>8. PosOk'
    BY <1>1, <1>5, <1>7 DEF PosOk
  <1>9. chr_pos' # chr_pos
    <2>1. PICK a \in Nat, c \in Int : PosOf(src, i) = [line |-> a, col |-> c]
      BY PosTyped
    <2>2. chr_pos = [line |-> a, col |-> c]
      BY <1>5, <2>1 DEF PosOk
    <2>3. chr_pos' = [line |-> a + 1, col |-> 1] \/ chr_pos' = [line |-> a, col |-> c + 1]
      BY <1>6, <2>1
    <2>4. chr_pos'.line = a + 1 \/ chr_pos'.col = c + 1
      BY <2>3
    <2>5. chr_pos.line = a /\ chr_pos.col = c
      BY <2>2
    <2> QED BY <2>4, <2>5
  <1>10. ASSUME NEW t, NEW q, Seen(t, q)' PROVE q = Place + 1 /\ Seen(t, Place)
    <2>1. PICK n1 \in Reached' .. Len(src) : t = SubSeq(src, 1, n1)
      BY <1>1, <1>10 DEF Seen
    <2>2. n1 \in Reached .. Len(src)
      BY <1>1, <1>2, <2>1
    <2>3. Seen(t, Place)
      BY <2>1, <2>2 DEF Seen
    <2> QED BY <1>3, <1>10, <2>3 DEF Seen
  <1> QED BY <1>3, <1>4, <1>8, <1>9, <1>10

\* What a step of the lexer does to the input.
Stays == UNCHANGED <<input, chr, chr_pos>>
LEMMA ErrorStays == \A why : err_at(why) => Stays /\ mode' = "lexed"
  BY DEF err_at, To, Stays
LEMMA NextIs == \A m : next_chr(m) => \/ Stays /\ mode' = "lexed"
                                      \/ skip_chr /\ mode' = m
  BY ErrorStays DEF next_chr, To
LEMMA StayIs == \A m : Stay(m) => Stays /\ mode' = m
  BY DEF Stay, To, Stays

Skips(c) == Stays \/ (skip_chr /\ c)

\* Modes in which the character at hand has been looked at before.
Looked == mode \in {"blank", "open", "sym", "dots", "last dot"}

LEMMA ShortSteps ==
    /\ Begin \/ End => Stays
    /\ NoSuffixU \/ NoSuffixL \/ EndOfWord \/ Hash \/ Single \/ EndComment => Stays
    /\ Blank \/ Open \/ Sym \/ Dot => Skips(Looked)
    /\ BadLiteral => Stays
  <1>1. Begin \/ End => Stays
    BY DEF Begin, End, Stays
  <1>2. NoSuffixU \/ NoSuffixL \/ EndOfWord \/ Hash \/ Single \/ EndComment => Stays
    BY StayIs DEF NoSuffixU, NoSuffixL, EndOfWord, Hash, Single, EndComment
  <1>3. Blank \/ Open \/ Sym \/ Dot => Skips(Looked)
    <2>1. Blank => Skips(Looked)
      BY NextIs, Zenon DEF Blank, Next_chr, Skips, Looked
    <2>2. Open => Skips(Looked)
      BY Zenon DEF Open, Skip, Skips, Looked
    <2>3. Sym => Skips(Looked)
      BY NextIs, Zenon DEF Sym, Next_chr, Skips, Looked
    <2>4. Dot => Skips(Looked)
      BY NextIs, Zenon DEF Dot, Next_chr, Skips, Looked
    <2> QED BY <2>1, <2>2, <2>3, <2>4
  <1>4. BadLiteral => Stays
    BY ErrorStays DEF BadLiteral
  <1> QED BY <1>1, <1>2, <1>3, <1>4

LEMMA LongSteps ==
    Digit \/ SuffixU \/ SuffixL \/ Letter \/ Close \/ Backslash \/ Plain \/ Escape \/ Slash \/ Pair \/ InComment
       => Skips(chr # EOF)
  <1>1. Digit => Skips(chr # EOF)
    <2>1. chr \in Digits => chr # EOF
      BY DEF Digits, EOF
    <2> QED BY <2>1, ErrorStays, NextIs DEF Digit, Skips
  <1>2. SuffixU \/ SuffixL => Skips(chr # EOF)
    <2>1. chr \in {"u", "U", "l", "L"} => chr # EOF
      BY DEF EOF
    <2> QED BY <2>1, NextIs DEF SuffixU, SuffixL, Suffix, Skips
  <1>3. Letter => Skips(chr # EOF)
    <2>1. chr \in Letters \cup Digits => chr # EOF
      BY DEF Letters, Digits, EOF
    <2> QED BY <2>1, NextIs DEF Letter, Next_chr, Skips
  <1>4. Close => Skips(chr # EOF)
    <2>1. EOF # "\"" /\ EOF # "'"
      BY Zenon DEF EOF
    <2>2. Close => chr # EOF
      BY <2>1, Zenon DEF Close, delim
    <2> QED BY <2>2, ErrorStays, Zenon DEF Close, Skips, Skip
  <1>5. Backslash \/ Plain => Skips(chr # EOF)
    <2>1. LiteralError = "none" => chr # EOF
      BY DEF LiteralError
    <2>2. Backslash => Skips(chr # EOF)
      BY <2>1, NextIs, Zenon DEF Backslash, Next_chr, Skips
    <2>3. Plain => Skips(chr # EOF)
      BY <2>1, Zenon DEF Plain, Decode, Skip, Skips
    <2> QED BY <2>2, <2>3
  <1>6. Escape => Skips(chr # EOF)
    <2>1. chr \in Range(escapes) => chr # EOF
      <3>1. DOMAIN escapes = 1 .. 12
        BY DEF escapes
      <3>2. /\ escapes[1] # EOF /\ escapes[2] # EOF /\ escapes[3] # EOF /\ escapes[4] # EOF /\ escapes[5] # EOF
            /\ escapes[6] # EOF /\ escapes[7] # EOF /\ escapes[8] # EOF /\ escapes[9] # EOF
            /\ escapes[11] # EOF /\ escapes[12] # EOF
        BY DEF escapes, EOF
      <3>3. escapes[10] # EOF
        <4>1. escapes[10] = "\""
          BY DEF escapes
        <4>2. EOF # "\""
          BY Zenon DEF EOF
        <4> QED BY <4>1, <4>2, Zenon
      <3>4. ASSUME NEW i \in 1 .. 12 PROVE escapes[i] # EOF
        <4>1. \/ i = 1 \/ i = 2 \/ i = 3 \/ i = 4 \/ i = 5 \/ i = 6
              \/ i = 7 \/ i = 8 \/ i = 9 \/ i = 10 \/ i = 11 \/ i = 12
          OBVIOUS
        <4> QED BY <3>2, <3>3, <4>1
      <3> QED BY <3>1, <3>4 DEF Range
    <2>2. Escape => (chr \in Range(escapes) /\ skip_chr) \/ Stays
      <3>1. Escape => (chr \in Range(escapes) /\ Decode(Unescaped(chr))) \/ err_at("unknown escape sequence")
        BY Zenon DEF Escape
      <3>2. Decode(Unescaped(chr)) => skip_chr
        BY DEF Decode, Skip
      <3>3. err_at("unknown escape sequence") => Stays
        BY Zenon DEF err_at, Stays
      <3> QED BY <3>1, <3>2, <3>3, Zenon
    <2> QED BY <2>1, <2>2 DEF Skips
  <1>7. Slash => Skips(chr # EOF)
    BY NextIs DEF Slash, Next_chr, Skips, EOF
  <1>8. Pair => Skips(chr # EOF)
    BY NextIs, PairsApart DEF Pair, Next_chr, Skips
  <1>9. InComment => Skips(chr # EOF)
    BY DEF InComment, Skip, Skips
  <1> QED BY <1>1, <1>2, <1>3, <1>4, <1>5, <1>6, <1>7, <1>8, <1>9

\* Behind two dots that make no ellipsis there is no third.
Cut(t, p) == mode' = "end" /\ p + 1 <= Len(t) => t[p + 1] # "."

LEMMA HeldStep ==
    ASSUME NEW t, NEW p, NEW q, Moves(t, p, q), LastSeen, Lex, mode # "boot", Peek => Cut(t, p)
    PROVE  Held(t, q)'
  <1>1. CASE End
    <2>1. UNCHANGED <<chr, chr_pos>>
      BY <1>1 DEF End
    <2>2. q = p
      BY <2>1 DEF Moves
    <2>3. Held(t, p)'
      BY <1>1, EndStep DEF Moves
    <2> QED BY <2>2, <2>3
  <1>2. CASE Peek
    <2>1. mode' = "end" /\ p + 1 <= Len(t) => t[p + 1] # "."
      BY <1>2 DEF Cut
    <2> QED BY <1>2, <2>1, PeekStep
  <1>3. CASE Begin \/ Blank \/ Digit \/ SuffixU \/ NoSuffixU \/ SuffixL \/ NoSuffixL
    BY <1>3, BeginStep, BlankStep, NumberStep, SuffixUStep, NoSuffixUStep, SuffixLStep, NoSuffixLStep
  <1>4. CASE Letter \/ EndOfWord \/ Open \/ Close \/ BadLiteral \/ Backslash \/ Plain \/ Escape
    BY <1>4, LetterStep, EndOfWordStep, OpenStep, CloseStep, BadLiteralStep, BackslashStep, PlainStep, EscapeStep
  <1>5. CASE Sym \/ Hash \/ Slash \/ Pair \/ Dot \/ Single \/ InComment \/ EndComment
    BY <1>5, SymStep, HashStep, SlashStep, PairStep, DotStep, SingleStep, InCommentStep, EndCommentStep
  <1>6. ~Boot
    BY DEF Boot
  <1> QED BY <1>1, <1>2, <1>3, <1>4, <1>5, <1>6 DEF Lex

Ordinary == mode \notin {"boot", "dots", "last dot"}

LEMMA ModeGoes == Lex => \/ Ordinary'
                         \/ Peek /\ mode' = "dots"
                         \/ mode = "dots" /\ Next_chr("last dot")
  <1>1. Boot => Ordinary'
    BY Zenon DEF Boot, Skip, To, Ordinary
  <1>2. Begin => Ordinary'
    <2> SUFFICES ASSUME Begin PROVE Ordinary'
      OBVIOUS
    <2>1. tok' \in {"eof", "none", "num", "wrd", "str", "chr", "sym"}
      BY Zenon DEF Begin
    <2>2. mode' = CASE tok' = "eof" -> "end"
                    [] tok' = "none" -> "blank"
                    [] tok' \in {"str", "chr"} -> "open"
                    [] OTHER -> tok'
      BY Zenon DEF Begin, To
    <2>3. mode' \in {"end", "blank", "open", "num", "wrd", "sym"}
      BY <2>1, <2>2
    <2> QED BY <2>3, Zenon DEF Ordinary
  <1>3. Blank \/ End => Ordinary'
    <2>1. Blank => mode' \in {"begin", "lexed"}
      BY NextIs DEF Blank, Next_chr
    <2>2. End => mode' \in {"begin", "lexed"}
      BY DEF End, To
    <2> QED BY <2>1, <2>2, Zenon DEF Ordinary
  <1>4. Digit \/ SuffixU \/ NoSuffixU \/ SuffixL \/ NoSuffixL => Ordinary'
    <2>1. Digit => mode' \in {"num", "lexed"}
      BY NextIs, ErrorStays DEF Digit
    <2>2. SuffixU \/ NoSuffixU \/ SuffixL \/ NoSuffixL => mode' \in {"long", "end", "lexed"}
      BY NextIs, StayIs DEF SuffixU, SuffixL, Suffix, NoSuffixU, NoSuffixL
    <2> QED BY <2>1, <2>2, Zenon DEF Ordinary
  <1>5. Letter \/ EndOfWord => Ordinary'
    <2>1. Letter \/ EndOfWord => mode' \in {"wrd", "end", "lexed"}
      BY NextIs, StayIs DEF Letter, EndOfWord, Next_chr
    <2> QED BY <2>1, Zenon DEF Ordinary
  <1>6. Open \/ Close \/ BadLiteral \/ Backslash \/ Plain \/ Escape => Ordinary'
    <2>1. Open => mode' = "literal"
      BY DEF Open, Skip, To
    <2>2. Close => mode' \in {"end", "lexed"}
      BY ErrorStays, Zenon DEF Close, Skip, To
    <2>3. BadLiteral => mode' = "lexed"
      BY ErrorStays DEF BadLiteral
    <2>4. Backslash => mode' \in {"escape", "lexed"}
      BY NextIs, Zenon DEF Backslash, Next_chr
    <2>5. Plain => mode' = "literal"
      BY Zenon DEF Plain, Decode, Skip, To
    <2>6. Escape => mode' \in {"literal", "lexed"}
      <3>1. Escape => Decode(Unescaped(chr)) \/ err_at("unknown escape sequence")
        BY Zenon DEF Escape
      <3>2. Decode(Unescaped(chr)) => mode' = "literal"
        BY DEF Decode, Skip, To
      <3>3. err_at("unknown escape sequence") => mode' = "lexed"
        BY Zenon DEF err_at, To
      <3> QED BY <3>1, <3>2, <3>3, Zenon
    <2> QED BY <2>1, <2>2, <2>3, <2>4, <2>5, <2>6, Zenon DEF Ordinary
  <1>7. Sym \/ Hash \/ Slash \/ Pair \/ Single \/ InComment \/ EndComment => Ordinary'
    <2>1. Sym \/ Slash \/ Pair => mode' \in {"second", "comment", "end", "lexed"}
      BY NextIs DEF Sym, Slash, Pair, Next_chr
    <2>2. Hash \/ Single \/ EndComment => mode' \in {"comment", "end", "begin"}
      BY StayIs DEF Hash, Single, EndComment
    <2>3. InComment => mode' = "comment"
      BY DEF InComment, Skip, To
    <2> QED BY <2>1, <2>2, <2>3, Zenon DEF Ordinary
  <1>8. Peek => (Peek /\ mode' = "dots") \/ Ordinary'
    BY Zenon DEF Peek, To, Ordinary
  <1>9. Dot => (mode = "dots" /\ Next_chr("last dot")) \/ Ordinary'
    <2>1. Next_chr("end") => mode' \in {"end", "lexed"}
      BY NextIs DEF Next_chr
    <2> QED BY <2>1, Zenon DEF Dot, Ordinary
  <1> QED BY <1>1, <1>2, <1>3, <1>4, <1>5, <1>6, <1>7, <1>8, <1>9, Zenon DEF Lex

\* What peek_char tells of the byte behind two dots, unless read() failed.
ThirdDot == /\ mode' = "dots" => ahead' > 0 /\ src[Reached + 1] = "."
            /\ mode' = "end" /\ Reached + 1 <= Len(src) => src[Reached + 1] # "."

LEMMA PeekMoves ==
    ASSUME InputTyped, Peek
    PROVE  /\ InputTyped' /\ src' = src /\ failed \subseteq failed'
           /\ Reached' = Reached /\ chr' = chr /\ chr_pos' = chr_pos
           /\ "lex" \notin failed' => ThirdDot
           /\ mode = "second" /\ TwoDots
  <1>1. PICK x \in peek_char :
          /\ sent' = x.sent /\ ahead' = x.ahead
          /\ failed' = IF x.bad THEN failed \cup {"lex"} ELSE failed
          /\ mode' = IF x.c = "." THEN "dots" ELSE "end"
    BY DEF Peek, To
  <1>2. src' = src /\ chr' = chr /\ chr_pos' = chr_pos /\ mode = "second" /\ TwoDots
    BY DEF Peek
  <1>3. /\ x.sent \in 0 .. Len(src) /\ x.ahead \in 0 .. x.sent /\ x.sent - x.ahead = Reached
        /\ \/ ~x.bad /\ x.ahead > 0 /\ Reached + 1 \in 1 .. Len(src) /\ x.c = AsChr(src[Reached + 1])
           \/ ~x.bad /\ x.c = EOF /\ Reached = Len(src)
           \/ x.bad /\ x.c = EOF
    BY PeekIs
  <1>4. InputTyped'
    BY <1>1, <1>2, <1>3 DEF InputTyped
  <1>5. Reached' = Reached
    BY <1>1, <1>3 DEF Reached
  <1>6. failed \subseteq failed' /\ ("lex" \notin failed' => ~x.bad)
    BY <1>1
  <1>7. ASSUME "lex" \notin failed' PROVE ThirdDot
    <2>1. Len(src) \in Nat
      BY TextIs DEF InputTyped
    <2>2. CASE x.ahead > 0 /\ Reached + 1 \in 1 .. Len(src) /\ x.c = AsChr(src[Reached + 1])
      <3>1. x.c = "." <=> src[Reached + 1] = "."
        BY <2>2 DEF AsChr, EOF
      <3> QED BY <1>1, <2>2, <3>1 DEF ThirdDot
    <2>3. CASE x.c = EOF /\ Reached = Len(src)
      <3>1. x.c # "."
        BY <2>3 DEF EOF
      <3>2. mode' = "end"
        BY <1>1, <3>1
      <3>3. ~(Reached + 1 <= Len(src))
        BY <2>1, <2>3
      <3> QED BY <3>2, <3>3 DEF ThirdDot
    <2> QED BY <1>3, <1>6, <1>7, <2>2, <2>3
  <1> QED BY <1>2, <1>4, <1>5, <1>6, <1>7

LEMMA StepIs ==
    ASSUME InputTyped, Lex
    PROVE  /\ InputTyped' /\ src' = src /\ failed \subseteq failed'
           /\ Stays \/ Boot \/ Peek \/ (skip_chr /\ (Looked \/ chr # EOF))
  <1>1. Stays \/ Boot \/ Peek \/ (skip_chr /\ (Looked \/ chr # EOF))
    <2>1. CASE Skips(Looked)
      BY <2>1 DEF Skips
    <2>2. CASE Skips(chr # EOF)
      BY <2>2 DEF Skips
    <2> QED BY <2>1, <2>2, ShortSteps, LongSteps DEF Lex
  <1>2. CASE Stays
    BY <1>2 DEF Stays, input, InputTyped
  <1>3. CASE Peek
    BY <1>3, PeekMoves
  <1>4. CASE skip_chr
    BY <1>1, <1>4, SkipIs
  <1>5. Boot => skip_chr
    BY DEF Boot, Skip
  <1> QED BY <1>1, <1>2, <1>3, <1>4, <1>5

\* Where the character at hand was looked at, there is one.
LEMMA LookedAt ==
    ASSUME NEW t, NEW p, Fits(t, p), Held(t, p), LastSeen, Looked
    PROVE  chr # EOF
  <1>1. Len(t) \in Nat /\ (\A k \in 1 .. Len(t) : t[k] # EOF) /\ (p \in 1 .. Len(t) => chr = t[p])
    BY TextIs DEF Fits
  <1>2. mode = "blank" => chr # EOF
    BY DEF Held, AtBlank, Blanks, EOF
  <1>3. mode = "open" => p \in 1 .. Len(t)
    BY DEF Held, AtQuote, Opened
  <1>4. mode = "sym" => p \in 1 .. Len(t)
    BY DEF Held, AtSym, Opened
  <1>5. mode = "dots" => chr = "."
    BY DEF Held
  <1>6. "." # EOF
    BY DEF EOF
  <1>7. mode = "open" \/ mode = "sym" => chr # EOF
    BY <1>1, <1>3, <1>4
  <1> QED BY <1>2, <1>5, <1>6, <1>7, Zenon DEF Looked, LastSeen

LEMMA LexModes == Lex => mode \notin {"given", "parsed"}
  <1>1. Boot \/ Begin \/ Blank \/ End => mode \notin {"given", "parsed"}
    BY Zenon DEF Boot, Begin, Blank, End
  <1>2. Digit \/ SuffixU \/ NoSuffixU \/ SuffixL \/ NoSuffixL \/ Letter \/ EndOfWord => mode \notin {"given", "parsed"}
    BY Zenon DEF Digit, SuffixU, NoSuffixU, SuffixL, NoSuffixL, Suffix, Letter, EndOfWord
  <1>3. Open \/ Close \/ BadLiteral \/ Backslash \/ Plain \/ Escape => mode \notin {"given", "parsed"}
    BY Zenon DEF Open, Close, BadLiteral, Backslash, Plain, Escape
  <1>4. Sym \/ Hash \/ Slash \/ Pair \/ Peek \/ Dot => mode \notin {"given", "parsed"}
    BY Zenon DEF Sym, Hash, Slash, Pair, Peek, Dot
  <1>5. Single \/ InComment \/ EndComment => mode \notin {"given", "parsed"}
    BY Zenon DEF Single, InComment, EndComment
  <1> QED BY <1>1, <1>2, <1>3, <1>4, <1>5, Zenon DEF Lex

LEMMA DotsStep ==
    ASSUME InputTyped, DotsOk, Lex, "lex" \notin failed'
    PROVE  DotsOk' /\ LastSeen'
  <1>1. Ordinary' => DotsOk' /\ LastSeen'
    BY Zenon DEF Ordinary, DotsOk, LastSeen
  <1>2. CASE Peek /\ mode' = "dots"
    <2>1. LastSeen'
      BY <1>2, Zenon DEF LastSeen
    <2>2. /\ src' = src /\ Reached' = Reached /\ chr' = chr /\ TwoDots /\ ThirdDot
      BY <1>2, PeekMoves
    <2>3. chr' = "." /\ ahead' > 0 /\ src'[Reached' + 1] = "."
      BY <1>2, <2>2 DEF TwoDots, ThirdDot
    <2> QED BY <2>1, <2>3 DEF DotsOk
  <1>3. CASE mode = "dots" /\ Next_chr("last dot")
    <2>1. (Stays /\ mode' = "lexed") \/ (skip_chr /\ mode' = "last dot")
      BY <1>3, NextIs, Zenon DEF Next_chr
    <2>2. DotsOk'
      BY <2>1, Zenon DEF DotsOk
    <2>3. skip_chr => chr' = "."
      <3>1. ahead > 0 /\ src[Reached + 1] = "."
        <4>1. mode = "dots"
          BY <1>3, Zenon
        <4> QED BY <4>1 DEF DotsOk
      <3>2. skip_chr => chr' = AsChr(src[Reached + 1])
        BY <3>1, SkipIs
      <3> QED BY <3>1, <3>2 DEF AsChr
    <2>4. LastSeen'
      BY <2>1, <2>3, Zenon DEF LastSeen
    <2> QED BY <2>2, <2>4
  <1> QED BY <1>1, <1>2, <1>3, ModeGoes

\* A character is left where one is skipped.
LEMMA MoreIs ==
    ASSUME InputTyped, CharOk, PosOk, LastSeen, \A t, p : Seen(t, p) => Held(t, p), Looked
    PROVE  chr # EOF
  <1>1. SUFFICES ASSUME chr = EOF PROVE FALSE
    OBVIOUS
  <1>2. PICK t : t = SubSeq(src, 1, Reached)
    OBVIOUS
  <1>3. Seen(t, Place)
    <2>1. Reached \in Reached .. Len(src)
      BY TextIs DEF InputTyped, Reached
    <2> QED BY <1>2, <2>1 DEF Seen
  <1>4. Fits(t, Place) /\ Held(t, Place)
    BY <1>3, SeenFits
  <1> QED BY <1>1, <1>4, LookedAt

LEMMA SkipChanges ==
    ASSUME InputTyped, CharOk, PosOk, skip_chr
    PROVE  chr_pos' # chr_pos
  <1>1. PICK i \in Nat \ {0} : i = Place
    <2>1. Len(src) \in Nat /\ Reached \in Nat
      BY TextIs DEF InputTyped, Reached
    <2>2. Place \in Nat \ {0}
      BY <2>1 DEF CharOk, Place
    <2> QED BY <2>2
  <1>2. PICK a \in Nat, c \in Int : PosOf(src, i) = [line |-> a, col |-> c]
    BY PosTyped
  <1>3. chr_pos = [line |-> a, col |-> c]
    BY <1>1, <1>2 DEF PosOk
  <1>4. chr_pos' = [line |-> a + 1, col |-> 1] \/ chr_pos' = [line |-> a, col |-> c + 1]
    BY <1>3 DEF skip_chr
  <1>5. chr_pos'.line = a + 1 \/ chr_pos'.col = c + 1
    BY <1>4
  <1>6. chr_pos.line = a /\ chr_pos.col = c
    BY <1>3
  <1> QED BY <1>5, <1>6

FitsAll == InputTyped /\ CharOk /\ PosOk => \A t, p : Seen(t, p) => Fits(t, p)

LEMMA AllFit == FitsAll
  BY SeenFits DEF FitsAll
LEMMA NextFit == FitsAll'
  BY AllFit, PTL

LEMMA SeenFitsNext ==
    ASSUME NEW t, NEW p, InputTyped', CharOk', PosOk', Seen(t, p)'
    PROVE  Fits(t, p)'
  BY NextFit DEF FitsAll

LEMMA GoodStep ==
    ASSUME InputTyped, CharOk, PosOk, DotsOk, LastSeen, \A t, p : Seen(t, p) => Held(t, p),
           Lex, mode # "boot", "lex" \notin failed'
    PROVE  CharOk' /\ PosOk' /\ \A t, q : Seen(t, q)' => Held(t, q)'
  <1>1. /\ InputTyped' /\ src' = src /\ failed \subseteq failed'
        /\ Stays \/ Boot \/ Peek \/ (skip_chr /\ (Looked \/ chr # EOF))
    BY StepIs
  <1>2. ~Boot
    BY DEF Boot
  <1>3. CASE Peek
    <2>1. /\ Reached' = Reached /\ chr' = chr /\ chr_pos' = chr_pos /\ ThirdDot /\ mode = "second" /\ TwoDots
      BY <1>3, PeekMoves
    <2>2. CharOk' /\ PosOk'
      <3>1. failed' = {} => failed = {}
        BY <1>1
      <3> QED BY <1>1, <2>1, <3>1 DEF CharOk, PosOk, AtEnd, Place
    <2>3. ASSUME NEW t, NEW q, Seen(t, q)' PROVE Held(t, q)'
      <3>1. Seen(t, q) /\ q = Place
        BY <1>1, <2>1, <2>3 DEF Seen, Place
      <3>2. Fits(t, q) /\ Held(t, q) /\ Len(t) \in Reached .. Len(src) /\ \A k \in 1 .. Len(t) : t[k] = src[k]
        BY <3>1, SeenFits
      <3>3. Fits(t, q)'
        BY <2>1, <3>2 DEF Fits
      <3>4. Moves(t, q, q)
        <4>1. ~skip_chr
          BY <2>1, SkipChanges
        <4> QED BY <3>2, <3>3, <4>1 DEF Moves
      <3>5. Cut(t, q)
        <4>1. chr # EOF /\ q = Reached
          BY <2>1, <3>1 DEF TwoDots, EOF, Place
        <4>2. SUFFICES ASSUME mode' = "end", q + 1 <= Len(t) PROVE t[q + 1] # "."
          BY DEF Cut
        <4>3. q + 1 \in 1 .. Len(t) /\ Len(t) <= Len(src)
          <5>1. Len(src) \in Nat /\ Reached \in 0 .. Len(src)
            BY TextIs DEF InputTyped, Reached
          <5> QED BY <3>2, <4>1, <4>2, <5>1
        <4>4. t[q + 1] = src[Reached + 1] /\ Reached + 1 <= Len(src)
          <5>1. Len(src) \in Nat /\ Reached \in 0 .. Len(src)
            BY TextIs DEF InputTyped, Reached
          <5> QED BY <3>2, <4>1, <4>3, <5>1
        <4> QED BY <2>1, <4>2, <4>4 DEF ThirdDot
      <3> QED BY <3>4, <3>5, HeldStep
    <2> QED BY <2>2, <2>3
  <1>4. CASE Stays /\ ~Peek
    <2>1. UNCHANGED <<src, sent, ahead, failed, chr, chr_pos>>
      BY <1>4 DEF Stays, input
    <2>2. CharOk' /\ PosOk'
      BY <2>1 DEF CharOk, PosOk, AtEnd, Reached, Place
    <2>3. ASSUME NEW t, NEW q, Seen(t, q)' PROVE Held(t, q)'
      <3>1. Seen(t, q)
        BY <2>1, <2>3 DEF Seen, Reached, Place
      <3>2. Fits(t, q) /\ Held(t, q)
        BY <3>1, SeenFits
      <3>3. Fits(t, q)'
        BY <2>1, <3>2 DEF Fits
      <3>4. Moves(t, q, q)
        <4>1. ~skip_chr
          BY <2>1, SkipChanges
        <4> QED BY <3>2, <3>3, <4>1 DEF Moves
      <3> QED BY <1>4, <3>4, HeldStep
    <2> QED BY <2>2, <2>3
  <1>5. CASE skip_chr /\ (Looked \/ chr # EOF) /\ ~Peek
    <2>1. chr # EOF
      BY <1>5, MoreIs
    <2>2. /\ CharOk' /\ PosOk' /\ Place' = Place + 1 /\ chr_pos' # chr_pos
          /\ \A t, q : Seen(t, q)' => q = Place + 1 /\ Seen(t, Place)
      BY <1>5, <2>1, SkipMoves
    <2>3. ASSUME NEW t, NEW q, Seen(t, q)' PROVE Held(t, q)'
      <3>1. PICK p : p = Place
        OBVIOUS
      <3>2. q = p + 1 /\ Seen(t, p)
        BY <2>2, <2>3, <3>1
      <3>3. Fits(t, p) /\ Held(t, p)
        BY <3>2, SeenFits
      <3>4. Fits(t, q)'
        BY <1>1, <2>2, <2>3, SeenFitsNext
      <3>5. Moves(t, p, q)
        BY <2>2, <3>2, <3>3, <3>4 DEF Moves
      <3> QED BY <1>5, <3>5, HeldStep
    <2> QED BY <2>2, <2>3
  <1> QED BY <1>1, <1>2, <1>3, <1>4, <1>5

LEMMA BootGoes ==
    ASSUME LexInv, Boot
    PROVE  LexInv'
  <1>1. /\ InputTyped /\ sent = 0 /\ ahead = 0 /\ chr = "NUL" /\ toks = <<>>
        /\ chr_pos = [line |-> 1, col |-> 0] /\ skip_chr /\ mode' = "begin"
    BY DEF LexInv, BootOk, Boot, Skip, To
  <1>2. /\ InputTyped' /\ src' = src
        /\ \/ /\ chr' # EOF /\ Reached' = Reached + 1 /\ Reached' \in 1 .. Len(src)
              /\ chr' = src[Reached']
           \/ chr' = EOF /\ Reached' = Reached /\ (failed' = {} => AtEnd')
    BY <1>1, SkipIs
  <1>3. Reached = 0
    BY <1>1 DEF Reached
  <1>4. Place' = 1
    BY <1>2, <1>3 DEF Place
  <1>5. CharOk'
    BY <1>2 DEF CharOk
  <1>6. PosOk'
    <2>1. "NUL" # "\n"
      OBVIOUS
    <2>2. chr_pos' = [chr_pos EXCEPT !.col = @ + 1]
      BY <1>1, <2>1 DEF skip_chr
    <2>3. chr_pos' = [line |-> 1, col |-> 1]
      BY <1>1, <2>2
    <2> QED BY <1>4, <2>3, PosIs DEF PosOk
  <1>7. DotsOk' /\ LastSeen' /\ BootOk'
    BY <1>1, Zenon DEF DotsOk, LastSeen, BootOk
  <1>8. ASSUME NEW t, NEW q, Seen(t, q)' PROVE Held(t, q)'
    <2>1. q = 1
      BY <1>4, <1>8 DEF Seen
    <2>2. Fits(t, q)'
      BY <1>2, <1>5, <1>6, <1>8, SeenFitsNext
    <2>3. IsText(t)
      BY <2>2 DEF Fits
    <2> QED BY <1>1, <2>1, <2>3, BootStep
  <1> QED BY <1>2, <1>5, <1>6, <1>7, <1>8 DEF LexInv

LEMMA OnlyBoot == Lex /\ mode = "boot" => Boot
  <1>1. Begin \/ Blank \/ End => mode # "boot"
    BY Zenon DEF Begin, Blank, End
  <1>2. Digit \/ SuffixU \/ NoSuffixU \/ SuffixL \/ NoSuffixL \/ Letter \/ EndOfWord => mode # "boot"
    BY Zenon DEF Digit, SuffixU, NoSuffixU, SuffixL, NoSuffixL, Suffix, Letter, EndOfWord
  <1>3. Open \/ Close \/ BadLiteral \/ Backslash \/ Plain \/ Escape => mode # "boot"
    BY Zenon DEF Open, Close, BadLiteral, Backslash, Plain, Escape
  <1>4. Sym \/ Hash \/ Slash \/ Pair \/ Peek \/ Dot => mode # "boot"
    BY Zenon DEF Sym, Hash, Slash, Pair, Peek, Dot
  <1>5. Single \/ InComment \/ EndComment => mode # "boot"
    BY Zenon DEF Single, InComment, EndComment
  <1> QED BY <1>1, <1>2, <1>3, <1>4, <1>5, Zenon DEF Lex

LEMMA LexGoes ==
    ASSUME LexInv, Lex, mode # "boot"
    PROVE  LexInv'
  <1>1. InputTyped' /\ failed \subseteq failed'
    BY StepIs DEF LexInv
  <1>2. BootOk'
    <2>1. mode' # "boot"
      <3>1. Ordinary' => mode' # "boot"
        BY Zenon DEF Ordinary
      <3>2. mode' = "dots" => mode' # "boot"
        BY Zenon
      <3>3. Next_chr("last dot") => mode' # "boot"
        <4>1. Next_chr("last dot") => mode' = "lexed" \/ mode' = "last dot"
          BY NextIs, Zenon DEF Next_chr
        <4> QED BY <4>1, Zenon
      <3> QED BY <3>1, <3>2, <3>3, ModeGoes, Zenon
    <2> QED BY <2>1 DEF BootOk
  <1>3. ASSUME Good' PROVE CharOk' /\ PosOk' /\ DotsOk' /\ LastSeen' /\ \A t, q : Seen(t, q)' => Held(t, q)'
    <2>1. "lex" \notin failed'
      BY <1>3 DEF Good
    <2>2. Good
      BY <1>1, <2>1, LexModes DEF Good
    <2>3. InputTyped /\ CharOk /\ PosOk /\ DotsOk /\ LastSeen /\ \A t, p : Seen(t, p) => Held(t, p)
      BY <2>2 DEF LexInv
    <2>4. DotsOk' /\ LastSeen'
      BY <2>1, <2>3, DotsStep
    <2>5. CharOk' /\ PosOk' /\ \A t, q : Seen(t, q)' => Held(t, q)'
      BY <2>1, <2>3, GoodStep
    <2> QED BY <2>4, <2>5
  <1> QED BY <1>1, <1>2, <1>3 DEF LexInv

LEMMA NoneGoes ==
    ASSUME LexInv, UNCHANGED lexer
    PROVE  LexInv'
  <1>1. UNCHANGED <<src, sent, ahead, failed, chr, chr_pos, mode, tok, tok_str, tok_pos, tok_val, toks>>
    BY DEF lexer, input, lexed
  <1>2. InputTyped' /\ BootOk' /\ (Good' => Good)
    BY <1>1 DEF LexInv, InputTyped, BootOk, Good
  <1>3. (CharOk => CharOk') /\ (PosOk => PosOk') /\ (DotsOk => DotsOk') /\ (LastSeen => LastSeen')
    <2>1. (CharOk => CharOk') /\ (PosOk => PosOk') /\ (DotsOk => DotsOk')
      BY <1>1 DEF CharOk, PosOk, DotsOk, AtEnd, Reached, Place
    <2>2. LastSeen => LastSeen'
      BY <1>1, Zenon DEF LastSeen
    <2> QED BY <2>1, <2>2
  <1>4. ASSUME NEW t, NEW q PROVE /\ Seen(t, q)' => Seen(t, q)
                                  /\ Held(t, q) => Held(t, q)'
    <2>1. Seen(t, q)' => Seen(t, q)
      BY <1>1 DEF Seen, Reached, Place
    <2>2. \A b : (Started(t, b)' <=> Started(t, b)) /\ (\A kind : Opened(t, b, kind)' <=> Opened(t, b, kind))
      BY <1>1 DEF Started, Opened
    <2>3. AtBlank(t, q)' <=> AtBlank(t, q)
      BY <1>1, <2>2 DEF AtBlank
    <2>4. \A b : Spelt(t, b, q)' <=> Spelt(t, b, q)
      BY <1>1 DEF Spelt
    <2>5. \A b : InNumber(t, b, q) => InNumber(t, b, q)'
      BY <1>1, <2>2, <2>4 DEF InNumber
    <2>6. \A b : InSuffix(t, b, q) => InSuffix(t, b, q)'
      BY <1>1, <2>2, <2>4 DEF InSuffix
    <2>7. \A b : InWord(t, b, q) => InWord(t, b, q)'
      BY <1>1, <2>2, <2>4 DEF InWord
    <2>8. AtQuote(t, q) => AtQuote(t, q)'
      BY <1>1, <2>2 DEF AtQuote
    <2>9. \A b, half : InLiteral(t, b, q, half) => InLiteral(t, b, q, half)'
      BY <1>1, <2>2 DEF InLiteral
    <2>10. AtSym(t, q) => AtSym(t, q)'
      BY <1>1, <2>2 DEF AtSym
    <2>11. \A b : AtSecond(t, b, q) => AtSecond(t, b, q)'
      BY <1>1, <2>2 DEF AtSecond
    <2>12. \A b : AtLastDot(t, b, q) => AtLastDot(t, b, q)'
      BY <1>1, <2>2 DEF AtLastDot
    <2>13. \A b : InRemark(t, b, q) => InRemark(t, b, q)'
      BY <1>1, <2>2 DEF InRemark
    <2>14. AtEof(t, q) => AtEof(t, q)'
      BY <1>1, <2>2 DEF AtEof
    <2>15. Complete(t, q) => Complete(t, q)'
      BY <1>1 DEF Complete, Made
    <2>16. Ended(t) => Ended(t)'
      BY <1>1 DEF Ended
    <2>17. mode' = mode /\ chr' = chr
      BY <1>1
    <2>18. ASSUME Held(t, q) PROVE Held(t, q)'
      <3>1. (mode = "begin" => Started(t, q))'
        BY <2>17, <2>18, <2>2, Zenon DEF Held
      <3>2. (mode = "blank" => AtBlank(t, q))'
        BY <2>17, <2>18, <2>3, Zenon DEF Held
      <3>3. (mode = "num" => \E b : InNumber(t, b, q))'
        BY <2>17, <2>18, <2>5, Zenon DEF Held
      <3>4. (mode = "long" => \E b : InSuffix(t, b, q))'
        BY <2>17, <2>18, <2>6, Zenon DEF Held
      <3>5. (mode = "wrd" => \E b : InWord(t, b, q))'
        BY <2>17, <2>18, <2>7, Zenon DEF Held
      <3>6. (mode = "open" => AtQuote(t, q))'
        BY <2>17, <2>18, <2>8, Zenon DEF Held
      <3>7. (mode = "literal" => \E b : InLiteral(t, b, q, 0))'
        BY <2>17, <2>18, <2>9, Zenon DEF Held
      <3>8. (mode = "escape" => \E b : InLiteral(t, b, q, 1))'
        BY <2>17, <2>18, <2>9, Zenon DEF Held
      <3>9. (mode = "sym" => AtSym(t, q))'
        BY <2>17, <2>18, <2>10, Zenon DEF Held
      <3>10. (mode = "second" => \E b : AtSecond(t, b, q))'
        BY <2>17, <2>18, <2>11, Zenon DEF Held
      <3>11. (mode = "dots" => \E b : AtSecond(t, b, q) /\ t[b] = "." /\ chr = ".")'
        BY <2>17, <2>18, <2>11, Zenon DEF Held
      <3>12. (mode = "last dot" => \E b : AtLastDot(t, b, q))'
        BY <2>17, <2>18, <2>12, Zenon DEF Held
      <3>13. (mode = "comment" => \E b : InRemark(t, b, q))'
        BY <2>17, <2>18, <2>13, Zenon DEF Held
      <3>14. (mode = "end" => AtEof(t, q) \/ Complete(t, q))'
        BY <2>17, <2>18, <2>14, <2>15, Zenon DEF Held
      <3>15. (mode = "lexed" => Ended(t))'
        BY <2>17, <2>18, <2>16, Zenon DEF Held
      <3> QED BY <3>1, <3>2, <3>3, <3>4, <3>5, <3>6, <3>7, <3>8, <3>9, <3>10, <3>11, <3>12, <3>13, <3>14, <3>15, Zenon DEF Held
    <2> QED BY <2>1, <2>18
  <1> QED BY <1>2, <1>3, <1>4 DEF LexInv

LEMMA LexBegins == ASSUME LexInit PROVE LexInv
  <1>1. IsText(src)
    <2>1. CASE src \in Texts
      BY <2>1, TextsAssumption DEF IsText
    <2>2. CASE src = <<>>
      <3>1. Range(src) = {}
        BY <2>2 DEF Range
      <3> QED BY <2>2, <3>1 DEF IsText
    <2> QED BY <2>1, <2>2 DEF LexInit
  <1>2. InputTyped
    <2>1. Len(src) \in Nat
      BY <1>1, TextIs
    <2> QED BY <1>1, <2>1 DEF LexInit, InputTyped
  <1>3. BootOk
    BY DEF LexInit, BootOk
  <1>4. ~Good
    BY DEF LexInit, Good
  <1> QED BY <1>2, <1>3, <1>4 DEF LexInv

LEMMA LexEnds == ASSUME LexInv PROVE TokensAsC
  <1> SUFFICES ASSUME mode = "lexed"
               PROVE  /\ "lex" \notin failed => toks = Tokens(Received)
                      /\ (failed = {} /\ Last(toks).kind = "eof" /\ ~(CharSigned /\ "0xFF" \in Range(src)))
                            => Received = src
    BY DEF TokensAsC
  <1> SUFFICES ASSUME "lex" \notin failed
               PROVE  /\ toks = Tokens(Received)
                      /\ (failed = {} /\ Last(toks).kind = "eof" /\ ~(CharSigned /\ "0xFF" \in Range(src)))
                            => Received = src
    OBVIOUS
  <1>1. InputTyped /\ CharOk /\ PosOk /\ \A t, p : Seen(t, p) => Held(t, p)
    BY DEF LexInv, Good
  <1>2. Len(src) \in Nat /\ Reached \in 0 .. Len(src) /\ src \in Seq(Range(src))
    BY <1>1, TextIs DEF InputTyped, Reached
  <1>3. PICK t : t = Received /\ t = SubSeq(src, 1, Reached)
    BY DEF Received, Reached
  <1>4. Seen(t, Place)
    BY <1>2, <1>3 DEF Seen
  <1>5. Ended(t)
    BY <1>1, <1>4 DEF Held
  <1>6. ASSUME failed = {}, Last(toks).kind = "eof", ~(CharSigned /\ "0xFF" \in Range(src))
        PROVE  Received = src
    <2>1. chr = EOF
      BY <1>5, <1>6 DEF Ended
    <2>2. AtEnd
      BY <1>1, <1>6, <2>1 DEF CharOk
    <2>3. Reached = Len(src)
      <3>1. CASE CharSigned /\ Reached + 1 \in 1 .. Len(src) /\ src[Reached + 1] = "0xFF"
        <4>1. "0xFF" \in Range(src)
          BY <1>2, <3>1 DEF Range
        <4> QED BY <1>6, <3>1, <4>1
      <3> QED BY <2>2, <3>1 DEF AtEnd
    <2>4. SubSeq(src, 1, Len(src)) = src
      BY <1>2, SubSeqFull
    <2> QED BY <1>3, <2>3, <2>4
  <1> QED BY <1>3, <1>5, <1>6 DEF Ended

\* The tokens made of an input are those that C has (C11 6.4): with their
\* values and places, up to and including the first complaint, for any input,
\* of any length, in whichever pieces read() gives it through a buffer of any
\* size, whether char is signed or not, for any MAX_TOK_LEN and ULONG_MAX.
THEOREM LexerIsRight == LexSpec => []TokensAsC
  <1>1. LexInit => LexInv
    BY LexBegins
  <1>2. LexInv /\ [Lex \/ Over]_lexer => LexInv'
    <2> SUFFICES ASSUME LexInv, [Lex \/ Over]_lexer PROVE LexInv'
      OBVIOUS
    <2>1. CASE Lex /\ mode = "boot"
      <3>1. Boot
        BY <2>1, OnlyBoot
      <3> QED BY <3>1, BootGoes
    <2>2. CASE Lex /\ mode # "boot"
      BY <2>2, LexGoes
    <2>3. CASE Over
      <3>1. /\ UNCHANGED <<src, sent, ahead, failed, chr, chr_pos, toks>> /\ mode' = "parsed"
        BY <2>3 DEF Over, To, input, lexed
      <3> QED BY <3>1 DEF LexInv, InputTyped, BootOk, Good
    <2>4. CASE UNCHANGED lexer
      BY <2>4, NoneGoes
    <2> QED BY <2>1, <2>2, <2>3, <2>4
  <1>3. LexInv => TokensAsC
    BY LexEnds
  <1> QED BY <1>1, <1>2, <1>3, PTL DEF LexSpec
=============================================================================
