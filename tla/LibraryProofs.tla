--------------------------- MODULE LibraryProofs ---------------------------
(***************************************************************************)
(* Proofs about the library functions.  getopt: at each call the options   *)
(* found so far and those ahead are all the options of C!Options.  strtol, *)
(* strtoul and atoi: try_parse stops behind the longest number of the text, *)
(* and has its value or has seen that it does not fit.  The lemmas on      *)
(* numbers, sequences and files come first, which the proofs about printf  *)
(* and about the sample programs need too.                                 *)
(***************************************************************************)
EXTENDS Programs, SequenceTheorems, FiniteSetTheorems, WellFoundedInduction, TLAPS

-----------------------------------------------------------------------------
(***************************************************************************)
(* Numbers.  A set of numbers has a least one; induction is that of a set  *)
(* of numbers, by its least counterexample.                                *)
(***************************************************************************)
LEMMA Least ==
    ASSUME NEW S, S \subseteq Nat, S # {}
    PROVE  \E m \in S : \A k \in S : m <= k
  <1> DEFINE R == {ss \in Nat \X Nat : ss[1] < ss[2]}
  <1>1. IsWellFoundedOn(R, Nat)
    BY NatLessThanWellFounded DEF OpToRel
  <1>2. PICK m \in S : \A k \in S : ~(<<k, m>> \in R)
    <2> HIDE DEF R
    <2> QED BY <1>1, WFMin
  <1>3. \A k \in S : ~(k < m)
    BY <1>2
  <1> QED BY <1>3

LEMMA Induct ==
    ASSUME NEW T, 0 \in T, \A n \in Nat : n \in T => n + 1 \in T
    PROVE  \A n \in Nat : n \in T
  <1> DEFINE B == {n \in Nat : n \notin T}
  <1> SUFFICES ASSUME B # {} PROVE FALSE
    OBVIOUS
  <1>1. PICK m \in B : \A k \in B : m <= k
    <2>1. B \subseteq Nat
      OBVIOUS
    <2> HIDE DEF B
    <2> QED BY <2>1, Least
  <1>2. m \in Nat \ {0} /\ m - 1 \in Nat
    OBVIOUS
  <1>3. m - 1 \notin B
    BY <1>1, <1>2
  <1>4. m - 1 + 1 \in T
    BY <1>2, <1>3
  <1> QED BY <1>2, <1>4

LEMMA MinOf ==
    ASSUME NEW S, S \subseteq Nat, S # {}
    PROVE  Min(S) \in S /\ \A k \in S : Min(S) <= k
  <1>1. PICK m \in S : \A k \in S : m <= k
    BY Least
  <1> QED BY <1>1 DEF Min

LEMMA MinIs ==
    ASSUME NEW S, S \subseteq Int, NEW m \in S, \A y \in S : m <= y
    PROVE  Min(S) = m
  <1>1. \A x \in S : (\A y \in S : x <= y) => x = m
    OBVIOUS
  <1>2. Min(S) \in S /\ \A y \in S : Min(S) <= y
    BY DEF Min
  <1> QED BY <1>1, <1>2

LEMMA MaxIs ==
    ASSUME NEW S, S \subseteq Int, NEW m \in S, \A y \in S : m >= y
    PROVE  Max(S) = m
  <1>1. \A x \in S : (\A y \in S : x >= y) => x = m
    OBVIOUS
  <1>2. Max(S) \in S /\ \A y \in S : Max(S) >= y
    BY DEF Max
  <1> QED BY <1>1, <1>2

LEMMA MinOfTwo == \A a, b \in Int : Min({a, b}) = IF a <= b THEN a ELSE b
  <1> SUFFICES ASSUME NEW a \in Int, NEW b \in Int
               PROVE  Min({a, b}) = IF a <= b THEN a ELSE b
    OBVIOUS
  <1> DEFINE m == IF a <= b THEN a ELSE b
  <1>1. m \in {a, b} /\ (\A y \in {a, b} : m <= y) /\ {a, b} \subseteq Int
    OBVIOUS
  <1> HIDE DEF m
  <1>2. Min({a, b}) = m
    BY <1>1, MinIs
  <1> QED BY <1>2 DEF m

LEMMA MaxOfTwo == \A a, b \in Int : Max({a, b}) = IF a >= b THEN a ELSE b
  <1> SUFFICES ASSUME NEW a \in Int, NEW b \in Int
               PROVE  Max({a, b}) = IF a >= b THEN a ELSE b
    OBVIOUS
  <1> DEFINE m == IF a >= b THEN a ELSE b
  <1>1. m \in {a, b} /\ (\A y \in {a, b} : m >= y) /\ {a, b} \subseteq Int
    OBVIOUS
  <1> HIDE DEF m
  <1>2. Max({a, b}) = m
    BY <1>1, MaxIs
  <1> QED BY <1>2 DEF m

\* What a quotient is.
LEMMA QuotientIs ==
    ASSUME NEW n \in Nat, NEW m \in Nat \ {0}
    PROVE  /\ n \div m \in Nat /\ n % m \in 0 .. m - 1
           /\ m * (n \div m) <= n /\ n < m * (n \div m) + m
           /\ n = m * (n \div m) + (n % m)
  <1> SUFFICES ASSUME NEW q, NEW r, q = n \div m, r = n % m
               PROVE  q \in Nat /\ r \in 0 .. m - 1 /\ m * q <= n /\ n < m * q + m /\ n = m * q + r
    BY Zenon
  <1>2. q \in Int /\ r \in 0 .. m - 1 /\ n = m * q + r
    OBVIOUS
  <1>3. q \in Nat
    <2>1. ASSUME q < 0 PROVE FALSE
      <3>1. m * (-1 - q) >= 0 /\ m * (-1 - q) = -m - m * q
        BY <1>2, <2>1
      <3> QED BY <1>2, <3>1
    <2> QED BY <1>2, <2>1
  <1>4. m * q <= n /\ n < m * q + m
    BY <1>2, <1>3
  <1> QED BY <1>2, <1>3, <1>4

LEMMA QuotientUnique ==
    ASSUME NEW n \in Nat, NEW m \in Nat \ {0}, NEW q \in Nat, m * q <= n, n < m * q + m
    PROVE  n \div m = q
  <1> DEFINE d == n \div m
  <1>1. d \in Nat /\ m * d <= n /\ n < m * d + m
    BY QuotientIs
  <1> HIDE DEF d
  <1>2. ASSUME NEW x \in Nat, NEW y \in Nat, x < y PROVE m * x + m <= m * y
    <2>1. y - x - 1 \in Nat /\ m * (y - x - 1) \in Nat
      BY <1>2
    <2>2. m * (y - x - 1) = m * y - m * x - m
      OBVIOUS
    <2> QED BY <2>1, <2>2
  <1>3. ~(d < q) /\ ~(q < d)
    BY <1>1, <1>2
  <1> QED BY <1>1, <1>3 DEF d

-----------------------------------------------------------------------------
(***************************************************************************)
(* FlattenSeq is defined by recursion on the places of a sequence.  Such a *)
(* function exists (FlattensExists), its values do not depend on what      *)
(* comes later (FlattensAgree), and so one more sequence is one more       *)
(* concatenation (FlattenMore).                                            *)
(***************************************************************************)
FlatAt(f, s, i) == IF i = 1 THEN s[i] ELSE f[i - 1] \o s[i]
Flattens(f, s, n) == f = [i \in 1 .. n |-> FlatAt(f, s, i)]

LEMMA FlattensExists ==
    ASSUME NEW s PROVE \A n \in Nat : \E f : Flattens(f, s, n)
  <1> DEFINE T == {n \in Nat : \E f : Flattens(f, s, n)}
  <1>1. 0 \in T
    <2>1. Flattens([i \in 1 .. 0 |-> s[i]], s, 0)
      BY DEF Flattens
    <2> QED BY <2>1
  <1>2. ASSUME NEW n \in Nat, n \in T PROVE n + 1 \in T
    <2>1. PICK f : Flattens(f, s, n)
      BY <1>2
    <2> DEFINE g == [i \in 1 .. n + 1 |-> FlatAt(f, s, i)]
    <2>2. \A i \in 1 .. n : f[i] = FlatAt(f, s, i)
      BY <2>1 DEF Flattens
    <2>3. \A i \in 1 .. n : g[i] = f[i]
      BY <2>2
    <2>4. \A i \in 1 .. n + 1 : FlatAt(g, s, i) = FlatAt(f, s, i)
      <3> SUFFICES ASSUME NEW i \in 1 .. n + 1 PROVE FlatAt(g, s, i) = FlatAt(f, s, i)
        OBVIOUS
      <3> HIDE DEF g
      <3>1. i # 1 => i - 1 \in 1 .. n
        OBVIOUS
      <3> QED BY <2>3, <3>1 DEF FlatAt
    <2>5. Flattens(g, s, n + 1)
      BY <2>4 DEF Flattens
    <2> HIDE DEF g
    <2> QED BY <2>5
  <1> HIDE DEF T
  <1>3. \A n \in Nat : n \in T
    BY <1>1, <1>2, Induct
  <1> QED BY <1>3 DEF T

LEMMA FlattensAgree ==
    ASSUME NEW f, NEW g, NEW s, NEW t, NEW n \in Nat, NEW m \in Nat, n <= m,
           Flattens(f, s, n), Flattens(g, t, m), \A i \in 1 .. n : s[i] = t[i]
    PROVE  \A i \in 1 .. n : f[i] = g[i]
  <1> DEFINE T == {i \in Nat : i \in 1 .. n => f[i] = g[i]}
  <1>1. 0 \in T
    OBVIOUS
  <1>2. ASSUME NEW i \in 1 .. n
        PROVE  f[i] = FlatAt(f, s, i) /\ g[i] = FlatAt(g, t, i)
    <2>1. i \in 1 .. m
      OBVIOUS
    <2> QED BY <2>1 DEF Flattens
  <1>3. ASSUME NEW i \in Nat, i \in T PROVE i + 1 \in T
    <2> SUFFICES ASSUME i + 1 \in 1 .. n PROVE f[i + 1] = g[i + 1]
      OBVIOUS
    <2>1. i + 1 # 1 => f[i + 1 - 1] = g[i + 1 - 1]
      BY <1>3
    <2>2. FlatAt(f, s, i + 1) = FlatAt(g, t, i + 1)
      BY <2>1 DEF FlatAt
    <2> QED BY <1>2, <2>2
  <1> HIDE DEF T
  <1>4. \A i \in Nat : i \in T
    BY <1>1, <1>3, Induct
  <1> QED BY <1>4 DEF T

LEMMA FlattenSeqIs ==
    ASSUME NEW s, Len(s) \in Nat, NEW f, Flattens(f, s, Len(s))
    PROVE  FlattenSeq(s) = IF Len(s) = 0 THEN s ELSE f[Len(s)]
  <1>1. CASE Len(s) = 0
    BY <1>1 DEF FlattenSeq
  <1>2. CASE Len(s) # 0
    <2> DEFINE c == CHOOSE g : Flattens(g, s, Len(s))
    <2>1. FlattenSeq(s) = c[Len(s)]
      BY <1>2 DEF FlattenSeq, Flattens, FlatAt
    <2>2. Flattens(c, s, Len(s))
      OBVIOUS
    <2> HIDE DEF c
    <2>3. c[Len(s)] = f[Len(s)]
      BY <1>2, <2>2, FlattensAgree
    <2> QED BY <1>2, <2>1, <2>3
  <1> QED BY <1>1, <1>2

LEMMA FlattenIn ==
    ASSUME NEW S, NEW s \in Seq(Seq(S))
    PROVE  FlattenSeq(s) \in Seq(S)
  <1> DEFINE n == Len(s)
  <1>1. n \in Nat /\ \A i \in 1 .. n : s[i] \in Seq(S)
    OBVIOUS
  <1>2. PICK f : Flattens(f, s, n)
    BY <1>1, FlattensExists
  <1>3. \A i \in 1 .. n : f[i] = FlatAt(f, s, i)
    BY <1>2 DEF Flattens
  <1> DEFINE T == {i \in Nat : i \in 1 .. n => f[i] \in Seq(S)}
  <1>4. 0 \in T
    OBVIOUS
  <1>5. ASSUME NEW i \in Nat, i \in T PROVE i + 1 \in T
    <2> SUFFICES ASSUME i + 1 \in 1 .. n PROVE f[i + 1] \in Seq(S)
      OBVIOUS
    <2>1. f[i + 1] = FlatAt(f, s, i + 1) /\ s[i + 1] \in Seq(S)
      BY <1>1, <1>3
    <2>2. CASE i = 0
      BY <2>1, <2>2 DEF FlatAt
    <2>3. CASE i # 0
      <3>1. f[i] \in Seq(S) /\ i + 1 # 1 /\ i + 1 - 1 = i
        BY <1>5, <2>3
      <3> QED BY <2>1, <3>1, ConcatProperties DEF FlatAt
    <2> QED BY <2>2, <2>3
  <1> HIDE DEF T
  <1>6. \A i \in Nat : i \in T
    BY <1>4, <1>5, Induct
  <1>7. n # 0 => f[n] \in Seq(S)
    BY <1>1, <1>6 DEF T
  <1>8. FlattenSeq(s) = IF n = 0 THEN s ELSE f[n]
    BY <1>1, <1>2, FlattenSeqIs
  <1>9. n = 0 => s = <<>>
    BY EmptySeq
  <1> QED BY <1>7, <1>8, <1>9, EmptySeq

LEMMA FlattenMore ==
    ASSUME NEW S, NEW s \in Seq(Seq(S)), NEW x \in Seq(S)
    PROVE  FlattenSeq(Append(s, x)) = FlattenSeq(s) \o x
  <1> DEFINE n == Len(s)
             t == Append(s, x)
  <1>1. /\ n \in Nat /\ Len(s) = n /\ Len(t) = n + 1 /\ Len(t) \in Nat
        /\ t[n + 1] = x /\ \A i \in 1 .. n : s[i] = t[i]
    BY AppendProperties
  <1> HIDE DEF t, n
  <1>2. PICK f : Flattens(f, s, n)
    BY <1>1, FlattensExists
  <1>3. PICK g : Flattens(g, t, n + 1)
    BY <1>1, FlattensExists
  <1>4. FlattenSeq(s) = IF n = 0 THEN s ELSE f[n]
    BY <1>1, <1>2, FlattenSeqIs
  <1>5. FlattenSeq(t) = g[n + 1]
    BY <1>1, <1>3, FlattenSeqIs
  <1>6. g[n + 1] = FlatAt(g, t, n + 1)
    <2>1. n + 1 \in 1 .. n + 1
      BY <1>1
    <2>2. \A i \in 1 .. n + 1 : g[i] = FlatAt(g, t, i)
      BY <1>3 DEF Flattens
    <2> QED BY <2>1, <2>2
  <1>7. CASE n = 0
    <2>1. s = <<>>
      BY <1>1, <1>7, EmptySeq
    <2>2. FlattenSeq(t) = x
      BY <1>1, <1>5, <1>6, <1>7 DEF FlatAt
    <2>3. FlattenSeq(s) = <<>>
      BY <1>4, <1>7, <2>1
    <2> QED BY <2>2, <2>3, ConcatEmptySeq DEF t
  <1>8. CASE n # 0
    <2>1. \A i \in 1 .. n : f[i] = g[i]
      <3>1. n + 1 \in Nat /\ n <= n + 1
        BY <1>1
      <3> QED BY <1>1, <1>2, <1>3, <3>1, FlattensAgree
    <2>2. g[n] = f[n]
      BY <1>1, <1>8, <2>1
    <2>3. n + 1 # 1 /\ n + 1 - 1 = n
      BY <1>1, <1>8
    <2>4. FlattenSeq(t) = g[n] \o x
      BY <1>1, <1>5, <1>6, <2>3 DEF FlatAt
    <2> QED BY <1>4, <1>8, <2>2, <2>4 DEF t
  <1> QED BY <1>7, <1>8

-----------------------------------------------------------------------------
(***************************************************************************)
(* Data: what the first n files hold, without those that cannot be opened. *)
(***************************************************************************)
Held(f) == IF f.fails = "open" THEN <<>> ELSE f.data

Parts(fs, n) == [i \in 1 .. n |-> Held(fs[i])]

LEMMA PartsAre ==
    ASSUME NEW S, NEW fs, Len(fs) \in Nat, \A i \in 1 .. Len(fs) : Held(fs[i]) \in Seq(S),
           NEW n \in 0 .. Len(fs)
    PROVE  /\ Parts(fs, n) \in Seq(Seq(S)) /\ Len(Parts(fs, n)) = n
           /\ \A i \in 1 .. n : Parts(fs, n)[i] = Held(fs[i])
  <1>1. n \in Nat /\ \A i \in 1 .. n : Held(fs[i]) \in Seq(S)
    OBVIOUS
  <1>2. Parts(fs, n) \in [1 .. n -> Seq(S)]
    BY <1>1 DEF Parts
  <1>3. Parts(fs, n) \in Seq(Seq(S))
    BY <1>1, <1>2, SeqDef
  <1>4. DOMAIN Parts(fs, n) = 1 .. n /\ \A i \in 1 .. n : Parts(fs, n)[i] = Held(fs[i])
    BY DEF Parts
  <1>5. Len(Parts(fs, n)) = n
    BY <1>1, <1>3, <1>4, LenProperties
  <1> QED BY <1>3, <1>4, <1>5

LEMMA DataIs ==
    ASSUME NEW S, NEW fs, Len(fs) \in Nat, \A i \in 1 .. Len(fs) : fs[i].data \in Seq(S)
    PROVE  /\ Data(fs, 0) = <<>>
           /\ \A n \in 0 .. Len(fs) : Data(fs, n) \in Seq(S)
           /\ \A n \in 0 .. Len(fs) - 1 : Data(fs, n + 1) = Data(fs, n) \o Held(fs[n + 1])
  <1>1. \A n : Data(fs, n) = FlattenSeq(Parts(fs, n))
    BY DEF Data, Parts, Held
  <1>2. \A i \in 1 .. Len(fs) : Held(fs[i]) \in Seq(S)
    BY EmptySeq DEF Held
  <1>3. ASSUME NEW n \in 0 .. Len(fs)
        PROVE  /\ Parts(fs, n) \in Seq(Seq(S)) /\ Len(Parts(fs, n)) = n
               /\ \A i \in 1 .. n : Parts(fs, n)[i] = Held(fs[i])
    BY <1>2, PartsAre
  <1>4. ASSUME NEW n \in 0 .. Len(fs) - 1
        PROVE  Parts(fs, n + 1) = Append(Parts(fs, n), Held(fs[n + 1]))
    <2> DEFINE t == Append(Parts(fs, n), Held(fs[n + 1]))
    <2>1. n \in 0 .. Len(fs) /\ n + 1 \in 0 .. Len(fs) /\ n + 1 \in 1 .. Len(fs)
      OBVIOUS
    <2>2. /\ Parts(fs, n) \in Seq(Seq(S)) /\ Len(Parts(fs, n)) = n
          /\ \A i \in 1 .. n : Parts(fs, n)[i] = Held(fs[i])
      BY <1>3, <2>1
    <2>3. /\ Parts(fs, n + 1) \in Seq(Seq(S)) /\ Len(Parts(fs, n + 1)) = n + 1
          /\ \A i \in 1 .. n + 1 : Parts(fs, n + 1)[i] = Held(fs[i])
      BY <1>3, <2>1
    <2>4. Held(fs[n + 1]) \in Seq(S)
      BY <1>2, <2>1
    <2>5. /\ t \in Seq(Seq(S)) /\ Len(t) = n + 1 /\ t[n + 1] = Held(fs[n + 1])
          /\ \A i \in 1 .. n : t[i] = Parts(fs, n)[i]
      BY <2>2, <2>4, AppendProperties
    <2> HIDE DEF t
    <2>6. \A i \in 1 .. n + 1 : i \in 1 .. n \/ i = n + 1
      BY <2>1
    <2>7. \A i \in 1 .. n + 1 : t[i] = Parts(fs, n + 1)[i]
      BY <2>2, <2>3, <2>5, <2>6
    <2>8. t = Parts(fs, n + 1)
      BY <2>3, <2>5, <2>7, SeqEqual
    <2> QED BY <2>8 DEF t
  <1>5. FlattenSeq(Parts(fs, 0)) = <<>>
    <2>1. Parts(fs, 0) \in Seq(Seq(S)) /\ Len(Parts(fs, 0)) = 0
      BY <1>3
    <2>2. Parts(fs, 0) = <<>>
      BY <2>1, EmptySeq
    <2> QED BY <2>1, <2>2 DEF FlattenSeq
  <1>6. \A n \in 0 .. Len(fs) : FlattenSeq(Parts(fs, n)) \in Seq(S)
    BY <1>3, FlattenIn
  <1>7. ASSUME NEW n \in 0 .. Len(fs) - 1
        PROVE  FlattenSeq(Parts(fs, n + 1)) = FlattenSeq(Parts(fs, n)) \o Held(fs[n + 1])
    <2>1. n \in 0 .. Len(fs) /\ n + 1 \in 1 .. Len(fs)
      OBVIOUS
    <2>2. Parts(fs, n) \in Seq(Seq(S)) /\ Held(fs[n + 1]) \in Seq(S)
      BY <1>2, <1>3, <2>1
    <2> QED BY <1>4, <2>2, FlattenMore
  <1> QED BY <1>1, <1>5, <1>6, <1>7

-----------------------------------------------------------------------------
(***************************************************************************)
(* Take: the first bytes of a sequence, and of one put behind another.     *)
(***************************************************************************)
LEMMA TakeIs ==
    ASSUME NEW S, NEW s \in Seq(S), NEW n \in Nat
    PROVE  /\ Take(s, n) \in Seq(S)
           /\ Len(Take(s, n)) = IF Len(s) <= n THEN Len(s) ELSE n
           /\ \A i \in 1 .. Len(Take(s, n)) : Take(s, n)[i] = s[i]
  <1> DEFINE m == IF Len(s) <= n THEN Len(s) ELSE n
  <1>1. m \in 0 .. Len(s) /\ Len(s) \in Nat
    OBVIOUS
  <1>2. Take(s, n) = SubSeq(s, 1, m)
    <2>1. Min({n, Len(s)}) = IF n <= Len(s) THEN n ELSE Len(s)
      BY <1>1, MinOfTwo
    <2>2. Min({n, Len(s)}) = m
      BY <1>1, <2>1
    <2> QED BY <2>2 DEF Take
  <1>3. \A i \in 1 .. m : s[i] \in S
    BY <1>1
  <1>4. m = IF Len(s) <= n THEN Len(s) ELSE n
    OBVIOUS
  <1> HIDE DEF m
  <1>5. /\ SubSeq(s, 1, m) \in Seq(S)
        /\ Len(SubSeq(s, 1, m)) = IF 1 <= m THEN m - 1 + 1 ELSE 0
        /\ \A i \in 1 .. m - 1 + 1 : SubSeq(s, 1, m)[i] = s[1 + i - 1]
    BY <1>1, <1>3, SubSeqProperties
  <1>6. Len(SubSeq(s, 1, m)) = m
    BY <1>1, <1>5
  <1>7. \A i \in 1 .. m : SubSeq(s, 1, m)[i] = s[i]
    BY <1>1, <1>5
  <1> QED BY <1>2, <1>4, <1>5, <1>6, <1>7

LEMMA TakeAll ==
    ASSUME NEW S, NEW s \in Seq(S), NEW n \in Nat, Len(s) <= n
    PROVE  Take(s, n) = s
  <1>1. Take(s, n) \in Seq(S) /\ Len(Take(s, n)) = Len(s)
    BY TakeIs
  <1>2. \A i \in 1 .. Len(Take(s, n)) : Take(s, n)[i] = s[i]
    BY TakeIs
  <1> QED BY <1>1, <1>2, SeqEqual

\* What no longer fits changes nothing.
LEMMA TakeFull ==
    ASSUME NEW S, NEW s \in Seq(S), NEW t \in Seq(S), NEW n \in Nat, Len(s) >= n
    PROVE  Take(s \o t, n) = Take(s, n)
  <1>1. /\ s \o t \in Seq(S) /\ Len(s \o t) = Len(s) + Len(t) /\ Len(s) \in Nat /\ Len(t) \in Nat
        /\ \A i \in 1 .. Len(s) + Len(t) : (s \o t)[i] = IF i <= Len(s) THEN s[i] ELSE t[i - Len(s)]
    BY ConcatProperties
  <1>2. /\ Take(s \o t, n) \in Seq(S) /\ Take(s, n) \in Seq(S)
        /\ \A i \in 1 .. Len(Take(s \o t, n)) : Take(s \o t, n)[i] = (s \o t)[i]
        /\ \A i \in 1 .. Len(Take(s, n)) : Take(s, n)[i] = s[i]
    BY <1>1, TakeIs
  <1>3. Len(Take(s \o t, n)) = n
    <2>1. Len(Take(s \o t, n)) = IF Len(s \o t) <= n THEN Len(s \o t) ELSE n
      BY <1>1, TakeIs
    <2> QED BY <1>1, <2>1
  <1>4. Len(Take(s, n)) = n
    <2>1. Len(Take(s, n)) = IF Len(s) <= n THEN Len(s) ELSE n
      BY TakeIs
    <2> QED BY <1>1, <2>1
  <1>5. \A i \in 1 .. n : (s \o t)[i] = s[i]
    BY <1>1
  <1>6. \A i \in 1 .. n : Take(s \o t, n)[i] = Take(s, n)[i]
    BY <1>2, <1>3, <1>4, <1>5
  <1> QED BY <1>2, <1>3, <1>4, <1>6, SeqEqual

\* Where all of the first fits, the second has the room that is left.
LEMMA TakeMore ==
    ASSUME NEW S, NEW s \in Seq(S), NEW t \in Seq(S), NEW n \in Nat, Len(s) <= n
    PROVE  Take(s \o t, n) = s \o Take(t, n - Len(s))
  <1> DEFINE k == n - Len(s)
             u == Take(t, k)
             l == IF Len(t) <= k THEN Len(t) ELSE k
  <1>1. /\ s \o t \in Seq(S) /\ Len(s \o t) = Len(s) + Len(t) /\ Len(s) \in Nat /\ Len(t) \in Nat
        /\ \A i \in 1 .. Len(s) + Len(t) : (s \o t)[i] = IF i <= Len(s) THEN s[i] ELSE t[i - Len(s)]
    BY ConcatProperties
  <1>2. k \in Nat /\ n = Len(s) + k
    BY <1>1
  <1> HIDE DEF k
  <1>3. u \in Seq(S) /\ Len(u) = l /\ \A i \in 1 .. Len(u) : u[i] = t[i]
    BY <1>2, TakeIs
  <1>4. /\ Take(s \o t, n) \in Seq(S)
        /\ Len(Take(s \o t, n)) = IF Len(s \o t) <= n THEN Len(s \o t) ELSE n
        /\ \A i \in 1 .. Len(Take(s \o t, n)) : Take(s \o t, n)[i] = (s \o t)[i]
    BY <1>1, TakeIs
  <1>5. Len(Take(s \o t, n)) = Len(s) + l /\ l \in Nat /\ l <= Len(t)
    BY <1>1, <1>2, <1>4
  <1> HIDE DEF u, l
  <1>6. /\ s \o u \in Seq(S) /\ Len(s \o u) = Len(s) + l
        /\ \A i \in 1 .. Len(s) + l : (s \o u)[i] = IF i <= Len(s) THEN s[i] ELSE u[i - Len(s)]
    BY <1>3, ConcatProperties
  <1>7. ASSUME NEW i \in 1 .. Len(s) + l PROVE Take(s \o t, n)[i] = (s \o u)[i]
    <2>1. Take(s \o t, n)[i] = (s \o t)[i]
      BY <1>4, <1>5
    <2>2. i \in 1 .. Len(s) + Len(t)
      BY <1>1, <1>5
    <2>3. (s \o t)[i] = IF i <= Len(s) THEN s[i] ELSE t[i - Len(s)]
      BY <1>1, <2>2
    <2>4. ~(i <= Len(s)) => i - Len(s) \in 1 .. Len(u)
      BY <1>1, <1>3, <1>5
    <2> QED BY <1>3, <1>6, <2>1, <2>3, <2>4
  <1>8. Take(s \o t, n) = s \o u
    BY <1>4, <1>5, <1>6, <1>7, SeqEqual
  <1> QED BY <1>8 DEF u, k

-----------------------------------------------------------------------------
(***************************************************************************)
(* Together: one more number is one more addition.                         *)
(***************************************************************************)
SumAt(f, s, i)   == IF i = 0 THEN 0 ELSE f[i - 1] + s[i]
SumsUp(f, s, n)  == f = [i \in 0 .. n |-> SumAt(f, s, i)]
SumOf(s, n)      == (CHOOSE f : SumsUp(f, s, n))[n]

LEMMA SumsExist ==
    ASSUME NEW s PROVE \A n \in Nat : \E f : SumsUp(f, s, n)
  <1> DEFINE T == {n \in Nat : \E f : SumsUp(f, s, n)}
  <1>1. 0 \in T
    <2> DEFINE f == [i \in 0 .. 0 |-> 0]
    <2>1. \A i \in 0 .. 0 : SumAt(f, s, i) = 0
      BY DEF SumAt
    <2>2. SumsUp(f, s, 0)
      BY <2>1 DEF SumsUp
    <2> HIDE DEF f
    <2> QED BY <2>2
  <1>2. ASSUME NEW n \in Nat, n \in T PROVE n + 1 \in T
    <2>1. PICK f : SumsUp(f, s, n)
      BY <1>2
    <2> DEFINE g == [i \in 0 .. n + 1 |-> SumAt(f, s, i)]
    <2>2. \A i \in 0 .. n : f[i] = SumAt(f, s, i)
      BY <2>1 DEF SumsUp
    <2>3. \A i \in 0 .. n : g[i] = f[i]
      BY <2>2
    <2>4. \A i \in 0 .. n + 1 : SumAt(g, s, i) = SumAt(f, s, i)
      <3> SUFFICES ASSUME NEW i \in 0 .. n + 1 PROVE SumAt(g, s, i) = SumAt(f, s, i)
        OBVIOUS
      <3> HIDE DEF g
      <3>1. i # 0 => i - 1 \in 0 .. n
        OBVIOUS
      <3> QED BY <2>3, <3>1 DEF SumAt
    <2>5. SumsUp(g, s, n + 1)
      BY <2>4 DEF SumsUp
    <2> HIDE DEF g
    <2> QED BY <2>5
  <1> HIDE DEF T
  <1>3. \A n \in Nat : n \in T
    BY <1>1, <1>2, Induct
  <1> QED BY <1>3 DEF T

LEMMA SumsAgree ==
    ASSUME NEW f, NEW g, NEW s, NEW n \in Nat, NEW m \in Nat, n <= m,
           SumsUp(f, s, n), SumsUp(g, s, m)
    PROVE  \A i \in 0 .. n : f[i] = g[i]
  <1> DEFINE T == {i \in Nat : i \in 0 .. n => f[i] = g[i]}
  <1>1. ASSUME NEW i \in 0 .. n
        PROVE  f[i] = SumAt(f, s, i) /\ g[i] = SumAt(g, s, i)
    <2>1. i \in 0 .. m
      OBVIOUS
    <2> QED BY <2>1 DEF SumsUp
  <1>2. 0 \in T
    <2>1. 0 \in 0 .. n
      OBVIOUS
    <2> QED BY <1>1, <2>1 DEF SumAt
  <1>3. ASSUME NEW i \in Nat, i \in T PROVE i + 1 \in T
    <2> SUFFICES ASSUME i + 1 \in 0 .. n PROVE f[i + 1] = g[i + 1]
      OBVIOUS
    <2>1. f[i + 1 - 1] = g[i + 1 - 1] /\ i + 1 # 0
      BY <1>3
    <2>2. SumAt(f, s, i + 1) = SumAt(g, s, i + 1)
      BY <2>1 DEF SumAt
    <2> QED BY <1>1, <2>2
  <1> HIDE DEF T
  <1>4. \A i \in Nat : i \in T
    BY <1>2, <1>3, Induct
  <1> QED BY <1>4 DEF T

LEMMA SumIs ==
    ASSUME NEW s
    PROVE  /\ SumOf(s, 0) = 0
           /\ \A n \in Nat : SumOf(s, n + 1) = SumOf(s, n) + s[n + 1]
  <1> DEFINE c(n) == CHOOSE f : SumsUp(f, s, n)
  <1>1. \A n \in Nat : SumsUp(c(n), s, n)
    BY SumsExist
  <1>2. \A n : SumOf(s, n) = c(n)[n]
    BY DEF SumOf
  <1> HIDE DEF c
  <1>3. \A n \in Nat : \A i \in 0 .. n : c(n)[i] = SumAt(c(n), s, i)
    BY <1>1 DEF SumsUp
  <1>4. SumOf(s, 0) = 0
    <2>1. 0 \in Nat /\ 0 \in 0 .. 0
      OBVIOUS
    <2> QED BY <1>2, <1>3, <2>1 DEF SumAt
  <1>5. ASSUME NEW n \in Nat PROVE SumOf(s, n + 1) = SumOf(s, n) + s[n + 1]
    <2>1. /\ n + 1 \in Nat /\ n + 1 \in 0 .. n + 1 /\ n \in 0 .. n /\ n <= n + 1
          /\ n + 1 # 0 /\ n + 1 - 1 = n
      OBVIOUS
    <2>2. c(n)[n] = c(n + 1)[n]
      BY <1>1, <2>1, SumsAgree
    <2>3. c(n + 1)[n + 1] = c(n + 1)[n] + s[n + 1]
      BY <1>3, <2>1 DEF SumAt
    <2> QED BY <1>2, <2>2, <2>3
  <1> QED BY <1>4, <1>5

LEMMA TogetherIs == \A s : Together(s) = SumOf(s, Len(s))
  BY DEF Together, SumOf, SumsUp, SumAt

-----------------------------------------------------------------------------
\* A sequence with one more element.
LEMMA OneMore ==
    ASSUME NEW s, s \in Seq(Range(s)), NEW e
    PROVE  /\ Append(s, e) \in Seq(Range(Append(s, e)))
           /\ Len(s) \in Nat /\ Len(Append(s, e)) = Len(s) + 1
           /\ \A i \in 1 .. Len(s) : Append(s, e)[i] = s[i]
           /\ Append(s, e)[Len(s) + 1] = e
  <1> DEFINE S == Range(s) \cup {e}
  <1>1. e \in S /\ Range(s) \subseteq S
    OBVIOUS
  <1> HIDE DEF S
  <1>2. s \in Seq(S)
    BY <1>1, SeqMonotonic
  <1>3. /\ Append(s, e) \in Seq(S) /\ Len(Append(s, e)) = Len(s) + 1
        /\ \A i \in 1 .. Len(s) : Append(s, e)[i] = s[i]
        /\ Append(s, e)[Len(s) + 1] = e
    BY <1>1, <1>2, AppendProperties
  <1>4. Append(s, e) \in Seq(Range(Append(s, e)))
    BY <1>3, SeqOfRange
  <1> QED BY <1>2, <1>3, <1>4
-----------------------------------------------------------------------------
(***************************************************************************)
(* The files of the job, the one at hand, and what is read of it.          *)
(***************************************************************************)
Fs   == job.files
This == Fs[fileno + 1]

LEMMA FilesAre ==
    ASSUME FilesHold(Fs)
    PROVE  \E S : /\ \A n \in 0 .. Len(Fs) - 1 : Fs[n + 1].data \in Seq(S)
                  /\ Data(Fs, 0) = <<>>
                  /\ \A n \in 0 .. Len(Fs) : Data(Fs, n) \in Seq(S)
                  /\ \A n \in 0 .. Len(Fs) - 1 : Data(Fs, n + 1) = Data(Fs, n) \o Held(Fs[n + 1])
  <1> DEFINE S == UNION {Range(Fs[i].data) : i \in 1 .. Len(Fs)}
  <1>1. Len(Fs) \in Nat /\ \A i \in 1 .. Len(Fs) : Fs[i].data \in Seq(Range(Fs[i].data))
    BY DEF FilesHold
  <1>2. \A i \in 1 .. Len(Fs) : Range(Fs[i].data) \subseteq S
    OBVIOUS
  <1> HIDE DEF S
  <1>3. \A i \in 1 .. Len(Fs) : Fs[i].data \in Seq(S)
    BY <1>1, <1>2, SeqMonotonic
  <1>4. \A n \in 0 .. Len(Fs) - 1 : n + 1 \in 1 .. Len(Fs)
    BY <1>1
  <1>5. \A n \in 0 .. Len(Fs) - 1 : Fs[n + 1].data \in Seq(S)
    BY <1>3, <1>4
  <1>6. /\ Data(Fs, 0) = <<>>
        /\ \A n \in 0 .. Len(Fs) : Data(Fs, n) \in Seq(S)
        /\ \A n \in 0 .. Len(Fs) - 1 : Data(Fs, n + 1) = Data(Fs, n) \o Held(Fs[n + 1])
    BY <1>1, <1>3, DataIs
  <1> QED BY <1>5, <1>6

LEMMA FreadIs ==
    ASSUME NEW S, NEW f, f.data \in Seq(S), pos \in 0 .. Len(f.data), NEW w \in Nat \ {0}
    PROVE  /\ fread(f, w) \in Seq(S)
           /\ Len(fread(f, w)) \in 0 .. Len(f.data) - pos
           /\ Len(fread(f, w)) = IF pos + w <= Len(f.data) THEN w ELSE Len(f.data) - pos
           /\ (fread(f, w) = <<>>) <=> (pos = Len(f.data))
           /\ SubSeq(f.data, 1, pos) \o fread(f, w) = SubSeq(f.data, 1, pos + Len(fread(f, w)))
  <1> DEFINE d == f.data
             n == IF pos + w <= Len(d) THEN pos + w ELSE Len(d)
             b == SubSeq(d, pos + 1, n)
  <1>1. d \in Seq(S) /\ Len(d) \in Nat /\ pos \in 0 .. Len(d)
    OBVIOUS
  <1> HIDE DEF d
  <1>2. n \in pos .. Len(d) /\ (n = pos <=> pos = Len(d))
    BY <1>1
  <1>10. n - pos = IF pos + w <= Len(d) THEN w ELSE Len(d) - pos
    BY <1>1
  <1>3. fread(f, w) = b
    <2>1. Min({pos + w, Len(d)}) = n
      BY <1>1, MinOfTwo
    <2> QED BY <2>1 DEF fread, d
  <1> HIDE DEF n
  <1>4. \A i \in pos + 1 .. n : d[i] \in S
    BY <1>1, <1>2
  <1>5. /\ b \in Seq(S)
        /\ Len(b) = IF pos + 1 <= n THEN n - (pos + 1) + 1 ELSE 0
    BY <1>1, <1>2, <1>4, SubSeqProperties
  <1>6. Len(b) = n - pos
    BY <1>1, <1>2, <1>5
  <1> HIDE DEF b
  <1>7. b = <<>> <=> pos = Len(d)
    <2>1. b = <<>> <=> Len(b) = 0
      BY <1>5, EmptySeq
    <2> QED BY <1>1, <1>2, <1>6, <2>1
  <1>8. SubSeq(d, 1, pos) \o b = SubSeq(d, 1, n)
    <2>1. /\ 1 \in 1 .. Len(d) + 1 /\ pos \in 1 - 1 .. Len(d) /\ n \in pos .. Len(d)
      BY <1>1, <1>2
    <2> QED BY <1>1, <2>1, ConcatAdjacentSubSeq DEF b
  <1>9. n = pos + Len(b) /\ Len(b) \in 0 .. Len(d) - pos
    BY <1>1, <1>2, <1>6
  <1> QED BY <1>3, <1>5, <1>6, <1>7, <1>8, <1>9, <1>10 DEF d

-----------------------------------------------------------------------------
(***************************************************************************)
(* Words, and what is found in them.                                       *)
(***************************************************************************)
AllWords(words) == Len(words) \in Nat /\ \A i \in 1 .. Len(words) : IsWord(words[i])
CharsOf(words)  == (UNION {Range(words[i]) : i \in 1 .. Len(words)}) \cup {"?", ":"}
Items(words)    == [ret : CharsOf(words), opt : CharsOf(words), arg : Seq(CharsOf(words))]

\* The options of the words from the i-th on, as C!Options has them
IsFrom(f, words, spec) == f = [i \in 1 .. Len(words) + 1 |-> C!FromWord(f, words, spec, i)]
From(words, spec)      == CHOOSE f : IsFrom(f, words, spec)

LEMMA WordIs ==
    ASSUME NEW words, AllWords(words), NEW i \in 1 .. Len(words)
    PROVE  /\ words[i] \in Seq(CharsOf(words)) /\ Len(words[i]) \in Nat \ {0}
           /\ \A j \in 1 .. Len(words[i]) : /\ words[i][j] \in CharsOf(words) /\ words[i][j] # STOP
                                            /\ words[i][j] = End <=> j = Len(words[i])
  <1> DEFINE w == words[i]
  <1>1. /\ w \in Seq(Range(w)) /\ w # <<>> /\ STOP \notin Range(w)
        /\ \A j \in 1 .. Len(w) : w[j] = End <=> j = Len(w)
    BY DEF AllWords, IsWord
  <1>2. Range(w) \subseteq CharsOf(words)
    BY DEF CharsOf
  <1> HIDE DEF w
  <1>3. Len(w) \in Nat \ {0}
    BY <1>1, EmptySeq
  <1>4. \A j \in 1 .. Len(w) : w[j] \in Range(w)
    BY <1>1
  <1>5. w \in Seq(CharsOf(words))
    BY <1>1, <1>2, SeqMonotonic
  <1>6. \A j \in 1 .. Len(w) : w[j] \in CharsOf(words) /\ w[j] # STOP
    BY <1>1, <1>2, <1>4
  <1> QED BY <1>1, <1>3, <1>5, <1>6 DEF w

LEMMA OperandsOf ==
    ASSUME NEW argv, AreWords(argv)
    PROVE  /\ AllWords(Tail(argv)) /\ Len(Tail(argv)) = Len(argv) - 1
           /\ \A i \in 1 .. Len(argv) - 1 : Tail(argv)[i] = argv[i + 1]
  <1>1. argv \in Seq(Range(argv)) /\ argv # <<>> /\ \A i \in 1 .. Len(argv) : IsWord(argv[i])
    BY DEF AreWords
  <1>2. Len(argv) \in Nat \ {0}
    BY <1>1, EmptySeq
  <1>3. /\ Len(Tail(argv)) = Len(argv) - 1
        /\ \A i \in 1 .. Len(argv) - 1 : Tail(argv)[i] = argv[i + 1]
    BY <1>1, HeadTailProperties
  <1>4. \A i \in 1 .. Len(argv) - 1 : i + 1 \in 1 .. Len(argv)
    BY <1>2
  <1> QED BY <1>1, <1>2, <1>3, <1>4 DEF AllWords

LEMMA TakesIs ==
    ASSUME NEW words, Len(words) \in Nat, NEW i \in 1 .. Len(words), NEW at
    PROVE  C!Takes(words, i, at) \in {1, 2} /\ i + C!Takes(words, i, at) \in i + 1 .. Len(words) + 1
  BY DEF C!Takes

\* What is found from a word on depends on the words behind it only.
LEMMA FromAgree ==
    ASSUME NEW f, NEW g, NEW words, NEW spec, Len(words) \in Nat, NEW i \in 1 .. Len(words) + 1,
           \A j \in i + 1 .. Len(words) + 1 : f[j] = g[j]
    PROVE  C!FromWord(f, words, spec, i) = C!FromWord(g, words, spec, i)
  <1>1. CASE i > Len(words)
    BY <1>1 DEF C!FromWord
  <1>2. CASE ~(i > Len(words))
    <2>1. i \in 1 .. Len(words)
      BY <1>2
    <2>2. \A at : f[i + C!Takes(words, i, at)] = g[i + C!Takes(words, i, at)]
      BY <2>1, TakesIs
    <2>3. C!FromLetter(f, words, spec, i, 2) = C!FromLetter(g, words, spec, i, 2)
      BY <2>2 DEF C!FromLetter
    <2> QED BY <2>3 DEF C!FromWord
  <1> QED BY <1>1, <1>2

LEMMA FromIs ==
    ASSUME NEW words, NEW spec, Len(words) \in Nat
    PROVE  \A i \in 1 .. Len(words) + 1 :
              From(words, spec)[i] = C!FromWord(From(words, spec), words, spec, i)
  <1> DEFINE N       == Len(words) + 1
             Good(f, n) == \A i \in N + 1 - n .. N : i \in 1 .. N => f[i] = C!FromWord(f, words, spec, i)
             T       == {n \in Nat : \E f : Good(f, n)}
  <1>1. N \in Nat
    OBVIOUS
  <1>2. 0 \in T
    <2>1. N + 1 - 0 = N + 1 /\ \A i \in N + 1 .. N : FALSE
      OBVIOUS
    <2>2. \A f : Good(f, 0)
      BY <2>1
    <2> HIDE DEF Good
    <2> QED BY <2>2
  <1>3. ASSUME NEW n \in Nat, n \in T PROVE n + 1 \in T
    <2>1. PICK f : Good(f, n)
      BY <1>3
    <2> DEFINE g == [i \in 1 .. N |-> IF i = N - n THEN C!FromWord(f, words, spec, i) ELSE f[i]]
    <2>2. \A i \in 1 .. N : i # N - n => g[i] = f[i]
      OBVIOUS
    <2>3. N - n \in 1 .. N => g[N - n] = C!FromWord(f, words, spec, N - n)
      OBVIOUS
    <2> HIDE DEF g
    <2>4. ASSUME NEW i \in N + 1 - (n + 1) .. N, i \in 1 .. N
          PROVE  g[i] = C!FromWord(g, words, spec, i)
      <3>1. \A j \in i + 1 .. N : f[j] = g[j]
        BY <1>1, <2>2, <2>4
      <3>2. C!FromWord(f, words, spec, i) = C!FromWord(g, words, spec, i)
        BY <2>4, <3>1, FromAgree
      <3>3. g[i] = C!FromWord(f, words, spec, i)
        <4>1. CASE i = N - n
          BY <2>3, <2>4, <4>1
        <4>2. CASE i # N - n
          <5>1. i \in N + 1 - n .. N
            BY <1>1, <2>4, <4>2
          <5> QED BY <2>1, <2>2, <2>4, <4>2, <5>1
        <4> QED BY <4>1, <4>2
      <3> QED BY <3>2, <3>3
    <2>5. Good(g, n + 1)
      BY <2>4
    <2> HIDE DEF Good
    <2> QED BY <2>5
  <1>4. \A n \in Nat : n \in T
    <2> HIDE DEF T
    <2> QED BY <1>2, <1>3, Induct
  <1>5. PICK f : Good(f, N)
    BY <1>1, <1>4
  <1> DEFINE g == [i \in 1 .. N |-> f[i]]
  <1>6. \A i \in 1 .. N : f[i] = C!FromWord(f, words, spec, i)
    <2>1. \A i \in 1 .. N : i \in N + 1 - N .. N
      BY <1>1
    <2> QED BY <1>5, <2>1
  <1>7. \A i \in 1 .. N : C!FromWord(f, words, spec, i) = C!FromWord(g, words, spec, i)
    <2> SUFFICES ASSUME NEW i \in 1 .. N
                 PROVE  C!FromWord(f, words, spec, i) = C!FromWord(g, words, spec, i)
      OBVIOUS
    <2>1. \A j \in i + 1 .. N : f[j] = g[j]
      OBVIOUS
    <2> HIDE DEF g
    <2> QED BY <2>1, FromAgree
  <1>8. g = [i \in 1 .. N |-> C!FromWord(g, words, spec, i)]
    <2>1. \A i \in 1 .. N : f[i] = C!FromWord(g, words, spec, i)
      BY <1>6, <1>7
    <2> HIDE DEF g
    <2>2. [i \in 1 .. N |-> f[i]] = [i \in 1 .. N |-> C!FromWord(g, words, spec, i)]
      BY <2>1
    <2> QED BY <2>2 DEF g
  <1>9. IsFrom(g, words, spec)
    BY <1>8 DEF IsFrom
  <1> HIDE DEF g
  <1>10. IsFrom(From(words, spec), words, spec)
    BY <1>9 DEF From
  <1> QED BY <1>10 DEF IsFrom

LEMMA OptionsAre == \A words, spec : C!Options(words, spec) = From(words, spec)[1]
  BY DEF C!Options, From, IsFrom

-----------------------------------------------------------------------------
(***************************************************************************)
(* One word, from its k-th character on.                                   *)
(***************************************************************************)
LEMMA SameInC == \A S : C!Min(S) = Min(S) /\ C!Range(S) = Range(S)
  BY DEF Min, C!Min, Range, C!Range

LEMMA LastAtIs ==
    ASSUME NEW word, NEW spec, Len(word) \in Nat, NEW k \in 1 .. Len(word)
    PROVE  /\ C!LastAt(word, spec, k) \in k .. Len(word)
           /\ C!LastAt(word, spec, k) # Len(word) => C!WantsArg(spec, word[C!LastAt(word, spec, k)])
  <1> DEFINE S == C!Wanting(word, spec, k)
  <1>1. S = {j \in k .. Len(word) - 1 : C!WantsArg(spec, word[j])}
    BY DEF C!Wanting
  <1>2. C!LastAt(word, spec, k) = IF S = {} THEN Len(word) ELSE Min(S)
    BY SameInC DEF C!LastAt
  <1>3. S # {} => Min(S) \in S
    <2>1. S \subseteq Nat
      BY <1>1
    <2> HIDE DEF S
    <2> QED BY <2>1, MinOf
  <1> HIDE DEF S
  <1> QED BY <1>1, <1>2, <1>3

LEMMA LastAtHere ==
    ASSUME NEW word, NEW spec, Len(word) \in Nat, NEW k \in 1 .. Len(word) - 1,
           C!WantsArg(spec, word[k])
    PROVE  C!LastAt(word, spec, k) = k
  <1> DEFINE S == C!Wanting(word, spec, k)
  <1>1. S = {j \in k .. Len(word) - 1 : C!WantsArg(spec, word[j])}
    BY DEF C!Wanting
  <1>2. C!LastAt(word, spec, k) = IF S = {} THEN Len(word) ELSE Min(S)
    BY SameInC DEF C!LastAt
  <1>3. S \subseteq Int /\ k \in S /\ \A j \in S : k <= j
    BY <1>1
  <1> HIDE DEF S
  <1>4. Min(S) = k
    BY <1>3, MinIs
  <1> QED BY <1>2, <1>3, <1>4

LEMMA LastAtLater ==
    ASSUME NEW word, NEW spec, Len(word) \in Nat, NEW k \in 1 .. Len(word) - 1,
           ~C!WantsArg(spec, word[k])
    PROVE  C!LastAt(word, spec, k) = C!LastAt(word, spec, k + 1)
  <1>1. C!Wanting(word, spec, k) = C!Wanting(word, spec, k + 1)
    <2>1. \A j \in k .. Len(word) - 1 : j = k \/ j \in k + 1 .. Len(word) - 1
      OBVIOUS
    <2> QED BY <2>1 DEF C!Wanting
  <1> QED BY <1>1 DEF C!LastAt

LEMMA LetterIs ==
    ASSUME NEW words, NEW spec, NEW c \in CharsOf(words)
    PROVE  /\ C!Letter(spec, c) = [ret |-> IF c \in Range(spec) THEN c ELSE "?", opt |-> c, arg |-> <<>>]
           /\ C!Letter(spec, c) \in Items(words)
  <1>1. C!Letter(spec, c) = [ret |-> IF c \in Range(spec) THEN c ELSE "?", opt |-> c, arg |-> <<>>]
    BY SameInC DEF C!Letter, C!Found
  <1> DEFINE r == IF c \in Range(spec) THEN c ELSE "?"
  <1>2. r \in CharsOf(words) /\ <<>> \in Seq(CharsOf(words))
    BY EmptySeq DEF CharsOf
  <1> HIDE DEF r
  <1>3. [ret |-> r, opt |-> c, arg |-> <<>>] \in Items(words)
    BY <1>2 DEF Items
  <1> QED BY <1>1, <1>3 DEF r

\* The options before the last one, as items
PlainSays(words, spec, i, k, at) ==
    LET p == C!Plain(words[i], spec, k, at)
    IN  /\ p \in Seq(Items(words)) /\ Len(p) = at - k /\ (at = k => p = <<>>)
        /\ \A j \in 1 .. at - k : p[j] = C!Letter(spec, words[i][k + j - 1])

LEMMA PlainIs ==
    ASSUME NEW words, AllWords(words), NEW spec, NEW i \in 1 .. Len(words),
           NEW k \in 1 .. Len(words[i]), NEW at \in k .. Len(words[i])
    PROVE  PlainSays(words, spec, i, k, at)
  <1> DEFINE p == C!Plain(words[i], spec, k, at)
  <1>1. p = [j \in 1 .. at - k |-> C!Letter(spec, words[i][k + j - 1])]
    BY DEF C!Plain
  <1>2. Len(words[i]) \in Nat /\ \A j \in 1 .. Len(words[i]) : words[i][j] \in CharsOf(words)
    BY WordIs
  <1>3. at - k \in Nat /\ \A j \in 1 .. at - k : k + j - 1 \in 1 .. Len(words[i])
    BY <1>2
  <1>4. \A j \in 1 .. at - k : C!Letter(spec, words[i][k + j - 1]) \in Items(words)
    BY <1>2, <1>3, LetterIs
  <1> HIDE DEF p
  <1>5. p \in [1 .. at - k -> Items(words)]
    BY <1>1, <1>4
  <1>6. p \in Seq(Items(words))
    BY <1>3, <1>5, SeqDef
  <1>7. DOMAIN p = 1 .. at - k /\ \A j \in 1 .. at - k : p[j] = C!Letter(spec, words[i][k + j - 1])
    BY <1>1
  <1>8. Len(p) = at - k
    BY <1>3, <1>6, <1>7, LenProperties
  <1>9. at = k => p = <<>>
    <2>1. at = k => Len(p) = 0
      BY <1>8
    <2> QED BY <1>6, <2>1, EmptySeq
  <1> QED BY <1>6, <1>7, <1>8, <1>9 DEF p, PlainSays

\* The option that ends a word, as an item
LEMMA LastOptionIs ==
    ASSUME NEW words, AllWords(words), NEW spec, NEW i \in 1 .. Len(words), NEW at \in 1 .. Len(words[i])
    PROVE  C!LastOption(words, spec, i, at) \in Seq(Items(words))
  <1> DEFINE Ch  == CharsOf(words)
             w   == words[i]
             opt == w[at]
  <1>1. /\ w \in Seq(Ch) /\ Len(w) \in Nat \ {0} /\ opt \in Ch
    BY WordIs
  <1>2. "?" \in Ch /\ ":" \in Ch /\ <<>> \in Seq(Ch)
    <2>1. "?" \in Ch /\ ":" \in Ch
      BY DEF CharsOf
    <2> QED BY <2>1, EmptySeq
  <1>3. \A r \in Ch, a \in Seq(Ch) : C!Found(r, opt, a) \in Items(words)
    <2> HIDE DEF Ch
    <2>1. \A r \in Ch, a \in Seq(Ch) : [ret |-> r, opt |-> opt, arg |-> a] \in [ret : Ch, opt : Ch, arg : Seq(Ch)]
      BY <1>1
    <2> QED BY <2>1 DEF C!Found, Items, Ch
  <1>4. \A x \in Items(words) : <<x>> \in Seq(Items(words))
    OBVIOUS
  <1>5. at + 1 < Len(w) => SubSeq(w, at + 1, Len(w)) \in Seq(Ch)
    <2> HIDE DEF Ch, w
    <2>1. at + 1 < Len(w) => at + 1 \in 1 .. Len(w)
      BY <1>1
    <2>2. \A j \in at + 1 .. Len(w) : w[j] \in Ch
      BY <1>1
    <2> QED BY <1>1, <2>2, SubSeqProperties
  <1>6. i < Len(words) => words[i + 1] \in Seq(Ch)
    <2>1. Len(words) \in Nat
      BY DEF AllWords
    <2>2. i < Len(words) => i + 1 \in 1 .. Len(words)
      BY <2>1
    <2> QED BY <2>2, WordIs
  <1>7. C!LastOption(words, spec, i, at) =
           IF at = Len(w) THEN <<>>
           ELSE IF at + 1 < Len(w) THEN <<C!Found(opt, opt, SubSeq(w, at + 1, Len(w)))>>
           ELSE IF i < Len(words)  THEN <<C!Found(opt, opt, words[i + 1])>>
           ELSE <<C!Found(IF spec[1] = ":" THEN ":" ELSE "?", opt, <<>>)>>
    BY DEF C!LastOption
  <1>8. <<>> \in Seq(Items(words))
    BY EmptySeq
  <1> HIDE DEF w, opt, Ch
  <1>9. CASE at = Len(w)
    BY <1>7, <1>8, <1>9
  <1>10. CASE at # Len(w) /\ at + 1 < Len(w)
    BY <1>1, <1>3, <1>4, <1>5, <1>7, <1>10
  <1>11. CASE at # Len(w) /\ ~(at + 1 < Len(w)) /\ i < Len(words)
    BY <1>1, <1>3, <1>4, <1>6, <1>7, <1>11
  <1>12. CASE at # Len(w) /\ ~(at + 1 < Len(w)) /\ ~(i < Len(words))
    <2>1. (IF spec[1] = ":" THEN ":" ELSE "?") \in Ch
      BY <1>2
    <2>2. C!Found(IF spec[1] = ":" THEN ":" ELSE "?", opt, <<>>) \in Items(words)
      BY <1>2, <1>3, <2>1
    <2> QED BY <1>4, <1>7, <1>12, <2>2
  <1> QED BY <1>9, <1>10, <1>11, <1>12

-----------------------------------------------------------------------------
(***************************************************************************)
(* The options of a word and of those behind it, for an f that has what is *)
(* in the words behind.                                                    *)
(***************************************************************************)
Listed(x, words)    == x.found \in Seq(Items(words)) /\ x.used \in Nat
Behind(f, words, i) == \A j \in i + 1 .. Len(words) + 1 : Listed(f[j], words)

FromLast(f, words, spec, i, k, at, n) ==
    LET x == C!FromLetter(f, words, spec, i, k)
    IN  /\ x.found = C!Plain(words[i], spec, k, at) \o C!LastOption(words, spec, i, at) \o f[i + n].found
        /\ x.used = n + f[i + n].used

LEMMA FromLetterIs ==
    ASSUME NEW words, AllWords(words), NEW spec, NEW i \in 1 .. Len(words), NEW k \in 1 .. Len(words[i]),
           NEW f, Behind(f, words, i), NEW at, at = C!LastAt(words[i], spec, k),
           NEW n, n = C!Takes(words, i, at)
    PROVE  /\ FromLast(f, words, spec, i, k, at, n)
           /\ C!Plain(words[i], spec, k, at) \in Seq(Items(words))
           /\ C!LastOption(words, spec, i, at) \in Seq(Items(words))
           /\ Listed(f[i + n], words) /\ Listed(C!FromLetter(f, words, spec, i, k), words)
  <1> DEFINE S == Items(words)
             p == C!Plain(words[i], spec, k, at)
             l == C!LastOption(words, spec, i, at)
             x == C!FromLetter(f, words, spec, i, k)
  <1>1. Len(words[i]) \in Nat \ {0} /\ Len(words) \in Nat
    BY WordIs DEF AllWords
  <1>2. at \in k .. Len(words[i])
    BY <1>1, LastAtIs
  <1>3. p \in Seq(S)
    <2>1. PlainSays(words, spec, i, k, at)
      BY <1>2, PlainIs
    <2> QED BY <2>1 DEF PlainSays
  <1>4. l \in Seq(S)
    <2>1. at \in 1 .. Len(words[i])
      BY <1>1, <1>2
    <2> QED BY <2>1, LastOptionIs
  <1>5. n \in {1, 2} /\ i + n \in i + 1 .. Len(words) + 1
    BY <1>1, TakesIs
  <1>6. f[i + n].found \in Seq(S) /\ f[i + n].used \in Nat
    BY <1>5 DEF Behind, Listed
  <1>7. x = [found |-> p \o l \o f[i + n].found, used |-> n + f[i + n].used]
    BY DEF C!FromLetter
  <1> HIDE DEF p, l, x, S
  <1>8. p \o l \o f[i + n].found \in Seq(S)
    BY <1>3, <1>4, <1>6, ConcatProperties
  <1>9. x.found = p \o l \o f[i + n].found /\ x.used = n + f[i + n].used
    BY <1>7
  <1>10. x.found \in Seq(S) /\ x.used \in Nat
    BY <1>5, <1>6, <1>8, <1>9, SMTT(40)
  <1> QED BY <1>3, <1>4, <1>6, <1>9, <1>10 DEF Listed, FromLast, p, l, x, S

LEMMA FromTyped ==
    ASSUME NEW words, AllWords(words), NEW spec
    PROVE  \A i \in 1 .. Len(words) + 1 : Listed(From(words, spec)[i], words)
  <1> DEFINE F == From(words, spec)
             N == Len(words) + 1
             T == {n \in Nat : \A i \in 1 .. N : i >= N - n => Listed(F[i], words)}
  <1>1. Len(words) \in Nat
    BY DEF AllWords
  <1>2. \A i \in 1 .. N : F[i] = C!FromWord(F, words, spec, i)
    BY <1>1, FromIs
  <1>3. ASSUME NEW m \in {0, 1} PROVE Listed([found |-> <<>>, used |-> m], words)
    BY EmptySeq DEF Listed
  <1>4. 0 \in T
    <2> SUFFICES ASSUME NEW i \in 1 .. N, i >= N - 0 PROVE Listed(F[i], words)
      OBVIOUS
    <2>1. i > Len(words)
      BY <1>1
    <2> QED BY <1>2, <1>3, <2>1 DEF C!FromWord
  <1>5. ASSUME NEW n \in Nat, n \in T PROVE n + 1 \in T
    <2> SUFFICES ASSUME NEW i \in 1 .. N, i >= N - (n + 1) PROVE Listed(F[i], words)
      OBVIOUS
    <2>1. Behind(F, words, i)
      <3>1. \A j \in i + 1 .. N : j \in 1 .. N /\ j >= N - n
        BY <1>1
      <3> HIDE DEF F
      <3> QED BY <1>5, <3>1 DEF Behind
    <2>2. CASE i > Len(words) \/ ~C!HoldsOptions(words[i])
      BY <1>2, <1>3, <2>2 DEF C!FromWord
    <2>3. CASE i \in 1 .. Len(words) /\ C!HoldsOptions(words[i])
      <3>1. Len(words[i]) \in Nat /\ 2 \in 1 .. Len(words[i])
        BY <2>3, WordIs DEF C!HoldsOptions
      <3>2. Listed(C!FromLetter(F, words, spec, i, 2), words)
        <4> HIDE DEF F
        <4> QED BY <2>1, <2>3, <3>1, FromLetterIs
      <3> QED BY <1>2, <1>3, <3>2 DEF C!FromWord
    <2> QED BY <1>1, <2>2, <2>3
  <1>6. \A n \in Nat : n \in T
    <2> HIDE DEF T
    <2> QED BY <1>4, <1>5, Induct
  <1> HIDE DEF F
  <1>7. N \in T
    <2> HIDE DEF T
    <2> QED BY <1>1, <1>6
  <1>8. \A i \in 1 .. N : Listed(F[i], words)
    BY <1>1, <1>7
  <1> QED BY <1>8 DEF F

LEMMA AllBehind ==
    ASSUME NEW words, AllWords(words), NEW spec, NEW i \in Nat
    PROVE  Behind(From(words, spec), words, i)
  BY FromTyped DEF Behind, AllWords

\* Concatenation may be read from either end.
Regroups(s, t, u, v) == s \o t \o u \o v = s \o (t \o u \o v)

LEMMA Regroup ==
    ASSUME NEW S, NEW s \in Seq(S), NEW t \in Seq(S), NEW u \in Seq(S), NEW v \in Seq(S)
    PROVE  Regroups(s, t, u, v)
  <1>1. (s \o t) \o u = s \o (t \o u)
    BY ConcatAssociative
  <1> DEFINE tu == t \o u
  <1>2. tu \in Seq(S)
    BY ConcatProperties
  <1>3. (s \o tu) \o v = s \o (tu \o v)
    <2> HIDE DEF tu
    <2> QED BY <1>2, ConcatAssociative, SMTT(40)
  <1> QED BY <1>1, <1>3 DEF Regroups

\* An option that wants no argument, and what is behind it
LEMMA LetterFirst ==
    ASSUME NEW words, AllWords(words), NEW spec, NEW i \in 1 .. Len(words), NEW k \in 1 .. Len(words[i]) - 1,
           NEW f, Behind(f, words, i), ~C!WantsArg(spec, words[i][k])
    PROVE  /\ C!FromLetter(f, words, spec, i, k).found =
                <<C!Letter(spec, words[i][k])>> \o C!FromLetter(f, words, spec, i, k + 1).found
           /\ C!FromLetter(f, words, spec, i, k).used = C!FromLetter(f, words, spec, i, k + 1).used
  <1> DEFINE S    == Items(words)
             w    == words[i]
             at   == C!LastAt(w, spec, k)
             n    == C!Takes(words, i, at)
             p(m) == C!Plain(w, spec, m, at)
             l    == C!LastOption(words, spec, i, at)
             x(m) == C!FromLetter(f, words, spec, i, m)
             c    == C!Letter(spec, w[k])
             r    == f[i + n].found
  <1>1. Len(w) \in Nat \ {0} /\ k \in 1 .. Len(w) /\ k + 1 \in 1 .. Len(w) /\ w[k] \in CharsOf(words)
    <2>1. Len(w) \in Nat \ {0}
      BY WordIs
    <2>2. k \in 1 .. Len(w) /\ k + 1 \in 1 .. Len(w)
      BY <2>1
    <2> QED BY <2>1, <2>2, WordIs
  <1>2. at = C!LastAt(w, spec, k + 1)
    BY <1>1, LastAtLater
  <1>3. at \in k + 1 .. Len(w) /\ at \in k .. Len(w)
    BY <1>1, <1>2, LastAtIs
  <1>4. /\ x(k).found = p(k) \o l \o r /\ x(k).used = n + f[i + n].used
        /\ p(k) \in Seq(S) /\ l \in Seq(S) /\ r \in Seq(S)
    <2>1. FromLast(f, words, spec, i, k, at, n) /\ p(k) \in Seq(S) /\ l \in Seq(S) /\ Listed(f[i + n], words)
      <3> HIDE DEF w
      <3>1. \A a, m : a = C!LastAt(words[i], spec, k) /\ m = C!Takes(words, i, a) =>
              /\ FromLast(f, words, spec, i, k, a, m)
              /\ C!Plain(words[i], spec, k, a) \in Seq(Items(words))
              /\ C!LastOption(words, spec, i, a) \in Seq(Items(words))
              /\ Listed(f[i + m], words)
        <4>1. k \in 1 .. Len(words[i])
          BY <1>1 DEF w
        <4> QED BY <4>1, FromLetterIs
      <3> QED BY <3>1, Zenon DEF w
    <2> QED BY <2>1 DEF FromLast, Listed
  <1>5. /\ x(k + 1).found = p(k + 1) \o l \o r /\ x(k + 1).used = n + f[i + n].used
        /\ p(k + 1) \in Seq(S)
    <2>1. FromLast(f, words, spec, i, k + 1, at, n) /\ p(k + 1) \in Seq(S)
      <3> HIDE DEF w
      <3>1. \A a, m : a = C!LastAt(words[i], spec, k + 1) /\ m = C!Takes(words, i, a) =>
              /\ FromLast(f, words, spec, i, k + 1, a, m)
              /\ C!Plain(words[i], spec, k + 1, a) \in Seq(Items(words))
        <4>1. k + 1 \in 1 .. Len(words[i])
          BY <1>1 DEF w
        <4> QED BY <4>1, FromLetterIs
      <3>2. at = C!LastAt(words[i], spec, k + 1) /\ n = C!Takes(words, i, at)
        BY <1>2 DEF w
      <3> HIDE DEF at, n
      <3> QED BY <3>1, <3>2 DEF w
    <2> QED BY <2>1 DEF FromLast
  <1>6. c \in S
    BY <1>1, LetterIs
  <1>7. /\ Len(p(k)) = at - k /\ \A j \in 1 .. at - k : p(k)[j] = C!Letter(spec, w[k + j - 1])
        /\ Len(p(k + 1)) = at - (k + 1)
        /\ \A j \in 1 .. at - (k + 1) : p(k + 1)[j] = C!Letter(spec, w[k + 1 + j - 1])
    <2>1. PlainSays(words, spec, i, k, at) /\ PlainSays(words, spec, i, k + 1, at)
      <3> HIDE DEF at
      <3> QED BY <1>1, <1>3, PlainIs
    <2> QED BY <2>1 DEF PlainSays
  <1> HIDE DEF p, l, x, c, r, n, at, S, w
  <1> DEFINE q == p(k + 1)
             y == <<c>>
             m == at - (k + 1)
  <1>8. p(k) = y \o q
    <2>1. y \in Seq(S) /\ Len(y) = 1 /\ y[1] = c
      BY <1>6
    <2>2. q \in Seq(S) /\ Len(q) = m /\ \A j \in 1 .. m : q[j] = C!Letter(spec, w[k + 1 + j - 1])
      BY <1>5, <1>7
    <2>3. m \in Nat /\ 1 + m = at - k
      BY <1>3
    <2>4. \A j \in 1 .. 1 + m : j # 1 => j - 1 \in 1 .. m /\ k + 1 + (j - 1) - 1 = k + j - 1
      BY <1>3
    <2>5. k + 1 - 1 = k
      BY <1>3
    <2>6. /\ p(k) \in Seq(S) /\ Len(p(k)) = 1 + m
          /\ \A j \in 1 .. 1 + m : p(k)[j] = C!Letter(spec, w[k + j - 1])
      BY <1>4, <1>7, <2>3
    <2> HIDE DEF y, q, m
    <2>7. /\ y \o q \in Seq(S) /\ Len(y \o q) = Len(y) + Len(q)
          /\ \A j \in 1 .. Len(y) + Len(q) :
               (y \o q)[j] = IF j <= Len(y) THEN y[j] ELSE q[j - Len(y)]
      BY <2>1, <2>2, ConcatProperties
    <2>8. /\ Len(y \o q) = 1 + m /\ (y \o q)[1] = c
          /\ \A j \in 1 .. 1 + m : j # 1 => (y \o q)[j] = q[j - 1]
      BY <2>1, <2>2, <2>3, <2>7
    <2>9. ASSUME NEW j \in 1 .. 1 + m PROVE p(k)[j] = (y \o q)[j]
      <3>1. CASE j = 1
        <4>1. p(k)[j] = C!Letter(spec, w[k])
          BY <2>5, <2>6, <3>1
        <4> QED BY <2>8, <3>1, <4>1 DEF c
      <3>2. CASE j # 1
        <4>1. q[j - 1] = C!Letter(spec, w[k + j - 1])
          BY <2>2, <2>4, <3>2
        <4> QED BY <2>6, <2>8, <3>2, <4>1
      <3> QED BY <3>1, <3>2
    <2>10. y \o q \in Seq(S)
      BY <2>7
    <2> DEFINE s == p(k)
               u == y \o q
    <2>11. s \in Seq(S) /\ u \in Seq(S) /\ Len(s) = Len(u) /\ \A j \in 1 .. Len(s) : s[j] = u[j]
      BY <2>6, <2>8, <2>9, <2>10
    <2> HIDE DEF s, u
    <2>12. s = u
      BY <2>11, SeqEqual
    <2> QED BY <2>12 DEF s, u
  <1>9. p(k) \o l \o r = y \o (q \o l \o r)
    <2> HIDE DEF y, q, m
    <2>1. y \in Seq(S)
      BY <1>6 DEF y
    <2>2. q \in Seq(S) /\ l \in Seq(S) /\ r \in Seq(S)
      BY <1>4, <1>5 DEF q
    <2>3. Regroups(y, q, l, r)
      BY <2>1, <2>2, Regroup
    <2> QED BY <1>8, <2>3 DEF Regroups
  <1>10. x(k).used = x(k + 1).used
    BY <1>4, <1>5
  <1>11. x(k).found = <<c>> \o x(k + 1).found
    BY <1>4, <1>5, <1>9
  <1> QED BY <1>10, <1>11 DEF x, c, w

\* Behind the last character
LEMMA WordIsOver ==
    ASSUME NEW words, AllWords(words), NEW spec, NEW i \in 1 .. Len(words), NEW f, Behind(f, words, i)
    PROVE  /\ C!FromLetter(f, words, spec, i, Len(words[i])).found = f[i + 1].found
           /\ C!FromLetter(f, words, spec, i, Len(words[i])).used = 1 + f[i + 1].used
  <1> DEFINE k == Len(words[i])
             p == C!Plain(words[i], spec, k, k)
  <1>1. k \in Nat \ {0} /\ k \in 1 .. k
    BY WordIs
  <1>2. C!LastAt(words[i], spec, k) = k
    BY <1>1, LastAtIs
  <1>3. C!Takes(words, i, k) = 1
    BY <1>1 DEF C!Takes
  <1>4. C!LastOption(words, spec, i, k) = <<>>
    BY DEF C!LastOption
  <1>5. p = <<>> /\ p \in Seq(Items(words))
    <2>1. PlainSays(words, spec, i, k, k)
      <3>1. \A m \in 1 .. Len(words[i]) : PlainSays(words, spec, i, m, Len(words[i]))
        <4> TAKE m \in 1 .. Len(words[i])
        <4>1. Len(words[i]) \in m .. Len(words[i])
          BY <1>1
        <4> QED BY <4>1, PlainIs
      <3> QED BY <1>1, <3>1
    <2> QED BY <2>1 DEF PlainSays
  <1>6. /\ C!FromLetter(f, words, spec, i, k).found = p \o <<>> \o f[i + 1].found
        /\ C!FromLetter(f, words, spec, i, k).used = 1 + f[i + 1].used
        /\ f[i + 1].found \in Seq(Items(words))
    <2>1. FromLast(f, words, spec, i, k, k, 1) /\ Listed(f[i + 1], words)
      <3> HIDE DEF k, p
      <3>1. k \in 1 .. Len(words[i])
        BY <1>1 DEF k
      <3> QED BY <1>2, <1>3, <3>1, FromLetterIs
    <2> QED BY <1>4, <2>1 DEF FromLast, Listed
  <1> HIDE DEF p, k
  <1>7. p \o <<>> \o f[i + 1].found = f[i + 1].found
    BY <1>5, <1>6, ConcatEmptySeq
  <1> QED BY <1>6, <1>7 DEF k

\* An option that wants an argument
LEMMA ArgFirst ==
    ASSUME NEW words, AllWords(words), NEW spec, NEW i \in 1 .. Len(words), NEW k \in 1 .. Len(words[i]) - 1,
           NEW f, Behind(f, words, i), C!WantsArg(spec, words[i][k]), NEW n, n = C!Takes(words, i, k)
    PROVE  /\ C!FromLetter(f, words, spec, i, k).found = C!LastOption(words, spec, i, k) \o f[i + n].found
           /\ C!FromLetter(f, words, spec, i, k).used = n + f[i + n].used
           /\ C!LastOption(words, spec, i, k) \in Seq(Items(words))
  <1> DEFINE p == C!Plain(words[i], spec, k, k)
             l == C!LastOption(words, spec, i, k)
  <1>1. Len(words[i]) \in Nat \ {0} /\ k \in 1 .. Len(words[i])
    <2>1. Len(words[i]) \in Nat \ {0}
      BY WordIs
    <2> QED BY <2>1
  <1>2. C!LastAt(words[i], spec, k) = k
    BY <1>1, LastAtHere
  <1>3. p = <<>>
    <2>1. k \in k .. Len(words[i])
      BY <1>1
    <2>2. PlainSays(words, spec, i, k, k)
      BY <1>1, <2>1, PlainIs
    <2> QED BY <2>2 DEF PlainSays
  <1>4. /\ C!FromLetter(f, words, spec, i, k).found = p \o l \o f[i + n].found
        /\ C!FromLetter(f, words, spec, i, k).used = n + f[i + n].used
        /\ l \in Seq(Items(words)) /\ f[i + n].found \in Seq(Items(words))
    <2>1. FromLast(f, words, spec, i, k, k, n) /\ l \in Seq(Items(words)) /\ Listed(f[i + n], words)
      BY <1>1, <1>2, FromLetterIs
    <2> QED BY <2>1 DEF FromLast, Listed
  <1> HIDE DEF p, l
  <1>5. p \o l = l
    BY <1>3, <1>4, ConcatEmptySeq
  <1> QED BY <1>4, <1>5 DEF l

-----------------------------------------------------------------------------
(***************************************************************************)
(* The places of getopt: before the i-th word, with k = 2, or within it,   *)
(* before its k-th character.  Rest is what is found from there on.        *)
(***************************************************************************)
Place(words, ind, cur, i, k) ==
    IF k = 2 THEN i \in 1 .. Len(words) + 1 /\ ind = i /\ cur = NULL
    ELSE /\ i \in 1 .. Len(words) /\ k \in 3 .. Len(words[i]) - 1
         /\ ind = i + 1 /\ cur = SubSeq(words[i], k, Len(words[i]))

InWord(words, spec, i, k) == C!FromLetter(From(words, spec), words, spec, i, k)
Rest(words, spec, i, k)   == IF k = 2 THEN From(words, spec)[i] ELSE InWord(words, spec, i, k)

\* From the k-th character of word i one gets to ind and cur by finding item.
Finds(words, spec, i, k, item, ind, cur) ==
    \E i2, k2 \in Nat : /\ Place(words, ind, cur, i2, k2) /\ item \in Items(words)
                        /\ InWord(words, spec, i, k).found = <<item>> \o Rest(words, spec, i2, k2).found
                        /\ i + InWord(words, spec, i, k).used = i2 + Rest(words, spec, i2, k2).used

LEMMA RestIn ==
    ASSUME NEW words, AllWords(words), NEW spec, NEW ind, NEW cur, NEW i, NEW k, Place(words, ind, cur, i, k)
    PROVE  Listed(Rest(words, spec, i, k), words) /\ i \in Nat
  <1>1. Len(words) \in Nat
    BY DEF AllWords
  <1>2. CASE k = 2
    BY <1>1, <1>2, FromTyped DEF Place, Rest
  <1>3. CASE k # 2
    <2>1. i \in 1 .. Len(words) /\ k \in 3 .. Len(words[i]) - 1
      BY <1>3 DEF Place
    <2>2. Len(words[i]) \in Nat
      BY <2>1, WordIs
    <2>3. k \in 1 .. Len(words[i]) /\ i \in Nat
      BY <2>1, <2>2
    <2>4. Behind(From(words, spec), words, i)
      BY <2>3, AllBehind
    <2>5. Listed(InWord(words, spec, i, k), words)
      BY <2>1, <2>3, <2>4, FromLetterIs DEF InWord
    <2> QED BY <1>3, <2>3, <2>5 DEF Rest
  <1> QED BY <1>2, <1>3

LEMMA LetterFound ==
    ASSUME NEW words, AllWords(words), NEW spec, NEW i \in 1 .. Len(words),
           NEW k \in 2 .. Len(words[i]) - 1, ~C!WantsArg(spec, words[i][k]),
           NEW cur, cur = IF k + 1 = Len(words[i]) THEN NULL ELSE SubSeq(words[i], k + 1, Len(words[i]))
    PROVE  Finds(words, spec, i, k, C!Letter(spec, words[i][k]), i + 1, cur)
  <1> DEFINE x    == C!Letter(spec, words[i][k])
             W(m) == InWord(words, spec, i, m)
  <1>1. Len(words[i]) \in Nat /\ i \in Nat /\ Len(words) \in Nat
    BY WordIs DEF AllWords
  <1>2. Behind(From(words, spec), words, i)
    BY <1>1, AllBehind
  <1>3. k \in 1 .. Len(words[i]) - 1 /\ k \in 1 .. Len(words[i])
    BY <1>1
  <1>4. W(k).found = <<x>> \o W(k + 1).found /\ W(k).used = W(k + 1).used
    BY <1>2, <1>3, LetterFirst, ZenonT(60) DEF InWord
  <1>5. x \in Items(words)
    BY <1>3, WordIs, LetterIs
  <1>6. CASE k + 1 = Len(words[i])
    <2>1. Place(words, i + 1, cur, i + 1, 2)
      BY <1>1, <1>6 DEF Place
    <2>2. /\ W(k + 1).found = Rest(words, spec, i + 1, 2).found
          /\ W(k + 1).used = 1 + Rest(words, spec, i + 1, 2).used
      <3>1. /\ InWord(words, spec, i, Len(words[i])).found = From(words, spec)[i + 1].found
            /\ InWord(words, spec, i, Len(words[i])).used = 1 + From(words, spec)[i + 1].used
        BY <1>2, WordIsOver DEF InWord
      <3> QED BY <1>6, <3>1 DEF Rest
    <2>3. Rest(words, spec, i + 1, 2).used \in Nat
      BY <2>1, RestIn DEF Listed
    <2>4. i + W(k).used = i + 1 + Rest(words, spec, i + 1, 2).used
      <3> DEFINE r == Rest(words, spec, i + 1, 2).used
                 u == W(k).used
      <3>1. u = 1 + r /\ r \in Nat
        BY <1>4, <2>2, <2>3
      <3> HIDE DEF u, r
      <3>2. i + u = i + 1 + r
        BY <1>1, <3>1
      <3> QED BY <3>2 DEF u, r
    <2>5. i + 1 \in Nat /\ 2 \in Nat
      BY <1>1
    <2> HIDE DEF W, x
    <2>6. W(k).found = <<x>> \o Rest(words, spec, i + 1, 2).found
      BY <1>4, <2>2
    <2> QED BY <1>5, <2>1, <2>4, <2>5, <2>6 DEF Finds, W, x
  <1>7. CASE k + 1 # Len(words[i])
    <2>1. Place(words, i + 1, cur, i, k + 1) /\ Rest(words, spec, i, k + 1) = W(k + 1) /\ k + 1 \in Nat
      <3>1. k + 1 # 2 /\ k + 1 \in 3 .. Len(words[i]) - 1 /\ k + 1 \in Nat
        BY <1>1, <1>3, <1>7
      <3> QED BY <1>7, <3>1 DEF Place, Rest
    <2> QED BY <1>1, <1>4, <1>5, <2>1 DEF Finds
  <1> QED BY <1>6, <1>7

LEMMA ArgFound ==
    ASSUME NEW words, AllWords(words), NEW spec, NEW i \in 1 .. Len(words),
           NEW k \in 2 .. Len(words[i]) - 1, C!WantsArg(spec, words[i][k]),
           NEW item, C!LastOption(words, spec, i, k) = <<item>>
    PROVE  Finds(words, spec, i, k, item, i + C!Takes(words, i, k), NULL)
  <1> DEFINE n == C!Takes(words, i, k)
  <1>1. Len(words[i]) \in Nat /\ i \in Nat /\ Len(words) \in Nat
    BY WordIs DEF AllWords
  <1>2. Behind(From(words, spec), words, i)
    BY <1>1, AllBehind
  <1>3. k \in 1 .. Len(words[i]) - 1
    BY <1>1
  <1>4. /\ InWord(words, spec, i, k).found = <<item>> \o From(words, spec)[i + n].found
        /\ InWord(words, spec, i, k).used = n + From(words, spec)[i + n].used
        /\ <<item>> \in Seq(Items(words))
    <2>1. \A m : m = C!Takes(words, i, k) =>
            /\ InWord(words, spec, i, k).found =
                 C!LastOption(words, spec, i, k) \o From(words, spec)[i + m].found
            /\ InWord(words, spec, i, k).used = m + From(words, spec)[i + m].used
            /\ C!LastOption(words, spec, i, k) \in Seq(Items(words))
      BY <1>2, <1>3, ArgFirst DEF InWord
    <2>2. n = C!Takes(words, i, k)
      OBVIOUS
    <2> HIDE DEF n
    <2> QED BY <2>1, <2>2
  <1>5. n \in Nat /\ i + n \in 1 .. Len(words) + 1
    <2>1. C!Takes(words, i, k) \in {1, 2} /\ i + C!Takes(words, i, k) \in i + 1 .. Len(words) + 1
      BY <1>1, TakesIs
    <2> QED BY <1>1, <2>1
  <1> HIDE DEF n
  <1>6. /\ Place(words, i + n, NULL, i + n, 2) /\ Rest(words, spec, i + n, 2) = From(words, spec)[i + n]
        /\ i + n \in Nat /\ 2 \in Nat
    BY <1>1, <1>5 DEF Place, Rest
  <1>7. From(words, spec)[i + n].used \in Nat
    BY <1>5, FromTyped DEF Listed
  <1>8. i + InWord(words, spec, i, k).used = i + n + From(words, spec)[i + n].used
    BY <1>1, <1>4, <1>5, <1>7
  <1>9. item \in Items(words)
    <2>1. 1 \in 1 .. Len(<<item>>) /\ <<item>>[1] = item
      OBVIOUS
    <2> QED BY <1>4, <2>1
  <1>10. Finds(words, spec, i, k, item, i + n, NULL)
    BY <1>4, <1>6, <1>8, <1>9 DEF Finds
  <1> QED BY <1>10 DEF n

-----------------------------------------------------------------------------
(***************************************************************************)
(* A call of getopt.                                                       *)
(***************************************************************************)
LEMMA TakesArgIs ==
    ASSUME NEW spec, IsSpec(spec), NEW opt, opt # End
    PROVE  C!WantsArg(spec, opt) <=> Known(spec, opt) /\ TakesArg(spec, opt)
  <1>1. /\ spec \in Seq(Range(spec)) /\ Len(spec) \in Nat
        /\ \A i \in 1 .. Len(spec) : spec[i] = End <=> i = Len(spec)
        /\ \A i, j \in 1 .. Len(spec) - 1 : spec[i] = spec[j] => (spec[i + 1] = ":" <=> spec[j + 1] = ":")
    BY DEF IsSpec, IsWord
  <1>2. \A i \in 1 .. Len(spec) : spec[i] = opt => i \in 1 .. Len(spec) - 1
    BY <1>1
  <1>3. C!WantsArg(spec, opt) <=> \E i \in 1 .. Len(spec) - 1 : spec[i] = opt /\ spec[i + 1] = ":"
    BY DEF C!WantsArg
  <1>4. Known(spec, opt) <=> \E i \in 1 .. Len(spec) : spec[i] = opt
    <2>1. DOMAIN spec = 1 .. Len(spec)
      BY <1>1
    <2> QED BY <2>1 DEF Known, Range
  <1>5. CASE ~Known(spec, opt)
    <2>1. \A i \in 1 .. Len(spec) - 1 : i \in 1 .. Len(spec)
      BY <1>1
    <2> QED BY <1>3, <1>4, <1>5, <2>1
  <1>6. CASE Known(spec, opt)
    <2> DEFINE First(i) == i \in 1 .. Len(spec) /\ spec[i] = opt /\ \A j \in 1 .. i - 1 : spec[j] # opt
               at       == CHOOSE i \in 1 .. Len(spec) : spec[i] = opt /\ \A j \in 1 .. i - 1 : spec[j] # opt
    <2>1. \E i \in 1 .. Len(spec) : First(i)
      <3> DEFINE S == {i \in 1 .. Len(spec) : spec[i] = opt}
      <3>1. S \subseteq Nat /\ S # {}
        BY <1>4, <1>6
      <3>2. \E m \in S : \A j \in S : m <= j
        <4> HIDE DEF S
        <4> QED BY <3>1, Least
      <3>3. PICK m \in S : \A j \in S : m <= j
        BY <3>2
      <3>4. \A j \in 1 .. m - 1 : spec[j] # opt
        <4> SUFFICES ASSUME NEW j \in 1 .. m - 1, spec[j] = opt PROVE FALSE
          OBVIOUS
        <4>1. j \in S
          BY <1>1
        <4> QED BY <3>3, <4>1
      <3> QED BY <3>3, <3>4
    <2>2. First(at)
      BY <2>1
    <2>3. TakesArg(spec, opt) <=> spec[at + 1] = ":"
      BY DEF TakesArg
    <2> HIDE DEF at
    <2>4. at \in 1 .. Len(spec) - 1 /\ spec[at] = opt
      BY <1>2, <2>2
    <2> QED BY <1>1, <1>3, <1>6, <2>3, <2>4
  <1> QED BY <1>5, <1>6

LEMMA LeftOfWord ==
    ASSUME NEW S, NEW w \in Seq(S), NEW k \in 1 .. Len(w)
    PROVE  /\ SubSeq(w, k, Len(w)) # NULL
           /\ Head(SubSeq(w, k, Len(w))) = w[k] /\ Tail(SubSeq(w, k, Len(w))) = SubSeq(w, k + 1, Len(w))
  <1>1. /\ k \in Int /\ Len(w) \in Int /\ k <= Len(w) /\ Len(w) \in k .. Len(w)
        /\ \A j \in k .. Len(w) : w[j] \in S
    OBVIOUS
  <1>2. Len(SubSeq(w, k, Len(w))) = IF k <= Len(w) THEN Len(w) - k + 1 ELSE 0
    BY <1>1, SubSeqProperties
  <1>3. Len(SubSeq(w, k, Len(w))) # 0
    BY <1>1, <1>2
  <1>4. SubSeq(w, k, Len(w)) # NULL
    BY <1>3, EmptySeq DEF NULL
  <1> QED BY <1>1, <1>4, HeadTailOfSubSeq

LEMMA AtOptionsIs ==
    ASSUME NEW argv, AreWords(argv), NEW i \in 1 .. Len(Tail(argv)) + 1, optind = i
    PROVE  /\ AtOptions(argv) <=> i <= Len(Tail(argv)) /\ C!HoldsOptions(Tail(argv)[i])
           /\ i <= Len(Tail(argv)) => Arg(argv, optind) = Tail(argv)[i]
  <1> DEFINE words == Tail(argv)
  <1>1. /\ AllWords(words) /\ Len(words) = Len(argv) - 1 /\ Len(words) \in Nat
        /\ \A j \in 1 .. Len(argv) - 1 : words[j] = argv[j + 1]
    BY OperandsOf DEF AllWords
  <1>2. i <= Len(words) => Arg(argv, optind) = words[i]
    BY <1>1 DEF Arg
  <1>3. AtOptions(argv) <=> i <= Len(words) /\ words[i][1] = "-" /\ words[i][2] # End
    <2>1. optind < Argc(argv) <=> i <= Len(words)
      BY <1>1 DEF Argc
    <2> QED BY <1>2, <2>1 DEF AtOptions
  <1>4. ASSUME i <= Len(words)
        PROVE  words[i][1] = "-" /\ words[i][2] # End <=> C!HoldsOptions(words[i])
    <2>1. /\ Len(words[i]) \in Nat \ {0}
          /\ \A j \in 1 .. Len(words[i]) : words[i][j] = End <=> j = Len(words[i])
      <3>1. i \in 1 .. Len(words)
        BY <1>4
      <3> QED BY <1>1, <3>1, WordIs, ZenonT(40)
    <2> HIDE DEF words
    <2>2. words[i][1] = "-" => Len(words[i]) # 1
      <3>1. Len(words[i]) = 1 => words[i][1] = End
        BY <2>1
      <3>2. End # "-"
        BY DEF End
      <3> QED BY <3>1, <3>2
    <2>3. Len(words[i]) # 1 => (words[i][2] # End <=> Len(words[i]) > 2)
      <3> SUFFICES ASSUME Len(words[i]) # 1 PROVE words[i][2] # End <=> Len(words[i]) > 2
        OBVIOUS
      <3>1. 2 \in 1 .. Len(words[i])
        <4>1. \A n \in Nat \ {0} : n # 1 => 2 \in 1 .. n
          OBVIOUS
        <4> QED BY <2>1, <4>1
      <3>2. words[i][2] = End <=> 2 = Len(words[i])
        BY <2>1, <3>1
      <3> QED BY <2>1, <3>1, <3>2
    <2>4. Len(words[i]) > 2 => Len(words[i]) # 1
      BY <2>1
    <2> QED BY <2>2, <2>3, <2>4 DEF C!HoldsOptions
  <1> QED BY <1>2, <1>3, <1>4

LEMMA DashDashIs ==
    ASSUME NEW words, AllWords(words), NEW i \in 1 .. Len(words), C!HoldsOptions(words[i])
    PROVE  words[i] = DashDash <=> C!EndsOptions(words[i])
  <1> DEFINE w == words[i]
  <1>1. \A v : v = DashDash => C!EndsOptions(v)
    BY DEF DashDash, C!EndsOptions
  <1>2. ASSUME C!EndsOptions(w) PROVE w = DashDash
    <2>1. /\ w \in Seq(CharsOf(words)) /\ Len(w) = 3 /\ w[1] = "-" /\ w[2] = "-"
          /\ \A j \in 1 .. Len(w) : w[j] \in CharsOf(words) /\ (w[j] = End <=> j = Len(w))
      BY <1>2, WordIs DEF C!HoldsOptions, C!EndsOptions
    <2> HIDE DEF w
    <2>2. w[3] = End /\ \A j \in 1 .. 3 : w[j] \in CharsOf(words)
      BY <2>1
    <2>3. DashDash \in Seq(CharsOf(words)) /\ Len(DashDash) = 3
      BY <2>1, <2>2 DEF DashDash
    <2>4. DashDash[1] = "-" /\ DashDash[2] = "-" /\ DashDash[3] = End
      BY DEF DashDash
    <2>5. \A j \in 1 .. 3 : j = 1 \/ j = 2 \/ j = 3
      OBVIOUS
    <2>6. \A j \in 1 .. Len(w) : w[j] = DashDash[j]
      BY <2>1, <2>2, <2>4, <2>5
    <2> QED BY <2>1, <2>3, <2>6, SeqEqual
  <1> QED BY <1>1, <1>2

LEMMA StopsAt ==
    ASSUME NEW argv, AreWords(argv), NEW spec, NEW i, NEW k,
           Place(Tail(argv), optind, curr_arg, i, k), Stop(argv)
    PROVE  /\ Rest(Tail(argv), spec, i, k).found = <<>>
           /\ optind' = i + Rest(Tail(argv), spec, i, k).used
           /\ retval' = STOP /\ UNCHANGED <<opterr, complaints>>
  <1> DEFINE words == Tail(argv)
  <1>1. /\ AllWords(words) /\ Len(words) = Len(argv) - 1 /\ Len(words) \in Nat
        /\ \A j \in 1 .. Len(argv) - 1 : words[j] = argv[j + 1]
    BY OperandsOf DEF AllWords
  <1>2. k = 2
    <2> SUFFICES ASSUME k # 2 PROVE FALSE
      OBVIOUS
    <2>1. i \in 1 .. Len(words) /\ k \in 3 .. Len(words[i]) - 1 /\ curr_arg = SubSeq(words[i], k, Len(words[i]))
      BY DEF Place
    <2>2. words[i] \in Seq(CharsOf(words)) /\ k \in 1 .. Len(words[i])
      <3>1. words[i] \in Seq(CharsOf(words)) /\ Len(words[i]) \in Nat
        BY <1>1, <2>1, WordIs
      <3> QED BY <2>1, <3>1
    <2> HIDE DEF words
    <2>3. curr_arg # NULL
      BY <2>1, <2>2, LeftOfWord
    <2> QED BY <2>3 DEF Stop
  <1>3. i \in 1 .. Len(words) + 1 /\ optind = i
    BY <1>2 DEF Place
  <1>4. Rest(words, spec, i, k) = C!FromWord(From(words, spec), words, spec, i)
    BY <1>1, <1>2, <1>3, FromIs DEF Rest
  <1>5. /\ AtOptions(argv) <=> i <= Len(words) /\ C!HoldsOptions(words[i])
        /\ i <= Len(words) => Arg(argv, optind) = words[i]
    BY <1>3, AtOptionsIs
  <1>6. retval' = STOP /\ UNCHANGED <<opterr, complaints>>
    BY DEF Stop
  <1>7. CASE ~AtOptions(argv)
    <2>1. C!FromWord(From(words, spec), words, spec, i) = [found |-> <<>>, used |-> 0]
      BY <1>1, <1>3, <1>5, <1>7 DEF C!FromWord
    <2>2. optind' = optind
      BY <1>7 DEF Stop
    <2> QED BY <1>3, <1>4, <1>6, <2>1, <2>2
  <1>8. CASE AtOptions(argv)
    <2>1. words[i] = DashDash /\ optind' = optind + 1 /\ C!HoldsOptions(words[i]) /\ i \in 1 .. Len(words)
      BY <1>1, <1>3, <1>5, <1>8 DEF Stop
    <2>2. C!EndsOptions(words[i])
      BY <1>1, <2>1, DashDashIs
    <2>3. C!FromWord(From(words, spec), words, spec, i) = [found |-> <<>>, used |-> 1]
      BY <1>1, <2>1, <2>2 DEF C!FromWord
    <2> QED BY <1>3, <1>4, <1>6, <2>1, <2>3
  <1> QED BY <1>7, <1>8

\* The option at the k-th character of the i-th word; rest is what is behind it.
Chosen(argv, spec, opt, rest, ind) ==
    \/ Unknown(spec, opt, rest, ind) \/ Flag(spec, opt, rest, ind)
    \/ ArgInWord(spec, opt, rest, ind) \/ ArgIsWord(argv, spec, opt, rest, ind)
    \/ ArgMissing(argv, spec, opt, rest, ind)

TakesAt(argv, spec, words, i, k) ==
    /\ i \in 1 .. Len(words) /\ k \in 2 .. Len(words[i]) - 1
    /\ optopt' = words[i][k] /\ UNCHANGED opterr
    /\ Chosen(argv, spec, words[i][k], SubSeq(words[i], k + 1, Len(words[i])), i + 1)
    /\ Rest(words, spec, i, k) = InWord(words, spec, i, k)

LEMMA OptionAt ==
    ASSUME NEW argv, AreWords(argv), NEW spec, NEW i, NEW k,
           Place(Tail(argv), optind, curr_arg, i, k), Option(argv, spec),
           NEW words, words = Tail(argv)
    PROVE  TakesAt(argv, spec, words, i, k)
  <1> DEFINE w    == words[i]
             word == IF curr_arg # NULL THEN curr_arg ELSE Tail(Arg(argv, optind))
             ind  == IF curr_arg # NULL THEN optind ELSE optind + 1
  <1>1. AllWords(words) /\ Len(words) \in Nat
    BY OperandsOf DEF AllWords
  <1>2. /\ curr_arg # NULL \/ (AtOptions(argv) /\ Arg(argv, optind) # DashDash)
        /\ optopt' = Head(word) /\ Chosen(argv, spec, Head(word), Tail(word), ind) /\ UNCHANGED opterr
    BY DEF Option, Chosen
  <1> HIDE DEF word, ind
  <1>3. /\ i \in 1 .. Len(words) /\ k \in 2 .. Len(w) - 1 /\ word = SubSeq(w, k, Len(w)) /\ ind = i + 1
        /\ Rest(words, spec, i, k) = InWord(words, spec, i, k)
    <2>1. CASE k = 2
      <3>1. i \in 1 .. Len(words) + 1 /\ optind = i /\ curr_arg = NULL
        BY <2>1 DEF Place
      <3>2. /\ i \in 1 .. Len(words) /\ C!HoldsOptions(w) /\ Arg(argv, optind) = w /\ w # DashDash
        BY <1>1, <1>2, <3>1, AtOptionsIs
      <3>3. w \in Seq(CharsOf(words)) /\ Len(w) \in Nat \ {0}
        BY <1>1, <3>2, WordIs
      <3>4. Len(w) > 2 /\ ~C!EndsOptions(w)
        <4>1. ~C!EndsOptions(w)
          BY <1>1, <3>2, DashDashIs
        <4> QED BY <3>2, <4>1 DEF C!HoldsOptions
      <3>5. word = SubSeq(w, 2, Len(w)) /\ ind = i + 1
        <4>1. w # <<>>
          <5> HIDE DEF w
          <5>1. Len(w) # 0
            BY <3>3
          <5> QED BY <5>1, EmptySeq
        <4>2. Tail(w) = SubSeq(w, 2, Len(w))
          <5> HIDE DEF w
          <5> QED BY <3>3, <4>1, TailIsSubSeq
        <4> QED BY <3>1, <3>2, <4>2 DEF word, ind
      <3>6. From(words, spec)[i] = C!FromWord(From(words, spec), words, spec, i)
        BY <1>1, <3>1, FromIs
      <3>7. ~(i > Len(words))
        BY <1>1, <3>2
      <3>8. Rest(words, spec, i, k) = InWord(words, spec, i, k)
        BY <2>1, <3>2, <3>4, <3>6, <3>7 DEF Rest, InWord, C!FromWord
      <3> QED BY <2>1, <3>2, <3>3, <3>4, <3>5, <3>8
    <2>2. CASE k # 2
      <3>1. /\ i \in 1 .. Len(words) /\ k \in 3 .. Len(w) - 1 /\ optind = i + 1
            /\ curr_arg = SubSeq(w, k, Len(w))
        BY <2>2 DEF Place
      <3>2. w \in Seq(CharsOf(words)) /\ Len(w) \in Nat
        BY <1>1, <3>1, WordIs
      <3>3. k \in 2 .. Len(w) - 1 /\ k \in 1 .. Len(w) /\ Len(w) \in k .. Len(w) /\ k <= Len(w)
        BY <3>1, <3>2
      <3>4. curr_arg # NULL
        <4> HIDE DEF w
        <4> QED BY <3>1, <3>2, <3>3, LeftOfWord
      <3> QED BY <2>2, <3>1, <3>3, <3>4 DEF word, ind, Rest
    <2> QED BY <2>1, <2>2
  <1>4. Head(word) = w[k] /\ Tail(word) = SubSeq(w, k + 1, Len(w))
    <2>1. w \in Seq(CharsOf(words)) /\ Len(w) \in Nat
      BY <1>1, <1>3, WordIs
    <2> HIDE DEF w
    <2>2. k \in 1 .. Len(w)
      BY <1>3, <2>1
    <2> QED BY <1>3, <2>1, <2>2, LeftOfWord
  <1>5. optopt' = w[k] /\ Chosen(argv, spec, w[k], SubSeq(w, k + 1, Len(w)), i + 1)
    BY <1>2, <1>3, <1>4
  <1> QED BY <1>2, <1>3, <1>5 DEF TakesAt

LEMMA RestEnds ==
    ASSUME NEW words, AllWords(words), NEW i \in 1 .. Len(words), NEW k \in 2 .. Len(words[i]) - 1
    PROVE  SubSeq(words[i], k + 1, Len(words[i])) = <<End>> <=> k + 1 = Len(words[i])
  <1> DEFINE w == words[i]
             r == SubSeq(w, k + 1, Len(w))
  <1>1. /\ w \in Seq(CharsOf(words)) /\ Len(w) \in Nat
        /\ \A j \in 1 .. Len(w) : w[j] \in CharsOf(words) /\ (w[j] = End <=> j = Len(w))
    BY WordIs
  <1> HIDE DEF w
  <1>2. k \in Int /\ k + 1 \in 1 .. Len(w) /\ Len(w) \in Int /\ k >= 2
    BY <1>1 DEF w
  <1>3. \A j \in k + 1 .. Len(w) : w[j] \in CharsOf(words)
    BY <1>1, <1>2
  <1>4. /\ r \in Seq(CharsOf(words)) /\ Len(r) = (IF k + 1 <= Len(w) THEN Len(w) - (k + 1) + 1 ELSE 0)
        /\ \A j \in 1 .. Len(w) - (k + 1) + 1 : r[j] = w[k + 1 + j - 1]
    BY <1>2, <1>3, SubSeqProperties
  <1>5. r \in Seq(CharsOf(words)) /\ Len(r) = Len(w) - k /\ (k + 1 = Len(w) => r[1] = w[Len(w)])
    BY <1>2, <1>4
  <1> HIDE DEF r
  <1>6. ASSUME k + 1 = Len(w) PROVE r = <<End>>
    <2>1. Len(r) = 1 /\ r[1] = End /\ End \in CharsOf(words)
      BY <1>1, <1>2, <1>5, <1>6
    <2>2. <<End>> \in Seq(CharsOf(words)) /\ Len(<<End>>) = 1 /\ <<End>>[1] = End
      BY <2>1
    <2>3. \A j \in 1 .. Len(r) : r[j] = <<End>>[j]
      BY <2>1, <2>2
    <2> QED BY <1>5, <2>1, <2>2, <2>3, SeqEqual
  <1>7. ASSUME r = <<End>> PROVE k + 1 = Len(w)
    <2>1. Len(w) - k = 1
      <3>1. Len(r) = 1
        BY <1>7
      <3> QED BY <1>5, <3>1
    <2> QED BY <1>2, <2>1
  <1> QED BY <1>6, <1>7 DEF r, w

\* What a call has found, and what it said of that.
Got == [ret |-> retval', opt |-> optopt', arg |-> optarg']
Warned(spec) ==
    /\ complaints' \in Seq(Range(complaints'))
    /\ Len(complaints') = Len(complaints) + (IF retval' = "?" /\ opterr /\ spec[1] # ":" THEN 1 ELSE 0)

LEMMA Complains ==
    ASSUME NEW spec, NEW what, Complain(spec, what), complaints \in Seq(Range(complaints)),
           retval' = "?" \/ spec[1] = ":"
    PROVE  Warned(spec)
  <1>1. Len(complaints) \in Nat
    OBVIOUS
  <1>2. CASE spec[1] # ":" /\ opterr
    <2>1. complaints' = Append(complaints, what)
      BY <1>2 DEF Complain
    <2>2. complaints' \in Seq(Range(complaints')) /\ Len(complaints') = Len(complaints) + 1
      BY <2>1, OneMore
    <2> QED BY <1>2, <2>2 DEF Warned
  <1>3. CASE ~(spec[1] # ":" /\ opterr)
    <2>1. complaints' = complaints
      BY <1>3 DEF Complain
    <2> QED BY <1>1, <1>3, <2>1 DEF Warned
  <1> QED BY <1>2, <1>3

LEMMA OptionFinds ==
    ASSUME NEW argv, AreWords(argv), NEW spec, IsSpec(spec), NEW i, NEW k,
           Place(Tail(argv), optind, curr_arg, i, k), Option(argv, spec),
           NEW words, words = Tail(argv), complaints \in Seq(Range(complaints))
    PROVE  /\ Finds(words, spec, i, k, Got, optind', curr_arg')
           /\ Rest(words, spec, i, k) = InWord(words, spec, i, k)
           /\ retval' # STOP /\ Warned(spec) /\ UNCHANGED opterr
  <1> DEFINE w    == words[i]
             c    == w[k]
             rest == SubSeq(w, k + 1, Len(w))
  <1>1. AllWords(words) /\ Len(words) = Len(argv) - 1 /\ \A j \in 1 .. Len(argv) - 1 : words[j] = argv[j + 1]
    BY OperandsOf
  <1>2. /\ i \in 1 .. Len(words) /\ k \in 2 .. Len(w) - 1 /\ optopt' = c /\ UNCHANGED opterr
        /\ Chosen(argv, spec, c, rest, i + 1) /\ Rest(words, spec, i, k) = InWord(words, spec, i, k)
    <2>1. TakesAt(argv, spec, words, i, k)
      BY OptionAt
    <2> QED BY <2>1 DEF TakesAt
  <1>3. /\ Len(w) \in Nat /\ Len(words) \in Nat /\ c \in CharsOf(words) /\ c # End /\ c # STOP
    <2>1. /\ Len(w) \in Nat
          /\ \A j \in 1 .. Len(w) : /\ w[j] \in CharsOf(words) /\ w[j] # STOP
                                    /\ (w[j] = End <=> j = Len(w))
      <3>1. AllWords(words) /\ i \in 1 .. Len(words)
        BY <1>1, <1>2
      <3> QED BY <3>1, WordIs
    <2>2. k \in 1 .. Len(w) /\ k # Len(w)
      BY <1>2, <2>1
    <2> HIDE DEF w
    <2> QED BY <1>1, <2>1, <2>2 DEF AllWords
  <1>4. rest = <<End>> <=> k + 1 = Len(w)
    BY <1>1, <1>2, RestEnds
  <1>5. C!WantsArg(spec, c) <=> Known(spec, c) /\ TakesArg(spec, c)
    BY <1>3, TakesArgIs
  <1>6. Known(spec, c) <=> c \in Range(spec)
    BY <1>3 DEF Known
  <1>7. "?" \notin Range(spec)
    BY DEF IsSpec
  <1>8. C!Letter(spec, c) = [ret |-> IF c \in Range(spec) THEN c ELSE "?", opt |-> c, arg |-> <<>>]
    BY <1>3, LetterIs
  <1>9. ASSUME ~C!WantsArg(spec, c)
        PROVE  Finds(words, spec, i, k, C!Letter(spec, c), i + 1, Left(rest))
    <2>1. Left(rest) = IF k + 1 = Len(w) THEN NULL ELSE rest
      BY <1>4 DEF Left
    <2> QED BY <1>1, <1>2, <1>9, <2>1, LetterFound
  <1>10. ASSUME C!WantsArg(spec, c), NEW item, C!LastOption(words, spec, i, k) = <<item>>
         PROVE  Finds(words, spec, i, k, item, i + C!Takes(words, i, k), NULL)
    BY <1>1, <1>2, <1>10, ArgFound
  <1>11. /\ C!LastOption(words, spec, i, k) =
              IF k + 1 < Len(w) THEN <<C!Found(c, c, rest)>>
              ELSE IF i < Len(words) THEN <<C!Found(c, c, words[i + 1])>>
              ELSE <<C!Found(IF spec[1] = ":" THEN ":" ELSE "?", c, <<>>)>>
         /\ C!Takes(words, i, k) = IF k + 1 = Len(w) /\ i < Len(words) THEN 2 ELSE 1
    <2>1. k # Len(w)
      BY <1>2, <1>3
    <2> QED BY <2>1 DEF C!LastOption, C!Takes
  <1>12. \A r, a : retval' = r /\ optarg' = a => Got = C!Found(r, c, a)
    BY <1>2 DEF Got, C!Found
  <1>13. k + 1 <= Len(w) /\ i \in Nat
    BY <1>2, <1>3
  <1>14. UNCHANGED complaints /\ retval' # "?" => Warned(spec)
    <2>1. Len(complaints) \in Nat
      OBVIOUS
    <2> QED BY <2>1 DEF Warned
  <1> HIDE DEF w, rest
  <1>15. CASE Unknown(spec, c, rest, i + 1)
    <2>1. /\ c \notin Range(spec) /\ retval' = "?" /\ optarg' = <<>> /\ curr_arg' = Left(rest) /\ optind' = i + 1
      BY <1>6, <1>15 DEF Unknown, NULL
    <2>2. Got = C!Letter(spec, c)
      BY <1>2, <1>8, <2>1 DEF Got
    <2>3. Warned(spec)
      BY <1>15, <2>1, Complains DEF Unknown
    <2>4. retval' # STOP
      BY <2>1 DEF STOP
    <2> QED BY <1>2, <1>5, <1>6, <1>9, <2>1, <2>2, <2>3, <2>4
  <1>16. CASE Flag(spec, c, rest, i + 1)
    <2>1. /\ c \in Range(spec) /\ ~TakesArg(spec, c) /\ retval' = c /\ optarg' = <<>>
          /\ curr_arg' = Left(rest) /\ optind' = i + 1 /\ UNCHANGED complaints
      BY <1>6, <1>16 DEF Flag, NULL
    <2>2. Got = C!Letter(spec, c)
      BY <1>2, <1>8, <2>1 DEF Got
    <2>3. Warned(spec)
      BY <1>7, <1>14, <2>1
    <2> QED BY <1>2, <1>3, <1>5, <1>9, <2>1, <2>2, <2>3
  <1>17. CASE ArgInWord(spec, c, rest, i + 1)
    <2>1. /\ c \in Range(spec) /\ TakesArg(spec, c) /\ rest # <<End>> /\ retval' = c /\ optarg' = rest
          /\ curr_arg' = NULL /\ optind' = i + 1 /\ UNCHANGED complaints
      BY <1>6, <1>17 DEF ArgInWord
    <2>2. C!LastOption(words, spec, i, k) = <<Got>> /\ C!Takes(words, i, k) = 1
      <3>1. k + 1 < Len(w) /\ k + 1 # Len(w)
        BY <1>2, <1>3, <1>4, <1>13, <2>1
      <3>2. Got = C!Found(c, c, rest)
        BY <1>12, <2>1
      <3> QED BY <1>11, <3>1, <3>2
    <2>3. Warned(spec)
      BY <1>7, <1>14, <2>1
    <2> QED BY <1>2, <1>3, <1>5, <1>6, <1>10, <2>1, <2>2, <2>3
  <1>18. CASE ArgIsWord(argv, spec, c, rest, i + 1)
    <2>1. /\ c \in Range(spec) /\ TakesArg(spec, c) /\ rest = <<End>> /\ i + 1 < Argc(argv)
          /\ retval' = c /\ optarg' = Arg(argv, i + 1)
          /\ curr_arg' = NULL /\ optind' = i + 2 /\ UNCHANGED complaints
      BY <1>6, <1>13, <1>18 DEF ArgIsWord
    <2>2. i < Len(words) /\ Arg(argv, i + 1) = words[i + 1]
      BY <1>1, <1>3, <1>13, <2>1 DEF Argc, Arg
    <2>3. C!LastOption(words, spec, i, k) = <<Got>> /\ C!Takes(words, i, k) = 2
      BY <1>3, <1>4, <1>11, <1>12, <1>13, <2>1, <2>2
    <2>4. Warned(spec)
      BY <1>7, <1>14, <2>1
    <2> QED BY <1>2, <1>3, <1>5, <1>6, <1>10, <2>1, <2>3, <2>4
  <1>19. CASE ArgMissing(argv, spec, c, rest, i + 1)
    <2>1. /\ c \in Range(spec) /\ TakesArg(spec, c) /\ rest = <<End>> /\ i + 1 >= Argc(argv)
          /\ retval' = (IF spec[1] = ":" THEN ":" ELSE "?") /\ optarg' = <<>>
          /\ curr_arg' = NULL /\ optind' = i + 1
      BY <1>6, <1>19 DEF ArgMissing, Left, NULL
    <2>2. ~(i < Len(words))
      BY <1>1, <1>3, <1>13, <2>1 DEF Argc
    <2>3. C!LastOption(words, spec, i, k) = <<Got>> /\ C!Takes(words, i, k) = 1
      BY <1>3, <1>4, <1>11, <1>12, <1>13, <2>1, <2>2
    <2>4. Warned(spec)
      BY <1>19, <2>1, Complains DEF ArgMissing
    <2>5. retval' # STOP
      BY <2>1 DEF STOP
    <2> QED BY <1>2, <1>5, <1>6, <1>10, <2>1, <2>3, <2>4, <2>5
  <1> QED BY <1>2, <1>15, <1>16, <1>17, <1>18, <1>19 DEF Chosen

-----------------------------------------------------------------------------
(***************************************************************************)
(* The invariant: the options found so far, and those that Rest has, are   *)
(* all the options; and what is wrong among them was complained of.        *)
(***************************************************************************)
FoundSoFar(words, spec, at, ind, cur, found) ==
    /\ found \in Seq(Items(words))
    /\ IF at = "options"
       THEN \E i, k \in Nat : /\ Place(words, ind, cur, i, k)
                              /\ C!Options(words, spec).found = found \o Rest(words, spec, i, k).found
                              /\ 1 + C!Options(words, spec).used = i + Rest(words, spec, i, k).used
       ELSE at = "done" /\ found = C!Options(words, spec).found /\ ind = 1 + C!Options(words, spec).used

Bad(found) == {i \in DOMAIN found : found[i].ret = "?"}
SaidSoFar(spec, loud, found, said) ==
    /\ said \in Seq(Range(said))
    /\ Len(said) = IF loud /\ spec[1] # ":" THEN Cardinality(Bad(found)) ELSE 0

AsFound == /\ OptJob(job)
           /\ FoundSoFar(Tail(job.argv), job.spec, pc, optind, curr_arg, options_found)
           /\ SaidSoFar(job.spec, opterr, options_found, complaints)
OptInv  == Runs("getopt") => AsFound

LEMMA BadMore ==
    ASSUME NEW S, NEW found \in Seq(S), NEW x \in S
    PROVE  /\ Bad(<<>>) = {} /\ Cardinality(Bad(found)) \in Nat
           /\ Cardinality(Bad(Append(found, x))) = Cardinality(Bad(found)) + (IF x.ret = "?" THEN 1 ELSE 0)
  <1> DEFINE n == Len(found)
             t == Append(found, x)
  <1>1. /\ n \in Nat /\ DOMAIN found = 1 .. n /\ DOMAIN t = 1 .. n + 1 /\ t[n + 1] = x
        /\ \A i \in 1 .. n : t[i] = found[i]
    <2>1. t \in Seq(S) /\ Len(t) = n + 1 /\ n \in Nat
      BY AppendProperties
    <2>2. DOMAIN found = 1 .. n /\ DOMAIN t = 1 .. n + 1
      BY <2>1, LenProperties
    <2> QED BY <2>1, <2>2, AppendProperties
  <1> HIDE DEF n, t
  <1>2. Bad(found) = {i \in 1 .. n : found[i].ret = "?"} /\ Bad(t) = {i \in 1 .. n + 1 : t[i].ret = "?"}
    BY <1>1 DEF Bad
  <1>3. IsFiniteSet(Bad(found)) /\ Cardinality(Bad(found)) \in Nat
    <2>1. IsFiniteSet(1 .. n)
      <3>1. 1 \in Int /\ n \in Int
        BY <1>1
      <3> QED BY <3>1, FS_Interval
    <2>2. Bad(found) \subseteq 1 .. n
      BY <1>2
    <2>3. IsFiniteSet(Bad(found))
      BY <2>1, <2>2, FS_Subset
    <2> QED BY <2>3, FS_CardinalityType
  <1>4. Bad(<<>>) = {}
    BY DEF Bad
  <1>5. CASE x.ret = "?"
    <2>1. Bad(t) = Bad(found) \cup {n + 1} /\ n + 1 \notin Bad(found)
      BY <1>1, <1>2, <1>5
    <2>2. Cardinality(Bad(t)) = Cardinality(Bad(found)) + 1
      BY <1>3, <2>1, FS_AddElement
    <2> QED BY <1>3, <1>4, <1>5, <2>2 DEF t
  <1>6. CASE x.ret # "?"
    <2>1. Bad(t) = Bad(found)
      BY <1>1, <1>2, <1>6
    <2> QED BY <1>3, <1>4, <1>6, <2>1 DEF t
  <1> QED BY <1>5, <1>6

LEMMA GetoptBegins == Init => OptInv
  <1> SUFFICES ASSUME Init, Runs("getopt") PROVE AsFound
    BY DEF OptInv
  <1> DEFINE words == Tail(job.argv)
             all   == C!Options(words, job.spec)
  <1>1. OptJob(job)
    BY JobsAssumption DEF Init, Runs
  <1>2. /\ pc = "options" /\ optind = 1 /\ curr_arg = NULL /\ options_found = <<>> /\ complaints = <<>>
    <2>1. Entry["getopt"] = "options"
      BY DEF Entry
    <2>2. FilesInit(Entry["getopt"]) /\ GetoptInit /\ options_found = <<>>
      BY DEF Init, Runs
    <2> QED BY <2>1, <2>2 DEF FilesInit, GetoptInit
  <1>3. AllWords(words) /\ Len(words) \in Nat
    BY <1>1, OperandsOf DEF OptJob, AllWords
  <1>4. all = From(words, job.spec)[1] /\ Listed(all, words)
    <2>1. 1 \in 1 .. Len(words) + 1
      BY <1>3
    <2> QED BY <1>3, <2>1, OptionsAre, FromTyped
  <1>5. Place(words, optind, curr_arg, 1, 2) /\ Rest(words, job.spec, 1, 2) = all
    BY <1>2, <1>3, <1>4 DEF Place, Rest
  <1>6. FoundSoFar(words, job.spec, pc, optind, curr_arg, options_found)
    <2> HIDE DEF words, all
    <2>1. all.found = <<>> \o all.found /\ <<>> \in Seq(Items(words))
      BY <1>4, ConcatEmptySeq, EmptySeq DEF Listed
    <2>2. 1 \in Nat /\ 2 \in Nat
      OBVIOUS
    <2>3. \E i, k \in Nat : /\ Place(words, optind, curr_arg, i, k)
                            /\ all.found = <<>> \o Rest(words, job.spec, i, k).found
                            /\ 1 + all.used = i + Rest(words, job.spec, i, k).used
      BY <1>5, <2>1, <2>2
    <2> QED BY <1>2, <2>1, <2>3 DEF FoundSoFar, all
  <1>7. SaidSoFar(job.spec, opterr, options_found, complaints)
    <2>1. Bad(<<>>) = {}
      BY DEF Bad
    <2>2. Cardinality(Bad(<<>>)) = 0
      BY <2>1, FS_EmptySet
    <2>3. <<>> \in Seq(Range(<<>>)) /\ Len(<<>>) = 0
      BY EmptySeq
    <2> QED BY <1>2, <2>2, <2>3 DEF SaidSoFar
  <1> QED BY <1>1, <1>6, <1>7 DEF AsFound

LEMMA SilenceStep ==
    ASSUME AsFound, Silence PROVE AsFound'
  <1>1. /\ UNCHANGED <<job, pc, optind, curr_arg, options_found, complaints>> /\ opterr' = FALSE
        /\ options_found = <<>>
    BY DEF Silence, files_vars
  <1>2. complaints \in Seq(Range(complaints)) /\ Len(complaints) = 0
    <2>1. Bad(<<>>) = {}
      BY DEF Bad
    <2>2. Cardinality(Bad(<<>>)) = 0
      BY <2>1, FS_EmptySet
    <2> QED BY <1>1, <2>2 DEF AsFound, SaidSoFar
  <1>3. SaidSoFar(job.spec, FALSE, options_found, complaints)
    BY <1>2 DEF SaidSoFar
  <1>4. SaidSoFar(job.spec, opterr, options_found, complaints)'
    BY <1>1, <1>3
  <1> QED BY <1>1, <1>4 DEF AsFound

LEMMA FindStep ==
    ASSUME AsFound, FindOption PROVE AsFound'
  <1> DEFINE words == Tail(job.argv)
             spec  == job.spec
             all   == C!Options(words, spec)
  <1>1. /\ pc = "options" /\ getopt(job.argv, spec) /\ job' = job
        /\ \/ retval' = STOP /\ pc' = "done" /\ options_found' = options_found
           \/ retval' # STOP /\ pc' = pc /\ options_found' = Append(options_found, Got)
    BY DEF FindOption, Got, Goto
  <1>2. AreWords(job.argv) /\ IsSpec(spec)
    BY DEF AsFound, OptJob
  <1>3. /\ options_found \in Seq(Items(words)) /\ complaints \in Seq(Range(complaints))
        /\ Len(complaints) = IF opterr /\ spec[1] # ":" THEN Cardinality(Bad(options_found)) ELSE 0
    BY DEF AsFound, FoundSoFar, SaidSoFar
  <1>4. PICK i \in Nat, k \in Nat : /\ Place(words, optind, curr_arg, i, k)
                                    /\ all.found = options_found \o Rest(words, spec, i, k).found
                                    /\ 1 + all.used = i + Rest(words, spec, i, k).used
    <2>1. FoundSoFar(words, spec, pc, optind, curr_arg, options_found)
      BY DEF AsFound
    <2> QED BY <1>1, <2>1 DEF FoundSoFar
  <1>5. AllWords(words)
    BY <1>2, OperandsOf
  <1>6. CASE Stop(job.argv)
    <2>1. /\ Rest(words, spec, i, k).found = <<>>
          /\ optind' = i + Rest(words, spec, i, k).used
          /\ retval' = STOP /\ UNCHANGED <<opterr, complaints>>
      BY <1>2, <1>4, <1>6, StopsAt
    <2>2. pc' = "done" /\ options_found' = options_found
      BY <1>1, <2>1
    <2>3. all.found = options_found /\ optind' = 1 + all.used
      <3> HIDE DEF words, spec, all
      <3>1. options_found \o <<>> = options_found
        BY <1>3, ConcatEmptySeq
      <3> QED BY <1>4, <2>1, <3>1
    <2>4. FoundSoFar(words, spec, "done", optind', curr_arg', options_found)
      BY <1>3, <2>3 DEF FoundSoFar
    <2>5. SaidSoFar(spec, opterr, options_found, complaints)
      BY <1>3 DEF SaidSoFar
    <2> QED BY <1>1, <1>2, <2>1, <2>2, <2>4, <2>5 DEF AsFound, OptJob
  <1>7. CASE Option(job.argv, spec)
    <2>1. /\ Finds(words, spec, i, k, Got, optind', curr_arg')
          /\ Rest(words, spec, i, k) = InWord(words, spec, i, k)
          /\ retval' # STOP /\ Warned(spec) /\ UNCHANGED opterr
      BY <1>2, <1>3, <1>4, <1>7, OptionFinds
    <2>2. PICK i2 \in Nat, k2 \in Nat :
             /\ Place(words, optind', curr_arg', i2, k2) /\ Got \in Items(words)
             /\ InWord(words, spec, i, k).found = <<Got>> \o Rest(words, spec, i2, k2).found
             /\ i + InWord(words, spec, i, k).used = i2 + Rest(words, spec, i2, k2).used
      BY <2>1 DEF Finds
    <2>3. pc' = "options" /\ options_found' = Append(options_found, Got)
      BY <1>1, <2>1
    <2>4. Rest(words, spec, i2, k2).found \in Seq(Items(words))
      BY <1>5, <2>2, RestIn DEF Listed
    <2> HIDE DEF words, spec, all
    <2>5. /\ Append(options_found, Got) \in Seq(Items(words))
          /\ all.found = Append(options_found, Got) \o Rest(words, spec, i2, k2).found
      <3>1. <<Got>> \in Seq(Items(words))
        BY <2>2
      <3>2. Append(options_found, Got) = options_found \o <<Got>>
        BY <1>3, <2>2, AppendIsConcat
      <3>3. (options_found \o <<Got>>) \o Rest(words, spec, i2, k2).found
              = options_found \o (<<Got>> \o Rest(words, spec, i2, k2).found)
        <4> DEFINE S == Items(words)
                   r == Rest(words, spec, i2, k2).found
                   x == <<Got>>
        <4>1. options_found \in Seq(S) /\ x \in Seq(S) /\ r \in Seq(S)
          BY <1>3, <2>4, <3>1
        <4> HIDE DEF S, r, x
        <4>2. (options_found \o x) \o r = options_found \o (x \o r)
          BY <4>1, ConcatAssociative
        <4> QED BY <4>2 DEF r, x
      <3>4. Append(options_found, Got) \in Seq(Items(words))
        BY <1>3, <2>2, AppendProperties
      <3> QED BY <1>4, <2>1, <2>2, <3>2, <3>3, <3>4
    <2>6. 1 + all.used = i2 + Rest(words, spec, i2, k2).used
      BY <1>4, <2>1, <2>2
    <2>7. FoundSoFar(words, spec, "options", optind', curr_arg', Append(options_found, Got))
      BY <2>2, <2>5, <2>6 DEF FoundSoFar, all
    <2>8. SaidSoFar(spec, opterr, Append(options_found, Got), complaints')
      <3>1. Got.ret = retval'
        BY DEF Got
      <3>2. /\ Cardinality(Bad(options_found)) \in Nat
            /\ Cardinality(Bad(Append(options_found, Got))) =
                 Cardinality(Bad(options_found)) + (IF retval' = "?" THEN 1 ELSE 0)
        BY <1>3, <2>2, <3>1, BadMore
      <3>3. /\ complaints' \in Seq(Range(complaints'))
            /\ Len(complaints') = Len(complaints) + (IF retval' = "?" /\ opterr /\ spec[1] # ":" THEN 1 ELSE 0)
        BY <2>1 DEF Warned
      <3>4. CASE opterr /\ spec[1] # ":"
        <4>1. Len(complaints') = Len(complaints) + (IF retval' = "?" THEN 1 ELSE 0)
          BY <3>3, <3>4
        <4>2. Len(complaints') = Cardinality(Bad(Append(options_found, Got)))
          BY <1>3, <3>2, <3>4, <4>1
        <4> QED BY <3>3, <3>4, <4>2 DEF SaidSoFar
      <3>5. CASE ~(opterr /\ spec[1] # ":")
        <4>1. Len(complaints') = 0
          BY <1>3, <3>3, <3>5
        <4> QED BY <3>3, <3>5, <4>1 DEF SaidSoFar
      <3> QED BY <3>4, <3>5
    <2> QED BY <1>1, <1>2, <2>1, <2>3, <2>7, <2>8 DEF AsFound, OptJob, words, spec
  <1> QED BY <1>1, <1>6, <1>7 DEF getopt

LEMMA GetoptGoesOn == OptInv /\ [Next]_vars => OptInv'
  <1> SUFFICES ASSUME OptInv, [Next]_vars PROVE OptInv'
    OBVIOUS
  <1>1. job' = job
    BY DEF vars, Next, Convert, Silence, FindOption, Format, Hexdump, Wc, Cat
  <1>2. CASE ~Runs("getopt")
    BY <1>1, <1>2 DEF OptInv, Runs
  <1>3. CASE Runs("getopt")
    <2>1. AsFound
      BY <1>3 DEF OptInv
    <2>2. CASE Next
      <3>1. Silence \/ FindOption
        BY <1>3, <2>2 DEF Next, Convert, Format, Hexdump, Wc, Cat, Runs
      <3>2. AsFound'
        BY <2>1, <3>1, SilenceStep, FindStep
      <3> QED BY <3>2 DEF OptInv
    <2>3. CASE UNCHANGED vars
      <3>1. UNCHANGED <<job, pc, optind, curr_arg, options_found, opterr, complaints>>
        BY <2>3 DEF vars, files_vars, getopt_vars
      <3>2. AsFound'
        BY <2>1, <3>1 DEF AsFound
      <3> QED BY <3>2 DEF OptInv
    <2> QED BY <2>2, <2>3
  <1> QED BY <1>2, <1>3

LEMMA OptInvFinds == OptInv => OptionsAsPosix
  <1> SUFFICES ASSUME OptInv, Done("getopt") PROVE
         /\ options_found = C!Options(Tail(job.argv), job.spec).found
         /\ optind = 1 + C!Options(Tail(job.argv), job.spec).used
         /\ Len(complaints) = IF opterr /\ job.spec[1] # ":" THEN Cardinality(Bad(options_found)) ELSE 0
    BY DEF OptionsAsPosix, Bad
  <1>1. AsFound /\ pc = "done"
    BY DEF OptInv, Done
  <1> QED BY <1>1 DEF AsFound, FoundSoFar, SaidSoFar

\* The calls of getopt find the options of C!Options, one after another, stop
\* where it does and complain of what is wrong: for any words and any options.
THEOREM GetoptIsRight == Spec => []OptionsAsPosix
  <1> QED BY GetoptBegins, GetoptGoesOn, OptInvFinds, PTL DEF Spec

-----------------------------------------------------------------------------
(***************************************************************************)
(* Digits.                                                                 *)
(***************************************************************************)
DigitSet == DOMAIN DigitOf

LEMMA DigitsAre ==
    /\ \A c \in DigitSet : DigitOf[c] \in 0 .. 35 /\ DigitOf[c] \in Nat
    /\ "0" \in DigitSet /\ DigitOf["0"] = 0
    /\ \A c \in {"x", "X"} : c \in DigitSet => DigitOf[c] >= 16
    /\ NUL \notin DigitSet
  <1> DEFINE Is(c, i) == c \in {Lower[i], Upper[i]}
             At(c)    == CHOOSE i \in 1 .. 36 : Is(c, i)
  <1>1. DigitSet = {Lower[i] : i \in 1 .. 36} \cup {Upper[i] : i \in 1 .. 36}
    BY DEF DigitSet, DigitOf
  <1>2. \A c \in DigitSet : DigitOf[c] = At(c) - 1
    BY DEF DigitSet, DigitOf
  <1>3. \A c \in DigitSet : At(c) \in 1 .. 36 /\ Is(c, At(c))
    BY <1>1
  <1>4. \A i \in 1 .. 36 : Is("0", i) => i = 1
    <2> SUFFICES ASSUME NEW i \in 1 .. 36, i # 1 PROVE ~Is("0", i)
      OBVIOUS
    <2> QED BY DEF Lower, Upper
  <1>5. \A i \in 1 .. 16 : ~Is("x", i) /\ ~Is("X", i)
    BY DEF Lower, Upper
  <1>6. \A i \in 1 .. 36 : ~Is(NUL, i)
    BY DEF Lower, Upper, NUL
  <1>7. "0" \in DigitSet
    <2>1. Lower[1] = "0" /\ 1 \in 1 .. 36
      BY DEF Lower
    <2> QED BY <1>1, <2>1
  <1> HIDE DEF Is, At
  <1>8. \A c \in DigitSet : DigitOf[c] \in 0 .. 35 /\ DigitOf[c] \in Nat
    BY <1>2, <1>3
  <1>9. DigitOf["0"] = 0
    BY <1>2, <1>3, <1>4, <1>7
  <1>10. \A c \in {"x", "X"} : c \in DigitSet => DigitOf[c] >= 16
    BY <1>2, <1>3, <1>5
  <1>11. NUL \notin DigitSet
    BY <1>3, <1>6
  <1> QED BY <1>7, <1>8, <1>9, <1>10, <1>11

LEMMA IsDigitIs ==
    ASSUME NEW base \in 2 .. 36, NEW c
    PROVE  /\ IsDigit(base, c) <=> (c \in DigitSet /\ DigitOf[c] < base)
           /\ IsDigit(base, c) => digit_to_int_in(base, c) = DigitOf[c] /\ DigitOf[c] \in 0 .. base - 1
  BY DigitsAre DEF IsDigit, digit_to_int_in, DigitSet

\* A recursive function exists whose every value is a step from the one before.
Chain(f, V, b, step, n) == /\ f \in [0 .. n -> V] /\ f[0] = b
                           /\ \A i \in 1 .. n : f[i] = step[<<f[i - 1], i>>]

LEMMA ChainExists ==
    ASSUME NEW V, NEW b \in V, NEW step \in [V \X Nat -> V]
    PROVE  \A n \in Nat : \E f : Chain(f, V, b, step, n)
  <1> DEFINE Good(f, n) == Chain(f, V, b, step, n)
             T          == {n \in Nat : \E f : Good(f, n)}
  <1>1. 0 \in T
    <2> DEFINE f == [i \in 0 .. 0 |-> b]
    <2>1. Good(f, 0)
      BY DEF Chain
    <2> HIDE DEF f, Good
    <2> QED BY <2>1
  <1>2. ASSUME NEW n \in Nat, n \in T PROVE n + 1 \in T
    <2>1. PICK f : Good(f, n)
      BY <1>2
    <2> DEFINE x == step[<<f[n], n + 1>>]
               g == [i \in 0 .. n + 1 |-> IF i = n + 1 THEN x ELSE f[i]]
    <2>2. f[n] \in V /\ x \in V
      <3>1. n \in 0 .. n
        OBVIOUS
      <3>2. f[n] \in V /\ <<f[n], n + 1>> \in V \X Nat
        BY <2>1, <3>1 DEF Chain
      <3> QED BY <3>2
    <2> HIDE DEF x
    <2>3. \A i \in 0 .. n : g[i] = f[i]
      OBVIOUS
    <2>4. g[n + 1] = x
      OBVIOUS
    <2>5. g \in [0 .. n + 1 -> V]
      <3>1. \A i \in 0 .. n + 1 : (IF i = n + 1 THEN x ELSE f[i]) \in V
        BY <2>1, <2>2 DEF Chain
      <3> QED BY <3>1
    <2> HIDE DEF g
    <2>6. ASSUME NEW i \in 1 .. n + 1 PROVE g[i] = step[<<g[i - 1], i>>]
      <3>1. i - 1 \in 0 .. n
        OBVIOUS
      <3>2. CASE i = n + 1
        <4>1. i - 1 = n
          BY <3>2
        <4> QED BY <2>3, <2>4, <3>1, <3>2, <4>1 DEF x
      <3>3. CASE i # n + 1
        <4>1. i \in 1 .. n /\ i \in 0 .. n
          BY <3>3
        <4> QED BY <2>1, <2>3, <3>1, <4>1 DEF Chain
      <3> QED BY <3>2, <3>3
    <2>7. g[0] = b
      <3>1. 0 \in 0 .. n
        OBVIOUS
      <3> QED BY <2>1, <2>3, <3>1 DEF Chain
    <2>8. Good(g, n + 1)
      BY <2>5, <2>6, <2>7 DEF Chain
    <2> HIDE DEF Good
    <2> QED BY <2>8
  <1> HIDE DEF T
  <1>3. \A n \in Nat : n \in T
    BY <1>1, <1>2, Induct
  <1> QED BY <1>3 DEF T

-----------------------------------------------------------------------------
(***************************************************************************)
(* Of the value of a numeral: that it exists, and that the loop of         *)
(* try_parse has it, or has seen that it does not fit.                     *)
(***************************************************************************)
DigitsBelow(b) == {c \in DigitSet : DigitOf[c] < b}

ValueOf(f, t, b) == f = [k \in 0 .. Len(t) |-> IF k = 0 THEN 0 ELSE f[k - 1] * b + DigitOf[t[k]]]
Value(t, b)      == CHOOSE f : ValueOf(f, t, b)

ReadOf(f, t, b) == f = [k \in 0 .. Len(t) |-> IF k = 0 THEN [n |-> 0, fits |-> TRUE]
                                              ELSE Digit(f[k - 1], digit_to_int_in(b, t[k]), b)]
Read(t, b)      == CHOOSE f : ReadOf(f, t, b)

\* Horner's rule, digit by digit
ValueRuns(t, b, n) == /\ Value(t, b) \in [0 .. n -> Nat] /\ Value(t, b)[0] = 0
                      /\ \A k \in 1 .. n : Value(t, b)[k] = Value(t, b)[k - 1] * b + DigitOf[t[k]]
                      /\ C!Positional(t, b) = Value(t, b)[n]

LEMMA ValueIs ==
    ASSUME NEW b \in 2 .. 36, NEW t \in Seq(DigitsBelow(b))
    PROVE  ValueRuns(t, b, Len(t))
  <1> SUFFICES ASSUME NEW n \in Nat, n = Len(t) PROVE ValueRuns(t, b, n)
    OBVIOUS
  <1> DEFINE d(k) == IF k \in 1 .. n THEN DigitOf[t[k]] ELSE 0
             step == [p \in Nat \X Nat |-> p[1] * b + d(p[2])]
  <1>1. \A k \in 1 .. n : t[k] \in DigitsBelow(b) /\ DigitOf[t[k]] \in Nat
    <2>1. \A k \in 1 .. n : t[k] \in DigitsBelow(b)
      OBVIOUS
    <2>2. \A c \in DigitsBelow(b) : DigitOf[c] \in Nat
      BY DigitsAre DEF DigitsBelow
    <2> QED BY <2>1, <2>2
  <1>2. \A k \in Nat : d(k) \in Nat
    BY <1>1
  <1> HIDE DEF d
  <1>3. step \in [Nat \X Nat -> Nat]
    <2>1. ASSUME NEW v \in Nat, NEW k \in Nat PROVE v * b + d(k) \in Nat
      <3>1. v * b \in Nat /\ d(k) \in Nat
        BY <1>2, SMTT(30)
      <3> QED BY <3>1
    <2>2. \A p \in Nat \X Nat : p[1] * b + d(p[2]) \in Nat
      BY <2>1
    <2> QED BY <2>2
  <1>4. \A v, k \in Nat : step[<<v, k>>] = v * b + d(k)
    OBVIOUS
  <1> HIDE DEF step
  <1>5. PICK f : f \in [0 .. n -> Nat] /\ f[0] = 0 /\ \A k \in 1 .. n : f[k] = step[<<f[k - 1], k>>]
    <2>1. 0 \in Nat
      OBVIOUS
    <2>2. \E f : Chain(f, Nat, 0, step, n)
      BY <1>3, <2>1, ChainExists
    <2> QED BY <2>2 DEF Chain
  <1>6. \A k \in 1 .. n : f[k] = f[k - 1] * b + DigitOf[t[k]]
    <2> SUFFICES ASSUME NEW k \in 1 .. n PROVE f[k] = f[k - 1] * b + DigitOf[t[k]]
      OBVIOUS
    <2>1. f[k - 1] \in Nat /\ k \in Nat
      BY <1>5
    <2> QED BY <1>4, <1>5, <2>1 DEF d
  <1>7. ValueOf(f, t, b)
    <2>1. \A k \in 0 .. n : f[k] = IF k = 0 THEN 0 ELSE f[k - 1] * b + DigitOf[t[k]]
      BY <1>5, <1>6
    <2>2. f = [k \in 0 .. n |-> f[k]]
      BY <1>5
    <2>3. [k \in 0 .. n |-> f[k]] = [k \in 0 .. n |-> IF k = 0 THEN 0 ELSE f[k - 1] * b + DigitOf[t[k]]]
      BY <2>1
    <2> QED BY <2>2, <2>3 DEF ValueOf
  <1>8. ValueOf(Value(t, b), t, b)
    BY <1>7 DEF Value
  <1> DEFINE v == Value(t, b)
  <1>9. /\ DOMAIN v = 0 .. n /\ v = [k \in 0 .. n |-> v[k]]
        /\ v[0] = 0 /\ \A k \in 1 .. n : v[k] = v[k - 1] * b + DigitOf[t[k]]
    <2> HIDE DEF v
    <2>1. v = [k \in 0 .. n |-> IF k = 0 THEN 0 ELSE v[k - 1] * b + DigitOf[t[k]]]
      BY <1>8 DEF ValueOf, v
    <2>2. DOMAIN v = 0 .. n /\ \A k \in 0 .. n : v[k] = IF k = 0 THEN 0 ELSE v[k - 1] * b + DigitOf[t[k]]
      BY <2>1
    <2>3. v = [k \in 0 .. n |-> v[k]]
      BY <2>1, <2>2
    <2> QED BY <2>2, <2>3
  <1>10. \A k \in Nat : k \in 0 .. n => v[k] \in Nat
    <2> DEFINE T == {k \in Nat : k \in 0 .. n => v[k] \in Nat}
    <2> HIDE DEF v
    <2>1. 0 \in T
      BY <1>9
    <2>2. ASSUME NEW k \in Nat, k \in T PROVE k + 1 \in T
      <3> SUFFICES ASSUME k + 1 \in 0 .. n PROVE v[k + 1] \in Nat
        OBVIOUS
      <3>1. v[k] \in Nat /\ k + 1 \in 1 .. n /\ k + 1 - 1 = k
        BY <2>2
      <3>2. v[k + 1] = v[k] * b + DigitOf[t[k + 1]]
        <4>1. \A j \in 1 .. n : j - 1 = k => v[j] = v[k] * b + DigitOf[t[j]]
          BY <1>9
        <4> QED BY <3>1, <4>1
      <3> QED BY <1>1, <3>1, <3>2
    <2> HIDE DEF T
    <2>3. \A k \in Nat : k \in T
      BY <2>1, <2>2, Induct
    <2> QED BY <2>3 DEF T
  <1>11. C!Positional(t, b) = v[n]
    BY DEF C!Positional, Value, ValueOf
  <1> HIDE DEF v
  <1>12. v \in [0 .. n -> Nat]
    BY <1>9, <1>10
  <1> QED BY <1>9, <1>11, <1>12 DEF v, ValueRuns

\* A digit more, and the division that foresees whether it fits
LEMMA DivisionFits ==
    ASSUME NEW b \in Nat \ {0}, NEW x \in Int, NEW a \in Nat
    PROVE  a > x \div b <=> a * b > x
  <1> DEFINE q == x \div b
             m == x % b
  <1>1. q \in Int /\ m \in 0 .. b - 1 /\ x = b * q + m
    OBVIOUS
  <1> HIDE DEF q, m
  <1>2. ASSUME NEW y \in Int, NEW z \in Int, y <= z PROVE y * b <= z * b
    <2>1. (z - y) \in Nat /\ (z - y) * b \in Nat
      BY <1>2
    <2>2. (z - y) * b = z * b - y * b
      OBVIOUS
    <2> QED BY <2>1, <2>2
  <1>3. CASE a > q
    <2>1. (q + 1) * b <= a * b
      BY <1>1, <1>2, <1>3
    <2>2. (q + 1) * b = b * q + b
      BY <1>1
    <2>3. a * b > x
      BY <1>1, <2>1, <2>2
    <2> QED BY <1>3, <2>3 DEF q
  <1>4. CASE a <= q
    <2>1. a * b <= q * b
      BY <1>1, <1>2, <1>4
    <2>2. q * b = b * q
      BY <1>1
    <2>3. ~(a * b > x)
      BY <1>1, <2>1, <2>2
    <2> QED BY <1>1, <1>4, <2>3 DEF q
  <1> QED BY <1>1, <1>3, <1>4

\* What has been read so far, and the value of it
HasRead(r, v) == /\ r = [n |-> r.n, fits |-> r.fits] /\ r.fits \in BOOLEAN
                 /\ v \in Nat /\ (r.fits <=> v <= ULONG_MAX) /\ (r.fits => r.n = v)

LEMMA MaximumIs == ULONG_MAX \in Nat /\ ULONG_MAX + 1 = 2 ^ LONG_BITS
  BY WidthsAssumption, PowersAssumption DEF ULONG_MAX

LEMMA DigitReads ==
    ASSUME NEW b \in 2 .. 36, NEW d \in 0 .. b - 1, NEW r, NEW v, HasRead(r, v)
    PROVE  HasRead(Digit(r, d, b), v * b + d)
  <1>1. v \in Nat /\ v * b \in Nat /\ v * b + d \in Nat /\ v * b >= v
    <2>1. v \in Nat /\ b - 1 \in Nat /\ v * (b - 1) \in Nat /\ v * b = v * (b - 1) + v
      BY DEF HasRead
    <2> QED BY <2>1
  <1>2. ULONG_MAX \in Nat
    BY MaximumIs
  <1>3. CASE ~r.fits
    <2>1. Digit(r, d, b) = [n |-> r.n, fits |-> FALSE]
      BY <1>3 DEF Digit, HasRead
    <2>2. ~(v * b + d <= ULONG_MAX)
      BY <1>1, <1>2, <1>3 DEF HasRead
    <2> QED BY <1>1, <2>1, <2>2 DEF HasRead
  <1>4. CASE r.fits
    <2>1. r.n = v
      BY <1>4 DEF HasRead
    <2>2. v > (ULONG_MAX - d) \div b <=> v * b + d > ULONG_MAX
      <3>1. v > (ULONG_MAX - d) \div b <=> v * b > ULONG_MAX - d
        <4>1. ULONG_MAX - d \in Int /\ b \in Nat \ {0}
          BY <1>2
        <4> QED BY <1>1, <4>1, DivisionFits
      <3> QED BY <1>1, <1>2, <3>1
    <2>3. CASE v > (ULONG_MAX - d) \div b
      <3>1. Digit(r, d, b) = [n |-> r.n, fits |-> FALSE]
        BY <2>1, <2>3 DEF Digit, HasRead
      <3>2. ~(v * b + d <= ULONG_MAX)
        BY <1>1, <1>2, <2>2, <2>3
      <3> QED BY <1>1, <3>1, <3>2 DEF HasRead
    <2>4. CASE ~(v > (ULONG_MAX - d) \div b)
      <3>1. Digit(r, d, b) = [n |-> v * b + d, fits |-> TRUE]
        BY <1>4, <2>1, <2>4 DEF Digit, HasRead
      <3>2. v * b + d <= ULONG_MAX
        BY <1>1, <1>2, <2>2, <2>4
      <3> QED BY <1>1, <3>1, <3>2 DEF HasRead
    <2> QED BY <2>3, <2>4
  <1>5. r.fits \in BOOLEAN
    BY DEF HasRead
  <1> QED BY <1>3, <1>4, <1>5

LEMMA ReadIs ==
    ASSUME NEW b \in 2 .. 36, NEW t \in Seq(DigitsBelow(b))
    PROVE  HasRead(Digits(t, b), C!Positional(t, b))
  <1> DEFINE n    == Len(t)
             V    == [n : Nat, fits : BOOLEAN]
             d(k) == IF k \in 1 .. n THEN DigitOf[t[k]] ELSE 0
             step == [p \in V \X Nat |-> Digit(p[1], d(p[2]), b)]
             none == [n |-> 0, fits |-> TRUE]
             val  == Value(t, b)
  <1>0. n \in Nat
    OBVIOUS
  <1>1. \A k \in 1 .. n : t[k] \in DigitsBelow(b)
    OBVIOUS
  <1> HIDE DEF n
  <1>2. \A k \in 1 .. n : /\ DigitOf[t[k]] \in 0 .. b - 1
                          /\ digit_to_int_in(b, t[k]) = DigitOf[t[k]]
    <2> SUFFICES ASSUME NEW k \in 1 .. n
                 PROVE  DigitOf[t[k]] \in 0 .. b - 1 /\ digit_to_int_in(b, t[k]) = DigitOf[t[k]]
      OBVIOUS
    <2>1. IsDigit(b, t[k])
      BY <1>1, IsDigitIs DEF DigitsBelow
    <2> QED BY <2>1, IsDigitIs
  <1>3. \A k \in Nat : d(k) \in Nat
    BY <1>2
  <1> HIDE DEF d
  <1>4. step \in [V \X Nat -> V]
    <2>1. ASSUME NEW v \in V, NEW k \in Nat PROVE Digit(v, d(k), b) \in V
      <3>1. v.n \in Nat /\ d(k) \in Nat /\ v.n * b \in Nat
        <4>1. v.n \in Nat
          OBVIOUS
        <4>2. d(k) \in Nat
          BY <1>3
        <4> QED BY <4>1, <4>2
      <3>2. v.n * b + d(k) \in Nat
        BY <3>1
      <3>3. [v EXCEPT !.fits = FALSE] \in V /\ [v EXCEPT !.n = @ * b + d(k)] \in V
        BY <3>2
      <3> HIDE DEF V
      <3> QED BY <3>3 DEF Digit
    <2>2. \A p \in V \X Nat : Digit(p[1], d(p[2]), b) \in V
      BY <2>1
    <2> QED BY <2>2
  <1>5. \A v \in V : \A k \in Nat : step[<<v, k>>] = Digit(v, d(k), b)
    OBVIOUS
  <1>6. none \in V
    OBVIOUS
  <1> HIDE DEF step, V
  <1>7. PICK f : f \in [0 .. n -> V] /\ f[0] = none /\ \A k \in 1 .. n : f[k] = step[<<f[k - 1], k>>]
    <2>1. \E f : Chain(f, V, none, step, n)
      BY <1>0, <1>4, <1>6, ChainExists
    <2> QED BY <2>1 DEF Chain
  <1>8. \A k \in 1 .. n : f[k] = Digit(f[k - 1], digit_to_int_in(b, t[k]), b)
    <2> SUFFICES ASSUME NEW k \in 1 .. n PROVE f[k] = Digit(f[k - 1], digit_to_int_in(b, t[k]), b)
      OBVIOUS
    <2>1. f[k - 1] \in V /\ k \in Nat
      BY <1>0, <1>7
    <2>2. d(k) = digit_to_int_in(b, t[k])
      BY <1>2 DEF d
    <2> QED BY <1>5, <1>7, <2>1, <2>2
  <1>9. ReadOf(f, t, b)
    <2>1. \A k \in 0 .. n : f[k] = IF k = 0 THEN none ELSE Digit(f[k - 1], digit_to_int_in(b, t[k]), b)
      BY <1>7, <1>8
    <2>2. f = [k \in 0 .. n |-> f[k]]
      BY <1>7
    <2> HIDE DEF none
    <2>3. [k \in 0 .. n |-> f[k]]
            = [k \in 0 .. n |-> IF k = 0 THEN none ELSE Digit(f[k - 1], digit_to_int_in(b, t[k]), b)]
      BY <2>1
    <2> QED BY <2>2, <2>3 DEF ReadOf, none, n
  <1>10. ReadOf(Read(t, b), t, b)
    BY <1>9 DEF Read
  <1> DEFINE r == Read(t, b)
  <1>11. r[0] = none /\ \A k \in 1 .. n : r[k] = Digit(r[k - 1], digit_to_int_in(b, t[k]), b)
    <2> HIDE DEF r, none
    <2>1. r = [k \in 0 .. n |-> IF k = 0 THEN none ELSE Digit(r[k - 1], digit_to_int_in(b, t[k]), b)]
      BY <1>10 DEF ReadOf, r, none, n
    <2>2. \A k \in 0 .. n : r[k] = IF k = 0 THEN none ELSE Digit(r[k - 1], digit_to_int_in(b, t[k]), b)
      BY <2>1
    <2> QED BY <1>0, <2>2
  <1>12. /\ val[0] = 0 /\ \A k \in 1 .. n : val[k] = val[k - 1] * b + DigitOf[t[k]]
         /\ C!Positional(t, b) = val[n]
    BY <1>0, ValueIs DEF n, ValueRuns
  <1> HIDE DEF r, val
  <1>13. \A k \in Nat : k \in 0 .. n => HasRead(r[k], val[k])
    <2> DEFINE T == {k \in Nat : k \in 0 .. n => HasRead(r[k], val[k])}
    <2>1. 0 \in T
      <3>1. HasRead(none, 0)
        BY MaximumIs DEF HasRead
      <3> QED BY <1>11, <1>12, <3>1
    <2>2. ASSUME NEW k \in Nat, k \in T PROVE k + 1 \in T
      <3> SUFFICES ASSUME k + 1 \in 0 .. n PROVE HasRead(r[k + 1], val[k + 1])
        OBVIOUS
      <3>1. HasRead(r[k], val[k]) /\ k + 1 \in 1 .. n
        BY <1>0, <2>2
      <3>2. PICK dg \in 0 .. b - 1 : dg = DigitOf[t[k + 1]] /\ dg = digit_to_int_in(b, t[k + 1])
        BY <1>2, <3>1
      <3>3. HasRead(Digit(r[k], dg, b), val[k] * b + dg)
        BY <3>1, DigitReads
      <3>4. \A j \in 1 .. n : j - 1 = k => /\ val[j] = val[k] * b + DigitOf[t[j]]
                                           /\ r[j] = Digit(r[k], digit_to_int_in(b, t[j]), b)
        BY <1>11, <1>12
      <3>5. val[k + 1] = val[k] * b + dg /\ r[k + 1] = Digit(r[k], dg, b)
        <4>1. PICK j \in 1 .. n : j = k + 1 /\ j - 1 = k
          BY <3>1
        <4>2. val[j] = val[k] * b + DigitOf[t[j]] /\ r[j] = Digit(r[k], digit_to_int_in(b, t[j]), b)
          BY <3>4, <4>1
        <4> QED BY <3>2, <4>1, <4>2
      <3> QED BY <3>3, <3>5
    <2> HIDE DEF T
    <2>3. \A k \in Nat : k \in T
      BY <2>1, <2>2, Induct
    <2> QED BY <2>3 DEF T
  <1>14. Digits(t, b) = r[n]
    BY DEF Digits, Read, ReadOf, r, n
  <1>15. n \in 0 .. n
    BY <1>0
  <1> QED BY <1>0, <1>12, <1>13, <1>14, <1>15

-----------------------------------------------------------------------------
(***************************************************************************)
(* Where try_parse finds the sign, the digits and their end.               *)
(***************************************************************************)
SignAt(s)       == Min({j \in 1 .. Len(s) + 1 : j > Len(s) \/ ~(s[j] \in Spaces)})
EndAt(s, i, b)  == Min({j \in i .. Len(s) + 1 : j > Len(s) \/ ~IsDigit(b, s[j])})
BeforeAt(s)     == IF Chr(s, SignAt(s)) \in {"+", "-"} THEN SignAt(s) + 1 ELSE SignAt(s)

LEMMA SignIs ==
    ASSUME NEW s, Len(s) \in Nat
    PROVE  /\ SignAt(s) \in 1 .. Len(s) + 1 /\ \A j \in 1 .. SignAt(s) - 1 : s[j] \in Spaces
           /\ SignAt(s) <= Len(s) => s[SignAt(s)] \notin Spaces
  <1> DEFINE S == {j \in 1 .. Len(s) + 1 : j > Len(s) \/ ~(s[j] \in Spaces)}
  <1>1. Len(s) + 1 \in S /\ S \subseteq Nat
    OBVIOUS
  <1>2. SignAt(s) \in S /\ \A k \in S : SignAt(s) <= k
    <2>1. SignAt(s) = Min(S)
      BY DEF SignAt
    <2> HIDE DEF S
    <2> QED BY <1>1, <2>1, MinOf
  <1>3. ASSUME NEW j \in 1 .. SignAt(s) - 1 PROVE s[j] \in Spaces
    <2>1. j \notin S /\ j \in 1 .. Len(s) /\ SignAt(s) \in Int
      BY <1>2
    <2> QED BY <2>1
  <1> QED BY <1>2, <1>3

LEMMA EndIs ==
    ASSUME NEW s, Len(s) \in Nat, NEW i \in 1 .. Len(s) + 1, NEW b
    PROVE  /\ EndAt(s, i, b) \in i .. Len(s) + 1 /\ \A j \in i .. EndAt(s, i, b) - 1 : IsDigit(b, s[j])
           /\ EndAt(s, i, b) <= Len(s) => ~IsDigit(b, s[EndAt(s, i, b)])
  <1> DEFINE e == EndAt(s, i, b)
             S == {j \in i .. Len(s) + 1 : j > Len(s) \/ ~IsDigit(b, s[j])}
  <1>1. Len(s) + 1 \in S /\ S \subseteq Nat
    OBVIOUS
  <1>2. e \in S /\ \A k \in S : e <= k
    <2>1. e = Min(S)
      BY DEF EndAt
    <2> HIDE DEF S, e
    <2> QED BY <1>1, <2>1, MinOf
  <1> HIDE DEF e
  <1>3. ASSUME NEW j \in i .. e - 1 PROVE IsDigit(b, s[j])
    <2>1. j \notin S /\ j \in i .. Len(s) /\ e \in Int
      BY <1>2
    <2> QED BY <2>1
  <1> QED BY <1>2, <1>3 DEF e

\* What try_parse returns, by these places
Parsed(s, base) ==
    LET start == Start(s, BeforeAt(s), base)
        end   == EndAt(s, start.at, start.base)
        read  == Digits(SubSeq(s, start.at, end - 1), start.base)
    IN  [neg |-> Chr(s, SignAt(s)) = "-", n |-> read.n, fits |-> read.fits,
         end |-> IF end = BeforeAt(s) THEN 0 ELSE end - 1]

LEMMA ParsedIs ==
    ASSUME NEW s, NEW base \in {0} \cup 2 .. 36 PROVE try_parse(s, base) = Parsed(s, base)
  <1>1. (IF base < 0 \/ base = 1 \/ base > 36 THEN 36 ELSE base) = base
    OBVIOUS
  <1>2. try_parse(s, base) = Parsed(s, IF base < 0 \/ base = 1 \/ base > 36 THEN 36 ELSE base)
    BY Zenon DEF try_parse, Parsed, Past, SignAt, EndAt, BeforeAt
  <1> QED BY <1>1, <1>2

-----------------------------------------------------------------------------
(***************************************************************************)
(* The numbers that begin at a place, and the longest of them.             *)
(***************************************************************************)
PlainBase(s, i, base) == IF base # 0 THEN base ELSE IF Chr(s, i) = "0" THEN 8 ELSE 10
AllDigits(s, i, e, b) == \A j \in i .. e : IsDigit(b, s[j])
HexAt(s, i, e)        == i + 2 <= e /\ s[i] = "0" /\ s[i + 1] \in {"x", "X"}

LEMMA SubSeqIs ==
    ASSUME NEW s, s \in Seq(Range(s)), NEW i \in 1 .. Len(s) + 1, NEW e \in i - 1 .. Len(s)
    PROVE  /\ Len(s) \in Nat
           /\ Len(SubSeq(s, i, e)) = e - i + 1 /\ DOMAIN SubSeq(s, i, e) = 1 .. e - i + 1
           /\ \A k \in 1 .. e - i + 1 : SubSeq(s, i, e)[k] = s[i + k - 1]
           /\ \A D : (\A j \in i .. e : s[j] \in D) => SubSeq(s, i, e) \in Seq(D)
  <1> DEFINE t == [k \in 1 .. e - i + 1 |-> s[i + k - 1]]
  <1>1. SubSeq(s, i, e) = t
    OBVIOUS
  <1>2. e - i + 1 \in Nat /\ Len(s) \in Nat
    OBVIOUS
  <1>3. Len(t) = e - i + 1
    BY <1>2
  <1>4. ASSUME NEW D, \A j \in i .. e : s[j] \in D PROVE t \in Seq(D)
    <2>1. \A k \in 1 .. e - i + 1 : i + k - 1 \in i .. e
      OBVIOUS
    <2>2. \A k \in 1 .. e - i + 1 : s[i + k - 1] \in D
      BY <1>4, <2>1
    <2> QED BY <1>2, <2>2
  <1> QED BY <1>1, <1>2, <1>3, <1>4

LEMMA NumeralIs ==
    ASSUME NEW s, s \in Seq(Range(s)), NEW i \in 1 .. Len(s), NEW e \in i .. Len(s), NEW b \in 2 .. 36
    PROVE  C!Numeral(SubSeq(s, i, e), b) <=> AllDigits(s, i, e, b)
  <1> DEFINE w == SubSeq(s, i, e)
  <1>1. /\ Len(w) = e - i + 1 /\ DOMAIN w = 1 .. e - i + 1
        /\ \A k \in 1 .. e - i + 1 : w[k] = s[i + k - 1]
    BY SubSeqIs
  <1>2. w # <<>>
    BY <1>1
  <1> HIDE DEF w
  <1>3. C!Numeral(w, b) <=> \A k \in 1 .. e - i + 1 : IsDigit(b, w[k])
    BY <1>1, <1>2, IsDigitIs DEF C!Numeral, DigitSet
  <1>4. ASSUME \A k \in 1 .. e - i + 1 : IsDigit(b, w[k]), NEW j \in i .. e PROVE IsDigit(b, s[j])
    <2>1. j - i + 1 \in 1 .. e - i + 1 /\ i + (j - i + 1) - 1 = j
      OBVIOUS
    <2>2. w[j - i + 1] = s[j]
      BY <1>1, <2>1
    <2> QED BY <1>4, <2>1, <2>2
  <1>5. ASSUME AllDigits(s, i, e, b), NEW k \in 1 .. e - i + 1 PROVE IsDigit(b, w[k])
    <2>1. i + k - 1 \in i .. e
      OBVIOUS
    <2> QED BY <1>1, <1>5, <2>1 DEF AllDigits
  <1> QED BY <1>3, <1>4, <1>5 DEF AllDigits, w

LEMMA HexIs ==
    ASSUME NEW s, s \in Seq(Range(s)), NEW i \in 1 .. Len(s), NEW e \in i .. Len(s)
    PROVE  /\ C!Hexadecimal(SubSeq(s, i, e)) <=> HexAt(s, i, e)
           /\ HexAt(s, i, e) => SubSeq(SubSeq(s, i, e), 3, Len(SubSeq(s, i, e))) = SubSeq(s, i + 2, e)
           /\ \A base : C!Base(SubSeq(s, i, e), base) = PlainBase(s, i, base)
           /\ SubSeq(s, i, e) # <<>>
  <1> DEFINE w == SubSeq(s, i, e)
  <1>1. /\ Len(w) = e - i + 1 /\ DOMAIN w = 1 .. e - i + 1
        /\ \A k \in 1 .. e - i + 1 : w[k] = s[i + k - 1]
    BY SubSeqIs
  <1>2. w # <<>> /\ w[1] = s[i]
    BY <1>1
  <1>3. e > i => w[2] = s[i + 1]
    <2> SUFFICES ASSUME e > i PROVE w[2] = s[i + 1]
      OBVIOUS
    <2>1. 2 \in 1 .. e - i + 1 /\ i + 2 - 1 = i + 1
      OBVIOUS
    <2> QED BY <1>1, <2>1
  <1>4. HexAt(s, i, e) => SubSeq(w, 3, Len(w)) = SubSeq(s, i + 2, e)
    <2> SUFFICES ASSUME HexAt(s, i, e) PROVE SubSeq(w, 3, Len(w)) = SubSeq(s, i + 2, e)
      OBVIOUS
    <2> DEFINE m == e - i - 1
    <2>1. m \in Nat /\ i + 2 <= e
      BY DEF HexAt
    <2>2. SubSeq(w, 3, Len(w)) = [k \in 1 .. m |-> w[k + 2]]
      <3>1. Len(w) = m + 2 /\ w \in Seq(Range(s))
        <4>1. \A j \in i .. e : s[j] \in Range(s)
          BY DEF Range
        <4> QED BY <1>1, <4>1, SubSeqIs
      <3> HIDE DEF w
      <3>2. SubSeq(w, 3, m + 2) = [k \in 1 .. (1 + (m + 2) - 3) |-> w[3 + k - 1]]
        OBVIOUS
      <3>3. 1 + (m + 2) - 3 = m /\ \A k \in 1 .. m : 3 + k - 1 = k + 2
        BY <2>1
      <3> HIDE DEF m
      <3>4. [k \in 1 .. m |-> w[3 + k - 1]] = [k \in 1 .. m |-> w[k + 2]]
        BY <3>3
      <3> QED BY <3>1, <3>2, <3>3, <3>4
    <2>3. SubSeq(s, i + 2, e) = [k \in 1 .. m |-> s[i + 2 + k - 1]]
      <3>1. i + 2 \in 1 .. Len(s) + 1 /\ e \in (i + 2) - 1 .. Len(s) /\ e - (i + 2) + 1 = m
        BY <2>1
      <3>2. SubSeq(s, i + 2, e) = [k \in 1 .. (1 + e - (i + 2)) |-> s[i + 2 + k - 1]]
        OBVIOUS
      <3> QED BY <3>1, <3>2
    <2>4. \A k \in 1 .. m : w[k + 2] = s[i + 2 + k - 1]
      <3> SUFFICES ASSUME NEW k \in 1 .. m PROVE w[k + 2] = s[i + 2 + k - 1]
        OBVIOUS
      <3>1. k + 2 \in 1 .. e - i + 1 /\ i + (k + 2) - 1 = i + 2 + k - 1
        OBVIOUS
      <3> HIDE DEF w
      <3> QED BY <1>1, <3>1
    <2> HIDE DEF w, m
    <2> QED BY <2>2, <2>3, <2>4
  <1> HIDE DEF w
  <1>5. C!Hexadecimal(w) <=> HexAt(s, i, e)
    BY <1>1, <1>2, <1>3 DEF C!Hexadecimal, HexAt
  <1>6. \A base : C!Base(w, base) = PlainBase(s, i, base)
    BY <1>2 DEF C!Base, PlainBase, Chr
  <1> QED BY <1>2, <1>4, <1>5, <1>6 DEF w

LEMMA IsNumberIs ==
    ASSUME NEW s, s \in Seq(Range(s)), NEW i \in 1 .. Len(s), NEW e \in i .. Len(s),
           NEW base \in {0} \cup 2 .. 36
    PROVE  /\ PlainBase(s, i, base) \in 2 .. 36 /\ (base \in {0, 16} => PlainBase(s, i, base) <= 16)
           /\ C!IsNumber(SubSeq(s, i, e), base)
                <=> \/ AllDigits(s, i, e, PlainBase(s, i, base))
                    \/ base \in {0, 16} /\ HexAt(s, i, e) /\ AllDigits(s, i + 2, e, 16)
  <1>1. PlainBase(s, i, base) \in 2 .. 36 /\ (base \in {0, 16} => PlainBase(s, i, base) <= 16)
    BY DEF PlainBase
  <1>2. HexAt(s, i, e) => /\ i + 2 \in 1 .. Len(s) /\ e \in i + 2 .. Len(s)
                          /\ C!Numeral(SubSeq(s, i + 2, e), 16) <=> AllDigits(s, i + 2, e, 16)
    <2> SUFFICES ASSUME HexAt(s, i, e)
                 PROVE  /\ i + 2 \in 1 .. Len(s) /\ e \in i + 2 .. Len(s)
                        /\ C!Numeral(SubSeq(s, i + 2, e), 16) <=> AllDigits(s, i + 2, e, 16)
      OBVIOUS
    <2>1. i + 2 \in 1 .. Len(s) /\ e \in i + 2 .. Len(s) /\ 16 \in 2 .. 36
      BY DEF HexAt
    <2> QED BY <2>1, NumeralIs
  <1>3. C!Numeral(SubSeq(s, i, e), PlainBase(s, i, base)) <=> AllDigits(s, i, e, PlainBase(s, i, base))
    BY <1>1, NumeralIs
  <1> QED BY <1>1, <1>2, <1>3, HexIs, ZenonT(60) DEF C!IsNumber

Ends(s, i, base) == {e \in i .. Len(s) : C!IsNumber(SubSeq(s, i, e), base)}

\* The longest number from i on ends where the digits of st do
EndsAt(s, i, base, st, e) ==
    /\ st.base \in 2 .. 36 /\ st.at \in 1 .. Len(s) + 1 /\ e \in i .. Len(s) + 1
    /\ SubSeq(s, st.at, e - 1) \in Seq(DigitsBelow(st.base))
    /\ e = i => Ends(s, i, base) = {} /\ Len(SubSeq(s, st.at, e - 1)) = 0
    /\ e # i => /\ Max(Ends(s, i, base)) = e - 1 /\ Ends(s, i, base) # {}
                /\ C!Worth(SubSeq(s, i, e - 1), base) = C!Positional(SubSeq(s, st.at, e - 1), st.base)

LEMMA EndsAre ==
    ASSUME NEW s, s \in Seq(Range(s)), NEW i \in 1 .. Len(s) + 1, NEW base \in {0} \cup 2 .. 36,
           NEW st, st = Start(s, i, base)
    PROVE  EndsAt(s, i, base, st, EndAt(s, st.at, st.base))
  <1> DEFINE e == EndAt(s, st.at, st.base)
             Prefixed == base \in {0, 16} /\ Chr(s, i) = "0" /\ Chr(s, i + 1) \in {"x", "X"}
                                          /\ IsDigit(16, Chr(s, i + 2))
             E == Ends(s, i, base)
  <1>1. Len(s) \in Nat
    OBVIOUS
  <1>2. ASSUME NEW b \in 2 .. 36 PROVE ~IsDigit(b, NUL) /\ IsDigit(b, "0")
    <2>1. NUL \notin DigitSet /\ "0" \in DigitSet /\ DigitOf["0"] < b
      BY DigitsAre
    <2> QED BY <2>1, IsDigitIs
  <1>3. ASSUME NEW b \in 2 .. 16 PROVE ~IsDigit(b, "x") /\ ~IsDigit(b, "X")
    <2>1. b \in 2 .. 36
      OBVIOUS
    <2>2. \A c \in {"x", "X"} : c \in DigitSet => DigitOf[c] >= 16 /\ DigitOf[c] \in Nat
      BY DigitsAre
    <2>3. ASSUME NEW c \in {"x", "X"}, IsDigit(b, c) PROVE FALSE
      <3>1. c \in DigitSet /\ DigitOf[c] < b /\ DigitOf[c] >= 16 /\ DigitOf[c] \in Nat
        BY <2>1, <2>2, <2>3, IsDigitIs
      <3> QED BY <3>1
    <2> QED BY <2>3
  <1>4. ASSUME NEW j \in 1 .. Len(s) + 2, Chr(s, j) # NUL PROVE j \in 1 .. Len(s) /\ Chr(s, j) = s[j]
    BY <1>1, <1>4 DEF Chr
  <1>5. "0" # NUL /\ "x" # NUL /\ "X" # NUL
    BY DEF NUL
  <1> HIDE DEF e, E
  <1>6. /\ st.base \in 2 .. 36 /\ st.at \in i .. Len(s) + 1
        /\ Prefixed => st = [at |-> i + 2, base |-> 16] /\ i + 2 <= Len(s) /\ HexAt(s, i, i + 2) /\ IsDigit(16, s[i + 2])
        /\ ~Prefixed => st = [at |-> i, base |-> PlainBase(s, i, base)]
    <2>1. CASE Prefixed
      <3>1. st = [at |-> i + 2, base |-> 16]
        BY <2>1 DEF Start
      <3>2. i \in 1 .. Len(s) /\ s[i] = "0"
        BY <1>4, <1>5, <2>1
      <3>3. i + 1 \in 1 .. Len(s) /\ s[i + 1] \in {"x", "X"}
        BY <1>1, <1>4, <1>5, <2>1, <3>2
      <3>4. i + 2 \in 1 .. Len(s) /\ IsDigit(16, s[i + 2])
        <4>1. Chr(s, i + 2) # NUL /\ i + 2 \in 1 .. Len(s) + 2
          <5>1. 16 \in 2 .. 36
            OBVIOUS
          <5>2. Chr(s, i + 2) # NUL
            BY <1>2, <2>1, <5>1
          <5> QED BY <1>1, <3>2, <5>2
        <4> QED BY <1>1, <1>4, <2>1, <4>1
      <3> QED BY <1>1, <2>1, <3>1, <3>2, <3>3, <3>4 DEF HexAt
    <2>2. CASE ~Prefixed
      <3>1. st = [at |-> i, base |-> PlainBase(s, i, base)]
        BY <2>2 DEF Start, PlainBase
      <3>2. PlainBase(s, i, base) \in 2 .. 36
        BY DEF PlainBase
      <3> QED BY <1>1, <2>2, <3>1, <3>2
    <2> QED BY <2>1, <2>2
  <1>7. /\ e \in st.at .. Len(s) + 1 /\ \A j \in st.at .. e - 1 : IsDigit(st.base, s[j])
        /\ e <= Len(s) => ~IsDigit(st.base, s[e])
    <2>1. st.at \in 1 .. Len(s) + 1
      BY <1>1, <1>6
    <2> QED BY <1>1, <2>1, EndIs DEF e
  <1>8. e \in i .. Len(s) + 1 /\ st.at \in 1 .. Len(s) + 1
    BY <1>1, <1>6, <1>7
  <1>9. SubSeq(s, st.at, e - 1) \in Seq(DigitsBelow(st.base)) /\ Len(SubSeq(s, st.at, e - 1)) = e - st.at
    <2>1. \A j \in st.at .. e - 1 : s[j] \in DigitsBelow(st.base)
      BY <1>6, <1>7, IsDigitIs DEF DigitsBelow
    <2>2. e - 1 \in st.at - 1 .. Len(s) /\ e - 1 - st.at + 1 = e - st.at
      BY <1>1, <1>6, <1>7
    <2> QED BY <1>8, <2>1, <2>2, SubSeqIs
  <1>10. ASSUME NEW f \in i .. Len(s), f \in E
         PROVE  \/ AllDigits(s, i, f, PlainBase(s, i, base))
                \/ base \in {0, 16} /\ HexAt(s, i, f) /\ AllDigits(s, i + 2, f, 16)
    <2>1. i \in 1 .. Len(s)
      BY <1>1
    <2> QED BY <1>10, <2>1, IsNumberIs DEF E, Ends
  <1>11. CASE Prefixed
    <2>1. st.at = i + 2 /\ st.base = 16 /\ i + 2 <= Len(s) /\ i \in 1 .. Len(s)
      BY <1>1, <1>6, <1>11
    <2>2. e > i + 2 /\ e - 1 \in i .. Len(s)
      <3>1. e # i + 2
        BY <1>6, <1>7, <1>11, <2>1
      <3> QED BY <1>1, <1>7, <2>1, <3>1
    <2>3. HexAt(s, i, e - 1) /\ AllDigits(s, i + 2, e - 1, 16)
      BY <1>6, <1>7, <1>11, <2>1, <2>2 DEF HexAt, AllDigits
    <2>4. e - 1 \in E
      BY <1>11, <2>1, <2>2, <2>3, IsNumberIs DEF E, Ends
    <2>5. ASSUME NEW f \in E PROVE f <= e - 1
      <3> SUFFICES ASSUME e <= f PROVE FALSE
        BY <1>1, <1>8 DEF E, Ends
      <3>1. f \in i .. Len(s) /\ f \in e .. Len(s)
        BY <1>1, <1>8 DEF E, Ends
      <3>2. e \in i + 2 .. f /\ ~IsDigit(16, s[e])
        BY <1>1, <1>7, <2>1, <2>2, <3>1
      <3>3. ~AllDigits(s, i + 2, f, 16)
        BY <3>2 DEF AllDigits
      <3>4. ~AllDigits(s, i, f, PlainBase(s, i, base))
        <4>1. PlainBase(s, i, base) \in 2 .. 16
          BY <1>11 DEF PlainBase
        <4>2. ~IsDigit(PlainBase(s, i, base), s[i + 1])
          <5>1. s[i + 1] \in {"x", "X"}
            BY <1>6, <1>11 DEF HexAt
          <5> QED BY <1>3, <4>1, <5>1
        <4>3. i + 1 \in i .. f
          BY <1>1, <1>8, <2>2, <3>1
        <4> QED BY <4>2, <4>3 DEF AllDigits
      <3> QED BY <1>10, <3>1, <3>3, <3>4
    <2>6. Max(E) = e - 1
      <3>1. E \subseteq Int /\ \A f \in E : e - 1 >= f
        BY <1>1, <1>8, <2>5 DEF E, Ends
      <3> QED BY <2>4, <3>1, MaxIs
    <2>7. C!Worth(SubSeq(s, i, e - 1), base) = C!Positional(SubSeq(s, st.at, e - 1), st.base)
      BY <1>11, <2>1, <2>2, <2>3, HexIs, ZenonT(60) DEF C!Worth
    <2>8. e # i
      BY <1>8, <2>2
    <2> QED BY <1>6, <1>8, <1>9, <2>4, <2>6, <2>7, <2>8 DEF EndsAt, E, e
  <1>12. CASE ~Prefixed
    <2>1. st.at = i /\ st.base = PlainBase(s, i, base)
      BY <1>6, <1>12
    <2>2. ASSUME NEW f \in E PROVE f \in i .. Len(s) /\ i \in 1 .. Len(s) /\ f < e
      <3>1. f \in i .. Len(s) /\ i \in 1 .. Len(s)
        BY <1>1 DEF E, Ends
      <3> SUFFICES ASSUME e <= f PROVE FALSE
        BY <1>1, <1>8, <3>1
      <3>2. e \in i .. f /\ ~IsDigit(PlainBase(s, i, base), s[e])
        BY <1>1, <1>7, <2>1, <3>1
      <3>3. base \in {0, 16} /\ HexAt(s, i, f) /\ AllDigits(s, i + 2, f, 16)
        BY <1>10, <3>1, <3>2 DEF AllDigits
      <3>4. i + 2 \in i + 2 .. f /\ i + 2 <= Len(s)
        BY <1>1, <3>1, <3>3 DEF HexAt
      <3>5. Prefixed
        BY <1>1, <3>3, <3>4 DEF HexAt, AllDigits, Chr
      <3> QED BY <1>12, <3>5
    <2>3. CASE e = i
      <3>1. E = {}
        <4> SUFFICES ASSUME NEW f \in E PROVE FALSE
          OBVIOUS
        <4> QED BY <1>1, <2>2, <2>3
      <3>2. Len(SubSeq(s, st.at, e - 1)) = 0
        BY <1>1, <1>9, <2>1, <2>3
      <3> QED BY <1>6, <1>8, <1>9, <2>3, <3>1, <3>2 DEF EndsAt, E, e
    <2>4. CASE e # i
      <3>1. e - 1 \in i .. Len(s) /\ i \in 1 .. Len(s) /\ AllDigits(s, i, e - 1, PlainBase(s, i, base))
        BY <1>1, <1>7, <1>8, <2>1, <2>4 DEF AllDigits
      <3>2. e - 1 \in E
        BY <3>1, IsNumberIs DEF E, Ends
      <3>3. Max(E) = e - 1
        <4>1. E \subseteq Int /\ \A f \in E : e - 1 >= f
          BY <1>1, <1>8, <2>2 DEF E, Ends
        <4> QED BY <3>2, <4>1, MaxIs
      <3>4. ~(base \in {0, 16} /\ HexAt(s, i, e - 1))
        <4> SUFFICES ASSUME base \in {0, 16}, HexAt(s, i, e - 1) PROVE FALSE
          OBVIOUS
        <4>1. PlainBase(s, i, base) \in 2 .. 16 /\ i + 1 \in i .. e - 1
          BY <1>1, <1>8, <3>1 DEF PlainBase, HexAt
        <4>2. IsDigit(PlainBase(s, i, base), s[i + 1]) /\ s[i + 1] \in {"x", "X"}
          BY <3>1, <4>1 DEF AllDigits, HexAt
        <4> QED BY <1>3, <4>1, <4>2
      <3>5. C!Worth(SubSeq(s, i, e - 1), base) = C!Positional(SubSeq(s, st.at, e - 1), st.base)
        BY <2>1, <3>1, <3>4, HexIs DEF C!Worth
      <3> QED BY <1>6, <1>8, <1>9, <2>4, <3>2, <3>3, <3>5 DEF EndsAt, E, e
    <2> QED BY <2>3, <2>4
  <1> QED BY <1>11, <1>12

\* The number that C finds in a text, by the same places
Found(s, i, base, sign) ==
    IF Ends(s, i, base) = {} THEN [val |-> 0, end |-> 0]
    ELSE [val |-> C!Worth(SubSeq(s, i, Max(Ends(s, i, base))), base) * sign, end |-> Max(Ends(s, i, base))]

LEMMA BeforeIs ==
    ASSUME NEW s, Len(s) \in Nat
    PROVE  /\ BeforeAt(s) \in 1 .. Len(s) + 1
           /\ Chr(s, SignAt(s)) \in {"+", "-"} <=> SignAt(s) <= Len(s) /\ s[SignAt(s)] \in {"+", "-"}
           /\ SignAt(s) <= Len(s) => Chr(s, SignAt(s)) = s[SignAt(s)]
  <1>1. SignAt(s) \in 1 .. Len(s) + 1
    BY SignIs
  <1>2. NUL # "+" /\ NUL # "-"
    BY DEF NUL
  <1>3. Chr(s, SignAt(s)) \in {"+", "-"} => SignAt(s) <= Len(s)
    BY <1>1, <1>2 DEF Chr
  <1> QED BY <1>1, <1>3 DEF BeforeAt, Chr

LEMMA MaxInC == \A S : C!Max(S) = Max(S) /\ C!Min(S) = Min(S)
  BY DEF Max, C!Max, Min, C!Min

LEMMA NumberIs ==
    ASSUME NEW s, Len(s) \in Nat, NEW base
    PROVE  C!Number(s, base) = Found(s, BeforeAt(s), base, IF Chr(s, SignAt(s)) = "-" THEN -1 ELSE 1)
  <1> DEFINE Leads(k) == (\A i \in 1 .. k : s[i] \in Spaces) /\ (k < Len(s) => s[k + 1] \notin Spaces)
             blanks   == CHOOSE k \in 0 .. Len(s) : Leads(k)
             at       == SignAt(s)
             sign     == IF blanks < Len(s) /\ s[blanks + 1] \in {"+", "-"} THEN 1 ELSE 0
             from     == blanks + sign + 1
             factor   == IF sign = 1 /\ s[blanks + 1] = "-" THEN -1 ELSE 1
  <1>1. C!Number(s, base) = Found(s, from, base, factor)
    BY MaxInC DEF C!Number, Found, Ends
  <1>2. at - 1 \in 0 .. Len(s) /\ Leads(at - 1)
    <2>1. at \in 1 .. Len(s) + 1
      BY SignIs
    <2>2. at - 1 < Len(s) => at <= Len(s) /\ at - 1 + 1 = at
      BY <2>1
    <2>3. \A j \in 1 .. at - 1 : s[j] \in Spaces
      BY SignIs
    <2>4. at - 1 < Len(s) => s[at - 1 + 1] \notin Spaces
      BY <2>2, SignIs
    <2> QED BY <2>1, <2>3, <2>4
  <1>3. \A k \in 0 .. Len(s) : Leads(k) => k = at - 1
    <2> SUFFICES ASSUME NEW k \in 0 .. Len(s), Leads(k), NEW m \in 0 .. Len(s), Leads(m) PROVE ~(k < m)
      BY <1>2
    <2> SUFFICES ASSUME k < m PROVE FALSE
      OBVIOUS
    <2>1. k + 1 \in 1 .. m /\ k < Len(s)
      OBVIOUS
    <2> QED BY <2>1
  <1> HIDE DEF Leads, at
  <1>4. blanks = at - 1
    <2>1. Leads(blanks) /\ blanks \in 0 .. Len(s)
      BY <1>2
    <2> QED BY <1>3, <2>1
  <1>5. at \in 1 .. Len(s) + 1
    BY SignIs DEF at
  <1> HIDE DEF blanks
  <1>6. /\ sign = 1 <=> Chr(s, at) \in {"+", "-"}
        /\ sign = 1 /\ s[blanks + 1] = "-" <=> Chr(s, at) = "-"
    <2>1. blanks + 1 = at /\ (blanks < Len(s) <=> at <= Len(s))
      BY <1>4, <1>5
    <2>2. sign = 1 <=> Chr(s, at) \in {"+", "-"}
      BY <2>1, BeforeIs DEF at
    <2>3. sign = 1 => Chr(s, at) = s[blanks + 1]
      BY <2>1, BeforeIs DEF at
    <2> HIDE DEF sign
    <2> QED BY <2>2, <2>3
  <1>7. from = BeforeAt(s)
    <2>1. sign \in {0, 1}
      OBVIOUS
    <2> HIDE DEF sign
    <2> QED BY <1>4, <1>5, <1>6, <2>1 DEF BeforeAt, at
  <1>8. factor = IF Chr(s, at) = "-" THEN -1 ELSE 1
    <2> HIDE DEF sign
    <2> QED BY <1>6
  <1> QED BY <1>1, <1>7, <1>8 DEF at

LEMMA NoDigits ==
    ASSUME NEW b \in 2 .. 36, NEW t \in Seq(DigitsBelow(b)), Len(t) = 0 PROVE C!Positional(t, b) = 0
  BY ValueIs, ZenonT(60) DEF ValueRuns

\* What both say of a text: the same end, and a value that is read or does not fit.
Agree(p, n) == /\ n.end = p.end /\ p.neg \in BOOLEAN
               /\ \E v \in Nat : n.val = (IF p.neg THEN -v ELSE v) /\ HasRead([n |-> p.n, fits |-> p.fits], v)

LEMMA ParseAgrees ==
    ASSUME NEW s, s \in Seq(Range(s)), NEW base \in {0} \cup 2 .. 36
    PROVE  Agree(try_parse(s, base), C!Number(s, base))
  <1> DEFINE i    == BeforeAt(s)
             st   == Start(s, i, base)
             e    == EndAt(s, st.at, st.base)
             t    == SubSeq(s, st.at, e - 1)
             read == Digits(t, st.base)
             neg  == Chr(s, SignAt(s)) = "-"
             v    == C!Positional(t, st.base)
  <1>1. Len(s) \in Nat /\ i \in 1 .. Len(s) + 1
    BY BeforeIs
  <1>2. try_parse(s, base) = [neg |-> neg, n |-> read.n, fits |-> read.fits, end |-> IF e = i THEN 0 ELSE e - 1]
    BY ParsedIs DEF Parsed
  <1>3. C!Number(s, base) = Found(s, i, base, IF neg THEN -1 ELSE 1)
    BY <1>1, NumberIs
  <1> HIDE DEF i, st
  <1>4. EndsAt(s, i, base, st, e)
    BY <1>1, EndsAre DEF st
  <1> HIDE DEF e
  <1>5. t \in Seq(DigitsBelow(st.base)) /\ st.base \in 2 .. 36
    BY <1>4 DEF EndsAt
  <1>6. HasRead(read, v)
    <2> HIDE DEF t
    <2> QED BY <1>5, ReadIs
  <1>7. v \in Nat /\ HasRead([n |-> read.n, fits |-> read.fits], v)
    <2> HIDE DEF read, v
    <2> QED BY <1>6 DEF HasRead
  <1>8. CASE e = i
    <2>1. C!Number(s, base) = [val |-> 0, end |-> 0]
      BY <1>3, <1>4, <1>8 DEF EndsAt, Found
    <2>2. v = 0
      <3>1. t \in Seq(DigitsBelow(st.base)) /\ Len(t) = 0
        BY <1>4, <1>8 DEF EndsAt
      <3> HIDE DEF t
      <3> QED BY <1>5, <3>1, NoDigits
    <2> HIDE DEF read, v, neg
    <2>3. (IF neg THEN -v ELSE v) = 0
      <3>1. \A x \in Nat : x <= 0 => -x = x
        OBVIOUS
      <3>2. -v = v
        <4>1. v <= 0
          BY <2>2
        <4> QED BY <1>7, <3>1, <4>1
      <3> QED BY <2>2, <3>2
    <2>4. neg \in BOOLEAN
      BY DEF neg
    <2> QED BY <1>2, <1>7, <1>8, <2>1, <2>3, <2>4 DEF Agree
  <1>9. CASE e # i
    <2>1. C!Number(s, base) = [val |-> v * (IF neg THEN -1 ELSE 1), end |-> e - 1]
      BY <1>3, <1>4, <1>9 DEF EndsAt, Found
    <2> HIDE DEF read, v, neg
    <2>2. v * (IF neg THEN -1 ELSE 1) = IF neg THEN -v ELSE v
      BY <1>7
    <2>3. neg \in BOOLEAN
      BY DEF neg
    <2> QED BY <1>2, <1>7, <1>9, <2>1, <2>2, <2>3 DEF Agree
  <1> QED BY <1>8, <1>9

-----------------------------------------------------------------------------
(***************************************************************************)
(* So strtoul, strtol and atoi return what C says.                         *)
(***************************************************************************)
LEMMA LimitsAre ==
    \E l, i \in Nat \ {0} : /\ l >= i /\ i = 2 ^ (INT_BITS - 1) /\ 2 ^ INT_BITS = 2 * i
                            /\ ULONG_MAX = 2 * l - 1 /\ LONG_MAX = l - 1 /\ LONG_MIN = -l /\ 2 ^ LONG_BITS = 2 * l
  <1> DEFINE l == 2 ^ (LONG_BITS - 1)
             i == 2 ^ (INT_BITS - 1)
  <1>1. /\ i \in Nat \ {0} /\ l \in Nat /\ l >= i /\ 2 ^ INT_BITS = 2 * i /\ 2 ^ LONG_BITS = 2 * l
        /\ ULONG_MAX = 2 ^ LONG_BITS - 1 /\ LONG_MAX = l - 1 /\ LONG_MIN = -l /\ i = 2 ^ (INT_BITS - 1)
    BY PowersAssumption DEF ULONG_MAX, LONG_MAX, LONG_MIN
  <1> HIDE DEF l, i
  <1>2. l \in Nat \ {0}
    BY <1>1
  <1> QED BY <1>1, <1>2

LEMMA StrtoulIs ==
    ASSUME NEW s, s \in Seq(Range(s)), NEW base \in {0} \cup 2 .. 36
    PROVE  strtoul(s, base) = C!ToULong(s, base)
  <1> DEFINE p == try_parse(s, base)
             n == C!Number(s, base)
  <1>1. PICK v \in Nat : /\ n.end = p.end /\ p.neg \in BOOLEAN /\ n.val = (IF p.neg THEN -v ELSE v)
                         /\ p.fits \in BOOLEAN /\ (p.fits <=> v <= ULONG_MAX) /\ (p.fits => p.n = v)
    BY ParseAgrees DEF Agree, HasRead
  <1>2. strtoul(s, base) = IF ~p.fits THEN Returns(ULONG_MAX, p, TRUE)
                           ELSE Returns(IF p.neg THEN Unsigned(-p.n, LONG_BITS) ELSE p.n, p, FALSE)
    BY DEF strtoul
  <1>3. C!ToULong(s, base) = [val |-> IF n.val \in -ULONG_MAX .. ULONG_MAX THEN n.val % (ULONG_MAX + 1) ELSE ULONG_MAX,
                              end |-> n.end, erange |-> n.val \notin -ULONG_MAX .. ULONG_MAX]
    BY DEF C!ToULong
  <1> HIDE DEF p, n
  <1>4. ULONG_MAX \in Nat /\ ULONG_MAX + 1 = 2 ^ LONG_BITS
    BY MaximumIs
  <1>5. n.val \in -ULONG_MAX .. ULONG_MAX <=> p.fits
    BY <1>1, <1>4
  <1>6. CASE ~p.fits
    BY <1>1, <1>2, <1>3, <1>5, <1>6 DEF Returns
  <1>7. CASE p.fits
    <2>1. (IF p.neg THEN Unsigned(-p.n, LONG_BITS) ELSE p.n) = n.val % (ULONG_MAX + 1)
      <3>1. CASE p.neg
        BY <1>1, <1>4, <1>7, <3>1 DEF Unsigned
      <3>2. CASE ~p.neg
        <4>1. \A m \in Nat : \A x \in 0 .. m : x % (m + 1) = x
          OBVIOUS
        <4>2. v % (ULONG_MAX + 1) = v
          BY <1>1, <1>4, <1>7, <4>1
        <4> QED BY <1>1, <1>7, <3>2, <4>2
      <3> QED BY <1>1, <3>1, <3>2
    <2>2. strtoul(s, base) = Returns(IF p.neg THEN Unsigned(-p.n, LONG_BITS) ELSE p.n, p, FALSE)
      BY <1>2, <1>7
    <2>3. (n.val \notin -ULONG_MAX .. ULONG_MAX) = FALSE
      BY <1>5, <1>7
    <2>4. C!ToULong(s, base) = [val |-> n.val % (ULONG_MAX + 1), end |-> n.end, erange |-> FALSE]
      BY <1>3, <1>5, <1>7, <2>3
    <2> QED BY <1>1, <2>1, <2>2, <2>4 DEF Returns
  <1> QED BY <1>1, <1>6, <1>7

LEMMA StrtolIs ==
    ASSUME NEW s, s \in Seq(Range(s)), NEW base \in {0} \cup 2 .. 36
    PROVE  strtol(s, base) = C!ToLong(s, base) /\ C!Number(s, base).val \in Int
  <1> DEFINE p == try_parse(s, base)
             n == C!Number(s, base)
             x == n.val
  <1>1. PICK v \in Nat : /\ n.end = p.end /\ p.neg \in BOOLEAN /\ x = (IF p.neg THEN -v ELSE v)
                         /\ p.fits \in BOOLEAN /\ (p.fits <=> v <= ULONG_MAX) /\ (p.fits => p.n = v)
    BY ParseAgrees DEF Agree, HasRead
  <1>2. strtol(s, base) = IF p.neg /\ (~p.fits \/ p.n > LONG_MAX + 1) THEN Returns(LONG_MIN, p, TRUE)
                          ELSE IF ~p.neg /\ (~p.fits \/ p.n > LONG_MAX) THEN Returns(LONG_MAX, p, TRUE)
                          ELSE Returns(IF p.neg THEN -p.n ELSE p.n, p, FALSE)
    BY DEF strtol
  <1>3. C!ToLong(s, base) = [val |-> Min({Max({x, LONG_MIN}), LONG_MAX}), end |-> n.end,
                             erange |-> x \notin LONG_MIN .. LONG_MAX]
    BY MaxInC DEF C!ToLong
  <1>4. PICK l \in Nat \ {0} : ULONG_MAX = 2 * l - 1 /\ LONG_MAX = l - 1 /\ LONG_MIN = -l
    BY LimitsAre
  <1> HIDE DEF p, n, x
  <1>5. x \in Int /\ LONG_MIN \in Int /\ LONG_MAX \in Int /\ ULONG_MAX \in Int
    BY <1>1, <1>4
  <1>10. C!Number(s, base).val \in Int
    BY <1>5 DEF x, n
  <1>6. Min({Max({x, LONG_MIN}), LONG_MAX})
          = IF x < LONG_MIN THEN LONG_MIN ELSE IF x > LONG_MAX THEN LONG_MAX ELSE x
    <2>1. Max({x, LONG_MIN}) = IF x >= LONG_MIN THEN x ELSE LONG_MIN
      BY <1>5, MaxOfTwo
    <2> DEFINE y == IF x >= LONG_MIN THEN x ELSE LONG_MIN
    <2>2. y \in Int
      BY <1>5
    <2> HIDE DEF y
    <2>3. Min({y, LONG_MAX}) = IF y <= LONG_MAX THEN y ELSE LONG_MAX
      BY <1>5, <2>2, MinOfTwo
    <2>4. LONG_MIN < LONG_MAX + 1
      BY <1>4
    <2>5. y = IF x >= LONG_MIN THEN x ELSE LONG_MIN
      BY DEF y
    <2>6. Min({y, LONG_MAX}) = IF x < LONG_MIN THEN LONG_MIN ELSE IF x > LONG_MAX THEN LONG_MAX ELSE x
      <3>1. CASE x < LONG_MIN
        BY <1>5, <2>3, <2>4, <2>5, <3>1
      <3>2. CASE ~(x < LONG_MIN)
        <4>1. y = x
          BY <1>5, <2>5, <3>2
        <4> QED BY <1>5, <2>3, <3>2, <4>1
      <3> QED BY <3>1, <3>2
    <2> QED BY <2>1, <2>5, <2>6
  <1>7. CASE p.neg /\ (~p.fits \/ p.n > LONG_MAX + 1)
    <2>1. x < LONG_MIN
      BY <1>1, <1>4, <1>7
    <2>2. C!ToLong(s, base) = [val |-> LONG_MIN, end |-> n.end, erange |-> TRUE]
      <3>1. Min({Max({x, LONG_MIN}), LONG_MAX}) = LONG_MIN
        BY <1>6, <2>1
      <3>2. (x \notin LONG_MIN .. LONG_MAX) = TRUE
        BY <1>5, <2>1
      <3> QED BY <1>3, <3>1, <3>2
    <2>3. strtol(s, base) = Returns(LONG_MIN, p, TRUE)
      BY <1>2, <1>7
    <2> QED BY <1>1, <1>10, <2>2, <2>3 DEF Returns
  <1>8. CASE ~p.neg /\ (~p.fits \/ p.n > LONG_MAX)
    <2>1. x > LONG_MAX /\ ~(x < LONG_MIN)
      BY <1>1, <1>4, <1>8
    <2>2. C!ToLong(s, base) = [val |-> LONG_MAX, end |-> n.end, erange |-> TRUE]
      <3>1. Min({Max({x, LONG_MIN}), LONG_MAX}) = LONG_MAX
        BY <1>6, <2>1
      <3>2. (x \notin LONG_MIN .. LONG_MAX) = TRUE
        BY <1>5, <2>1
      <3> QED BY <1>3, <3>1, <3>2
    <2>3. strtol(s, base) = Returns(LONG_MAX, p, TRUE)
      BY <1>2, <1>8
    <2> QED BY <1>1, <1>10, <2>2, <2>3 DEF Returns
  <1>9. CASE /\ ~(p.neg /\ (~p.fits \/ p.n > LONG_MAX + 1)) /\ ~(~p.neg /\ (~p.fits \/ p.n > LONG_MAX))
    <2>1. ~(x < LONG_MIN) /\ ~(x > LONG_MAX) /\ x = (IF p.neg THEN -p.n ELSE p.n)
      BY <1>1, <1>4, <1>9
    <2>2. C!ToLong(s, base) = [val |-> x, end |-> n.end, erange |-> FALSE]
      <3>1. Min({Max({x, LONG_MIN}), LONG_MAX}) = x
        BY <1>6, <2>1
      <3>2. (x \notin LONG_MIN .. LONG_MAX) = FALSE
        BY <1>5, <2>1
      <3> QED BY <1>3, <3>1, <3>2
    <2>3. strtol(s, base) = Returns(x, p, FALSE)
      BY <1>2, <1>9, <2>1
    <2> QED BY <1>1, <1>10, <2>2, <2>3 DEF Returns
  <1> QED BY <1>7, <1>8, <1>9

LEMMA AtoiIs ==
    ASSUME NEW s, s \in Seq(Range(s)), C!Number(s, 10).val = Signed(C!Number(s, 10).val, INT_BITS)
    PROVE  atoi(s) = C!Number(s, 10).val
  <1> DEFINE x == C!Number(s, 10).val
  <1>1. atoi(s) = Signed(Min({Max({x, LONG_MIN}), LONG_MAX}), INT_BITS)
    <2>1. 10 \in {0} \cup 2 .. 36
      OBVIOUS
    <2>2. strtol(s, 10).val = C!ToLong(s, 10).val
      BY <2>1, StrtolIs
    <2> QED BY <2>2, MaxInC DEF atoi, atol, C!ToLong
  <1>2. x \in Int
    <2>1. 10 \in {0} \cup 2 .. 36
      OBVIOUS
    <2> QED BY <2>1, StrtolIs
  <1>3. x = Signed(x, INT_BITS)
    OBVIOUS
  <1> HIDE DEF x
  <1>4. PICK l, i \in Nat \ {0} : /\ l >= i /\ i = 2 ^ (INT_BITS - 1) /\ 2 ^ INT_BITS = 2 * i
                                  /\ LONG_MAX = l - 1 /\ LONG_MIN = -l
    BY LimitsAre
  <1>5. x \in LONG_MIN .. LONG_MAX /\ LONG_MIN \in Int /\ LONG_MAX \in Int
    <2>1. Unsigned(x, INT_BITS) \in 0 .. 2 * i - 1
      BY <1>2, <1>4 DEF Unsigned
    <2>2. x \in -i .. i - 1
      BY <1>2, <1>3, <1>4, <2>1 DEF Signed
    <2> QED BY <1>2, <1>4, <2>2
  <1>6. Max({x, LONG_MIN}) = x
    BY <1>2, <1>5, MaxOfTwo
  <1>7. Min({x, LONG_MAX}) = x
    BY <1>2, <1>5, MinOfTwo
  <1> QED BY <1>1, <1>3, <1>6, <1>7 DEF x

-----------------------------------------------------------------------------
(***************************************************************************)
(* The numbers program has the answers as soon as it is done.              *)
(***************************************************************************)
NumbersInv == Runs("numbers") =>
    /\ NumJob(job) /\ pc \in {"convert", "done"}
    /\ pc = "done" => answers = <<strtol(job.text, job.base), strtoul(job.text, job.base), atoi(job.text)>>

LEMMA NumbersInit == Init => NumbersInv
  <1> SUFFICES ASSUME Init, Runs("numbers") PROVE NumbersInv
    BY DEF NumbersInv
  <1>1. NumJob(job)
    BY JobsAssumption DEF Init, Runs
  <1>2. pc = "convert"
    BY DEF Init, FilesInit, Entry, Runs
  <1> QED BY <1>1, <1>2 DEF NumbersInv

LEMMA NumbersStep == NumbersInv /\ [Next]_vars => NumbersInv'
  <1> SUFFICES ASSUME NumbersInv, [Next]_vars, Runs("numbers")' PROVE NumbersInv'
    BY DEF NumbersInv
  <1>1. CASE UNCHANGED vars
    BY <1>1 DEF vars, files_vars, NumbersInv, Runs
  <1>2. CASE Convert
    BY <1>2 DEF Convert, Goto, NumbersInv, Runs
  <1>3. CASE Silence \/ FindOption \/ Format \/ Hexdump \/ Wc \/ Cat
    <2>1. job' = job
      BY <1>3 DEF Silence, FindOption, Format, Hexdump, Wc, Cat
    <2> QED BY <1>3, <2>1 DEF Silence, FindOption, Format, Hexdump, Wc, Cat, Runs
  <1> QED BY <1>1, <1>2, <1>3 DEF Next

\* What strtol, strtoul and atoi return is what C's words say of the text.
LEMMA NumbersEnd == NumbersInv => NumbersAsC
  <1> SUFFICES ASSUME NumbersInv, Done("numbers")
               PROVE  /\ answers[1] = C!ToLong(job.text, job.base)
                      /\ answers[2] = C!ToULong(job.text, job.base)
                      /\ C!Number(job.text, 10).val = Signed(C!Number(job.text, 10).val, INT_BITS)
                           => answers[3] = C!Number(job.text, 10).val
    BY DEF NumbersAsC
  <1>1. NumJob(job) /\ answers = <<strtol(job.text, job.base), strtoul(job.text, job.base), atoi(job.text)>>
    BY DEF NumbersInv, Done
  <1>2. job.text \in Seq(Range(job.text)) /\ job.base \in {0} \cup 2 .. 36
    BY <1>1 DEF NumJob
  <1> QED BY <1>1, <1>2, StrtolIs, StrtoulIs, AtoiIs

THEOREM NumbersAreRight == Spec => []NumbersAsC
  <1>1. Spec => []NumbersInv
    BY NumbersInit, NumbersStep, PTL DEF Spec
  <1> QED BY <1>1, NumbersEnd, PTL
=============================================================================
