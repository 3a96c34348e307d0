---------------------------- MODULE PrintfProofs ----------------------------
(***************************************************************************)
(* Proof about the printf family: one turn of _vfprintf's loop reads one   *)
(* directive of the format and its arguments, and writes its text.  What a *)
(* directive looks like (Spelled) is parsed back by p_fmt, its digits are  *)
(* those of the number, the padding fills its width, and what a failing    *)
(* stream took is the beginning of it all.                                 *)
(***************************************************************************)
EXTENDS LibraryProofs

-----------------------------------------------------------------------------
(***************************************************************************)
(* The digits of a number, from the last to the first as printf makes them *)
(* and from the first to the last as C!InDigits has them.                  *)
(***************************************************************************)
PlaceOf(f, n, b) == f = [k \in 0 .. n + 1 |-> IF k = 0 THEN 1 ELSE f[k - 1] * b]
Place_(n, b)     == CHOOSE f : PlaceOf(f, n, b)

\* The k-th power of b
Pow(b, k) == Place_(k, b)[k]

PlaceRuns(n, b) == /\ Place_(n, b)[0] = 1
                   /\ \A k \in 0 .. n + 1 : Place_(n, b)[k] \in Nat
                   /\ \A k \in 1 .. n + 1 : Place_(n, b)[k] = Place_(n, b)[k - 1] * b

LEMMA PlaceIs ==
    ASSUME NEW b \in Nat, NEW n \in Nat
    PROVE  PlaceRuns(n, b)
  <1> DEFINE step == [p \in Nat \X Nat |-> p[1] * b]
  <1>1. step \in [Nat \X Nat -> Nat]
    <2>1. \A p \in Nat \X Nat : p[1] * b \in Nat
      OBVIOUS
    <2> QED BY <2>1
  <1>2. \A v, k \in Nat : step[<<v, k>>] = v * b
    OBVIOUS
  <1> HIDE DEF step
  <1>3. PICK f : f \in [0 .. n + 1 -> Nat] /\ f[0] = 1 /\ \A k \in 1 .. n + 1 : f[k] = step[<<f[k - 1], k>>]
    <2>1. 1 \in Nat /\ n + 1 \in Nat
      OBVIOUS
    <2>2. \E f : Chain(f, Nat, 1, step, n + 1)
      BY <1>1, <2>1, ChainExists
    <2> QED BY <2>2 DEF Chain
  <1>4. \A k \in 0 .. n + 1 : f[k] = IF k = 0 THEN 1 ELSE f[k - 1] * b
    <2> SUFFICES ASSUME NEW k \in 1 .. n + 1 PROVE f[k] = f[k - 1] * b
      BY <1>3
    <2>1. f[k - 1] \in Nat /\ k \in Nat
      BY <1>3
    <2> QED BY <1>2, <1>3, <2>1
  <1>5. PlaceOf(f, n, b)
    <2>1. f = [k \in 0 .. n + 1 |-> f[k]]
      BY <1>3
    <2>2. [k \in 0 .. n + 1 |-> f[k]] = [k \in 0 .. n + 1 |-> IF k = 0 THEN 1 ELSE f[k - 1] * b]
      BY <1>4
    <2> QED BY <2>1, <2>2 DEF PlaceOf
  <1> DEFINE g == Place_(n, b)
  <1>6. PlaceOf(g, n, b)
    BY <1>5 DEF Place_
  <1>7. g[0] = 1 /\ \A k \in 1 .. n + 1 : g[k] = g[k - 1] * b
    <2> HIDE DEF g
    <2>1. g = [k \in 0 .. n + 1 |-> IF k = 0 THEN 1 ELSE g[k - 1] * b]
      BY <1>6 DEF PlaceOf
    <2>2. \A k \in 0 .. n + 1 : g[k] = IF k = 0 THEN 1 ELSE g[k - 1] * b
      BY <2>1
    <2> QED BY <2>2
  <1>8. \A k \in Nat : k \in 0 .. n + 1 => g[k] \in Nat
    <2> DEFINE T == {k \in Nat : k \in 0 .. n + 1 => g[k] \in Nat}
    <2> HIDE DEF g
    <2>1. 0 \in T
      BY <1>7
    <2>2. ASSUME NEW k \in Nat, k \in T PROVE k + 1 \in T
      <3> SUFFICES ASSUME k + 1 \in 0 .. n + 1 PROVE g[k + 1] \in Nat
        OBVIOUS
      <3>1. g[k] \in Nat /\ k + 1 \in 1 .. n + 1 /\ k + 1 - 1 = k
        BY <2>2
      <3>2. g[k + 1] = g[k] * b
        <4>1. \A j \in 1 .. n + 1 : j - 1 = k => g[j] = g[k] * b
          BY <1>7
        <4> QED BY <3>1, <4>1
      <3> QED BY <3>1, <3>2
    <2> HIDE DEF T
    <2>3. \A k \in Nat : k \in T
      BY <2>1, <2>2, Induct
    <2> QED BY <2>3 DEF T
  <1> QED BY <1>7, <1>8 DEF PlaceRuns

\* Places of different numbers agree.
LEMMA PlacesAgree ==
    ASSUME NEW b \in Nat, NEW n \in Nat, NEW k \in 0 .. n + 1
    PROVE  Place_(n, b)[k] = Pow(b, k)
  <1> DEFINE T == {j \in Nat : \A m, l \in Nat : j <= m + 1 /\ j <= l + 1 => Place_(m, b)[j] = Place_(l, b)[j]}
  <1>1. 0 \in T
    BY PlaceIs DEF PlaceRuns
  <1>2. ASSUME NEW j \in Nat, j \in T PROVE j + 1 \in T
    <2> SUFFICES ASSUME NEW m \in Nat, NEW l \in Nat, j + 1 <= m + 1, j + 1 <= l + 1
                 PROVE  Place_(m, b)[j + 1] = Place_(l, b)[j + 1]
      OBVIOUS
    <2>1. Place_(m, b)[j] = Place_(l, b)[j]
      BY <1>2
    <2>2. j + 1 \in 1 .. m + 1 /\ j + 1 \in 1 .. l + 1 /\ j + 1 - 1 = j
      OBVIOUS
    <2>3. \A i : i \in 1 .. m + 1 /\ i - 1 = j => Place_(m, b)[i] = Place_(m, b)[j] * b
      BY PlaceIs DEF PlaceRuns
    <2>4. \A i : i \in 1 .. l + 1 /\ i - 1 = j => Place_(l, b)[i] = Place_(l, b)[j] * b
      BY PlaceIs DEF PlaceRuns
    <2> QED BY <2>1, <2>2, <2>3, <2>4
  <1> HIDE DEF T
  <1>3. \A j \in Nat : j \in T
    BY <1>1, <1>2, Induct
  <1>4. k \in T /\ k \in Nat
    BY <1>3
  <1> QED BY <1>4 DEF T, Pow

LEMMA PowIs ==
    ASSUME NEW b \in Nat
    PROVE  /\ Pow(b, 0) = 1
           /\ \A k \in Nat : Pow(b, k) \in Nat
           /\ \A k \in Nat : Pow(b, k + 1) = Pow(b, k) * b
  <1>1. Pow(b, 0) = 1
    BY PlaceIs DEF PlaceRuns, Pow
  <1>2. ASSUME NEW k \in Nat PROVE Pow(b, k) \in Nat /\ Pow(b, k + 1) = Pow(b, k) * b
    <2>1. k \in 0 .. k + 1 /\ k + 1 \in 0 .. k + 1 /\ k + 1 \in 1 .. k + 1 /\ k + 1 - 1 = k
      OBVIOUS
    <2>2. Place_(k, b)[k] = Pow(b, k) /\ Place_(k, b)[k + 1] = Pow(b, k + 1)
      BY <2>1, PlacesAgree
    <2>3. Place_(k, b)[k] \in Nat /\ \A i : i \in 1 .. k + 1 /\ i - 1 = k => Place_(k, b)[i] = Place_(k, b)[k] * b
      BY <2>1, PlaceIs DEF PlaceRuns
    <2> QED BY <2>1, <2>2, <2>3
  <1> QED BY <1>1, <1>2

\* Powers grow, and more than k by the k-th.
LEMMA PowGrows ==
    ASSUME NEW b \in Nat, b >= 2
    PROVE  /\ \A k \in Nat : Pow(b, k) > k /\ Pow(b, k) \in Nat \ {0}
           /\ \A k, l \in Nat : k <= l => Pow(b, k) <= Pow(b, l)
  <1>1. \A k \in Nat : Pow(b, k) > k
    <2> DEFINE T == {k \in Nat : Pow(b, k) > k}
    <2>1. 0 \in T
      BY PowIs
    <2>2. ASSUME NEW k \in Nat, k \in T PROVE k + 1 \in T
      <3> DEFINE p == Pow(b, k)
      <3>1. p \in Nat /\ p > k /\ Pow(b, k + 1) = p * b
        BY <2>2, PowIs
      <3> HIDE DEF p
      <3>2. p * b >= p * 2
        BY <3>1
      <3> QED BY <3>1, <3>2
    <2> HIDE DEF T
    <2>3. \A k \in Nat : k \in T
      BY <2>1, <2>2, Induct
    <2> QED BY <2>3 DEF T
  <1>2. ASSUME NEW k \in Nat PROVE \A l \in Nat : Pow(b, k) <= Pow(b, k + l)
    <2> DEFINE T == {l \in Nat : Pow(b, k) <= Pow(b, k + l)}
    <2>1. 0 \in T
      BY PowIs
    <2>2. ASSUME NEW l \in Nat, l \in T PROVE l + 1 \in T
      <3> DEFINE p == Pow(b, k + l)
      <3>1. k + l \in Nat /\ k + (l + 1) = k + l + 1
        OBVIOUS
      <3>2. p \in Nat /\ Pow(b, k) \in Nat /\ Pow(b, k) <= p /\ Pow(b, k + (l + 1)) = p * b
        BY <2>2, <3>1, PowIs
      <3> HIDE DEF p
      <3>3. p * b >= p
        BY <3>2
      <3> QED BY <3>2, <3>3
    <2> HIDE DEF T
    <2>3. \A l \in Nat : l \in T
      BY <2>1, <2>2, Induct
    <2> QED BY <2>3 DEF T
  <1>3. ASSUME NEW k \in Nat, NEW l \in Nat, k <= l PROVE Pow(b, k) <= Pow(b, l)
    <2>1. l - k \in Nat /\ k + (l - k) = l
      BY <1>3
    <2> QED BY <1>2, <2>1
  <1> QED BY <1>1, <1>3, PowIs

\* A quotient once more divided.
LEMMA TwiceDivided ==
    ASSUME NEW n \in Nat, NEW b \in Nat \ {0}, NEW a \in Nat \ {0}
    PROVE  (n \div b) \div a = n \div (a * b)
  <1> DEFINE q == n \div b
             t == q \div a
  <1>1. q \in Nat /\ b * q <= n /\ n < b * q + b
    BY QuotientIs
  <1> HIDE DEF q
  <1>2. t \in Nat /\ a * t <= q /\ q < a * t + a
    BY <1>1, QuotientIs
  <1> HIDE DEF t
  <1>3. b * (a * t) <= b * q
    <2>1. q - a * t \in Nat
      BY <1>1, <1>2
    <2>2. b * (q - a * t) >= 0 /\ b * (q - a * t) = b * q - b * (a * t)
      BY <1>1, <1>2, <2>1
    <2> QED BY <1>1, <1>2, <2>2
  <1>4. b * q + b <= b * (a * t + a)
    <2>1. a * t + a - q - 1 \in Nat
      BY <1>1, <1>2
    <2>2. b * (a * t + a - q - 1) >= 0 /\ b * (a * t + a - q - 1) = b * (a * t + a) - b * q - b
      BY <1>1, <1>2, <2>1
    <2> QED BY <1>1, <1>2, <2>2
  <1>5. b * (a * t) = (a * b) * t /\ b * (a * t + a) = (a * b) * t + a * b /\ a * b \in Nat \ {0}
    BY <1>2
  <1>6. (a * b) * t <= n /\ n < (a * b) * t + a * b
    BY <1>1, <1>2, <1>3, <1>4, <1>5
  <1>7. n \div (a * b) = t
    BY <1>2, <1>5, <1>6, QuotientUnique
  <1> QED BY <1>7 DEF t, q

-----------------------------------------------------------------------------
\* Is k the number of digits that n has?
Needs(n, b, k) == n < Pow(b, k) /\ (k > 1 => n >= Pow(b, k - 1))
Wide(n, b)     == CHOOSE k \in 1 .. n + 1 : Needs(n, b, k)

Places_(n, b, upper, w) == [i \in 1 .. w |-> C!Glyphs(upper)[((n \div Pow(b, w - i)) % b) + 1]]
HasDigits(t, n, b, upper, w) == t = Places_(n, b, upper, w)

LEMMA InDigitsIs ==
    ASSUME NEW n \in Nat, NEW b \in Nat, NEW upper, NEW w \in 1 .. n + 1, w = Wide(n, b)
    PROVE  HasDigits(C!InDigits(n, b, upper), n, b, upper, w)
  <1> DEFINE p == Place_(n, b)
             k == CHOOSE j \in 1 .. n + 1 : n < p[j] /\ (j > 1 => n >= p[j - 1])
  <1>1. C!InDigits(n, b, upper) = [i \in 1 .. k |-> C!Glyphs(upper)[((n \div p[k - i]) % b) + 1]]
    BY DEF C!InDigits, Place_, PlaceOf
  <1>2. \A j \in 0 .. n + 1 : p[j] = Pow(b, j)
    BY PlacesAgree
  <1> HIDE DEF p
  <1>3. \A j \in 1 .. n + 1 : (n < p[j] /\ (j > 1 => n >= p[j - 1])) <=> Needs(n, b, j)
    <2> SUFFICES ASSUME NEW j \in 1 .. n + 1 PROVE (n < p[j] /\ (j > 1 => n >= p[j - 1])) <=> Needs(n, b, j)
      OBVIOUS
    <2>1. j \in 0 .. n + 1 /\ j - 1 \in 0 .. n + 1
      OBVIOUS
    <2>2. p[j] = Pow(b, j) /\ p[j - 1] = Pow(b, j - 1)
      BY <1>2, <2>1
    <2> QED BY <2>2 DEF Needs
  <1>4. k = w
    BY <1>3 DEF Wide
  <1> HIDE DEF k
  <1>5. \A i \in 1 .. k : p[k - i] = Pow(b, k - i)
    <2> SUFFICES ASSUME NEW i \in 1 .. k PROVE p[k - i] = Pow(b, k - i)
      OBVIOUS
    <2>1. k - i \in 0 .. n + 1
      BY <1>4
    <2> QED BY <1>2, <2>1
  <1>6. [i \in 1 .. k |-> C!Glyphs(upper)[((n \div p[k - i]) % b) + 1]]
          = [i \in 1 .. k |-> C!Glyphs(upper)[((n \div Pow(b, k - i)) % b) + 1]]
    BY <1>5
  <1>7. C!InDigits(n, b, upper) = [i \in 1 .. k |-> C!Glyphs(upper)[((n \div Pow(b, k - i)) % b) + 1]]
    BY <1>1, <1>6
  <1> QED BY <1>4, <1>7 DEF HasDigits, Places_

LEMMA WideUnique ==
    ASSUME NEW b \in Nat, b >= 2, NEW n \in Nat, NEW k \in 1 .. n + 1, Needs(n, b, k)
    PROVE  Wide(n, b) = k
  <1> DEFINE w == Wide(n, b)
  <1>1. w \in 1 .. n + 1 /\ Needs(n, b, w)
    BY DEF Wide
  <1> HIDE DEF w
  <1>2. \A i, j \in 1 .. n + 1 : Needs(n, b, i) /\ Needs(n, b, j) => ~(i < j)
    <2> SUFFICES ASSUME NEW i \in 1 .. n + 1, NEW j \in 1 .. n + 1, Needs(n, b, i), Needs(n, b, j), i < j
                 PROVE  FALSE
      OBVIOUS
    <2>1. i \in Nat /\ j - 1 \in Nat /\ i <= j - 1 /\ j > 1
      OBVIOUS
    <2>2. Pow(b, i) <= Pow(b, j - 1) /\ Pow(b, i) \in Nat /\ Pow(b, j - 1) \in Nat
      BY <2>1, PowGrows
    <2>3. n < Pow(b, i) /\ n >= Pow(b, j - 1)
      BY <2>1 DEF Needs
    <2> QED BY <2>2, <2>3
  <1>3. ~(w < k) /\ ~(k < w)
    BY <1>1, <1>2
  <1> QED BY <1>1, <1>3 DEF w

LEMMA WideExists ==
    ASSUME NEW b \in Nat, b >= 2, NEW n \in Nat
    PROVE  Wide(n, b) \in 1 .. n + 1 /\ Needs(n, b, Wide(n, b))
  <1> DEFINE S == {k \in Nat : k >= 1 /\ n < Pow(b, k)}
  <1>1. n + 1 \in S
    <2>1. Pow(b, n + 1) > n + 1 /\ Pow(b, n + 1) \in Nat
      BY PowGrows
    <2> QED BY <2>1
  <1>2. PICK k \in S : \A j \in S : k <= j
    BY <1>1, Least
  <1>3. k \in 1 .. n + 1
    BY <1>1, <1>2
  <1>4. k > 1 => n >= Pow(b, k - 1)
    <2> SUFFICES ASSUME k > 1, n < Pow(b, k - 1) PROVE FALSE
      <3>1. k - 1 \in Nat \/ k <= 1
        BY <1>3
      <3> QED BY <3>1, PowGrows
    <2>1. k - 1 \in S
      BY <1>3
    <2> QED BY <1>2, <1>3, <2>1
  <1>5. Needs(n, b, k)
    BY <1>2, <1>4 DEF Needs
  <1> QED BY <1>3, <1>5 DEF Wide

\* One digit
LEMMA OneDigit ==
    ASSUME NEW b \in Nat, b >= 2, NEW n \in 0 .. b - 1, NEW upper
    PROVE  C!InDigits(n, b, upper) = <<C!Glyphs(upper)[n + 1]>>
  <1>1. Pow(b, 0) = 1 /\ Pow(b, 1) = b
    <2>1. Pow(b, 0 + 1) = Pow(b, 0) * b /\ 0 + 1 = 1 /\ Pow(b, 0) = 1
      BY PowIs
    <2> QED BY <2>1
  <1>2. Wide(n, b) = 1
    <2>1. Needs(n, b, 1) /\ 1 \in 1 .. n + 1
      BY <1>1 DEF Needs
    <2> QED BY <2>1, WideUnique
  <1>3. C!InDigits(n, b, upper) = [i \in 1 .. 1 |-> C!Glyphs(upper)[((n \div Pow(b, 1 - i)) % b) + 1]]
    <2>1. 1 \in 1 .. n + 1 /\ n \in Nat
      OBVIOUS
    <2>2. HasDigits(C!InDigits(n, b, upper), n, b, upper, 1)
      BY <1>2, <2>1, InDigitsIs
    <2> QED BY <2>2 DEF HasDigits, Places_
  <1>4. (n \div 1) % b = n
    <2>1. n \div 1 = n
      BY QuotientUnique
    <2>2. n % b = n
      OBVIOUS
    <2> QED BY <2>1, <2>2
  <1>5. \A i \in 1 .. 1 : (n \div Pow(b, 1 - i)) % b = n
    <2>1. 1 - 1 = 0
      OBVIOUS
    <2> QED BY <1>1, <1>4, <2>1
  <1>6. [i \in 1 .. 1 |-> C!Glyphs(upper)[((n \div Pow(b, 1 - i)) % b) + 1]] = [i \in 1 .. 1 |-> C!Glyphs(upper)[n + 1]]
    BY <1>5
  <1>7. [i \in 1 .. 1 |-> C!Glyphs(upper)[n + 1]] = <<C!Glyphs(upper)[n + 1]>>
    OBVIOUS
  <1> QED BY <1>3, <1>6, <1>7

\* More digits: those of the quotient, and the remainder
LEMMA MoreDigits ==
    ASSUME NEW b \in Nat, b >= 2, NEW n \in Nat, n >= b, NEW upper, NEW S,
           \A d \in 0 .. b - 1 : C!Glyphs(upper)[d + 1] \in S
    PROVE  /\ n \div b \in 0 .. n - 1
           /\ C!InDigits(n \div b, b, upper) \in Seq(S)
           /\ C!InDigits(n, b, upper) = C!InDigits(n \div b, b, upper) \o <<C!Glyphs(upper)[(n % b) + 1]>>
  <1> DEFINE q == n \div b
             k == Wide(q, b)
             G(m, i) == C!Glyphs(upper)[((m \div Pow(b, i)) % b) + 1]
             s == C!InDigits(q, b, upper)
             e == C!Glyphs(upper)[(n % b) + 1]
  <1>0. b \in Nat \ {0}
    OBVIOUS
  <1>1. q \in Nat /\ b * q <= n /\ n < b * q + b /\ n % b \in 0 .. b - 1
    BY <1>0, QuotientIs
  <1>2. q <= n - 1 /\ q >= 1
    <2>1. b * q >= 2 * q
      <3>1. (b - 2) * q >= 0 /\ (b - 2) * q = b * q - 2 * q
        BY <1>1
      <3> QED BY <1>1, <3>1
    <2>2. q # 0
      BY <1>1
    <2> QED BY <1>1, <2>1, <2>2
  <1>3. k \in 1 .. q + 1 /\ Needs(q, b, k)
    BY <1>1, WideExists
  <1> HIDE DEF k
  <1>4. s = [i \in 1 .. k |-> G(q, k - i)]
    <2>1. HasDigits(s, q, b, upper, k)
      <3> HIDE DEF q
      <3> QED BY <1>1, <1>3, InDigitsIs DEF k
    <2> QED BY <2>1 DEF HasDigits, Places_
  <1> HIDE DEF q, s
  <1>5. k + 1 \in 1 .. n + 1 /\ k \in Nat
    BY <1>2, <1>1, <1>3
  <1>6. PICK w \in 1 .. n + 1 : w = Wide(n, b) /\ w = k + 1
    <2>1. Pow(b, k + 1) = Pow(b, k) * b /\ Pow(b, k) \in Nat
      BY <1>5, PowIs
    <2>2. n < Pow(b, k + 1)
      <3>1. q + 1 <= Pow(b, k)
        BY <1>1, <1>3, <2>1 DEF Needs
      <3>2. (Pow(b, k) - (q + 1)) * b >= 0
        BY <1>1, <2>1, <3>1
      <3>3. (Pow(b, k) - (q + 1)) * b = Pow(b, k) * b - b * q - b
        BY <1>1, <2>1
      <3> QED BY <1>1, <2>1, <3>2, <3>3
    <2>3. n >= Pow(b, k)
      <3>1. CASE k = 1
        <4>1. Pow(b, 0 + 1) = Pow(b, 0) * b /\ 0 + 1 = 1 /\ Pow(b, 0) = 1
          BY PowIs
        <4> QED BY <3>1, <4>1
      <3>2. CASE k > 1
        <4> DEFINE p == Pow(b, k - 1)
        <4>1. k - 1 \in Nat /\ (k - 1) + 1 = k
          BY <1>5, <3>2
        <4>2. p \in Nat /\ Pow(b, k) = p * b /\ q >= p
          BY <1>3, <3>2, <4>1, PowIs DEF Needs
        <4> HIDE DEF p
        <4>3. (q - p) * b >= 0 /\ (q - p) * b = b * q - p * b
          BY <1>1, <4>2
        <4> QED BY <1>1, <4>2, <4>3
      <3> QED BY <1>5, <1>3, <3>1, <3>2
    <2>4. PICK w : w = k + 1
      OBVIOUS
    <2>5. w \in 1 .. n + 1 /\ w - 1 = k
      BY <1>5, <2>4
    <2>6. n < Pow(b, w) /\ n >= Pow(b, w - 1)
      BY <2>2, <2>3, <2>4, <2>5
    <2>7. Needs(n, b, w)
      BY <2>6 DEF Needs
    <2>8. Wide(n, b) = w
      BY <2>5, <2>7, WideUnique
    <2> QED BY <2>4, <2>5, <2>8
  <1>7. C!InDigits(n, b, upper) = [i \in 1 .. w |-> G(n, w - i)]
    <2>1. HasDigits(C!InDigits(n, b, upper), n, b, upper, w)
      BY <1>6, InDigitsIs
    <2> QED BY <2>1 DEF HasDigits, Places_
  <1>8. \A i \in 1 .. k : G(n, w - i) = G(q, k - i)
    <2> SUFFICES ASSUME NEW i \in 1 .. k PROVE G(n, w - i) = G(q, k - i)
      OBVIOUS
    <2> DEFINE j == k - i
    <2>1. j \in Nat /\ w - i = j + 1
      BY <1>5, <1>6
    <2> HIDE DEF j
    <2>2. Pow(b, j + 1) = Pow(b, j) * b /\ Pow(b, j) \in Nat \ {0}
      BY <2>1, PowIs, PowGrows
    <2>3. (n \div b) \div Pow(b, j) = n \div (Pow(b, j) * b)
      BY <2>2, TwiceDivided
    <2>4. n \div Pow(b, w - i) = q \div Pow(b, j)
      BY <2>1, <2>2, <2>3 DEF q
    <2> QED BY <2>4 DEF j
  <1>9. G(n, w - w) = e
    <2>1. w - w = 0 /\ Pow(b, 0) = 1
      BY <1>5, <1>6, PowIs
    <2>2. n \div 1 = n
      BY QuotientUnique
    <2> QED BY <2>1, <2>2
  <1>10. \A i \in 1 .. k : G(q, k - i) \in S
    <2> SUFFICES ASSUME NEW i \in 1 .. k PROVE G(q, k - i) \in S
      OBVIOUS
    <2> DEFINE p == Pow(b, k - i)
    <2>1. k - i \in Nat
      BY <1>5
    <2>2. p \in Nat \ {0}
      BY <2>1, PowGrows
    <2>3. (q \div p) \in Nat
      BY <1>1, <2>2, QuotientIs
    <2> DEFINE x == q \div p
    <2> HIDE DEF x
    <2>4. x % b \in 0 .. b - 1
      BY <1>0, <2>3, QuotientIs DEF x
    <2> QED BY <2>4 DEF x
  <1> HIDE DEF G
  <1>11. s \in Seq(S) /\ Len(s) = k /\ \A i \in 1 .. k : s[i] = G(q, k - i)
    BY <1>4, <1>5, <1>10
  <1>12. e \in S
    BY <1>1
  <1>13. /\ s \o <<e>> = [i \in 1 .. w |-> IF i <= k THEN s[i] ELSE e]
    <2> HIDE DEF e
    <2>1. <<e>> \in Seq(S) /\ Len(<<e>>) = 1 /\ <<e>>[1] = e
      BY <1>12
    <2>2. s \o <<e>> \in Seq(S) /\ Len(s \o <<e>>) = w
      BY <1>5, <1>6, <1>11, <2>1, ConcatProperties
    <2>3. \A i \in 1 .. w : (s \o <<e>>)[i] = IF i <= k THEN s[i] ELSE e
      <3> SUFFICES ASSUME NEW i \in 1 .. w PROVE (s \o <<e>>)[i] = IF i <= k THEN s[i] ELSE e
        OBVIOUS
      <3>1. (s \o <<e>>)[i] = IF i <= Len(s) THEN s[i] ELSE <<e>>[i - Len(s)]
        BY <1>6, <1>11, <2>1, ConcatProperties
      <3>2. i > k => i - k = 1
        BY <1>5, <1>6
      <3> QED BY <1>11, <2>1, <3>1, <3>2
    <2> QED BY <2>2, <2>3
  <1>14. \A i \in 1 .. w : G(n, w - i) = IF i <= k THEN s[i] ELSE e
    <2> HIDE DEF e
    <2> SUFFICES ASSUME NEW i \in 1 .. w PROVE G(n, w - i) = IF i <= k THEN s[i] ELSE e
      OBVIOUS
    <2>1. i > k => i = w
      BY <1>5, <1>6
    <2>2. i <= k => i \in 1 .. k
      BY <1>5
    <2> QED BY <1>8, <1>9, <1>11, <2>1, <2>2
  <1>15. [i \in 1 .. w |-> G(n, w - i)] = [i \in 1 .. w |-> IF i <= k THEN s[i] ELSE e]
    BY <1>14
  <1>16. C!InDigits(n, b, upper) = s \o <<e>>
    BY <1>7, <1>13, <1>15 DEF G
  <1>17. q \in 0 .. n - 1
    BY <1>1, <1>2
  <1> QED BY <1>11, <1>16, <1>17 DEF q, s

-----------------------------------------------------------------------------
PrependOf(f, n, b, alphabet) ==
    f = [m \in 0 .. n |-> (IF m \div b = 0 THEN <<>> ELSE f[m \div b]) \o <<alphabet[(m % b) + 1]>>]

LEMMA PrependedIs ==
    ASSUME NEW b \in Nat, b >= 2, NEW n \in Nat, NEW upper, NEW alphabet, NEW S,
           \A d \in 0 .. b - 1 : alphabet[d + 1] = C!Glyphs(upper)[d + 1] /\ alphabet[d + 1] \in S
    PROVE  /\ Prepended(n, b, alphabet) = C!InDigits(n, b, upper)
           /\ C!InDigits(n, b, upper) \in Seq(S) /\ C!InDigits(n, b, upper) # <<>>
  <1> DEFINE In(m)  == C!InDigits(m, b, upper)
             e(m)   == <<alphabet[(m % b) + 1]>>
             One(h, m) == (IF m \div b = 0 THEN <<>> ELSE h) \o e(m)
             g == CHOOSE f : PrependOf(f, n, b, alphabet)
  <1>1. \A d \in 0 .. b - 1 : C!Glyphs(upper)[d + 1] \in S
    OBVIOUS
  <1>2. ASSUME NEW m \in Nat PROVE e(m) = <<C!Glyphs(upper)[(m % b) + 1]>> /\ e(m) \in Seq(S) /\ e(m) # <<>>
    <2>1. b \in Nat \ {0}
      OBVIOUS
    <2>2. m % b \in 0 .. b - 1
      BY <2>1, QuotientIs
    <2> QED BY <2>2
  <1>3. ASSUME NEW m \in Nat, m >= b
        PROVE  /\ m \div b \in 0 .. m - 1 /\ m \div b # 0
               /\ In(m \div b) \in Seq(S) /\ In(m) = In(m \div b) \o e(m) /\ In(m) \in Seq(S) /\ In(m) # <<>>
    <2>1. /\ m \div b \in 0 .. m - 1 /\ In(m \div b) \in Seq(S)
          /\ In(m) = In(m \div b) \o <<C!Glyphs(upper)[(m % b) + 1]>>
      BY <1>1, <1>3, MoreDigits
    <2>2. m \div b # 0
      <3> DEFINE q == m \div b
      <3>1. b \in Nat \ {0}
        OBVIOUS
      <3>2. q \in Nat /\ m < b * q + b
        BY <3>1, QuotientIs
      <3> HIDE DEF q
      <3>3. q # 0
        BY <1>3, <3>2
      <3> QED BY <3>3 DEF q
    <2>3. In(m) = In(m \div b) \o e(m) /\ e(m) \in Seq(S)
      BY <1>2, <2>1
    <2> HIDE DEF In
    <2>4. In(m) \in Seq(S) /\ In(m) # <<>>
      <3> DEFINE x == In(m \div b)
                 y == alphabet[(m % b) + 1]
      <3>1. x \in Seq(S) /\ <<y>> \in Seq(S) /\ Len(<<y>>) = 1
        BY <2>1, <2>3
      <3> HIDE DEF x, y
      <3>2. x \o <<y>> \in Seq(S) /\ Len(x \o <<y>>) = Len(x) + 1 /\ Len(x) \in Nat
        BY <3>1, ConcatProperties
      <3>3. x \o <<y>> # <<>>
        BY <3>2
      <3> QED BY <2>3, <3>2, <3>3 DEF x, y
    <2> QED BY <2>1, <2>2, <2>3, <2>4
  <1>4. ASSUME NEW m \in Nat, m < b
        PROVE  m \div b = 0 /\ In(m) = e(m)
    <2>1. b \in Nat \ {0} /\ b * 0 <= m /\ m < b * 0 + b /\ 0 \in Nat
      BY <1>4
    <2>2. m \div b = 0
      BY <2>1, QuotientUnique
    <2>3. m \in 0 .. b - 1 /\ m % b = m
      BY <1>4
    <2>4. In(m) = <<C!Glyphs(upper)[m + 1]>>
      BY <2>3, OneDigit
    <2>5. e(m) = <<C!Glyphs(upper)[m + 1]>>
      BY <2>3
    <2> QED BY <2>2, <2>4, <2>5
  <1>5. ASSUME NEW m \in Nat PROVE In(m) \in Seq(S) /\ In(m) # <<>>
    <2>1. CASE m < b
      BY <1>2, <1>4, <2>1
    <2>2. CASE m >= b
      BY <1>3, <2>2
    <2> QED BY <2>1, <2>2
  <1>6. ASSUME NEW m \in Nat PROVE m < b => In(m) = <<>> \o e(m)
    <2> SUFFICES ASSUME m < b PROVE In(m) = <<>> \o e(m)
      OBVIOUS
    <2>1. In(m) = e(m) /\ e(m) \in Seq(S)
      BY <1>2, <1>4
    <2> HIDE DEF e, In
    <2>2. <<>> \o e(m) = e(m)
      BY <2>1, ConcatEmptySeq
    <2> QED BY <2>1, <2>2
  <1>7. \A m \in 0 .. n : In(m) = (IF m \div b = 0 THEN <<>> ELSE In(m \div b)) \o e(m)
    <2> SUFFICES ASSUME NEW m \in 0 .. n PROVE In(m) = One(In(m \div b), m)
      OBVIOUS
    <2>1. m \in Nat
      OBVIOUS
    <2>2. CASE m < b
      BY <1>4, <1>6, <2>1, <2>2
    <2>3. CASE m >= b
      BY <1>3, <2>1, <2>3
    <2> QED BY <2>1, <2>2, <2>3
  <1> HIDE DEF In, e
  <1>8. PrependOf([m \in 0 .. n |-> In(m)], n, b, alphabet)
    <2> DEFINE f == [m \in 0 .. n |-> In(m)]
    <2>1. \A m \in 0 .. n : In(m) = (IF m \div b = 0 THEN <<>> ELSE f[m \div b]) \o <<alphabet[(m % b) + 1]>>
      <3> SUFFICES ASSUME NEW m \in 0 .. n
                   PROVE  In(m) = (IF m \div b = 0 THEN <<>> ELSE f[m \div b]) \o <<alphabet[(m % b) + 1]>>
        OBVIOUS
      <3>1. m \div b # 0 => m \div b \in 0 .. n
        <4>1. m \in Nat /\ (m >= b \/ m < b)
          OBVIOUS
        <4>2. m \div b # 0 => m \div b \in 0 .. m - 1
          BY <1>3, <1>4, <4>1
        <4> QED BY <4>2
      <3>2. m \div b # 0 => f[m \div b] = In(m \div b)
        BY <3>1
      <3> QED BY <1>7, <3>2 DEF e
    <2> QED BY <2>1 DEF PrependOf
  <1>9. PrependOf(g, n, b, alphabet)
    BY <1>8
  <1>10. Prepended(n, b, alphabet) = g[n]
    BY DEF Prepended, PrependOf
  <1> HIDE DEF g
  <1>11. \A m \in 0 .. n : g[m] = (IF m \div b = 0 THEN <<>> ELSE g[m \div b]) \o e(m)
    BY <1>9 DEF PrependOf, e
  <1>12. \A m \in Nat : \A j \in 0 .. m : j <= n => g[j] = In(j)
    <2> DEFINE T == {m \in Nat : \A j \in 0 .. m : j <= n => g[j] = In(j)}
    <2>0. ASSUME NEW j \in 0 .. n, \A i \in 0 .. j - 1 : g[i] = In(i) PROVE g[j] = In(j)
      <3>1. j \in Nat
        OBVIOUS
      <3>2. CASE j < b
        BY <1>4, <1>6, <1>11, <3>1, <3>2
      <3>3. CASE j >= b
        <4>1. j \div b # 0 /\ j \div b \in 0 .. j - 1 /\ In(j) = In(j \div b) \o e(j)
          BY <1>3, <3>1, <3>3
        <4>2. g[j \div b] = In(j \div b)
          BY <2>0, <4>1
        <4> QED BY <1>11, <4>1, <4>2
      <3> QED BY <3>1, <3>2, <3>3
    <2>1. 0 \in T
      <3>1. n >= 0 /\ 0 \in 0 .. n /\ \A i \in 0 .. 0 - 1 : g[i] = In(i)
        OBVIOUS
      <3>2. g[0] = In(0)
        BY <2>0, <3>1
      <3>3. \A j \in 0 .. 0 : j = 0
        OBVIOUS
      <3> QED BY <3>2, <3>3
    <2>2. ASSUME NEW m \in Nat, m \in T PROVE m + 1 \in T
      <3> SUFFICES ASSUME NEW j \in 0 .. m + 1, j <= n PROVE g[j] = In(j)
        OBVIOUS
      <3>1. \A i \in 0 .. j - 1 : i \in 0 .. m /\ i <= n
        OBVIOUS
      <3>2. \A i \in 0 .. j - 1 : g[i] = In(i)
        BY <2>2, <3>1
      <3> QED BY <2>0, <3>2
    <2> HIDE DEF T
    <2>3. \A m \in Nat : m \in T
      BY <2>1, <2>2, Induct
    <2> QED BY <2>3 DEF T
  <1>13. g[n] = In(n)
    <2>1. n \in 0 .. n /\ n <= n
      OBVIOUS
    <2> QED BY <1>12, <2>1
  <1> QED BY <1>5, <1>10, <1>13 DEF In

GlyphSet == {C!Glyphs(upper)[d] : upper \in BOOLEAN, d \in 1 .. 16}

\* The digits of both, in the three bases that printf has
LEMMA InBaseIs ==
    ASSUME NEW b \in {8, 10, 16}, NEW n \in Nat, NEW upper \in BOOLEAN
    PROVE  /\ InBase(n, b, upper) = C!InDigits(n, b, upper)
           /\ C!InDigits(n, b, upper) \in Seq(GlyphSet) /\ C!InDigits(n, b, upper) # <<>>
  <1> DEFINE alphabet == IF upper THEN Upper ELSE Lower
  <1>1. \A d \in 0 .. 15 : alphabet[d + 1] = C!Glyphs(upper)[d + 1] /\ alphabet[d + 1] \in GlyphSet
    <2>0. \A u \in BOOLEAN, d \in 1 .. 16 : C!Glyphs(u)[d] \in GlyphSet
      BY DEF GlyphSet
    <2>1. CASE upper = TRUE
      <3> DEFINE A == Upper
                 G == C!Glyphs(TRUE)
      <3>1. A[1] = "0" /\ G[1] = "0"
        BY DEF Upper, C!Glyphs
      <3>2. A[2] = "1" /\ G[2] = "1"
        BY DEF Upper, C!Glyphs
      <3>3. A[3] = "2" /\ G[3] = "2"
        BY DEF Upper, C!Glyphs
      <3>4. A[4] = "3" /\ G[4] = "3"
        BY DEF Upper, C!Glyphs
      <3>5. A[5] = "4" /\ G[5] = "4"
        BY DEF Upper, C!Glyphs
      <3>6. A[6] = "5" /\ G[6] = "5"
        BY DEF Upper, C!Glyphs
      <3>7. A[7] = "6" /\ G[7] = "6"
        BY DEF Upper, C!Glyphs
      <3>8. A[8] = "7" /\ G[8] = "7"
        BY DEF Upper, C!Glyphs
      <3>9. A[9] = "8" /\ G[9] = "8"
        BY DEF Upper, C!Glyphs
      <3>10. A[10] = "9" /\ G[10] = "9"
        BY DEF Upper, C!Glyphs
      <3>11. A[11] = "A" /\ G[11] = "A"
        BY DEF Upper, C!Glyphs
      <3>12. A[12] = "B" /\ G[12] = "B"
        BY DEF Upper, C!Glyphs
      <3>13. A[13] = "C" /\ G[13] = "C"
        BY DEF Upper, C!Glyphs
      <3>14. A[14] = "D" /\ G[14] = "D"
        BY DEF Upper, C!Glyphs
      <3>15. A[15] = "E" /\ G[15] = "E"
        BY DEF Upper, C!Glyphs
      <3>16. A[16] = "F" /\ G[16] = "F"
        BY DEF Upper, C!Glyphs
      <3> HIDE DEF A, G
      <3>17. ASSUME NEW d \in 1 .. 16 PROVE A[d] = G[d]
        <4>1. \/ d = 1 \/ d = 2 \/ d = 3 \/ d = 4 \/ d = 5 \/ d = 6 \/ d = 7 \/ d = 8
              \/ d = 9 \/ d = 10 \/ d = 11 \/ d = 12 \/ d = 13 \/ d = 14 \/ d = 15 \/ d = 16
          OBVIOUS
        <4> QED BY <4>1, <3>1, <3>2, <3>3, <3>4, <3>5, <3>6, <3>7, <3>8, <3>9, <3>10, <3>11, <3>12, <3>13, <3>14, <3>15, <3>16
      <3>18. \A d \in 0 .. 15 : d + 1 \in 1 .. 16
        OBVIOUS
      <3>19. \A d \in 0 .. 15 : A[d + 1] = G[d + 1]
        BY <3>17, <3>18
      <3> QED BY <2>0, <2>1, <3>18, <3>19 DEF A, G
    <2>2. CASE upper = FALSE
      <3> DEFINE A == Lower
                 G == C!Glyphs(FALSE)
      <3>1. A[1] = "0" /\ G[1] = "0"
        BY DEF Lower, C!Glyphs
      <3>2. A[2] = "1" /\ G[2] = "1"
        BY DEF Lower, C!Glyphs
      <3>3. A[3] = "2" /\ G[3] = "2"
        BY DEF Lower, C!Glyphs
      <3>4. A[4] = "3" /\ G[4] = "3"
        BY DEF Lower, C!Glyphs
      <3>5. A[5] = "4" /\ G[5] = "4"
        BY DEF Lower, C!Glyphs
      <3>6. A[6] = "5" /\ G[6] = "5"
        BY DEF Lower, C!Glyphs
      <3>7. A[7] = "6" /\ G[7] = "6"
        BY DEF Lower, C!Glyphs
      <3>8. A[8] = "7" /\ G[8] = "7"
        BY DEF Lower, C!Glyphs
      <3>9. A[9] = "8" /\ G[9] = "8"
        BY DEF Lower, C!Glyphs
      <3>10. A[10] = "9" /\ G[10] = "9"
        BY DEF Lower, C!Glyphs
      <3>11. A[11] = "a" /\ G[11] = "a"
        BY DEF Lower, C!Glyphs
      <3>12. A[12] = "b" /\ G[12] = "b"
        BY DEF Lower, C!Glyphs
      <3>13. A[13] = "c" /\ G[13] = "c"
        BY DEF Lower, C!Glyphs
      <3>14. A[14] = "d" /\ G[14] = "d"
        BY DEF Lower, C!Glyphs
      <3>15. A[15] = "e" /\ G[15] = "e"
        BY DEF Lower, C!Glyphs
      <3>16. A[16] = "f" /\ G[16] = "f"
        BY DEF Lower, C!Glyphs
      <3> HIDE DEF A, G
      <3>17. ASSUME NEW d \in 1 .. 16 PROVE A[d] = G[d]
        <4>1. \/ d = 1 \/ d = 2 \/ d = 3 \/ d = 4 \/ d = 5 \/ d = 6 \/ d = 7 \/ d = 8
              \/ d = 9 \/ d = 10 \/ d = 11 \/ d = 12 \/ d = 13 \/ d = 14 \/ d = 15 \/ d = 16
          OBVIOUS
        <4> QED BY <4>1, <3>1, <3>2, <3>3, <3>4, <3>5, <3>6, <3>7, <3>8, <3>9, <3>10, <3>11, <3>12, <3>13, <3>14, <3>15, <3>16
      <3>18. \A d \in 0 .. 15 : d + 1 \in 1 .. 16
        OBVIOUS
      <3>19. \A d \in 0 .. 15 : A[d + 1] = G[d + 1]
        BY <3>17, <3>18
      <3> QED BY <2>0, <2>2, <3>18, <3>19 DEF A, G
    <2> QED BY <2>1, <2>2
  <1>2. InBase(n, b, upper) = Prepended(n, b, alphabet)
    BY DEF InBase
  <1> HIDE DEF alphabet
  <1>3. b \in Nat /\ b >= 2 /\ \A d \in 0 .. b - 1 : d \in 0 .. 15
    OBVIOUS
  <1>4. \A d \in 0 .. b - 1 : alphabet[d + 1] = C!Glyphs(upper)[d + 1] /\ alphabet[d + 1] \in GlyphSet
    BY <1>1, <1>3
  <1>5. /\ Prepended(n, b, alphabet) = C!InDigits(n, b, upper)
        /\ C!InDigits(n, b, upper) \in Seq(GlyphSet) /\ C!InDigits(n, b, upper) # <<>>
    BY <1>3, <1>4, PrependedIs
  <1> QED BY <1>2, <1>5

-----------------------------------------------------------------------------
(***************************************************************************)
(* What p_fmt reads of a directive as it is spelled.                       *)
(***************************************************************************)
\* u stands in t, behind the first n of it.
Stands(t, u, n) == n + Len(u) <= Len(t) /\ \A i \in 1 .. Len(u) : t[n + i] = u[i]

LEMMA StandsIn ==
    ASSUME NEW S, NEW t \in Seq(S), NEW v \in Seq(S)
    PROVE  /\ t \o v \in Seq(S) /\ Len(t \o v) = Len(t) + Len(v) /\ Len(t) \in Nat /\ Len(v) \in Nat
           /\ Stands(t \o v, v, Len(t))
           /\ \A u \in Seq(S), n \in Nat : Stands(t, u, n) => Stands(t \o v, u, n)
  <1> DEFINE w == t \o v
  <1>1. /\ w \in Seq(S) /\ Len(w) = Len(t) + Len(v) /\ Len(t) \in Nat /\ Len(v) \in Nat
        /\ \A i \in 1 .. Len(t) + Len(v) : w[i] = IF i <= Len(t) THEN t[i] ELSE v[i - Len(t)]
    BY ConcatProperties
  <1> HIDE DEF w
  <1>2. Stands(w, v, Len(t))
    <2> SUFFICES ASSUME NEW i \in 1 .. Len(v) PROVE w[Len(t) + i] = v[i]
      BY <1>1 DEF Stands
    <2>1. Len(t) + i \in 1 .. Len(t) + Len(v) /\ ~(Len(t) + i <= Len(t)) /\ Len(t) + i - Len(t) = i
      BY <1>1
    <2> QED BY <1>1, <2>1
  <1>3. ASSUME NEW u \in Seq(S), NEW n \in Nat, Stands(t, u, n) PROVE Stands(w, u, n)
    <2>1. Len(u) \in Nat /\ n + Len(u) <= Len(t) /\ \A i \in 1 .. Len(u) : t[n + i] = u[i]
      BY <1>3 DEF Stands
    <2>2. \A i \in 1 .. Len(u) : n + i \in 1 .. Len(t) + Len(v) /\ n + i <= Len(t)
      BY <1>1, <2>1
    <2>3. \A i \in 1 .. Len(u) : w[n + i] = t[n + i]
      BY <1>1, <2>2
    <2> QED BY <1>1, <2>1, <2>3 DEF Stands
  <1> QED BY <1>1, <1>2, <1>3 DEF w

LEMMA RestOf ==
    ASSUME NEW S, NEW s \in Seq(S), NEW r \in Seq(S), NEW e \in Nat, NEW n \in Nat, NEW m \in Nat,
           n = Len(s), m = Len(r), n = e + m, \A i \in 1 .. m : s[e + i] = r[i]
    PROVE  SubSeq(s, e + 1, Len(s)) = r
  <1>1. \A i \in e + 1 .. n : s[i] \in S
    <2>1. \A i \in 1 .. Len(s) : s[i] \in S
      BY ElementOfSeq
    <2>2. \A i \in e + 1 .. n : i \in 1 .. Len(s)
      OBVIOUS
    <2> QED BY <2>1, <2>2
  <1>2. /\ SubSeq(s, e + 1, n) \in Seq(S)
        /\ Len(SubSeq(s, e + 1, n)) = IF e + 1 <= n THEN n - (e + 1) + 1 ELSE 0
        /\ \A i \in 1 .. n - (e + 1) + 1 : SubSeq(s, e + 1, n)[i] = s[e + 1 + i - 1]
    <2>1. e + 1 \in Int /\ n \in Int
      OBVIOUS
    <2> QED BY <1>1, <2>1, SubSeqProperties
  <1>3. Len(SubSeq(s, e + 1, n)) = m
    BY <1>2
  <1>4. \A i \in 1 .. m : SubSeq(s, e + 1, n)[i] = r[i]
    <2> SUFFICES ASSUME NEW i \in 1 .. m PROVE SubSeq(s, e + 1, n)[i] = r[i]
      OBVIOUS
    <2>1. i \in 1 .. n - (e + 1) + 1 /\ e + 1 + i - 1 = e + i
      OBVIOUS
    <2> QED BY <1>2, <2>1
  <1> DEFINE u == SubSeq(s, e + 1, n)
  <1>5. u \in Seq(S) /\ Len(u) = Len(r) /\ \A i \in 1 .. Len(u) : u[i] = r[i]
    BY <1>2, <1>3, <1>4
  <1> HIDE DEF u
  <1>6. u = r
    BY <1>5, SeqEqual
  <1> QED BY <1>6 DEF u

\* Where the parts of a directive stand
Laid(s, w, a, p, l, c, r) ==
    /\ Len(s) = 2 + Len(w) + Len(a) + Len(p) + Len(l) + Len(r)
    /\ s[1] = "%" /\ Stands(s, w, 1) /\ Stands(s, a, 1 + Len(w)) /\ Stands(s, p, 1 + Len(w) + Len(a))
    /\ Stands(s, l, 1 + Len(w) + Len(a) + Len(p)) /\ s[2 + Len(w) + Len(a) + Len(p) + Len(l)] = c
    /\ Stands(s, r, 2 + Len(w) + Len(a) + Len(p) + Len(l))

LEMMA LaidOut ==
    ASSUME NEW S, "%" \in S, NEW w \in Seq(S), NEW a \in Seq(S), NEW p \in Seq(S), NEW l \in Seq(S),
           NEW c \in S, NEW r \in Seq(S)
    PROVE  /\ <<"%">> \o w \o a \o p \o l \o <<c>> \in Seq(S)
           /\ <<"%">> \o w \o a \o p \o l \o <<c>> \o r \in Seq(S)
           /\ Laid(<<"%">> \o w \o a \o p \o l \o <<c>> \o r, w, a, p, l, c, r)
  <1> DEFINE s1 == <<"%">>
             s2 == s1 \o w
             s3 == s2 \o a
             s4 == s3 \o p
             s5 == s4 \o l
             x  == <<c>>
             s6 == s5 \o x
             s7 == s6 \o r
  <1>0. <<c>> \in Seq(S) /\ Len(<<c>>) = 1 /\ <<c>>[1] = c /\ <<"%">> \in Seq(S) /\ Len(<<"%">>) = 1 /\ <<"%">>[1] = "%"
    OBVIOUS
  <1>1. s1 \in Seq(S) /\ Len(s1) = 1 /\ Stands(s1, <<"%">>, 0)
    BY <1>0 DEF Stands
  <1>2. /\ s2 \in Seq(S) /\ Len(s2) = 1 + Len(w) /\ Len(w) \in Nat
        /\ Stands(s2, w, 1) /\ Stands(s2, <<"%">>, 0)
    <2> HIDE DEF s1
    <2> QED BY <1>0, <1>1, StandsIn
  <1> HIDE DEF s2
  <1>3. /\ s3 \in Seq(S) /\ Len(s3) = 1 + Len(w) + Len(a) /\ Len(a) \in Nat
        /\ Stands(s3, a, 1 + Len(w)) /\ Stands(s3, w, 1) /\ Stands(s3, <<"%">>, 0)
    BY <1>0, <1>2, StandsIn
  <1> HIDE DEF s3
  <1>4. /\ s4 \in Seq(S) /\ Len(s4) = 1 + Len(w) + Len(a) + Len(p) /\ Len(p) \in Nat
        /\ Stands(s4, p, 1 + Len(w) + Len(a))
        /\ Stands(s4, a, 1 + Len(w)) /\ Stands(s4, w, 1) /\ Stands(s4, <<"%">>, 0)
    <2>1. 1 + Len(w) \in Nat
      BY <1>2
    <2> QED BY <1>0, <1>3, <2>1, StandsIn
  <1> HIDE DEF s4
  <1>5. /\ s5 \in Seq(S) /\ Len(s5) = 1 + Len(w) + Len(a) + Len(p) + Len(l) /\ Len(l) \in Nat
        /\ Stands(s5, l, 1 + Len(w) + Len(a) + Len(p)) /\ Stands(s5, p, 1 + Len(w) + Len(a))
        /\ Stands(s5, a, 1 + Len(w)) /\ Stands(s5, w, 1) /\ Stands(s5, <<"%">>, 0)
    <2>1. 1 + Len(w) \in Nat /\ 1 + Len(w) + Len(a) \in Nat
      BY <1>2, <1>3
    <2> QED BY <1>0, <1>4, <2>1, StandsIn
  <1> HIDE DEF s5
  <1>6. /\ s6 \in Seq(S) /\ Len(s6) = 2 + Len(w) + Len(a) + Len(p) + Len(l)
        /\ Stands(s6, <<c>>, 1 + Len(w) + Len(a) + Len(p) + Len(l))
        /\ Stands(s6, l, 1 + Len(w) + Len(a) + Len(p)) /\ Stands(s6, p, 1 + Len(w) + Len(a))
        /\ Stands(s6, a, 1 + Len(w)) /\ Stands(s6, w, 1) /\ Stands(s6, <<"%">>, 0)
    <2>1. /\ 1 + Len(w) \in Nat /\ 1 + Len(w) + Len(a) \in Nat /\ 1 + Len(w) + Len(a) + Len(p) \in Nat
      BY <1>2, <1>3, <1>4
    <2>2. /\ s6 \in Seq(S) /\ Len(s6) = Len(s5) + 1 /\ Stands(s6, <<c>>, Len(s5))
          /\ \A u \in Seq(S), n \in Nat : Stands(s5, u, n) => Stands(s6, u, n)
      <3>1. /\ x \in Seq(S) /\ Len(x) = 1 /\ x = <<c>>
        BY <1>0
      <3> HIDE DEF x
      <3>0. s5 \in Seq(S) /\ x \in Seq(S)
        BY <1>5, <3>1
      <3>2. /\ s6 \in Seq(S) /\ Len(s6) = Len(s5) + 1 /\ Stands(s6, x, Len(s5))
            /\ \A u \in Seq(S), n \in Nat : Stands(s5, u, n) => Stands(s6, u, n)
        BY <3>0, <3>1, StandsIn
      <3> HIDE DEF s6
      <3> QED BY <3>1, <3>2
    <2>3. Len(s6) = 2 + Len(w) + Len(a) + Len(p) + Len(l)
      BY <1>2, <1>3, <1>4, <1>5, <2>2
    <2> QED BY <1>0, <1>5, <2>1, <2>2, <2>3
  <1> HIDE DEF s6
  <1>7. /\ s7 \in Seq(S) /\ Len(s7) = 2 + Len(w) + Len(a) + Len(p) + Len(l) + Len(r)
        /\ Stands(s7, r, 2 + Len(w) + Len(a) + Len(p) + Len(l))
        /\ Stands(s7, <<c>>, 1 + Len(w) + Len(a) + Len(p) + Len(l))
        /\ Stands(s7, l, 1 + Len(w) + Len(a) + Len(p)) /\ Stands(s7, p, 1 + Len(w) + Len(a))
        /\ Stands(s7, a, 1 + Len(w)) /\ Stands(s7, w, 1) /\ Stands(s7, <<"%">>, 0)
    <2>1. /\ 1 + Len(w) \in Nat /\ 1 + Len(w) + Len(a) \in Nat /\ 1 + Len(w) + Len(a) + Len(p) \in Nat
          /\ 1 + Len(w) + Len(a) + Len(p) + Len(l) \in Nat
      BY <1>2, <1>3, <1>4, <1>5
    <2> QED BY <1>0, <1>6, <2>1, StandsIn
  <1> HIDE DEF s7
  <1>8. s7[1] = "%"
    <2>1. 1 \in 1 .. Len(<<"%">>) /\ 0 + 1 = 1
      BY <1>0
    <2>2. s7[0 + 1] = <<"%">>[1]
      BY <1>7, <2>1 DEF Stands
    <2> QED BY <1>0, <2>1, <2>2
  <1>9. s7[2 + Len(w) + Len(a) + Len(p) + Len(l)] = c
    <2>1. 1 \in 1 .. Len(<<c>>) /\ (1 + Len(w) + Len(a) + Len(p) + Len(l)) + 1 = 2 + Len(w) + Len(a) + Len(p) + Len(l)
      BY <1>0, <1>2, <1>3, <1>4, <1>5
    <2>2. s7[(1 + Len(w) + Len(a) + Len(p) + Len(l)) + 1] = <<c>>[1]
      BY <1>7, <2>1 DEF Stands
    <2> QED BY <1>0, <2>1, <2>2
  <1> QED BY <1>6, <1>7, <1>8, <1>9 DEF Laid, s1, s2, s3, s4, s5, s6, s7, x

-----------------------------------------------------------------------------
\* Digits of a width or a precision, and what can stand behind them
Decimals == {Lower[i] : i \in 1 .. 10}
Marks    == {".", "l", "d", "i", "u", "o", "x", "X", "s", "c", "p", "%", "n"}

LEMMA DecimalsAre ==
    /\ \A c \in Decimals : IsDigit(10, c) /\ c \in DigitsBelow(10) /\ c # "*"
    /\ \A c \in Decimals : c # "0" => c \notin FlagChars
    /\ \A c \in Marks : ~IsDigit(10, c) /\ c \notin FlagChars /\ c # "*"
  <1> DEFINE Is(c, i) == c \in {Lower[i], Upper[i]}
             At(c)    == CHOOSE i \in 1 .. 36 : Is(c, i)
  <1>0. DigitSet = {Lower[i] : i \in 1 .. 36} \cup {Upper[i] : i \in 1 .. 36}
    BY DEF DigitSet, DigitOf
  <1>1. \A c \in DigitSet : DigitOf[c] = At(c) - 1
    BY DEF DigitSet, DigitOf
  <1>2. \A c \in DigitSet : At(c) \in 1 .. 36 /\ Is(c, At(c))
    BY <1>0
  <1>3. \A c \in Marks : \A i \in 1 .. 10 : ~Is(c, i)
    <2> SUFFICES ASSUME NEW c \in Marks, NEW i \in 1 .. 10 PROVE ~Is(c, i)
      OBVIOUS
    <2>1. /\ Lower[i] \in {"0", "1", "2", "3", "4", "5", "6", "7", "8", "9"}
          /\ Upper[i] \in {"0", "1", "2", "3", "4", "5", "6", "7", "8", "9"}
      BY DEF Lower, Upper
    <2> QED BY <2>1 DEF Marks
  <1>4. \A c \in Decimals : c \in {"0", "1", "2", "3", "4", "5", "6", "7", "8", "9"}
    BY DEF Decimals, Lower
  <1>5. \A i, j \in 1 .. 36 : i <= 10 /\ Is(Lower[i], j) => j = i
    <2> SUFFICES ASSUME NEW i \in 1 .. 36, NEW j \in 1 .. 36, i <= 10, j # i PROVE ~Is(Lower[i], j)
      OBVIOUS
    <2>1. \/ i = 1 \/ i = 2 \/ i = 3 \/ i = 4 \/ i = 5 \/ i = 6 \/ i = 7 \/ i = 8 \/ i = 9 \/ i = 10
      OBVIOUS
    <2>2. CASE i = 1
      BY <2>2 DEF Lower, Upper
    <2>3. CASE i = 2
      BY <2>3 DEF Lower, Upper
    <2>4. CASE i = 3
      BY <2>4 DEF Lower, Upper
    <2>5. CASE i = 4
      BY <2>5 DEF Lower, Upper
    <2>6. CASE i = 5
      BY <2>6 DEF Lower, Upper
    <2>7. CASE i = 6
      BY <2>7 DEF Lower, Upper
    <2>8. CASE i = 7
      BY <2>8 DEF Lower, Upper
    <2>9. CASE i = 8
      BY <2>9 DEF Lower, Upper
    <2>10. CASE i = 9
      BY <2>10 DEF Lower, Upper
    <2>11. CASE i = 10
      BY <2>11 DEF Lower, Upper
    <2> QED BY <2>1, <2>2, <2>3, <2>4, <2>5, <2>6, <2>7, <2>8, <2>9, <2>10, <2>11
  <1> HIDE DEF Is, At
  <1>6. ASSUME NEW c \in Decimals PROVE IsDigit(10, c) /\ c \in DigitsBelow(10)
    <2>1. PICK i \in 1 .. 10 : c = Lower[i]
      BY DEF Decimals
    <2>2. i \in 1 .. 36 /\ c \in DigitSet
      BY <1>0, <2>1
    <2>3. At(c) = i
      BY <1>2, <1>5, <2>1, <2>2
    <2>4. DigitOf[c] < 10
      BY <1>1, <2>2, <2>3
    <2> QED BY <2>2, <2>4, IsDigitIs DEF DigitsBelow
  <1>7. ASSUME NEW c \in Marks PROVE ~IsDigit(10, c)
    <2> SUFFICES ASSUME c \in DigitSet PROVE ~(DigitOf[c] < 10)
      BY IsDigitIs
    <2>1. At(c) \notin 1 .. 10 /\ At(c) \in 1 .. 36
      BY <1>2, <1>3
    <2> QED BY <1>1, <2>1
  <1>8. \A c \in Decimals : c # "*" /\ (c # "0" => c \notin FlagChars)
    BY <1>4 DEF FlagChars
  <1>9. \A c \in Marks : c \notin FlagChars /\ c # "*"
    BY DEF Marks, FlagChars
  <1> QED BY <1>6, <1>7, <1>8, <1>9

FlagsEnd(s) == Min({j \in 2 .. Len(s) + 1 : j > Len(s) \/ ~(s[j] \in FlagChars)})

LEMMA FlagsEndIs ==
    ASSUME NEW s, Len(s) \in Nat, NEW e \in 2 .. Len(s),
           \A j \in 2 .. e - 1 : s[j] \in FlagChars, s[e] \notin FlagChars
    PROVE  FlagsEnd(s) = e
  <1> DEFINE S == {j \in 2 .. Len(s) + 1 : j > Len(s) \/ ~(s[j] \in FlagChars)}
  <1>1. S \subseteq Int /\ e \in S
    OBVIOUS
  <1>2. \A y \in S : e <= y
    <2> SUFFICES ASSUME NEW y \in S, y < e PROVE FALSE
      BY <1>1
    <2>1. y \in 2 .. e - 1 /\ y <= Len(s)
      OBVIOUS
    <2> QED BY <2>1
  <1>3. FlagsEnd(s) = Min(S)
    BY DEF FlagsEnd
  <1> HIDE DEF S
  <1> QED BY <1>1, <1>2, <1>3, MinIs

LEMMA DigitsEndIs ==
    ASSUME NEW s, Len(s) \in Nat, NEW i \in 1 .. Len(s), NEW e \in i .. Len(s),
           \A j \in i .. e - 1 : IsDigit(10, s[j]), ~IsDigit(10, s[e])
    PROVE  EndAt(s, i, 10) = e
  <1> DEFINE S == {j \in i .. Len(s) + 1 : j > Len(s) \/ ~IsDigit(10, s[j])}
  <1>1. S \subseteq Int /\ e \in S
    OBVIOUS
  <1>2. \A y \in S : e <= y
    <2> SUFFICES ASSUME NEW y \in S, y < e PROVE FALSE
      BY <1>1
    <2>1. y \in i .. e - 1 /\ y <= Len(s)
      OBVIOUS
    <2> QED BY <2>1
  <1>3. EndAt(s, i, 10) = Min(S)
    BY DEF EndAt
  <1> HIDE DEF S
  <1> QED BY <1>1, <1>2, <1>3, MinIs

\* sscan_int of a number that stands in s
ScanOf(f, s, i, j) == f = [k \in 0 .. j - i |-> IF k = 0 THEN 0 ELSE f[k - 1] * 10 + DigitOf[s[i + k - 1]]]

LEMMA ScanIs ==
    ASSUME NEW t \in Seq(Decimals), NEW s, NEW n \in Nat, Stands(s, t, n)
    PROVE  ScanInt(s, n + 1, n + 1 + Len(t)) = C!Positional(t, 10) /\ C!Positional(t, 10) \in Nat
  <1>1. Len(t) \in Nat /\ t \in Seq(DigitsBelow(10))
    <2>1. Decimals \subseteq DigitsBelow(10)
      BY DecimalsAre
    <2> QED BY <2>1, SeqMonotonic
  <1> DEFINE m == n + 1 + Len(t)
             i == n + 1
  <1>2. ASSUME NEW f PROVE ScanOf(f, s, i, m) <=> ValueOf(f, t, 10)
    <2>1. \A k \in 1 .. Len(t) : s[i + k - 1] = t[k]
      <3> SUFFICES ASSUME NEW k \in 1 .. Len(t) PROVE s[i + k - 1] = t[k]
        OBVIOUS
      <3>1. s[n + k] = t[k]
        BY DEF Stands
      <3>2. i + k - 1 = n + k
        OBVIOUS
      <3> QED BY <3>1, <3>2
    <2>2. m - i = Len(t)
      BY <1>1
    <2> HIDE DEF m, i
    <2> DEFINE a(k) == IF k = 0 THEN 0 ELSE f[k - 1] * 10 + DigitOf[s[i + k - 1]]
               b(k) == IF k = 0 THEN 0 ELSE f[k - 1] * 10 + DigitOf[t[k]]
    <2>3. \A k \in 0 .. Len(t) : a(k) = b(k)
      <3> SUFFICES ASSUME NEW k \in 0 .. Len(t), k # 0 PROVE a(k) = b(k)
        OBVIOUS
      <3>1. k \in 1 .. Len(t)
        BY <1>1
      <3>2. s[i + k - 1] = t[k]
        BY <2>1, <3>1
      <3> QED BY <3>2
    <2>4. ScanOf(f, s, i, m) <=> f = [k \in 0 .. Len(t) |-> a(k)]
      BY <2>2 DEF ScanOf
    <2>5. ValueOf(f, t, 10) <=> f = [k \in 0 .. Len(t) |-> b(k)]
      BY DEF ValueOf
    <2> HIDE DEF a, b
    <2>6. [k \in 0 .. Len(t) |-> a(k)] = [k \in 0 .. Len(t) |-> b(k)]
      BY <2>3
    <2> QED BY <2>4, <2>5, <2>6
  <1>3. m - i = Len(t)
    BY <1>1
  <1> HIDE DEF m, i
  <1>4. (CHOOSE f : ScanOf(f, s, i, m)) = Value(t, 10)
    BY <1>2 DEF Value
  <1>5. ScanInt(s, i, m) = (CHOOSE f : ScanOf(f, s, i, m))[m - i]
    BY DEF ScanInt, ScanOf
  <1>6. ValueRuns(t, 10, Len(t))
    <2>1. 10 \in 2 .. 36
      OBVIOUS
    <2> QED BY <1>1, <2>1, ValueIs
  <1>7. C!Positional(t, 10) = Value(t, 10)[Len(t)] /\ Value(t, 10)[Len(t)] \in Nat
    BY <1>1, <1>6 DEF ValueRuns
  <1> QED BY <1>3, <1>4, <1>5, <1>7 DEF m, i

-----------------------------------------------------------------------------
\* The parts of a directive, and what its arguments are
Signs       == FlagChars \cup Decimals \cup Marks \cup {"*"}
LongMark(d) == IF d.long THEN <<"l">> ELSE <<>>
BitsOf(d)   == IF d.long THEN LONG_BITS ELSE INT_BITS
OwnArg(d)   == IF d.conv \in {"text", "%"} THEN <<>> ELSE <<d.arg>>

LEMMA DirectiveHas ==
    ASSUME NEW d, IsDirective(d)
    PROVE  /\ d.written \in Seq(FlagChars) /\ d.wide \in Seq(Decimals) /\ d.dotted \in Seq(Signs)
           /\ LongMark(d) \in Seq(Marks) /\ Len(LongMark(d)) = IF d.long THEN 1 ELSE 0
           /\ d.long => LongMark(d)[1] = "l"
           /\ d.conv \in Marks \ {".", "l"} /\ d.flags = Range(d.written)
           /\ d.wide # <<>> => d.wide[1] # "0"
           /\ d.width = C!Positional(d.wide, 10)
  <1>1. /\ d.written \in Seq(FlagChars) /\ d.flags = Range(d.written) /\ (d.wide # <<>> => d.wide[1] # "0")
        /\ IsDecimal(d.wide, d.width) /\ IsPrecision(d) /\ Carries(d) /\ d.long \in BOOLEAN
    BY DEF IsDirective
  <1>2. d.wide \in Seq(Decimals) /\ d.width = C!Positional(d.wide, 10)
    BY <1>1 DEF IsDecimal, Decimals
  <1>3. d.dotted \in Seq(Signs)
    <2>1. "." \in Signs /\ "*" \in Signs
      BY DEF Signs, Marks
    <2>2. CASE d.dotted = <<>>
      BY <2>2
    <2>3. CASE d.dotted = <<".", "*">>
      BY <2>1, <2>3
    <2>4. CASE d.dotted = <<".">> \o Tail(d.dotted) /\ IsDecimal(Tail(d.dotted), d.precision)
      <3> DEFINE t == Tail(d.dotted)
      <3>1. t \in Seq(Decimals) /\ d.dotted = <<".">> \o t
        BY <2>4 DEF IsDecimal, Decimals
      <3> HIDE DEF t
      <3>2. t \in Seq(Signs)
        <4>1. Decimals \subseteq Signs
          BY DEF Signs
        <4> QED BY <3>1, <4>1, SeqMonotonic
      <3>3. <<".">> \in Seq(Signs)
        BY <2>1
      <3> QED BY <3>1, <3>2, <3>3, ConcatProperties
    <2> QED BY <1>1, <2>2, <2>3, <2>4 DEF IsPrecision
  <1>4. d.conv \in Marks \ {".", "l"}
    BY <1>1 DEF Carries, Marks
  <1>5. /\ LongMark(d) \in Seq(Marks) /\ Len(LongMark(d)) = IF d.long THEN 1 ELSE 0
        /\ d.long => LongMark(d)[1] = "l"
    <2>1. "l" \in Marks
      BY DEF Marks
    <2> QED BY <1>1, <2>1 DEF LongMark
  <1> QED BY <1>1, <1>2, <1>3, <1>4, <1>5

LEMMA FirstOf ==
    ASSUME NEW A, NEW x \in A, NEW t \in Seq(A)
    PROVE  /\ <<x>> \o t \in Seq(A) /\ Len(<<x>> \o t) = Len(t) + 1 /\ <<x>> \o t # <<>>
           /\ Head(<<x>> \o t) = x /\ Tail(<<x>> \o t) = t
           /\ (<<x>> \o t)[1] = x /\ \A i \in 1 .. Len(t) : (<<x>> \o t)[i + 1] = t[i]
  <1> DEFINE y == <<x>>
             s == y \o t
  <1>1. y \in Seq(A) /\ Len(y) = 1 /\ y[1] = x
    OBVIOUS
  <1> HIDE DEF y
  <1>2. /\ s \in Seq(A) /\ Len(s) = 1 + Len(t) /\ Len(t) \in Nat
        /\ \A i \in 1 .. Len(t) + 1 : s[i] = IF i <= 1 THEN y[i] ELSE t[i - 1]
    BY <1>1, ConcatProperties
  <1> HIDE DEF s
  <1>3. s[1] = x /\ \A i \in 1 .. Len(t) : s[i + 1] = t[i]
    <2>1. s[1] = x
      <3>1. 1 \in 1 .. Len(t) + 1 /\ 1 <= 1
        BY <1>2
      <3> QED BY <1>1, <1>2, <3>1
    <2>2. \A i \in 1 .. Len(t) : i + 1 \in 1 .. Len(t) + 1 /\ ~(i + 1 <= 1) /\ i + 1 - 1 = i
      BY <1>2
    <2> QED BY <1>2, <2>1, <2>2
  <1>4. s # <<>>
    BY <1>2
  <1>5. /\ Head(s) = x /\ Tail(s) \in Seq(A) /\ Len(Tail(s)) = Len(t)
        /\ \A i \in 1 .. Len(t) : Tail(s)[i] = s[i + 1]
    <2>1. /\ Head(s) = s[1] /\ Tail(s) \in Seq(A) /\ Len(Tail(s)) = Len(s) - 1
          /\ \A i \in 1 .. Len(Tail(s)) : Tail(s)[i] = s[i + 1]
      BY <1>2, <1>4, HeadTailProperties
    <2> QED BY <1>2, <1>3, <2>1
  <1>6. Tail(s) = t
    BY <1>2, <1>3, <1>5, SeqEqual
  <1>7. s \in Seq(A) /\ Len(s) = Len(t) + 1 /\ s # <<>> /\ Head(s) = x
    BY <1>2, <1>4, <1>5
  <1> QED BY <1>3, <1>6, <1>7 DEF s, y

LEMMA PassedAre ==
    ASSUME NEW A, NEW ra \in Seq(A), NEW d, d.star => d.starred \in A, d.star \in BOOLEAN,
           d.conv \notin {"text", "%"} => d.arg \in A
    PROVE  /\ Passed(d) \in Seq(A)
           /\ d.star => Head(Passed(d) \o ra) = d.starred /\ Tail(Passed(d) \o ra) = OwnArg(d) \o ra
           /\ ~d.star => Passed(d) \o ra = OwnArg(d) \o ra
           /\ d.conv = "%" => OwnArg(d) \o ra = ra
           /\ d.conv \notin {"text", "%"} => Head(OwnArg(d) \o ra) = d.arg /\ Tail(OwnArg(d) \o ra) = ra
  <1> DEFINE y == OwnArg(d)
  <1>1. y \in Seq(A)
    BY DEF OwnArg
  <1>2. d.conv = "%" => y \o ra = ra
    BY ConcatEmptySeq DEF OwnArg
  <1>3. d.conv \notin {"text", "%"} => Head(y \o ra) = d.arg /\ Tail(y \o ra) = ra
    BY FirstOf DEF OwnArg
  <1>4. Passed(d) = (IF d.star THEN <<d.starred>> ELSE <<>>) \o y
    BY DEF Passed, OwnArg
  <1> HIDE DEF y
  <1>5. y \o ra \in Seq(A)
    BY <1>1, ConcatProperties
  <1>6. CASE d.star
    <2> DEFINE z == <<d.starred>>
    <2>1. z \in Seq(A)
      BY <1>6
    <2>2. Passed(d) = z \o y
      BY <1>4, <1>6
    <2>3. Head(z \o (y \o ra)) = d.starred /\ Tail(z \o (y \o ra)) = y \o ra
      <3> DEFINE v == y \o ra
      <3>1. v \in Seq(A) /\ d.starred \in A
        BY <1>5, <1>6
      <3> HIDE DEF v
      <3> QED BY <3>1, FirstOf
    <2> HIDE DEF z
    <2>4. z \o y \in Seq(A) /\ (z \o y) \o ra = z \o (y \o ra)
      BY <1>1, <2>1, ConcatProperties, ConcatAssociative
    <2> QED BY <1>2, <1>3, <1>6, <2>2, <2>3, <2>4 DEF y
  <1>7. CASE ~d.star
    <2>1. Passed(d) = y
      BY <1>1, <1>4, <1>7, ConcatEmptySeq
    <2> QED BY <1>1, <1>2, <1>3, <1>7, <2>1 DEF y
  <1> QED BY <1>6, <1>7

-----------------------------------------------------------------------------
\* p_fmt, by the places that it finds
PrecisionAt(s, i, args) ==
    IF Chr(s, i) # "." THEN [val |-> NoPrecision, at |-> i, ap |-> args]
    ELSE IF Chr(s, i + 1) = "*"
         THEN [val |-> IF Signed(Head(args), INT_BITS) < 0 THEN NoPrecision ELSE Signed(Head(args), INT_BITS),
               at |-> i + 2, ap |-> Tail(args)]
         ELSE [val |-> ScanInt(s, i + 1, EndAt(s, i + 1, 10)), at |-> EndAt(s, i + 1, 10), ap |-> args]

HasLong(s, at) == Chr(s, at) = "l" /\ Chr(s, at + 1) \in {"d", "i", "o", "u", "x", "X"}
ConvAt(s, at)  == IF HasLong(s, at) THEN at + 1 ELSE at
SpecAt(s, width, dot, prec) ==
    [flags |-> {s[i] : i \in 2 .. width - 1}, min_width |-> ScanInt(s, width, dot),
     precision |-> prec.val, bits |-> IF HasLong(s, prec.at) THEN LONG_BITS ELSE INT_BITS,
     conv |-> Chr(s, ConvAt(s, prec.at)), ap |-> prec.ap,
     rest |-> SubSeq(s, ConvAt(s, prec.at) + 1, Len(s))]

LEMMA SpecIs ==
    ASSUME NEW s, NEW args, NEW width, width = FlagsEnd(s), NEW dot, dot = EndAt(s, width, 10)
    PROVE  p_fmt(s, args) = SpecAt(s, width, dot, PrecisionAt(s, dot, args))
  <1>1. p_fmt(s, args) = SpecAt(s, FlagsEnd(s), EndAt(s, FlagsEnd(s), 10),
                                Precision(s, EndAt(s, FlagsEnd(s), 10), args))
    BY Zenon DEF p_fmt, SpecAt, HasLong, ConvAt, Past, FlagsEnd, EndAt
  <1>2. \A i : Precision(s, i, args) = PrecisionAt(s, i, args)
    BY Zenon DEF Precision, PrecisionAt, Past, EndAt
  <1> QED BY <1>1, <1>2

\* The places of a directive: behind its flags, its width and its precision
WidthOf(d) == 2 + Len(d.written)
DotOf(d)   == WidthOf(d) + Len(d.wide)
LongOf(d)  == DotOf(d) + Len(d.dotted)
ConvOf(d)   == LongOf(d) + Len(LongMark(d))

HasPlaces(d, w, a, p, l) ==
    /\ Len(d.written) = w /\ Len(d.wide) = a /\ Len(d.dotted) = p /\ Len(LongMark(d)) = l
    /\ WidthOf(d) = 2 + w /\ DotOf(d) = 2 + w + a /\ LongOf(d) = 2 + w + a + p /\ ConvOf(d) = 2 + w + a + p + l

Begins(s, d, r) == /\ Len(s) \in Nat /\ Len(r) \in Nat /\ Len(s) = ConvOf(d) + Len(r)
                   /\ s[1] = "%" /\ Stands(s, d.written, 1) /\ Stands(s, d.wide, WidthOf(d) - 1)
                   /\ Stands(s, d.dotted, DotOf(d) - 1) /\ Stands(s, LongMark(d), LongOf(d) - 1)
                   /\ s[ConvOf(d)] = d.conv /\ Stands(s, r, ConvOf(d))

LEMMA PartPlaces ==
    ASSUME NEW d, IsDirective(d) PROVE \E w, a, p, l \in Nat : HasPlaces(d, w, a, p, l)
  <1>1. PICK w, a, p, l \in Nat : w = Len(d.written) /\ a = Len(d.wide) /\ p = Len(d.dotted) /\ l = Len(LongMark(d))
    BY DirectiveHas
  <1>2. WidthOf(d) = 2 + w
    BY <1>1 DEF WidthOf
  <1>3. DotOf(d) = 2 + w + a
    BY <1>1, <1>2 DEF DotOf
  <1>4. LongOf(d) = 2 + w + a + p
    BY <1>1, <1>3 DEF LongOf
  <1>5. ConvOf(d) = 2 + w + a + p + l
    BY <1>1, <1>4 DEF ConvOf
  <1> QED BY <1>1, <1>2, <1>3, <1>4, <1>5 DEF HasPlaces

LEMMA DirectiveBegins ==
    ASSUME NEW d, IsDirective(d), NEW S, Signs \subseteq S, NEW r \in Seq(S)
    PROVE  /\ Spelled(d) \in Seq(S) /\ Spelled(d) \o r \in Seq(S)
           /\ Begins(Spelled(d) \o r, d, r)
  <1>1. /\ d.written \in Seq(S) /\ d.wide \in Seq(S) /\ d.dotted \in Seq(S) /\ LongMark(d) \in Seq(S)
        /\ d.conv \in S /\ "%" \in S /\ d.conv # "text"
    <2>1. FlagChars \subseteq S /\ Decimals \subseteq S /\ Marks \subseteq S
      BY DEF Signs
    <2>2. "%" \in Marks /\ "text" \notin Marks
      BY DEF Marks
    <2> QED BY <2>1, <2>2, DirectiveHas, SeqMonotonic
  <1>2. Spelled(d) = <<"%">> \o d.written \o d.wide \o d.dotted \o LongMark(d) \o <<d.conv>>
    BY <1>1 DEF Spelled, LongMark
  <1>3. /\ Spelled(d) \in Seq(S) /\ Spelled(d) \o r \in Seq(S)
        /\ Laid(Spelled(d) \o r, d.written, d.wide, d.dotted, LongMark(d), d.conv, r)
    BY <1>1, <1>2, LaidOut, SMTT(30)
  <1> DEFINE t == Spelled(d) \o r
  <1>0. PICK w, a, p, l \in Nat : HasPlaces(d, w, a, p, l)
    BY PartPlaces
  <1>4. /\ 1 + Len(d.written) = WidthOf(d) - 1 /\ 1 + Len(d.written) + Len(d.wide) = DotOf(d) - 1
        /\ 1 + Len(d.written) + Len(d.wide) + Len(d.dotted) = LongOf(d) - 1
        /\ 2 + Len(d.written) + Len(d.wide) + Len(d.dotted) + Len(LongMark(d)) = ConvOf(d)
    BY <1>0 DEF HasPlaces
  <1> HIDE DEF t
  <1>5. Begins(t, d, r)
    <2>1. Len(t) \in Nat /\ Len(r) \in Nat
      BY <1>3 DEF t
    <2>2. Laid(t, d.written, d.wide, d.dotted, LongMark(d), d.conv, r)
      BY <1>3 DEF t
    <2> QED BY <1>4, <2>1, <2>2 DEF Begins, Laid
  <1> QED BY <1>3, <1>5 DEF t

\* Behind the width the precision, or the l, or the conversion
LEMMA BehindWidth ==
    ASSUME NEW d, IsDirective(d), NEW s, NEW r, Begins(s, d, r)
    PROVE  /\ DotOf(d) \in 2 .. Len(s) /\ WidthOf(d) \in 2 .. DotOf(d)
           /\ LongOf(d) \in DotOf(d) .. ConvOf(d) /\ ConvOf(d) \in DotOf(d) .. Len(s)
           /\ s[ConvOf(d)] = d.conv /\ s[LongOf(d)] \in Marks \ {"."}
           /\ d.long => s[LongOf(d)] = "l" /\ ConvOf(d) = LongOf(d) + 1
           /\ ~d.long => s[LongOf(d)] = d.conv /\ ConvOf(d) = LongOf(d)
           /\ d.dotted = <<>> => LongOf(d) = DotOf(d)
           /\ d.dotted # <<>> => s[DotOf(d)] = d.dotted[1] /\ d.dotted[1] = "."
           /\ s[DotOf(d)] \in Marks
  <1>0. PICK w, a, p, l \in Nat : HasPlaces(d, w, a, p, l)
    BY PartPlaces
  <1>1. /\ DotOf(d) \in 2 .. Len(s) /\ WidthOf(d) \in 2 .. DotOf(d)
        /\ LongOf(d) \in DotOf(d) .. ConvOf(d) /\ ConvOf(d) \in DotOf(d) .. Len(s)
    <2>1. PICK m, n \in Nat : m = Len(r) /\ n = Len(s)
      BY DEF Begins
    <2>2. n = (2 + w + a + p + l) + m
      BY <1>0, <2>1 DEF Begins, HasPlaces
    <2>3. /\ WidthOf(d) = 2 + w /\ DotOf(d) = 2 + w + a /\ LongOf(d) = 2 + w + a + p
          /\ ConvOf(d) = 2 + w + a + p + l
      BY <1>0 DEF HasPlaces
    <2> QED BY <2>1, <2>2, <2>3
  <1>2. s[ConvOf(d)] = d.conv
    BY DEF Begins
  <1>3. d.conv \in Marks \ {".", "l"} /\ Len(LongMark(d)) = IF d.long THEN 1 ELSE 0
    BY DirectiveHas
  <1>4. ASSUME d.long PROVE s[LongOf(d)] = "l" /\ ConvOf(d) = LongOf(d) + 1
    <2>1. Len(LongMark(d)) = 1 /\ LongMark(d)[1] = "l"
      BY <1>3, <1>4, DirectiveHas
    <2>2. ConvOf(d) = LongOf(d) + 1 /\ (LongOf(d) - 1) + 1 = LongOf(d)
      BY <1>0, <2>1 DEF HasPlaces
    <2>3. s[LongOf(d)] = "l"
      <3>1. 1 \in 1 .. Len(LongMark(d))
        BY <2>1
      <3>2. s[(LongOf(d) - 1) + 1] = LongMark(d)[1]
        BY <3>1 DEF Begins, Stands
      <3>3. (LongOf(d) - 1) + 1 = LongOf(d)
        BY <2>2
      <3> QED BY <2>1, <3>2, <3>3
    <2> QED BY <2>2, <2>3
  <1>5. ASSUME ~d.long PROVE s[LongOf(d)] = d.conv /\ ConvOf(d) = LongOf(d)
    <2>1. ConvOf(d) = LongOf(d)
      BY <1>0, <1>3, <1>5 DEF HasPlaces
    <2> QED BY <1>2, <1>5, <2>1
  <1>6. s[LongOf(d)] \in Marks \ {"."}
    <2>1. "l" \in Marks \ {"."}
      BY DEF Marks
    <2> QED BY <1>3, <1>4, <1>5, <2>1
  <1>7. d.dotted = <<>> => LongOf(d) = DotOf(d)
    BY <1>0 DEF HasPlaces
  <1>8. ASSUME d.dotted # <<>> PROVE s[DotOf(d)] = d.dotted[1] /\ d.dotted[1] = "."
    <2>1. d.dotted[1] = "." /\ Len(d.dotted) >= 1
      <3>1. \/ d.dotted = <<".", "*">>
            \/ d.dotted = <<".">> \o Tail(d.dotted) /\ IsDecimal(Tail(d.dotted), d.precision)
        <4>1. IsPrecision(d)
          BY DEF IsDirective
        <4>2. d.dotted # <<>>
          BY <1>8
        <4> QED BY <4>1, <4>2 DEF IsPrecision
      <3>2. CASE d.dotted = <<".", "*">>
        BY <3>2
      <3>3. CASE d.dotted = <<".">> \o Tail(d.dotted) /\ IsDecimal(Tail(d.dotted), d.precision)
        <4> DEFINE t == Tail(d.dotted)
        <4>1. t \in Seq(Decimals) /\ d.dotted = <<".">> \o t
          BY <3>3 DEF IsDecimal, Decimals
        <4> HIDE DEF t
        <4>2. "." \in Decimals \cup {"."} /\ t \in Seq(Decimals \cup {"."})
          BY <4>1, SeqMonotonic
        <4>3. (<<".">> \o t)[1] = "." /\ Len(<<".">> \o t) = Len(t) + 1
          BY <4>2, FirstOf
        <4> QED BY <4>1, <4>3
      <3> QED BY <3>1, <3>2, <3>3
    <2>2. 1 \in 1 .. Len(d.dotted)
      BY <1>0, <2>1 DEF HasPlaces
    <2>3. s[(DotOf(d) - 1) + 1] = d.dotted[1]
      BY <2>2 DEF Begins, Stands
    <2>4. (DotOf(d) - 1) + 1 = DotOf(d)
      BY <1>0 DEF HasPlaces
    <2> QED BY <2>1, <2>3, <2>4
  <1>9. s[DotOf(d)] \in Marks
    <2>1. "." \in Marks
      BY DEF Marks
    <2> QED BY <1>6, <1>7, <1>8, <2>1
  <1> QED BY <1>1, <1>2, <1>4, <1>5, <1>6, <1>7, <1>8, <1>9

\* The flags and the width
LEMMA WidthRead ==
    ASSUME NEW d, IsDirective(d), NEW s, NEW r, Begins(s, d, r)
    PROVE  /\ FlagsEnd(s) = WidthOf(d) /\ EndAt(s, WidthOf(d), 10) = DotOf(d)
           /\ {s[i] : i \in 2 .. WidthOf(d) - 1} = d.flags
           /\ ScanInt(s, WidthOf(d), DotOf(d)) = d.width /\ d.width \in Nat
  <1>0. PICK w, a \in Nat : /\ Len(d.written) = w /\ Len(d.wide) = a /\ Len(s) \in Nat
                            /\ WidthOf(d) = 2 + w /\ DotOf(d) = 2 + w + a
    BY PartPlaces DEF HasPlaces, Begins
  <1>1. /\ \A i \in 1 .. Len(d.written) : s[1 + i] = d.written[i]
        /\ \A i \in 1 .. Len(d.wide) : s[(WidthOf(d) - 1) + i] = d.wide[i]
    BY DEF Begins, Stands
  <1>2. /\ d.written \in Seq(FlagChars) /\ d.wide \in Seq(Decimals) /\ d.flags = Range(d.written)
        /\ d.wide # <<>> => d.wide[1] # "0"
        /\ d.width = C!Positional(d.wide, 10)
    BY DirectiveHas
  <1>3. /\ DotOf(d) \in 2 .. Len(s) /\ WidthOf(d) \in 2 .. DotOf(d) /\ s[DotOf(d)] \in Marks
    BY BehindWidth
  <1>4. \A j \in 2 .. WidthOf(d) - 1 : j - 1 \in 1 .. Len(d.written) /\ s[j] = d.written[j - 1]
    <2> SUFFICES ASSUME NEW j \in 2 .. WidthOf(d) - 1
                 PROVE  j - 1 \in 1 .. Len(d.written) /\ s[j] = d.written[j - 1]
      OBVIOUS
    <2>1. j - 1 \in 1 .. Len(d.written) /\ 1 + (j - 1) = j
      BY <1>0
    <2> QED BY <1>1, <2>1
  <1>5. \A j \in WidthOf(d) .. DotOf(d) - 1 : s[j] \in Decimals
    <2> SUFFICES ASSUME NEW j \in WidthOf(d) .. DotOf(d) - 1 PROVE s[j] \in Decimals
      OBVIOUS
    <2>1. PICK k \in Int : k = j - (WidthOf(d) - 1)
      BY <1>0
    <2>2. k \in 1 .. Len(d.wide) /\ (WidthOf(d) - 1) + k = j
      BY <1>0, <2>1
    <2>3. s[j] = d.wide[k]
      BY <1>1, <2>2
    <2> QED BY <1>2, <2>2, <2>3
  <1>6. s[WidthOf(d)] \notin FlagChars
    <2>1. CASE d.wide = <<>>
      <3>1. WidthOf(d) = DotOf(d)
        BY <1>0, <2>1
      <3> QED BY <1>3, <3>1, DecimalsAre
    <2>2. CASE d.wide # <<>>
      <3>1. 1 \in 1 .. Len(d.wide)
        BY <1>0, <1>2, <2>2, EmptySeq
      <3>2. s[(WidthOf(d) - 1) + 1] = d.wide[1] /\ d.wide[1] \in Decimals
        BY <1>1, <1>2, <3>1
      <3>3. (WidthOf(d) - 1) + 1 = WidthOf(d)
        BY <1>0
      <3> QED BY <1>2, <2>2, <3>2, <3>3, DecimalsAre
    <2> QED BY <2>1, <2>2
  <1>7. FlagsEnd(s) = WidthOf(d)
    <2>1. \A j \in 2 .. WidthOf(d) - 1 : s[j] \in FlagChars
      BY <1>2, <1>4
    <2>2. WidthOf(d) \in 2 .. Len(s)
      BY <1>0, <1>3
    <2> QED BY <1>0, <1>6, <2>1, <2>2, FlagsEndIs
  <1>8. EndAt(s, WidthOf(d), 10) = DotOf(d)
    <2>1. \A j \in WidthOf(d) .. DotOf(d) - 1 : IsDigit(10, s[j])
      BY <1>5, DecimalsAre
    <2>2. WidthOf(d) \in 1 .. Len(s) /\ DotOf(d) \in WidthOf(d) .. Len(s) /\ ~IsDigit(10, s[DotOf(d)])
      BY <1>0, <1>3, DecimalsAre
    <2> QED BY <1>0, <2>1, <2>2, DigitsEndIs
  <1>9. {s[i] : i \in 2 .. WidthOf(d) - 1} = d.flags
    <2>1. Range(d.written) = {d.written[i] : i \in 1 .. Len(d.written)}
      BY <1>2 DEF Range
    <2>2. \A i \in 1 .. Len(d.written) : i + 1 \in 2 .. WidthOf(d) - 1 /\ s[i + 1] = d.written[i]
      <3> SUFFICES ASSUME NEW i \in 1 .. Len(d.written)
                   PROVE  i + 1 \in 2 .. WidthOf(d) - 1 /\ s[i + 1] = d.written[i]
        OBVIOUS
      <3>1. i + 1 \in 2 .. WidthOf(d) - 1 /\ 1 + i = i + 1
        BY <1>0
      <3> QED BY <1>1, <3>1
    <2>3. ASSUME NEW c PROVE c \in {s[i] : i \in 2 .. WidthOf(d) - 1} <=> c \in Range(d.written)
      <3>1. ASSUME NEW i \in 2 .. WidthOf(d) - 1, c = s[i] PROVE c \in Range(d.written)
        BY <1>4, <2>1, <3>1
      <3>2. ASSUME NEW i \in 1 .. Len(d.written), c = d.written[i]
            PROVE  c \in {s[k] : k \in 2 .. WidthOf(d) - 1}
        BY <2>2, <3>2
      <3> QED BY <2>1, <3>1, <3>2
    <2> QED BY <1>2, <2>3
  <1>10. ScanInt(s, WidthOf(d), DotOf(d)) = d.width /\ d.width \in Nat
    <2>1. PICK n \in Nat : n = WidthOf(d) - 1
      BY <1>0
    <2>2. n + 1 = WidthOf(d) /\ n + 1 + Len(d.wide) = DotOf(d) /\ Stands(s, d.wide, n)
      BY <1>0, <2>1 DEF Begins
    <2>3. ScanInt(s, n + 1, n + 1 + Len(d.wide)) = C!Positional(d.wide, 10) /\ C!Positional(d.wide, 10) \in Nat
      BY <1>2, <2>2, ScanIs
    <2> QED BY <1>2, <2>2, <2>3
  <1> QED BY <1>7, <1>8, <1>9, <1>10

\* The precision, given with the directive or by an argument
Prec(d) == IF d.precision < 0 THEN NoPrecision ELSE d.precision

LEMMA PrecisionRead ==
    ASSUME NEW d, IsDirective(d), NEW s, NEW r, Begins(s, d, r), NEW A, NEW ra \in Seq(A),
           d.star => d.starred \in A, d.conv \notin {"text", "%"} => d.arg \in A
    PROVE  PrecisionAt(s, DotOf(d), Passed(d) \o ra)
             = [val |-> Prec(d), at |-> LongOf(d), ap |-> OwnArg(d) \o ra]
  <1>0. PICK w, a, p, l \in Nat : HasPlaces(d, w, a, p, l)
    BY PartPlaces
  <1>1. /\ DotOf(d) \in 2 .. Len(s) /\ LongOf(d) \in DotOf(d) .. Len(s) /\ s[LongOf(d)] \in Marks \ {"."}
        /\ DotOf(d) \in Nat /\ LongOf(d) \in Nat /\ Len(s) \in Nat
    <2>1. PICK n \in Nat : n = Len(s)
      BY DEF Begins
    <2>2. /\ DotOf(d) \in 2 .. Len(s) /\ LongOf(d) \in DotOf(d) .. ConvOf(d) /\ ConvOf(d) \in DotOf(d) .. Len(s)
          /\ s[LongOf(d)] \in Marks \ {"."}
      BY BehindWidth
    <2>3. DotOf(d) \in Nat /\ LongOf(d) \in Nat /\ ConvOf(d) \in Nat
      BY <1>0 DEF HasPlaces
    <2> QED BY <2>1, <2>2, <2>3
  <1>2. /\ d.star \in BOOLEAN /\ IsPrecision(d)
        /\ d.star => Head(Passed(d) \o ra) = d.starred /\ Tail(Passed(d) \o ra) = OwnArg(d) \o ra
        /\ ~d.star => Passed(d) \o ra = OwnArg(d) \o ra
    <2>1. d.star \in BOOLEAN /\ IsPrecision(d)
      BY DEF IsDirective
    <2>2. d.star => Head(Passed(d) \o ra) = d.starred /\ Tail(Passed(d) \o ra) = OwnArg(d) \o ra
      BY <2>1, PassedAre, ZenonT(60)
    <2>3. ~d.star => Passed(d) \o ra = OwnArg(d) \o ra
      BY <2>1, PassedAre, ZenonT(60)
    <2> QED BY <2>1, <2>2, <2>3
  <1> DEFINE args == Passed(d) \o ra
             left == OwnArg(d) \o ra
  <1> HIDE DEF args, left
  <1>3. Chr(s, DotOf(d)) = s[DotOf(d)]
    BY <1>1 DEF Chr
  <1>4. CASE d.dotted = <<>> /\ d.precision = NoPrecision /\ ~d.star
    <2>1. LongOf(d) = DotOf(d)
      BY <1>4, BehindWidth
    <2>2. Chr(s, DotOf(d)) # "."
      BY <1>1, <1>3, <2>1
    <2>3. Prec(d) = NoPrecision
      BY <1>4 DEF Prec, NoPrecision
    <2>4. args = left
      BY <1>2, <1>4 DEF args, left
    <2>5. PrecisionAt(s, DotOf(d), args) = [val |-> NoPrecision, at |-> DotOf(d), ap |-> args]
      BY <2>2 DEF PrecisionAt
    <2> QED BY <2>1, <2>3, <2>4, <2>5 DEF args, left
  <1>5. CASE d.dotted # <<>>
    <2>1. s[DotOf(d)] = "." /\ Stands(s, d.dotted, DotOf(d) - 1)
      BY <1>5, BehindWidth DEF Begins
    <2>2. Chr(s, DotOf(d)) = "."
      BY <1>3, <2>1
    <2>3. CASE d.dotted = <<".", "*">> /\ d.star /\ d.precision = Signed(d.starred, INT_BITS)
      <3>1. Len(d.dotted) = 2 /\ d.dotted[2] = "*"
        BY <2>3
      <3>2. LongOf(d) = DotOf(d) + 2
        BY <1>0, <3>1 DEF HasPlaces
      <3>3. s[(DotOf(d) - 1) + 2] = "*"
        BY <2>1, <3>1 DEF Stands
      <3>4. (DotOf(d) - 1) + 2 = DotOf(d) + 1 /\ DotOf(d) + 1 <= Len(s)
        BY <1>1, <3>2
      <3>5. Chr(s, DotOf(d) + 1) = "*"
        BY <3>3, <3>4 DEF Chr
      <3>6. Head(args) = d.starred /\ Tail(args) = left
        BY <1>2, <2>3 DEF args, left
      <3>7. PrecisionAt(s, DotOf(d), args) = [val |-> Prec(d), at |-> DotOf(d) + 2, ap |-> Tail(args)]
        BY <2>2, <2>3, <3>5, <3>6 DEF PrecisionAt, Prec
      <3> QED BY <3>2, <3>6, <3>7 DEF args, left
    <2>4. CASE d.dotted = <<".">> \o Tail(d.dotted) /\ ~d.star /\ IsDecimal(Tail(d.dotted), d.precision)
      <3> DEFINE t == Tail(d.dotted)
      <3>1. t \in Seq(Decimals) /\ d.dotted = <<".">> \o t /\ d.precision = C!Positional(t, 10)
        BY <2>4 DEF IsDecimal, Decimals
      <3> HIDE DEF t
      <3>2. PICK n \in Nat : n = Len(t)
        BY <3>1
      <3>3. Len(d.dotted) = n + 1 /\ \A i \in 1 .. n : d.dotted[i + 1] = t[i]
        <4>1. "." \in Decimals \cup {"."} /\ t \in Seq(Decimals \cup {"."})
          BY <3>1, SeqMonotonic
        <4> QED BY <3>1, <3>2, <4>1, FirstOf
      <3>4. LongOf(d) = DotOf(d) + 1 + n
        BY <1>0, <3>3 DEF HasPlaces
      <3>5. PICK e \in Nat : e = DotOf(d)
        BY <1>1
      <3>6. Stands(s, t, e)
        <4>1. e + Len(t) <= Len(s)
          BY <1>1, <3>2, <3>4, <3>5
        <4>2. \A i \in 1 .. n : s[e + i] = t[i]
          <5> SUFFICES ASSUME NEW i \in 1 .. n PROVE s[e + i] = t[i]
            OBVIOUS
          <5>1. PICK j \in Int : j = i + 1
            OBVIOUS
          <5>2. j \in 1 .. Len(d.dotted) /\ (DotOf(d) - 1) + j = e + i
            BY <3>3, <3>5, <5>1
          <5>3. s[(DotOf(d) - 1) + j] = d.dotted[j]
            BY <2>1, <5>2 DEF Stands
          <5> QED BY <3>3, <5>1, <5>2, <5>3
        <4> QED BY <3>2, <4>1, <4>2 DEF Stands
      <3>7. \A j \in e + 1 .. e + n : s[j] \in Decimals
        <4> SUFFICES ASSUME NEW j \in e + 1 .. e + n PROVE s[j] \in Decimals
          OBVIOUS
        <4>1. PICK i \in 1 .. n : j = e + i
          <5>1. j - e \in 1 .. n /\ j = e + (j - e)
            OBVIOUS
          <5> QED BY <5>1
        <4>2. s[e + i] = t[i] /\ t[i] \in Decimals
          BY <3>1, <3>2, <3>6 DEF Stands
        <4> QED BY <4>1, <4>2
      <3>8. EndAt(s, e + 1, 10) = e + 1 + n /\ e + 1 <= Len(s)
        <4>1. e + 1 + n = LongOf(d)
          BY <3>4, <3>5
        <4>2. e + 1 \in 1 .. Len(s) /\ e + 1 + n \in e + 1 .. Len(s)
          BY <1>1, <4>1
        <4>3. ~IsDigit(10, s[e + 1 + n])
          BY <1>1, <4>1, DecimalsAre
        <4>4. \A j \in e + 1 .. (e + 1 + n) - 1 : IsDigit(10, s[j])
          BY <3>7, DecimalsAre
        <4> QED BY <1>1, <4>2, <4>3, <4>4, DigitsEndIs
      <3>9. Chr(s, e + 1) # "*"
        <4>1. Chr(s, e + 1) = s[e + 1]
          BY <3>8 DEF Chr
        <4>2. CASE n = 0
          <5>1. e + 1 = LongOf(d)
            BY <3>4, <3>5, <4>2
          <5> QED BY <1>1, <4>1, <5>1, DecimalsAre
        <4>3. CASE n # 0
          <5>1. e + 1 \in e + 1 .. e + n
            BY <4>3
          <5> QED BY <3>7, <4>1, <5>1, DecimalsAre
        <4> QED BY <4>2, <4>3
      <3>10. ScanInt(s, e + 1, e + 1 + n) = d.precision /\ d.precision \in Nat
        BY <3>1, <3>2, <3>6, ScanIs
      <3>11. PrecisionAt(s, e, args) = [val |-> d.precision, at |-> e + 1 + n, ap |-> args]
        BY <2>2, <3>5, <3>8, <3>9, <3>10 DEF PrecisionAt
      <3>12. Prec(d) = d.precision
        BY <3>10 DEF Prec
      <3>13. args = left
        BY <1>2, <2>4 DEF args, left
      <3> QED BY <3>4, <3>5, <3>11, <3>12, <3>13 DEF args, left
    <2> QED BY <1>2, <1>5, <2>3, <2>4 DEF IsPrecision
  <1>6. d.dotted = <<>> => d.precision = NoPrecision /\ ~d.star
    <2>1. <<".", "*">> # <<>>
      OBVIOUS
    <2> QED BY <1>2, <2>1 DEF IsPrecision
  <1> QED BY <1>4, <1>5, <1>6

\* So p_fmt reads what the directive says, and leaves the rest of the format
\* and of the arguments.
ReadAs(d, ra, r) == [flags |-> d.flags, min_width |-> d.width, precision |-> Prec(d), bits |-> BitsOf(d),
                     conv |-> d.conv, ap |-> OwnArg(d) \o ra, rest |-> r]

LEMMA DirectiveRead ==
    ASSUME NEW d, IsDirective(d), NEW S, Signs \subseteq S, NEW r \in Seq(S), NEW A, NEW ra \in Seq(A),
           d.star => d.starred \in A, d.conv \notin {"text", "%"} => d.arg \in A
    PROVE  /\ p_fmt(Spelled(d) \o r, Passed(d) \o ra) = ReadAs(d, ra, r)
           /\ (Spelled(d) \o r)[1] = "%" /\ Spelled(d) \o r # <<>>
  <1> DEFINE s == Spelled(d) \o r
             args == Passed(d) \o ra
  <1>1. s \in Seq(S) /\ Begins(s, d, r)
    BY DirectiveBegins
  <1> HIDE DEF s, args
  <1>2. p_fmt(s, args) = SpecAt(s, WidthOf(d), DotOf(d), PrecisionAt(s, DotOf(d), args))
    BY <1>1, WidthRead, SpecIs
  <1>3. PrecisionAt(s, DotOf(d), args) = [val |-> Prec(d), at |-> LongOf(d), ap |-> OwnArg(d) \o ra]
    BY <1>1, PrecisionRead DEF args
  <1>4. /\ ConvOf(d) \in Nat /\ ConvOf(d) <= Len(s) /\ Len(s) \in Nat /\ LongOf(d) \in Nat /\ LongOf(d) <= Len(s)
        /\ s[ConvOf(d)] = d.conv
        /\ d.long => s[LongOf(d)] = "l" /\ ConvOf(d) = LongOf(d) + 1
        /\ ~d.long => s[LongOf(d)] = d.conv /\ ConvOf(d) = LongOf(d)
    <2>1. PICK w, a, p, l \in Nat : HasPlaces(d, w, a, p, l)
      BY PartPlaces
    <2>2. ConvOf(d) \in Nat /\ LongOf(d) \in Nat /\ DotOf(d) \in Nat
      BY <2>1 DEF HasPlaces
    <2>3. PICK n \in Nat : n = Len(s)
      BY <1>1
    <2>4. LongOf(d) \in DotOf(d) .. ConvOf(d) /\ ConvOf(d) \in DotOf(d) .. Len(s)
      BY <1>1, BehindWidth
    <2>5. ConvOf(d) <= Len(s) /\ LongOf(d) <= Len(s)
      BY <2>2, <2>3, <2>4
    <2> QED BY <1>1, <2>2, <2>3, <2>5, BehindWidth
  <1>5. Chr(s, LongOf(d)) = s[LongOf(d)] /\ Chr(s, ConvOf(d)) = d.conv
    BY <1>4 DEF Chr
  <1>6. HasLong(s, LongOf(d)) = d.long /\ ConvAt(s, LongOf(d)) = ConvOf(d)
    <2>1. d.long \in BOOLEAN /\ d.conv # "l"
      BY DirectiveHas DEF IsDirective
    <2>2. ASSUME d.long PROVE HasLong(s, LongOf(d)) /\ ConvAt(s, LongOf(d)) = ConvOf(d)
      <3>1. d.conv \in {"d", "i", "o", "u", "x", "X"}
        <4>1. Carries(d)
          BY DEF IsDirective
        <4> QED BY <2>2, <4>1 DEF Carries
      <3>2. Chr(s, LongOf(d) + 1) = d.conv /\ Chr(s, LongOf(d)) = "l" /\ LongOf(d) + 1 = ConvOf(d)
        BY <1>4, <1>5, <2>2
      <3> QED BY <3>1, <3>2 DEF HasLong, ConvAt
    <2>3. ASSUME ~d.long PROVE ~HasLong(s, LongOf(d)) /\ ConvAt(s, LongOf(d)) = ConvOf(d)
      <3>1. Chr(s, LongOf(d)) = d.conv
        BY <1>4, <1>5, <2>3
      <3>2. ~HasLong(s, LongOf(d))
        BY <2>1, <3>1 DEF HasLong
      <3> QED BY <1>4, <2>3, <3>2 DEF ConvAt
    <2>4. HasLong(s, LongOf(d)) \in BOOLEAN
      BY DEF HasLong
    <2> QED BY <2>1, <2>2, <2>3, <2>4
  <1>7. SubSeq(s, ConvOf(d) + 1, Len(s)) = r
    <2>1. PICK e \in Nat : e = ConvOf(d)
      BY <1>4
    <2>2. PICK n, m \in Nat : n = Len(s) /\ m = Len(r) /\ n = e + m
      BY <1>1, <2>1 DEF Begins
    <2>3. \A i \in 1 .. m : s[e + i] = r[i]
      BY <1>1, <2>1, <2>2 DEF Begins, Stands
    <2>4. s \in Seq(S)
      BY <1>1
    <2> QED BY <2>1, <2>2, <2>3, <2>4, RestOf, SMTT(30)
  <1>8. /\ {s[i] : i \in 2 .. WidthOf(d) - 1} = d.flags
        /\ ScanInt(s, WidthOf(d), DotOf(d)) = d.width
    BY <1>1, WidthRead
  <1>9. p_fmt(s, args) = ReadAs(d, ra, r)
    <2>1. d.long \in BOOLEAN
      BY DEF IsDirective
    <2> DEFINE prec == PrecisionAt(s, DotOf(d), args)
    <2>2. prec.val = Prec(d) /\ prec.at = LongOf(d) /\ prec.ap = OwnArg(d) \o ra
      BY <1>3
    <2> HIDE DEF prec
    <2>3. SpecAt(s, WidthOf(d), DotOf(d), prec)
            = [flags |-> d.flags, min_width |-> d.width, precision |-> Prec(d),
               bits |-> IF d.long THEN LONG_BITS ELSE INT_BITS, conv |-> d.conv, ap |-> OwnArg(d) \o ra, rest |-> r]
      BY <1>5, <1>6, <1>7, <1>8, <2>2, Zenon DEF SpecAt
    <2> QED BY <1>2, <2>3 DEF ReadAs, BitsOf, prec
  <1>10. s[1] = "%" /\ s # <<>>
    <2>1. DotOf(d) \in 2 .. Len(s) /\ s[1] = "%"
      BY <1>1, BehindWidth DEF Begins
    <2>2. s # <<>>
      BY <1>1, <2>1, EmptySeq
    <2> QED BY <2>1, <2>2
  <1> QED BY <1>9, <1>10 DEF s, args

-----------------------------------------------------------------------------
(***************************************************************************)
(* The bits of an argument, as a signed and as an unsigned number.         *)
(***************************************************************************)
LEMMA RemainderIs ==
    ASSUME NEW b \in Nat \ {0}, NEW q \in Int, NEW r \in 0 .. b - 1, NEW x \in Int, x = b * q + r
    PROVE  x % b = r
  <1> DEFINE p == x \div b
             m == x % b
  <1>1. p \in Int /\ m \in 0 .. b - 1 /\ x = b * p + m
    OBVIOUS
  <1> HIDE DEF p, m
  <1>2. b * (p - q) = r - m
    BY <1>1
  <1>3. ~(p - q >= 1)
    <2> SUFFICES ASSUME p - q >= 1 PROVE FALSE
      OBVIOUS
    <2>1. b * (p - q) >= b
      BY <1>1
    <2> QED BY <1>1, <1>2, <2>1
  <1>4. ~(p - q <= -1)
    <2> SUFFICES ASSUME p - q <= -1 PROVE FALSE
      OBVIOUS
    <2>1. b * (p - q) <= -b
      BY <1>1
    <2> QED BY <1>1, <1>2, <2>1
  <1>5. p - q = 0
    BY <1>1, <1>3, <1>4
  <1>6. r - m = 0
    BY <1>1, <1>2, <1>5
  <1> QED BY <1>1, <1>6 DEF m

\* An int or a long of printf
LEMMA BitsAre ==
    ASSUME NEW bits \in {INT_BITS, LONG_BITS}, NEW n \in Int
    PROVE  /\ Unsigned(n, bits) \in Nat /\ Signed(n, bits) \in Int
           /\ Unsigned(Signed(n, bits), bits) = Unsigned(n, bits)
           /\ Signed(n, bits) = 0 <=> Unsigned(n, bits) = 0
           /\ Magnitude(Signed(n, bits)) = C!Magnitude_of(Signed(n, bits))
           /\ C!Magnitude_of(Signed(n, bits)) \in Nat
  <1>1. PICK l \in Nat, i \in Nat \ {0} :
             /\ l >= i /\ i = 2 ^ (INT_BITS - 1) /\ 2 ^ INT_BITS = 2 * i
             /\ l = 2 ^ (LONG_BITS - 1) /\ 2 ^ LONG_BITS = 2 * l
    BY PowersAssumption
  <1>2. PICK h \in Nat \ {0} : h <= l /\ h = 2 ^ (bits - 1) /\ 2 ^ bits = 2 * h
    <2>1. l \in Nat \ {0}
      BY <1>1
    <2> QED BY <1>1, <2>1
  <1> DEFINE u == Unsigned(n, bits)
             v == Signed(n, bits)
             w == 2 * h
  <1>3. w \in Nat \ {0} /\ w = 2 ^ bits
    BY <1>2
  <1>4. u = n % w /\ v = IF u < h THEN u ELSE u - w
    BY <1>2, <1>3 DEF Unsigned, Signed
  <1> HIDE DEF u, v
  <1>5. u \in 0 .. w - 1
    <2> HIDE DEF w
    <2> QED BY <1>3, <1>4
  <1>6. v \in Int /\ v >= -h /\ v < h /\ (v = 0 <=> u = 0)
    BY <1>4, <1>5
  <1>7. v % w = u
    <2>1. PICK q \in Int : v = w * q + u
      <3>1. CASE u < h
        <4>1. v = w * 0 + u
          BY <1>4, <1>5, <3>1
        <4> QED BY <4>1
      <3>2. CASE ~(u < h)
        <4>1. v = w * (-1) + u
          BY <1>4, <1>5, <3>2
        <4> QED BY <4>1
      <3> QED BY <3>1, <3>2
    <2> HIDE DEF w
    <2> QED BY <1>3, <1>5, <1>6, <2>1, RemainderIs
  <1>8. Unsigned(v, bits) = u
    BY <1>3, <1>7 DEF Unsigned
  <1>9. Magnitude(v) = C!Magnitude_of(v) /\ C!Magnitude_of(v) \in Nat
    <2>1. CASE v < 0
      <3> DEFINE x == -(v + 1)
                 m == 2 * l
      <3>1. x \in 0 .. m - 1 /\ m \in Nat \ {0} /\ x = m * 0 + x /\ m = 2 ^ LONG_BITS
        BY <1>1, <1>2, <1>6, <2>1
      <3>2. -v = x + 1 /\ x \in Int
        BY <1>6
      <3> HIDE DEF x, m
      <3>3. x % m = x
        BY <3>1, <3>2, RemainderIs
      <3>4. Magnitude(v) = x + 1
        <4>1. Unsigned(x, LONG_BITS) = x
          BY <3>1, <3>3 DEF Unsigned
        <4>2. Magnitude(v) = Unsigned(x, LONG_BITS) + 1
          BY <2>1 DEF Magnitude, x
        <4> QED BY <4>1, <4>2
      <3>5. C!Magnitude_of(v) = -v
        BY <2>1 DEF C!Magnitude_of
      <3> QED BY <3>1, <3>2, <3>4, <3>5
    <2>2. CASE ~(v < 0)
      BY <1>6, <2>2 DEF Magnitude, C!Magnitude_of
    <2> QED BY <2>1, <2>2
  <1> QED BY <1>5, <1>6, <1>8, <1>9 DEF u, v

-----------------------------------------------------------------------------
(***************************************************************************)
(* What a directive prints is padded as C has it.                          *)
(***************************************************************************)
Inks == GlyphSet \cup {"-", "+", " ", "0", "x", "X", "(", "n", "i", "u", "l", ")", "%"}

Inked(S) == Inks \subseteq S

Prints_(printed, text) == printed = Printed(text, Len(text))

LEMMA FillIs ==
    ASSUME NEW S, NEW c \in S, NEW n \in Nat
    PROVE  Fill(c, n) \in Seq(S) /\ Len(Fill(c, n)) = n /\ C!Repeated(c, n) = Fill(c, n)
  <1>1. Fill(c, n) = [i \in 1 .. n |-> c] /\ C!Repeated(c, n) = [i \in 1 .. n |-> c]
    BY DEF Fill, C!Repeated
  <1>2. [i \in 1 .. n |-> c] \in Seq(S)
    BY IsASeq
  <1>3. Len([i \in 1 .. n |-> c]) = n
    BY LenProperties, <1>2
  <1> QED BY <1>1, <1>2, <1>3

LEMMA PadIs ==
    ASSUME NEW w \in Nat, NEW n \in Nat, NEW spec, spec.min_width = w
    PROVE  PadWidth(spec, n) \in Nat /\ C!Max({0, w - n}) = PadWidth(spec, n)
  <1>1. PadWidth(spec, n) = Max({w - n, 0}) /\ C!Max({0, w - n}) = Max({0, w - n})
    BY MaxInC DEF PadWidth
  <1>2. {w - n, 0} = {0, w - n} /\ w - n \in Int /\ 0 \in Int
    OBVIOUS
  <1>3. Max({0, w - n}) = IF 0 >= w - n THEN 0 ELSE w - n
    BY <1>2, MaxOfTwo
  <1> QED BY <1>1, <1>2, <1>3

LEMMA LengthsAdd ==
    ASSUME NEW S, NEW s \in Seq(S), NEW t \in Seq(S), NEW m \in Nat, NEW n \in Nat, Len(s) = m, Len(t) = n
    PROVE  s \o t \in Seq(S) /\ Len(s \o t) = m + n
  BY ConcatProperties

LEMMA Blank ==
    ASSUME NEW S, NEW s \in Seq(S) PROVE <<>> \in Seq(S) /\ <<>> \o s = s /\ s \o <<>> = s
  <1>1. <<>> \o s = s /\ s \o <<>> = s
    BY ConcatEmptySeq
  <1>2. <<>> \in Seq(S)
    OBVIOUS
  <1> QED BY <1>1, <1>2

\* What the width and the flags of a directive are to its specification
Shapes(spec, d) == d.width \in Nat /\ spec.flags = d.flags /\ spec.min_width = d.width

LEMMA PadOf ==
    ASSUME NEW spec, NEW d, Shapes(spec, d), NEW n \in Nat
    PROVE  PadWidth(spec, n) \in Nat /\ C!Max({0, d.width - n}) = PadWidth(spec, n)
  <1>1. PICK w \in Nat : w = d.width /\ spec.min_width = w
    BY DEF Shapes
  <1>2. PadWidth(spec, n) \in Nat /\ C!Max({0, w - n}) = PadWidth(spec, n)
    BY <1>1, PadIs
  <1> QED BY <1>1, <1>2

LEMMA NumberPadded ==
    ASSUME NEW S, Inked(S), NEW prefix \in Seq(S), NEW num \in Seq(S),
           NEW d, NEW spec, Shapes(spec, d)
    PROVE  /\ Prints_(fmt_num_core(spec, prefix, num), C!Padded(d, prefix, num, TRUE))
           /\ C!Padded(d, prefix, num, TRUE) \in Seq(S)
  <1>0. PICK a, b \in Nat : Len(prefix) = a /\ Len(num) = b
    OBVIOUS
  <1> DEFINE text  == prefix \o num
             B     == Fill(" ", PadWidth(spec, a + b))
             Z     == Fill("0", PadWidth(spec, a + b))
             right == "-" \in d.flags
             zero  == "0" \in d.flags /\ "-" \notin d.flags
  <1>1. text \in Seq(S) /\ Len(text) = a + b
    BY <1>0, LengthsAdd
  <1>2. PICK pad \in Nat : pad = PadWidth(spec, a + b) /\ C!Max({0, d.width - (a + b)}) = pad
    <2>1. PICK n \in Nat : n = a + b
      OBVIOUS
    <2> QED BY <2>1, PadOf
  <1>3. /\ B \in Seq(S) /\ Len(B) = pad /\ C!Repeated(" ", pad) = B
        /\ Z \in Seq(S) /\ Len(Z) = pad /\ C!Repeated("0", pad) = Z
    <2>1. " " \in S /\ "0" \in S
      BY DEF Inked, Inks
    <2> QED BY <1>2, <2>1, FillIs
  <1>4. fmt_num_core(spec, prefix, num)
          = Printed((IF ~right /\ ~zero THEN B ELSE <<>>) \o prefix \o (IF zero THEN Z ELSE <<>>)
                      \o num \o (IF right THEN B ELSE <<>>), a + b + pad)
    BY <1>0, <1>2 DEF fmt_num_core, Zeroed, Shapes
  <1>5. C!Padded(d, prefix, num, TRUE) = IF right THEN text \o B ELSE IF zero THEN prefix \o Z \o num ELSE B \o text
    <2>1. C!Padded(d, prefix, num, TRUE)
            = IF right THEN text \o C!Repeated(" ", C!Max({0, d.width - Len(text)}))
              ELSE IF "0" \in d.flags THEN prefix \o C!Repeated("0", C!Max({0, d.width - Len(text)})) \o num
              ELSE C!Repeated(" ", C!Max({0, d.width - Len(text)})) \o text
      BY DEF C!Padded
    <2> HIDE DEF text, B, Z
    <2> QED BY <1>1, <1>2, <1>3, <2>1
  <1> HIDE DEF B, Z, text
  <1>a. B \in Seq(S) /\ Len(B) = pad /\ Z \in Seq(S) /\ Len(Z) = pad /\ pad \in Nat
    BY <1>3, <1>2
  <1>6. <<>> \o prefix = prefix /\ prefix \o <<>> = prefix
    BY Blank
  <1>7. CASE right
    <2>1. ~zero
      BY <1>7
    <2>2. fmt_num_core(spec, prefix, num) = Printed(text \o B, a + b + pad)
      BY <1>4, <1>6, <1>7, <2>1, Zenon DEF text
    <2>3. text \o B \in Seq(S) /\ Len(text \o B) = a + b + pad
      <3>1. PICK n \in Nat : n = a + b
        OBVIOUS
      <3> QED BY <1>1, <1>a, <3>1, LengthsAdd
    <2> QED BY <1>5, <1>7, <2>2, <2>3 DEF Prints_
  <1>8. CASE ~right /\ zero
    <2> DEFINE x == prefix \o Z
               y == x \o num
    <2>1. PICK n \in Nat : n = a + pad
      BY <1>0, <1>2
    <2>2. x \in Seq(S) /\ Len(x) = n
      BY <1>0, <1>a, <2>1, LengthsAdd
    <2> HIDE DEF x
    <2>3. y \in Seq(S) /\ Len(y) = n + b
      BY <1>0, <2>1, <2>2, LengthsAdd
    <2> HIDE DEF y
    <2>4. y \o <<>> = y /\ n + b = a + b + pad
      BY <2>1, <2>3, Blank
    <2>5. fmt_num_core(spec, prefix, num) = Printed(y, a + b + pad)
      BY <1>4, <1>6, <1>8, <2>4, Zenon DEF x, y
    <2>6. C!Padded(d, prefix, num, TRUE) = y
      BY <1>5, <1>8 DEF x, y
    <2> QED BY <2>3, <2>4, <2>5, <2>6 DEF Prints_
  <1>9. CASE ~right /\ ~zero
    <2> DEFINE x == B \o prefix
               y == x \o num
    <2>1. PICK n \in Nat : n = pad + a
      BY <1>0, <1>2
    <2>2. x \in Seq(S) /\ Len(x) = n
      BY <1>0, <1>a, <2>1, LengthsAdd
    <2>3. y = B \o text
      BY <1>a, ConcatAssociative DEF text
    <2> HIDE DEF x
    <2>4. y \in Seq(S) /\ Len(y) = n + b
      BY <1>0, <2>1, <2>2, LengthsAdd
    <2> HIDE DEF y
    <2>5. x \o <<>> = x /\ y \o <<>> = y /\ n + b = a + b + pad
      BY <2>1, <2>2, <2>4, Blank
    <2>6. fmt_num_core(spec, prefix, num) = Printed(y, a + b + pad)
      BY <1>4, <1>9, <2>5, Zenon DEF x, y
    <2>7. C!Padded(d, prefix, num, TRUE) = y
      BY <1>5, <1>9, <2>3
    <2> QED BY <2>4, <2>5, <2>6, <2>7 DEF Prints_
  <1> QED BY <1>7, <1>8, <1>9

LEMMA StringPadded ==
    ASSUME NEW S, Inked(S), NEW str \in Seq(S),
           NEW d, NEW spec, Shapes(spec, d)
    PROVE  /\ Prints_(fmt_str_core(spec, str), C!Padded(d, <<>>, str, FALSE))
           /\ C!Padded(d, <<>>, str, FALSE) \in Seq(S)
  <1>0. PICK n \in Nat : Len(str) = n
    OBVIOUS
  <1> DEFINE B == Fill(" ", PadWidth(spec, n))
  <1>1. <<>> \o str = str
    BY Blank
  <1>2. PICK pad \in Nat : pad = PadWidth(spec, n) /\ C!Max({0, d.width - n}) = pad
    BY <1>0, PadOf
  <1>3. B \in Seq(S) /\ Len(B) = pad /\ C!Repeated(" ", pad) = B
    <2>1. " " \in S
      BY DEF Inked, Inks
    <2> QED BY <1>2, <2>1, FillIs
  <1>4. fmt_str_core(spec, str) = Printed(IF "-" \in d.flags THEN str \o B ELSE B \o str, n + pad)
    BY <1>0, <1>2 DEF fmt_str_core, Shapes
  <1>5. C!Padded(d, <<>>, str, FALSE) = IF "-" \in d.flags THEN str \o B ELSE B \o str
    <2>1. C!Padded(d, <<>>, str, FALSE)
            = IF "-" \in d.flags THEN <<>> \o str \o C!Repeated(" ", C!Max({0, d.width - Len(<<>> \o str)}))
              ELSE C!Repeated(" ", C!Max({0, d.width - Len(<<>> \o str)})) \o (<<>> \o str)
      BY DEF C!Padded
    <2> HIDE DEF B
    <2> QED BY <1>0, <1>1, <1>2, <1>3, <2>1
  <1> HIDE DEF B
  <1>a. B \in Seq(S) /\ Len(B) = pad /\ pad \in Nat
    BY <1>3, <1>2
  <1>6. str \o B \in Seq(S) /\ Len(str \o B) = n + pad
    BY <1>0, <1>a, LengthsAdd
  <1>7. B \o str \in Seq(S) /\ Len(B \o str) = n + pad
    <2>1. Len(B \o str) = pad + n /\ B \o str \in Seq(S)
      BY <1>0, <1>a, LengthsAdd
    <2>2. pad + n = n + pad
      BY <1>0, <1>2
    <2> QED BY <2>1, <2>2
  <1> QED BY <1>4, <1>5, <1>6, <1>7 DEF Prints_

-----------------------------------------------------------------------------
(***************************************************************************)
(* What each conversion prints is what C has for its directive.            *)
(***************************************************************************)
PrintsAs(printed, text, S) == Prints_(printed, text) /\ text \in Seq(S)

LEMMA DigitsInked ==
    ASSUME NEW S, Inked(S), NEW b \in {8, 10, 16}, NEW n \in Nat, NEW upper \in BOOLEAN
    PROVE  InBase(n, b, upper) = C!InDigits(n, b, upper) /\ C!InDigits(n, b, upper) \in Seq(S)
  <1>1. GlyphSet \subseteq S
    BY DEF Inked, Inks
  <1>2. InBase(n, b, upper) = C!InDigits(n, b, upper) /\ C!InDigits(n, b, upper) \in Seq(GlyphSet)
    BY InBaseIs
  <1> HIDE DEF GlyphSet
  <1> QED BY <1>1, <1>2, SeqMonotonic

LEMMA DecimalPrinted ==
    ASSUME NEW S, Inked(S), NEW spec, NEW d, Shapes(spec, d), NEW v \in Int, v = d.val,
           Magnitude(v) = C!Magnitude_of(v), C!Magnitude_of(v) \in Nat
    PROVE  PrintsAs(fmt_dec(spec, v), C!Padded(d, C!Sign(d), C!InDigits(C!Magnitude_of(d.val), 10, FALSE), TRUE), S)
  <1> DEFINE prefix == C!Sign(d)
             num    == C!InDigits(C!Magnitude_of(v), 10, FALSE)
  <1>1. num = InBase(Magnitude(v), 10, FALSE) /\ num \in Seq(S)
    <2>1. 10 \in {8, 10, 16} /\ FALSE \in BOOLEAN
      OBVIOUS
    <2> QED BY <2>1, DigitsInked
  <1>2. prefix \in Seq(S)
    <2>1. "-" \in S /\ "+" \in S /\ " " \in S
      BY DEF Inked, Inks
    <2>2. <<>> \in Seq(S) /\ \A c \in S : <<c>> \in Seq(S)
      OBVIOUS
    <2>3. <<"-">> \in Seq(S) /\ <<"+">> \in Seq(S) /\ <<" ">> \in Seq(S)
      BY <2>1, <2>2, Zenon
    <2> QED BY <2>2, <2>3 DEF C!Sign
  <1>3. fmt_dec(spec, v) = fmt_num_core(spec, prefix, num)
    <2>1. spec.flags = d.flags
      BY DEF Shapes
    <2> HIDE DEF num
    <2> QED BY <1>1, <2>1, Zenon DEF fmt_dec, C!Sign
  <1> HIDE DEF prefix, num
  <1>4. PrintsAs(fmt_num_core(spec, prefix, num), C!Padded(d, prefix, num, TRUE), S)
    BY <1>1, <1>2, NumberPadded DEF PrintsAs
  <1> QED BY <1>3, <1>4 DEF prefix, num

LEMMA UnsignedPrinted ==
    ASSUME NEW S, Inked(S), NEW spec, NEW d, Shapes(spec, d), NEW v \in Nat, v = d.val
    PROVE  PrintsAs(fmt_uint(spec, v), C!Padded(d, <<>>, C!InDigits(d.val, 10, FALSE), TRUE), S)
  <1> DEFINE num == C!InDigits(v, 10, FALSE)
  <1>1. num = InBase(v, 10, FALSE) /\ num \in Seq(S)
    <2>1. 10 \in {8, 10, 16} /\ FALSE \in BOOLEAN
      OBVIOUS
    <2> QED BY <2>1, DigitsInked
  <1>2. fmt_uint(spec, v) = fmt_num_core(spec, <<>>, num)
    BY <1>1 DEF fmt_uint
  <1>3. <<>> \in Seq(S)
    OBVIOUS
  <1> HIDE DEF num
  <1>4. PrintsAs(fmt_num_core(spec, <<>>, num), C!Padded(d, <<>>, num, TRUE), S)
    BY <1>1, <1>3, NumberPadded DEF PrintsAs
  <1> QED BY <1>2, <1>4 DEF num

LEMMA BitsPrinted ==
    ASSUME NEW S, Inked(S), NEW spec, NEW d, Shapes(spec, d), NEW v \in Nat, v = d.val,
           NEW n \in Int, Unsigned(n, spec.bits) = v, n = 0 <=> v = 0, NEW base \in {8, 16},
           NEW prefix \in Seq(S), prefix = IF base = 8 THEN <<"0">> ELSE <<"0", spec.conv>>,
           NEW upper \in BOOLEAN, upper = (spec.conv = "X")
    PROVE  PrintsAs(fmt_bits(spec, n, base),
                    C!Padded(d, C!Alternative(d, prefix), C!InDigits(d.val, base, upper), TRUE), S)
  <1> DEFINE num == C!InDigits(v, base, upper)
             alt == C!Alternative(d, prefix)
  <1>1. num = InBase(v, base, upper) /\ num \in Seq(S)
    <2>1. base \in {8, 10, 16}
      OBVIOUS
    <2> QED BY <2>1, DigitsInked
  <1>2. alt = (IF "#" \in d.flags /\ n # 0 THEN prefix ELSE <<>>) /\ alt \in Seq(S)
    <2>1. alt = IF "#" \in d.flags /\ n # 0 THEN prefix ELSE <<>>
      BY DEF C!Alternative
    <2>2. <<>> \in Seq(S)
      OBVIOUS
    <2> HIDE DEF alt
    <2> QED BY <2>1, <2>2
  <1> HIDE DEF num, alt
  <1>3. fmt_bits(spec, n, base) = fmt_num_core(spec, alt, num)
    <2>1. spec.flags = d.flags
      BY DEF Shapes
    <2> DEFINE yes == "#" \in d.flags /\ n # 0
               pre == CASE yes /\ base = 8 -> <<"0">>
                        [] yes /\ base = 16 -> <<"0", spec.conv>>
                        [] OTHER -> <<>>
    <2>2. fmt_bits(spec, n, base) = fmt_num_core(spec, pre, InBase(Unsigned(n, spec.bits), base, spec.conv = "X"))
      BY <2>1, Zenon DEF fmt_bits
    <2>3. pre = IF yes THEN prefix ELSE <<>>
      <3> HIDE DEF yes
      <3> QED OBVIOUS
    <2> HIDE DEF pre
    <2>4. pre = alt
      BY <1>2, <2>3
    <2> QED BY <1>1, <2>2, <2>4
  <1>4. PrintsAs(fmt_num_core(spec, alt, num), C!Padded(d, alt, num, TRUE), S)
    BY <1>1, <1>2, NumberPadded DEF PrintsAs
  <1> QED BY <1>3, <1>4 DEF num, alt

LEMMA PrecisionIs ==
    ASSUME NEW d, IsDirective(d) PROVE d.precision \in Int
  <1>1. IsPrecision(d)
    BY DEF IsDirective
  <1>2. CASE d.precision = NoPrecision
    BY <1>2 DEF NoPrecision
  <1>3. CASE d.starred \in Int /\ d.precision = Signed(d.starred, INT_BITS)
    <2>1. INT_BITS \in {INT_BITS, LONG_BITS}
      OBVIOUS
    <2>2. PICK x \in Int : x = d.starred
      BY <1>3
    <2> QED BY <1>3, <2>1, <2>2, BitsAre
  <1>4. CASE IsDecimal(Tail(d.dotted), d.precision)
    <2> DEFINE t == Tail(d.dotted)
    <2>1. t \in Seq(Decimals) /\ d.precision = C!Positional(t, 10)
      BY <1>4 DEF IsDecimal, Decimals
    <2> HIDE DEF t
    <2>2. Len(t) \in Nat /\ 0 \in Nat
      BY <2>1
    <2>3. Stands(t, t, 0)
      BY <2>2 DEF Stands
    <2> QED BY <2>1, <2>2, <2>3, ScanIs
  <1> QED BY <1>1, <1>2, <1>3, <1>4 DEF IsPrecision

\* The text of %s, cut to the precision
Cut(str, precision) == SubSeq(str, 1, IF precision < 0 THEN Len(str) ELSE Min({precision, Len(str)}))

LEMMA CutIs ==
    ASSUME NEW S, NEW str \in Seq(S), NEW p \in Int
    PROVE  Cut(str, p) \in Seq(S) /\ (p < 0 => Cut(str, p) = str)
  <1>1. PICK n \in Nat : n = Len(str)
    OBVIOUS
  <1> DEFINE m == IF p < 0 THEN n ELSE Min({p, n})
  <1>2. m \in 0 .. n
    <2>1. Min({p, n}) = IF p <= n THEN p ELSE n
      BY MinOfTwo
    <2> QED BY <2>1
  <1>3. Cut(str, p) = SubSeq(str, 1, m)
    BY <1>1 DEF Cut
  <1>4. p < 0 => m = n
    OBVIOUS
  <1> HIDE DEF m
  <1>5. /\ SubSeq(str, 1, m) \in Seq(S) /\ Len(SubSeq(str, 1, m)) = m
        /\ \A i \in 1 .. m : SubSeq(str, 1, m)[i] = str[i]
    BY <1>1, <1>2
  <1>6. p < 0 => SubSeq(str, 1, m) = str
    <2> SUFFICES ASSUME p < 0 PROVE SubSeq(str, 1, m) = str
      OBVIOUS
    <2> QED BY <1>1, <1>4, <1>5, SeqEqual
  <1> QED BY <1>3, <1>5, <1>6

LEMMA StringPrinted ==
    ASSUME NEW S, Inked(S), NEW spec, NEW d, Shapes(spec, d), NEW str \in Seq(S), str = d.val, str # NULL_STR,
           NEW p \in Int, p = d.precision, spec.precision = IF p < 0 THEN NoPrecision ELSE p
    PROVE  PrintsAs(fmt_str(spec, str),
                    C!Padded(d, <<>>, SubSeq(d.val, 1, IF d.precision < 0 THEN Len(d.val)
                                                       ELSE C!Min({d.precision, Len(d.val)})), FALSE), S)
  <1> DEFINE t == Cut(str, p)
  <1>1. SubSeq(d.val, 1, IF d.precision < 0 THEN Len(d.val) ELSE C!Min({d.precision, Len(d.val)})) = t
    BY MaxInC DEF Cut
  <1>2. t \in Seq(S) /\ (p < 0 => t = str)
    BY CutIs
  <1>3. fmt_str(spec, str) = fmt_str_core(spec, t)
    <2>1. CASE p < 0
      <3>1. spec.precision = NoPrecision /\ t = str
        BY <1>2, <2>1
      <3> HIDE DEF t
      <3> QED BY <3>1 DEF fmt_str
    <2>2. CASE ~(p < 0)
      <3>1. spec.precision = p /\ p # NoPrecision
        BY <2>2 DEF NoPrecision
      <3>2. t = SubSeq(str, 1, Min({p, Len(str)}))
        BY <2>2 DEF Cut
      <3> HIDE DEF t
      <3>3. fmt_str(spec, str) = fmt_str_core(spec, SubSeq(str, 1, Min({spec.precision, Len(str)})))
        BY <3>1 DEF fmt_str
      <3> QED BY <3>1, <3>2, <3>3
    <2> QED BY <2>1, <2>2
  <1> HIDE DEF t
  <1>4. PrintsAs(fmt_str_core(spec, t), C!Padded(d, <<>>, t, FALSE), S)
    BY <1>2, StringPadded DEF PrintsAs
  <1> QED BY <1>1, <1>3, <1>4

LEMMA PointerPrinted ==
    ASSUME NEW S, Inked(S), NEW spec, NEW d, Shapes(spec, d), NEW v \in Nat, v = d.val
    PROVE  PrintsAs(fmt_ptr(spec, v), C!Padded(d, <<>>, IF d.val = 0 THEN <<"(", "n", "i", "l", ")">>
                                                        ELSE <<"0", "x">> \o C!InDigits(d.val, 16, FALSE), FALSE), S)
  <1> DEFINE num == C!InDigits(v, 16, FALSE)
             t   == IF v = 0 THEN <<"(", "n", "i", "l", ")">> ELSE <<"0", "x">> \o num
  <1>1. num = InBase(v, 16, FALSE) /\ num \in Seq(S)
    <2>1. 16 \in {8, 10, 16} /\ FALSE \in BOOLEAN
      OBVIOUS
    <2> QED BY <2>1, DigitsInked
  <1> HIDE DEF num
  <1>2. t \in Seq(S)
    <2>1. "(" \in S /\ "n" \in S /\ "i" \in S /\ "l" \in S /\ ")" \in S /\ "0" \in S /\ "x" \in S
      BY DEF Inked, Inks
    <2>2. <<"(", "n", "i", "l", ")">> \in Seq(S) /\ <<"0", "x">> \in Seq(S)
      BY <2>1
    <2>3. <<"0", "x">> \o num \in Seq(S)
      BY <1>1, <2>2, ConcatProperties
    <2> QED BY <2>2, <2>3
  <1>3. fmt_ptr(spec, v) = fmt_str_core(spec, t)
    BY <1>1, Zenon DEF fmt_ptr
  <1> HIDE DEF t
  <1>4. PrintsAs(fmt_str_core(spec, t), C!Padded(d, <<>>, t, FALSE), S)
    BY <1>2, StringPadded DEF PrintsAs
  <1> QED BY <1>3, <1>4 DEF t, num

\* What p_fmt is to read of a directive
SpecOf(spec, d) == /\ spec.flags = d.flags /\ spec.min_width = d.width /\ spec.precision = Prec(d)
                   /\ spec.bits = BitsOf(d) /\ spec.conv = d.conv

\* A text and a character have S as their characters.
ValueIn(d, S) == (d.conv = "s" => d.val \in Seq(S)) /\ (d.conv = "c" => d.val \in S)

LEMMA ShapeIs ==
    ASSUME NEW d, IsDirective(d), NEW spec, SpecOf(spec, d)
    PROVE  Shapes(spec, d) /\ spec.bits \in {INT_BITS, LONG_BITS} /\ spec.precision = Prec(d)
           /\ spec.bits = BitsOf(d) /\ spec.conv = d.conv
  <1>1. d.wide \in Seq(Decimals) /\ d.width = C!Positional(d.wide, 10)
    BY DirectiveHas
  <1>2. d.width \in Nat
    <2>1. PICK t \in Seq(Decimals) : t = d.wide
      BY <1>1
    <2>2. Len(t) \in Nat /\ 0 \in Nat
      OBVIOUS
    <2>3. Stands(t, t, 0)
      BY <2>2 DEF Stands
    <2>4. C!Positional(t, 10) \in Nat
      BY <2>2, <2>3, ScanIs
    <2> QED BY <1>1, <2>1, <2>4
  <1>3. spec.bits \in {INT_BITS, LONG_BITS}
    BY DEF SpecOf, BitsOf
  <1> QED BY <1>2, <1>3 DEF SpecOf, Shapes

LEMMA NumberFormatted ==
    ASSUME NEW d, IsDirective(d), NEW S, Inked(S), NEW spec, SpecOf(spec, d),
           d.conv \in {"d", "i", "u", "o", "x", "X"}
    PROVE  PrintsAs(Formatted(spec, d.arg), C!Directive(d), S)
  <1>1. Shapes(spec, d) /\ spec.bits \in {INT_BITS, LONG_BITS} /\ spec.bits = BitsOf(d) /\ spec.conv = d.conv
    BY ShapeIs
  <1>2. /\ d.arg \in Int
        /\ d.conv \in {"d", "i"} => d.val = Signed(d.arg, spec.bits)
        /\ d.conv \in {"u", "o", "x", "X"} => d.val = Unsigned(d.arg, spec.bits)
    BY <1>1 DEF IsDirective, Carries, BitsOf
  <1> DEFINE v == Signed(d.arg, spec.bits)
             u == Unsigned(d.arg, spec.bits)
  <1>3. /\ u \in Nat /\ v \in Int /\ Unsigned(v, spec.bits) = u /\ (v = 0 <=> u = 0)
        /\ Magnitude(v) = C!Magnitude_of(v) /\ C!Magnitude_of(v) \in Nat
    <2>1. PICK n \in Int, bits \in {INT_BITS, LONG_BITS} : n = d.arg /\ bits = spec.bits
      BY <1>1, <1>2
    <2> QED BY <2>1, BitsAre
  <1>4. CASE d.conv \in {"d", "i"}
    <2>1. Formatted(spec, d.arg) = fmt_dec(spec, v)
      BY <1>1, <1>4 DEF Formatted
    <2>2. v = d.val
      BY <1>2, <1>4
    <2>3. C!Directive(d) = C!Padded(d, C!Sign(d), C!InDigits(C!Magnitude_of(d.val), 10, FALSE), TRUE)
      BY <1>4 DEF C!Directive
    <2> HIDE DEF v, u
    <2> QED BY <1>1, <1>3, <2>1, <2>2, <2>3, DecimalPrinted
  <1>5. CASE d.conv = "u"
    <2>1. Formatted(spec, d.arg) = fmt_uint(spec, u)
      BY <1>1, <1>5 DEF Formatted
    <2>2. u = d.val
      BY <1>2, <1>5
    <2>3. C!Directive(d) = C!Padded(d, <<>>, C!InDigits(d.val, 10, FALSE), TRUE)
      BY <1>5 DEF C!Directive
    <2> HIDE DEF v, u
    <2> QED BY <1>1, <1>3, <2>1, <2>2, <2>3, UnsignedPrinted
  <1>6. ASSUME NEW base \in {8, 16}, NEW prefix \in Seq(S), NEW upper \in BOOLEAN, upper = (spec.conv = "X"),
               prefix = IF base = 8 THEN <<"0">> ELSE <<"0", spec.conv>>,
               d.conv \in {"o", "x", "X"}, Formatted(spec, d.arg) = fmt_bits(spec, v, base),
               C!Directive(d) = C!Padded(d, C!Alternative(d, prefix), C!InDigits(d.val, base, upper), TRUE)
        PROVE  PrintsAs(Formatted(spec, d.arg), C!Directive(d), S)
    <2>1. u = d.val
      BY <1>2, <1>6
    <2> HIDE DEF v, u
    <2>2. PrintsAs(fmt_bits(spec, v, base),
                   C!Padded(d, C!Alternative(d, prefix), C!InDigits(d.val, base, upper), TRUE), S)
      BY <1>1, <1>3, <1>6, <2>1, BitsPrinted
    <2> QED BY <1>6, <2>2
  <1> HIDE DEF v, u
  <1>7. "0" \in S /\ "x" \in S /\ "X" \in S
    BY DEF Inked, Inks
  <1>8. \A x, y \in S : <<x>> \in Seq(S) /\ <<x, y>> \in Seq(S)
    OBVIOUS
  <1>9. <<"0">> \in Seq(S) /\ <<"0", "x">> \in Seq(S) /\ <<"0", "X">> \in Seq(S)
    BY <1>7, <1>8, Zenon
  <1>10. CASE d.conv = "o"
    <2>1. Formatted(spec, d.arg) = fmt_bits(spec, v, 8)
      BY <1>1, <1>10 DEF Formatted, v
    <2>2. C!Directive(d) = C!Padded(d, C!Alternative(d, <<"0">>), C!InDigits(d.val, 8, FALSE), TRUE)
      BY <1>10 DEF C!Directive
    <2>3. FALSE = (spec.conv = "X")
      BY <1>1, <1>10
    <2> QED BY <1>6, <1>9, <1>10, <2>1, <2>2, <2>3
  <1>11. CASE d.conv = "x"
    <2>1. Formatted(spec, d.arg) = fmt_bits(spec, v, 16)
      BY <1>1, <1>11 DEF Formatted, v
    <2>2. C!Directive(d) = C!Padded(d, C!Alternative(d, <<"0", "x">>), C!InDigits(d.val, 16, FALSE), TRUE)
      BY <1>11 DEF C!Directive
    <2>3. PICK prefix \in Seq(S), base \in {8, 16}, upper \in BOOLEAN :
            /\ prefix = <<"0", "x">> /\ base = 16 /\ upper = FALSE
            /\ prefix = (IF base = 8 THEN <<"0">> ELSE <<"0", spec.conv>>) /\ upper = (spec.conv = "X")
      <3>1. PICK y : y = spec.conv /\ y = "x"
        BY <1>1, <1>11
      <3>2. PICK prefix \in Seq(S) : prefix = <<"0", "x">>
        BY <1>9
      <3>3. prefix = <<"0", spec.conv>>
        BY <3>1, <3>2, Zenon
      <3>4. PICK base \in {8, 16} : base = 16 /\ base # 8
        OBVIOUS
      <3>5. prefix = IF base = 8 THEN <<"0">> ELSE <<"0", spec.conv>>
        BY <3>3, <3>4, Zenon
      <3>6. FALSE \in BOOLEAN /\ FALSE = (spec.conv = "X")
        BY <3>1
      <3> QED BY <3>2, <3>4, <3>5, <3>6, Zenon
    <2>4. d.conv \in {"o", "x", "X"} /\ Formatted(spec, d.arg) = fmt_bits(spec, v, base)
      BY <1>11, <2>1, <2>3
    <2>5. C!Directive(d) = C!Padded(d, C!Alternative(d, prefix), C!InDigits(d.val, base, upper), TRUE)
      BY <2>2, <2>3
    <2> QED BY <1>6, <2>3, <2>4, <2>5
  <1>12. CASE d.conv = "X"
    <2>1. Formatted(spec, d.arg) = fmt_bits(spec, v, 16)
      BY <1>1, <1>12 DEF Formatted, v
    <2>2. C!Directive(d) = C!Padded(d, C!Alternative(d, <<"0", "X">>), C!InDigits(d.val, 16, TRUE), TRUE)
      BY <1>12 DEF C!Directive
    <2>3. PICK prefix \in Seq(S), base \in {8, 16}, upper \in BOOLEAN :
            /\ prefix = <<"0", "X">> /\ base = 16 /\ upper = TRUE
            /\ prefix = (IF base = 8 THEN <<"0">> ELSE <<"0", spec.conv>>) /\ upper = (spec.conv = "X")
      <3>1. PICK y : y = spec.conv /\ y = "X"
        BY <1>1, <1>12
      <3>2. PICK prefix \in Seq(S) : prefix = <<"0", "X">>
        BY <1>9
      <3>3. prefix = <<"0", spec.conv>>
        BY <3>1, <3>2, Zenon
      <3>4. PICK base \in {8, 16} : base = 16 /\ base # 8
        OBVIOUS
      <3>5. prefix = IF base = 8 THEN <<"0">> ELSE <<"0", spec.conv>>
        BY <3>3, <3>4, Zenon
      <3>6. TRUE \in BOOLEAN /\ TRUE = (spec.conv = "X")
        BY <3>1
      <3> QED BY <3>2, <3>4, <3>5, <3>6, Zenon
    <2>4. d.conv \in {"o", "x", "X"} /\ Formatted(spec, d.arg) = fmt_bits(spec, v, base)
      BY <1>12, <2>1, <2>3
    <2>5. C!Directive(d) = C!Padded(d, C!Alternative(d, prefix), C!InDigits(d.val, base, upper), TRUE)
      BY <2>2, <2>3
    <2> QED BY <1>6, <2>3, <2>4, <2>5
  <1> QED BY <1>4, <1>5, <1>10, <1>11, <1>12

LEMMA FormattedIs ==
    ASSUME NEW d, IsDirective(d), d.conv \notin {"%", "n"}, NEW S, Inked(S), ValueIn(d, S),
           NEW spec, SpecOf(spec, d)
    PROVE  PrintsAs(Formatted(spec, d.arg), C!Directive(d), S) /\ d.conv \in Conversions
  <1>1. Shapes(spec, d) /\ spec.precision = Prec(d) /\ spec.conv = d.conv
    BY ShapeIs
  <1>2. /\ d.conv \in {"d", "i", "u", "o", "x", "X", "s", "c", "p"}
        /\ d.conv \in {"s", "c", "p"} => d.arg = d.val
        /\ d.conv = "s" => d.val # NULL_STR
        /\ d.conv = "p" => d.val \in Nat
    BY DEF IsDirective, Carries
  <1>3. CASE d.conv \in {"d", "i", "u", "o", "x", "X"}
    BY <1>3, NumberFormatted DEF Conversions
  <1>4. CASE d.conv = "s"
    <2>1. PICK str \in Seq(S) : str = d.val
      BY <1>4 DEF ValueIn
    <2>2. PICK p \in Int : p = d.precision
      BY PrecisionIs
    <2>3. spec.precision = IF p < 0 THEN NoPrecision ELSE p
      BY <1>1, <2>2 DEF Prec
    <2>4. Formatted(spec, d.arg) = fmt_str(spec, str)
      BY <1>1, <1>2, <1>4, <2>1 DEF Formatted
    <2>5. C!Directive(d) = C!Padded(d, <<>>, SubSeq(d.val, 1, IF d.precision < 0 THEN Len(d.val)
                                                       ELSE C!Min({d.precision, Len(d.val)})), FALSE)
      BY <1>4 DEF C!Directive
    <2>6. str # NULL_STR
      BY <1>2, <1>4, <2>1
    <2>7. PrintsAs(Formatted(spec, d.arg), C!Directive(d), S)
      BY <1>1, <2>1, <2>2, <2>3, <2>4, <2>5, <2>6, StringPrinted
    <2> QED BY <1>4, <2>7 DEF Conversions
  <1>5. CASE d.conv = "c"
    <2>1. PICK c \in S : c = d.val
      BY <1>5 DEF ValueIn
    <2> DEFINE t == <<c>>
    <2>2. Formatted(spec, d.arg) = fmt_str_core(spec, t)
      BY <1>1, <1>2, <1>5, <2>1 DEF Formatted
    <2>3. C!Directive(d) = C!Padded(d, <<>>, t, FALSE)
      BY <1>5, <2>1 DEF C!Directive
    <2>4. t \in Seq(S)
      OBVIOUS
    <2> HIDE DEF t
    <2>5. PrintsAs(Formatted(spec, d.arg), C!Directive(d), S)
      BY <1>1, <2>2, <2>3, <2>4, StringPadded DEF PrintsAs
    <2> QED BY <1>5, <2>5 DEF Conversions
  <1>6. CASE d.conv = "p"
    <2>1. PICK v \in Nat : v = d.val
      BY <1>2, <1>6
    <2>2. Formatted(spec, d.arg) = fmt_ptr(spec, v)
      BY <1>1, <1>2, <1>6, <2>1 DEF Formatted
    <2>3. C!Directive(d) = C!Padded(d, <<>>, IF d.val = 0 THEN <<"(", "n", "i", "l", ")">>
                                             ELSE <<"0", "x">> \o C!InDigits(d.val, 16, FALSE), FALSE)
      BY <1>6 DEF C!Directive
    <2>4. PrintsAs(Formatted(spec, d.arg), C!Directive(d), S)
      BY <1>1, <2>1, <2>2, <2>3, PointerPrinted
    <2> QED BY <1>6, <2>4 DEF Conversions
  <1> QED BY <1>2, <1>3, <1>4, <1>5, <1>6

-----------------------------------------------------------------------------
(***************************************************************************)
(* The first parts of a sequence of parts, one after another.              *)
(***************************************************************************)
FirstParts(parts, n) == [i \in 1 .. n |-> parts[i]]
Upto(parts, n)       == FlattenSeq(FirstParts(parts, n))

LEMMA UptoIs ==
    ASSUME NEW S, NEW m \in Nat, NEW parts, \A i \in 1 .. m : parts[i] \in Seq(S)
    PROVE  /\ Upto(parts, 0) = <<>>
           /\ \A n \in 0 .. m : Upto(parts, n) \in Seq(S)
           /\ \A n \in 0 .. m - 1 : Upto(parts, n + 1) = Upto(parts, n) \o parts[n + 1]
  <1>1. ASSUME NEW n \in 0 .. m
        PROVE  /\ FirstParts(parts, n) \in Seq(Seq(S)) /\ Len(FirstParts(parts, n)) = n
               /\ \A i \in 1 .. n : FirstParts(parts, n)[i] = parts[i]
    <2>1. n \in Nat /\ \A i \in 1 .. n : parts[i] \in Seq(S)
      OBVIOUS
    <2>2. FirstParts(parts, n) \in [1 .. n -> Seq(S)]
      BY <2>1 DEF FirstParts
    <2>3. FirstParts(parts, n) \in Seq(Seq(S))
      BY <2>1, <2>2, SeqDef
    <2>4. DOMAIN FirstParts(parts, n) = 1 .. n /\ \A i \in 1 .. n : FirstParts(parts, n)[i] = parts[i]
      BY DEF FirstParts
    <2>5. Len(FirstParts(parts, n)) = n
      BY <2>1, <2>3, <2>4, LenProperties
    <2> QED BY <2>3, <2>4, <2>5
  <1>2. ASSUME NEW n \in 0 .. m - 1
        PROVE  FirstParts(parts, n + 1) = Append(FirstParts(parts, n), parts[n + 1])
    <2> DEFINE t == Append(FirstParts(parts, n), parts[n + 1])
    <2>1. n \in 0 .. m /\ n + 1 \in 0 .. m /\ n + 1 \in 1 .. m
      OBVIOUS
    <2>2. /\ FirstParts(parts, n) \in Seq(Seq(S)) /\ Len(FirstParts(parts, n)) = n
          /\ \A i \in 1 .. n : FirstParts(parts, n)[i] = parts[i]
      BY <1>1, <2>1
    <2>3. /\ FirstParts(parts, n + 1) \in Seq(Seq(S)) /\ Len(FirstParts(parts, n + 1)) = n + 1
          /\ \A i \in 1 .. n + 1 : FirstParts(parts, n + 1)[i] = parts[i]
      BY <1>1, <2>1
    <2>4. parts[n + 1] \in Seq(S)
      BY <2>1
    <2>5. /\ t \in Seq(Seq(S)) /\ Len(t) = n + 1 /\ t[n + 1] = parts[n + 1]
          /\ \A i \in 1 .. n : t[i] = FirstParts(parts, n)[i]
      BY <2>2, <2>4, AppendProperties
    <2> HIDE DEF t
    <2>6. \A i \in 1 .. n + 1 : i \in 1 .. n \/ i = n + 1
      BY <2>1
    <2>7. \A i \in 1 .. n + 1 : t[i] = FirstParts(parts, n + 1)[i]
      BY <2>2, <2>3, <2>5, <2>6
    <2>8. t = FirstParts(parts, n + 1)
      BY <2>3, <2>5, <2>7, SeqEqual
    <2> QED BY <2>8 DEF t
  <1>3. Upto(parts, 0) = <<>>
    <2>1. FirstParts(parts, 0) \in Seq(Seq(S)) /\ Len(FirstParts(parts, 0)) = 0
      BY <1>1
    <2>2. FirstParts(parts, 0) = <<>>
      BY <2>1, EmptySeq
    <2> QED BY <2>1, <2>2 DEF FlattenSeq, Upto
  <1>4. \A n \in 0 .. m : Upto(parts, n) \in Seq(S)
    BY <1>1, FlattenIn DEF Upto
  <1>5. ASSUME NEW n \in 0 .. m - 1
        PROVE  Upto(parts, n + 1) = Upto(parts, n) \o parts[n + 1]
    <2>1. n \in 0 .. m /\ n + 1 \in 1 .. m
      OBVIOUS
    <2>2. FirstParts(parts, n) \in Seq(Seq(S)) /\ parts[n + 1] \in Seq(S)
      BY <1>1, <2>1
    <2> QED BY <1>2, <2>2, FlattenMore DEF Upto
  <1> QED BY <1>3, <1>4, <1>5

\* All parts are the first n and something behind them.
Goes(parts, m, n, S) == \E r \in Seq(S) : Upto(parts, m) = Upto(parts, n) \o r

LEMMA UptoAll ==
    ASSUME NEW S, NEW m \in Nat, NEW parts, \A i \in 1 .. m : parts[i] \in Seq(S)
    PROVE  \A n \in 0 .. m : Goes(parts, m, n, S)
  <1> DEFINE T == {k \in Nat : k <= m => Goes(parts, m, m - k, S)}
  <1>1. 0 \in T
    <2>1. m - 0 = m /\ m \in 0 .. m
      OBVIOUS
    <2>2. Upto(parts, m) \in Seq(S)
      BY <2>1, UptoIs
    <2>3. Upto(parts, m) = Upto(parts, m) \o <<>> /\ <<>> \in Seq(S)
      BY <2>2, Blank
    <2> QED BY <2>1, <2>3 DEF Goes
  <1>2. ASSUME NEW k \in Nat, k \in T PROVE k + 1 \in T
    <2> SUFFICES ASSUME k + 1 <= m PROVE Goes(parts, m, m - (k + 1), S)
      OBVIOUS
    <2>0. Goes(parts, m, m - k, S)
      BY <1>2
    <2>1. PICK r \in Seq(S) : Upto(parts, m) = Upto(parts, m - k) \o r
      BY <2>0 DEF Goes
    <2>2. PICK n \in 0 .. m - 1 : n = m - (k + 1) /\ n + 1 = m - k /\ n \in 0 .. m /\ n + 1 \in 1 .. m
      OBVIOUS
    <2>3. /\ Upto(parts, n) \in Seq(S) /\ parts[n + 1] \in Seq(S)
          /\ Upto(parts, n + 1) = Upto(parts, n) \o parts[n + 1]
      BY <2>2, UptoIs
    <2> DEFINE x == Upto(parts, n)
               y == parts[n + 1]
    <2>4. x \in Seq(S) /\ y \in Seq(S)
      BY <2>3
    <2> HIDE DEF x, y
    <2>5. (x \o y) \o r = x \o (y \o r) /\ y \o r \in Seq(S)
      BY <2>4, ConcatAssociative, ConcatProperties
    <2>6. Upto(parts, m) = Upto(parts, n) \o (y \o r)
      BY <2>1, <2>2, <2>3, <2>5 DEF x, y
    <2> HIDE DEF y
    <2>7. Goes(parts, m, n, S)
      BY <2>5, <2>6 DEF Goes
    <2> QED BY <2>2, <2>7
  <1> HIDE DEF T
  <1>3. \A k \in Nat : k \in T
    BY <1>1, <1>2, Induct
  <1>4. ASSUME NEW n \in 0 .. m PROVE Goes(parts, m, n, S)
    <2>1. PICK k \in Nat : k = m - n /\ k <= m /\ m - k = n
      OBVIOUS
    <2> QED BY <1>3, <2>1 DEF T
  <1> QED BY <1>4

\* What follows the first n parts begins with the next one.
StartsWith(s, x, parts, m, n, S) == \E r \in Seq(S) : s = x \o r /\ Upto(parts, m) = Upto(parts, n + 1) \o r

LEMMA NextPart ==
    ASSUME NEW S, NEW m \in Nat, NEW parts, \A i \in 1 .. m : parts[i] \in Seq(S),
           NEW n \in 0 .. m - 1, NEW s \in Seq(S), Upto(parts, m) = Upto(parts, n) \o s
    PROVE  StartsWith(s, parts[n + 1], parts, m, n, S)
  <1>1. n \in 0 .. m /\ n + 1 \in 0 .. m /\ n + 1 \in 1 .. m
    OBVIOUS
  <1>2. /\ Upto(parts, n) \in Seq(S) /\ parts[n + 1] \in Seq(S)
        /\ Upto(parts, n + 1) = Upto(parts, n) \o parts[n + 1]
    BY <1>1, UptoIs
  <1>3. PICK r \in Seq(S) : Upto(parts, m) = Upto(parts, n + 1) \o r
    <2>1. PICK k \in 0 .. m : k = n + 1
      BY <1>1
    <2>2. Goes(parts, m, k, S)
      BY UptoAll
    <2> QED BY <2>1, <2>2 DEF Goes
  <1> DEFINE x == Upto(parts, n)
             y == parts[n + 1]
  <1>a. x \in Seq(S) /\ y \in Seq(S)
    BY <1>2
  <1> HIDE DEF x, y
  <1>4. (x \o y) \o r = x \o (y \o r) /\ y \o r \in Seq(S)
    <2>1. r \in Seq(S)
      BY <1>3
    <2>2. y \o r \in Seq(S)
      BY <1>a, <2>1, ConcatProperties
    <2> QED BY <1>a, <2>1, <2>2, ConcatAssociative
  <1>5. x \o s = x \o (y \o r)
    BY <1>2, <1>3, <1>4 DEF x, y
  <1>6. s = y \o r
    BY <1>a, <1>4, <1>5, ConcatSimplifications
  <1> QED BY <1>3, <1>6 DEF y, StartsWith

LEMMA LastPart ==
    ASSUME NEW S, NEW m \in Nat, NEW parts, \A i \in 1 .. m : parts[i] \in Seq(S),
           NEW s \in Seq(S), Upto(parts, m) = Upto(parts, m) \o s
    PROVE  s = <<>>
  <1>1. Upto(parts, m) \in Seq(S)
    <2>1. m \in 0 .. m
      OBVIOUS
    <2> QED BY <2>1, UptoIs
  <1> QED BY <1>1, ConcatSimplifications

-----------------------------------------------------------------------------
(***************************************************************************)
(* The directives of a job, over one alphabet.                             *)
(***************************************************************************)
DirectiveIn(d, S) == \/ IsText(d) /\ d.val \in Seq(S)
                     \/ IsDirective(d) /\ ValueIn(d, S) /\ d.arg \in S /\ d.starred \in S

Covers(S) == Signs \subseteq S /\ Inked(S)

LEMMA ReadIsSpec ==
    ASSUME NEW d, NEW ra, NEW r
    PROVE  /\ SpecOf(ReadAs(d, ra, r), d) /\ ReadAs(d, ra, r).conv = d.conv
           /\ ReadAs(d, ra, r).ap = OwnArg(d) \o ra /\ ReadAs(d, ra, r).rest = r
  BY DEF SpecOf, ReadAs

LEMMA TextHas ==
    ASSUME NEW d, IsText(d), NEW S, d.val \in Seq(S)
    PROVE  /\ Spelled(d) = d.val /\ d.val # <<>> /\ Passed(d) = <<>> /\ C!Directive(d) = d.val
           /\ d.conv = "text" /\ \A i \in 1 .. Len(d.val) : d.val[i] # "%"
  <1>1. d.conv = "text" /\ d.val # <<>> /\ ~d.star /\ "%" \notin Range(d.val)
    BY DEF IsText
  <1>2. Passed(d) = <<>>
    BY <1>1 DEF Passed
  <1>3. \A i \in 1 .. Len(d.val) : d.val[i] # "%"
    <2>1. DOMAIN d.val = 1 .. Len(d.val)
      BY LenProperties
    <2> QED BY <1>1, <2>1 DEF Range
  <1>4. Spelled(d) = d.val /\ C!Directive(d) = d.val
    BY <1>1 DEF Spelled, C!Directive
  <1> QED BY <1>1, <1>2, <1>3, <1>4

LEMMA NotText ==
    ASSUME NEW d, IsDirective(d) PROVE d.conv # "text"
  BY DirectiveHas DEF Marks

LEMMA DirectivePrints ==
    ASSUME NEW d, NEW S, IsDirective(d), ValueIn(d, S), d.arg \in S, Covers(S),
           NEW ra \in Seq(S), NEW r \in Seq(S)
    PROVE  /\ d.conv = "%" => C!Directive(d) = <<"%">> /\ <<"%">> \in Seq(S)
           /\ d.conv = "n" => C!Directive(d) = <<>>
           /\ d.conv \notin {"%", "n"} =>
                PrintsAs(Formatted(ReadAs(d, ra, r), d.arg), C!Directive(d), S) /\ d.conv \in Conversions
           /\ C!Directive(d) \in Seq(S)
  <1>1. Inked(S)
    BY DEF Covers
  <1>2. CASE d.conv = "%"
    <2>1. "%" \in S
      BY <1>1 DEF Inked, Inks
    <2>2. C!Directive(d) = <<"%">>
      BY <1>2 DEF C!Directive
    <2>3. \A c \in S : <<c>> \in Seq(S)
      OBVIOUS
    <2> QED BY <1>2, <2>1, <2>2, <2>3
  <1>3. CASE d.conv = "n"
    <2>1. C!Directive(d) = <<>>
      BY <1>3 DEF C!Directive
    <2>2. <<>> \in Seq(S)
      OBVIOUS
    <2> QED BY <1>3, <2>1, <2>2
  <1>4. CASE d.conv \notin {"%", "n"}
    <2>1. PICK spec : spec = ReadAs(d, ra, r) /\ SpecOf(spec, d)
      BY ReadIsSpec
    <2>2. PrintsAs(Formatted(spec, d.arg), C!Directive(d), S) /\ d.conv \in Conversions
      BY <1>1, <1>4, <2>1, FormattedIs
    <2> QED BY <1>4, <2>1, <2>2 DEF PrintsAs
  <1> QED BY <1>2, <1>3, <1>4

LEMMA PartsIn ==
    ASSUME NEW d, NEW S, DirectiveIn(d, S), Covers(S)
    PROVE  /\ Spelled(d) \in Seq(S) /\ Spelled(d) # <<>>
           /\ Passed(d) \in Seq(S) /\ C!Directive(d) \in Seq(S)
  <1>1. <<>> \in Seq(S)
    OBVIOUS
  <1>2. CASE IsText(d) /\ d.val \in Seq(S)
    BY <1>1, <1>2, TextHas
  <1>3. CASE IsDirective(d) /\ ValueIn(d, S) /\ d.arg \in S /\ d.starred \in S
    <2>1. Signs \subseteq S /\ d.star \in BOOLEAN
      BY <1>3 DEF Covers, IsDirective
    <2>2. Spelled(d) \in Seq(S)
      BY <1>1, <1>3, <2>1, DirectiveBegins
    <2>3. Spelled(d) \o <<>> # <<>>
      BY <1>1, <1>3, <2>1, DirectiveRead
    <2>4. Spelled(d) # <<>>
      BY <2>2, <2>3, Blank
    <2>5. Passed(d) \in Seq(S)
      BY <1>1, <1>3, <2>1, PassedAre
    <2>6. C!Directive(d) \in Seq(S)
      BY <1>1, <1>3, DirectivePrints
    <2> QED BY <2>2, <2>4, <2>5, <2>6
  <1> QED BY <1>2, <1>3 DEF DirectiveIn

-----------------------------------------------------------------------------
(***************************************************************************)
(* What %n stores: the counts in front of the directives with one, in the  *)
(* order of the directives.                                                *)
(***************************************************************************)
UpTo(at, k)     == {j \in at : j <= k}
Nth(at, m)      == CHOOSE k \in at : Cardinality(UpTo(at, k)) = m
CountAt(ds, k)  == Len(C!Text(SubSeq(ds, 1, k - 1)))
InOrder(at, ds) == [m \in 1 .. Cardinality(at) |-> CountAt(ds, Nth(at, m))]

LEMMA OneMoreIn ==
    ASSUME NEW i \in Nat, NEW at, at \subseteq 1 .. i, NEW ds, NEW more, more = at \cup {i + 1}
    PROVE  InOrder(more, ds) = Append(InOrder(at, ds), CountAt(ds, i + 1))
  <1>1. IsFiniteSet(at)
    <2>1. IsFiniteSet(1 .. i)
      <3>1. 1 \in Int /\ i \in Int
        OBVIOUS
      <3> QED BY <3>1, FS_Interval
    <2> QED BY <2>1, FS_Subset
  <1>2. PICK n \in Nat : n = Cardinality(at)
    BY <1>1, FS_CardinalityType
  <1>3. Cardinality(more) = n + 1
    BY <1>1, <1>2, FS_AddElement
  <1>4. UpTo(more, i + 1) = more
    <2>1. \A j \in more : j <= i + 1
      OBVIOUS
    <2> QED BY <2>1, Zenon DEF UpTo
  <1>5. \A k \in at : UpTo(more, k) = UpTo(at, k)
    BY DEF UpTo
  <1>6. \A k \in at : Cardinality(UpTo(at, k)) \in Nat /\ Cardinality(UpTo(at, k)) <= n
    <2> SUFFICES ASSUME NEW k \in at PROVE Cardinality(UpTo(at, k)) \in Nat /\ Cardinality(UpTo(at, k)) <= n
      OBVIOUS
    <2>1. UpTo(at, k) \subseteq at
      BY DEF UpTo
    <2>2. IsFiniteSet(UpTo(at, k)) /\ Cardinality(UpTo(at, k)) <= Cardinality(at)
      BY <1>1, <2>1, FS_Subset
    <2> QED BY <1>2, <2>2, FS_CardinalityType
  <1>7. ASSUME NEW m \in 1 .. n PROVE Nth(more, m) = Nth(at, m)
    <2>1. \A k : k \in more /\ Cardinality(UpTo(more, k)) = m <=> k \in at /\ Cardinality(UpTo(at, k)) = m
      <3>1. Cardinality(UpTo(more, i + 1)) # m
        <4>1. Cardinality(UpTo(more, i + 1)) = n + 1
          BY <1>3, <1>4, Zenon
        <4>2. n + 1 # m
          OBVIOUS
        <4> QED BY <4>1, <4>2, Zenon
      <3> QED BY <1>5, <3>1
    <2> QED BY <2>1 DEF Nth
  <1>8. Nth(more, n + 1) = i + 1
    <2>1. \A k \in more : Cardinality(UpTo(more, k)) = n + 1 <=> k = i + 1
      <3>1. \A k \in at : Cardinality(UpTo(more, k)) # n + 1
        <4> SUFFICES ASSUME NEW k \in at PROVE Cardinality(UpTo(more, k)) # n + 1
          OBVIOUS
        <4>1. Cardinality(UpTo(at, k)) \in Nat /\ Cardinality(UpTo(at, k)) <= n
          BY <1>6
        <4>2. Cardinality(UpTo(more, k)) = Cardinality(UpTo(at, k))
          BY <1>5
        <4> QED BY <4>1, <4>2
      <3>2. Cardinality(UpTo(more, i + 1)) = n + 1
        BY <1>3, <1>4
      <3> QED BY <3>1, <3>2
    <2>2. i + 1 \in more
      OBVIOUS
    <2> QED BY <2>1, <2>2 DEF Nth
  <1> DEFINE s == InOrder(at, ds)
             t == InOrder(more, ds)
             X == {CountAt(ds, Nth(more, m)) : m \in 1 .. n + 1}
  <1>9. s \in Seq(X) /\ Len(s) = n /\ \A m \in 1 .. n : s[m] = CountAt(ds, Nth(more, m))
    <2> DEFINE e(m) == CountAt(ds, Nth(more, m))
    <2>1. \A m \in 1 .. n : CountAt(ds, Nth(at, m)) = e(m) /\ e(m) \in X
      <3>1. \A m \in 1 .. n : CountAt(ds, Nth(at, m)) = e(m)
        BY <1>7
      <3>2. \A m \in 1 .. n : m \in 1 .. n + 1
        OBVIOUS
      <3> QED BY <3>1, <3>2
    <2>2. s = [m \in 1 .. n |-> e(m)]
      BY <1>2, <2>1 DEF InOrder
    <2> HIDE DEF X, e, s
    <2>3. [m \in 1 .. n |-> e(m)] \in Seq(X)
      BY <2>1, IsASeq
    <2>4. DOMAIN s = 1 .. n /\ \A m \in 1 .. n : s[m] = e(m)
      BY <2>2
    <2>5. Len(s) = n
      BY <2>2, <2>3, <2>4, LenProperties
    <2> QED BY <2>2, <2>3, <2>4, <2>5 DEF e
  <1>10. t \in Seq(X) /\ Len(t) = n + 1 /\ \A m \in 1 .. n + 1 : t[m] = CountAt(ds, Nth(more, m))
    <2> DEFINE e(m) == CountAt(ds, Nth(more, m))
    <2>1. \A m \in 1 .. n + 1 : e(m) \in X
      OBVIOUS
    <2>2. t = [m \in 1 .. n + 1 |-> e(m)]
      BY <1>3 DEF InOrder
    <2>0. n + 1 \in Nat
      OBVIOUS
    <2> HIDE DEF X, e, t
    <2>3. [m \in 1 .. n + 1 |-> e(m)] \in Seq(X)
      BY <2>0, <2>1, IsASeq
    <2>4. DOMAIN t = 1 .. n + 1 /\ \A m \in 1 .. n + 1 : t[m] = e(m)
      BY <2>2
    <2>5. Len(t) = n + 1
      BY <2>0, <2>2, <2>3, <2>4, LenProperties
    <2> QED BY <2>2, <2>3, <2>4, <2>5 DEF e
  <1>11. CountAt(ds, i + 1) \in X /\ CountAt(ds, Nth(more, n + 1)) = CountAt(ds, i + 1)
    <2>1. n + 1 \in 1 .. n + 1
      OBVIOUS
    <2> QED BY <1>8, <2>1
  <1> HIDE DEF s, t, X
  <1> DEFINE u == Append(s, CountAt(ds, i + 1))
  <1>12. u \in Seq(X) /\ Len(u) = n + 1 /\ u[n + 1] = CountAt(ds, i + 1) /\ \A m \in 1 .. n : u[m] = s[m]
    BY <1>9, <1>11, AppendProperties
  <1> HIDE DEF u
  <1>13. \A m \in 1 .. n + 1 : u[m] = t[m]
    <2>1. \A m \in 1 .. n + 1 : m \in 1 .. n \/ m = n + 1
      OBVIOUS
    <2> QED BY <1>9, <1>10, <1>11, <1>12, <2>1
  <1>14. u = t
    BY <1>10, <1>12, <1>13, SeqEqual
  <1> QED BY <1>14 DEF u, s, t

-----------------------------------------------------------------------------
(***************************************************************************)
(* A job of printf: its directives as written, as arguments and as texts.  *)
(***************************************************************************)
SpelledBy(ds) == [i \in 1 .. Len(ds) |-> Spelled(ds[i])]
PassedBy(ds)  == [i \in 1 .. Len(ds) |-> Passed(ds[i])]
PrintedBy(ds) == [i \in 1 .. Len(ds) |-> C!Directive(ds[i])]

TextTo(ds, i) == Upto(PrintedBy(ds), i)

AreIn(ds, S) == /\ Len(ds) \in Nat /\ ds \in Seq(Range(ds)) /\ Covers(S)
                /\ \A i \in 1 .. Len(ds) : DirectiveIn(ds[i], S)
                /\ \A i \in 1 .. Len(ds) - 1 : ds[i].conv # "text" \/ ds[i + 1].conv # "text"

LEMMA PartsBy ==
    ASSUME NEW ds, NEW S, AreIn(ds, S), NEW i \in 1 .. Len(ds)
    PROVE  /\ SpelledBy(ds)[i] = Spelled(ds[i]) /\ SpelledBy(ds)[i] \in Seq(S) /\ SpelledBy(ds)[i] # <<>>
           /\ PassedBy(ds)[i] = Passed(ds[i]) /\ PassedBy(ds)[i] \in Seq(S)
           /\ PrintedBy(ds)[i] = C!Directive(ds[i]) /\ PrintedBy(ds)[i] \in Seq(S)
  <1>1. SpelledBy(ds)[i] = Spelled(ds[i]) /\ PassedBy(ds)[i] = Passed(ds[i]) /\ PrintedBy(ds)[i] = C!Directive(ds[i])
    BY DEF SpelledBy, PassedBy, PrintedBy
  <1>2. DirectiveIn(ds[i], S) /\ Covers(S)
    BY DEF AreIn
  <1>3. PICK d : d = ds[i]
    OBVIOUS
  <1>4. /\ Spelled(d) \in Seq(S) /\ Spelled(d) # <<>>
        /\ Passed(d) \in Seq(S) /\ C!Directive(d) \in Seq(S)
    BY <1>2, <1>3, PartsIn
  <1> QED BY <1>1, <1>3, <1>4

LEMMA TextsAre ==
    ASSUME NEW ds, NEW S, AreIn(ds, S), NEW n \in Nat, n = Len(ds)
    PROVE  /\ TextTo(ds, 0) = <<>>
           /\ \A i \in 0 .. n : TextTo(ds, i) \in Seq(S)
           /\ \A i \in 0 .. n - 1 : /\ TextTo(ds, i + 1) = TextTo(ds, i) \o C!Directive(ds[i + 1])
                                    /\ C!Directive(ds[i + 1]) \in Seq(S)
           /\ \A i \in 0 .. n : \E r \in Seq(S) : TextTo(ds, n) = TextTo(ds, i) \o r
  <1> DEFINE parts == PrintedBy(ds)
  <1>1. \A i \in 1 .. n : parts[i] \in Seq(S) /\ parts[i] = C!Directive(ds[i])
    BY PartsBy
  <1> HIDE DEF parts
  <1>2. \A i \in 1 .. n : parts[i] \in Seq(S)
    BY <1>1
  <1>3. /\ Upto(parts, 0) = <<>>
        /\ \A i \in 0 .. n : Upto(parts, i) \in Seq(S)
        /\ \A i \in 0 .. n - 1 : Upto(parts, i + 1) = Upto(parts, i) \o parts[i + 1]
    BY <1>2, UptoIs
  <1>4. ASSUME NEW i \in 0 .. n PROVE \E r \in Seq(S) : Upto(parts, n) = Upto(parts, i) \o r
    <2>1. Goes(parts, n, i, S)
      BY <1>2, UptoAll
    <2> QED BY <2>1 DEF Goes
  <1>5. \A i \in 0 .. n - 1 : parts[i + 1] = C!Directive(ds[i + 1]) /\ parts[i + 1] \in Seq(S)
    <2>1. \A i \in 0 .. n - 1 : i + 1 \in 1 .. n
      OBVIOUS
    <2> QED BY <1>1, <2>1
  <1> QED BY <1>3, <1>4, <1>5 DEF TextTo, parts

LEMMA TextsGrow ==
    ASSUME NEW ds, NEW S, AreIn(ds, S), NEW n \in Nat, n = Len(ds), NEW y \in 0 .. n, NEW k \in 0 .. n, y >= k
    PROVE  Len(TextTo(ds, y)) >= Len(TextTo(ds, k))
  <1> DEFINE parts == PrintedBy(ds)
  <1>1. \A i \in 1 .. n : parts[i] \in Seq(S)
    BY PartsBy
  <1> HIDE DEF parts
  <1>2. (\A i \in 1 .. y : parts[i] \in Seq(S)) /\ y \in Nat /\ k \in 0 .. y
    BY <1>1
  <1>3. Goes(parts, y, k, S)
    BY <1>2, UptoAll
  <1>4. PICK r \in Seq(S) : Upto(parts, y) = Upto(parts, k) \o r
    BY <1>3 DEF Goes
  <1>5. PICK T \in Seq(S) : T = Upto(parts, k)
    BY <1>2, UptoIs
  <1>6. PICK a \in Nat, b \in Nat : a = Len(T) /\ b = Len(r)
    OBVIOUS
  <1>7. Len(T \o r) = a + b
    BY <1>6, LengthsAdd
  <1>8. Len(Upto(parts, y)) >= Len(Upto(parts, k))
    BY <1>4, <1>5, <1>6, <1>7
  <1> QED BY <1>8 DEF TextTo, parts

LEMMA FlattenInC == \A s : C!FlattenSeq(s) = FlattenSeq(s)
  BY DEF C!FlattenSeq, FlattenSeq

\* The text of the first i directives
LEMMA TextIs ==
    ASSUME NEW ds, NEW S, AreIn(ds, S), NEW n \in Nat, n = Len(ds), NEW i \in 0 .. n
    PROVE  C!Text(SubSeq(ds, 1, i)) = TextTo(ds, i) /\ CountAt(ds, i + 1) = Len(TextTo(ds, i))
           /\ (i = n => SubSeq(ds, 1, i) = ds)
  <1> DEFINE p == SubSeq(ds, 1, i)
  <1>1. ds \in Seq(Range(ds))
    BY DEF AreIn
  <1>2. p \in Seq(Range(ds)) /\ Len(p) = i /\ \A k \in 1 .. i : p[k] = ds[k]
    BY <1>1
  <1>3. i = n => p = ds
    <2> HIDE DEF p
    <2> SUFFICES ASSUME i = n PROVE p = ds
      OBVIOUS
    <2> QED BY <1>1, <1>2, SeqEqual
  <1> HIDE DEF p
  <1>4. DOMAIN p = 1 .. i
    BY <1>2, LenProperties
  <1>5. [k \in DOMAIN p |-> C!Directive(p[k])] = FirstParts(PrintedBy(ds), i)
    <2>1. \A k \in 1 .. i : k \in 1 .. Len(ds)
      OBVIOUS
    <2>2. \A k \in 1 .. i : PrintedBy(ds)[k] = C!Directive(ds[k])
      BY <2>1 DEF PrintedBy
    <2>3. \A k \in 1 .. i : C!Directive(p[k]) = PrintedBy(ds)[k]
      BY <1>2, <2>2
    <2> QED BY <1>4, <2>3, Zenon DEF FirstParts
  <1>6. C!Text(p) = TextTo(ds, i)
    BY <1>5, FlattenInC DEF C!Text, TextTo, Upto
  <1>7. CountAt(ds, i + 1) = Len(C!Text(p))
    <2>1. i + 1 - 1 = i
      OBVIOUS
    <2> QED BY <2>1 DEF CountAt, p
  <1> QED BY <1>3, <1>6, <1>7 DEF p

-----------------------------------------------------------------------------
(***************************************************************************)
(* The next part of the format.                                            *)
(***************************************************************************)
Awaits(ds, S, i, format, args) ==
    /\ format \in Seq(S) /\ args \in Seq(S)
    /\ Upto(SpelledBy(ds), Len(ds)) = Upto(SpelledBy(ds), i) \o format
    /\ Upto(PassedBy(ds), Len(ds)) = Upto(PassedBy(ds), i) \o args

LEMMA NextFormat ==
    ASSUME NEW ds, NEW S, AreIn(ds, S), NEW n \in Nat, n = Len(ds), NEW i \in 0 .. n - 1,
           NEW format \in Seq(S), Upto(SpelledBy(ds), n) = Upto(SpelledBy(ds), i) \o format
    PROVE  StartsWith(format, Spelled(ds[i + 1]), SpelledBy(ds), n, i, S)
  <1> DEFINE parts == SpelledBy(ds)
  <1>1. \A k \in 1 .. n : parts[k] \in Seq(S) /\ parts[k] = Spelled(ds[k])
    BY PartsBy
  <1> HIDE DEF parts
  <1>2. \A k \in 1 .. n : parts[k] \in Seq(S)
    BY <1>1
  <1>3. Upto(parts, n) = Upto(parts, i) \o format
    BY DEF parts
  <1>4. StartsWith(format, parts[i + 1], parts, n, i, S)
    BY <1>2, <1>3, NextPart
  <1>5. parts[i + 1] = Spelled(ds[i + 1])
    <2>1. i + 1 \in 1 .. n
      OBVIOUS
    <2> QED BY <1>1, <2>1
  <1> QED BY <1>4, <1>5 DEF parts

LEMMA NextArgs ==
    ASSUME NEW ds, NEW S, AreIn(ds, S), NEW n \in Nat, n = Len(ds), NEW i \in 0 .. n - 1,
           NEW args \in Seq(S), Upto(PassedBy(ds), n) = Upto(PassedBy(ds), i) \o args
    PROVE  StartsWith(args, Passed(ds[i + 1]), PassedBy(ds), n, i, S)
  <1> DEFINE parts == PassedBy(ds)
  <1>1. \A k \in 1 .. n : parts[k] \in Seq(S) /\ parts[k] = Passed(ds[k])
    BY PartsBy
  <1> HIDE DEF parts
  <1>2. \A k \in 1 .. n : parts[k] \in Seq(S)
    BY <1>1
  <1>3. Upto(parts, n) = Upto(parts, i) \o args
    BY DEF parts
  <1>4. StartsWith(args, parts[i + 1], parts, n, i, S)
    BY <1>2, <1>3, NextPart
  <1>5. parts[i + 1] = Passed(ds[i + 1])
    <2>1. i + 1 \in 1 .. n
      OBVIOUS
    <2> QED BY <1>1, <2>1
  <1> QED BY <1>4, <1>5 DEF parts

LEMMA AllRead ==
    ASSUME NEW ds, NEW S, AreIn(ds, S), NEW format, NEW args, NEW n \in Nat, n = Len(ds), Awaits(ds, S, n, format, args)
    PROVE  format = <<>>
  <1> DEFINE parts == SpelledBy(ds)
  <1>1. \A k \in 1 .. n : parts[k] \in Seq(S)
    BY PartsBy
  <1>2. format \in Seq(S) /\ Upto(parts, n) = Upto(parts, n) \o format
    BY DEF Awaits
  <1> HIDE DEF parts
  <1> QED BY <1>1, <1>2, LastPart

\* What the next step of printf has in front of it
InFront(d, S, r, ra, format, args) ==
    /\ r \in Seq(S) /\ ra \in Seq(S) /\ format = Spelled(d) \o r /\ args = Passed(d) \o ra
    /\ d.conv = "text" => r = <<>> \/ r[1] = "%"

LEMMA NextDirective ==
    ASSUME NEW ds, NEW S, AreIn(ds, S), NEW n \in Nat, n = Len(ds), NEW i \in 0 .. n - 1,
           NEW format, NEW args, Awaits(ds, S, i, format, args)
    PROVE  \E r, ra : InFront(ds[i + 1], S, r, ra, format, args) /\ Awaits(ds, S, i + 1, r, ra)
  <1>1. PICK f \in Seq(S), a \in Seq(S) : /\ f = format /\ a = args
                                          /\ Upto(SpelledBy(ds), n) = Upto(SpelledBy(ds), i) \o f
                                          /\ Upto(PassedBy(ds), n) = Upto(PassedBy(ds), i) \o a
    BY DEF Awaits
  <1>2. PICK r \in Seq(S) : /\ f = Spelled(ds[i + 1]) \o r
                            /\ Upto(SpelledBy(ds), n) = Upto(SpelledBy(ds), i + 1) \o r
    <2>1. StartsWith(f, Spelled(ds[i + 1]), SpelledBy(ds), n, i, S)
      BY <1>1, NextFormat
    <2> QED BY <2>1 DEF StartsWith
  <1>3. PICK ra \in Seq(S) : /\ a = Passed(ds[i + 1]) \o ra
                             /\ Upto(PassedBy(ds), n) = Upto(PassedBy(ds), i + 1) \o ra
    <2>1. StartsWith(a, Passed(ds[i + 1]), PassedBy(ds), n, i, S)
      BY <1>1, NextArgs
    <2> QED BY <2>1 DEF StartsWith
  <1>4. Awaits(ds, S, i + 1, r, ra)
    BY <1>2, <1>3 DEF Awaits
  <1>5. ASSUME ds[i + 1].conv = "text" PROVE r = <<>> \/ r[1] = "%"
    <2>1. CASE i + 1 = n
      <3>1. Awaits(ds, S, n, r, ra)
        BY <1>4, <2>1
      <3> QED BY <3>1, AllRead
    <2>2. CASE i + 1 # n
      <3>1. PICK k \in 0 .. n - 1 : k = i + 1
        BY <2>2
      <3>2. PICK q \in Seq(S) : r = Spelled(ds[k + 1]) \o q
        <4>1. r \in Seq(S) /\ Upto(SpelledBy(ds), n) = Upto(SpelledBy(ds), k) \o r
          BY <1>2, <3>1
        <4>2. StartsWith(r, Spelled(ds[k + 1]), SpelledBy(ds), n, k, S)
          BY <4>1, NextFormat
        <4> QED BY <4>2 DEF StartsWith
      <3>3. PICK d : d = ds[k + 1]
        OBVIOUS
      <3>4. d.conv # "text"
        <4>1. k \in 1 .. n - 1
          BY <3>1
        <4>2. ds[k].conv # "text" \/ ds[k + 1].conv # "text"
          BY <4>1 DEF AreIn
        <4> QED BY <1>5, <3>1, <3>3, <4>2
      <3>5. DirectiveIn(d, S) /\ Signs \subseteq S
        <4>1. k + 1 \in 1 .. n
          OBVIOUS
        <4> QED BY <3>3, <4>1 DEF AreIn, Covers
      <3>6. IsDirective(d) /\ d.arg \in S /\ d.starred \in S
        BY <3>4, <3>5 DEF DirectiveIn, IsText
      <3>7. (Spelled(d) \o q)[1] = "%"
        <4>1. <<>> \in Seq(S)
          OBVIOUS
        <4> QED BY <3>2, <3>5, <3>6, <4>1, DirectiveRead
      <3> QED BY <3>2, <3>3, <3>7
    <2> QED BY <2>1, <2>2
  <1> QED BY <1>1, <1>2, <1>3, <1>4, <1>5 DEF InFront

-----------------------------------------------------------------------------
(***************************************************************************)
(* The text up to the next '%', and what goes to the stream.               *)
(***************************************************************************)
RawEnd(s) == Min({j \in 1 .. Len(s) + 1 : j > Len(s) \/ ~(s[j] # "%")})

IsRaw(t)    == t # <<>> /\ \A i \in 1 .. Len(t) : t[i] # "%"
StopsRaw(r) == r = <<>> \/ r[1] = "%"
RawReads(s, t, r) == /\ s # <<>> /\ s[1] # "%" /\ RawEnd(s) - 1 = Len(t) /\ SubSeq(s, 1, RawEnd(s) - 1) = t
                     /\ SubSeq(s, RawEnd(s), Len(s)) = r

LEMMA RawIs ==
    ASSUME NEW S, NEW t \in Seq(S), NEW r \in Seq(S), IsRaw(t), StopsRaw(r), NEW s, s = t \o r
    PROVE  RawReads(s, t, r)
  <1>0. t # <<>> /\ (\A i \in 1 .. Len(t) : t[i] # "%") /\ (r = <<>> \/ r[1] = "%")
    BY DEF IsRaw, StopsRaw
  <1>1. PICK n \in Nat, m \in Nat : n = Len(t) /\ m = Len(r) /\ n > 0 /\ (m = 0 => r = <<>>)
    BY <1>0, EmptySeq
  <1>2. /\ s \in Seq(S) /\ Len(s) = n + m
        /\ \A i \in 1 .. n + m : s[i] = IF i <= n THEN t[i] ELSE r[i - n]
    BY <1>1, ConcatProperties
  <1>3. \A i \in 1 .. n : s[i] = t[i]
    BY <1>1, <1>2
  <1>4. \A i \in 1 .. m : s[n + i] = r[i]
    <2> SUFFICES ASSUME NEW i \in 1 .. m PROVE s[n + i] = r[i]
      OBVIOUS
    <2>1. n + i \in 1 .. n + m /\ ~(n + i <= n) /\ n + i - n = i
      BY <1>1
    <2> QED BY <1>2, <2>1
  <1>5. s # <<>> /\ s[1] # "%"
    <2>1. 1 \in 1 .. n
      BY <1>1
    <2>2. s[1] # "%"
      BY <1>0, <1>1, <1>3, <2>1
    <2>3. Len(s) # 0
      BY <1>1, <1>2
    <2> QED BY <2>2, <2>3
  <1>6. RawEnd(s) = n + 1
    <2> DEFINE E == {j \in 1 .. Len(s) + 1 : j > Len(s) \/ ~(s[j] # "%")}
    <2>1. n + 1 \in E
      <3>1. n + 1 \in 1 .. Len(s) + 1
        BY <1>1, <1>2
      <3>2. CASE m = 0
        BY <1>2, <3>1, <3>2
      <3>3. CASE m # 0
        <4>1. r # <<>> /\ 1 \in 1 .. m
          BY <1>1, <3>3
        <4>2. s[n + 1] = "%"
          BY <1>0, <1>4, <4>1
        <4> QED BY <3>1, <4>2
      <3> QED BY <3>2, <3>3
    <2>2. \A j \in E : n + 1 <= j
      <3> SUFFICES ASSUME NEW j \in E, j < n + 1 PROVE FALSE
        BY <1>1, <1>2
      <3>1. j \in 1 .. n /\ ~(j > Len(s))
        BY <1>1, <1>2
      <3>2. s[j] # "%"
        BY <1>0, <1>1, <1>3, <3>1
      <3> QED BY <3>1, <3>2
    <2>3. E \subseteq Int
      BY <1>2
    <2>4. RawEnd(s) = Min(E)
      BY DEF RawEnd
    <2> HIDE DEF E
    <2> QED BY <2>1, <2>2, <2>3, <2>4, MinIs
  <1>7. SubSeq(s, 1, n) = t
    <2>1. /\ SubSeq(s, 1, n) \in Seq(S) /\ Len(SubSeq(s, 1, n)) = n
          /\ \A i \in 1 .. n : SubSeq(s, 1, n)[i] = s[i]
      <3>1. n \in 0 .. Len(s)
        BY <1>1, <1>2
      <3> QED BY <1>2, <3>1
    <2> QED BY <1>1, <1>3, <2>1, SeqEqual
  <1>8. SubSeq(s, n + 1, Len(s)) = r
    <2>1. PICK l \in Nat : l = Len(s) /\ l = n + m
      BY <1>1, <1>2
    <2>2. s \in Seq(S) /\ n \in Nat /\ m \in Nat /\ m = Len(r)
      BY <1>1, <1>2
    <2> QED BY <1>4, <2>1, <2>2, RestOf, ZenonT(60)
  <1>9. PICK e \in Nat : e = RawEnd(s) /\ e = n + 1 /\ e - 1 = n
    BY <1>1, <1>6
  <1>10. SubSeq(s, 1, e - 1) = t /\ SubSeq(s, e, Len(s)) = r
    BY <1>7, <1>8, <1>9
  <1> QED BY <1>1, <1>5, <1>9, <1>10 DEF RawReads

\* What a stream with room for R characters has of a text, and printf's count
Streams(T, R, o, rm) == o = Take(T, R) /\ rm = Max({R - Len(T), 0})

LEMMA PutMore ==
    ASSUME NEW S, NEW T \in Seq(S), NEW t \in Seq(S), NEW R \in Nat, Streams(T, R, out, room),
           Len(T) <= R, nw = Len(T), NEW printed, Prints_(printed, t), NEW rest, Put(printed, rest)
    PROVE  /\ T \o t \in Seq(S) /\ Streams(T \o t, R, out', room')
           /\ Len(T \o t) <= R => nw' = Len(T \o t) /\ fmt' = rest
           /\ ~(Len(T \o t) <= R) => nw' = -1 /\ fmt' = <<>>
  <1>1. PICK n \in Nat, m \in Nat : n = Len(T) /\ m = Len(t)
    OBVIOUS
  <1>2. n <= R /\ nw = n /\ out = Take(T, R) /\ room = Max({R - n, 0})
    BY <1>1 DEF Streams
  <1>3. printed.text = t /\ printed.n = m
    BY <1>1 DEF Prints_, Printed
  <1>4. T \o t \in Seq(S) /\ Len(T \o t) = n + m
    BY <1>1, LengthsAdd
  <1>5. PICK k \in Nat : k = R - n /\ room = k
    <2>1. R - n \in Int /\ R - n >= 0 /\ 0 \in Int
      BY <1>1, <1>2
    <2>2. Max({R - n, 0}) = R - n
      BY <2>1, MaxOfTwo
    <2> QED BY <1>2, <2>1, <2>2
  <1>6. out' = T \o Take(t, k)
    <2>1. Take(T, R) = T
      BY <1>1, <1>2, TakeAll
    <2>2. out' = out \o Take(t, k)
      BY <1>3, <1>5 DEF Put
    <2> QED BY <1>2, <2>1, <2>2
  <1>7. Take(T \o t, R) = T \o Take(t, k)
    <2>1. Take(T \o t, R) = T \o Take(t, R - Len(T))
      BY TakeMore
    <2> QED BY <1>1, <1>5, <2>1
  <1>8. room' = Max({R - (n + m), 0})
    <2>1. room' = Max({k - m, 0})
      BY <1>1, <1>3, <1>5 DEF Put
    <2>2. Max({k - m, 0}) = (IF k - m >= 0 THEN k - m ELSE 0)
      <3>1. k - m \in Int /\ 0 \in Int
        BY <1>1, <1>5
      <3> QED BY <3>1, MaxOfTwo
    <2>3. R - (n + m) = k - m
      BY <1>1, <1>5
    <2> QED BY <2>1, <2>3
  <1>9. nw' = IF m > k THEN -1 ELSE n + m
    BY <1>1, <1>2, <1>3, <1>5 DEF Put, Count
  <1>10. fmt' = IF nw' = -1 THEN <<>> ELSE rest
    BY DEF Put
  <1>11. n + m <= R => nw' = n + m /\ fmt' = rest
    BY <1>1, <1>5, <1>9, <1>10
  <1>12. ~(n + m <= R) => nw' = -1 /\ fmt' = <<>>
    BY <1>1, <1>5, <1>9, <1>10
  <1> QED BY <1>4, <1>6, <1>7, <1>8, <1>11, <1>12 DEF Streams

-----------------------------------------------------------------------------
(***************************************************************************)
(* printf has done the first i parts.                                      *)
(***************************************************************************)
CountsIn(ds, R, i) == {k \in 1 .. i : ds[k].conv = "n" /\ CountAt(ds, k) <= R}

AtPart(ds, S, R, i, format, args, rm, o, count, st) ==
    /\ i \in 0 .. Len(ds) /\ Streams(TextTo(ds, i), R, o, rm)
    /\ st = InOrder(CountsIn(ds, R, i), ds)
    /\ Len(TextTo(ds, i)) <= R => count = Len(TextTo(ds, i)) /\ Awaits(ds, S, i, format, args)
    /\ ~(Len(TextTo(ds, i)) <= R) => count = -1 /\ format = <<>>

LEMMA CountsMore ==
    ASSUME NEW ds, NEW S, AreIn(ds, S), NEW n \in Nat, n = Len(ds), NEW R \in Nat, NEW i \in 0 .. n - 1
    PROVE  /\ ds[i + 1].conv # "n" => CountsIn(ds, R, i + 1) = CountsIn(ds, R, i)
           /\ ds[i + 1].conv = "n" /\ Len(TextTo(ds, i)) <= R =>
                InOrder(CountsIn(ds, R, i + 1), ds) = Append(InOrder(CountsIn(ds, R, i), ds), Len(TextTo(ds, i)))
  <1>1. i \in 0 .. n /\ i \in Nat
    OBVIOUS
  <1>2. CountAt(ds, i + 1) = Len(TextTo(ds, i))
    BY <1>1, TextIs
  <1>3. \A k : k \in 1 .. i + 1 <=> (k \in 1 .. i \/ k = i + 1)
    OBVIOUS
  <1>4. CASE ds[i + 1].conv # "n"
    <2>1. \A k : k \in CountsIn(ds, R, i + 1) <=> k \in CountsIn(ds, R, i)
      BY <1>3, <1>4, Zenon DEF CountsIn
    <2> QED BY <1>4, <2>1
  <1>5. CASE ds[i + 1].conv = "n" /\ Len(TextTo(ds, i)) <= R
    <2>1. \A k : k \in CountsIn(ds, R, i + 1) <=> (k \in CountsIn(ds, R, i) \/ k = i + 1)
      BY <1>2, <1>3, <1>5, Zenon DEF CountsIn
    <2>2. CountsIn(ds, R, i) \subseteq 1 .. i
      BY DEF CountsIn
    <2>3. PICK at, more : at = CountsIn(ds, R, i) /\ more = CountsIn(ds, R, i + 1)
      OBVIOUS
    <2>4. more = at \cup {i + 1} /\ at \subseteq 1 .. i
      BY <2>1, <2>2, <2>3
    <2>5. InOrder(more, ds) = Append(InOrder(at, ds), CountAt(ds, i + 1))
      BY <1>1, <2>4, OneMoreIn
    <2> QED BY <1>2, <1>5, <2>3, <2>5
  <1>6. CASE ds[i + 1].conv = "n" /\ ~(Len(TextTo(ds, i)) <= R)
    BY <1>6
  <1> QED BY <1>4, <1>5, <1>6

\* A part that prints: a text, a conversion or a '%'
LEMMA PartPut ==
    ASSUME NEW ds, NEW S, AreIn(ds, S), NEW n \in Nat, n = Len(ds), NEW R \in Nat, NEW i \in 0 .. n - 1,
           ds[i + 1].conv # "n", AtPart(ds, S, R, i, fmt, ap, room, out, nw, stored), Len(TextTo(ds, i)) <= R,
           NEW r, NEW ra, Awaits(ds, S, i + 1, r, ra),
           NEW printed, Prints_(printed, C!Directive(ds[i + 1])), Put(printed, r), ap' = ra, UNCHANGED stored
    PROVE  AtPart(ds, S, R, i + 1, fmt', ap', room', out', nw', stored')
  <1>1. i \in 0 .. n /\ i + 1 \in 0 .. n
    OBVIOUS
  <1>2. /\ TextTo(ds, i) \in Seq(S) /\ C!Directive(ds[i + 1]) \in Seq(S)
        /\ TextTo(ds, i + 1) = TextTo(ds, i) \o C!Directive(ds[i + 1])
    BY <1>1, TextsAre
  <1>3. PICK T \in Seq(S), t \in Seq(S) : T = TextTo(ds, i) /\ t = C!Directive(ds[i + 1]) /\ T \o t = TextTo(ds, i + 1)
    BY <1>2
  <1>4. Streams(T, R, out, room) /\ nw = Len(T) /\ stored = InOrder(CountsIn(ds, R, i), ds) /\ Len(T) <= R
    BY <1>3 DEF AtPart
  <1>5. /\ Streams(T \o t, R, out', room')
        /\ Len(T \o t) <= R => nw' = Len(T \o t) /\ fmt' = r
        /\ ~(Len(T \o t) <= R) => nw' = -1 /\ fmt' = <<>>
    <2>1. Prints_(printed, t) /\ Put(printed, r)
      BY <1>3
    <2>2. Streams(T, R, out, room) /\ nw = Len(T) /\ Len(T) <= R
      BY <1>4
    <2> QED BY <2>1, <2>2, PutMore, Zenon
  <1>6. stored' = InOrder(CountsIn(ds, R, i + 1), ds)
    BY <1>4, CountsMore
  <1> QED BY <1>1, <1>3, <1>5, <1>6 DEF AtPart

LEMMA TextStep ==
    ASSUME NEW ds, NEW S, AreIn(ds, S), NEW n \in Nat, n = Len(ds), NEW R \in Nat, NEW i \in 0 .. n - 1,
           AtPart(ds, S, R, i, fmt, ap, room, out, nw, stored), Len(TextTo(ds, i)) <= R,
           NEW r, NEW ra, Awaits(ds, S, i + 1, r, ra), InFront(ds[i + 1], S, r, ra, fmt, ap),
           IsText(ds[i + 1]), ds[i + 1].val \in Seq(S), _vfprintf
    PROVE  AtPart(ds, S, R, i + 1, fmt', ap', room', out', nw', stored')
  <1>1. PICK d : d = ds[i + 1]
    OBVIOUS
  <1>2. /\ Spelled(d) = d.val /\ d.val # <<>> /\ Passed(d) = <<>> /\ C!Directive(d) = d.val
        /\ d.conv = "text" /\ \A k \in 1 .. Len(d.val) : d.val[k] # "%"
    BY <1>1, TextHas
  <1>3. PICK t \in Seq(S), q \in Seq(S), qa \in Seq(S) :
             /\ t = d.val /\ q = r /\ qa = ra /\ fmt = t \o q /\ ap = <<>> \o qa /\ (q = <<>> \/ q[1] = "%")
    BY <1>1, <1>2 DEF InFront
  <1>4. t # <<>> /\ \A k \in 1 .. Len(t) : t[k] # "%"
    BY <1>2, <1>3
  <1>5. PICK f : f = fmt
    OBVIOUS
  <1>6. f = t \o q
    BY <1>3, <1>5
  <1>7. /\ f # <<>> /\ f[1] # "%" /\ RawEnd(f) - 1 = Len(t) /\ SubSeq(f, 1, RawEnd(f) - 1) = t
        /\ SubSeq(f, RawEnd(f), Len(f)) = q
    <2>1. IsRaw(t) /\ StopsRaw(q)
      BY <1>3, <1>4 DEF IsRaw, StopsRaw
    <2>2. RawReads(f, t, q)
      BY <1>6, <2>1, RawIs
    <2> QED BY <2>2 DEF RawReads
  <1>8. ap = ra
    BY <1>3, Blank
  <1>9. Raw
    BY <1>5, <1>7 DEF _vfprintf, Conversion, Percent, StoreCount
  <1>10. Put(Printed(SubSeq(f, 1, RawEnd(f) - 1), RawEnd(f) - 1), SubSeq(f, RawEnd(f), Len(f))) /\ UNCHANGED <<ap, stored>>
    BY <1>5, <1>9, Zenon DEF Raw, Past, RawEnd
  <1>11. Put(Printed(t, Len(t)), r) /\ ap' = ra /\ UNCHANGED stored
    BY <1>3, <1>7, <1>8, <1>10
  <1>12. PICK printed : printed = Printed(t, Len(t))
    OBVIOUS
  <1>13. Prints_(printed, C!Directive(d)) /\ Put(printed, r)
    BY <1>2, <1>3, <1>11, <1>12 DEF Prints_
  <1>14. ds[i + 1].conv # "n"
    BY <1>1, <1>2
  <1> QED BY <1>1, <1>11, <1>13, <1>14, PartPut

LEMMA DirectiveStep ==
    ASSUME NEW ds, NEW S, AreIn(ds, S), NEW n \in Nat, n = Len(ds), NEW R \in Nat, NEW i \in 0 .. n - 1,
           AtPart(ds, S, R, i, fmt, ap, room, out, nw, stored), Len(TextTo(ds, i)) <= R,
           NEW r, NEW ra, Awaits(ds, S, i + 1, r, ra), InFront(ds[i + 1], S, r, ra, fmt, ap),
           IsDirective(ds[i + 1]), ValueIn(ds[i + 1], S), ds[i + 1].arg \in S, ds[i + 1].starred \in S, _vfprintf
    PROVE  AtPart(ds, S, R, i + 1, fmt', ap', room', out', nw', stored')
  <1>1. PICK d : d = ds[i + 1]
    OBVIOUS
  <1>2. IsDirective(d) /\ ValueIn(d, S) /\ d.arg \in S /\ d.starred \in S /\ d.conv # "text" /\ Covers(S)
    BY <1>1, NotText DEF AreIn
  <1>a. PICK q \in Seq(S), qa \in Seq(S) :
             q = r /\ qa = ra /\ fmt = Spelled(d) \o q /\ ap = Passed(d) \o qa
    BY <1>1 DEF InFront
  <1>b. PICK spec : spec = ReadAs(d, qa, q)
    OBVIOUS
  <1>3. /\ q \in Seq(S) /\ qa \in Seq(S) /\ q = r /\ qa = ra
        /\ fmt = Spelled(d) \o q /\ ap = Passed(d) \o qa /\ spec = ReadAs(d, qa, q)
    BY <1>a, <1>b
  <1>4. p_fmt(fmt, ap) = spec /\ fmt[1] = "%" /\ fmt # <<>>
    <2>1. Signs \subseteq S
      BY <1>2 DEF Covers
    <2>2. /\ p_fmt(Spelled(d) \o q, Passed(d) \o qa) = ReadAs(d, qa, q)
          /\ (Spelled(d) \o q)[1] = "%" /\ Spelled(d) \o q # <<>>
      BY <1>2, <2>1, DirectiveRead
    <2> QED BY <1>3, <2>2
  <1>5. spec.conv = d.conv /\ spec.rest = r /\ spec.ap = OwnArg(d) \o qa
    <2>1. spec = ReadAs(d, qa, q) /\ q = r
      BY <1>3
    <2>2. /\ ReadAs(d, qa, q).conv = d.conv /\ ReadAs(d, qa, q).rest = q
          /\ ReadAs(d, qa, q).ap = OwnArg(d) \o qa
      BY ReadIsSpec
    <2> QED BY <2>1, <2>2
  <1>6. /\ d.conv = "%" => OwnArg(d) \o qa = qa
        /\ d.conv # "%" => Head(OwnArg(d) \o qa) = d.arg /\ Tail(OwnArg(d) \o qa) = qa
    <2>1. /\ d.star \in BOOLEAN /\ (d.star => d.starred \in S)
          /\ (d.conv \notin {"text", "%"} => d.arg \in S)
      BY <1>2 DEF IsDirective
    <2>2. /\ d.conv = "%" => OwnArg(d) \o qa = qa
          /\ d.conv \notin {"text", "%"} => Head(OwnArg(d) \o qa) = d.arg /\ Tail(OwnArg(d) \o qa) = qa
      BY <2>1, PassedAre, ZenonT(60)
    <2> QED BY <1>2, <2>2
  <1>7. /\ d.conv = "%" => C!Directive(d) = <<"%">> /\ <<"%">> \in Seq(S)
        /\ d.conv = "n" => C!Directive(d) = <<>>
        /\ d.conv \notin {"%", "n"} => PrintsAs(Formatted(spec, d.arg), C!Directive(d), S) /\ d.conv \in Conversions
    BY <1>2, <1>3, DirectivePrints
  <1>8. ~Raw
    BY <1>4 DEF Raw
  <1>9. CASE d.conv = "%"
    <2>1. Percent
      BY <1>4, <1>5, <1>8, <1>9 DEF _vfprintf, Conversion, StoreCount, Conversions
    <2>2. Put(Printed(<<"%">>, 1), spec.rest) /\ ap' = spec.ap /\ UNCHANGED stored
      BY <1>4, <2>1, Zenon DEF Percent
    <2>3. PICK printed : printed = Printed(<<"%">>, 1)
      OBVIOUS
    <2>4. Prints_(printed, C!Directive(d))
      <3>1. Len(<<"%">>) = 1
        OBVIOUS
      <3> QED BY <1>7, <1>9, <2>3, <3>1 DEF Prints_
    <2>5. Put(printed, r) /\ ap' = ra
      BY <1>3, <1>5, <1>6, <1>9, <2>2, <2>3
    <2>6. Prints_(printed, C!Directive(ds[i + 1])) /\ ds[i + 1].conv # "n"
      BY <1>1, <1>9, <2>4
    <2> QED BY <2>2, <2>5, <2>6, PartPut
  <1>10. CASE d.conv = "n"
    <2>1. StoreCount
      BY <1>4, <1>5, <1>8, <1>10 DEF _vfprintf, Conversion, Percent, Conversions
    <2>2. stored' = Append(stored, nw) /\ fmt' = spec.rest /\ ap' = Tail(spec.ap) /\ UNCHANGED <<room, out, nw>>
      BY <1>4, <2>1, Zenon DEF StoreCount
    <2>3. fmt' = r /\ ap' = ra
      BY <1>3, <1>5, <1>6, <1>10, <2>2
    <2>4. i \in 0 .. n /\ i + 1 \in 0 .. n
      OBVIOUS
    <2>5. TextTo(ds, i + 1) = TextTo(ds, i)
      <3>1. TextTo(ds, i) \in Seq(S) /\ TextTo(ds, i + 1) = TextTo(ds, i) \o C!Directive(ds[i + 1])
        BY <2>4, TextsAre
      <3>2. C!Directive(ds[i + 1]) = <<>>
        BY <1>1, <1>7, <1>10
      <3>3. PICK T \in Seq(S) : T = TextTo(ds, i)
        BY <3>1
      <3>4. T \o <<>> = T
        BY Blank
      <3> QED BY <3>1, <3>2, <3>3, <3>4
    <2>6. /\ Streams(TextTo(ds, i), R, out, room) /\ nw = Len(TextTo(ds, i))
          /\ stored = InOrder(CountsIn(ds, R, i), ds)
      BY DEF AtPart
    <2>7. stored' = InOrder(CountsIn(ds, R, i + 1), ds)
      <3>1. ds[i + 1].conv = "n"
        BY <1>1, <1>10
      <3>2. InOrder(CountsIn(ds, R, i + 1), ds) = Append(InOrder(CountsIn(ds, R, i), ds), Len(TextTo(ds, i)))
        BY <3>1, CountsMore
      <3> QED BY <2>2, <2>6, <3>2
    <2>8. Streams(TextTo(ds, i + 1), R, out', room')
      BY <2>2, <2>5, <2>6
    <2> QED BY <2>2, <2>3, <2>4, <2>5, <2>6, <2>7, <2>8 DEF AtPart
  <1>11. CASE d.conv \notin {"%", "n"}
    <2>1. Conversion
      BY <1>4, <1>5, <1>8, <1>11 DEF _vfprintf, Percent, StoreCount
    <2>2. Put(Formatted(spec, Head(spec.ap)), spec.rest) /\ ap' = Tail(spec.ap) /\ UNCHANGED stored
      BY <1>4, <2>1, Zenon DEF Conversion
    <2>3. PICK printed : printed = Formatted(spec, d.arg)
      OBVIOUS
    <2>4. Prints_(printed, C!Directive(d))
      BY <1>7, <1>11, <2>3 DEF PrintsAs
    <2>5. Put(printed, r) /\ ap' = ra
      <3>1. Head(spec.ap) = d.arg /\ Tail(spec.ap) = ra
        BY <1>3, <1>5, <1>6, <1>11
      <3> QED BY <1>5, <2>2, <2>3, <3>1
    <2>6. Prints_(printed, C!Directive(ds[i + 1])) /\ ds[i + 1].conv # "n"
      BY <1>1, <1>11, <2>4
    <2> QED BY <2>2, <2>5, <2>6, PartPut
  <1> QED BY <1>9, <1>10, <1>11

\* A step of printf does the next part.
LEMMA PartStep ==
    ASSUME NEW ds, NEW S, AreIn(ds, S), NEW R \in Nat, NEW i,
           AtPart(ds, S, R, i, fmt, ap, room, out, nw, stored), _vfprintf
    PROVE  \E k : AtPart(ds, S, R, k, fmt', ap', room', out', nw', stored')
  <1>1. PICK n \in Nat : n = Len(ds)
    BY DEF AreIn
  <1>2. fmt # <<>>
    BY DEF _vfprintf, Raw, Conversion, Percent, StoreCount
  <1>3. i \in 0 .. n /\ Len(TextTo(ds, i)) <= R /\ Awaits(ds, S, i, fmt, ap)
    BY <1>1, <1>2 DEF AtPart
  <1>4. i # n
    <2>1. ASSUME i = n PROVE FALSE
      <3>1. PICK f, a : f = fmt /\ a = ap
        OBVIOUS
      <3>2. Awaits(ds, S, n, f, a)
        BY <1>3, <2>1, <3>1
      <3>3. f = <<>>
        BY <1>1, <3>2, AllRead
      <3> QED BY <1>2, <3>1, <3>3
    <2> QED BY <2>1
  <1>5. PICK j \in 0 .. n - 1 : j = i
    BY <1>3, <1>4
  <1>6. PICK r, ra : InFront(ds[j + 1], S, r, ra, fmt, ap) /\ Awaits(ds, S, j + 1, r, ra)
    <2>1. PICK f, a : f = fmt /\ a = ap
      OBVIOUS
    <2>2. Awaits(ds, S, j, f, a)
      BY <1>3, <1>5, <2>1
    <2>3. \E r, ra : InFront(ds[j + 1], S, r, ra, f, a) /\ Awaits(ds, S, j + 1, r, ra)
      BY <1>1, <2>2, NextDirective
    <2> QED BY <2>1, <2>3
  <1>7. /\ AtPart(ds, S, R, j, fmt, ap, room, out, nw, stored) /\ Len(TextTo(ds, j)) <= R
        /\ DirectiveIn(ds[j + 1], S)
    <2>1. j + 1 \in 1 .. n
      OBVIOUS
    <2> QED BY <1>1, <1>3, <1>5, <2>1 DEF AreIn
  <1>8. CASE IsText(ds[j + 1]) /\ ds[j + 1].val \in Seq(S)
    <2>1. AtPart(ds, S, R, j + 1, fmt', ap', room', out', nw', stored')
      BY <1>1, <1>6, <1>7, <1>8, TextStep
    <2> QED BY <2>1
  <1>9. CASE IsDirective(ds[j + 1]) /\ ValueIn(ds[j + 1], S) /\ ds[j + 1].arg \in S /\ ds[j + 1].starred \in S
    <2>1. AtPart(ds, S, R, j + 1, fmt', ap', room', out', nw', stored')
      BY <1>1, <1>6, <1>7, <1>9, DirectiveStep
    <2> QED BY <2>1
  <1> QED BY <1>7, <1>8, <1>9 DEF DirectiveIn

-----------------------------------------------------------------------------
(***************************************************************************)
(* printf, from its call to its return.                                    *)
(***************************************************************************)
Alphabet(ds) == UNION {Signs, Inks,
                       UNION {Range(ds[i].val) : i \in 1 .. Len(ds)},
                       UNION {{ds[i].val, ds[i].arg, ds[i].starred} : i \in 1 .. Len(ds)}}

LEMMA JobIsIn ==
    ASSUME NEW j, PrintJob(j) PROVE AreIn(j.directives, Alphabet(j.directives))
  <1>1. PICK ds : ds = j.directives
    OBVIOUS
  <1>2. /\ ds \in Seq(Range(ds))
        /\ \A i \in 1 .. Len(ds) : IsText(ds[i]) \/ IsDirective(ds[i])
        /\ \A i \in 1 .. Len(ds) - 1 : ds[i].conv # "text" \/ ds[i + 1].conv # "text"
    BY <1>1, Zenon DEF PrintJob
  <1>3. PICK S : S = Alphabet(ds)
    OBVIOUS
  <1>4. Covers(S)
    <2>1. Signs \subseteq S /\ Inks \subseteq S
      BY <1>3, Zenon DEF Alphabet
    <2> QED BY <2>1 DEF Covers, Inked
  <1>5. ASSUME NEW i \in 1 .. Len(ds) PROVE DirectiveIn(ds[i], S)
    <2>1. PICK d : d = ds[i]
      OBVIOUS
    <2>2. d.val \in S /\ d.arg \in S /\ d.starred \in S
      BY <1>3, <2>1 DEF Alphabet
    <2>3. Range(d.val) \subseteq S
      BY <1>3, <2>1, Zenon DEF Alphabet
    <2>4. d.val \in Seq(Range(d.val)) => d.val \in Seq(S)
      BY <2>3, SeqMonotonic
    <2>5. CASE IsText(d)
      BY <2>1, <2>4, <2>5 DEF DirectiveIn, IsText
    <2>6. CASE IsDirective(d)
      <3>1. d.conv = "s" => d.val \in Seq(Range(d.val))
        BY <2>6 DEF IsDirective, Carries
      <3>2. ValueIn(d, S)
        BY <2>2, <2>4, <3>1 DEF ValueIn
      <3> QED BY <2>1, <2>2, <2>6, <3>2 DEF DirectiveIn
    <2> QED BY <1>2, <2>1, <2>5, <2>6
  <1>6. Len(ds) \in Nat
    BY <1>2
  <1> QED BY <1>1, <1>2, <1>3, <1>4, <1>5, <1>6 DEF AreIn

LEMMA JobBegins ==
    ASSUME NEW j, PrintJob(j)
    PROVE  AtPart(j.directives, Alphabet(j.directives), j.room, 0, j.format, j.args, j.room, <<>>, 0, <<>>)
  <1>1. PICK ds, S : ds = j.directives /\ S = Alphabet(ds) /\ AreIn(ds, S)
    BY JobIsIn
  <1>2. PICK n \in Nat, R \in Nat : n = Len(ds) /\ R = j.room
    BY <1>1 DEF PrintJob, AreIn
  <1>3. j.format = FlattenSeq([i \in 1 .. n |-> Spelled(ds[i])]) /\ j.args = FlattenSeq([i \in 1 .. n |-> Passed(ds[i])])
    BY <1>1, <1>2, Zenon DEF PrintJob
  <1>4. TextTo(ds, 0) = <<>> /\ 0 \in 0 .. n /\ <<>> \in Seq(S) /\ Len(<<>>) = 0
    BY <1>1, <1>2, TextsAre
  <1>5. Streams(<<>>, R, <<>>, R)
    <2>1. Take(<<>>, R) = <<>>
      <3>0. PICK e \in Seq(S) : e = <<>>
        BY <1>4
      <3>1. Len(e) <= R
        <4>1. Len(e) = 0
          BY <1>4, <3>0
        <4> QED BY <4>1
      <3>2. Take(e, R) = e
        BY <3>1, TakeAll
      <3> QED BY <3>0, <3>2
    <2>2. R - 0 = R /\ R \in Int /\ 0 \in Int /\ R >= 0
      OBVIOUS
    <2>3. Max({R, 0}) = R
      BY <2>2, MaxOfTwo
    <2> QED BY <1>4, <2>1, <2>2, <2>3 DEF Streams
  <1>6. InOrder(CountsIn(ds, R, 0), ds) = <<>>
    <2>1. CountsIn(ds, R, 0) = {}
      BY DEF CountsIn
    <2>2. Cardinality({}) = 0
      BY FS_EmptySet
    <2>3. InOrder({}, ds) = <<>>
      <3>1. 1 .. 0 = {}
        OBVIOUS
      <3>2. InOrder({}, ds) = [m \in {} |-> CountAt(ds, Nth({}, m))]
        BY <2>2, <3>1 DEF InOrder
      <3> QED BY <3>2
    <2> QED BY <2>1, <2>3
  <1>7. Upto(SpelledBy(ds), n) = j.format /\ Upto(PassedBy(ds), n) = j.args
    <2>1. /\ \A i \in 1 .. n : SpelledBy(ds)[i] = Spelled(ds[i])
          /\ \A i \in 1 .. n : PassedBy(ds)[i] = Passed(ds[i])
      BY <1>1, <1>2, PartsBy
    <2>2. /\ FirstParts(SpelledBy(ds), n) = [i \in 1 .. n |-> Spelled(ds[i])]
          /\ FirstParts(PassedBy(ds), n) = [i \in 1 .. n |-> Passed(ds[i])]
      BY <2>1, Zenon DEF FirstParts
    <2> QED BY <1>3, <2>2 DEF Upto
  <1>8. Awaits(ds, S, 0, j.format, j.args)
    <2>1. \A i \in 1 .. n : SpelledBy(ds)[i] \in Seq(S) /\ PassedBy(ds)[i] \in Seq(S)
      BY <1>1, <1>2, PartsBy
    <2>2. PICK p, q : p = SpelledBy(ds) /\ q = PassedBy(ds)
      OBVIOUS
    <2>3. (\A i \in 1 .. n : p[i] \in Seq(S)) /\ (\A i \in 1 .. n : q[i] \in Seq(S)) /\ n \in 0 .. n
      BY <2>1, <2>2
    <2>4. Upto(p, 0) = <<>> /\ Upto(p, n) \in Seq(S)
      BY <2>3, UptoIs
    <2>5. Upto(q, 0) = <<>> /\ Upto(q, n) \in Seq(S)
      BY <2>3, UptoIs
    <2>6. PICK f \in Seq(S), a \in Seq(S) : f = j.format /\ a = j.args
      BY <1>7, <2>2, <2>4, <2>5
    <2>7. <<>> \o f = f /\ <<>> \o a = a
      BY Blank
    <2> QED BY <1>2, <1>7, <2>2, <2>4, <2>5, <2>6, <2>7 DEF Awaits
  <1>9. 0 <= R
    OBVIOUS
  <1>10. AtPart(ds, S, R, 0, j.format, j.args, R, <<>>, 0, <<>>)
    BY <1>2, <1>4, <1>5, <1>6, <1>8, <1>9 DEF AtPart
  <1> QED BY <1>1, <1>2, <1>10

\* When the format is read, or the stream full, that is what C says.
LEMMA JobEnds ==
    ASSUME NEW ds, NEW S, AreIn(ds, S), NEW R \in Nat, NEW i, NEW format, NEW args, NEW rm, NEW o, NEW count, NEW st,
           AtPart(ds, S, R, i, format, args, rm, o, count, st), format = <<>>
    PROVE  /\ o = Take(C!Text(ds), R)
           /\ count = IF Len(C!Text(ds)) > R THEN -1 ELSE Len(C!Text(ds))
           /\ st = C!Stored(ds, R)
  <1>1. PICK n \in Nat : n = Len(ds)
    BY DEF AreIn
  <1>2. PICK k \in 0 .. n : k = i
    BY <1>1 DEF AtPart
  <1>3. n \in 0 .. n /\ 1 .. Len(ds) = DOMAIN ds
    <2>1. ds \in Seq(Range(ds))
      BY DEF AreIn
    <2> QED BY <1>1, <2>1, LenProperties
  <1>4. C!Text(ds) = TextTo(ds, n)
    BY <1>1, <1>3, TextIs
  <1>5. TextTo(ds, n) \in Seq(S) /\ TextTo(ds, k) \in Seq(S)
    BY <1>1, <1>3, TextsAre
  <1>6. PICK q \in Seq(S) : TextTo(ds, n) = TextTo(ds, k) \o q
    BY <1>1, TextsAre, ZenonT(60)
  <1>7. PICK T \in Seq(S), W \in Seq(S) : T = TextTo(ds, k) /\ W = TextTo(ds, n) /\ W = T \o q
    BY <1>5, <1>6
  <1>8. PICK a \in Nat, b \in Nat : a = Len(T) /\ b = Len(q) /\ Len(W) = a + b
    <2>1. PICK a \in Nat, b \in Nat : a = Len(T) /\ b = Len(q)
      OBVIOUS
    <2>2. Len(T \o q) = a + b
      BY <2>1, LengthsAdd
    <2> QED BY <1>7, <2>1, <2>2
  <1>9. /\ Streams(T, R, o, rm) /\ st = InOrder(CountsIn(ds, R, k), ds)
        /\ a <= R => count = a /\ Awaits(ds, S, k, format, args)
        /\ ~(a <= R) => count = -1
    BY <1>2, <1>7, <1>8 DEF AtPart
  <1>10. C!Stored(ds, R) = InOrder(CountsIn(ds, R, n), ds)
    <2> DEFINE at == {x \in DOMAIN ds : ds[x].conv = "n" /\ CountAt(ds, x) <= R}
    <2>0. \A X : C!Cardinality(X) = Cardinality(X)
      BY DEF Cardinality, C!Cardinality
    <2>1. C!Stored(ds, R) = [m \in 1 .. C!Cardinality(at) |->
                               CountAt(ds, CHOOSE x \in at : C!Cardinality({y \in at : y <= x}) = m)]
      BY Zenon DEF C!Stored, CountAt
    <2>2. at = CountsIn(ds, R, n)
      BY <1>1, <1>3 DEF CountsIn
    <2> HIDE DEF at
    <2>3. C!Stored(ds, R) = InOrder(at, ds)
      BY <2>0, <2>1, Zenon DEF InOrder, Nth, UpTo
    <2> QED BY <2>2, <2>3
  <1>11. CASE a <= R
    <2>1. k = n
      <3>1. ASSUME k # n PROVE FALSE
        <4>1. PICK x \in 0 .. n - 1 : x = k
          BY <3>1
        <4>2. Awaits(ds, S, x, format, args)
          BY <1>9, <1>11, <4>1
        <4>3. PICK r, ra : InFront(ds[x + 1], S, r, ra, format, args)
          BY <1>1, <4>2, NextDirective
        <4>4. format = Spelled(ds[x + 1]) \o r /\ r \in Seq(S)
          BY <4>3 DEF InFront
        <4>5. Spelled(ds[x + 1]) # <<>> /\ Spelled(ds[x + 1]) \in Seq(S)
          <5>1. x + 1 \in 1 .. n
            OBVIOUS
          <5> QED BY <1>1, <5>1, PartsBy
        <4> QED BY <4>4, <4>5, ConcatSimplifications
      <3> QED BY <3>1
    <2>2. T = W
      BY <1>7, <2>1
    <2>3. Len(W) = a
      BY <1>8, <2>2
    <2>4. ~(Len(W) > R) /\ count = Len(W)
      BY <1>8, <1>9, <1>11, <2>3
    <2> QED BY <1>4, <1>7, <1>9, <1>10, <2>1, <2>2, <2>4 DEF Streams
  <1>12. CASE ~(a <= R)
    <2>1. Len(W) > R /\ count = -1
      BY <1>8, <1>9, <1>12
    <2>2. Take(W, R) = Take(T, R)
      <3>1. Len(T) >= R
        BY <1>8, <1>12
      <3> QED BY <1>7, <3>1, TakeFull
    <2>3. CountsIn(ds, R, n) = CountsIn(ds, R, k)
      <3>1. ASSUME NEW x \in 1 .. n, CountAt(ds, x) <= R PROVE x \in 1 .. k
        <4>1. PICK y \in 0 .. n : y = x - 1 /\ y + 1 = x
          OBVIOUS
        <4>2. CountAt(ds, x) = Len(TextTo(ds, y))
          BY <1>1, <4>1, TextIs
        <4>3. ASSUME y >= k PROVE FALSE
          <5>1. Len(TextTo(ds, y)) >= a
            BY <1>1, <1>7, <1>8, <4>1, <4>3, TextsGrow
          <5> QED BY <1>8, <1>12, <3>1, <4>2, <5>1
        <4> QED BY <4>1, <4>3
      <3>2. \A x : x \in CountsIn(ds, R, n) <=> x \in CountsIn(ds, R, k)
        <4>1. \A x \in 1 .. k : x \in 1 .. n
          OBVIOUS
        <4> QED BY <3>1, <4>1 DEF CountsIn
      <3> QED BY <3>2
    <2> QED BY <1>4, <1>7, <1>9, <1>10, <2>1, <2>2, <2>3 DEF Streams
  <1> QED BY <1>11, <1>12

-----------------------------------------------------------------------------
(***************************************************************************)
(* Between two steps of printf, what the first i directives say has gone   *)
(* to the stream as far as that takes it, and the rest of the format and   *)
(* of the arguments is that of the directives behind them.                 *)
(***************************************************************************)
PrintInv == Runs("printf") =>
    /\ PrintJob(job) /\ pc \in {"print", "done"} /\ (pc = "done" => fmt = <<>>)
    /\ \E i : AtPart(job.directives, Alphabet(job.directives), job.room, i, fmt, ap, room, out, nw, stored)

LEMMA PrintInit == Init => PrintInv
  <1> SUFFICES ASSUME Init, Runs("printf") PROVE PrintInv
    BY DEF PrintInv
  <1>1. PrintJob(job)
    BY JobsAssumption DEF Init, Runs
  <1>2. pc = "print"
    BY DEF Init, FilesInit, Entry, Runs
  <1>3. /\ fmt = job.format /\ ap = job.args /\ room = job.room
        /\ out = <<>> /\ nw = 0 /\ stored = <<>>
    BY DEF Init, PrintfInit
  <1>4. AtPart(job.directives, Alphabet(job.directives), job.room, 0, fmt, ap, room, out, nw, stored)
    BY <1>1, <1>3, JobBegins, Zenon
  <1> QED BY <1>1, <1>2, <1>4, Zenon DEF PrintInv

LEMMA PrintStep == PrintInv /\ [Next]_vars => PrintInv'
  <1> SUFFICES ASSUME PrintInv, [Next]_vars, Runs("printf")' PROVE PrintInv'
    BY DEF PrintInv
  <1>1. CASE job' = job /\ pc' = pc /\ UNCHANGED printf_vars
    <2>1. /\ PrintJob(job) /\ pc \in {"print", "done"} /\ (pc = "done" => fmt = <<>>)
          /\ \E i : AtPart(job.directives, Alphabet(job.directives), job.room, i, fmt, ap, room, out, nw, stored)
      BY <1>1 DEF PrintInv, Runs
    <2>2. fmt' = fmt /\ ap' = ap /\ room' = room /\ out' = out /\ nw' = nw /\ stored' = stored
      BY <1>1 DEF printf_vars
    <2> QED BY <1>1, <2>1, <2>2 DEF PrintInv
  <1>2. CASE Format
    <2>1. job' = job /\ pc = "print" /\ Runs("printf")
      BY <1>2 DEF Format
    <2>2. PICK i : AtPart(job.directives, Alphabet(job.directives), job.room, i, fmt, ap, room, out, nw, stored)
      BY <2>1 DEF PrintInv
    <2>3. PrintJob(job)
      BY <2>1 DEF PrintInv
    <2>4. CASE _vfprintf /\ UNCHANGED pc
      <3>1. PICK ds, S, R : ds = job.directives /\ S = Alphabet(ds) /\ R = job.room
        OBVIOUS
      <3>2. AreIn(ds, S) /\ R \in Nat
        BY <2>3, <3>1, JobIsIn DEF PrintJob
      <3>3. AtPart(ds, S, R, i, fmt, ap, room, out, nw, stored)
        BY <2>2, <3>1
      <3>4. \E k : AtPart(ds, S, R, k, fmt', ap', room', out', nw', stored')
        BY <2>4, <3>2, <3>3, PartStep
      <3> QED BY <2>1, <2>3, <2>4, <3>1, <3>4 DEF PrintInv
    <2>5. CASE fmt = <<>> /\ Goto("done") /\ UNCHANGED printf_vars
      <3>1. pc' = "done" /\ fmt' = fmt /\ ap' = ap /\ room' = room /\ out' = out /\ nw' = nw /\ stored' = stored
        BY <2>5 DEF Goto, printf_vars
      <3> QED BY <2>1, <2>2, <2>3, <2>5, <3>1 DEF PrintInv
    <2> QED BY <1>2, <2>4, <2>5 DEF Format
  <1>3. CASE UNCHANGED vars
    BY <1>1, <1>3 DEF vars, files_vars
  <1>4. CASE Convert \/ Silence \/ FindOption \/ Hexdump \/ Wc \/ Cat
    <2>1. job' = job
      BY <1>4 DEF Convert, Silence, FindOption, Hexdump, Wc, Cat
    <2> QED BY <1>4, <2>1 DEF Convert, Silence, FindOption, Hexdump, Wc, Cat, Runs
  <1> QED BY <1>2, <1>3, <1>4 DEF Next

LEMMA PrintEnd == PrintInv => PrintedAsC
  <1> SUFFICES ASSUME PrintInv, Done("printf") PROVE PrintedAsC
    BY DEF PrintedAsC
  <1>1. PrintJob(job) /\ fmt = <<>>
    BY DEF PrintInv, Done
  <1>2. PICK i : AtPart(job.directives, Alphabet(job.directives), job.room, i, fmt, ap, room, out, nw, stored)
    BY DEF PrintInv, Done
  <1>3. PICK ds, S, R : ds = job.directives /\ S = Alphabet(ds) /\ R = job.room
    OBVIOUS
  <1>4. AreIn(ds, S) /\ R \in Nat
    BY <1>1, <1>3, JobIsIn DEF PrintJob
  <1>5. AtPart(ds, S, R, i, fmt, ap, room, out, nw, stored)
    BY <1>2, <1>3
  <1>6. /\ out = Take(C!Text(ds), R)
        /\ nw = IF Len(C!Text(ds)) > R THEN -1 ELSE Len(C!Text(ds))
        /\ stored = C!Stored(ds, R)
    BY <1>1, <1>4, <1>5, JobEnds
  <1> QED BY <1>3, <1>6 DEF PrintedAsC

\* What _vfprintf leaves on the stream is the text that C gives the directives,
\* as far as the stream takes it; its result is the length of that text, or -1
\* where the stream fails; and %n stores what the directives before it print.
THEOREM PrintfIsRight == Spec => []PrintedAsC
  <1>1. Spec => []PrintInv
    BY PrintInit, PrintStep, PTL DEF Spec
  <1> QED BY <1>1, PrintEnd, PTL
=============================================================================
