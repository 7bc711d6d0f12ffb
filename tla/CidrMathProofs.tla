---------------------------- MODULE CidrMathProofs ----------------------------
(***************************************************************************)
(* Proofs for CidrMath: the arithmetic of Cidr and IPUtil agrees with      *)
(* blocks of addresses whatever the width of an address.                   *)
(***************************************************************************)
EXTENDS CidrMath, NaturalsInduction, WellFoundedInduction, TLAPS

-----------------------------------------------------------------------------
(* Powers of two *)

\* Induction over the numbers, of a set.
LEMMA SetInduction ==
    ASSUME NEW S, 0 \in S, \A n \in Nat : n \in S => n + 1 \in S
    PROVE  Nat \subseteq S
<1> SUFFICES ASSUME Nat \ S # {} PROVE FALSE
  OBVIOUS
<1> DEFINE R == {p \in Nat \X Nat : p[1] < p[2]}
<1>1. IsWellFoundedOn(R, Nat)
  BY NatLessThanWellFounded DEF OpToRel
<1>2. PICK x \in Nat \ S : \A y \in Nat \ S : ~ (<<y, x>> \in R)
  BY <1>1, WFMin
<1>3. x - 1 \in Nat \ S /\ <<x - 1, x>> \in R
  OBVIOUS
<1> QED
  BY <1>2, <1>3

\* The powers up to the n-th.
Upto(n) == {f \in [0..n -> Nat] : f[0] = 1 /\ \A i \in 1..n : f[i] = 2 * f[i - 1]}

\* The first powers can be written down, and are the same wherever one stops.
LEMMA UptoExists == \A n \in Nat : Upto(n) # {}
<1> DEFINE S == {n \in Nat : Upto(n) # {}}
<1>1. 0 \in S
  <2>1. [i \in 0..0 |-> 1] \in Upto(0)
    BY DEF Upto
  <2> QED
    BY <2>1
<1>2. ASSUME NEW n \in Nat, n \in S PROVE n + 1 \in S
  <2>1. PICK f : f \in Upto(n)
    BY <1>2
  <2> DEFINE g == [i \in 0..(n + 1) |-> IF i = n + 1 THEN 2 * f[n] ELSE f[i]]
  <2>2. f \in [0..n -> Nat] /\ f[0] = 1 /\ \A i \in 1..n : f[i] = 2 * f[i - 1]
    BY <2>1 DEF Upto
  <2>3. g \in [0..(n + 1) -> Nat]
    BY <2>2
  <2>4. g[0] = 1
    BY <2>2
  <2>5. \A i \in 1..(n + 1) : g[i] = 2 * g[i - 1]
    BY <2>2
  <2>6. g \in Upto(n + 1)
    BY <2>3, <2>4, <2>5 DEF Upto
  <2> QED
    BY <2>6
<1>3. Nat \subseteq S
  <2> HIDE DEF S
  <2> QED
    BY <1>1, <1>2, SetInduction
<1> QED
  BY <1>3

LEMMA UptoAgree ==
    ASSUME NEW m \in Nat, NEW n \in Nat, NEW f \in Upto(m), NEW g \in Upto(n)
    PROVE  \A i \in Nat : i <= m /\ i <= n => f[i] = g[i]
<1> DEFINE S == {i \in Nat : i <= m /\ i <= n => f[i] = g[i]}
<1>1. 0 \in S
  BY DEF Upto
<1>2. ASSUME NEW i \in Nat, i \in S PROVE i + 1 \in S
  <2> SUFFICES ASSUME i + 1 <= m, i + 1 <= n PROVE f[i + 1] = g[i + 1]
    OBVIOUS
  <2>1. f[i] = g[i]
    BY <1>2
  <2>2. i + 1 \in 1..m /\ i + 1 \in 1..n /\ (i + 1) - 1 = i
    OBVIOUS
  <2>3. f[i + 1] = 2 * f[(i + 1) - 1] /\ g[i + 1] = 2 * g[(i + 1) - 1]
    BY <2>2 DEF Upto
  <2> QED
    BY <2>1, <2>2, <2>3
<1>3. Nat \subseteq S
  <2> HIDE DEF S
  <2> QED
    BY <1>1, <1>2, SetInduction
<1> QED
  BY <1>3

\* pow2 satisfies its equation: there is such a function.
LEMMA Pow2Equation == pow2 = [n \in Nat |-> IF n = 0 THEN 1 ELSE 2 * pow2[n - 1]]
<1> DEFINE F == [n \in Nat |-> CHOOSE f \in Upto(n) : TRUE]
           G == [n \in Nat |-> F[n][n]]
<1>1. \A n \in Nat : F[n] \in Upto(n)
  BY UptoExists
<1>2. G[0] = 1
  BY <1>1 DEF Upto
<1>3. ASSUME NEW n \in Nat, n # 0 PROVE G[n] = 2 * G[n - 1]
  <2>1. n - 1 \in Nat /\ n \in 1..n
    BY <1>3
  <2>2. F[n][n] = 2 * F[n][n - 1]
    BY <1>1, <2>1 DEF Upto
  <2>3. F[n][n - 1] = F[n - 1][n - 1]
    <3>1. F[n] \in Upto(n) /\ F[n - 1] \in Upto(n - 1)
      BY <1>1, <2>1
    <3> HIDE DEF F
    <3> QED
      BY <2>1, <3>1, UptoAgree
  <2> QED
    BY <2>1, <2>2, <2>3
<1>4. G = [n \in Nat |-> IF n = 0 THEN 1 ELSE 2 * G[n - 1]]
  <2> HIDE DEF F
  <2> DEFINE E == [n \in Nat |-> IF n = 0 THEN 1 ELSE 2 * G[n - 1]]
  <2>1. ASSUME NEW n \in Nat PROVE G[n] = E[n]
    BY <1>2, <1>3
  <2>2. G = [n \in Nat |-> G[n]] /\ E = [n \in Nat |-> E[n]]
    OBVIOUS
  <2> HIDE DEF G, E
  <2>3. G = E
    BY <2>1, <2>2
  <2> QED
    BY <2>3 DEF E
<1>5. \E f : f = [n \in Nat |-> IF n = 0 THEN 1 ELSE 2 * f[n - 1]]
  <2> HIDE DEF G
  <2> QED
    BY <1>4
<1> QED
  BY <1>5 DEF pow2

LEMMA Pow2Def == pow2[0] = 1 /\ \A n \in Nat : pow2[n + 1] = 2 * pow2[n]
<1> DEFINE E == [n \in Nat |-> IF n = 0 THEN 1 ELSE 2 * pow2[n - 1]]
<1>1. pow2 = E
  BY Pow2Equation
<1>2. E[0] = 1
  OBVIOUS
<1>3. ASSUME NEW n \in Nat PROVE E[n + 1] = 2 * pow2[n]
  <2>1. n + 1 \in Nat /\ n + 1 # 0 /\ (n + 1) - 1 = n
    OBVIOUS
  <2> QED
    BY <2>1
<1> HIDE DEF E
<1> QED
  BY <1>1, <1>2, <1>3

LEMMA Pow2Type == \A n \in Nat : pow2[n] \in Nat \ {0}
<1> DEFINE S == {n \in Nat : pow2[n] \in Nat \ {0}}
<1>1. 0 \in S
  BY Pow2Def
<1>2. ASSUME NEW n \in Nat, n \in S PROVE n + 1 \in S
  BY <1>2, Pow2Def
<1>3. Nat \subseteq S
  <2> HIDE DEF S
  <2> QED
    BY <1>1, <1>2, SetInduction
<1> QED
  BY <1>3

LEMMA Pow2Add ==
    ASSUME NEW a \in Nat, NEW b \in Nat
    PROVE  pow2[a + b] = pow2[a] * pow2[b]
<1> DEFINE S == {n \in Nat : pow2[a + n] = pow2[a] * pow2[n]}
<1>1. 0 \in S
  BY Pow2Def, Pow2Type
<1>2. ASSUME NEW n \in Nat, n \in S PROVE n + 1 \in S
  <2>1. pow2[a + n] = pow2[a] * pow2[n]
    BY <1>2
  <2>2. a + n \in Nat /\ (a + n) + 1 = a + (n + 1)
    OBVIOUS
  <2>3. pow2[(a + n) + 1] = 2 * pow2[a + n] /\ pow2[n + 1] = 2 * pow2[n]
    BY <2>2, Pow2Def
  <2>4. pow2[a] \in Nat /\ pow2[n] \in Nat /\ pow2[n + 1] \in Nat
    BY Pow2Type
  <2> QED
    BY <2>1, <2>2, <2>3, <2>4
<1>3. Nat \subseteq S
  <2> HIDE DEF S
  <2> QED
    BY <1>1, <1>2, SetInduction
<1> QED
  BY <1>3

-----------------------------------------------------------------------------
(* Division, and what an int is *)

LEMMA DivMod ==
    ASSUME NEW x \in Int, NEW p \in Nat \ {0}
    PROVE  /\ x \div p \in Int
           /\ x % p \in 0..(p - 1)
           /\ x = p * (x \div p) + (x % p)
  OBVIOUS

LEMMA DivModUnique ==
    ASSUME NEW p \in Nat \ {0}, NEW q \in Int, NEW r \in 0..(p - 1)
    PROVE  (p * q + r) \div p = q /\ (p * q + r) % p = r
  OBVIOUS

LEMMA Products ==
    ASSUME NEW p \in Int, NEW x \in Int
    PROVE  p * x \in Int /\ p * (-x) = -(p * x) /\ p * (x + 1) = p * x + p
  OBVIOUS

\* A quotient is bounded as its number is by a multiple.
LEMMA DivBounds ==
    ASSUME NEW x \in Int, NEW p \in Nat \ {0}, NEW c \in Int, NEW d \in Int,
           p * c <= x, x < p * d
    PROVE  c <= x \div p /\ x \div p < d
<1> DEFINE q == x \div p
           r == x % p
<1>1. q \in Int /\ r \in 0..(p - 1) /\ x = p * q + r
  BY DivMod
<1> HIDE DEF q, r
<1>2. c <= q
  <2> SUFFICES ASSUME q <= c - 1 PROVE FALSE
    BY <1>1
  <2>1. p * q <= p * (c - 1)
    BY <1>1
  <2>2. p * (c - 1) = p * c - p
    OBVIOUS
  <2> QED
    BY <1>1, <2>1, <2>2
<1>3. q < d
  <2> SUFFICES ASSUME d <= q PROVE FALSE
    BY <1>1
  <2>1. p * d <= p * q
    BY <1>1
  <2> QED
    BY <1>1, <2>1
<1> QED
  BY <1>2, <1>3 DEF q

LEMMA WidthType == Width \in Nat \ {0} /\ Width - 1 \in Nat /\ Width \div 4 \in Nat \ {0}
  BY WidthConstant

LEMMA HalfType == Half \in Nat \ {0} /\ Int32 = (-Half)..(Half - 1) /\ Int32 \subseteq Int
  BY WidthType, Pow2Type DEF Half, Int32

\* An int is kept as it is; what is one turn away comes back to it.
LEMMA WrapInt ==
    ASSUME NEW n \in Int32, NEW t \in Int
    PROVE  Wrap(n) = n /\ Wrap(n + (2 * Half) * t) = n
<1>1. Half \in Nat \ {0} /\ n \in (-Half)..(Half - 1)
  BY HalfType
<1> DEFINE p == 2 * Half
           r == n + Half
<1>2. p \in Nat \ {0} /\ r \in 0..(p - 1) /\ 0 \in Int
  BY <1>1
<1>3. p * 0 + r = n + Half /\ p * t + r = (n + p * t) + Half
  BY <1>1
<1>4. r - Half = n
  BY <1>1
<1> HIDE DEF p, r
<1>5. (p * 0 + r) % p = r /\ (p * t + r) % p = r
  BY <1>2, DivModUnique
<1>6. (n + Half) % p = r /\ ((n + p * t) + Half) % p = r
  BY <1>3, <1>5
<1> QED
  BY <1>4, <1>6 DEF Wrap, p

\* Wrap gives an int.
LEMMA WrapType ==
    ASSUME NEW n \in Int
    PROVE  Wrap(n) \in Int32
<1>1. Half \in Nat \ {0}
  BY HalfType
<1>2. (n + Half) % (2 * Half) \in 0..(2 * Half - 1)
  BY <1>1, DivMod
<1> QED
  BY <1>1, <1>2, HalfType DEF Wrap

\* A mask of m bits leaves blocks of 2^(Width - m), of which Half is a multiple.
LEMMA MaskSizes ==
    ASSUME NEW m \in Mask
    PROVE  /\ Width - m \in 0..(Width - 1)
           /\ (Width - m) % Width = Width - m
           /\ pow2[Width - m] \in Nat \ {0}
           /\ pow2[m - 1] \in Nat \ {0}
           /\ Half = pow2[Width - m] * pow2[m - 1]
           /\ m = 1 => pow2[Width - m] = Half /\ pow2[m - 1] = 1
           /\ m > 1 => \E h \in Nat \ {0} : pow2[m - 1] = 2 * h
           /\ m = Width => pow2[Width - m] = 1
           /\ m < Width => \E h \in Nat \ {0} : pow2[Width - m] = 2 * h
<1>1. m \in Nat /\ 1 <= m /\ m <= Width /\ m - 1 \in Nat /\ Width - m \in Nat
  BY WidthType DEF Mask
<1>2. Width - m \in 0..(Width - 1)
  BY <1>1, WidthType
<1>3. (Width - m) % Width = Width - m
  BY <1>2, WidthType
<1>4. (Width - m) + (m - 1) = Width - 1
  BY <1>1, WidthType
<1>5. Half = pow2[Width - m] * pow2[m - 1]
  BY <1>1, <1>4, Pow2Add DEF Half
<1>6. \A n \in Nat \ {0} : \E h \in Nat \ {0} : pow2[n] = 2 * h
  <2> TAKE n \in Nat \ {0}
  <2>1. n - 1 \in Nat /\ (n - 1) + 1 = n
    OBVIOUS
  <2>2. pow2[(n - 1) + 1] = 2 * pow2[n - 1]
    BY <2>1, Pow2Def
  <2> QED
    BY <2>1, <2>2, Pow2Type
<1>7. m = 1 => pow2[Width - m] = Half /\ pow2[m - 1] = 1
  BY <1>1, Pow2Def DEF Half
<1>8. m = Width => pow2[Width - m] = 1
  BY <1>1, Pow2Def
<1>9. m > 1 => m - 1 \in Nat \ {0}
  BY <1>1
<1>10. m < Width => Width - m \in Nat \ {0}
  BY <1>1, WidthType
<1> QED
  BY <1>1, <1>2, <1>3, <1>5, <1>6, <1>7, <1>8, <1>9, <1>10, Pow2Type

\* Of an int, the quotient by the size of a block lies around zero like the int.
LEMMA QuotientRange ==
    ASSUME NEW x \in Int32, NEW m \in Mask, NEW P, P = pow2[Width - m],
           NEW Q, Q = pow2[m - 1]
    PROVE  /\ x \div P \in Int
           /\ -Q <= x \div P
           /\ x \div P < Q
           /\ x >= 0 <=> x \div P >= 0
<1>1. P \in Nat \ {0} /\ Q \in Nat \ {0} /\ Half = P * Q
  BY MaskSizes
<1>2. x \in Int /\ -Half <= x /\ x < Half
  BY HalfType
<1>3. x \div P \in Int
  BY <1>1, <1>2, DivMod
<1> DEFINE c == -Q
<1>4. c \in Int /\ Q \in Int /\ 0 \in Int
  BY <1>1
<1>5. P * c = -(P * Q) /\ P * 0 = 0
  BY <1>1, Products
<1>6. P * c <= x /\ x < P * Q
  BY <1>1, <1>2, <1>5
<1> HIDE DEF c
<1>7. P \in Nat \ {0} /\ x \in Int
  BY <1>1, <1>2
<1>8. c <= x \div P /\ x \div P < Q
  BY <1>4, <1>6, <1>7, DivBounds
<1>9. x >= 0 => 0 <= x \div P
  <2>1. x >= 0 => P * 0 <= x
    BY <1>5
  <2> QED
    BY <1>4, <1>6, <1>7, <2>1, DivBounds
<1>10. x < 0 => x \div P < 0
  <2>1. x < 0 => x < P * 0
    BY <1>5
  <2> QED
    BY <1>4, <1>6, <1>7, <2>1, DivBounds
<1> QED
  BY <1>2, <1>3, <1>8, <1>9, <1>10 DEF c

-----------------------------------------------------------------------------
(* Blocks: contains and the pool *)

\* Cutting an address gives the first of the P addresses around it that a
\* multiple of P begins, all of them ints.
LEMMA CutFirst ==
    ASSUME NEW a \in Int32, NEW m \in Mask, NEW P, P = pow2[Width - m]
    PROVE  /\ Cut(a, m) = P * (a \div P)
           /\ Cut(a, m) \in Int32
           /\ Cut(a, m) <= a
           /\ a <= Cut(a, m) + P - 1
           /\ Cut(a, m) + P - 1 \in Int32
<1> DEFINE Q == pow2[m - 1]
           q == a \div P
<1>1. P \in Nat \ {0} /\ Q \in Nat \ {0} /\ Half = P * Q
  BY MaskSizes
<1>2. a \in Int /\ -Half <= a /\ a < Half
  BY HalfType
<1>3. q \in Int /\ a % P \in 0..(P - 1) /\ a = P * q + (a % P)
  BY <1>1, <1>2, DivMod
<1>4. -Q <= q /\ q < Q
  BY QuotientRange
<1> HIDE DEF Q, q
<1>5. -Half <= P * q /\ P * q + P <= Half
  <2>1. P * (-Q) <= P * q
    BY <1>1, <1>3, <1>4
  <2>2. P * (q + 1) <= P * Q
    BY <1>1, <1>3, <1>4
  <2>3. P * (-Q) = -(P * Q) /\ P * (q + 1) = P * q + P
    <3>1. P \in Int /\ Q \in Int /\ q \in Int
      BY <1>1, <1>3
    <3> QED
      BY <3>1, Products
  <2> QED
    BY <1>1, <2>1, <2>2, <2>3
<1>6. P * q \in Int
  BY <1>1, <1>3
<1> DEFINE z == P * q
<1>7. z \in Int32 /\ z + P - 1 \in Int32
  <2>1. z \in Int /\ P \in Nat \ {0} /\ -Half <= z /\ z + P <= Half
    BY <1>1, <1>5, <1>6
  <2> HIDE DEF z
  <2> QED
    BY <2>1, HalfType
<1>8. Cut(a, m) = Wrap(q * P)
  BY MaskSizes DEF Cut, Shl, Shr, q
<1>9. q * P = P * q
  BY <1>1, <1>3
<1>10. Wrap(P * q) = P * q
  BY <1>7, WrapInt
<1>11. Cut(a, m) = z
  BY <1>8, <1>9, <1>10
<1>12. z <= a /\ a <= z + P - 1
  BY <1>1, <1>3, <1>6
<1>13. z = P * (a \div P)
  BY DEF q
<1> HIDE DEF z
<1> QED
  BY <1>7, <1>11, <1>12, <1>13

\* The bits of an address as a number, and what division makes of them.
LEMMA BitsDiv ==
    ASSUME NEW a \in Int32, NEW m \in Mask, NEW P, P = pow2[Width - m]
    PROVE  \E t \in {0, 2 * pow2[m - 1]} :
               /\ Bits(a) = P * t + a
               /\ Bits(a) \div P = (a \div P) + t
               /\ IF a >= 0 THEN t = 0 ELSE t = 2 * pow2[m - 1]
<1> DEFINE Q == pow2[m - 1]
           q == a \div P
           r == a % P
           t == IF a >= 0 THEN 0 ELSE 2 * Q
           N == 2 * Half
<1>1. P \in Nat \ {0} /\ Q \in Nat \ {0} /\ Half = P * Q
  BY MaskSizes
<1>2. a \in Int /\ Half \in Nat /\ -Half <= a /\ a < Half /\ N \in Nat \ {0}
  BY HalfType
<1>3. q \in Int /\ r \in 0..(P - 1) /\ a = P * q + r
  BY <1>1, <1>2, DivMod
<1>4. P * t = IF a >= 0 THEN 0 ELSE N
  BY <1>1
<1>5. Bits(a) = P * t + a
  <2>1. CASE a >= 0
    <3>1. a \in 0..(N - 1) /\ N * 0 + a = a /\ 0 \in Int
      BY <1>2, <2>1
    <3> HIDE DEF N
    <3>2. a % N = a
      BY <1>2, <3>1, DivModUnique
    <3> QED
      BY <1>2, <1>4, <2>1, <3>2 DEF Bits, N
  <2>2. CASE a < 0
    <3>1. a + N \in 0..(N - 1) /\ N * (-1) + (a + N) = a /\ -1 \in Int
      BY <1>2, <2>2
    <3> HIDE DEF N
    <3>2. a % N = a + N
      BY <1>2, <3>1, DivModUnique
    <3> QED
      BY <1>2, <1>4, <2>2, <3>2 DEF Bits, N
  <2> QED
    BY <1>2, <2>1, <2>2
<1>6. t \in Int /\ t \in {0, 2 * Q}
  BY <1>1
<1> HIDE DEF q, r, t
<1>7. P * t + a = P * (q + t) + r /\ q + t \in Int
  BY <1>1, <1>3, <1>6
<1>8. (P * (q + t) + r) \div P = q + t
  BY <1>1, <1>3, <1>7, DivModUnique
<1>9. Bits(a) \div P = q + t
  BY <1>5, <1>7, <1>8
<1> QED
  BY <1>5, <1>6, <1>9 DEF q, t

\* Two addresses have the same first bits when their quotients are equal.
LEMMA SameQuotient ==
    ASSUME NEW a \in Int32, NEW b \in Int32, NEW m \in Mask, NEW P, P = pow2[Width - m]
    PROVE  SameBits(a, b, m) <=> a \div P = b \div P
<1> DEFINE Q == pow2[m - 1]
<1>1. P \in Nat \ {0} /\ Q \in Nat \ {0} /\ Half = P * Q
  BY MaskSizes
<1>2. ASSUME NEW x \in Int32
      PROVE  /\ x \div P \in Int /\ -Q <= x \div P /\ x \div P < Q
             /\ x >= 0 <=> x \div P >= 0
             /\ Bits(x) \div P = IF x >= 0 THEN x \div P ELSE (x \div P) + 2 * Q
  <2>1. x \in Int
    BY HalfType
  <2>2. /\ x \div P \in Int /\ -Q <= x \div P /\ x \div P < Q
        /\ x >= 0 <=> x \div P >= 0
    BY QuotientRange
  <2>3. PICK t \in {0, 2 * Q} :
            /\ Bits(x) \div P = (x \div P) + t
            /\ IF x >= 0 THEN t = 0 ELSE t = 2 * Q
    BY BitsDiv
  <2> HIDE DEF Q
  <2> QED
    BY <2>1, <2>2, <2>3
<1>3. SameBits(a, b, m) <=> Bits(a) \div P = Bits(b) \div P
  BY DEF SameBits
<1> HIDE DEF Q
<1> DEFINE u == a \div P
           v == b \div P
           s == Bits(a) \div P
           w == Bits(b) \div P
<1>4. /\ u \in Int /\ -Q <= u /\ u < Q /\ (a >= 0 <=> u >= 0)
      /\ s = IF a >= 0 THEN u ELSE u + 2 * Q
  BY <1>2
<1>5. /\ v \in Int /\ -Q <= v /\ v < Q /\ (b >= 0 <=> v >= 0)
      /\ w = IF b >= 0 THEN v ELSE v + 2 * Q
  BY <1>2
<1> HIDE DEF u, v, s, w
<1>6. s = w <=> u = v
  BY <1>1, <1>4, <1>5
<1> QED
  BY <1>3, <1>6 DEF u, v, s, w

\* The block is the interval from the cut on.
LEMMA BlockInterval ==
    ASSUME NEW a \in Int32, NEW m \in Mask, NEW P, P = pow2[Width - m], NEW b \in Int32
    PROVE  SameBits(a, b, m) <=> Cut(a, m) <= b /\ b <= Cut(a, m) + P - 1
<1> DEFINE u == a \div P
           v == b \div P
           r == b % P
<1>1. P \in Nat \ {0} /\ a \in Int /\ b \in Int
  BY MaskSizes, HalfType
<1>2. u \in Int /\ v \in Int /\ r \in 0..(P - 1) /\ b = P * v + r
  BY <1>1, DivMod
<1>3. Cut(a, m) = P * u
  BY CutFirst
<1>4. SameBits(a, b, m) <=> u = v
  BY SameQuotient
<1> HIDE DEF u, v, r
<1>5. u = v => P * u <= b /\ b <= P * u + P - 1
  BY <1>1, <1>2
<1>6. ASSUME P * u <= b, b <= P * u + P - 1 PROVE u = v
  <2> DEFINE d == b - P * u
  <2>1. P * u \in Int
    BY <1>1, <1>2
  <2>2. d \in 0..(P - 1) /\ b = P * u + d
    BY <1>1, <1>6, <2>1
  <2> HIDE DEF d
  <2> QED
    BY <1>1, <1>2, <2>2, DivModUnique DEF v
<1> QED
  BY <1>3, <1>4, <1>5, <1>6

\* The last address of a block is the last of the interval.
LEMMA LastInterval ==
    ASSUME NEW a \in Int32, NEW m \in Mask, NEW P, P = pow2[Width - m]
    PROVE  LastOf(a, m) = Cut(a, m) + P - 1
<1> DEFINE c == Cut(a, m)
           l == c + P - 1
           q == a \div P
<1>1. P \in Nat \ {0} /\ c \in Int /\ c <= a /\ a <= l /\ l \in Int32 /\ l \in Int
  BY CutFirst, MaskSizes, HalfType
<1>2. c = P * q /\ q \in Int
  BY <1>1, CutFirst, DivMod, HalfType
<1> HIDE DEF c, q
<1>3. ASSUME NEW b \in Block(a, m)
      PROVE  (Bits(b) + 1) % P = 0 <=> b = l
  <2>1. b \in Int32 /\ b \in Int /\ c <= b /\ b <= l
    BY BlockInterval, HalfType DEF Block, c
  <2>2. PICK t \in {0, 2 * pow2[m - 1]} : Bits(b) = P * t + b
    BY <2>1, BitsDiv
  <2>3. t \in Int
    BY <2>2, MaskSizes
  <2> DEFINE d == b - c
             s == t + q
  <2>4. d \in 0..(P - 1) /\ b = P * q + d /\ s \in Int
    BY <1>1, <1>2, <2>1, <2>3
  <2>5. P * t + b = P * s + d
    <3>1. P * s = P * t + P * q
      BY <1>1, <1>2, <2>3
    <3>2. P * t \in Int /\ P * q \in Int
      BY <1>1, <1>2, <2>3
    <3> HIDE DEF d, s
    <3> QED
      BY <2>4, <3>1, <3>2
  <2>6. b = l <=> d = P - 1
    BY <1>1, <2>1
  <2> HIDE DEF d, s
  <2>7. CASE d = P - 1
    <3>1. Bits(b) + 1 = P * (s + 1) + 0
      <4>1. P * (s + 1) = P * s + P /\ P * s \in Int
        BY <1>1, <2>4, Products
      <4> QED
        BY <1>1, <2>2, <2>5, <2>7, <4>1
    <3>2. s + 1 \in Int /\ 0 \in 0..(P - 1)
      BY <1>1, <2>4
    <3>3. (P * (s + 1) + 0) % P = 0
      BY <1>1, <3>2, DivModUnique
    <3> QED
      BY <2>6, <2>7, <3>1, <3>3
  <2>8. CASE d # P - 1
    <3>1. d + 1 \in 0..(P - 1) /\ d + 1 # 0
      BY <1>1, <2>4, <2>8
    <3>2. Bits(b) + 1 = P * s + (d + 1)
      <4>1. P * s \in Int
        BY <1>1, <2>4
      <4> QED
        BY <2>2, <2>4, <2>5, <4>1
    <3>3. (P * s + (d + 1)) % P = d + 1
      BY <1>1, <2>4, <3>1, DivModUnique
    <3> QED
      BY <2>6, <2>8, <3>1, <3>2, <3>3
  <2> QED
    BY <2>7, <2>8
<1>4. l \in Block(a, m)
  <2>1. c <= l
    BY <1>1
  <2> QED
    BY <1>1, <2>1, BlockInterval DEF Block, c
<1> HIDE DEF l
<1>5. LastOf(a, m) = CHOOSE b \in Block(a, m) : b = l
  BY <1>3 DEF LastOf
<1>6. LastOf(a, m) = l
  BY <1>4, <1>5
<1> QED
  BY <1>6 DEF l, c

\* The count is one less than the size of the block; of a /1, whose size is no
\* int, two less.
LEMMA CountIs ==
    ASSUME NEW m \in Mask, NEW P, P = pow2[Width - m]
    PROVE  Count(m) = IF m = 1 THEN P - 2 ELSE P - 1
<1>1. P \in Nat \ {0} /\ Half \in Nat \ {0}
  BY MaskSizes, HalfType
<1>2. CASE m = 1
  BY <1>1, <1>2, MaskSizes DEF Count, ToInt
<1>3. CASE m # 1
  <2>1. m > 1
    BY <1>3, WidthType DEF Mask
  <2>2. PICK h \in Nat \ {0} : pow2[m - 1] = 2 * h
    BY <2>1, MaskSizes
  <2>3. Half = P * (2 * h)
    BY <2>2, MaskSizes
  <2>4. P * (2 * h) > P
    <3>1. P * (2 * h) >= P * 2
      BY <1>1
    <3> QED
      BY <1>1, <3>1
  <2> QED
    BY <1>1, <1>3, <2>3, <2>4 DEF Count, ToInt
<1> QED
  BY <1>2, <1>3

LEMMA TwoAddresses == Half >= 2
<1>1. 1 \in Mask /\ Width \in Nat /\ 1 < Width
  BY WidthConstant DEF Mask
<1>2. PICK h \in Nat \ {0} : pow2[Width - 1] = 2 * h
  BY <1>1, MaskSizes
<1> QED
  BY <1>2 DEF Half

\* The list goes from the cut to the broadcast address, which is the last
\* address but for a /1.
LEMMA ListInterval ==
    ASSUME NEW a \in Int32, NEW m \in Mask
    PROVE  /\ Count(m) \in Nat
           /\ Cut(a, m) \in Int
           /\ \A n \in 0..Count(m) : Wrap(Cut(a, m) + n) = Cut(a, m) + n
           /\ parseBroadcastAddress(a, m) = Cut(a, m) + Count(m)
           /\ LastOf(a, m) = IF m = 1 THEN Cut(a, m) + Count(m) + 1
                                      ELSE Cut(a, m) + Count(m)
           /\ \A b \in Int32 : SameBits(a, b, m) <=> Cut(a, m) <= b /\ b <= LastOf(a, m)
           /\ Cut(a, m) + Count(m) \in Int32
<1> DEFINE P == pow2[Width - m]
           c == Cut(a, m)
<1>1. P \in Nat \ {0} /\ (m = 1 => P = Half)
  BY MaskSizes
<1>2. c \in Int32 /\ c + P - 1 \in Int32
  BY CutFirst
<1>3. Count(m) = IF m = 1 THEN P - 2 ELSE P - 1
  BY CountIs
<1>4. LastOf(a, m) = c + P - 1
  BY LastInterval
<1>5. \A b \in Int32 : SameBits(a, b, m) <=> c <= b /\ b <= c + P - 1
  BY BlockInterval
<1> HIDE DEF P, c
<1>6. Count(m) \in Nat /\ Count(m) <= P - 1
  BY <1>1, <1>3, TwoAddresses
<1>7. ASSUME NEW n \in 0..Count(m) PROVE c + n \in Int32
  BY <1>1, <1>2, <1>6, HalfType
<1>8. \A n \in 0..Count(m) : Wrap(c + n) = c + n
  BY <1>7, WrapInt
<1>9. Count(m) \in 0..Count(m)
  BY <1>6
<1>10. parseBroadcastAddress(a, m) = c + Count(m)
  BY <1>8, <1>9 DEF parseBroadcastAddress, c
<1>11. c \in Int
  BY <1>2, HalfType
<1>12. LastOf(a, m) = IF m = 1 THEN c + Count(m) + 1 ELSE c + Count(m)
  BY <1>1, <1>3, <1>4, <1>11
<1>13. c + Count(m) \in Int32
  BY <1>7, <1>9
<1> QED
  BY <1>4, <1>5, <1>6, <1>8, <1>10, <1>11, <1>12, <1>13 DEF c

\* The CIDR at hand is one that Cidr.check lets through.
CidrTypeOK == cidr \in [address : Int32, maskBits : Mask]

LEMMA CidrTyped == CidrSpec => []CidrTypeOK
<1>1. CidrInit => CidrTypeOK
  BY DEF CidrInit, CidrTypeOK
<1>2. CidrTypeOK /\ [UNCHANGED cidr]_cidr => CidrTypeOK'
  BY DEF CidrTypeOK
<1> QED
  BY <1>1, <1>2, PTL DEF CidrSpec

LEMMA ContainsBlock == CidrTypeOK => ContainsExact
<1> SUFFICES ASSUME CidrTypeOK PROVE ContainsExact
  OBVIOUS
<1> DEFINE a == cidr.address
           m == cidr.maskBits
<1>1. a \in Int32 /\ m \in Mask
  BY DEF CidrTypeOK
<1> HIDE DEF a, m
<1>2. ASSUME NEW ip \in Int32
      PROVE  contains(a, m, ip) <=> SameBits(a, ip, m) /\ (m = 1 => ip # LastOf(a, m))
  <2>1. /\ Count(m) \in Nat
        /\ Cut(a, m) \in Int
        /\ Wrap(Cut(a, m) + Count(m)) = Cut(a, m) + Count(m)
        /\ LastOf(a, m) = IF m = 1 THEN Cut(a, m) + Count(m) + 1
                                   ELSE Cut(a, m) + Count(m)
        /\ SameBits(a, ip, m) <=> Cut(a, m) <= ip /\ ip <= LastOf(a, m)
    BY <1>1, ListInterval
  <2>2. contains(a, m, ip) <=> Cut(a, m) <= ip /\ ip <= Cut(a, m) + Count(m)
    BY <2>1 DEF contains
  <2>3. ip \in Int
    BY HalfType
  <2> QED
    BY <2>1, <2>2, <2>3
<1> QED
  BY <1>2 DEF ContainsExact, a, m

\* The list has every address of the interval, once.
LEMMA ListAddresses ==
    ASSUME NEW a \in Int32, NEW m \in Mask
    PROVE  /\ IsInjective(parseIpList(a, m))
           /\ Range(parseIpList(a, m)) =
                  {b \in Int32 : Cut(a, m) <= b /\ b <= Cut(a, m) + Count(m)}
<1> DEFINE c == Cut(a, m)
           n == Count(m)
           list == parseIpList(a, m)
<1>1. /\ n \in Nat /\ c \in Int /\ c + n \in Int32 /\ c \in Int32
      /\ \A i \in 0..n : Wrap(c + i) = c + i
  BY ListInterval, CutFirst
<1>2. list = [i \in 1..(n + 1) |-> Wrap(c + i - 1)]
  BY DEF parseIpList
<1> HIDE DEF c, n, list
<1>3. DOMAIN list = 1..(n + 1)
  BY <1>2
<1>4. ASSUME NEW i \in 1..(n + 1) PROVE list[i] = c + (i - 1)
  <2>1. i - 1 \in 0..n /\ c + i - 1 = c + (i - 1)
    BY <1>1
  <2> QED
    BY <1>1, <1>2, <2>1
<1>5. IsInjective(list)
  <2> SUFFICES ASSUME NEW i \in 1..(n + 1), NEW j \in 1..(n + 1), list[i] = list[j]
               PROVE  i = j
    BY <1>3 DEF IsInjective
  <2>1. c + (i - 1) = c + (j - 1)
    BY <1>4
  <2> QED
    BY <1>1, <2>1
<1>6. ASSUME NEW b, b \in Range(list) PROVE b \in Int32 /\ c <= b /\ b <= c + n
  <2>1. PICK i \in 1..(n + 1) : b = list[i]
    BY <1>3, <1>6 DEF Range
  <2>2. b = c + (i - 1)
    BY <1>4, <2>1
  <2> QED
    BY <1>1, <2>2, HalfType
<1>7. ASSUME NEW b \in Int32, c <= b, b <= c + n PROVE b \in Range(list)
  <2>1. b \in Int
    BY <1>7, HalfType
  <2>2. b - c + 1 \in 1..(n + 1) /\ c + ((b - c + 1) - 1) = b
    BY <1>1, <1>7, <2>1
  <2>3. list[b - c + 1] = b
    BY <1>4, <2>2
  <2> QED
    BY <1>3, <2>2, <2>3 DEF Range
<1>8. Range(list) = {b \in Int32 : c <= b /\ b <= c + n}
  BY <1>6, <1>7
<1> QED
  BY <1>5, <1>8 DEF c, n, list

LEMMA PoolBlock == CidrTypeOK => PoolExact
<1> SUFFICES ASSUME CidrTypeOK PROVE PoolExact
  OBVIOUS
<1> DEFINE a == cidr.address
           m == cidr.maskBits
           c == Cut(a, m)
           n == Count(m)
           list == parseIpList(a, m)
<1>1. a \in Int32 /\ m \in Mask
  BY DEF CidrTypeOK
<1> HIDE DEF a, m
<1>2. /\ n \in Nat /\ c \in Int
      /\ parseBroadcastAddress(a, m) = c + n
      /\ LastOf(a, m) = IF m = 1 THEN c + n + 1 ELSE c + n
      /\ \A b \in Int32 : SameBits(a, b, m) <=> c <= b /\ b <= LastOf(a, m)
  BY <1>1, ListInterval
<1>3. IsInjective(list) /\ Range(list) = {b \in Int32 : c <= b /\ b <= c + n}
  BY <1>1, ListAddresses
<1> HIDE DEF c, n, list
<1>4. ASSUME NEW b
      PROVE  b \in Range(list) \ {a, c + n} <=>
                 b \in Block(a, m) \ {a, LastOf(a, m), c + n}
  <2>1. b \in Block(a, m) <=> b \in Int32 /\ c <= b /\ b <= LastOf(a, m)
    BY <1>2 DEF Block
  <2>2. b \in Int32 => b \in Int
    BY HalfType
  <2> QED
    BY <1>2, <1>3, <2>1, <2>2
<1>5. Range(list) \ {a, c + n} = Block(a, m) \ {a, LastOf(a, m), c + n}
  BY <1>4
<1>6. availableIpList(a, m) = Range(list) \ {a, c + n}
  BY <1>2 DEF availableIpList, list
<1> QED
  BY <1>2, <1>3, <1>5, <1>6 DEF PoolExact, a, m, list

LEMMA PoolAccepted == CidrTypeOK => AcceptedBindable
<1> SUFFICES ASSUME CidrTypeOK PROVE AcceptedBindable
  OBVIOUS
<1> DEFINE a == cidr.address
           m == cidr.maskBits
           list == parseIpList(a, m)
<1>1. a \in Int32 /\ m \in Mask
  BY DEF CidrTypeOK
<1> HIDE DEF a, m
<1>2. Wrap(Cut(a, m) + Count(m)) = Cut(a, m) + Count(m) /\ Cut(a, m) \in Int
  BY <1>1, ListInterval
<1>3. Range(list) = {b \in Int32 : Cut(a, m) <= b /\ b <= Cut(a, m) + Count(m)}
  BY <1>1, ListAddresses
<1>4. ASSUME NEW b \in Int32
      PROVE  contains(a, m, b) <=> Cut(a, m) <= b /\ b <= Cut(a, m) + Count(m)
  <2>1. b \in Int
    BY HalfType
  <2> QED
    BY <1>2, <2>1 DEF contains
<1>5. Range(list) = {b \in Int32 : contains(a, m, b)}
  BY <1>3, <1>4
<1> QED
  BY <1>5 DEF AcceptedBindable, availableIpList, a, m, list

-----------------------------------------------------------------------------
(* Masks, and addresses written out and read *)

\* Wrap takes whole turns away.
LEMMA WrapTurns ==
    ASSUME NEW n \in Int
    PROVE  \E t \in Int : Wrap(n) = n + (2 * Half) * t
<1> DEFINE p == 2 * Half
           q == (n + Half) \div p
           r == (n + Half) % p
<1>1. p \in Nat \ {0} /\ Half \in Int /\ n + Half \in Int
  BY HalfType
<1>2. Wrap(n) = r - Half
  BY DEF Wrap
<1> HIDE DEF p
<1>3. q \in Int /\ r \in 0..(p - 1) /\ n + Half = p * q + r
  BY <1>1, DivMod
<1> HIDE DEF q, r
<1>4. -q \in Int /\ p * (-q) = -(p * q) /\ p * q \in Int
  BY <1>1, <1>3, Products
<1>5. r - Half = n + p * (-q)
  BY <1>1, <1>3, <1>4
<1> QED
  BY <1>2, <1>4, <1>5 DEF p

LEMMA MaskBlock ==
    ASSUME NEW m \in Mask
    PROVE  /\ m < Width => Bits(parseMaskAddress(m)) = 2 * Half - pow2[Width - m]
           /\ m = Width => parseMaskAddress(m) = Half - 1
           /\ parseMaskAddress(m) \in Int32
<1> DEFINE P == pow2[Width - m]
           Q == pow2[m - 1]
           N == 2 * Half
<1>1. P \in Nat \ {0} /\ Q \in Nat \ {0} /\ Half = P * Q
  BY MaskSizes
<1>2. Half \in Nat \ {0} /\ Int32 = (-Half)..(Half - 1)
  BY HalfType
<1>3. parseMaskAddress(m) = Wrap((Half - 1) * P)
  BY MaskSizes DEF parseMaskAddress, Shl
<1>4. parseMaskAddress(m) \in Int32
  <2>1. (Half - 1) * P \in Int
    BY <1>1, <1>2
  <2> QED
    BY <1>3, <2>1, WrapType
<1>5. ASSUME m = Width PROVE parseMaskAddress(m) = Half - 1
  <2>1. P = 1
    BY <1>5, MaskSizes
  <2>2. (Half - 1) * P = Half - 1 /\ Half - 1 \in Int32
    BY <1>2, <2>1
  <2> QED
    BY <1>3, <2>2, WrapInt
<1>6. ASSUME m < Width PROVE Bits(parseMaskAddress(m)) = N - P
  <2>1. PICK h \in Nat \ {0} : P = 2 * h
    BY <1>6, MaskSizes
  <2>2. P <= Half /\ P \in Nat \ {0} /\ Half \in Nat \ {0}
    BY <1>1
  <2>3. -P \in Int32
    BY <1>2, <2>2
  <2>4. (Half - 1) * P = -P + N * h
    BY <1>2, <2>1
  <2>5. Wrap(-P + N * h) = -P
    <3>1. h \in Int
      BY <2>1
    <3> HIDE DEF P
    <3> QED
      BY <2>3, <3>1, WrapInt
  <2>6. parseMaskAddress(m) = -P
    BY <1>3, <2>4, <2>5
  <2>7. N \in Nat \ {0} /\ N - P \in 0..(N - 1) /\ N * (-1) + (N - P) = -P
    <3> HIDE DEF P
    <3> QED
      BY <2>2
  <2>8. (N * (-1) + (N - P)) % N = N - P
    <3>1. -1 \in Int
      OBVIOUS
    <3> HIDE DEF N, P
    <3> QED
      BY <2>7, <3>1, DivModUnique
  <2> QED
    BY <2>6, <2>7, <2>8 DEF Bits
<1> QED
  BY <1>4, <1>5, <1>6

\* Shifts by whole parts of an address.
LEMMA PartShifts ==
    LET k == Width \div 4
    IN  /\ k \in Nat /\ Part = pow2[k] /\ Part \in Nat \ {0}
        /\ (0 * k) % Width = 0 /\ pow2[0] = 1
        /\ k % Width = k
        /\ (2 * k) % Width = 2 * k /\ pow2[2 * k] = Part * Part
        /\ (3 * k) % Width = 3 * k /\ pow2[3 * k] = Part * (Part * Part)
        /\ 2 * Half = Part * (Part * (Part * Part))
<1> DEFINE k == Width \div 4
<1>1. Width = 4 * k /\ k \in Nat \ {0} /\ Width \in Nat \ {0}
  BY WidthConstant
<1>2. Part = pow2[k] /\ Part \in Nat \ {0}
  BY <1>1, Pow2Type DEF Part
<1> HIDE DEF k
<1>3. 0 * k = 0 /\ 2 * k = k + k /\ 3 * k = k + (2 * k) /\ Width = k + (3 * k)
  BY <1>1
<1>4. 2 * k \in Nat /\ 3 * k \in Nat
  BY <1>1
<1>5. pow2[2 * k] = Part * Part
  BY <1>1, <1>2, <1>3, Pow2Add
<1>6. pow2[3 * k] = Part * (Part * Part)
  BY <1>1, <1>2, <1>3, <1>4, <1>5, Pow2Add
<1>7. pow2[Width] = Part * (Part * (Part * Part))
  BY <1>1, <1>2, <1>3, <1>4, <1>6, Pow2Add
<1>8. pow2[Width] = 2 * Half
  <2>1. Width - 1 \in Nat /\ (Width - 1) + 1 = Width
    BY <1>1
  <2> QED
    BY <2>1, Pow2Def DEF Half
<1>9. ASSUME NEW x \in 0..(Width - 1) PROVE x % Width = x
  BY <1>1
<1>10. 0 \in 0..(Width - 1) /\ k \in 0..(Width - 1) /\ 2 * k \in 0..(Width - 1)
       /\ 3 * k \in 0..(Width - 1)
  BY <1>1
<1> QED
  BY <1>1, <1>2, <1>3, <1>5, <1>6, <1>7, <1>8, <1>9, <1>10, Pow2Def DEF k

\* Dividing twice is dividing by the product.
LEMMA DivTwice ==
    ASSUME NEW x \in Int, NEW p \in Nat \ {0}, NEW b \in Nat \ {0}
    PROVE  x \div (b * p) = (x \div p) \div b
<1> DEFINE q == x \div p
           r == x % p
           s == q \div b
           d == q % b
           e == p * d + r
<1>1. q \in Int /\ r \in 0..(p - 1) /\ x = p * q + r
  BY DivMod
<1> HIDE DEF q, r
<1>2. s \in Int /\ d \in 0..(b - 1) /\ q = b * s + d
  BY <1>1, DivMod
<1> HIDE DEF s, d
<1>3. b * p \in Nat \ {0}
  OBVIOUS
<1>4. e \in 0..(b * p - 1)
  <2>1. p * d \in Nat
    BY <1>2
  <2>2. p * (d + 1) <= p * b
    BY <1>2
  <2>3. p * (d + 1) = p * d + p
    BY <1>2, Products
  <2>4. p * b = b * p
    OBVIOUS
  <2> QED
    BY <1>1, <1>3, <2>1, <2>2, <2>3, <2>4
<1>5. x = (b * p) * s + e
  <2>1. p * (b * s + d) = (b * p) * s + p * d
    BY <1>2
  <2>2. (b * p) * s \in Int /\ p * d \in Int
    BY <1>2
  <2> QED
    BY <1>1, <1>2, <2>1, <2>2
<1> HIDE DEF e
<1>6. ((b * p) * s + e) \div (b * p) = s
  BY <1>2, <1>3, <1>4, DivModUnique
<1> QED
  BY <1>5, <1>6 DEF s, q

\* The numbers an address is written as are its digits.
LEMMA Digits ==
    ASSUME NEW s \in Int32
    PROVE  LET d == int2ip(s)
           IN  /\ d \in Dotted
               /\ \E q \in Int :
                      s = Part * (Part * (Part * (Part * q + d[1]) + d[2]) + d[3]) + d[4]
<1> DEFINE B == Part
           k == Width \div 4
           d == int2ip(s)
           q1 == s \div B
           q2 == q1 \div B
           q3 == q2 \div B
           q4 == q3 \div B
<1>1. B \in Nat \ {0} /\ s \in Int
  BY PartShifts, HalfType
<1>2. q1 \in Int /\ s % B \in 0..(B - 1) /\ s = B * q1 + (s % B)
  BY <1>1, DivMod
<1>3. q2 \in Int /\ q1 % B \in 0..(B - 1) /\ q1 = B * q2 + (q1 % B)
  BY <1>1, <1>2, DivMod
<1>4. q3 \in Int /\ q2 % B \in 0..(B - 1) /\ q2 = B * q3 + (q2 % B)
  BY <1>1, <1>3, DivMod
<1>5. q4 \in Int /\ q3 % B \in 0..(B - 1) /\ q3 = B * q4 + (q3 % B)
  BY <1>1, <1>4, DivMod
<1>6. s \div (B * B) = q2
  BY <1>1, DivTwice
<1>7. s \div (B * (B * B)) = q3
  <2>1. B * B \in Nat \ {0}
    BY <1>1
  <2>2. s \div (B * (B * B)) = (s \div (B * B)) \div B
    <3> DEFINE p == B * B
    <3> HIDE DEF p
    <3>1. p \in Nat \ {0}
      BY <2>1 DEF p
    <3>2. s \div (B * p) = (s \div p) \div B
      BY <1>1, <3>1, DivTwice
    <3> QED
      BY <3>2 DEF p
  <2> QED
    BY <1>6, <2>2
<1>8. s \div 1 = s
  BY <1>1
<1>9. /\ Shr(s, 0 * k) = s
      /\ Shr(s, k) = q1
      /\ Shr(s, 2 * k) = q2
      /\ Shr(s, 3 * k) = q3
  BY <1>6, <1>7, <1>8, PartShifts DEF Shr
<1>10. d[1] = q3 % B /\ d[2] = q2 % B /\ d[3] = q1 % B /\ d[4] = s % B
  <2>1. d = [i \in 1..4 |-> Shr(s, (4 - i) * k) % B]
    BY DEF int2ip
  <2>2. 4 - 1 = 3 /\ 4 - 2 = 2 /\ 4 - 3 = 1 /\ 4 - 4 = 0 /\ 1 * k = k
    BY PartShifts
  <2> HIDE DEF d, B, k, q1, q2, q3
  <2> QED
    BY <1>9, <2>1, <2>2
<1>11. d \in Dotted
  <2>1. d = [i \in 1..4 |-> Shr(s, (4 - i) * k) % B]
    BY DEF int2ip
  <2>2. 1..4 = {1, 2, 3, 4}
    OBVIOUS
  <2>3. \A i \in 1..4 : d[i] \in 0..(B - 1)
    <3> HIDE DEF d, B, q1, q2, q3, q4
    <3> QED
      BY <1>2, <1>3, <1>4, <1>5, <1>10, <2>2
  <2>4. d \in [1..4 -> 0..(B - 1)]
    <3> HIDE DEF B
    <3>1. d = [i \in 1..4 |-> d[i]]
      BY <2>1
    <3> HIDE DEF d
    <3> QED
      BY <2>3, <3>1
  <2> QED
    BY <2>4 DEF Dotted
<1> HIDE DEF q1, q2, q3, q4, d, B
<1>12. s = B * (B * (B * (B * q4 + d[1]) + d[2]) + d[3]) + d[4]
  BY <1>2, <1>3, <1>4, <1>5, <1>10
<1> QED
  BY <1>5, <1>11, <1>12 DEF d, B

\* What is written out is read again.
LEMMA RoundTrip ==
    ASSUME NEW s \in Int32
    PROVE  ip2int(int2ip(s)) = s
<1> DEFINE B == Part
           k == Width \div 4
           N == 2 * Half
           d == int2ip(s)
<1>1. PICK q \in Int : s = B * (B * (B * (B * q + d[1]) + d[2]) + d[3]) + d[4]
  BY Digits
<1>2. d[1] \in Int /\ d[2] \in Int /\ d[3] \in Int /\ d[4] \in Int
  <2>1. d \in Dotted /\ Part \in Nat
    BY Digits, PartShifts
  <2> QED
    BY <2>1 DEF Dotted
<1>3. /\ B \in Nat \ {0}
      /\ pow2[(3 * k) % Width] = B * (B * B)
      /\ pow2[(2 * k) % Width] = B * B
      /\ pow2[k % Width] = B
      /\ N = B * (B * (B * B))
  BY PartShifts
<1> DEFINE x1 == d[1] * (B * (B * B))
           x2 == d[2] * (B * B)
           x3 == d[3] * B
<1>4. x1 \in Int /\ x2 \in Int /\ x3 \in Int
  BY <1>2, <1>3
<1>5. /\ Shl(d[1], 3 * k) = Wrap(x1)
      /\ Shl(d[2], 2 * k) = Wrap(x2)
      /\ Shl(d[3], k) = Wrap(x3)
  BY <1>3 DEF Shl
<1>6. s = N * q + (x1 + x2 + x3 + d[4])
  <2> HIDE DEF d, B
  <2> QED
    BY <1>1, <1>2, <1>3
<1> HIDE DEF d, x1, x2, x3, N
<1>7. PICK t1 \in Int : Wrap(x1) = x1 + N * t1
  BY <1>4, WrapTurns DEF N
<1>8. PICK t2 \in Int : Wrap(x2) = x2 + N * t2
  BY <1>4, WrapTurns DEF N
<1>9. PICK t3 \in Int : Wrap(x3) = x3 + N * t3
  BY <1>4, WrapTurns DEF N
<1> DEFINE t == t1 + t2 + t3 - q
<1>10. N \in Int
  BY HalfType DEF N
<1>11. Wrap(x1) + Wrap(x2) + Wrap(x3) + d[4] = s + N * t
  <2>1. N * t = N * t1 + N * t2 + N * t3 - N * q
    BY <1>10
  <2>2. N * t1 \in Int /\ N * t2 \in Int /\ N * t3 \in Int /\ N * q \in Int
    BY <1>10
  <2> HIDE DEF t
  <2> QED
    BY <1>2, <1>4, <1>6, <1>7, <1>8, <1>9, <2>1, <2>2
<1>12. t \in Int
  OBVIOUS
<1> HIDE DEF t
<1>13. Wrap(s + N * t) = s
  BY <1>12, WrapInt DEF N
<1>14. ip2int(d) = Wrap(Wrap(x1) + Wrap(x2) + Wrap(x3) + d[4])
  BY <1>5 DEF ip2int
<1> QED
  BY <1>11, <1>13, <1>14 DEF d

LEMMA MaskBits == CidrTypeOK => MaskExact
<1> SUFFICES ASSUME CidrTypeOK PROVE MaskExact
  OBVIOUS
<1> DEFINE m == cidr.maskBits
           mask == parseMaskAddress(m)
<1>1. cidr.address \in Int32 /\ m \in Mask
  BY DEF CidrTypeOK
<1>2. /\ m < Width => Bits(mask) = 2 * Half - pow2[Width - m]
      /\ m = Width => mask = Half - 1
      /\ mask \in Int32
  BY <1>1, MaskBlock
<1> HIDE DEF mask
<1>3. int2ip(mask) \in Dotted
  BY <1>2, Digits
<1>4. ip2int(int2ip(cidr.address)) = cidr.address
  BY <1>1, RoundTrip
<1> QED
  BY <1>2, <1>3, <1>4 DEF MaskExact, mask

-----------------------------------------------------------------------------
(* The theorems *)

\* contains() is membership of the block for every width, every address and
\* every mask the check lets through; of a /1 it misses the last (Cidr.contains).
THEOREM ContainsCorrect == CidrSpec => []ContainsExact
<1> QED
  BY CidrTyped, ContainsBlock, PTL

\* The pool is the block, each address once, without the address as written and
\* the broadcast address, and of a /1 without the last (Cidr.parseIpList and
\* availableIpList).
THEOREM PoolCorrect == CidrSpec => []PoolExact
<1> QED
  BY CidrTyped, PoolBlock, PTL

\* Of what updateNode accepts only two addresses are not in the pool, at most, and
\* all of the pool is accepted (Cidr.contains and availableIpList).
THEOREM AcceptedCorrect == CidrSpec => []AcceptedBindable
<1> QED
  BY CidrTyped, PoolAccepted, PTL

\* The mask has maskBits ones first, but for the one as long as an address; and
\* reading an address that was written out gives it back (parseMaskAddress,
\* IPUtil.int2ip and ip2int).
THEOREM MaskCorrect == CidrSpec => []MaskExact
<1> QED
  BY CidrTyped, MaskBits, PTL
=============================================================================
