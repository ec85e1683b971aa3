---------------------------- MODULE PowerLemmas ----------------------------
(***************************************************************************)
(* What the proofs about the allocators need to know about numbers:        *)
(* induction and recursion over them, division, and aligned blocks whose   *)
(* sizes are powers of two.                                                *)
(***************************************************************************)
EXTENDS Powers, Functions, TLAPS, WellFoundedInduction

\* A set of numbers that is not empty has a least element.
LEMMA Least ==
    ASSUME NEW T \in SUBSET Nat, T # {}
    PROVE  \E x \in T : \A y \in T : x <= y
  <1>1. PICK x \in T : \A y \in T : ~(<<y, x>> \in OpToRel(<, Nat))
    BY NatLessThanWellFounded, WFMin, Zenon
  <1>2. ASSUME NEW y \in T PROVE ~(y < x)
    BY <1>1, Zenon DEF OpToRel
  <1> QED
    BY <1>2, SMT

\* Induction over the numbers, for a set of them.
LEMMA Induct ==
    ASSUME NEW S, 0 \in S, \A n \in Nat : n \in S => n + 1 \in S
    PROVE  \A n \in Nat : n \in S
  <1> DEFINE T == {n \in Nat : n \notin S}
  <1> SUFFICES ASSUME T # {} PROVE FALSE
    BY Zenon
  <1>1. PICK x \in T : \A y \in T : x <= y
    BY Least, Zenon
  <1>2. x # 0
    BY <1>1
  <1>3. x - 1 \in Nat /\ ~(x <= x - 1) /\ x - 1 + 1 = x
    BY <1>1, <1>2, SMT
  <1> QED
    BY <1>1, <1>3

\* A function computed by recursion exists.
Follows(f, a, H) == f[0] = a /\ \A n \in Nat : f[n + 1] = H[n][f[n]]

\* There is a function that a recursion over the numbers defines.
LEMMA Recursion ==
    ASSUME NEW X, NEW a \in X, NEW H \in [Nat -> [X -> X]]
    PROVE  \E f \in [Nat -> X] : Follows(f, a, H)
  <1> DEFINE P(n, g) == g[0] = a /\ \A i \in Nat : i < n => g[i + 1] = H[i][g[i]]
             S == {n \in Nat : \E g \in [Nat -> X] : P(n, g)}
             pick == [n \in Nat |-> CHOOSE g \in [Nat -> X] : P(n, g)]
             f == [n \in Nat |-> pick[n][n]]
  <1>1. \A n \in Nat : \E g \in [Nat -> X] : P(n, g)
    <2>1. 0 \in S
      <3>1. P(0, [i \in Nat |-> a])
        BY SMT
      <3>2. [i \in Nat |-> a] \in [Nat -> X]
        OBVIOUS
      <3> QED
        BY <3>1, <3>2, Zenon
    <2>2. ASSUME NEW n \in Nat, n \in S PROVE n + 1 \in S
      <3>1. PICK g \in [Nat -> X] : P(n, g)
        BY <2>2
      <3> DEFINE h == [g EXCEPT ![n + 1] = H[n][g[n]]]
      <3>2. h \in [Nat -> X]
        BY SMT
      <3>3. P(n + 1, h)
        BY <3>1, SMT
      <3>4. n + 1 \in Nat
        BY SMT
      <3> HIDE DEF h
      <3> QED
        BY <3>2, <3>3, <3>4, Zenon
    <2> HIDE DEF S
    <2>3. \A n \in Nat : n \in S
      BY <2>1, <2>2, Induct, Zenon
    <2> QED
      BY <2>3, Zenon DEF S
  <1>2. \A n \in Nat : pick[n] \in [Nat -> X] /\ P(n, pick[n])
    BY <1>1, Zenon
  <1> HIDE DEF pick
  <1>3. ASSUME NEW n \in Nat, NEW g \in [Nat -> X], NEW h \in [Nat -> X], P(n, g), P(n + 1, h)
        PROVE  g[n] = h[n]
    <2> DEFINE U == {i \in Nat : i <= n => g[i] = h[i]}
    <2>1. 0 \in U
      BY <1>3, SMT
    <2>2. ASSUME NEW i \in Nat, i \in U PROVE i + 1 \in U
      BY <1>3, <2>2, SMT
    <2> HIDE DEF U
    <2>3. n \in U
      BY <2>1, <2>2, Induct, Zenon
    <2> QED
      BY <2>3, SMT DEF U
  <1>4. f \in [Nat -> X]
    BY <1>2, SMT
  <1>5. f[0] = a
    BY <1>2, Zenon
  <1>6. ASSUME NEW n \in Nat PROVE f[n + 1] = H[n][f[n]]
    <2>0. n + 1 \in Nat
      BY SMT
    <2>1. pick[n][n] = pick[n + 1][n]
      BY <2>0, <1>2, <1>3, Zenon
    <2>2. pick[n + 1][n + 1] = H[n][pick[n + 1][n]]
      BY <2>0, <1>2, SMT
    <2> QED
      BY <2>0, <2>1, <2>2, Zenon
  <1> QED
    BY <1>4, <1>5, <1>6, Zenon DEF Follows

\* Pow2 computes powers of two: 1ul << k doubles with k.
LEMMA PowType ==
    /\ Pow2 \in [Nat -> Nat]
    /\ Pow2[0] = 1
    /\ \A n \in Nat : Pow2[n + 1] = 2 * Pow2[n] /\ Pow2[n] > 0
  <1> DEFINE Fits(f) == f = [k \in Nat |-> IF k = 0 THEN 1 ELSE 2 * f[k - 1]]
  <1>1. \E f : Fits(f)
    <2> DEFINE H == [n \in Nat |-> [x \in Nat |-> 2 * x]]
    <2>1. H \in [Nat -> [Nat -> Nat]]
      BY SMT
    <2> HIDE DEF H
    <2>2. PICK f \in [Nat -> Nat] : Follows(f, 1, H)
      <3>1. 1 \in Nat
        BY SMT
      <3> QED
        BY <2>1, <3>1, Recursion, Zenon
    <2>3. \A n \in Nat : f[n + 1] = 2 * f[n]
      BY <2>2, Zenon DEF H, Follows
    <2>4. \A k \in Nat : k # 0 => k - 1 \in Nat /\ (k - 1) + 1 = k
      BY SMT
    <2>5. \A k \in Nat : f[k] = IF k = 0 THEN 1 ELSE 2 * f[k - 1]
      BY <2>2, <2>3, <2>4, Zenon DEF Follows
    <2> QED
      BY <2>5, Zenon
  <1>2. Fits(Pow2)
    BY <1>1, Zenon DEF Pow2
  <1>3. Pow2[0] = 1
    BY <1>2, SMT
  <1>4. \A n \in Nat : Pow2[n + 1] = 2 * Pow2[n]
    <2>1. \A n \in Nat : n + 1 \in Nat /\ n + 1 # 0 /\ (n + 1) - 1 = n
      BY SMT
    <2> QED
      BY <1>2, <2>1, Zenon
  <1> DEFINE S == {n \in Nat : Pow2[n] \in Nat /\ Pow2[n] > 0}
  <1>5. 0 \in S
    BY <1>3, SMT
  <1>6. ASSUME NEW n \in Nat, n \in S PROVE n + 1 \in S
    BY <1>4, <1>6, SMT
  <1>7. DOMAIN Pow2 = Nat /\ Pow2 = [n \in Nat |-> Pow2[n]]
    BY <1>2, Zenon
  <1> HIDE DEF S
  <1>8. \A n \in Nat : n \in S
    BY <1>5, <1>6, Induct, Zenon
  <1> QED
    BY <1>3, <1>4, <1>7, <1>8, Zenon DEF S

\* A power of two divides the higher ones.
LEMMA PowTimes ==
    ASSUME NEW j \in Nat, NEW k \in Nat, j <= k
    PROVE  \E c \in Nat : c > 0 /\ Pow2[k] = c * Pow2[j]
  <1> DEFINE S == {n \in Nat : \E c \in Nat : c > 0 /\ Pow2[j + n] = c * Pow2[j]}
  <1>0. Pow2[j] \in Nat
    BY PowType, Zenon
  <1>1. 0 \in S
    <2>1. Pow2[j + 0] = 1 * Pow2[j]
      BY <1>0, SMT
    <2> QED
      BY <2>1, SMT
  <1>2. ASSUME NEW n \in Nat, n \in S PROVE n + 1 \in S
    <2>1. PICK c \in Nat : c > 0 /\ Pow2[j + n] = c * Pow2[j]
      BY <1>2
    <2>2. Pow2[j + (n + 1)] = 2 * Pow2[j + n]
      BY PowType, SMT
    <2>3. Pow2[j + (n + 1)] = (2 * c) * Pow2[j]
      BY <1>0, <2>1, <2>2, SMT
    <2> QED
      BY <2>1, <2>3, SMT
  <1> HIDE DEF S
  <1>3. k - j \in S
    BY <1>1, <1>2, Induct, SMT
  <1>4. j + (k - j) = k
    BY SMT
  <1> QED
    BY <1>3, <1>4, Zenon DEF S

\* A quotient and a remainder are determined by the product.
LEMMA Quotient ==
    ASSUME NEW m \in Nat, m > 0, NEW q \in Nat, NEW r \in Nat, r < m
    PROVE  (m * q + r) \div m = q /\ (m * q + r) % m = r
  BY SMT

\* What division and remainder return.
LEMMA Division ==
    ASSUME NEW a \in Nat, NEW m \in Nat, m > 0
    PROVE  /\ a \div m \in Nat /\ a % m \in Nat
           /\ a = m * (a \div m) + (a % m) /\ a % m < m
  <1> DEFINE S == {n \in Nat : \E q, r \in Nat : r < m /\ n = m * q + r}
  <1>1. 0 \in S
    <2>1. 0 = m * 0 + 0
      BY SMT
    <2> QED
      BY <2>1, SMT
  <1>2. ASSUME NEW n \in Nat, n \in S PROVE n + 1 \in S
    <2>1. PICK q \in Nat, r \in Nat : r < m /\ n = m * q + r
      BY <1>2
    <2>2. CASE r + 1 < m
      BY <2>1, <2>2, SMT
    <2>3. CASE r + 1 = m
      <3>1. n + 1 = m * (q + 1) + 0
        BY <2>1, <2>3, SMT
      <3>2. n + 1 \in Nat /\ q + 1 \in Nat /\ 0 \in Nat /\ 0 < m
        BY SMT
      <3> QED
        BY <3>1, <3>2, Zenon
    <2> QED
      BY <2>1, <2>2, <2>3, SMT
  <1> HIDE DEF S
  <1>3. a \in S
    BY <1>1, <1>2, Induct, Zenon
  <1>4. PICK q \in Nat, r \in Nat : r < m /\ a = m * q + r
    BY <1>3, Zenon DEF S
  <1>5. a \div m = q /\ a % m = r
    BY <1>4, Quotient, Zenon
  <1> QED
    BY <1>4, <1>5, Zenon

\* A number is aligned to an order if it is a multiple of its size.
LEMMA Multiple ==
    ASSUME NEW p \in Nat, NEW k \in Nat
    PROVE  /\ p \div Pow2[k] \in Nat
           /\ p % Pow2[k] = 0 => \E a \in Nat : p = Pow2[k] * a
           /\ \A a \in Nat : p = Pow2[k] * a => p % Pow2[k] = 0 /\ p \div Pow2[k] = a
  <1>1. Pow2[k] \in Nat /\ Pow2[k] > 0
    BY PowType, Zenon
  <1> DEFINE m == Pow2[k]
  <1> HIDE DEF m
  <1>2. m \in Nat /\ m > 0
    BY <1>1, Zenon DEF m
  <1>3. ASSUME p % m = 0 PROVE \E a \in Nat : p = m * a
    BY <1>2, <1>3, Division, SMT
  <1>4. ASSUME NEW a \in Nat, p = m * a PROVE p % m = 0 /\ p \div m = a
    <2>1. p = m * a + 0
      BY <1>2, <1>4, SMT
    <2> QED
      BY <1>2, <2>1, Quotient, SMT
  <1>5. p \div m \in Nat
    BY <1>2, Division, Zenon
  <1> QED
    BY <1>3, <1>4, <1>5, Zenon DEF m

\* An aligned block lies inside an aligned block that is not smaller, or beside it.
LEMMA Nested ==
    ASSUME NEW j \in Nat, NEW k \in Nat, j <= k, NEW p \in Nat, NEW q \in Nat,
           p % Pow2[j] = 0, q % Pow2[k] = 0
    PROVE  Block(p, j) \subseteq Block(q, k) \/ Block(p, j) \cap Block(q, k) = {}
  <1>1. PICK c \in Nat : c > 0 /\ Pow2[k] = c * Pow2[j]
    BY PowTimes, Zenon
  <1>2. PICK a \in Nat : p = Pow2[j] * a
    BY Multiple, Zenon
  <1>3. PICK b \in Nat : q = Pow2[k] * b
    BY Multiple, Zenon
  <1> DEFINE m == Pow2[j]
             z == c * b
  <1>4. m \in Nat /\ m > 0 /\ z \in Nat /\ z + c \in Nat
    BY PowType, SMT
  <1>5. p = m * a /\ q = m * z /\ q + Pow2[k] = m * (z + c)
    <2>1. Pow2[k] = c * m
      BY <1>1
    <2> HIDE DEF m
    <2> QED
      BY <1>2, <1>3, <1>4, <2>1, SMT DEF m
  <1> HIDE DEF m, z
  <1>6. \A x, y \in Nat : x <= y => m * x <= m * y
    BY <1>4, SMT
  <1>7. CASE a < z
    <2>1. m * (a + 1) <= m * z
      BY <1>4, <1>6, <1>7, SMT
    <2>2. p + m <= q
      BY <1>4, <1>5, <2>1, SMT
    <2> QED
      BY <1>4, <2>2, SMT DEF Block, m
  <1>8. CASE z + c <= a
    <2>1. q + Pow2[k] <= p
      BY <1>4, <1>5, <1>6, <1>8, SMT
    <2>2. Pow2[k] \in Nat
      BY PowType, Zenon
    <2> QED
      BY <1>4, <2>1, <2>2, SMT DEF Block, m
  <1>9. CASE z <= a /\ a < z + c
    <2>1. m * z <= m * a /\ m * (a + 1) <= m * (z + c)
      BY <1>4, <1>6, <1>9, SMT
    <2>2. q <= p /\ p + m <= q + Pow2[k]
      BY <1>4, <1>5, <2>1, SMT
    <2>3. Pow2[k] \in Nat
      BY PowType, Zenon
    <2> QED
      BY <1>4, <2>2, <2>3, SMT DEF Block, m
  <1> QED
    BY <1>4, <1>7, <1>8, <1>9, SMT

\* What is aligned to an order is aligned to the lower ones.
LEMMA AlignedBelow ==
    ASSUME NEW j \in Nat, NEW k \in Nat, j <= k, NEW p \in Nat, p % Pow2[k] = 0
    PROVE  p % Pow2[j] = 0
  <1>1. PICK c \in Nat : c > 0 /\ Pow2[k] = c * Pow2[j]
    BY PowTimes, Zenon
  <1>2. PICK a \in Nat : p = Pow2[k] * a
    BY Multiple, Zenon
  <1>3. Pow2[j] \in Nat
    BY PowType, Zenon
  <1>4. p = Pow2[j] * (c * a) /\ c * a \in Nat
    BY <1>1, <1>2, <1>3, SMT
  <1> QED
    BY <1>4, Multiple, Zenon

\* A block is its two halves.
LEMMA Halves ==
    ASSUME NEW k \in Nat, NEW p \in Nat, p % Pow2[k + 1] = 0
    PROVE  /\ p % Pow2[k] = 0 /\ (p + Pow2[k]) % Pow2[k] = 0
           /\ (p + Pow2[k]) % Pow2[k + 1] # 0
           /\ Block(p, k + 1) = Block(p, k) \cup Block(p + Pow2[k], k)
           /\ Block(p, k) \cap Block(p + Pow2[k], k) = {}
  <1> DEFINE m == Pow2[k]
  <1>1. m \in Nat /\ m > 0 /\ Pow2[k + 1] = 2 * m
    BY PowType, Zenon
  <1>2. PICK a \in Nat : p = (2 * m) * a
    <2>1. k + 1 \in Nat
      BY SMT
    <2>2. \E a \in Nat : p = Pow2[k + 1] * a
      BY <2>1, Multiple, Zenon
    <2> QED
      BY <1>1, <2>2, Zenon
  <1> HIDE DEF m
  <1>3. p = m * (2 * a) /\ p + m = m * (2 * a + 1) /\ p + m \in Nat
    BY <1>1, <1>2, SMT
  <1>4. 2 * a \in Nat /\ 2 * a + 1 \in Nat
    BY SMT
  <1>5. p % m = 0 /\ (p + m) % m = 0
    BY <1>3, <1>4, Multiple, Zenon DEF m
  <1>6. (p + m) % (2 * m) # 0
    <2>1. 2 * m \in Nat /\ 2 * m > 0 /\ m < 2 * m /\ m # 0
      BY <1>1, SMT
    <2>2. \A n \in Nat : n > 0 /\ m < n => (n * a + m) % n = m
      BY <1>1, <2>1, Quotient, Zenon
    <2> QED
      BY <1>2, <2>1, <2>2, Zenon
  <1>7. Block(p, k + 1) = p .. p + 2 * m - 1
    BY <1>1, SMT DEF Block
  <1>8. Block(p, k) = p .. p + m - 1 /\ Block(p + m, k) = (p + m) .. (p + m) + m - 1
    BY Zenon DEF Block, m
  <1>9. Block(p, k + 1) = Block(p, k) \cup Block(p + m, k)
    BY <1>1, <1>7, <1>8, SMT
  <1>10. Block(p, k) \cap Block(p + m, k) = {}
    BY <1>1, <1>8, SMT
  <1> QED
    BY <1>1, <1>5, <1>6, <1>9, <1>10, Zenon DEF m

\* The block of the next order that a block belongs to, and its number.
LEMMA Pair ==
    ASSUME NEW k \in Nat, NEW p \in Nat
    PROVE  LET c == BlockStart(p, k)
               d == BlockStart(p, k + 1)
           IN  /\ c \in Nat /\ d \in Nat /\ c <= p
               /\ c % Pow2[k] = 0 /\ d % Pow2[k + 1] = 0
               /\ p \in Block(c, k)
               /\ c % Pow2[k + 1] = 0 => d = c
               /\ c % Pow2[k + 1] # 0 => d + Pow2[k] = c
               /\ c \div Pow2[k + 1] = d \div Pow2[k + 1]
  <1> DEFINE m == Pow2[k]
             n == Pow2[k + 1]
             c == BlockStart(p, k)
             d == BlockStart(p, k + 1)
  <1>1. m \in Nat /\ m > 0 /\ n = 2 * m
    BY PowType, Zenon
  <1>2. n \in Nat /\ n > 0 /\ k + 1 \in Nat
    BY <1>1, SMT
  <1>3. c = p - (p % m) /\ d = p - (p % n)
    BY Zenon DEF BlockStart
  <1> HIDE DEF m, n, c, d
  <1>4. PICK q \in Nat, r \in Nat : r < n /\ p = n * q + r /\ r = p % n
    BY <1>2, Division, Zenon
  <1>5. d = n * q /\ d \in Nat /\ d + r = p
    BY <1>2, <1>3, <1>4, SMT
  <1>6. d % n = 0 /\ d \div n = q
    BY <1>2, <1>5, Multiple, Zenon DEF n
  <1>7. CASE r < m
    <2>1. p = m * (2 * q) + r /\ 2 * q \in Nat
      BY <1>1, <1>4, SMT
    <2>2. p % m = r
      <3>1. \A z \in Nat : (m * z + r) % m = r
        BY <1>1, <1>4, <1>7, Quotient, Zenon
      <3> QED
        BY <2>1, <3>1, Zenon
    <2>3. c = d
      BY <1>3, <1>4, <2>2, SMT
    <2>4. d % m = 0
      <3>1. d = m * (2 * q)
        BY <1>1, <1>5, SMT
      <3> QED
        BY <2>1, <1>5, <3>1, Multiple, Zenon DEF m
    <2>5. d <= p /\ p \in d .. d + m - 1
      BY <1>1, <1>5, <1>7, SMT
    <2> QED
      BY <1>5, <1>6, <2>3, <2>4, <2>5, Zenon DEF m, n, c, d, Block
  <1>8. CASE m <= r
    <2>1. r - m \in Nat /\ r - m < m
      BY <1>1, <1>4, <1>8, SMT
    <2>2. p = m * (2 * q + 1) + (r - m) /\ 2 * q + 1 \in Nat
      BY <1>1, <1>4, SMT
    <2>3. p % m = r - m
      BY <1>1, <2>1, <2>2, Quotient, Zenon
    <2>4. c = d + m /\ c \in Nat /\ c <= p /\ p \in c .. c + m - 1
      <3>1. c = p - (r - m)
        BY <1>3, <2>3, Zenon
      <3>3. d \in Nat /\ d + r = p /\ r < 2 * m
        BY <1>1, <1>4, <1>5, Zenon
      <3>2. c = d + m
        BY <1>1, <3>1, <3>3, SMT
      <3> QED
        BY <1>1, <1>8, <3>2, <3>3, SMT
    <2>5. c % m = 0
      <3>1. c = m * (2 * q + 1)
        BY <1>1, <1>5, <2>4, SMT
      <3> QED
        BY <2>2, <2>4, <3>1, Multiple, Zenon DEF m
    <2>6. c % n = m /\ c \div n = q
      <3>1. m < n /\ c = n * q + m
        BY <1>1, <1>5, <2>4, SMT
      <3> QED
        BY <1>1, <1>2, <3>1, Quotient, Zenon
    <2>7. m # 0
      BY <1>1, SMT
    <2> QED
      BY <1>5, <1>6, <2>4, <2>5, <2>6, <2>7, Zenon DEF m, n, c, d, Block
  <1> QED
    BY <1>1, <1>4, <1>7, <1>8, SMT

\* The two halves of a block, and no other blocks of their order, have its number.
LEMMA SamePair ==
    ASSUME NEW k \in Nat, NEW p \in Nat, p % Pow2[k + 1] = 0, NEW c \in Nat, c % Pow2[k] = 0
    PROVE  p \div Pow2[k + 1] = c \div Pow2[k + 1] <=> c = p \/ c = p + Pow2[k]
  <1> DEFINE n == Pow2[k + 1]
             d == BlockStart(c, k + 1)
  <1>1. k + 1 \in Nat /\ Pow2[k] \in Nat /\ c - 0 = c
    BY PowType, SMT
  <1>2. BlockStart(c, k) = c
    BY <1>1, Zenon DEF BlockStart
  <1>3. /\ d \in Nat /\ d % n = 0
        /\ c % n = 0 => d = c
        /\ c % n # 0 => d + Pow2[k] = c
        /\ c \div n = d \div n
    <2> DEFINE e == BlockStart(c, k)
    <2>1. /\ d \in Nat /\ d % n = 0
          /\ e % n = 0 => d = e
          /\ e % n # 0 => d + Pow2[k] = e
          /\ e \div n = d \div n
      BY Pair, Zenon
    <2> HIDE DEF e
    <2> QED
      BY <1>2, <2>1, Zenon DEF e
  <1>4. \A x \in Nat : x % n = 0 => x = n * (x \div n)
    <2> SUFFICES ASSUME NEW x \in Nat, x % n = 0 PROVE x = n * (x \div n)
      BY Zenon
    <2>1. PICK a \in Nat : x = n * a
      BY <1>1, Multiple, Zenon
    <2>2. x \div n = a
      BY <1>1, <2>1, Multiple, Zenon
    <2> QED
      BY <2>1, <2>2, Zenon
  <1>6. (p + Pow2[k]) % n # 0
    BY Halves, Zenon
  <1>7. ASSUME p \div n = c \div n PROVE c = p \/ c = p + Pow2[k]
    <2>1. p = d
      BY <1>3, <1>4, <1>7, Zenon
    <2> QED
      BY <1>3, <2>1, Zenon
  <1>8. ASSUME c = p PROVE p \div n = c \div n
    BY <1>8, Zenon
  <1>9. ASSUME c = p + Pow2[k] PROVE p \div n = c \div n
    <2>1. d + Pow2[k] = p + Pow2[k]
      BY <1>3, <1>6, <1>9, Zenon
    <2>2. d = p
      BY <1>1, <1>3, <2>1, SMT
    <2> QED
      BY <1>3, <2>2, Zenon
  <1> QED
    BY <1>7, <1>8, <1>9, Zenon

\* Division keeps the order.
LEMMA QuotientMono ==
    ASSUME NEW a \in Nat, NEW b \in Nat, NEW m \in Nat, m > 0, a <= b
    PROVE  a \div m <= b \div m
  <1> DEFINE q == a \div m
             r == b \div m
  <1>1. q \in Nat /\ r \in Nat /\ m * q <= a /\ b < m * (r + 1)
    <2>1. q \in Nat /\ a % m \in Nat /\ a = m * q + (a % m)
      BY Division, Zenon
    <2>2. r \in Nat /\ b % m \in Nat /\ b = m * r + (b % m) /\ b % m < m
      BY Division, Zenon
    <2> HIDE DEF q, r
    <2> QED
      BY <2>1, <2>2, SMT
  <1> HIDE DEF q, r
  <1>2. ASSUME r + 1 <= q PROVE FALSE
    <2>1. m * (r + 1) <= m * q
      BY <1>1, <1>2, SMT
    <2> QED
      BY <1>1, <2>1, SMT
  <1> QED
    BY <1>1, <1>2, SMT DEF q, r

-----------------------------------------------------------------------------
(* Lists *)

\* Steps without arithmetic go to Zenon; the others name SMT.
USE ZenonT(30)

\* A list stays one when a node is unlinked.
LEMMA UnlinkSeq ==
    ASSUME NEW X, NEW s \in Seq(X), NEW i \in DOMAIN s
    PROVE  Unlinked(s, i) \in Seq(X)
  BY SMT DEF Unlinked

\* A list without one of its nodes holds the others, each once.
LEMMA Unlink ==
    ASSUME NEW X, NEW s \in Seq(X), NEW i \in DOMAIN s, IsInjective(s)
    PROVE  /\ Range(Unlinked(s, i)) = Range(s) \ {s[i]}
           /\ IsInjective(Unlinked(s, i))
  <1> DEFINE t == Unlinked(s, i)
             u(j) == IF j < i THEN j ELSE j + 1
  <1>1. DOMAIN t = 1 .. Len(s) - 1 /\ DOMAIN s = 1 .. Len(s) /\ Len(s) \in Nat
    BY SMT DEF Unlinked
  <1>2. \A j \in DOMAIN t : u(j) \in DOMAIN s /\ u(j) # i /\ t[j] = s[u(j)]
    BY SMT DEF Unlinked
  <1> HIDE DEF t
  <1>3. \A a, b \in DOMAIN t : u(a) = u(b) => a = b
    BY <1>1, SMT
  <1>4. \A k \in DOMAIN s : k # i => \E j \in DOMAIN t : u(j) = k
    <2> SUFFICES ASSUME NEW k \in DOMAIN s, k # i PROVE \E j \in DOMAIN t : u(j) = k
      OBVIOUS
    <2>1. CASE k < i
      <3>1. k \in DOMAIN t /\ u(k) = k
        BY <1>1, <2>1, SMT
      <3> QED
        BY <3>1
    <2>2. CASE ~(k < i)
      <3>1. k - 1 \in DOMAIN t /\ u(k - 1) = k
        BY <1>1, <2>2, SMT
      <3> QED
        BY <3>1
    <2> QED
      BY <2>1, <2>2
  <1> HIDE DEF u
  <1>5. IsInjective(t)
    <2> SUFFICES ASSUME NEW a \in DOMAIN t, NEW b \in DOMAIN t, t[a] = t[b] PROVE a = b
      BY DEF IsInjective
    <2>1. s[u(a)] = s[u(b)] /\ u(a) \in DOMAIN s /\ u(b) \in DOMAIN s
      BY <1>2
    <2>2. u(a) = u(b)
      BY <2>1 DEF IsInjective
    <2> QED
      BY <1>3, <2>2
  <1>6. \A x \in Range(t) : x \in Range(s) /\ x # s[i]
    <2> SUFFICES ASSUME NEW j \in DOMAIN t PROVE t[j] \in Range(s) /\ t[j] # s[i]
      BY DEF Range
    <2>1. u(j) \in DOMAIN s /\ u(j) # i /\ t[j] = s[u(j)]
      BY <1>2
    <2>2. s[u(j)] # s[i]
      BY <2>1 DEF IsInjective
    <2> QED
      BY <2>1, <2>2 DEF Range
  <1>7. \A x \in Range(s) : x # s[i] => x \in Range(t)
    <2> SUFFICES ASSUME NEW k \in DOMAIN s, k # i PROVE s[k] \in Range(t)
      BY DEF Range
    <2>1. PICK j \in DOMAIN t : t[j] = s[k]
      BY <1>2, <1>4
    <2> QED
      BY <2>1 DEF Range
  <1> QED
    BY <1>5, <1>6, <1>7 DEF t

\* A list with a new node in front holds it and the others, each once.
LEMMA PushFront ==
    ASSUME NEW X, NEW s \in Seq(X), IsInjective(s), NEW p \in X, p \notin Range(s)
    PROVE  /\ Range(<<p>> \o s) = Range(s) \cup {p}
           /\ IsInjective(<<p>> \o s)
  <1> DEFINE t == <<p>> \o s
  <1>1. DOMAIN t = 1 .. Len(s) + 1 /\ DOMAIN s = 1 .. Len(s) /\ Len(s) \in Nat
    BY SMT
  <1>2. t[1] = p /\ \A j \in DOMAIN s : j + 1 \in DOMAIN t /\ t[j + 1] = s[j]
    BY SMT
  <1>3. \A j \in DOMAIN t : j = 1 \/ \E k \in DOMAIN s : j = k + 1
    <2> SUFFICES ASSUME NEW j \in DOMAIN t, j # 1 PROVE j - 1 \in DOMAIN s /\ j = (j - 1) + 1
      BY SMT
    <2> HIDE DEF t
    <2> QED
      BY <1>1, SMT
  <1>4. 1 \in DOMAIN t
    BY <1>1, SMT
  <1> HIDE DEF t
  <1>5. ASSUME NEW j \in DOMAIN t PROVE j = 1 \/ \E k \in DOMAIN s : j = k + 1 /\ t[j] = s[k]
    BY <1>2, <1>3
  <1>6. \A x \in Range(t) : x = p \/ x \in Range(s)
    <2> SUFFICES ASSUME NEW j \in DOMAIN t, j # 1 PROVE t[j] \in Range(s)
      BY <1>2 DEF Range
    <2>1. PICK k \in DOMAIN s : t[j] = s[k]
      BY <1>5
    <2> QED
      BY <2>1 DEF Range
  <1>7. p \in Range(t) /\ \A x \in Range(s) : x \in Range(t)
    <2>1. p \in Range(t)
      BY <1>2, <1>4 DEF Range
    <2>2. ASSUME NEW k \in DOMAIN s PROVE s[k] \in Range(t)
      <3>1. k + 1 \in DOMAIN t /\ t[k + 1] = s[k]
        BY <1>2
      <3> QED
        BY <3>1 DEF Range
    <2> QED
      BY <2>1, <2>2 DEF Range
  <1>8. IsInjective(t)
    <2>1. \A k \in DOMAIN s : s[k] # p
      BY DEF Range
    <2>2. \A k, l \in DOMAIN s : s[k] = s[l] => k = l
      BY DEF IsInjective
    <2>3. ASSUME NEW a \in DOMAIN t, NEW b \in DOMAIN t, t[a] = t[b] PROVE a = b
      <3>1. CASE a = 1
        BY <1>2, <1>5, <2>1, <2>3, <3>1
      <3>2. CASE b = 1
        BY <1>2, <1>5, <2>1, <2>3, <3>2
      <3>3. CASE a # 1 /\ b # 1
        BY <1>5, <2>2, <2>3, <3>3
      <3> QED
        BY <3>1, <3>2, <3>3
    <2> QED
      BY <2>3 DEF IsInjective
  <1> QED
    BY <1>6, <1>7, <1>8 DEF t

=============================================================================
