---------------------------- MODULE BuddyProofs ----------------------------
(***************************************************************************)
(* Theorems about the buddy allocator, for a heap of any number of levels. *)
(* A bit of the tree is 0 if and only if somebody holds the block or a     *)
(* part of it; no two blocks that are held overlap; and buddy_alloc finds  *)
(* a block when there is one.                                              *)
(***************************************************************************)
EXTENDS Buddy, FiniteSetTheorems, WellFoundedInduction, TLAPS

-----------------------------------------------------------------------------
(***************************************************************************)
(* Numbers: least and greatest elements, powers of two.                    *)
(***************************************************************************)

(* A set of numbers that is not empty has a least one. *)
LEMMA Least ==
    ASSUME NEW M \in SUBSET Nat, M # {}
    PROVE  \E m \in M : \A k \in M : m <= k
<1>1. IsWellFoundedOn(OpToRel(<, Nat), Nat)
  BY NatLessThanWellFounded
<1>2. PICK m \in M : \A k \in M : <<k, m>> \notin OpToRel(<, Nat)
  BY <1>1, WFMin
<1>3. \A k \in M : ~(k < m)
  BY <1>2 DEF OpToRel
<1> QED
  BY <1>3

(* The greatest element of a set of numbers with a bound. *)
LEMMA MaxOf ==
    ASSUME NEW n \in Nat, NEW M \in SUBSET (0..n), M # {}
    PROVE  Max(M) \in M /\ \A k \in M : k <= Max(M)
<1>1. {n - k : k \in M} \in SUBSET Nat /\ {n - k : k \in M} # {}
  <2>1. \A k \in M : n - k \in Nat
    OBVIOUS
  <2>2. PICK k : k \in M
    OBVIOUS
  <2>3. n - k \in {n - j : j \in M}
    BY <2>2
  <2> QED
    BY <2>1, <2>3
<1>2. PICK m \in {n - k : k \in M} : \A k \in {n - j : j \in M} : m <= k
  BY <1>1, Least
<1>3. PICK j \in M : m = n - j
  BY <1>2
<1>4. \A k \in M : n - j <= n - k
  BY <1>2, <1>3
<1>5. \A k \in M : j >= k
  BY <1>4
<1>6. Max(M) \in M /\ \A k \in M : Max(M) >= k
  BY <1>5 DEF Max
<1> QED
  BY <1>6

(* The powers of two, under a name. *)
Power(n) == 2 ^ n

(* The first power. *)
LEMMA PowerZero == Power(0) = 1
  BY DEF Power

(* A set has twice as many subsets when it gets another element. *)
LEMMA PowerNext ==
    ASSUME NEW n \in Nat
    PROVE  Power(n) \in Nat /\ Power(n + 1) = 2 * Power(n)
<1> DEFINE A == SUBSET (1..n)
           B == {a \union {n + 1} : a \in A}
<1>1. IsFiniteSet(1..n) /\ Cardinality(1..n) = n
  BY FS_Interval
<1>2. IsFiniteSet(1..n + 1) /\ Cardinality(1..n + 1) = n + 1
  BY FS_Interval
<1>3. IsFiniteSet(A) /\ Cardinality(A) = Power(n)
  BY <1>1, FS_SUBSET DEF Power
<1>4. Cardinality(SUBSET (1..n + 1)) = Power(n + 1)
  BY <1>2, FS_SUBSET DEF Power
<1>5. Cardinality(A) \in Nat
  BY <1>3, FS_CardinalityType
<1>a. \A a \in A : n + 1 \notin a
  OBVIOUS
<1>6. IsFiniteSet(B) /\ Cardinality(B) = Cardinality(A)
  <2>2. [a \in A |-> a \union {n + 1}] \in Bijection(A, B)
    <3>1. PICK f : f = [a \in A |-> a \union {n + 1}]
      OBVIOUS
    <3>2. f \in [A -> B] /\ DOMAIN f = A
      BY <3>1
    <3>3. \A a, b \in A : f[a] = f[b] => a = b
      <4> SUFFICES ASSUME NEW a \in A, NEW b \in A, a \union {n + 1} = b \union {n + 1}
                   PROVE  a = b
        BY <3>1
      <4> QED
        BY <1>a
    <3>4. \A y \in B : \E a \in A : f[a] = y
      BY <3>1
    <3>5. f \in Injection(A, B)
      BY <3>2, <3>3 DEF Injection, IsInjective
    <3>6. f \in Surjection(A, B)
      BY <3>2, <3>4 DEF Surjection
    <3> QED
      BY <3>1, <3>5, <3>6 DEF Bijection
  <2> QED
    BY <1>3, <2>2, FS_Bijection DEF ExistsBijection
<1>7. SUBSET (1..n + 1) = A \union B
  <2>1. \A a \in SUBSET (1..n + 1) : n + 1 \notin a => a \in A
    OBVIOUS
  <2>2. \A a \in SUBSET (1..n + 1) : n + 1 \in a => a \in B
    <3> SUFFICES ASSUME NEW a \in SUBSET (1..n + 1), n + 1 \in a
                 PROVE  a \in B
      OBVIOUS
    <3>1. a \ {n + 1} \in A /\ a = (a \ {n + 1}) \union {n + 1}
      OBVIOUS
    <3> QED
      BY <3>1
  <2>3. 1..n \subseteq 1..n + 1 /\ n + 1 \in 1..n + 1
    OBVIOUS
  <2>4. \A a \in A : a \subseteq 1..n + 1 /\ a \union {n + 1} \subseteq 1..n + 1
    BY <2>3
  <2>5. A \union B \subseteq SUBSET (1..n + 1)
    BY <2>4
  <2> QED
    BY <2>1, <2>2, <2>5
<1>8. A \cap B = {}
  BY <1>a
<1> HIDE DEF A, B
<1>9. Cardinality(A \union B) = Cardinality(A) + Cardinality(B) - Cardinality(A \cap B)
  BY <1>3, <1>6, FS_Union
<1>10. Cardinality(A \union B) = 2 * Cardinality(A)
  <2>1. Cardinality(A \cap B) = 0
    BY <1>8, FS_EmptySet
  <2>2. \A x, y \in Nat : x = y => x + y - 0 = 2 * x
    OBVIOUS
  <2> QED
    BY <1>5, <1>6, <1>9, <2>1, <2>2
<1> QED
  BY <1>3, <1>4, <1>5, <1>7, <1>10

(* A power of two is a number that is not 0. *)
LEMMA PowerPositive ==
    ASSUME NEW n \in Nat
    PROVE  Power(n) \in Nat \ {0}
<1> SUFFICES ASSUME Power(n) \notin Nat \ {0} PROVE FALSE
  OBVIOUS
<1> DEFINE M == {m \in Nat : Power(m) \notin Nat \ {0}}
<1>1. PICK m \in M : \A k \in M : m <= k
  BY Least
<1>2. m # 0
  BY <1>1, PowerZero
<1>3. m - 1 \in Nat /\ m - 1 \notin M /\ (m - 1) + 1 = m
  BY <1>1, <1>2
<1>4. Power(m - 1) \in Nat \ {0}
  BY <1>3
<1>5. Power(m) = 2 * Power(m - 1)
  BY <1>3, PowerNext
<1> QED
  BY <1>1, <1>4, <1>5

(* Powers multiply when their exponents are added. *)
LEMMA PowerSum ==
    ASSUME NEW a \in Nat, NEW b \in Nat
    PROVE  Power(a + b) = Power(a) * Power(b)
<1> SUFFICES ASSUME Power(a + b) # Power(a) * Power(b) PROVE FALSE
  OBVIOUS
<1> DEFINE M == {m \in Nat : Power(a + m) # Power(a) * Power(m)}
<1>1. PICK m \in M : \A k \in M : m <= k
  BY Least
<1>2. Power(a) \in Nat
  BY PowerPositive
<1>3. m # 0
  BY <1>1, <1>2, PowerZero
<1>4. PICK k \in Nat : m = k + 1 /\ k \notin M
  <2>1. m - 1 \in Nat /\ m = (m - 1) + 1 /\ m - 1 \notin M
    BY <1>1, <1>3
  <2> QED
    BY <2>1
<1>5. Power(a + k) = Power(a) * Power(k)
  BY <1>4
<1>6. Power(k + 1) = 2 * Power(k) /\ Power(k) \in Nat
  BY <1>4, PowerNext
<1>7. Power((a + k) + 1) = 2 * Power(a + k) /\ a + (k + 1) = (a + k) + 1
  BY <1>4, PowerNext
<1>8. \A x, y \in Nat : 2 * (x * y) = x * (2 * y)
  OBVIOUS
<1>9. Power(a + m) = Power(a) * Power(m)
  BY <1>2, <1>4, <1>5, <1>6, <1>7, <1>8
<1> QED
  BY <1>1, <1>9

(* Division. *)
LEMMA Division ==
    ASSUME NEW x \in Nat, NEW s \in Nat \ {0}
    PROVE  /\ x \div s \in Nat /\ x % s \in 0..s - 1
           /\ x = s * (x \div s) + (x % s)
<1>1. x \div s \in Nat
  OBVIOUS
<1>2. x % s \in 0..s - 1
  OBVIOUS
<1>3. x = s * (x \div s) + (x % s)
  OBVIOUS
<1> QED
  BY <1>1, <1>2, <1>3

(* A quotient is what is left when the rest is put aside. *)
LEMMA Quotient ==
    ASSUME NEW s \in Nat \ {0}, NEW q \in Nat, NEW r \in 0..s - 1
    PROVE  (s * q + r) \div s = q
<1> DEFINE x == s * q + r
           d == x \div s
           e == x % s
<1>1. x \in Nat
  OBVIOUS
<1>2. d \in Nat /\ e \in 0..s - 1 /\ x = s * d + e
  BY <1>1, Division
<1>3. s * q + r = s * d + e
  BY <1>2
<1> HIDE DEF d, e, x
<1>4. CASE d < q
  <2>1. PICK k \in Nat \ {0} : q = d + k
    <3>1. q - d \in Nat \ {0} /\ q = d + (q - d)
      BY <1>2, <1>4
    <3> QED
      BY <3>1
  <2>2. s * q = s * d + s * k /\ s * k >= s
    BY <1>2, <2>1
  <2>3. s * d \in Nat /\ s * k \in Nat
    BY <1>2, <2>1
  <2> QED
    BY <1>2, <1>3, <2>2, <2>3
<1>5. CASE q < d
  <2>1. PICK k \in Nat \ {0} : d = q + k
    <3>1. d - q \in Nat \ {0} /\ d = q + (d - q)
      BY <1>2, <1>5
    <3> QED
      BY <3>1
  <2>2. s * d = s * q + s * k /\ s * k >= s
    BY <1>2, <2>1
  <2>3. s * q \in Nat /\ s * k \in Nat
    BY <1>2, <2>1
  <2> QED
    BY <1>2, <1>3, <2>2, <2>3
<1> QED
  BY <1>2, <1>4, <1>5 DEF d, x

(* Half of a quotient is the quotient by twice as much. *)
LEMMA Halved ==
    ASSUME NEW x \in Nat, NEW s \in Nat \ {0}
    PROVE  x \div (2 * s) = (x \div s) \div 2
<1>1. PICK q \in Nat, r \in 0..s - 1 : q = x \div s /\ x = s * q + r
  BY Division
<1>2. PICK h \in Nat, e \in 0..1 : h = q \div 2 /\ q = 2 * h + e
  BY <1>1
<1>3. s * q = (2 * s) * h + s * e
  BY <1>2
<1>4. s * e + r \in 0..2 * s - 1
  <2>1. CASE e = 0
    BY <2>1
  <2>2. CASE e = 1
    BY <2>2
  <2> QED
    BY <1>2, <2>1, <2>2
<1>5. x = (2 * s) * h + (s * e + r)
  <2>1. (2 * s) * h \in Nat /\ s * e \in Nat
    BY <1>2
  <2> QED
    BY <1>1, <1>3, <2>1
<1>6. x \div (2 * s) = h
  BY <1>4, <1>5, Quotient
<1> QED
  BY <1>1, <1>2, <1>6

-----------------------------------------------------------------------------
(***************************************************************************)
(* Blocks: sizes, indices, the way up.                                     *)
(***************************************************************************)

Level == 0..Levels - 1

(* The index of the buddy of a block. *)
Sibling(i) == IF i % 2 = 1 THEN i - 1 ELSE i + 1

(* A level is a number, and its blocks have 16 bytes or more. *)
LEMMA LevelFacts ==
    ASSUME NEW l \in Level
    PROVE  /\ l \in Nat /\ l < Levels /\ Levels \in Nat /\ MaxPower \in Nat
           /\ MaxPower - l \in Nat /\ MaxPower - l >= 4
  BY BuddyAssumption DEF Level, MaxPower

(* The blocks of a level fill the heap. *)
LEMMA SizeFacts ==
    ASSUME NEW l \in Level
    PROVE  /\ BlockSize(l) \in Nat \ {0} /\ Power(l) \in Nat \ {0}
           /\ Indices(l) = 0..Power(l) - 1
           /\ HeapSize = BlockSize(l) * Power(l) /\ HeapSize \in Nat \ {0}
<1>1. BlockSize(l) = Power(MaxPower - l) /\ Indices(l) = 0..Power(l) - 1 /\ HeapSize = Power(MaxPower)
  BY DEF BlockSize, Indices, HeapSize, Power
<1>2. BlockSize(l) \in Nat \ {0} /\ Power(l) \in Nat \ {0} /\ HeapSize \in Nat \ {0}
  BY <1>1, LevelFacts, PowerPositive
<1>3. Power((MaxPower - l) + l) = Power(MaxPower - l) * Power(l)
  BY LevelFacts, PowerSum
<1>4. (MaxPower - l) + l = MaxPower
  BY LevelFacts
<1> QED
  BY <1>1, <1>2, <1>3, <1>4

(* A block is two blocks of the next level. *)
LEMMA Doubled ==
    ASSUME NEW l \in Level, l # 0
    PROVE  /\ l - 1 \in Level /\ BlockSize(l - 1) = 2 * BlockSize(l)
           /\ Power(l) = 2 * Power(l - 1)
<1>1. BlockSize(l) = Power(MaxPower - l) /\ BlockSize(l - 1) = Power(MaxPower - (l - 1))
  BY DEF BlockSize, Power
<1>2. MaxPower - (l - 1) = (MaxPower - l) + 1 /\ l - 1 \in Nat /\ l - 1 \in Level /\ (l - 1) + 1 = l
  BY LevelFacts DEF Level
<1>3. Power((MaxPower - l) + 1) = 2 * Power(MaxPower - l)
  BY LevelFacts, PowerNext
<1>4. Power((l - 1) + 1) = 2 * Power(l - 1)
  BY <1>2, PowerNext
<1> QED
  BY <1>1, <1>2, <1>3, <1>4

(* The block of a level that holds an address, and the one around it. *)
LEMMA IndexFacts ==
    ASSUME NEW l \in Level, NEW p \in Nat
    PROVE  /\ Index(l, p) \in Nat
           /\ BlockSize(l) * Index(l, p) <= p /\ p < BlockSize(l) * Index(l, p) + BlockSize(l)
           /\ l # 0 => Index(l - 1, p) = Index(l, p) \div 2
           /\ p < HeapSize => Index(l, p) \in Indices(l)
<1>1. PICK s, i : s = BlockSize(l) /\ i = Index(l, p)
  OBVIOUS
<1>2. s \in Nat \ {0} /\ i = p \div s
  BY <1>1, SizeFacts DEF Index
<1>3. i \in Nat /\ s * i <= p /\ p < s * i + s
  <2>1. i \in Nat /\ p % s \in 0..s - 1 /\ p = s * i + (p % s)
    BY <1>2, Division
  <2>2. s * i \in Nat
    BY <1>2, <2>1
  <2> QED
    BY <1>2, <2>1, <2>2
<1>4. ASSUME l # 0 PROVE Index(l - 1, p) = Index(l, p) \div 2
  <2>1. BlockSize(l - 1) = 2 * s
    BY <1>1, <1>4, Doubled
  <2>2. p \div (2 * s) = (p \div s) \div 2
    BY <1>2, Halved
  <2> QED
    BY <1>1, <1>2, <2>1, <2>2 DEF Index
<1>5. ASSUME p < HeapSize PROVE i \in Indices(l)
  <2>1. PICK n \in Nat \ {0} : n = Power(l) /\ HeapSize = s * n /\ Indices(l) = 0..n - 1
    BY <1>1, SizeFacts
  <2>2. s * i < s * n
    BY <1>2, <1>3, <1>5, <2>1
  <2>3. i < n
    <3> SUFFICES ASSUME i >= n PROVE FALSE
      BY <1>3, <2>1
    <3>1. s * i >= s * n
      BY <1>2, <1>3, <2>1
    <3> QED
      BY <1>2, <1>3, <2>1, <2>2, <3>1
  <2> QED
    BY <1>3, <2>1, <2>3
<1> QED
  BY <1>1, <1>3, <1>4, <1>5

(* The blocks around two addresses of one block are the same. *)
LEMMA Above ==
    ASSUME NEW l \in Level, NEW k \in 0..l, NEW p \in Nat, NEW q \in Nat,
           Index(l, p) = Index(l, q)
    PROVE  Index(k, p) = Index(k, q)
<1> SUFFICES ASSUME Index(k, p) # Index(k, q) PROVE FALSE
  OBVIOUS
<1> DEFINE M == {m \in Nat : m <= l /\ Index(l - m, p) # Index(l - m, q)}
<1>1. l \in Nat /\ l - k \in Nat /\ l - (l - k) = k
  BY LevelFacts
<1>2. l - k \in M
  BY <1>1
<1>3. PICK m \in M : \A j \in M : m <= j
  BY <1>2, Least
<1>4. m # 0
  BY <1>1, <1>3
<1>5. m - 1 \in Nat /\ m - 1 \notin M /\ m - 1 <= l
  BY <1>1, <1>3, <1>4
<1>6. PICK n : n = l - (m - 1)
  OBVIOUS
<1>7. n \in Level /\ n # 0 /\ n - 1 = l - m
  BY <1>1, <1>3, <1>5, <1>6, LevelFacts DEF Level
<1>8. Index(n, p) = Index(n, q)
  BY <1>5, <1>6
<1>9. Index(n - 1, p) = Index(n - 1, q)
  BY <1>7, <1>8, IndexFacts
<1> QED
  BY <1>3, <1>7, <1>9

(* Where the ways to two addresses part, they go to two buddies. *)
LEMMA Parting ==
    ASSUME NEW k \in Level, NEW l \in Level, NEW p \in Nat, NEW q \in Nat,
           Index(k, p) = Index(k, q), Index(l, p) # Index(l, q)
    PROVE  \E m \in k + 1..l : /\ Index(m, q) = Sibling(Index(m, p))
                               /\ Index(m, q) # Index(m, p)
                               /\ Index(m - 1, p) = Index(m - 1, q)
<1> DEFINE M == {m \in Nat : m <= l /\ Index(m, p) # Index(m, q)}
<1>1. l \in Nat /\ k \in Nat /\ l \in M
  BY LevelFacts
<1>2. PICK m \in M : \A j \in M : m <= j
  BY <1>1, Least
<1>3. m > k
  <2> SUFFICES ASSUME ~(m > k) PROVE FALSE
    OBVIOUS
  <2>1. m \in 0..k
    BY <1>1, <1>2
  <2> QED
    BY <1>2, <2>1, Above
<1>4. m \in Level /\ m # 0 /\ m - 1 \in Nat /\ m - 1 <= l /\ m - 1 \notin M
  BY <1>1, <1>2, <1>3, LevelFacts DEF Level
<1>5. Index(m - 1, p) = Index(m - 1, q)
  BY <1>4
<1>6. PICK i, j \in Nat : i = Index(m, p) /\ j = Index(m, q) /\ i \div 2 = j \div 2 /\ i # j
  <2>1. Index(m, p) \in Nat /\ Index(m, q) \in Nat /\ Index(m, p) \div 2 = Index(m, q) \div 2
    BY <1>4, <1>5, IndexFacts
  <2> QED
    BY <1>2, <2>1
<1>7. j = Sibling(i)
  BY <1>6 DEF Sibling
<1>8. m \in k + 1..l
  BY <1>1, <1>2, <1>3
<1> QED
  BY <1>5, <1>6, <1>7, <1>8

-----------------------------------------------------------------------------
(***************************************************************************)
(* The bits: each block has one of its own, next to that of its buddy.     *)
(***************************************************************************)

(* A larger exponent gives a larger power. *)
LEMMA PowerGrows ==
    ASSUME NEW a \in Nat, NEW b \in Nat, a <= b
    PROVE  Power(a) <= Power(b)
<1>1. PICK k \in Nat : b = a + k
  <2>1. b - a \in Nat /\ b = a + (b - a)
    OBVIOUS
  <2> QED
    BY <2>1
<1>2. PICK x, y \in Nat \ {0} : x = Power(a) /\ y = Power(k)
  BY <1>1, PowerPositive
<1>3. Power(b) = x * y
  BY <1>1, <1>2, PowerSum
<1>4. x * y >= x
  BY <1>2
<1> QED
  BY <1>2, <1>3, <1>4

(* The powers that number the blocks of the first word. *)
LEMMA SmallPowers ==
    /\ Power(1) = 2 /\ Power(2) = 4 /\ Power(3) = 8 /\ Power(4) = 16 /\ Power(5) = 32
  BY DEF Power

(* The bit of one of the 31 blocks of the first word. *)
LEMMA FirstWord ==
    ASSUME NEW l \in Level, l < 5, NEW i \in Indices(l)
    PROVE  \/ l = 0 /\ i = 0 /\ Bit(l, i) = <<0, 30>>
           \/ l = 1 /\ i \in 0..1 /\ Bit(l, i) = <<0, i + 28>>
           \/ l = 2 /\ i \in 0..3 /\ Bit(l, i) = <<0, i + 24>>
           \/ l = 3 /\ i \in 0..7 /\ Bit(l, i) = <<0, i + 16>>
           \/ l = 4 /\ i \in 0..15 /\ Bit(l, i) = <<0, i>>
<1>1. l \in 0..4 /\ i \in 0..Power(l) - 1
  <2>1. l \in Nat
    BY LevelFacts
  <2>2. Indices(l) = 0..Power(l) - 1
    BY SizeFacts
  <2> QED
    BY <2>1, <2>2
<1>2. Bit(l, i) = <<0, i + 32 - Power(l + 1)>>
  BY DEF Bit, Power
<1>3. CASE l = 0
  BY <1>1, <1>2, <1>3, PowerZero, SmallPowers
<1>4. CASE l = 1
  <2>1. l + 1 = 2
    BY <1>4
  <2> QED
    BY <1>1, <1>2, <1>4, <2>1, SmallPowers
<1>5. CASE l = 2
  <2>1. l + 1 = 3
    BY <1>5
  <2> QED
    BY <1>1, <1>2, <1>5, <2>1, SmallPowers
<1>6. CASE l = 3
  <2>1. l + 1 = 4
    BY <1>6
  <2> QED
    BY <1>1, <1>2, <1>6, <2>1, SmallPowers
<1>7. CASE l = 4
  <2>1. l + 1 = 5
    BY <1>7
  <2> QED
    BY <1>1, <1>2, <1>7, <2>1, SmallPowers
<1> QED
  BY <1>1, <1>3, <1>4, <1>5, <1>6, <1>7

(* The bit of one of the blocks below: the words of a level follow those   *)
(* of the level above.                                                     *)
LEMMA OwnWords ==
    ASSUME NEW l \in Level, l >= 5, NEW i \in Indices(l)
    PROVE  /\ i \in Nat /\ Bit(l, i) = <<Power(l - 5) + (i \div 32), i % 32>>
           /\ Power(l - 5) \in Nat \ {0}
           /\ Power(l - 5) + (i \div 32) < Power((l - 5) + 1)
<1>1. l - 5 \in Nat /\ (l - 5) + 5 = l
  BY LevelFacts
<1>2. PICK n \in Nat \ {0} : n = Power(l - 5)
  BY <1>1, PowerPositive
<1>3. Power(l) = n * 32 /\ Power((l - 5) + 1) = 2 * n
  <2>1. Power((l - 5) + 5) = Power(l - 5) * Power(5)
    BY <1>1, PowerSum
  <2>2. Power((l - 5) + 1) = 2 * Power(l - 5)
    BY <1>1, PowerNext
  <2> QED
    BY <1>1, <1>2, <2>1, <2>2, SmallPowers
<1>4. i \in 0..n * 32 - 1
  BY <1>3, SizeFacts
<1>5. i \div 32 < n
  BY <1>4
<1>6. Bit(l, i) = <<Power(l - 5) + (i \div 32), i % 32>>
  BY LevelFacts DEF Bit, Power
<1> QED
  BY <1>2, <1>3, <1>4, <1>5, <1>6

(* Two blocks have two bits. *)
LEMMA BitInjective ==
    ASSUME NEW l \in Level, NEW i \in Indices(l), NEW m \in Level, NEW j \in Indices(m),
           Bit(l, i) = Bit(m, j)
    PROVE  l = m /\ i = j
<1>0. l \in Nat /\ m \in Nat
  BY LevelFacts
<1>1. CASE l < 5 /\ m < 5
  BY <1>1, FirstWord
<1>2. CASE l >= 5 /\ m >= 5
  <2>1. PICK a, b \in Nat : a = l - 5 /\ b = m - 5
    BY <1>0, <1>2
  <2>2. PICK x, y, v, w \in Nat : x = Power(a) /\ y = Power(b) /\ v = Power(a + 1) /\ w = Power(b + 1)
    BY <2>1, PowerPositive
  <2>3. /\ i \in Nat /\ j \in Nat /\ x + (i \div 32) = y + (j \div 32) /\ i % 32 = j % 32
        /\ x + (i \div 32) < v /\ y + (j \div 32) < w
    BY <1>2, <2>1, <2>2, OwnWords
  <2>4. ~(a < b)
    <3> SUFFICES ASSUME a < b PROVE FALSE
      OBVIOUS
    <3>1. v <= y
      BY <2>1, <2>2, PowerGrows
    <3> QED
      BY <2>2, <2>3, <3>1
  <2>5. ~(b < a)
    <3> SUFFICES ASSUME b < a PROVE FALSE
      OBVIOUS
    <3>1. w <= x
      BY <2>1, <2>2, PowerGrows
    <3> QED
      BY <2>2, <2>3, <3>1
  <2>6. a = b
    BY <2>1, <2>4, <2>5
  <2>7. i \div 32 = j \div 32
    BY <2>2, <2>3, <2>6
  <2> QED
    BY <1>0, <2>1, <2>3, <2>6, <2>7
<1>3. CASE l < 5 /\ m >= 5
  BY <1>3, FirstWord, OwnWords
<1>4. CASE l >= 5 /\ m < 5
  BY <1>4, FirstWord, OwnWords
<1> QED
  BY <1>0, <1>1, <1>2, <1>3, <1>4

(* The unused bit is no block's. *)
LEMMA BitUsed ==
    ASSUME NEW l \in Level, NEW i \in Indices(l)
    PROVE  Bit(l, i) \notin AllFree
<1>0. l \in Nat
  BY LevelFacts
<1>1. CASE l < 5
  BY <1>1, FirstWord DEF AllFree
<1>2. CASE l >= 5
  BY <1>2, OwnWords DEF AllFree
<1> QED
  BY <1>0, <1>1, <1>2

(* Next to the bit of a block is that of its buddy, next to the root the   *)
(* unused one.                                                             *)
LEMMA BuddyOf ==
    ASSUME NEW l \in Level, NEW i \in Indices(l)
    PROVE  /\ l = 0 => BuddyBit(l, i) \in AllFree /\ i = 0
           /\ l # 0 => Sibling(i) \in Indices(l) /\ BuddyBit(l, i) = Bit(l, Sibling(i))
<1>0. l \in Nat
  BY LevelFacts
<1>1. CASE l = 0
  <2>1. Bit(l, i) = <<0, 30>> /\ i = 0
    BY <1>1, FirstWord
  <2> QED
    BY <1>1, <2>1 DEF BuddyBit, AllFree
<1>2. CASE l # 0
  <2>1. Sibling(i) \in Indices(l)
    <3>1. Indices(l) = 0..Power(l) - 1 /\ Power(l) = 2 * Power(l - 1) /\ Power(l - 1) \in Nat
      BY <1>2, SizeFacts, Doubled
    <3> QED
      BY <3>1 DEF Sibling
  <2>2. CASE l < 5
    <3>1. PICK b \in Nat : /\ b % 2 = 0 /\ i \in Nat
                           /\ Bit(l, i) = <<0, i + b>> /\ Bit(l, Sibling(i)) = <<0, Sibling(i) + b>>
      <4>1. CASE l = 1
        BY <1>2, <2>1, <2>2, <4>1, FirstWord
      <4>2. CASE l = 2
        BY <1>2, <2>1, <2>2, <4>2, FirstWord
      <4>3. CASE l = 3
        BY <1>2, <2>1, <2>2, <4>3, FirstWord
      <4>4. CASE l = 4
        <5>1. i \in Nat /\ Bit(l, i) = <<0, i + 0>> /\ Bit(l, Sibling(i)) = <<0, Sibling(i) + 0>>
          BY <1>2, <2>1, <2>2, <4>4, FirstWord
        <5> QED
          BY <5>1
      <4> QED
        BY <1>0, <1>2, <2>2, <4>1, <4>2, <4>3, <4>4
    <3> QED
      BY <1>2, <2>1, <3>1 DEF BuddyBit, Sibling
  <2>3. CASE l >= 5
    <3>1. PICK n \in Nat : /\ i \in Nat /\ Sibling(i) \in Nat /\ n = Power(l - 5)
                           /\ Bit(l, i) = <<n + (i \div 32), i % 32>>
                           /\ Bit(l, Sibling(i)) = <<n + (Sibling(i) \div 32), Sibling(i) % 32>>
      BY <2>1, <2>3, OwnWords
    <3>2. CASE i % 2 = 0
      <4>1. /\ Sibling(i) = i + 1 /\ (i + 1) \div 32 = i \div 32 /\ (i % 32) % 2 = 0
            /\ (i + 1) % 32 = (i % 32) + 1
        BY <3>1, <3>2 DEF Sibling
      <4> QED
        BY <1>2, <2>1, <3>1, <4>1 DEF BuddyBit
    <3>3. CASE i % 2 = 1
      <4>1. /\ Sibling(i) = i - 1 /\ (i - 1) \div 32 = i \div 32 /\ (i % 32) % 2 = 1
            /\ (i - 1) % 32 = (i % 32) - 1
        BY <3>1, <3>3 DEF Sibling
      <4> QED
        BY <1>2, <2>1, <3>1, <4>1 DEF BuddyBit
    <3> QED
      BY <3>1, <3>2, <3>3
  <2> QED
    BY <1>0, <2>2, <2>3
<1> QED
  BY <1>1, <1>2

-----------------------------------------------------------------------------
(***************************************************************************)
(* The level for a size.                                                   *)
(***************************************************************************)

(* next_power_of_2 is a power that is as large as the size, and no larger  *)
(* than the heap.                                                          *)
LEMMA NextPowerFacts ==
    ASSUME NEW size \in 1..HeapSize
    PROVE  /\ NextPower(size) \in 0..MaxPower
           /\ Power(NextPower(size)) >= size
<1>0. MaxPower \in 0..31 /\ HeapSize = Power(MaxPower) /\ size \in Nat
  <2>1. 0 \in Level
    BY BuddyAssumption DEF Level
  <2> QED
    BY <2>1, BuddyAssumption, SizeFacts DEF MaxPower, HeapSize, Power
<1> DEFINE M == {p \in Nat : Power(p) >= size}
<1>1. MaxPower \in M
  BY <1>0
<1>2. PICK m \in M : \A k \in M : m <= k
  BY <1>1, Least
<1>3. m \in 0..31
  BY <1>0, <1>1, <1>2
<1>4. m = 0 \/ Power(m - 1) < size
  <2> SUFFICES ASSUME m # 0 PROVE Power(m - 1) < size
    OBVIOUS
  <2>1. m - 1 \in Nat /\ m - 1 \notin M
    BY <1>2
  <2>2. Power(m - 1) \in Nat
    BY <2>1, PowerPositive
  <2> QED
    BY <1>0, <2>1, <2>2
<1> DEFINE Fits(p) == Power(p) >= size /\ (p = 0 \/ Power(p - 1) < size)
<1>5. NextPower(size) = CHOOSE p \in 0..31 : Fits(p)
  BY DEF NextPower, Power
<1>6. Fits(m)
  BY <1>2, <1>4
<1> HIDE DEF Fits
<1>7. PICK n : n = NextPower(size) /\ n \in 0..31 /\ Fits(n)
  BY <1>3, <1>5, <1>6
<1>8. Power(n) >= size /\ (n = 0 \/ Power(n - 1) < size)
  BY <1>7 DEF Fits
<1>9. n <= MaxPower
  <2> SUFFICES ASSUME n > MaxPower PROVE FALSE
    BY <1>0, <1>7
  <2>1. n - 1 \in Nat /\ MaxPower <= n - 1
    BY <1>0, <1>7
  <2>2. Power(MaxPower) <= Power(n - 1) /\ Power(n - 1) \in Nat /\ Power(MaxPower) \in Nat
    BY <1>0, <2>1, PowerGrows, PowerPositive
  <2> QED
    BY <1>0, <1>7, <1>8, <2>1, <2>2
<1> QED
  BY <1>0, <1>7, <1>8, <1>9

(* The smaller of two numbers. *)
LEMMA MinOfTwo ==
    ASSUME NEW a \in Int, NEW b \in Int
    PROVE  Min({a, b}) = IF a <= b THEN a ELSE b
<1>1. CASE a <= b
  <2>1. a \in {a, b} /\ \A y \in {a, b} : a <= y
    BY <1>1
  <2>2. \A x \in {a, b} : (\A y \in {a, b} : x <= y) => x = a
    BY <1>1
  <2> QED
    BY <1>1, <2>1, <2>2 DEF Min
<1>2. CASE b < a
  <2>1. b \in {a, b} /\ \A y \in {a, b} : b <= y
    BY <1>2
  <2>2. \A x \in {a, b} : (\A y \in {a, b} : x <= y) => x = b
    BY <1>2
  <2> QED
    BY <1>2, <2>1, <2>2 DEF Min
<1> QED
  BY <1>1, <1>2

(* The blocks of that level are large enough. *)
LEMMA LevelOfFacts ==
    ASSUME NEW size \in 1..HeapSize
    PROVE  LevelOf(size) \in Level /\ size <= BlockSize(LevelOf(size))
<1>1. PICK n \in 0..MaxPower : n = NextPower(size) /\ Power(n) >= size
  BY NextPowerFacts
<1>2. MaxPower \in Nat /\ MaxPower = Levels + 3 /\ Levels \in Nat /\ Levels >= 5
  BY BuddyAssumption DEF MaxPower
<1>3. PICK l : l = LevelOf(size)
  OBVIOUS
<1>4. l = IF MaxPower - n <= Levels - 1 THEN MaxPower - n ELSE Levels - 1
  BY <1>1, <1>2, <1>3, MinOfTwo DEF LevelOf
<1>5. l \in Level /\ MaxPower - l \in Nat /\ n <= MaxPower - l
  BY <1>1, <1>2, <1>4 DEF Level
<1>6. BlockSize(l) = Power(MaxPower - l)
  BY DEF BlockSize, Power
<1>7. Power(n) <= Power(MaxPower - l) /\ Power(n) \in Nat /\ Power(MaxPower - l) \in Nat
  BY <1>1, <1>2, <1>5, PowerGrows, PowerPositive
<1>8. size \in Nat
  <2>1. 0 \in Level
    BY BuddyAssumption DEF Level
  <2> QED
    BY <2>1, SizeFacts
<1> QED
  BY <1>1, <1>3, <1>5, <1>6, <1>7, <1>8

-----------------------------------------------------------------------------
(***************************************************************************)
(* The invariant.  The level of a block that is held; no pointer that is   *)
(* held is inside the block of another one.                                *)
(***************************************************************************)

At(p) == LevelOf(live[p])

LiveType ==
    /\ DOMAIN live \subseteq 0..HeapSize - 1
    /\ live \in [DOMAIN live -> 1..HeapSize]

Aligned == \A p \in DOMAIN live : p % BlockSize(At(p)) = 0

Apart ==
    \A p, q \in DOMAIN live : p # q => Index(At(p), p) # Index(At(p), q)

IInv == LiveType /\ Aligned /\ Apart /\ TreeExact

(* Somebody holds the block or a part of it. *)
Covered(l, i) == \E p \in DOMAIN live : l <= At(p) /\ Index(l, p) = i

(* A pointer that is held: it is in the heap, and its block is large       *)
(* enough.                                                                 *)
LEMMA LiveFacts ==
    ASSUME LiveType, NEW p \in DOMAIN live
    PROVE  /\ p \in Nat /\ p < HeapSize /\ HeapSize \in Nat
           /\ At(p) \in Level /\ At(p) \in Nat /\ At(p) < Levels /\ Levels \in Nat
           /\ live[p] <= BlockSize(At(p))
<1>1. live[p] \in 1..HeapSize /\ p \in 0..HeapSize - 1
  BY DEF LiveType
<1>2. 0 \in Level
  BY BuddyAssumption DEF Level
<1>3. HeapSize \in Nat
  BY <1>2, SizeFacts
<1>4. At(p) \in Level /\ live[p] <= BlockSize(At(p))
  BY <1>1, LevelOfFacts DEF At
<1> QED
  BY <1>1, <1>3, <1>4, LevelFacts

(* The bit of a block is 0 when the block is covered. *)
LEMMA TreeBits ==
    ASSUME LiveType, TreeExact, NEW l \in Level, NEW i \in Indices(l)
    PROVE  Bit(l, i) \in zero <=> Covered(l, i)
<1>1. ASSUME Covered(l, i) PROVE Bit(l, i) \in zero
  <2>1. PICK p \in DOMAIN live : l <= At(p) /\ Index(l, p) = i
    BY <1>1 DEF Covered
  <2>2. l \in 0..At(p)
    BY <2>1, LiveFacts, LevelFacts
  <2> QED
    BY <2>1, <2>2 DEF TreeExact, At
<1>2. ASSUME Bit(l, i) \in zero PROVE Covered(l, i)
  <2>1. PICK p \in DOMAIN live : \E m \in 0..At(p) : Bit(l, i) = Bit(m, Index(m, p))
    BY <1>2, BitUsed DEF TreeExact, At
  <2>a. PICK m \in 0..At(p) : Bit(l, i) = Bit(m, Index(m, p))
    BY <2>1
  <2>2. /\ p \in Nat /\ p < HeapSize /\ At(p) \in Level
        /\ At(p) \in Nat /\ At(p) < Levels /\ Levels \in Nat
    BY LiveFacts
  <2>3. m \in Level /\ m <= At(p)
    BY <2>2 DEF Level
  <2>4. Index(m, p) \in Indices(m)
    BY <2>2, <2>3, IndexFacts
  <2>5. l = m /\ i = Index(m, p)
    BY <2>a, <2>3, <2>4, BitInjective
  <2> QED
    BY <2>3, <2>5 DEF Covered
<1> QED
  BY <1>1, <1>2

(* A block that is free, and whose buddy is not: nobody holds it, a part   *)
(* of it or a block around it, and the blocks around it are cut.           *)
LEMMA FreeBlock ==
    ASSUME IInv, NEW from \in Level, NEW j \in Free(zero, from), NEW x \in Nat, Index(from, x) = j
    PROVE  /\ j \in Indices(from)
           /\ \A q \in DOMAIN live : At(q) >= from => Index(from, q) # j
           /\ \A q \in DOMAIN live : At(q) < from => Index(At(q), q) # Index(At(q), x)
           /\ \A k \in 0..from - 1 : Bit(k, Index(k, x)) \in zero
<1>1. j \in Indices(from) /\ Bit(from, j) \notin zero /\ BuddyBit(from, j) \in zero
  BY DEF Free
<1>2. LiveType /\ Apart /\ TreeExact
  BY DEF IInv
<1>3. \A q \in DOMAIN live : At(q) >= from => Index(from, q) # j
  <2> SUFFICES ASSUME NEW q \in DOMAIN live, At(q) >= from, Index(from, q) = j
               PROVE  FALSE
    OBVIOUS
  <2>1. Covered(from, j)
    BY <1>2, LiveFacts, LevelFacts DEF Covered
  <2> QED
    BY <1>1, <1>2, <2>1, TreeBits
<1>4. CASE from = 0
  <2>1. \A q \in DOMAIN live : ~(At(q) < from)
    BY <1>2, <1>4, LiveFacts
  <2>2. 0..from - 1 = {}
    BY <1>4
  <2> QED
    BY <1>1, <1>3, <2>1, <2>2
<1>5. CASE from # 0
  <2>1. Sibling(j) \in Indices(from) /\ Bit(from, Sibling(j)) \in zero
    BY <1>1, <1>5, BuddyOf
  <2>2. PICK r \in DOMAIN live : from <= At(r) /\ Index(from, r) = Sibling(j)
    BY <1>2, <2>1, TreeBits DEF Covered
  <2>3. r \in Nat /\ r < HeapSize /\ At(r) \in Level /\ At(r) \in Nat
    BY <1>2, LiveFacts
  <2>4. from - 1 \in Level /\ from \in Nat /\ j \in Nat
    BY <1>1, <1>5, LevelFacts, IndexFacts DEF Level
  <2>5. Sibling(j) \div 2 = j \div 2
    BY <2>4 DEF Sibling
  <2>6. Index(from - 1, x) = Index(from - 1, r)
    BY <1>5, <2>2, <2>3, <2>5, IndexFacts
  <2>7. \A k \in 0..from - 1 : Index(k, x) = Index(k, r)
    BY <2>3, <2>4, <2>6, Above
  <2>8. \A k \in 0..from - 1 : Bit(k, Index(k, x)) \in zero
    <3> SUFFICES ASSUME NEW k \in 0..from - 1 PROVE Bit(k, Index(k, r)) \in zero
      BY <2>7
    <3>1. k \in 0..At(r)
      BY <2>2, <2>3, <2>4
    <3> QED
      BY <1>2, <3>1 DEF TreeExact, At
  <2>9. ASSUME NEW q \in DOMAIN live, At(q) < from PROVE Index(At(q), q) # Index(At(q), x)
    <3>1. At(q) \in 0..from - 1 /\ r # q
      <4>1. At(q) \in Nat
        BY <1>2, LiveFacts
      <4> QED
        BY <2>2, <2>3, <2>4, <2>9, <4>1
    <3>2. Index(At(q), q) # Index(At(q), r)
      BY <1>2, <3>1 DEF Apart
    <3> QED
      BY <2>7, <3>1, <3>2
  <2> QED
    BY <1>1, <1>3, <2>8, <2>9
<1> QED
  BY <1>4, <1>5

-----------------------------------------------------------------------------
(***************************************************************************)
(* buddy_alloc.                                                            *)
(***************************************************************************)

(* A multiple of a number leaves no rest. *)
LEMMA Multiple ==
    ASSUME NEW s \in Nat \ {0}, NEW q \in Nat
    PROVE  (q * s) \div s = q /\ (q * s) % s = 0 /\ q * s \in Nat
<1>1. q * s = s * q + 0 /\ q * s \in Nat
  OBVIOUS
<1>2. (s * q + 0) \div s = q
  BY Quotient
<1>3. PICK x \in Nat, r \in 0..s - 1 : x = q * s /\ r = x % s /\ x = s * (x \div s) + r
  BY <1>1, Division
<1>4. x = s * q + r
  BY <1>1, <1>2, <1>3
<1>5. r = 0
  BY <1>1, <1>3, <1>4
<1> QED
  BY <1>1, <1>2, <1>3, <1>5

(* The sizes of two levels. *)
LEMMA SizeRatio ==
    ASSUME NEW k \in Level, NEW l \in Level, k <= l
    PROVE  /\ Power(l - k) \in Nat \ {0} /\ l - k \in Nat
           /\ BlockSize(k) = Power(l - k) * BlockSize(l)
<1>1. l - k \in Nat /\ MaxPower - l \in Nat /\ (l - k) + (MaxPower - l) = MaxPower - k
  <2>1. l \in Nat /\ k \in Nat /\ MaxPower \in Nat /\ MaxPower - l \in Nat
    BY LevelFacts
  <2> QED
    BY <2>1
<1>2. Power((l - k) + (MaxPower - l)) = Power(l - k) * Power(MaxPower - l)
  BY <1>1, PowerSum
<1>3. BlockSize(k) = Power(MaxPower - k) /\ BlockSize(l) = Power(MaxPower - l)
  BY DEF BlockSize, Power
<1> QED
  BY <1>1, <1>2, <1>3, PowerPositive

(* The first part of a block. *)
LEMMA FirstPart ==
    ASSUME NEW from \in Level, NEW level \in Level, from <= level, NEW j \in Indices(from),
           NEW g, g = j * Power(level - from), NEW p, p = g * BlockSize(level)
    PROVE  /\ p \in Nat /\ p < HeapSize /\ p % BlockSize(level) = 0 /\ g \in Nat
           /\ Index(level, p) = g /\ Index(from, p) = j
           /\ \A l \in from..level : Index(l, p) = g \div Power(level - l)
<1>0. from \in Nat /\ level \in Nat /\ Levels \in Nat /\ level < Levels
  BY LevelFacts
<1>1. PICK s, u, n, r \in Nat \ {0} :
         /\ s = BlockSize(level) /\ u = BlockSize(from) /\ n = Power(from)
         /\ r = Power(level - from) /\ u = r * s /\ HeapSize = u * n /\ j \in 0..n - 1
  BY SizeFacts, SizeRatio
<1>2. g = j * r /\ p = g * s /\ j \in Nat
  BY <1>1
<1>3. g \in Nat /\ p \in Nat
  BY <1>1, <1>2
<1>4. p = j * u
  <2>1. \A x, y, z \in Nat : (x * y) * z = x * (y * z)
    OBVIOUS
  <2> QED
    BY <1>1, <1>2, <2>1
<1>5. p < HeapSize
  <2>1. PICK d \in Nat \ {0} : n = j + d
    <3>1. n - j \in Nat \ {0} /\ n = j + (n - j)
      BY <1>1
    <3> QED
      BY <3>1
  <2>2. u * n = u * j + u * d /\ u * d > 0 /\ u * j = j * u
    BY <1>1, <1>2, <2>1
  <2>3. u * j \in Nat /\ u * d \in Nat
    BY <1>1, <1>2, <2>1
  <2> QED
    BY <1>1, <1>3, <1>4, <2>2, <2>3
<1>6. p % s = 0 /\ Index(level, p) = g
  <2>1. (g * s) \div s = g /\ (g * s) % s = 0
    BY <1>1, <1>3, Multiple
  <2> QED
    BY <1>1, <1>2, <2>1 DEF Index
<1>7. Index(from, p) = j
  BY <1>1, <1>2, <1>4, Multiple DEF Index
<1>8. ASSUME NEW l \in from..level PROVE Index(l, p) = g \div Power(level - l)
  <2>1. l \in Level /\ from <= l /\ l <= level
    BY <1>0 DEF Level
  <2>2. PICK v, w, y \in Nat \ {0} :
          /\ v = BlockSize(l) /\ w = Power(l - from) /\ y = Power(level - l)
          /\ u = w * v
    <3>1. BlockSize(l) \in Nat \ {0}
      BY <2>1, SizeFacts
    <3>2. Power(l - from) \in Nat \ {0} /\ BlockSize(from) = Power(l - from) * BlockSize(l)
      BY <2>1, SizeRatio
    <3>3. Power(level - l) \in Nat \ {0}
      BY <2>1, SizeRatio
    <3> QED
      BY <1>1, <3>1, <3>2, <3>3
  <2>3. r = w * y
    <3>1. l - from \in Nat /\ level - l \in Nat /\ (l - from) + (level - l) = level - from
      BY <1>0, <2>1
    <3>2. Power((l - from) + (level - l)) = Power(l - from) * Power(level - l)
      BY <3>1, PowerSum
    <3> QED
      BY <1>1, <2>2, <3>1, <3>2
  <2>4. \A a, b, c \in Nat : a * (b * c) = (a * b) * c
    OBVIOUS
  <2>5. j * w \in Nat
    BY <1>2, <2>2
  <2>6. g = (j * w) * y
    BY <1>2, <2>2, <2>3, <2>4
  <2>7. p = (j * w) * v
    BY <1>2, <1>4, <2>2, <2>4
  <2>8. Index(l, p) = j * w
    BY <2>2, <2>5, <2>7, Multiple DEF Index
  <2>9. g \div y = j * w
    BY <2>2, <2>5, <2>6, Multiple
  <2> QED
    BY <2>2, <2>8, <2>9
<1> QED
  BY <1>1, <1>3, <1>5, <1>6, <1>7, <1>8

(* What buddy_alloc takes: the last free block of the nearest level, and   *)
(* the first of its parts.                                                 *)
LEMMA AllocBlock ==
    ASSUME IInv, NEW level \in Level, Source(zero, level) # {},
           NEW p, p = Given(zero, level) * BlockSize(level)
    PROVE  \E from \in Level :
              /\ from <= level /\ p \in Nat /\ p < HeapSize /\ p % BlockSize(level) = 0
              /\ Index(from, p) \in Free(zero, from)
              /\ Cut(zero, level) = {Bit(l, Index(l, p)) : l \in from..level}
<1>0. level \in Nat /\ level < Levels /\ Levels \in Nat
  BY LevelFacts
<1>1. PICK from : from = Max(Source(zero, level))
  OBVIOUS
<1>2. from \in Source(zero, level)
  <2>1. Source(zero, level) \in SUBSET (0..level)
    BY DEF Source
  <2> QED
    BY <1>0, <1>1, <2>1, MaxOf
<1>3. from \in Level /\ from <= level /\ Free(zero, from) # {}
  BY <1>0, <1>2 DEF Source, Level
<1>4. PICK j : j = Max(Free(zero, from))
  OBVIOUS
<1>5. j \in Free(zero, from) /\ j \in Indices(from)
  <2>1. Power(from) - 1 \in Nat /\ Indices(from) = 0..Power(from) - 1
    BY <1>3, SizeFacts
  <2>2. Free(zero, from) \in SUBSET (0..Power(from) - 1)
    BY <2>1 DEF Free
  <2>3. j \in Free(zero, from)
    BY <1>3, <1>4, <2>1, <2>2, MaxOf
  <2> QED
    BY <2>1, <2>2, <2>3
<1>6. PICK g : g = Given(zero, level)
  OBVIOUS
<1>7. g = j * Power(level - from) /\ p = g * BlockSize(level)
  BY <1>1, <1>4, <1>6 DEF Given, Power
<1>8. /\ p \in Nat /\ p < HeapSize /\ p % BlockSize(level) = 0
      /\ Index(from, p) = j
      /\ \A l \in from..level : Index(l, p) = g \div Power(level - l)
  BY <1>3, <1>5, <1>7, FirstPart
<1>9. Cut(zero, level) = {Bit(l, Index(l, p)) : l \in from..level}
  <2>1. Cut(zero, level) = {Bit(l, g \div Power(level - l)) : l \in from..level}
    BY <1>1, <1>6 DEF Cut, Power
  <2> QED
    BY <1>8, <2>1
<1> QED
  BY <1>3, <1>5, <1>8, <1>9

(* Somebody gets a block that is free. *)
LEMMA AllocInv ==
    ASSUME IInv, NEW size \in 1..HeapSize, NEW level, level = LevelOf(size),
           Source(zero, level) # {}, NEW p, p = Given(zero, level) * BlockSize(level),
           zero' = zero \union Cut(zero, level),
           live' = Held(live, p, size)
    PROVE  IInv'
<1>0. level \in Level
  BY LevelOfFacts
<1>1. PICK from \in Level :
        /\ from <= level /\ p \in Nat /\ p < HeapSize /\ p % BlockSize(level) = 0
        /\ Index(from, p) \in Free(zero, from)
        /\ Cut(zero, level) = {Bit(l, Index(l, p)) : l \in from..level}
  BY <1>0, AllocBlock
<1>2. LiveType /\ Aligned /\ Apart /\ TreeExact
  BY DEF IInv
<1>3. from \in Nat /\ level \in Nat
  BY <1>0, LevelFacts
<1>4. /\ Index(from, p) \in Indices(from)
      /\ \A q \in DOMAIN live : At(q) >= from => Index(from, q) # Index(from, p)
      /\ \A q \in DOMAIN live : At(q) < from => Index(At(q), q) # Index(At(q), p)
      /\ \A k \in 0..from - 1 : Bit(k, Index(k, p)) \in zero
  BY <1>1, FreeBlock
<1>5. p \notin DOMAIN live
  <2> SUFFICES ASSUME p \in DOMAIN live PROVE FALSE
    OBVIOUS
  <2>1. At(p) \in Nat
    BY <1>2, LiveFacts
  <2> QED
    BY <1>3, <1>4, <2>1
<1>6. /\ DOMAIN live' = DOMAIN live \union {p} /\ live'[p] = size
      /\ \A q \in DOMAIN live : live'[q] = live[q]
      /\ live' = [q \in DOMAIN live \union {p} |-> IF q = p THEN size ELSE live[q]]
  BY <1>5 DEF Held
<1>7. /\ At(p)' = level
      /\ \A q \in DOMAIN live : At(q)' = At(q)
  BY <1>6 DEF At
<1>8. LiveType'
  <2>1. DOMAIN live \subseteq 0..HeapSize - 1 /\ \A q \in DOMAIN live : live[q] \in 1..HeapSize
    BY <1>2 DEF LiveType
  <2>2. p \in 0..HeapSize - 1
    BY <1>1, <1>0, SizeFacts
  <2> QED
    BY <1>6, <2>1, <2>2 DEF LiveType
<1>9. Aligned'
  BY <1>1, <1>2, <1>6, <1>7 DEF Aligned
<1>10. ASSUME NEW q \in DOMAIN live
       PROVE  Index(level, p) # Index(level, q) /\ Index(At(q), q) # Index(At(q), p)
  <2>1. q \in Nat /\ At(q) \in Level /\ At(q) \in Nat
    BY <1>2, LiveFacts
  <2>2. CASE At(q) >= from
    <3>1. Index(from, q) # Index(from, p)
      BY <1>4, <2>2
    <3>2. from \in 0..level /\ from \in 0..At(q)
      BY <1>1, <1>3, <2>1, <2>2
    <3> QED
      BY <1>0, <1>1, <2>1, <3>1, <3>2, Above
  <2>3. CASE At(q) < from
    <3>1. Index(At(q), q) # Index(At(q), p)
      BY <1>4, <2>3
    <3>2. At(q) \in 0..level
      BY <1>1, <1>3, <2>1, <2>3
    <3> QED
      BY <1>0, <1>1, <2>1, <3>1, <3>2, Above
  <2> QED
    BY <1>3, <2>1, <2>2, <2>3
<1>11. Apart'
  <2> SUFFICES ASSUME NEW a \in DOMAIN live', NEW b \in DOMAIN live', a # b
               PROVE  Index(At(a)', a) # Index(At(a)', b)
    BY DEF Apart
  <2>1. CASE a = p
    BY <1>6, <1>7, <1>10, <2>1
  <2>2. CASE a # p /\ b = p
    BY <1>6, <1>7, <1>10, <2>2
  <2>3. CASE a # p /\ b # p
    BY <1>2, <1>6, <1>7, <2>3 DEF Apart
  <2> QED
    BY <2>1, <2>2, <2>3
<1>12. TreeExact'
  <2> DEFINE Way(q, l) == {Bit(k, Index(k, q)) : k \in 0..l}
  <2>1. zero = AllFree \union UNION {Way(q, At(q)) : q \in DOMAIN live}
    BY <1>2 DEF TreeExact, At
  <2>2. zero' = zero \union Way(p, level)
    <3>1. Cut(zero, level) \subseteq Way(p, level)
      BY <1>1, <1>3
    <3>2. Way(p, level) \subseteq zero \union Cut(zero, level)
      <4> SUFFICES ASSUME NEW k \in 0..level PROVE Bit(k, Index(k, p)) \in zero \union Cut(zero, level)
        OBVIOUS
      <4>1. k \in 0..from - 1 \/ k \in from..level
        BY <1>3
      <4> QED
        BY <1>1, <1>4, <4>1
    <3> QED
      BY <3>1, <3>2
  <2>3. TreeExact' <=> zero' = AllFree \union UNION {Way(q, At(q)') : q \in DOMAIN live'}
    BY DEF TreeExact, At
  <2> HIDE DEF Way
  <2>4. UNION {Way(q, At(q)') : q \in DOMAIN live'} = (UNION {Way(q, At(q)) : q \in DOMAIN live}) \union Way(p, level)
    BY <1>6, <1>7
  <2> QED
    BY <2>1, <2>2, <2>3, <2>4
<1> QED
  BY <1>8, <1>9, <1>11, <1>12 DEF IInv

-----------------------------------------------------------------------------
(***************************************************************************)
(* buddy_free.                                                             *)
(***************************************************************************)

(* Where the way up from an address ends. *)
LEMMA TargetFacts ==
    ASSUME NEW p, NEW t, t = TargetLevel(zero, p)
    PROVE  /\ t \in Level
           /\ t # 0 => Bit(t, Index(t, p)) \in zero
           /\ \A l \in t + 1..Levels - 1 : Bit(l, Index(l, p)) \notin zero
<1> DEFINE M == {0} \union {l \in 0..Levels - 1 : Bit(l, Index(l, p)) \in zero}
<1>1. Levels - 1 \in Nat
  BY BuddyAssumption
<1>2. M \in SUBSET (0..Levels - 1) /\ M # {}
  BY <1>1
<1>3. t = Max(M)
  BY DEF TargetLevel
<1>4. t \in M /\ \A k \in M : k <= t
  BY <1>1, <1>2, <1>3, MaxOf
<1> QED
  BY <1>1, <1>4 DEF Level

(* A pointer that is not refused is that of a block that is held, or       *)
(* nothing is held.                                                        *)
LEMMA FreeTarget ==
    ASSUME IInv, NEW p \in Int, ~Refused(zero, p), NEW t, t = TargetLevel(zero, p)
    PROVE  /\ p \in Nat /\ p < HeapSize /\ t \in Level
           /\ \/ DOMAIN live = {}
              \/ \E r \in DOMAIN live : /\ At(r) = t /\ Index(t, r) = Index(t, p)
                                        /\ Losers(zero, live, p) = {r}
<1>1. LiveType /\ Apart /\ TreeExact
  BY DEF IInv
<1>2. /\ t \in Level
      /\ t # 0 => Bit(t, Index(t, p)) \in zero
      /\ \A l \in t + 1..Levels - 1 : Bit(l, Index(l, p)) \notin zero
  BY TargetFacts
<1>3. t \in Nat /\ t < Levels /\ Levels \in Nat
  BY <1>2, LevelFacts
<1>4. p \in Nat /\ p < HeapSize
  <2>1. HeapSize \in Nat
    BY <1>2, SizeFacts
  <2> QED
    BY <2>1 DEF Refused, Outside
<1>5. \A l \in t + 1..Levels - 1 : BuddyBit(l, Index(l, p)) \notin zero
  BY DEF Refused
<1>6. \A l \in Level : Index(l, p) \in Indices(l)
  BY <1>4, IndexFacts
<1>7. Losers(zero, live, p) = {q \in DOMAIN live : Index(t, q) = Index(t, p)}
  BY DEF Losers
<1>8. ASSUME Covered(t, Index(t, p))
      PROVE  \E r \in DOMAIN live : /\ At(r) = t /\ Index(t, r) = Index(t, p)
                                    /\ Losers(zero, live, p) = {r}
  <2>1. PICK r \in DOMAIN live : t <= At(r) /\ Index(t, r) = Index(t, p)
    BY <1>8 DEF Covered
  <2>2. r \in Nat /\ At(r) \in Nat /\ At(r) < Levels
    BY <1>1, LiveFacts
  <2>3. At(r) = t
    <3> SUFFICES ASSUME At(r) > t PROVE FALSE
      BY <1>3, <2>1, <2>2
    <3>1. PICK m : m = t + 1
      OBVIOUS
    <3>2. m \in Level /\ m \in t + 1..Levels - 1 /\ m # 0 /\ m <= At(r)
      BY <1>3, <2>2, <3>1 DEF Level
    <3>3. Index(m, r) # Index(m, p)
      <4> SUFFICES ASSUME Index(m, r) = Index(m, p) PROVE FALSE
        OBVIOUS
      <4>1. Covered(m, Index(m, p))
        BY <3>2 DEF Covered
      <4> QED
        BY <1>1, <1>2, <1>6, <3>2, <4>1, TreeBits
    <3>4. PICK n \in t + 1..m : Index(n, r) = Sibling(Index(n, p))
      BY <1>2, <1>4, <2>1, <2>2, <3>2, <3>3, Parting
    <3>5. n = m
      BY <1>3, <3>1, <3>4
    <3>6. Covered(m, Sibling(Index(m, p)))
      BY <3>2, <3>4, <3>5 DEF Covered
    <3>7. /\ Sibling(Index(m, p)) \in Indices(m)
          /\ BuddyBit(m, Index(m, p)) = Bit(m, Sibling(Index(m, p)))
      BY <1>6, <3>2, BuddyOf
    <3>8. BuddyBit(m, Index(m, p)) \in zero
      BY <1>1, <3>2, <3>6, <3>7, TreeBits
    <3> QED
      BY <1>5, <3>2, <3>8
  <2>4. Losers(zero, live, p) = {r}
    BY <1>1, <1>7, <2>1, <2>3 DEF Apart
  <2> QED
    BY <2>1, <2>3, <2>4
<1>9. ASSUME ~Covered(t, Index(t, p)) PROVE DOMAIN live = {}
  <2>1. Bit(t, Index(t, p)) \notin zero
    BY <1>1, <1>2, <1>6, <1>9, TreeBits
  <2>2. t = 0
    BY <1>2, <2>1
  <2>3. \A q \in DOMAIN live : Index(t, q) \in Indices(t) /\ At(q) \in Nat
    BY <1>1, <1>2, LiveFacts, IndexFacts
  <2>4. Indices(t) = {0}
    <3>1. Indices(t) = 0..Power(t) - 1 /\ Power(t) = 1
      BY <1>2, <2>2, SizeFacts, PowerZero
    <3> QED
      BY <3>1
  <2>5. \A q \in DOMAIN live : t <= At(q) /\ Index(t, q) = Index(t, p)
    BY <1>2, <1>6, <2>2, <2>3, <2>4
  <2> QED
    BY <1>9, <2>5 DEF Covered
<1> QED
  BY <1>2, <1>4, <1>8, <1>9

(* The bits that buddy_free sets are those that nobody else needs. *)
LEMMA FreedBits ==
    ASSUME IInv, NEW p \in Nat, p < HeapSize, NEW t \in Level, t = TargetLevel(zero, p),
           NEW r \in DOMAIN live, At(r) = t, Index(t, r) = Index(t, p)
    PROVE  zero \ Freed(zero, p) =
             AllFree \union UNION {{Bit(k, Index(k, q)) : k \in 0..At(q)} : q \in DOMAIN live \ {r}}
<1> DEFINE Alone(l) == \A k \in l + 1..t : BuddyBit(k, Index(k, p)) \notin zero
<1>1. LiveType /\ Apart /\ TreeExact
  BY DEF IInv
<1>2. Freed(zero, p) = {Bit(l, Index(l, p)) : l \in {m \in 0..t : Alone(m)}}
  BY DEF Freed
<1>3. t \in Nat /\ t < Levels /\ Levels \in Nat /\ r \in Nat /\ r < HeapSize
  BY <1>1, LevelFacts, LiveFacts
<1>4. \A l \in 0..t : l \in Level /\ Index(l, p) \in Indices(l) /\ Index(l, r) = Index(l, p)
  <2> SUFFICES ASSUME NEW l \in 0..t
               PROVE  l \in Level /\ Index(l, p) \in Indices(l) /\ Index(l, r) = Index(l, p)
    OBVIOUS
  <2>1. l \in Level
    BY <1>3 DEF Level
  <2> QED
    BY <1>3, <2>1, IndexFacts, Above
<1>5. ASSUME NEW q \in DOMAIN live, q # r
      PROVE  /\ q \in Nat /\ q < HeapSize /\ At(q) \in Nat /\ At(q) < Levels /\ At(q) \in Level
             /\ Index(t, q) # Index(t, r) /\ Index(At(q), q) # Index(At(q), r)
  BY <1>1, <1>5, LiveFacts DEF Apart
<1>6. ASSUME NEW q \in DOMAIN live, q # r, NEW k \in 0..At(q), Bit(k, Index(k, q)) \in Freed(zero, p)
      PROVE  FALSE
  <2>1. PICK l \in 0..t : Alone(l) /\ Bit(k, Index(k, q)) = Bit(l, Index(l, p))
    BY <1>2, <1>6
  <2>2. k \in Level /\ Index(k, q) \in Indices(k)
    <3>1. k \in Level
      BY <1>3, <1>5, <1>6 DEF Level
    <3> QED
      BY <1>5, <1>6, <3>1, IndexFacts
  <2>3. k = l /\ Index(l, q) = Index(l, r)
    BY <1>4, <2>1, <2>2, BitInjective
  <2>4. PICK m \in l + 1..t : /\ Index(m, q) = Sibling(Index(m, r))
                              /\ Index(m - 1, r) = Index(m - 1, q)
    BY <1>3, <1>5, <1>6, <2>2, <2>3, Parting
  <2>5. m \in 0..t /\ m # 0 /\ m - 1 \in Nat /\ m \in Level /\ m - 1 \in Level
    BY <1>3, <2>1, <2>4 DEF Level
  <2>6. m <= At(q)
    <3> SUFFICES ASSUME At(q) < m PROVE FALSE
      BY <1>5, <1>6, <2>5
    <3>1. At(q) \in 0..m - 1
      BY <1>5, <1>6, <2>5
    <3> QED
      BY <1>3, <1>5, <1>6, <2>4, <2>5, <3>1, Above
  <2>7. Covered(m, Sibling(Index(m, p)))
    BY <1>4, <1>6, <2>4, <2>5, <2>6 DEF Covered
  <2>8. BuddyBit(m, Index(m, p)) \in zero
    BY <1>1, <1>4, <2>5, <2>7, BuddyOf, TreeBits
  <2> QED
    BY <2>1, <2>4, <2>8
<1>7. ASSUME NEW l \in 0..t, Bit(l, Index(l, p)) \notin Freed(zero, p)
      PROVE  \E q \in DOMAIN live : q # r /\ l <= At(q) /\ Index(l, q) = Index(l, p)
  <2>1. PICK k \in l + 1..t : BuddyBit(k, Index(k, p)) \in zero
    BY <1>2, <1>7
  <2>2. k \in 0..t /\ k \in Level /\ k # 0 /\ k - 1 \in Level /\ l \in 0..k - 1 /\ k > l
    BY <1>3, <2>1 DEF Level
  <2>3. /\ Sibling(Index(k, p)) \in Indices(k)
        /\ Bit(k, Sibling(Index(k, p))) \in zero
    BY <1>4, <2>1, <2>2, BuddyOf
  <2>4. PICK q \in DOMAIN live : k <= At(q) /\ Index(k, q) = Sibling(Index(k, p))
    BY <1>1, <2>2, <2>3, TreeBits DEF Covered
  <2>5. PICK i \in Nat : i = Index(k, p) /\ Sibling(i) # i /\ Sibling(i) \div 2 = i \div 2
    <3>1. Index(k, p) \in Nat
      BY <2>2, IndexFacts
    <3>2. \A i \in Nat : Sibling(i) # i /\ Sibling(i) \div 2 = i \div 2
      BY DEF Sibling
    <3> QED
      BY <3>1, <3>2
  <2>6. q # r
    BY <1>4, <2>2, <2>4, <2>5
  <2>7. q \in Nat /\ At(q) \in Nat
    BY <1>5, <2>6
  <2>8. Index(k - 1, q) = Index(k - 1, p)
    BY <2>2, <2>4, <2>5, <2>7, IndexFacts
  <2>9. Index(l, q) = Index(l, p)
    BY <2>2, <2>7, <2>8, Above
  <2>10. l <= At(q)
    BY <1>3, <2>2, <2>4, <2>7
  <2> QED
    BY <2>6, <2>9, <2>10
<1>8. AllFree \cap Freed(zero, p) = {}
  BY <1>2, <1>4, BitUsed
<1> DEFINE Way(q) == {Bit(k, Index(k, q)) : k \in 0..At(q)}
<1>9. zero = AllFree \union UNION {Way(q) : q \in DOMAIN live}
  BY <1>1 DEF TreeExact, At
<1>10. \A q \in DOMAIN live : q # r => Way(q) \cap Freed(zero, p) = {}
  BY <1>6
<1>11. Way(r) \subseteq Freed(zero, p) \union UNION {Way(q) : q \in DOMAIN live \ {r}}
  <2> SUFFICES ASSUME NEW l \in 0..t, Bit(l, Index(l, p)) \notin Freed(zero, p)
               PROVE  \E q \in DOMAIN live \ {r} : Bit(l, Index(l, p)) \in Way(q)
    BY <1>4
  <2>1. PICK q \in DOMAIN live : q # r /\ l <= At(q) /\ Index(l, q) = Index(l, p)
    BY <1>7
  <2>2. l \in 0..At(q)
    BY <1>3, <1>5, <2>1
  <2> QED
    BY <2>1, <2>2
<1> HIDE DEF Way
<1>12. zero \ Freed(zero, p) = AllFree \union UNION {Way(q) : q \in DOMAIN live \ {r}}
  BY <1>8, <1>9, <1>10, <1>11
<1> QED
  BY <1>12 DEF Way

(* buddy_free of a pointer that is not refused. *)
LEMMA FreeInv ==
    ASSUME IInv, NEW p \in Int, ~Refused(zero, p),
           zero' = zero \ Freed(zero, p),
           live' = Dropped(live, Losers(zero, live, p))
    PROVE  IInv'
<1>1. LiveType /\ Aligned /\ Apart /\ TreeExact
  BY DEF IInv
<1>2. PICK t : t = TargetLevel(zero, p)
  OBVIOUS
<1>3. p \in Nat /\ p < HeapSize /\ t \in Level
  BY <1>2, FreeTarget
<1>4. PICK P : P = Losers(zero, live, p)
  OBVIOUS
<1>5. /\ DOMAIN live' = DOMAIN live \ P /\ live' = [q \in DOMAIN live \ P |-> live[q]]
      /\ \A q \in DOMAIN live' : At(q)' = At(q) /\ live'[q] = live[q]
  BY <1>4 DEF Dropped, At
<1>6. LiveType'
  BY <1>1, <1>5 DEF LiveType
<1>7. Aligned'
  BY <1>1, <1>5 DEF Aligned
<1>8. Apart'
  BY <1>1, <1>5 DEF Apart
<1> DEFINE Way(q, l) == {Bit(k, Index(k, q)) : k \in 0..l}
<1>9. TreeExact' <=> zero' = AllFree \union UNION {Way(q, At(q)') : q \in DOMAIN live'}
  BY DEF TreeExact, At
<1>10. CASE DOMAIN live = {}
  <2>1. zero = AllFree /\ DOMAIN live' = {}
    BY <1>1, <1>5, <1>10 DEF TreeExact
  <2>2. AllFree \cap Freed(zero, p) = {}
    <3>1. \A l \in 0..t : l \in Level
      BY <1>3, LevelFacts DEF Level
    <3>2. \A l \in 0..t : Bit(l, Index(l, p)) \notin AllFree
      BY <1>3, <3>1, IndexFacts, BitUsed
    <3> QED
      BY <1>2, <3>2 DEF Freed
  <2>3. TreeExact'
    BY <1>9, <2>1, <2>2
  <2> QED
    BY <1>6, <1>7, <1>8, <2>3 DEF IInv
<1>11. CASE DOMAIN live # {}
  <2>1. PICK r \in DOMAIN live : At(r) = t /\ Index(t, r) = Index(t, p) /\ P = {r}
    BY <1>2, <1>4, <1>11, FreeTarget
  <2>2. zero' = AllFree \union UNION {Way(q, At(q)) : q \in DOMAIN live \ {r}}
    BY <1>2, <1>3, <2>1, FreedBits
  <2>3. TreeExact'
    <3> HIDE DEF Way
    <3> QED
      BY <1>5, <1>9, <2>1, <2>2
  <2> QED
    BY <1>6, <1>7, <1>8, <2>3 DEF IInv
<1> QED
  BY <1>10, <1>11

-----------------------------------------------------------------------------
(***************************************************************************)
(* The invariant holds.                                                    *)
(***************************************************************************)

(* Nothing is held at first. *)
LEMMA InitInv == Init => IInv
<1> SUFFICES ASSUME Init PROVE IInv
  OBVIOUS
<1>1. live = <<>> /\ zero = AllFree /\ DOMAIN live = {}
  BY DEF Init
<1>2. live \in [DOMAIN live -> 1..HeapSize]
  BY <1>1
<1> QED
  BY <1>1, <1>2 DEF IInv, LiveType, Aligned, Apart, TreeExact

(* Nor after buddy_reset. *)
LEMMA ResetInv == buddy_reset => IInv'
<1> SUFFICES ASSUME buddy_reset PROVE IInv'
  OBVIOUS
<1>1. live' = <<>> /\ zero' = AllFree /\ DOMAIN live' = {}
  BY DEF buddy_reset
<1>2. live' \in [DOMAIN live' -> 1..HeapSize]
  BY <1>1
<1> QED
  BY <1>1, <1>2 DEF IInv, LiveType, Aligned, Apart, TreeExact

(* A step that changes neither the words nor what is held. *)
LEMMA SameInv ==
    ASSUME IInv, zero' = zero, live' = live
    PROVE  IInv'
  BY DEF IInv, LiveType, Aligned, Apart, TreeExact, At

(* Every call keeps the invariant. *)
LEMMA NextInv == IInv /\ [Next]_vars => IInv'
<1> SUFFICES ASSUME IInv, [Next]_vars PROVE IInv'
  OBVIOUS
<1>1. ASSUME NEW size \in Sizes, buddy_alloc(size) PROVE IInv'
  <2>1. SafeAlloc(zero, live, size)
    BY <1>1 DEF buddy_alloc
  <2>2. CASE zero' = zero /\ live' = live
    BY <2>2, SameInv
  <2>3. CASE /\ ~Invalid(size) /\ ~Full(zero, size)
             /\ zero' = zero \union Cut(zero, LevelOf(size))
             /\ live' = Held(live, Given(zero, LevelOf(size)) * BlockSize(LevelOf(size)), size)
    <3>1. size \in 1..HeapSize
      <4>1. 0 \in Level
        BY BuddyAssumption DEF Level
      <4>2. HeapSize \in Nat /\ size \in Nat
        BY <4>1, SizeFacts, BuddyAssumption
      <4> QED
        BY <2>3, <4>2 DEF Invalid
    <3>2. Source(zero, LevelOf(size)) # {}
      BY <2>3 DEF Full
    <3> QED
      BY <2>3, <3>1, <3>2, AllocInv
  <2> QED
    BY <2>1, <2>2, <2>3 DEF SafeAlloc
<1>2. ASSUME NEW p \in Pointers, buddy_free(p) PROVE IInv'
  <2>1. p \in Int
    BY BuddyAssumption
  <2>2. CASE zero' = zero /\ live' = live
    BY <2>2, SameInv
  <2>3. CASE /\ ~Refused(zero, p) /\ zero' = zero \ Freed(zero, p)
             /\ live' = Dropped(live, Losers(zero, live, p))
    BY <2>1, <2>3, FreeInv
  <2> QED
    BY <1>2, <2>2, <2>3 DEF buddy_free
<1>3. CASE buddy_reset
  BY <1>3, ResetInv
<1>4. CASE UNCHANGED vars
  BY <1>4, SameInv DEF vars
<1> QED
  BY <1>1, <1>2, <1>3, <1>4 DEF Next

(* The pointers held are the starts of blocks that lie apart, and the tree *)
(* is exactly these blocks and what is around them, after any calls of     *)
(* buddy_alloc, buddy_free and buddy_reset.                                *)
THEOREM Invariant == Spec => []IInv
<1>1. Init => IInv
  BY InitInv
<1>2. IInv /\ [Next]_vars => IInv'
  BY NextInv
<1> QED
  BY <1>1, <1>2, PTL DEF Spec

(* Nothing leaks from the tree: each bit that is 0 is that of a block that *)
(* somebody holds or holds a part of, however the blocks were cut, given,  *)
(* freed, fused and freed again.                                           *)
THEOREM TreeStaysExact == Spec => []TreeExact
<1>1. IInv => TreeExact
  BY DEF IInv
<1> QED
  BY <1>1, Invariant, PTL

(* Of two blocks of one size, the one with the smaller index ends where    *)
(* the other one starts, or before.                                        *)
LEMMA EndsBefore ==
    ASSUME NEW s \in Nat \ {0}, NEW i \in Nat, NEW n \in Nat, i < n
    PROVE  s * i \in Nat /\ s * n \in Nat /\ s * i + s <= s * n
<1>1. PICK k \in Nat : n = i + (1 + k)
  <2>1. n - i - 1 \in Nat /\ n = i + (1 + (n - i - 1))
    OBVIOUS
  <2> QED
    BY <2>1
<1>2. s * i \in Nat /\ s * k \in Nat /\ s * n \in Nat
  BY <1>1
<1>3. s * (i + (1 + k)) = s * i + s * (1 + k)
  BY <1>1
<1>4. s * (1 + k) = s + s * k
  BY <1>1
<1> QED
  BY <1>1, <1>2, <1>3, <1>4

(* The blocks held do not overlap, given that none starts in another one.  *)
LEMMA InvDisjoint == IInv => Disjoint
<1> SUFFICES ASSUME IInv, NEW p \in DOMAIN live, NEW s, s = BlockSize(At(p))
             PROVE  /\ p % s = 0 /\ p + s <= HeapSize /\ live[p] <= s
                    /\ \A q \in DOMAIN live : p < q => p + s <= q
  BY DEF Disjoint, At
<1>1. LiveType /\ Aligned /\ Apart
  BY DEF IInv
<1>2. p \in Nat /\ p < HeapSize /\ At(p) \in Level /\ live[p] <= s
  BY <1>1, LiveFacts
<1>3. p % s = 0
  BY <1>1 DEF Aligned
<1>4. s \in Nat \ {0}
  BY <1>2, SizeFacts
<1>5. PICK i \in Nat : i = Index(At(p), p) /\ p = s * i
  <2>1. p \div s \in Nat /\ p = s * (p \div s) + (p % s)
    BY <1>2, <1>4, Division
  <2>2. s * (p \div s) \in Nat
    BY <1>4, <2>1
  <2> QED
    BY <1>3, <2>1, <2>2 DEF Index
<1>6. p + s <= HeapSize
  <2>1. PICK n \in Nat \ {0} : HeapSize = s * n /\ i \in 0..n - 1
    <3>1. HeapSize = s * Power(At(p)) /\ Power(At(p)) \in Nat \ {0} /\ Indices(At(p)) = 0..Power(At(p)) - 1
      BY <1>2, SizeFacts
    <3>2. i \in Indices(At(p))
      BY <1>2, <1>5, IndexFacts
    <3> QED
      BY <3>1, <3>2
  <2>2. s * i + s <= s * n
    BY <1>4, <1>5, <2>1, EndsBefore
  <2> QED
    BY <1>5, <2>1, <2>2
<1>7. ASSUME NEW q \in DOMAIN live, p < q PROVE p + s <= q
  <2>1. q \in Nat
    BY <1>1, LiveFacts
  <2>2. Index(At(p), q) # i
    BY <1>1, <1>2, <1>5, <1>7, <2>1 DEF Apart
  <2>3. PICK j \in Nat : j = Index(At(p), q) /\ s * j <= q /\ q < s * j + s
    BY <1>2, <2>1, IndexFacts
  <2>4. j > i
    <3> SUFFICES ASSUME j < i PROVE FALSE
      BY <1>5, <2>2, <2>3
    <3>1. s * j + s <= s * i /\ s * j \in Nat /\ s * i \in Nat
      BY <1>4, <1>5, <2>3, EndsBefore
    <3> QED
      BY <1>2, <1>4, <1>5, <1>7, <2>1, <2>3, <3>1
  <2>5. s * i + s <= s * j /\ s * i \in Nat /\ s * j \in Nat
    BY <1>4, <1>5, <2>3, <2>4, EndsBefore
  <2> QED
    BY <1>4, <1>5, <2>1, <2>3, <2>5
<1> QED
  BY <1>2, <1>3, <1>6, <1>7

(* No two blocks that are held overlap; each is aligned on its size, lies  *)
(* inside the heap and is as large as was asked.                           *)
THEOREM BlocksDisjoint == Spec => []Disjoint
<1>1. IInv => Disjoint
  BY InvDisjoint
<1> QED
  BY <1>1, Invariant, PTL

-----------------------------------------------------------------------------
(***************************************************************************)
(* buddy_alloc finds a block when there is one.                            *)
(***************************************************************************)

(* A block is touched by one that is held when the one holds the start of  *)
(* the other.                                                              *)
LEMMA Touched ==
    ASSUME IInv, NEW p \in DOMAIN live, NEW level \in Level, NEW i \in Indices(level),
           NEW x, x = i * BlockSize(level)
    PROVE  (p + BlockSize(At(p)) <= x \/ p >= (i + 1) * BlockSize(level))
             <=> Index(level, p) # i /\ Index(At(p), x) # Index(At(p), p)
<1>1. LiveType /\ Aligned
  BY DEF IInv
<1>2. p \in Nat /\ At(p) \in Level
  BY <1>1, LiveFacts
<1>3. PICK s, u \in Nat \ {0} : s = BlockSize(At(p)) /\ u = BlockSize(level)
  BY <1>2, SizeFacts
<1>4. i \in Nat
  BY SizeFacts
<1>5. x = u * i /\ x \in Nat /\ (i + 1) * BlockSize(level) = x + u
  BY <1>3, <1>4
<1>6. PICK n \in Nat : n = Index(At(p), p) /\ p = s * n
  <2>1. p \div s \in Nat /\ p = s * (p \div s) + (p % s)
    BY <1>2, <1>3, Division
  <2>2. s * (p \div s) \in Nat /\ p % s = 0
    BY <1>1, <1>3, <2>1 DEF Aligned
  <2> QED
    BY <1>3, <2>1, <2>2 DEF Index
<1>7. PICK m \in Nat : m = Index(At(p), x) /\ s * m <= x /\ x < s * m + s
  BY <1>2, <1>3, <1>5, IndexFacts
<1>8. PICK j \in Nat : j = Index(level, p) /\ u * j <= p /\ p < u * j + u
  BY <1>2, <1>3, IndexFacts
<1>9. s * m \in Nat /\ s * n \in Nat /\ u * j \in Nat /\ u * i \in Nat
  BY <1>3, <1>4, <1>6, <1>7, <1>8
<1>10. /\ m < n => s * m + s <= s * n
       /\ n < m => s * n + s <= s * m
  BY <1>3, <1>6, <1>7, EndsBefore
<1>11. /\ i < j => u * i + u <= u * j
       /\ j < i => u * j + u <= u * i
  BY <1>3, <1>4, <1>8, EndsBefore
<1>12. ASSUME p + s <= x \/ p >= x + u PROVE j # i /\ m # n
  <2>1. PICK a, b, c, d \in Nat : a = s * m /\ b = s * n /\ c = u * j /\ d = u * i
    BY <1>9
  <2>2. m = n => a = b
    BY <2>1
  <2>3. i = j => c = d
    BY <2>1
  <2> QED
    BY <1>2, <1>3, <1>5, <1>6, <1>7, <1>8, <1>12, <2>1, <2>2, <2>3
<1>13. ASSUME j # i, m # n PROVE p + s <= x \/ p >= x + u
  <2>1. PICK a, b, c, d \in Nat : a = s * m /\ b = s * n /\ c = u * j /\ d = u * i
    BY <1>9
  <2>2. (a + s <= b \/ b + s <= a) /\ (c + u <= d \/ d + u <= c)
    BY <1>4, <1>6, <1>7, <1>8, <1>10, <1>11, <1>13, <2>1
  <2>3. b = p /\ d = x /\ a <= x /\ x < a + s /\ c <= p /\ p < c + u
    BY <1>5, <1>6, <1>7, <1>8, <2>1
  <2>4. CASE b + s <= a
    BY <1>2, <1>5, <2>1, <2>3, <2>4
  <2>5. CASE d + u <= c
    BY <1>2, <1>5, <2>1, <2>3, <2>5
  <2>6. CASE a + s <= b /\ c + u <= d
    BY <1>2, <1>5, <2>1, <2>3, <2>6
  <2> QED
    BY <2>2, <2>4, <2>5, <2>6
<1> QED
  BY <1>3, <1>5, <1>6, <1>7, <1>8, <1>12, <1>13

(* A block that can be given has a part that nobody touches. *)
LEMMA SourceUntouched ==
    ASSUME IInv, NEW level \in Level, Source(zero, level) # {}
    PROVE  \E i \in Indices(level) : \A p \in DOMAIN live :
              /\ Index(level, p) # i
              /\ Index(At(p), i * BlockSize(level)) # Index(At(p), p)
<1>1. PICK x : x = Given(zero, level) * BlockSize(level)
  OBVIOUS
<1>2. PICK from \in Level :
        /\ from <= level /\ x \in Nat /\ x < HeapSize /\ x % BlockSize(level) = 0
        /\ Index(from, x) \in Free(zero, from)
  BY <1>1, AllocBlock
<1>3. PICK i : i = Index(level, x)
  OBVIOUS
<1>4. i \in Indices(level) /\ i \in Nat
  BY <1>2, <1>3, IndexFacts
<1>5. x = i * BlockSize(level)
  <2>1. PICK s \in Nat \ {0} : s = BlockSize(level)
    BY SizeFacts
  <2>2. x = s * i + (x % s)
    BY <1>2, <1>3, <2>1, Division DEF Index
  <2>3. s * i \in Nat /\ s * i = i * s
    BY <1>4, <2>1
  <2> QED
    BY <1>2, <2>1, <2>2, <2>3
<1>6. from \in Nat /\ level \in Nat /\ LiveType
  BY LevelFacts DEF IInv
<1>7. ASSUME NEW p \in DOMAIN live
      PROVE  Index(level, p) # Index(level, x) /\ Index(At(p), x) # Index(At(p), p)
  <2>1. p \in Nat /\ At(p) \in Level /\ At(p) \in Nat
    BY <1>6, LiveFacts
  <2>2. CASE At(p) >= from
    <3>1. Index(from, p) # Index(from, x)
      BY <1>2, <2>2, FreeBlock
    <3>2. from \in 0..level /\ from \in 0..At(p)
      BY <1>2, <1>6, <2>1, <2>2
    <3> QED
      BY <1>2, <2>1, <3>1, <3>2, Above
  <2>3. CASE At(p) < from
    <3>1. Index(At(p), p) # Index(At(p), x)
      BY <1>2, <2>3, FreeBlock
    <3>2. At(p) \in 0..level
      BY <1>2, <1>6, <2>1, <2>3
    <3> QED
      BY <1>2, <2>1, <3>1, <3>2, Above
  <2> QED
    BY <1>6, <2>1, <2>2, <2>3
<1> QED
  BY <1>3, <1>4, <1>5, <1>7

(* The largest block that is around one nobody touches and that nobody     *)
(* touches either is free, and its buddy is not.                           *)
LEMMA UntouchedSource ==
    ASSUME IInv, NEW level \in Level, NEW x \in Nat, x < HeapSize,
           \A p \in DOMAIN live : /\ Index(level, p) # Index(level, x)
                                  /\ Index(At(p), x) # Index(At(p), p)
    PROVE  Source(zero, level) # {}
<1>1. LiveType /\ TreeExact
  BY DEF IInv
<1>2. level \in Nat /\ level < Levels /\ Levels \in Nat
  BY LevelFacts
<1> DEFINE M == {l \in Nat : l <= level /\ ~Covered(l, Index(l, x))}
<1>3. level \in M
  BY <1>2 DEF Covered
<1>4. PICK m \in M : \A k \in M : m <= k
  BY <1>3, Least
<1>5. m \in Nat /\ m \in Level /\ m <= level /\ ~Covered(m, Index(m, x))
  BY <1>2, <1>4 DEF Level
<1>6. PICK i \in Indices(m) : i = Index(m, x)
  BY <1>5, IndexFacts
<1>7. Bit(m, i) \notin zero
  BY <1>1, <1>5, <1>6, TreeBits
<1>8. BuddyBit(m, i) \in zero
  <2>1. CASE m = 0
    <3>1. BuddyBit(m, i) \in AllFree
      BY <1>5, <2>1, BuddyOf
    <3> QED
      BY <1>1, <3>1 DEF TreeExact
  <2>2. CASE m # 0
    <3>1. m - 1 \in Nat /\ m - 1 \in Level /\ m - 1 <= level /\ m - 1 \notin M
      BY <1>2, <1>4, <1>5, <2>2 DEF Level
    <3>2. PICK r \in DOMAIN live : m - 1 <= At(r) /\ Index(m - 1, r) = Index(m - 1, x)
      BY <3>1 DEF Covered
    <3>3. r \in Nat /\ At(r) \in Nat
      BY <1>1, LiveFacts
    <3>4. At(r) # m - 1
      BY <3>2
    <3>5. m <= At(r)
      BY <1>5, <3>2, <3>3, <3>4
    <3>6. Index(m, r) # Index(m, x)
      BY <1>5, <3>5 DEF Covered
    <3>a. PICK k \in Level : k = m - 1
      BY <3>1
    <3>b. Index(k, x) = Index(k, r) /\ Index(m, x) # Index(m, r)
      BY <3>2, <3>6, <3>a
    <3>7. PICK n \in k + 1..m : Index(n, r) = Sibling(Index(n, x))
      BY <1>5, <3>3, <3>b, Parting
    <3>8. n = m
      BY <1>5, <3>7, <3>a
    <3>9. Covered(m, Sibling(i))
      BY <1>6, <3>5, <3>7, <3>8 DEF Covered
    <3>10. Sibling(i) \in Indices(m) /\ BuddyBit(m, i) = Bit(m, Sibling(i))
      BY <1>5, <2>2, BuddyOf
    <3> QED
      BY <1>1, <1>5, <3>9, <3>10, TreeBits
  <2> QED
    BY <2>1, <2>2
<1>9. i \in Free(zero, m)
  BY <1>7, <1>8 DEF Free
<1>10. m \in 0..level
  BY <1>2, <1>5
<1> QED
  BY <1>9, <1>10 DEF Source

(* The two lemmas together, in terms of addresses. *)
LEMMA InvComplete == IInv => Complete
<1> SUFFICES ASSUME IInv, NEW level \in Level
             PROVE  Source(zero, level) # {} <=>
                      \E i \in Indices(level) : \A p \in DOMAIN live :
                         \/ p + BlockSize(At(p)) <= i * BlockSize(level)
                         \/ p >= (i + 1) * BlockSize(level)
  BY DEF Complete, At, Level
<1>1. \A i \in Indices(level), p \in DOMAIN live :
        (p + BlockSize(At(p)) <= i * BlockSize(level) \/ p >= (i + 1) * BlockSize(level))
          <=> Index(level, p) # i /\ Index(At(p), i * BlockSize(level)) # Index(At(p), p)
  BY Touched
<1>2. ASSUME NEW i \in Indices(level),
             \A p \in DOMAIN live :
                Index(level, p) # i /\ Index(At(p), i * BlockSize(level)) # Index(At(p), p)
      PROVE  Source(zero, level) # {}
  <2>1. PICK s, n \in Nat \ {0} : s = BlockSize(level) /\ i \in 0..n - 1 /\ HeapSize = s * n
    BY SizeFacts
  <2>2. i \in Nat
    BY <2>1
  <2>3. i * s \in Nat /\ (i * s) \div s = i
    BY <2>1, <2>2, Multiple
  <2>4. s * i + s <= s * n /\ s * i \in Nat /\ s * n \in Nat /\ s * i = i * s
    BY <2>1, <2>2, EndsBefore
  <2>5. i * s < HeapSize
    BY <2>1, <2>4
  <2>6. Index(level, i * s) = i
    BY <2>1, <2>3 DEF Index
  <2> QED
    BY <1>2, <2>1, <2>3, <2>5, <2>6, UntouchedSource
<1> QED
  BY <1>1, <1>2, SourceUntouched

(* buddy_alloc never answers ENOMEM while an aligned block of the size is  *)
(* untouched, and finds none when there is none: what is free is never     *)
(* hidden by the way it was cut and freed.                                 *)
THEOREM AllocComplete == Spec => []Complete
<1>1. IInv => Complete
  BY InvComplete
<1> QED
  BY <1>1, Invariant, PTL
=============================================================================
