------------------------------ MODULE Remainders ------------------------------
(***************************************************************************)
(* Lemmas about division with remainder that the proofs about counters,    *)
(* logs and states of a fixed width share.                                 *)
(***************************************************************************)
EXTENDS Integers, TLAPS

\* Division leaves a remainder below the divisor.
LEMMA DivMod ==
  ASSUME NEW x \in Nat, NEW m \in Nat \ {0}
  PROVE  x \div m \in Nat /\ x % m \in 0 .. m - 1 /\ x = m * (x \div m) + (x % m)
  OBVIOUS

\* The remainder is the only one that does.
LEMMA ModUnique ==
  ASSUME NEW m \in Nat \ {0}, NEW q \in Nat, NEW s \in 0 .. m - 1
  PROVE  (m * q + s) % m = s
<1> DEFINE x == m * q + s
<1>1. x \in Nat
  OBVIOUS
<1>2. PICK p \in Nat, r \in 0 .. m - 1 : x = m * p + r /\ r = x % m
  BY <1>1, DivMod
<1>3. m * (q - p) = r - s
  BY <1>2
<1>4. q - p = 0
  <2>1. CASE q - p >= 1
    <3>1. m * (q - p) >= m
      BY <2>1
    <3> QED
      BY <1>3, <3>1
  <2>2. CASE q - p <= -1
    <3>1. m * (p - q) >= m
      BY <2>2
    <3>2. m * (p - q) = s - r
      BY <1>3
    <3> QED
      BY <3>1, <3>2
  <2> QED
    BY <2>1, <2>2
<1> QED
  BY <1>2, <1>4

\* Multiples of the divisor do not change the remainder.
LEMMA ModMultiple ==
  ASSUME NEW x \in Nat, NEW m \in Nat \ {0}, NEW k \in Nat
  PROVE  (m * k + x) % m = x % m
<1>1. PICK q \in Nat, r \in 0 .. m - 1 : x = m * q + r /\ r = x % m
  BY DivMod
<1>2. m * k + x = m * (k + q) + r
  <2>1. m * (k + q) = m * k + m * q
    OBVIOUS
  <2> QED
    BY <1>1, <2>1
<1>3. (m * (k + q) + r) % m = r
  BY ModUnique
<1> QED
  BY <1>1, <1>2, <1>3

\* Counting up, the remainder starts again at 0 when it reaches the divisor.
LEMMA ModStep ==
  ASSUME NEW x \in Nat, NEW m \in Nat \ {0}
  PROVE  (x + 1) % m = IF (x % m) + 1 = m THEN 0 ELSE (x % m) + 1
<1>1. PICK q \in Nat, r \in 0 .. m - 1 : x = m * q + r /\ r = x % m
  BY DivMod
<1>2. CASE r + 1 = m
  <2>1. x + 1 = m * (q + 1) + 0
    <3>1. m * (q + 1) = m * q + m /\ m * q \in Nat
      OBVIOUS
    <3>2. x + 1 = (m * q + r) + 1
      BY <1>1
    <3>3. (m * q + r) + 1 = m * q + (r + 1)
      BY <3>1
    <3> QED
      BY <1>2, <3>1, <3>2, <3>3
  <2>2. (m * (q + 1) + 0) % m = 0
    BY ModUnique
  <2> QED
    BY <1>1, <1>2, <2>1, <2>2
<1>3. CASE r + 1 # m
  <2>1. x + 1 = m * q + (r + 1)
    BY <1>1
  <2>2. (m * q + (r + 1)) % m = r + 1
    BY <1>3, ModUnique
  <2> QED
    BY <1>1, <1>3, <2>1, <2>2
<1> QED
  BY <1>2, <1>3

\* A remainder added to is the remainder of the sum.
LEMMA ModAdd ==
  ASSUME NEW x \in Nat, NEW y \in Nat, NEW m \in Nat \ {0}
  PROVE  ((x % m) + y) % m = (x + y) % m
<1>1. PICK q \in Nat, r \in 0 .. m - 1 : x = m * q + r /\ r = x % m
  BY DivMod
<1>2. (m * q + (r + y)) % m = (r + y) % m
  <2>1. r + y \in Nat
    OBVIOUS
  <2> QED
    BY <2>1, ModMultiple
<1>3. x + y = m * q + (r + y)
  BY <1>1
<1> QED
  BY <1>1, <1>2, <1>3

\* A remainder of a multiple of the divisor keeps the remainder of the divisor.
LEMMA ModOfMod ==
  ASSUME NEW x \in Nat, NEW m \in Nat \ {0}, NEW k \in Nat \ {0}
  PROVE  (x % (m * k)) % m = x % m
<1>1. m * k \in Nat \ {0}
  <2>1. m * k \in Nat /\ m * k >= m
    OBVIOUS
  <2> QED
    BY <2>1
<1>2. PICK n \in Nat \ {0} : n = m * k
  BY <1>1
<1>a. PICK q \in Nat, r \in Nat : x = n * q + r /\ r = x % n
  <2>1. x % n \in Nat
    BY DivMod
  <2> QED
    BY <2>1, DivMod
<1>3. n * q = m * (k * q) /\ k * q \in Nat
  BY <1>2
<1>4. (m * (k * q) + r) % m = r % m
  BY <1>3, ModMultiple
<1> QED
  BY <1>2, <1>a, <1>3, <1>4
===============================================================================
