------------------------------ MODULE Division ------------------------------
(***************************************************************************)
(* Quotients and remainders, which the provers know little about.  The     *)
(* pages of the flash and the turns of the timer are made of them.         *)
(***************************************************************************)
EXTENDS Integers, TLAPS

\* Quotient and remainder.
LEMMA DivMod ==
    \A a \in Nat : \A p \in Nat \ {0} :
        /\ a \div p \in Nat
        /\ a % p \in 0 .. (p - 1)
        /\ a = ((a \div p) * p) + (a % p)
BY SMT

\* A multiple of p below n * p is at least p below it.
LEMMA MultipleBelow ==
    \A k, n, p \in Nat : k < n => k * p + p <= n * p
<1>1. SUFFICES ASSUME NEW k \in Nat, NEW n \in Nat, NEW p \in Nat, k < n
               PROVE  k * p + p <= n * p
  OBVIOUS
<1>2. PICK d \in Nat : n = k + 1 + d
  <2>1. n - k - 1 \in Nat
    BY <1>1
  <2>2. n = k + 1 + (n - k - 1)
    BY <1>1
  <2>3. QED
    BY <2>1, <2>2
<1>3. n * p = k * p + p + d * p
  BY <1>2
<1>4. d * p \in Nat
  BY SMT
<1>5. QED
  BY <1>3, <1>4

\* Products and their order.
LEMMA NatProduct == \A k, p \in Nat : k * p \in Nat
BY SMT

LEMMA MultipleAtMost ==
    \A k, n, p \in Nat : k <= n => k * p <= n * p
<1>1. SUFFICES ASSUME NEW k \in Nat, NEW n \in Nat, NEW p \in Nat, k <= n
               PROVE  k * p <= n * p
  OBVIOUS
<1>2. k * p \in Nat /\ n * p \in Nat
  BY NatProduct
<1>3. CASE k = n
  BY <1>2, <1>3
<1>4. CASE k < n
  <2>1. k * p + p <= n * p
    BY <1>4, MultipleBelow
  <2>2. QED
    BY <1>2, <2>1
<1>5. QED
  BY <1>1, <1>3, <1>4

\* A number has one quotient and one remainder.
LEMMA OneQuotient ==
    ASSUME NEW k \in Nat, NEW m \in Nat, NEW p \in Nat \ {0},
           NEW r \in 0 .. (p - 1), NEW s \in 0 .. (p - 1),
           k * p + r = m * p + s
    PROVE  k = m /\ r = s
<1>1. ~ (k < m)
  <2>1. k < m => k * p + p <= m * p
    BY MultipleBelow
  <2>2. QED
    BY <2>1
<1>2. ~ (m < k)
  <2>1. m < k => m * p + p <= k * p
    BY MultipleBelow
  <2>2. QED
    BY <2>1
<1>3. k = m
  BY <1>1, <1>2
<1>4. QED
  BY <1>3

\* A number below p is its own remainder.
LEMMA SmallMod ==
    ASSUME NEW p \in Nat \ {0}, NEW r \in 0 .. (p - 1)
    PROVE  r % p = r
<1>1. /\ r \div p \in Nat
      /\ r % p \in 0 .. (p - 1)
      /\ r = ((r \div p) * p) + (r % p)
  <2>1. r \in Nat
    OBVIOUS
  <2>2. QED
    BY <2>1, DivMod
<1>2. 0 * p + r = r
  OBVIOUS
<1>3. 0 * p + r = ((r \div p) * p) + (r % p)
  BY <1>1, <1>2
<1>4. QED
  BY <1>1, <1>3, OneQuotient

\* A remainder is never more than the number.
LEMMA ModAtMost ==
    ASSUME NEW a \in Nat, NEW p \in Nat \ {0}
    PROVE  a % p <= a
<1>1. /\ a \div p \in Nat
      /\ a % p \in 0 .. (p - 1)
      /\ a = ((a \div p) * p) + (a % p)
  BY DivMod
<1>2. \A q \in Nat : q * p \in Nat
  BY SMT
<1>3. QED
  BY <1>1, <1>2

\* Multiples leave no remainder.
LEMMA MultipleMod ==
    ASSUME NEW k \in Nat, NEW p \in Nat \ {0}
    PROVE  (k * p) % p = 0
<1>1. k * p \in Nat
  BY SMT
<1>2. /\ (k * p) \div p \in Nat
      /\ (k * p) % p \in 0 .. (p - 1)
      /\ k * p = (((k * p) \div p) * p) + ((k * p) % p)
  BY <1>1, DivMod
<1>3. 0 \in 0 .. (p - 1) /\ k * p + 0 = (((k * p) \div p) * p) + ((k * p) % p)
  BY <1>1, <1>2
<1>4. QED
  BY <1>2, <1>3, OneQuotient

\* Multiples have the quotient they were made with.
LEMMA MultipleDiv ==
    ASSUME NEW k \in Nat, NEW p \in Nat \ {0}
    PROVE  (k * p) \div p = k
<1>1. k * p \in Nat
  BY NatProduct
<1>2. /\ (k * p) \div p \in Nat
      /\ (k * p) % p \in 0 .. (p - 1)
      /\ k * p = (((k * p) \div p) * p) + ((k * p) % p)
  BY <1>1, DivMod
<1>3. 0 \in 0 .. (p - 1) /\ k * p + 0 = (((k * p) \div p) * p) + ((k * p) % p)
  BY <1>1, <1>2
<1>4. QED
  BY <1>2, <1>3, OneQuotient

\* A multiple that is not above n is not above n without its remainder either.
LEMMA MultipleFits ==
    ASSUME NEW k \in Nat, NEW n \in Nat, NEW p \in Nat \ {0}, k * p <= n
    PROVE  k * p <= n - (n % p)
<1>1. /\ n \div p \in Nat /\ n % p \in 0 .. (p - 1)
      /\ n = ((n \div p) * p) + (n % p)
  BY DivMod
<1> DEFINE q == n \div p
           r == n % p
           x == q * p
           y == k * p
<1>2. /\ q \in Nat /\ r \in 0 .. (p - 1) /\ n = x + r
      /\ x \in Nat /\ y \in Nat /\ y <= n
      /\ k <= q => y <= x
      /\ q < k => x + p <= y
  BY <1>1, NatProduct, MultipleAtMost, MultipleBelow
<1> HIDE DEF q, r, x, y
<1>3. y <= n - r
  BY <1>2
<1>4. QED
  BY <1>3 DEF y, r


\* The next multiple.
LEMMA MultipleNext ==
    ASSUME NEW n \in Nat, NEW p \in Nat \ {0}, n = (n \div p) * p
    PROVE  /\ n \div p \in Nat
           /\ (n + p) \div p = (n \div p) + 1
           /\ n + p = ((n + p) \div p) * p
<1> DEFINE k == n \div p
<1>1. k \in Nat /\ n = k * p
  BY DivMod
<1>2. k = n \div p
  OBVIOUS
<1> HIDE DEF k
<1>3. n + p = (k + 1) * p
  BY <1>1
<1>4. k + 1 \in Nat
  BY <1>1
<1>5. ((k + 1) * p) \div p = k + 1
  BY ONLY <1>4, p \in Nat \ {0}, MultipleDiv
<1>6. (n + p) \div p = k + 1
  BY ONLY <1>3, <1>5
<1>7. n + p = ((n + p) \div p) * p
  BY ONLY <1>3, <1>6
<1>8. QED
  BY ONLY <1>1, <1>2, <1>6, <1>7

\* Multiples are bounded by what a bound leaves without its remainder.
LEMMA MultipleRoom ==
    ASSUME NEW n \in Nat, NEW m \in Nat, NEW p \in Nat \ {0},
           n = (n \div p) * p, n <= m
    PROVE  n + (m % p) <= m
<1> DEFINE k == n \div p
           r == m % p
<1>1. k \in Nat /\ n = k * p
  BY DivMod
<1>2. r \in Nat
  BY DivMod
<1> HIDE DEF k
<1>3. k * p <= m
  BY ONLY <1>1, n <= m
<1>4. k * p <= m - (m % p)
  BY ONLY <1>1, <1>3, m \in Nat, p \in Nat \ {0}, MultipleFits
<1>5. n <= m - r
  BY ONLY <1>1, <1>4
<1> HIDE DEF r
<1>6. n + r <= m
  BY ONLY <1>2, <1>5, n \in Nat, m \in Nat
<1>7. QED
  BY <1>6 DEF r


\* What is r above a multiple, r being less than the divisor.
LEMMA AboveMultiple ==
    ASSUME NEW k \in Nat, NEW p \in Nat \ {0}, NEW r \in 0 .. (p - 1)
    PROVE  (k * p + r) \div p = k /\ (k * p + r) % p = r
<1> DEFINE x == k * p + r
<1>1. x \in Nat
  <2>1. k * p \in Nat
    BY NatProduct
  <2>2. QED
    BY <2>1
<1>2. /\ x \div p \in Nat /\ x % p \in 0 .. (p - 1)
      /\ x = ((x \div p) * p) + (x % p)
  BY <1>1, DivMod
<1> DEFINE m == x \div p
           s == x % p
<1>3. m \in Nat /\ s \in 0 .. (p - 1) /\ k * p + r = m * p + s
  BY <1>2
<1> HIDE DEF m, s
<1>4. k = m /\ r = s
  BY <1>3, OneQuotient
<1>5. QED
  BY <1>4 DEF m, s

\* A counter that is taken modulo p at each step.
LEMMA CounterWraps ==
    ASSUME NEW a \in Nat, NEW p \in Nat \ {0}
    PROVE  ((a % p) + 1) % p = (a + 1) % p
<1> DEFINE q == a \div p
           r == a % p
<1>1. q \in Nat /\ r \in 0 .. (p - 1) /\ a = q * p + r
  BY DivMod
<1> HIDE DEF q, r
<1>2. CASE r + 1 < p
  <2>1. r + 1 \in 0 .. (p - 1)
    BY <1>1, <1>2
  <2>2. (r + 1) % p = r + 1 /\ (q * p + (r + 1)) % p = r + 1
    BY <1>1, <2>1, SmallMod, AboveMultiple
  <2>3. a + 1 = q * p + (r + 1)
    <3>1. q * p \in Nat
      BY <1>1, NatProduct
    <3>2. QED
      BY <1>1, <3>1
  <2>4. QED
    BY <2>2, <2>3 DEF r
<1>3. CASE r + 1 = p
  <2>1. (q + 1) \in Nat /\ ((q + 1) * p) % p = 0 /\ (1 * p) % p = 0
    BY <1>1, MultipleMod
  <2>2. a + 1 = (q + 1) * p /\ p = 1 * p
    BY <1>1, <1>3
  <2>3. QED
    BY <1>3, <2>1, <2>2 DEF r
<1>4. QED
  BY <1>1, <1>2, <1>3


\* The two digits of a number below a square.
LEMMA TwoDigits ==
    ASSUME NEW p \in Nat \ {0}, NEW x \in 0 .. (p * p - 1)
    PROVE  x \div p \in 0 .. (p - 1) /\ x % p \in 0 .. (p - 1)
<1> DEFINE q == x \div p
           r == x % p
           y == q * p
           t == p * p
<1>1. t \in Nat
  BY NatProduct
<1>2. x \in 0 .. (t - 1)
  OBVIOUS
<1> HIDE DEF t
<1>3. x \in Nat
  BY ONLY <1>1, <1>2
<1>4. q \in Nat /\ r \in 0 .. (p - 1) /\ x = y + r
  BY ONLY <1>3, p \in Nat \ {0}, DivMod
<1>5. p <= q => p * p <= y
  BY <1>4, MultipleAtMost
<1> HIDE DEF q, r
<1>6. y \in Nat
  BY ONLY <1>4, p \in Nat \ {0}, NatProduct
<1> HIDE DEF y
<1>7. p <= q => t <= y
  BY ONLY <1>5 DEF t
<1>8. q < p
  BY ONLY <1>1, <1>2, <1>4, <1>6, <1>7, p \in Nat \ {0}
<1>9. QED
  BY <1>4, <1>8 DEF q, r


\* A multiple of 2p is an even multiple of p, and the next multiple an odd one.
LEMMA EvenMultiple ==
    ASSUME NEW n \in Nat, NEW p \in Nat \ {0}, n % (2 * p) = 0
    PROVE  (n \div p) % 2 = 0 /\ ((n + p) \div p) % 2 = 1
<1> DEFINE m == 2 * p
           k == n \div m
           d == 2 * k
<1>1. m \in Nat \ {0} /\ n % m = 0
  OBVIOUS
<1> HIDE DEF m
<1>2. k \in Nat /\ n = k * m
  <2>1. k \in Nat /\ n = (k * m) + (n % m)
    BY <1>1, DivMod
  <2>2. k * m \in Nat
    BY <1>1, <2>1, NatProduct
  <2> HIDE DEF k
  <2>3. QED
    BY <1>1, <2>1, <2>2
<1>3. d \in Nat /\ n = d * p
  <2>1. \A x, y \in Nat : x * (2 * y) = (2 * x) * y
    BY SMT
  <2>2. QED
    BY <1>2, <2>1 DEF m
<1> HIDE DEF d
<1>4. n \div p = d
  BY <1>3, MultipleDiv
<1>5. (n + p) \div p = d + 1
  BY <1>3, <1>4, MultipleNext
<1>6. d % 2 = 0 /\ (d + 1) % 2 = 1
  <2>1. k \in Nat
    BY <1>2
  <2> HIDE DEF k
  <2>2. (2 * k) % 2 = 0 /\ (2 * k + 1) % 2 = 1
    BY <2>1
  <2>3. QED
    BY <2>2 DEF d
<1>7. QED
  BY <1>4, <1>5, <1>6
=============================================================================
