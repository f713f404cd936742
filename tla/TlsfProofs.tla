----------------------------- MODULE TlsfProofs -----------------------------
(***************************************************************************)
(* The heap for every size of the pool, every number of lists, every       *)
(* request and every sequence of calls.                                    *)
(***************************************************************************)
EXTENDS Tlsf, SequenceTheorems, WellFoundedInduction, TLAPS

-----------------------------------------------------------------------------
(* Numbers.                                                                *)

\* A set of numbers that is not empty has a least one.
LEMMA LeastOf ==
  ASSUME NEW S \in SUBSET Nat, S # {}
  PROVE  /\ \E x \in S : \A y \in S : x <= y
         /\ Min(S) \in S /\ \A y \in S : Min(S) <= y
<1>1. PICK x \in S : \A y \in S : ~(<<y, x>> \in OpToRel(<, Nat))
  BY NatLessThanWellFounded, WFMin
<1>2. OpToRel(<, Nat) = {ss \in Nat \X Nat : ss[1] < ss[2]}
  BY Zenon DEF OpToRel
<1>3. \A y \in S : ~(<<y, x>> \in {ss \in Nat \X Nat : ss[1] < ss[2]})
  BY <1>1, <1>2, Zenon
<1>4. \A y \in S : ~(y < x)
  <2> SUFFICES ASSUME NEW y \in S, y < x PROVE FALSE
    OBVIOUS
  <2>1. <<y, x>> \in Nat \X Nat /\ <<y, x>>[1] < <<y, x>>[2]
    OBVIOUS
  <2> QED BY <1>3, <2>1, Zenon
<1>5. \A y \in S : x <= y
  BY <1>4
<1> QED BY <1>5 DEF Min

\* What holds of 0 and passes from a number to the next holds of all.
LEMMA Upwards ==
  ASSUME NEW good, 0 \in good, \A i \in Nat : i \in good => i + 1 \in good
  PROVE  Nat \subseteq good
<1> SUFFICES ASSUME NEW k \in Nat, k \notin good PROVE FALSE
  OBVIOUS
<1> DEFINE bad == {i \in Nat : i \notin good}
<1>1. bad \in SUBSET Nat /\ bad # {}
  OBVIOUS
<1>2. PICK x \in bad : \A y \in bad : x <= y
  BY <1>1, LeastOf
<1>3. x \in Nat /\ x \notin good /\ x # 0
  BY <1>2
<1>4. x - 1 \in Nat /\ (x - 1) + 1 = x /\ ~(x <= x - 1)
  BY <1>3
<1>5. x - 1 \in good
  BY <1>2, <1>4
<1> QED BY <1>3, <1>4, <1>5

\* The powers of two up to the n-th exist.
LEMMA PowersUpTo ==
  ASSUME NEW n \in Nat
  PROVE  \E f \in [0 .. n -> Nat] : f[0] = 1 /\ \A i \in 1 .. n : f[i] = 2 * f[i - 1]
<1> DEFINE Pows(m, f) == f[0] = 1 /\ \A i \in 1 .. m : f[i] = 2 * f[i - 1]
           good == {m \in Nat : \E f \in [0 .. m -> Nat] : Pows(m, f)}
<1>1. 0 \in good
  <2>1. [i \in 0 .. 0 |-> 1] \in [0 .. 0 -> Nat] /\ Pows(0, [i \in 0 .. 0 |-> 1])
    OBVIOUS
  <2> QED BY <2>1
<1>2. ASSUME NEW m \in Nat, m \in good PROVE m + 1 \in good
  <2>1. PICK f \in [0 .. m -> Nat] : Pows(m, f)
    BY <1>2
  <2> DEFINE g == [i \in 0 .. m + 1 |-> IF i <= m THEN f[i] ELSE 2 * f[m]]
  <2>2. f[m] \in Nat /\ 2 * f[m] \in Nat
    BY <2>1
  <2>3. g \in [0 .. m + 1 -> Nat]
    BY <2>2
  <2>4. g[0] = 1
    BY <2>1
  <2>5. ASSUME NEW i \in 1 .. m + 1 PROVE g[i] = 2 * g[i - 1]
    <3>1. i - 1 \in 0 .. m /\ g[i - 1] = f[i - 1]
      OBVIOUS
    <3>2. CASE i <= m
      BY <2>1, <3>1, <3>2
    <3>3. CASE i = m + 1
      BY <3>1, <3>3
    <3> QED BY <3>2, <3>3
  <2>6. Pows(m + 1, g)
    BY <2>4, <2>5
  <2> HIDE DEF g, Pows
  <2> QED BY <2>3, <2>6
<1>3. n \in good
  <2> HIDE DEF good
  <2> QED BY <1>1, <1>2, Upwards
<1> QED BY <1>3

\* Two such functions agree where both are defined.
LEMMA PowersAgree ==
  ASSUME NEW m \in Nat, NEW f, NEW g, f[0] = 1, g[0] = 1,
         \A i \in 1 .. m : f[i] = 2 * f[i - 1], \A i \in 1 .. m : g[i] = 2 * g[i - 1]
  PROVE  f[m] = g[m]
<1> DEFINE good == {i \in Nat : i <= m => f[i] = g[i]}
<1>1. 0 \in good
  OBVIOUS
<1>2. ASSUME NEW i \in Nat, i \in good PROVE i + 1 \in good
  <2> SUFFICES ASSUME i + 1 <= m PROVE f[i + 1] = g[i + 1]
    OBVIOUS
  <2>1. i + 1 \in 1 .. m /\ (i + 1) - 1 = i
    OBVIOUS
  <2>2. f[i + 1] = 2 * f[i] /\ g[i + 1] = 2 * g[i]
    BY <2>1
  <2> QED BY <1>2, <2>2
<1>3. m \in good
  <2> HIDE DEF good
  <2> QED BY <1>1, <1>2, Upwards
<1> QED BY <1>3

\* Pow2 is what its equation says.
LEMMA Pow2Is ==
  /\ Pow2[0] = 1
  /\ \A k \in Nat : Pow2[k] \in Nat \ {0} /\ Pow2[k + 1] = 2 * Pow2[k]
<1> DEFINE P(n, f) == f \in [0 .. n -> Nat] /\ f[0] = 1 /\ \A i \in 1 .. n : f[i] = 2 * f[i - 1]
           upto(n) == CHOOSE f : P(n, f)
           all == [n \in Nat |-> upto(n)[n]]
           Def(f) == [k \in Nat |-> IF k = 0 THEN 1 ELSE 2 * f[k - 1]]
<1>1. ASSUME NEW n \in Nat PROVE P(n, upto(n))
  <2>1. \E f : P(n, f)
    BY PowersUpTo
  <2> QED BY <2>1, Zenon
<1> HIDE DEF upto
<1>2. all[0] = 1
  BY <1>1
<1>3. ASSUME NEW n \in Nat PROVE all[n + 1] = 2 * all[n]
  <2> DEFINE f == upto(n)
             g == upto(n + 1)
  <2>0. n + 1 \in Nat /\ n <= n + 1
    OBVIOUS
  <2>1. P(n, f) /\ P(n + 1, g)
    <3> HIDE DEF P
    <3> QED BY <1>1, <2>0
  <2> HIDE DEF f, g
  <2>2. f[n] = g[n]
    <3>1. /\ f[0] = 1 /\ g[0] = 1
          /\ \A i \in 1 .. n : f[i] = 2 * f[i - 1]
          /\ \A i \in 1 .. n : g[i] = 2 * g[i - 1]
      BY <2>1
    <3> QED BY <3>1, PowersAgree, Zenon
  <2>3. n + 1 \in 1 .. n + 1 /\ (n + 1) - 1 = n
    OBVIOUS
  <2>4. g[n + 1] = 2 * g[n]
    BY <2>1, <2>3
  <2> QED BY <2>2, <2>4 DEF f, g
<1>4. all = Def(all)
  <2> SUFFICES ASSUME NEW k \in Nat PROVE all[k] = IF k = 0 THEN 1 ELSE 2 * all[k - 1]
    OBVIOUS
  <2> HIDE DEF all
  <2>1. CASE k = 0
    BY <1>2, <2>1
  <2>2. CASE k # 0
    <3>1. k - 1 \in Nat /\ (k - 1) + 1 = k
      BY <2>2
    <3> QED BY <1>3, <2>2, <3>1
  <2> QED BY <2>1, <2>2
<1>5. Pow2 = Def(Pow2)
  <2> HIDE DEF all
  <2>1. Pow2 = CHOOSE f : f = Def(f)
    BY Zenon DEF Pow2
  <2> QED BY <1>4, <2>1, Zenon
<1>6. \A k \in Nat : Pow2[k] = IF k = 0 THEN 1 ELSE 2 * Pow2[k - 1]
  BY <1>5
<1>7. Pow2[0] = 1
  BY <1>6
<1>8. ASSUME NEW k \in Nat PROVE Pow2[k + 1] = 2 * Pow2[k]
  <2>1. k + 1 \in Nat /\ k + 1 # 0 /\ (k + 1) - 1 = k
    OBVIOUS
  <2> QED BY <1>6, <2>1
<1>9. Nat \subseteq {k \in Nat : Pow2[k] \in Nat \ {0}}
  <2> DEFINE good == {k \in Nat : Pow2[k] \in Nat \ {0}}
  <2>1. 0 \in good /\ \A k \in Nat : k \in good => k + 1 \in good
    BY <1>7, <1>8
  <2> HIDE DEF good
  <2>2. Nat \subseteq good
    BY <2>1, Upwards
  <2> QED BY <2>2 DEF good
<1> QED BY <1>7, <1>8, <1>9

\* The power of a sum, and what grows with the exponent.
LEMMA Pow2Sum == \A a, b \in Nat : Pow2[a + b] = Pow2[a] * Pow2[b]
<1> SUFFICES ASSUME NEW a \in Nat PROVE \A b \in Nat : Pow2[a + b] = Pow2[a] * Pow2[b]
  OBVIOUS
<1> DEFINE good == {b \in Nat : Pow2[a + b] = Pow2[a] * Pow2[b]}
<1>0. Pow2[a] \in Nat
  BY Pow2Is
<1>1. 0 \in good
  BY <1>0, Pow2Is
<1>2. ASSUME NEW b \in Nat, b \in good PROVE b + 1 \in good
  <2>1. Pow2[b + 1] = 2 * Pow2[b] /\ Pow2[b] \in Nat
    BY Pow2Is
  <2>2. Pow2[(a + b) + 1] = 2 * Pow2[a + b] /\ a + (b + 1) = (a + b) + 1
    <3>1. a + b \in Nat
      OBVIOUS
    <3> QED BY <3>1, Pow2Is
  <2>3. \A x, y \in Nat : 2 * (x * y) = x * (2 * y)
    OBVIOUS
  <2> QED BY <1>0, <1>2, <2>1, <2>2, <2>3
<1>3. Nat \subseteq good
  <2> HIDE DEF good
  <2> QED BY <1>1, <1>2, Upwards
<1> QED BY <1>3

LEMMA Pow2Grows == \A a, b \in Nat : a <= b => Pow2[a] <= Pow2[b]
<1> SUFFICES ASSUME NEW a \in Nat, NEW b \in Nat, a <= b PROVE Pow2[a] <= Pow2[b]
  OBVIOUS
<1>1. PICK c \in Nat : b = a + c
  <2>1. b - a \in Nat /\ b = a + (b - a)
    OBVIOUS
  <2> QED BY <2>1
<1>2. Pow2[b] = Pow2[a] * Pow2[c] /\ Pow2[a] \in Nat /\ Pow2[c] \in Nat \ {0}
  BY <1>1, Pow2Sum, Pow2Is
<1>3. \A x \in Nat, y \in Nat \ {0} : x <= x * y
  OBVIOUS
<1> QED BY <1>2, <1>3

LEMMA Pow2Above == \A k \in Nat : k < Pow2[k]
<1> DEFINE good == {k \in Nat : k < Pow2[k]}
<1>1. 0 \in good
  BY Pow2Is
<1>2. ASSUME NEW k \in Nat, k \in good PROVE k + 1 \in good
  <2>1. Pow2[k + 1] = 2 * Pow2[k] /\ Pow2[k] \in Nat
    BY Pow2Is
  <2> QED BY <1>2, <2>1
<1>3. Nat \subseteq good
  <2> HIDE DEF good
  <2> QED BY <1>1, <1>2, Upwards
<1> QED BY <1>3

\* Quotients and remainders.
LEMMA Quotient ==
  ASSUME NEW a \in Nat, NEW d \in Nat \ {0}
  PROVE  /\ a \div d \in Nat /\ a % d \in 0 .. d - 1 /\ a = (a \div d) * d + (a % d)
         /\ (a \div d) * d <= a /\ a < (a \div d) * d + d
OBVIOUS

LEMMA Products ==
  ASSUME NEW p \in Nat, NEW q \in Nat, NEW d \in Nat \ {0}
  PROVE  /\ p <= q <=> p * d <= q * d
         /\ p < q <=> p * d < q * d
         /\ p < q => p * d + d <= q * d
         /\ p * d = q * d => p = q
OBVIOUS

LEMMA QuotientIs ==
  ASSUME NEW a \in Nat, NEW d \in Nat \ {0}, NEW q \in Nat, q * d <= a, a < q * d + d
  PROVE  a \div d = q
<1>1. PICK p \in Nat : p = a \div d /\ p * d <= a /\ a < p * d + d
  BY Quotient
<1>2. CASE p < q
  <2>1. p * d + d <= q * d
    BY <1>2, Products
  <2> QED BY <1>1, <2>1
<1>3. CASE q < p
  <2>1. q * d + d <= p * d
    BY <1>3, Products
  <2> QED BY <1>1, <2>1
<1> QED BY <1>1, <1>2, <1>3

\* Multiples of d: their sums, differences and multiples, and the remainder.
Multiple(x, d) == \E q \in Nat : x = q * d

LEMMA MultipleIff ==
  ASSUME NEW x \in Nat, NEW d \in Nat \ {0}
  PROVE  Multiple(x, d) <=> x % d = 0
<1>1. ASSUME Multiple(x, d) PROVE x % d = 0
  <2>1. PICK q \in Nat : x = q * d
    BY <1>1 DEF Multiple
  <2>2. x \div d = q
    BY <2>1, QuotientIs
  <2> QED BY <2>1, <2>2, Quotient
<1>2. ASSUME x % d = 0 PROVE Multiple(x, d)
  <2>1. x = (x \div d) * d /\ x \div d \in Nat
    BY <1>2, Quotient
  <2> QED BY <2>1, Zenon DEF Multiple
<1> QED BY <1>1, <1>2

LEMMA MultipleSum ==
  ASSUME NEW x \in Nat, NEW y \in Nat, NEW d \in Nat \ {0}, Multiple(x, d), Multiple(y, d)
  PROVE  Multiple(x + y, d) /\ (x <= y => Multiple(y - x, d))
<1>1. PICK p \in Nat, q \in Nat : x = p * d /\ y = q * d
  BY DEF Multiple
<1>2. x + y = (p + q) * d /\ p + q \in Nat
  BY <1>1
<1>3. ASSUME x <= y PROVE Multiple(y - x, d)
  <2>1. p <= q
    BY <1>1, <1>3, Products
  <2>2. y - x = (q - p) * d /\ q - p \in Nat
    BY <1>1, <2>1
  <2> QED BY <2>2, Zenon DEF Multiple
<1>4. Multiple(x + y, d)
  BY <1>2, Zenon DEF Multiple
<1> QED BY <1>3, <1>4

LEMMA MultipleOfMultiple ==
  ASSUME NEW x \in Nat, NEW d \in Nat \ {0}, NEW e \in Nat \ {0}, Multiple(x, d), Multiple(d, e)
  PROVE  Multiple(x, e)
<1>1. PICK p \in Nat, q \in Nat : x = p * d /\ d = q * e
  BY DEF Multiple
<1>2. x = (p * q) * e /\ p * q \in Nat
  BY <1>1
<1> QED BY <1>2, Zenon DEF Multiple

\* Rounding down and up to a multiple.
LEMMA Rounding ==
  ASSUME NEW r \in Nat, NEW d \in Nat \ {0}
  PROVE  /\ r - (r % d) \in Nat /\ Multiple(r - (r % d), d) /\ r - (r % d) <= r /\ r < r - (r % d) + d
         /\ Multiple(r, d) => (r + d - 1) - ((r + d - 1) % d) = r
<1>0. \E q \in Nat, m \in 0 .. d - 1 : m = r % d /\ r = q * d + m
  BY Quotient
<1>1. PICK q \in Nat, m \in 0 .. d - 1 : m = r % d /\ r = q * d + m
  BY <1>0
<1>2. Multiple(r - (r % d), d)
  <2>1. r - m = q * d
    BY <1>1
  <2> QED BY <1>1, <2>1, Zenon DEF Multiple
<1>3. ASSUME Multiple(r, d) PROVE (r + d - 1) - ((r + d - 1) % d) = r
  <2>1. PICK x \in Nat : r = x * d
    BY <1>3 DEF Multiple
  <2>2. PICK s \in Nat : s = r + d - 1
    OBVIOUS
  <2>3. s \div d = x
    BY <2>1, <2>2, QuotientIs
  <2>4. s = (s \div d) * d + (s % d) /\ s % d \in 0 .. d - 1
    BY Quotient
  <2> QED BY <2>1, <2>2, <2>3, <2>4
<1>4. r - (r % d) \in Nat /\ r - (r % d) <= r /\ r < r - (r % d) + d
  <2>1. r - m \in Nat /\ r - m <= r /\ r < r - m + d
    BY <1>1
  <2> QED BY <1>1, <2>1
<1> QED BY <1>2, <1>3, <1>4
-----------------------------------------------------------------------------
(* The index of the free lists.                                            *)

LEMMA Consts ==
  /\ BLOCK_ALIGN \in Nat \ {0} /\ MIN_BLOCK_SIZE = BLOCK_ALIGN
  /\ BHDR_OVERHEAD = BLOCK_ALIGN /\ BHDR_SIZE = 2 * BLOCK_ALIGN
  /\ MAX_SLI \in Nat \ {0} /\ SMALL_BLOCK \in Nat \ {0} /\ REAL_FLI \in Nat \ {0}
  /\ POOL \in Nat /\ WORD \in Nat \ {0} /\ MAX_FLI \in Nat /\ MAX_LOG2_SLI \in Nat /\ FLI_OFFSET \in Nat
  /\ MAX_LOG2_SLI <= FLI_OFFSET + 1 /\ FLI_OFFSET < MAX_FLI
  /\ Pow2[MAX_FLI] \in Nat /\ POOL < Pow2[MAX_FLI] /\ 4 * Pow2[MAX_FLI] <= WORD
  /\ PTR \in Nat \ {0} /\ BLOCK_ALIGN = 2 * PTR
<1>1. /\ PTR \in Nat \ {0} /\ POOL \in Nat /\ WORD \in Nat \ {0} /\ MAX_FLI \in Nat /\ MAX_LOG2_SLI \in Nat /\ FLI_OFFSET \in Nat
      /\ MAX_LOG2_SLI <= FLI_OFFSET + 1 /\ FLI_OFFSET < MAX_FLI
      /\ POOL < Pow2[MAX_FLI] /\ 4 * Pow2[MAX_FLI] <= WORD
  BY PoolAssumption
<1>2. Pow2[MAX_FLI] \in Nat /\ MAX_SLI \in Nat \ {0} /\ SMALL_BLOCK \in Nat \ {0}
  BY <1>1, Pow2Is DEF MAX_SLI, SMALL_BLOCK
<1> QED BY <1>1, <1>2 DEF BLOCK_ALIGN, MIN_BLOCK_SIZE, BHDR_OVERHEAD, BHDR_SIZE, REAL_FLI

\* The position of the highest bit.
LEMMA MsBit ==
  ASSUME NEW r \in Nat \ {0}
  PROVE  /\ ms_bit(r) \in Nat /\ Pow2[ms_bit(r)] <= r /\ r < Pow2[ms_bit(r) + 1]
         /\ \A k \in Nat : Pow2[k] <= r => k <= ms_bit(r)
         /\ \A k \in Nat : r < Pow2[k] => ms_bit(r) < k
<1> DEFINE S == {k \in Nat : r < Pow2[k + 1]}
<1>1. r \in S
  <2>1. r < Pow2[r] /\ Pow2[r] <= Pow2[r + 1] /\ Pow2[r] \in Nat /\ Pow2[r + 1] \in Nat
    BY Pow2Above, Pow2Grows, Pow2Is
  <2> QED BY <2>1
<1>2. PICK k \in S : \A j \in S : k <= j
  BY <1>1, LeastOf
<1>3. k \in 0 .. r
  BY <1>1, <1>2
<1>4. Pow2[k] <= r
  <2>1. CASE k = 0
    BY <2>1, Pow2Is
  <2>2. CASE k # 0
    <3>1. k - 1 \in Nat /\ (k - 1) + 1 = k /\ ~(k <= k - 1)
      BY <1>3, <2>2
    <3>2. ~(r < Pow2[k])
      BY <1>2, <3>1
    <3>3. Pow2[k] \in Nat
      BY <1>3, Pow2Is
    <3> QED BY <3>2, <3>3
  <2> QED BY <2>1, <2>2
<1>5. PICK m \in 0 .. r : m = ms_bit(r) /\ Pow2[m] <= r /\ r < Pow2[m + 1]
  <2>1. \E j \in 0 .. r : Pow2[j] <= r /\ r < Pow2[j + 1]
    BY <1>2, <1>3, <1>4
  <2>2. ms_bit(r) = CHOOSE j \in 0 .. r : Pow2[j] <= r /\ r < Pow2[j + 1]
    BY DEF ms_bit
  <2> QED BY <2>1, <2>2
<1>6. ASSUME NEW j \in Nat, Pow2[j] <= r, ~(j <= m) PROVE FALSE
  <2>1. m + 1 <= j /\ m + 1 \in Nat
    BY <1>6
  <2>2. Pow2[m + 1] <= Pow2[j] /\ Pow2[m + 1] \in Nat /\ Pow2[j] \in Nat
    BY <2>1, Pow2Grows, Pow2Is
  <2> QED BY <1>5, <1>6, <2>2
<1>7. ASSUME NEW j \in Nat, r < Pow2[j], ~(m < j) PROVE FALSE
  <2>1. Pow2[j] <= Pow2[m] /\ Pow2[m] \in Nat /\ Pow2[j] \in Nat
    BY <1>7, Pow2Grows, Pow2Is
  <2> QED BY <1>5, <1>7, <2>1
<1> QED BY <1>5, <1>6, <1>7

\* The lists of small blocks.
SmallWidth == Pow2[FLI_OFFSET + 1 - MAX_LOG2_SLI]

LEMMA SmallLists ==
  /\ SmallWidth \in Nat \ {0} /\ SMALL_BLOCK = MAX_SLI * SmallWidth /\ SMALL_BLOCK \div MAX_SLI = SmallWidth
  /\ Multiple(BLOCK_ALIGN, SmallWidth)
<1>1. PICK k \in Nat : k = FLI_OFFSET + 1 - MAX_LOG2_SLI
  BY Consts
<1>2. SmallWidth \in Nat \ {0}
  BY <1>1, Pow2Is DEF SmallWidth
<1>3. SMALL_BLOCK = MAX_SLI * SmallWidth
  <2>1. MAX_LOG2_SLI + k = FLI_OFFSET + 1 /\ MAX_LOG2_SLI \in Nat
    BY <1>1, Consts
  <2>2. Pow2[MAX_LOG2_SLI + k] = Pow2[MAX_LOG2_SLI] * Pow2[k]
    BY <2>1, Pow2Sum
  <2> QED BY <1>1, <2>1, <2>2 DEF SMALL_BLOCK, MAX_SLI, SmallWidth
<1>4. SMALL_BLOCK \div MAX_SLI = SmallWidth
  <2>1. \A x, y \in Nat \ {0} : y * x <= x * y /\ x * y < y * x + x /\ x * y \in Nat
    OBVIOUS
  <2>2. SmallWidth * MAX_SLI <= SMALL_BLOCK /\ SMALL_BLOCK < SmallWidth * MAX_SLI + MAX_SLI
    BY <1>2, <1>3, <2>1, Consts
  <2> QED BY <1>2, <2>2, QuotientIs, Consts
<1>5. Multiple(BLOCK_ALIGN, SmallWidth)
  <2>1. BLOCK_ALIGN % SmallWidth = 0
    BY <1>4, PoolAssumption
  <2> QED BY <1>2, <2>1, MultipleIff, Consts
<1> QED BY <1>2, <1>3, <1>4, <1>5

LEMMA SmallMap ==
  ASSUME NEW r \in Nat, r < SMALL_BLOCK
  PROVE  MAPPING_INSERT(r) = <<0, r \div SmallWidth>> /\ r \div SmallWidth \in 0 .. MAX_SLI - 1
<1>1. MAPPING_INSERT(r) = <<0, r \div SmallWidth>>
  BY SmallLists DEF MAPPING_INSERT
<1>2. PICK q \in Nat : q = r \div SmallWidth /\ q * SmallWidth <= r
  BY SmallLists, Quotient
<1>3. q * SmallWidth < MAX_SLI * SmallWidth
  BY <1>2, SmallLists, Consts
<1>4. q < MAX_SLI
  BY <1>3, SmallLists, Consts, Products
<1> QED BY <1>1, <1>2, <1>4, Consts

\* The lists of the others: a level for each power of two, d apart.
LEMMA LargeMap ==
  ASSUME NEW r \in Nat, SMALL_BLOCK <= r
  PROVE  \E fl \in Nat, d \in Nat \ {0}, q \in Nat :
            /\ fl = ms_bit(r) /\ fl > FLI_OFFSET /\ d = Pow2[fl - MAX_LOG2_SLI]
            /\ Pow2[fl] = MAX_SLI * d /\ Pow2[fl] <= r /\ r < Pow2[fl + 1]
            /\ q = r \div d /\ q - MAX_SLI \in 0 .. MAX_SLI - 1
            /\ MAPPING_INSERT(r) = <<fl - FLI_OFFSET, q - MAX_SLI>>
<1>0. r \in Nat \ {0}
  BY Consts
<1>1. PICK fl \in Nat : fl = ms_bit(r) /\ Pow2[fl] <= r /\ r < Pow2[fl + 1] /\ FLI_OFFSET + 1 <= fl
  <2>1. FLI_OFFSET + 1 \in Nat /\ Pow2[FLI_OFFSET + 1] <= r
    BY Consts DEF SMALL_BLOCK
  <2> QED BY <1>0, <2>1, MsBit
<1>2. PICK k \in Nat : k = fl - MAX_LOG2_SLI /\ MAX_LOG2_SLI + k = fl
  BY <1>1, Consts
<1>3. PICK d \in Nat \ {0} : d = Pow2[k] /\ Pow2[fl] = MAX_SLI * d
  <2>1. Pow2[MAX_LOG2_SLI + k] = MAX_SLI * Pow2[k] /\ Pow2[k] \in Nat \ {0}
    BY Pow2Sum, Pow2Is, Consts DEF MAX_SLI
  <2> QED BY <1>2, <2>1
<1>4. PICK q \in Nat : q = r \div d /\ q * d <= r /\ r < q * d + d
  BY Quotient
<1>5. Pow2[fl + 1] = 2 * (MAX_SLI * d)
  BY <1>1, <1>3, Pow2Is
<1>6. MAX_SLI <= q
  <2>1. MAX_SLI * d < (q + 1) * d
    <3>1. (q + 1) * d = q * d + d /\ MAX_SLI * d \in Nat /\ q * d \in Nat
      BY Consts
    <3> QED BY <1>1, <1>3, <1>4, <3>1
  <2>2. MAX_SLI < q + 1
    BY <2>1, Products, Consts
  <2> QED BY <2>2, Consts
<1>7. q < 2 * MAX_SLI
  <2>1. q * d < (2 * MAX_SLI) * d
    <3>1. (2 * MAX_SLI) * d = 2 * (MAX_SLI * d) /\ MAX_SLI * d \in Nat /\ q * d \in Nat
      BY Consts
    <3> QED BY <1>1, <1>4, <1>5, <3>1
  <2>2. 2 * MAX_SLI \in Nat
    BY Consts
  <2> QED BY <2>1, <2>2, Products
<1>8. q - MAX_SLI \in 0 .. MAX_SLI - 1
  BY <1>6, <1>7, Consts
<1>9. MAPPING_INSERT(r) = <<fl - FLI_OFFSET, q - MAX_SLI>>
  <2>1. ~(r < SMALL_BLOCK) /\ ~(k < 0)
    BY Consts
  <2>2. Shr(r, k) = q
    BY <1>3, <1>4, <2>1 DEF Shr
  <2> QED BY <1>1, <1>2, <2>1, <2>2 DEF MAPPING_INSERT
<1>10. fl > FLI_OFFSET /\ d = Pow2[fl - MAX_LOG2_SLI]
  BY <1>1, <1>2, <1>3, Consts
<1> QED BY <1>1, <1>3, <1>4, <1>8, <1>9, <1>10, Zenon

\* Every block has a list.
LEMMA MappingRange ==
  ASSUME NEW r \in 0 .. POOL
  PROVE  MAPPING_INSERT(r) \in (0 .. REAL_FLI - 1) \X (0 .. MAX_SLI - 1)
<1>1. CASE r < SMALL_BLOCK
  BY <1>1, SmallMap, Consts
<1>2. CASE SMALL_BLOCK <= r
  <2>1. PICK fl \in Nat, d \in Nat \ {0}, q \in Nat :
            /\ fl = ms_bit(r) /\ fl > FLI_OFFSET /\ Pow2[fl] <= r
            /\ q - MAX_SLI \in 0 .. MAX_SLI - 1
            /\ MAPPING_INSERT(r) = <<fl - FLI_OFFSET, q - MAX_SLI>>
    BY <1>2, LargeMap
  <2>2. fl < MAX_FLI
    BY <1>2, <2>1, MsBit, Consts
  <2>3. fl - FLI_OFFSET \in 0 .. REAL_FLI - 1
    BY <2>1, <2>2, Consts DEF REAL_FLI
  <2> QED BY <2>1, <2>3
<1> QED BY <1>1, <1>2, Consts
-----------------------------------------------------------------------------
(* The free lists.                                                         *)

At == (0 .. REAL_FLI - 1) \X (0 .. MAX_SLI - 1)
IsHeap(h) == h = [hdr |-> h.hdr, matrix |-> h.matrix, fl_bitmap |-> h.fl_bitmap, sl_bitmap |-> h.sl_bitmap]

\* The bitmaps say which lists are not empty.
BitsMatch(h) ==
    /\ h.sl_bitmap \in [0 .. REAL_FLI - 1 -> SUBSET (0 .. MAX_SLI - 1)]
    /\ \A at \in At : h.matrix[at] # <<>> <=> at[2] \in h.sl_bitmap[at[1]]
    /\ h.fl_bitmap = {fl \in 0 .. REAL_FLI - 1 : h.sl_bitmap[fl] # {}}

\* The lists hold the blocks of f's domain, once, each on the list of its size.
Listed(h, f) ==
    /\ h.matrix \in [At -> Seq(Int)]
    /\ \A at \in At : /\ ToSet(h.matrix[at]) = {b \in DOMAIN f : MAPPING_INSERT(f[b]) = at}
                      /\ IsInjective(h.matrix[at])
    /\ BitsMatch(h)

\* A block in front of a list.
LEMMA Pushed ==
  ASSUME NEW L \in Seq(Int), NEW b \in Int, b \notin ToSet(L), IsInjective(L)
  PROVE  /\ <<b>> \o L \in Seq(Int) /\ <<b>> \o L # <<>>
         /\ ToSet(<<b>> \o L) = ToSet(L) \cup {b} /\ IsInjective(<<b>> \o L)
<1>1. PICK M : /\ M = <<b>> \o L /\ M \in Seq(Int) /\ Len(M) = 1 + Len(L)
               /\ \A i \in 1 .. 1 + Len(L) : M[i] = IF i <= 1 THEN <<b>>[i] ELSE L[i - 1]
  <2>1. <<b>> \in Seq(Int) /\ Len(<<b>>) = 1
    OBVIOUS
  <2>2. /\ <<b>> \o L \in Seq(Int) /\ Len(<<b>> \o L) = Len(<<b>>) + Len(L)
        /\ \A i \in 1 .. Len(<<b>>) + Len(L) : (<<b>> \o L)[i] = IF i <= Len(<<b>>) THEN <<b>>[i] ELSE L[i - Len(<<b>>)]
    BY <2>1, ConcatProperties, Zenon
  <2> QED BY <2>1, <2>2, Zenon
<1>2. /\ Len(M) = Len(L) + 1 /\ M[1] = b /\ Len(L) \in Nat /\ DOMAIN M = 1 .. Len(L) + 1 /\ DOMAIN L = 1 .. Len(L)
      /\ \A i \in 1 .. Len(L) : M[i + 1] = L[i]
  BY <1>1
<1>3. \A i \in DOMAIN M : i # 1 => i - 1 \in DOMAIN L /\ M[i] = L[i - 1]
  <2> SUFFICES ASSUME NEW i \in DOMAIN M, i # 1 PROVE i - 1 \in DOMAIN L /\ M[i] = L[i - 1]
    OBVIOUS
  <2>1. i - 1 \in 1 .. Len(L) /\ (i - 1) + 1 = i
    BY <1>2
  <2> QED BY <1>2, <2>1
<1>4. ToSet(M) = ToSet(L) \cup {b}
  <2>1. ASSUME NEW x \in ToSet(L) PROVE x \in ToSet(M)
    <3>1. PICK i \in DOMAIN L : x = L[i]
      BY DEF ToSet
    <3>2. i + 1 \in DOMAIN M /\ M[i + 1] = x
      BY <1>2, <3>1
    <3> QED BY <3>2 DEF ToSet
  <2>2. b \in ToSet(M)
    BY <1>2 DEF ToSet
  <2>3. ASSUME NEW x \in ToSet(M) PROVE x \in ToSet(L) \cup {b}
    <3>1. PICK i \in DOMAIN M : x = M[i]
      BY DEF ToSet
    <3>2. CASE i = 1
      BY <1>2, <3>1, <3>2
    <3>3. CASE i # 1
      BY <1>3, <3>1, <3>3 DEF ToSet
    <3> QED BY <3>2, <3>3
  <2> QED BY <2>1, <2>2, <2>3
<1>5. IsInjective(M)
  <2> SUFFICES ASSUME NEW i \in DOMAIN M, NEW j \in DOMAIN M, M[i] = M[j] PROVE i = j
    BY DEF IsInjective
  <2>1. CASE i # 1 /\ j # 1
    <3>1. i - 1 = j - 1
      BY <1>3, <2>1 DEF IsInjective
    <3> QED BY <1>2, <3>1
  <2>2. CASE i = 1 /\ j # 1
    BY <1>2, <1>3, <2>2 DEF ToSet
  <2>3. CASE i # 1 /\ j = 1
    BY <1>2, <1>3, <2>3 DEF ToSet
  <2> QED BY <2>1, <2>2, <2>3
<1>6. M # <<>>
  BY <1>2
<1> QED BY <1>1, <1>4, <1>5, <1>6

\* A list without the block at i.
LEMMA Unlinked ==
  ASSUME NEW L \in Seq(Int), NEW i \in DOMAIN L, IsInjective(L)
  PROVE  /\ RemoveAt(L, i) \in Seq(Int)
         /\ ToSet(RemoveAt(L, i)) = ToSet(L) \ {L[i]} /\ IsInjective(RemoveAt(L, i))
<1>1. PICK n \in Nat : n = Len(L) /\ DOMAIN L = 1 .. n /\ i \in 1 .. n
  OBVIOUS
<1>2. PICK s : /\ s = SubSeq(L, 1, i - 1) /\ s \in Seq(Int) /\ Len(s) = i - 1
               /\ \A j \in 1 .. i - 1 : s[j] = L[j]
  <2>1. \A j \in 1 .. i - 1 : L[j] \in Int
    BY <1>1
  <2>2. /\ SubSeq(L, 1, i - 1) \in Seq(Int)
        /\ Len(SubSeq(L, 1, i - 1)) = IF 1 <= i - 1 THEN i - 1 - 1 + 1 ELSE 0
        /\ \A j \in 1 .. i - 1 - 1 + 1 : SubSeq(L, 1, i - 1)[j] = L[1 + j - 1]
    BY <1>1, <2>1, SubSeqProperties
  <2>3. Len(SubSeq(L, 1, i - 1)) = i - 1 /\ \A j \in 1 .. i - 1 : SubSeq(L, 1, i - 1)[j] = L[j]
    BY <1>1, <2>2
  <2> QED BY <2>2, <2>3, Zenon
<1>3. PICK t : /\ t = SubSeq(L, i + 1, Len(L)) /\ t \in Seq(Int) /\ Len(t) = n - i
               /\ \A j \in 1 .. n - i : t[j] = L[i + j]
  <2>0. PICK k \in Int : k = i + 1
    BY <1>1
  <2>1. \A j \in k .. n : L[j] \in Int
    BY <1>1, <2>0
  <2>2. /\ SubSeq(L, k, n) \in Seq(Int)
        /\ Len(SubSeq(L, k, n)) = IF k <= n THEN n - k + 1 ELSE 0
        /\ \A j \in 1 .. n - k + 1 : SubSeq(L, k, n)[j] = L[k + j - 1]
    BY <1>1, <2>1, SubSeqProperties
  <2>3. PICK u : /\ u = SubSeq(L, k, n) /\ u \in Seq(Int) /\ Len(u) = (IF k <= n THEN n - k + 1 ELSE 0)
                 /\ \A j \in 1 .. n - k + 1 : u[j] = L[k + j - 1]
    BY <2>2, Zenon
  <2>4. Len(u) = n - i
    BY <1>1, <2>0, <2>3
  <2>5. \A j \in 1 .. n - i : u[j] = L[i + j]
    <3> SUFFICES ASSUME NEW j \in 1 .. n - i PROVE u[j] = L[i + j]
      OBVIOUS
    <3>0. i \in Int /\ n \in Int /\ k = i + 1
      BY <1>1, <2>0
    <3>1. j \in 1 .. n - k + 1 /\ k + j - 1 = i + j
      <4>1. j \in Int /\ 1 <= j /\ j <= n - i
        BY <3>0
      <4>2. k + j - 1 = i + j /\ n - k + 1 = n - i
        BY <3>0, <4>1, SMTT(30)
      <4> QED BY <4>1, <4>2
    <3> QED BY <2>3, <3>1, Zenon
  <2> QED BY <1>1, <2>0, <2>3, <2>4, <2>5, Zenon
<1>4. PICK M : /\ M = RemoveAt(L, i) /\ M \in Seq(Int) /\ Len(M) = Len(s) + Len(t)
               /\ \A j \in 1 .. Len(s) + Len(t) : M[j] = IF j <= Len(s) THEN s[j] ELSE t[j - Len(s)]
  <2>0. s \in Seq(Int) /\ t \in Seq(Int)
    BY <1>2, <1>3, Zenon
  <2>1. RemoveAt(L, i) = s \o t
    BY <1>2, <1>3, Zenon DEF RemoveAt
  <2>2. /\ s \o t \in Seq(Int) /\ Len(s \o t) = Len(s) + Len(t)
        /\ \A j \in 1 .. Len(s) + Len(t) : (s \o t)[j] = IF j <= Len(s) THEN s[j] ELSE t[j - Len(s)]
    BY <2>0, ConcatProperties, Zenon
  <2> QED BY <2>1, <2>2, Zenon
<1>5. Len(M) = n - 1 /\ DOMAIN M = 1 .. n - 1 /\ \A j \in 1 .. n - 1 : M[j] = IF j < i THEN L[j] ELSE L[j + 1]
  <2>0. Len(s) = i - 1 /\ Len(t) = n - i
    BY <1>2, <1>3, Zenon
  <2>1. Len(s) + Len(t) = n - 1 /\ Len(s) = i - 1
    <3>1. (i - 1) + (n - i) = n - 1
      BY <1>1, SMTT(30)
    <3> QED BY <2>0, <3>1, Zenon
  <2>2. Len(M) = n - 1 /\ DOMAIN M = 1 .. n - 1
    BY <1>1, <1>4, <2>1
  <2>3. ASSUME NEW j \in 1 .. n - 1 PROVE M[j] = IF j < i THEN L[j] ELSE L[j + 1]
    <3>1. M[j] = IF j <= i - 1 THEN s[j] ELSE t[j - (i - 1)]
      BY <1>4, <2>1
    <3>2. CASE j < i
      <4>1. j \in 1 .. i - 1
        BY <1>1, <3>2
      <4> QED BY <1>1, <1>2, <3>1, <3>2, <4>1
    <3>3. CASE ~(j < i)
      <4>1. j - (i - 1) \in 1 .. n - i /\ i + (j - (i - 1)) = j + 1 /\ ~(j <= i - 1)
        BY <1>1, <3>3
      <4> QED BY <1>3, <3>1, <3>3, <4>1
    <3> QED BY <3>2, <3>3
  <2> QED BY <2>2, <2>3
<1>6. ASSUME NEW j \in DOMAIN M PROVE \E k \in DOMAIN L : k # i /\ M[j] = L[k] /\ k = IF j < i THEN j ELSE j + 1
  <2>1. CASE j < i
    BY <1>1, <1>5, <2>1
  <2>2. CASE ~(j < i)
    <3>1. j + 1 \in DOMAIN L /\ j + 1 # i /\ M[j] = L[j + 1]
      BY <1>1, <1>5, <2>2
    <3> QED BY <2>2, <3>1
  <2> QED BY <2>1, <2>2
<1>7. ToSet(M) = ToSet(L) \ {L[i]}
  <2>1. ASSUME NEW x \in ToSet(M) PROVE x \in ToSet(L) /\ x # L[i]
    <3>1. PICK j \in DOMAIN M : x = M[j]
      BY DEF ToSet
    <3>2. PICK k \in DOMAIN L : k # i /\ M[j] = L[k]
      BY <1>6
    <3> QED BY <3>1, <3>2 DEF ToSet, IsInjective
  <2>2. ASSUME NEW x \in ToSet(L), x # L[i] PROVE x \in ToSet(M)
    <3>1. PICK k \in DOMAIN L : x = L[k] /\ k # i
      BY <2>2 DEF ToSet
    <3>2. CASE k < i
      <4>1. k \in DOMAIN M /\ M[k] = x
        BY <1>1, <1>5, <3>1, <3>2
      <4> QED BY <4>1 DEF ToSet
    <3>3. CASE k > i
      <4>1. k - 1 \in DOMAIN M /\ M[k - 1] = x
        <5>1. k - 1 \in 1 .. n - 1 /\ ~(k - 1 < i) /\ (k - 1) + 1 = k
          BY <1>1, <3>1, <3>3
        <5> QED BY <1>5, <3>1, <5>1
      <4> QED BY <4>1 DEF ToSet
    <3> QED BY <1>1, <3>1, <3>2, <3>3
  <2> QED BY <2>1, <2>2
<1>8. IsInjective(M)
  <2> SUFFICES ASSUME NEW j \in DOMAIN M, NEW k \in DOMAIN M, M[j] = M[k] PROVE j = k
    BY DEF IsInjective
  <2>1. PICK a \in DOMAIN L : M[j] = L[a] /\ a = IF j < i THEN j ELSE j + 1
    BY <1>6
  <2>2. PICK c \in DOMAIN L : M[k] = L[c] /\ c = IF k < i THEN k ELSE k + 1
    BY <1>6
  <2>3. a = c
    BY <2>1, <2>2 DEF IsInjective
  <2>4. j \in Int /\ k \in Int /\ i \in Int
    BY <1>1, <1>5
  <2> QED BY <2>1, <2>2, <2>3, <2>4
<1> QED BY <1>4, <1>7, <1>8

\* A list without its first block.
LEMMA Popped ==
  ASSUME NEW L \in Seq(Int), L # <<>>, IsInjective(L)
  PROVE  /\ Tail(L) \in Seq(Int) /\ Head(L) \in ToSet(L)
         /\ ToSet(Tail(L)) = ToSet(L) \ {Head(L)} /\ IsInjective(Tail(L))
<1>1. PICK n \in Nat : n = Len(L) /\ DOMAIN L = 1 .. n /\ n > 0 /\ Head(L) = L[1] /\ 1 \in DOMAIN L
  OBVIOUS
<1>2. PICK M : /\ M = Tail(L) /\ M \in Seq(Int) /\ Len(M) = n - 1 /\ DOMAIN M = 1 .. n - 1
               /\ \A j \in 1 .. n - 1 : M[j] = L[j + 1]
  <2>1. /\ Tail(L) \in Seq(Int) /\ Len(Tail(L)) = Len(L) - 1
        /\ \A j \in 1 .. Len(Tail(L)) : Tail(L)[j] = L[j + 1]
    BY HeadTailProperties, Zenon
  <2>2. DOMAIN Tail(L) = 1 .. Len(Tail(L))
    BY <2>1, LenProperties, Zenon
  <2> QED BY <1>1, <2>1, <2>2, Zenon
<1>3. ToSet(M) = ToSet(L) \ {L[1]}
  <2>1. ASSUME NEW x \in ToSet(M) PROVE x \in ToSet(L) /\ x # L[1]
    <3>1. PICK j \in 1 .. n - 1 : x = L[j + 1]
      BY <1>2 DEF ToSet
    <3>2. j + 1 \in DOMAIN L /\ j + 1 # 1
      BY <1>1
    <3> QED BY <1>1, <3>1, <3>2 DEF ToSet, IsInjective
  <2>2. ASSUME NEW x \in ToSet(L), x # L[1] PROVE x \in ToSet(M)
    <3>1. PICK k \in DOMAIN L : x = L[k] /\ k # 1
      BY <2>2 DEF ToSet
    <3>2. k - 1 \in 1 .. n - 1 /\ (k - 1) + 1 = k
      BY <1>1, <3>1
    <3>3. k - 1 \in DOMAIN M /\ M[k - 1] = x
      BY <1>2, <3>1, <3>2
    <3> QED BY <3>3 DEF ToSet
  <2> QED BY <2>1, <2>2
<1>4. IsInjective(M)
  <2> SUFFICES ASSUME NEW j \in DOMAIN M, NEW k \in DOMAIN M, M[j] = M[k] PROVE j = k
    BY DEF IsInjective
  <2>1. j + 1 \in DOMAIN L /\ k + 1 \in DOMAIN L /\ L[j + 1] = L[k + 1]
    BY <1>1, <1>2
  <2>2. j + 1 = k + 1
    BY <2>1 DEF IsInjective
  <2> QED BY <1>2, <2>2
<1>5. Head(L) \in ToSet(L)
  BY <1>1 DEF ToSet
<1> QED BY <1>1, <1>2, <1>3, <1>4, <1>5

\* f with block b of r bytes, and without b.
Added(f, b, r) == [c \in DOMAIN f \cup {b} |-> IF c = b THEN r ELSE f[c]]
Dropped(f, b) == [c \in DOMAIN f \ {b} |-> f[c]]

\* Blocks of a heap with other lists.
WithLists(h, m, fls, sls) == [hdr |-> h.hdr, matrix |-> m, fl_bitmap |-> fls, sl_bitmap |-> sls]

LEMMA InsertFields ==
  ASSUME NEW h, IsHeap(h), NEW b, NEW at, at = MAPPING_INSERT(SizeAt(h, b))
  PROVE  INSERT_BLOCK(h, b) = WithLists(h, [h.matrix EXCEPT ![at] = <<b>> \o h.matrix[at]],
                                        h.fl_bitmap \cup {at[1]},
                                        [h.sl_bitmap EXCEPT ![at[1]] = h.sl_bitmap[at[1]] \cup {at[2]}])
<1>1. PICK hd, m, fls, sls : h = [hdr |-> hd, matrix |-> m, fl_bitmap |-> fls, sl_bitmap |-> sls]
  BY Zenon DEF IsHeap
<1>2. h.hdr = hd /\ h.matrix = m /\ h.fl_bitmap = fls /\ h.sl_bitmap = sls
  BY <1>1
<1>3. INSERT_BLOCK(h, b) = [h EXCEPT !.matrix[at] = <<b>> \o h.matrix[at],
                                     !.sl_bitmap[at[1]] = h.sl_bitmap[at[1]] \cup {at[2]},
                                     !.fl_bitmap = h.fl_bitmap \cup {at[1]}]
  BY <1>1, <1>2, Zenon DEF INSERT_BLOCK
<1> QED BY <1>1, <1>2, <1>3 DEF WithLists

LEMMA ClearFields ==
  ASSUME NEW h, IsHeap(h), NEW at, NEW sls, sls = h.sl_bitmap[at[1]] \ {at[2]}
  PROVE  /\ h.matrix[at] # <<>> => ClearBits(h, at) = h
         /\ h.matrix[at] = <<>> => ClearBits(h, at) =
               WithLists(h, h.matrix, IF sls = {} THEN h.fl_bitmap \ {at[1]} ELSE h.fl_bitmap,
                         [h.sl_bitmap EXCEPT ![at[1]] = sls])
<1>1. PICK hd, m, fl, sl : h = [hdr |-> hd, matrix |-> m, fl_bitmap |-> fl, sl_bitmap |-> sl]
  BY Zenon DEF IsHeap
<1>2. h.hdr = hd /\ h.matrix = m /\ h.fl_bitmap = fl /\ h.sl_bitmap = sl
  BY <1>1
<1>3. ASSUME h.matrix[at] = <<>>
      PROVE  ClearBits(h, at) = [h EXCEPT !.sl_bitmap[at[1]] = sls,
                                          !.fl_bitmap = IF sls = {} THEN h.fl_bitmap \ {at[1]} ELSE h.fl_bitmap]
  BY <1>1, <1>2, <1>3, Zenon DEF ClearBits
<1>4. ASSUME h.matrix[at] # <<>> PROVE ClearBits(h, at) = h
  BY <1>4 DEF ClearBits
<1> QED BY <1>1, <1>2, <1>3, <1>4 DEF WithLists

LEMMA MatrixFields ==
  ASSUME NEW h, IsHeap(h), NEW at, NEW L
  PROVE  [h EXCEPT !.matrix[at] = L] = WithLists(h, [h.matrix EXCEPT ![at] = L], h.fl_bitmap, h.sl_bitmap)
<1>1. PICK hd, m, fl, sl : h = [hdr |-> hd, matrix |-> m, fl_bitmap |-> fl, sl_bitmap |-> sl]
  BY Zenon DEF IsHeap
<1> QED BY <1>1 DEF WithLists

LEMMA WithListsFields ==
  ASSUME NEW h, NEW m, NEW fls, NEW sls
  PROVE  /\ WithLists(h, m, fls, sls).hdr = h.hdr /\ WithLists(h, m, fls, sls).matrix = m
         /\ WithLists(h, m, fls, sls).fl_bitmap = fls /\ WithLists(h, m, fls, sls).sl_bitmap = sls
         /\ IsHeap(WithLists(h, m, fls, sls))
BY DEF WithLists, IsHeap

\* INSERT_BLOCK adds a block to the list of its size.
LEMMA InsertListed ==
  ASSUME NEW h, IsHeap(h), NEW f, Listed(h, f), NEW b \in Int, b \notin DOMAIN f, SizeAt(h, b) \in 0 .. POOL
  PROVE  /\ IsHeap(INSERT_BLOCK(h, b)) /\ INSERT_BLOCK(h, b).hdr = h.hdr
         /\ Listed(INSERT_BLOCK(h, b), Added(f, b, SizeAt(h, b)))
<1>1. PICK at \in At : at = MAPPING_INSERT(SizeAt(h, b))
  BY MappingRange DEF At
<1>2. PICK fl \in 0 .. REAL_FLI - 1, sl \in 0 .. MAX_SLI - 1 : at = <<fl, sl>> /\ at[1] = fl /\ at[2] = sl
  BY DEF At
<1> DEFINE L == h.matrix[at]
           m == [h.matrix EXCEPT ![at] = <<b>> \o L]
           fls == h.fl_bitmap \cup {fl}
           sls == [h.sl_bitmap EXCEPT ![fl] = h.sl_bitmap[fl] \cup {sl}]
           f2 == Added(f, b, SizeAt(h, b))
           g == INSERT_BLOCK(h, b)
<1>3. /\ IsHeap(g) /\ g.hdr = h.hdr /\ g.matrix = m /\ g.fl_bitmap = fls /\ g.sl_bitmap = sls
  <2>1. g = WithLists(h, m, fls, sls)
    BY <1>1, <1>2, InsertFields
  <2> QED BY <2>1, WithListsFields
<1> HIDE DEF g, L
<1>4. /\ L \in Seq(Int) /\ ToSet(L) = {c \in DOMAIN f : MAPPING_INSERT(f[c]) = at} /\ IsInjective(L)
  BY DEF Listed, L
<1>5. PICK M : /\ M = <<b>> \o L /\ M \in Seq(Int) /\ M # <<>>
               /\ ToSet(M) = ToSet(L) \cup {b} /\ IsInjective(M)
  <2>1. b \notin ToSet(L)
    BY <1>4
  <2> QED BY <1>4, <2>1, Pushed, Zenon
<1>6. h.matrix \in [At -> Seq(Int)] /\ m = [h.matrix EXCEPT ![at] = M]
  BY <1>5 DEF Listed
<1>7. m \in [At -> Seq(Int)] /\ m[at] = M /\ \A a \in At : a # at => m[a] = h.matrix[a]
  <2> HIDE DEF m
  <2> QED BY <1>5, <1>6
<1>8. DOMAIN f2 = DOMAIN f \cup {b} /\ f2[b] = SizeAt(h, b) /\ \A c \in DOMAIN f : f2[c] = f[c]
  BY DEF Added
<1> HIDE DEF m, f2
<1>9. ASSUME NEW a \in At
      PROVE  ToSet(m[a]) = {c \in DOMAIN f2 : MAPPING_INSERT(f2[c]) = a} /\ IsInjective(m[a])
  <2>1. CASE a = at
    <3>1. ToSet(M) = {c \in DOMAIN f2 : MAPPING_INSERT(f2[c]) = at}
      BY <1>1, <1>4, <1>5, <1>8
    <3> QED BY <1>5, <1>7, <2>1, <3>1
  <2>2. CASE a # at
    <3>1. {c \in DOMAIN f2 : MAPPING_INSERT(f2[c]) = a} = {c \in DOMAIN f : MAPPING_INSERT(f[c]) = a}
      BY <1>1, <1>8, <2>2
    <3> QED BY <1>7, <2>2, <3>1 DEF Listed
  <2> QED BY <2>1, <2>2
<1>10. BitsMatch(g)
  <2>1. h.sl_bitmap \in [0 .. REAL_FLI - 1 -> SUBSET (0 .. MAX_SLI - 1)]
    BY DEF Listed, BitsMatch
  <2>2. sls \in [0 .. REAL_FLI - 1 -> SUBSET (0 .. MAX_SLI - 1)]
    BY <1>2, <2>1
  <2>3. sls[fl] = h.sl_bitmap[fl] \cup {sl} /\ \A k \in 0 .. REAL_FLI - 1 : k # fl => sls[k] = h.sl_bitmap[k]
    BY <1>2, <2>1
  <2> HIDE DEF sls
  <2>4. ASSUME NEW a \in At PROVE m[a] # <<>> <=> a[2] \in sls[a[1]]
    <3>1. CASE a = at
      BY <1>2, <1>5, <1>7, <2>3, <3>1
    <3>2. CASE a # at
      <4>1. m[a] # <<>> <=> a[2] \in h.sl_bitmap[a[1]]
        BY <1>7, <3>2 DEF Listed, BitsMatch
      <4>2. a[1] \in 0 .. REAL_FLI - 1 /\ (a[1] = fl => a[2] # sl)
        BY <1>2, <3>2 DEF At
      <4> QED BY <2>3, <4>1, <4>2
    <3> QED BY <3>1, <3>2
  <2>5. fls = {k \in 0 .. REAL_FLI - 1 : sls[k] # {}}
    <3>1. h.fl_bitmap = {k \in 0 .. REAL_FLI - 1 : h.sl_bitmap[k] # {}}
      BY DEF Listed, BitsMatch
    <3> QED BY <1>2, <2>3, <3>1
  <2> QED BY <1>3, <2>2, <2>4, <2>5 DEF BitsMatch
<1>11. Listed(g, f2)
  BY <1>3, <1>7, <1>9, <1>10 DEF Listed
<1> QED BY <1>3, <1>11 DEF g, f2

\* A heap with list M at at.
Relisted(h, at, M) == [h EXCEPT !.matrix[at] = M]

\* A block leaves its list, and the bits of a list that has become empty go.
LEMMA TakenOff ==
  ASSUME NEW h, IsHeap(h), NEW f, Listed(h, f), NEW b \in DOMAIN f, NEW at \in At, MAPPING_INSERT(f[b]) = at,
         NEW M \in Seq(Int), ToSet(M) = ToSet(h.matrix[at]) \ {b}, IsInjective(M),
         NEW g, g = ClearBits(Relisted(h, at, M), at)
  PROVE  IsHeap(g) /\ g.hdr = h.hdr /\ Listed(g, Dropped(f, b))
<1>2. PICK fl \in 0 .. REAL_FLI - 1, sl \in 0 .. MAX_SLI - 1 : at = <<fl, sl>> /\ at[1] = fl /\ at[2] = sl
  BY DEF At
<1> DEFINE m == [h.matrix EXCEPT ![at] = M]
           h1 == Relisted(h, at, M)
           rest == h.sl_bitmap[fl] \ {sl}
           sls == [h.sl_bitmap EXCEPT ![fl] = rest]
           fls == IF rest = {} THEN h.fl_bitmap \ {fl} ELSE h.fl_bitmap
           f2 == Dropped(f, b)
<1>3. /\ IsHeap(h1) /\ h1.hdr = h.hdr /\ h1.matrix = m /\ h1.fl_bitmap = h.fl_bitmap /\ h1.sl_bitmap = h.sl_bitmap
  <2>1. h1 = WithLists(h, m, h.fl_bitmap, h.sl_bitmap)
    BY MatrixFields DEF Relisted
  <2> HIDE DEF h1, m
  <2> QED BY <2>1, WithListsFields
<1>0. g = ClearBits(h1, at)
  OBVIOUS
<1> HIDE DEF h1
<1>4. h.matrix \in [At -> Seq(Int)] /\ h.sl_bitmap \in [0 .. REAL_FLI - 1 -> SUBSET (0 .. MAX_SLI - 1)]
  BY DEF Listed, BitsMatch
<1>5. m \in [At -> Seq(Int)] /\ m[at] = M /\ \A a \in At : a # at => m[a] = h.matrix[a]
  BY <1>4
<1> HIDE DEF m
<1>6. DOMAIN f2 = DOMAIN f \ {b} /\ \A c \in DOMAIN f2 : f2[c] = f[c]
  BY DEF Dropped
<1> HIDE DEF f2
<1>7. ASSUME NEW a \in At
      PROVE  ToSet(m[a]) = {c \in DOMAIN f2 : MAPPING_INSERT(f2[c]) = a} /\ IsInjective(m[a])
  <2>0. ToSet(h.matrix[a]) = {c \in DOMAIN f : MAPPING_INSERT(f[c]) = a} /\ IsInjective(h.matrix[a])
    BY DEF Listed
  <2>1. CASE a = at
    <3>1. ToSet(M) = {c \in DOMAIN f2 : MAPPING_INSERT(f2[c]) = at}
      BY <1>6, <2>0, <2>1
    <3> QED BY <1>5, <2>1, <3>1
  <2>2. CASE a # at
    <3>1. {c \in DOMAIN f2 : MAPPING_INSERT(f2[c]) = a} = {c \in DOMAIN f : MAPPING_INSERT(f[c]) = a}
      BY <1>6, <2>2
    <3> QED BY <1>5, <2>0, <2>2, <3>1
  <2> QED BY <2>1, <2>2
<1>8. sl \in h.sl_bitmap[fl]
  <2>1. b \in ToSet(h.matrix[at])
    BY DEF Listed
  <2>2. h.matrix[at] # <<>>
    BY <2>1 DEF ToSet
  <2> QED BY <1>2, <2>2 DEF Listed, BitsMatch
<1>9. h.fl_bitmap = {k \in 0 .. REAL_FLI - 1 : h.sl_bitmap[k] # {}}
  BY DEF Listed, BitsMatch
<1>10. ASSUME NEW a \in At, a # at
       PROVE  /\ m[a] # <<>> <=> a[2] \in h.sl_bitmap[a[1]]
              /\ a[1] \in 0 .. REAL_FLI - 1 /\ (a[1] = fl => a[2] # sl)
  <2>1. m[a] # <<>> <=> a[2] \in h.sl_bitmap[a[1]]
    BY <1>5, <1>10 DEF Listed, BitsMatch
  <2> QED BY <1>2, <1>10, <2>1 DEF At
<1>11. CASE M # <<>>
  <2>1. g = h1
    <3>1. h1.matrix[at] # <<>>
      BY <1>3, <1>5, <1>11
    <3>2. ClearBits(h1, at) = h1
      BY <3>1 DEF ClearBits
    <3> QED BY <1>0, <3>2
  <2>2. \A a \in At : m[a] # <<>> <=> a[2] \in h.sl_bitmap[a[1]]
    BY <1>2, <1>5, <1>8, <1>10, <1>11
  <2>3. BitsMatch(g)
    BY <1>3, <1>4, <1>9, <2>1, <2>2 DEF BitsMatch
  <2>4. Listed(g, f2)
    BY <1>3, <1>5, <1>7, <2>1, <2>3 DEF Listed
  <2> QED BY <1>3, <2>1, <2>4 DEF f2
<1>12. CASE M = <<>>
  <2>1. /\ IsHeap(g) /\ g.hdr = h.hdr /\ g.matrix = m /\ g.fl_bitmap = fls /\ g.sl_bitmap = sls
    <3>1. h1.matrix[at] = <<>> /\ rest = h1.sl_bitmap[at[1]] \ {at[2]}
      BY <1>2, <1>3, <1>5, <1>12
    <3>2. g = WithLists(h1, h1.matrix, IF rest = {} THEN h1.fl_bitmap \ {at[1]} ELSE h1.fl_bitmap,
                        [h1.sl_bitmap EXCEPT ![at[1]] = rest])
      <4>0. PICK r : r = rest /\ r = h1.sl_bitmap[at[1]] \ {at[2]}
        BY <3>1
      <4>1. IsHeap(h1) /\ h1.matrix[at] = <<>>
        BY <1>3, <3>1
      <4> HIDE DEF rest
      <4>2. ClearBits(h1, at) =
               WithLists(h1, h1.matrix, IF r = {} THEN h1.fl_bitmap \ {at[1]} ELSE h1.fl_bitmap,
                         [h1.sl_bitmap EXCEPT ![at[1]] = r])
        BY <4>0, <4>1, ClearFields, Zenon
      <4> QED BY <1>0, <4>0, <4>2, Zenon
    <3>3. g = WithLists(h1, m, fls, sls)
      BY <1>2, <1>3, <3>2
    <3> QED BY <1>3, <3>3, WithListsFields
  <2>2. sls \in [0 .. REAL_FLI - 1 -> SUBSET (0 .. MAX_SLI - 1)]
    BY <1>2, <1>4
  <2>3. sls[fl] = rest /\ \A k \in 0 .. REAL_FLI - 1 : k # fl => sls[k] = h.sl_bitmap[k]
    BY <1>2, <1>4
  <2>4. fls = {k \in 0 .. REAL_FLI - 1 : sls[k] # {}}
    <3> HIDE DEF sls
    <3>1. CASE rest = {}
      BY <1>2, <1>9, <2>3, <3>1
    <3>2. CASE rest # {}
      BY <1>2, <1>8, <1>9, <2>3, <3>2
    <3> QED BY <3>1, <3>2
  <2>5. ASSUME NEW a \in At PROVE m[a] # <<>> <=> a[2] \in sls[a[1]]
    <3> HIDE DEF sls
    <3>1. CASE a = at
      BY <1>2, <1>5, <1>12, <2>3, <3>1
    <3>2. CASE a # at
      BY <1>10, <2>3, <3>2
    <3> QED BY <3>1, <3>2
  <2>6. BitsMatch(g)
    <3> HIDE DEF sls, fls
    <3> QED BY <2>1, <2>2, <2>4, <2>5 DEF BitsMatch
  <2>7. Listed(g, f2)
    BY <1>5, <1>7, <2>1, <2>6 DEF Listed
  <2> QED BY <2>1, <2>7 DEF f2
<1> QED BY <1>11, <1>12

LEMMA ExtractListed ==
  ASSUME NEW h, IsHeap(h), NEW f, Listed(h, f), NEW b \in DOMAIN f, f[b] = SizeAt(h, b), f[b] \in 0 .. POOL
  PROVE  /\ IsHeap(EXTRACT_BLOCK(h, b)) /\ EXTRACT_BLOCK(h, b).hdr = h.hdr
         /\ Listed(EXTRACT_BLOCK(h, b), Dropped(f, b))
<1>1. PICK at \in At : at = MAPPING_INSERT(SizeAt(h, b))
  BY MappingRange DEF At
<1>2. PICK L \in Seq(Int) : L = h.matrix[at] /\ ToSet(L) = {c \in DOMAIN f : MAPPING_INSERT(f[c]) = at} /\ IsInjective(L)
  BY DEF Listed
<1>3. b \in ToSet(L)
  BY <1>1, <1>2
<1>4. PICK i \in DOMAIN L : i = (CHOOSE j \in DOMAIN L : L[j] = b) /\ L[i] = b
  <2>1. \E j \in DOMAIN L : L[j] = b
    BY <1>3 DEF ToSet
  <2> QED BY <2>1
<1>5. EXTRACT_BLOCK(h, b) = ClearBits(Relisted(h, at, RemoveAt(L, i)), at)
  <2>1. PICK hd, m, fl, sl : h = [hdr |-> hd, matrix |-> m, fl_bitmap |-> fl, sl_bitmap |-> sl]
    BY Zenon DEF IsHeap
  <2>2. [h EXCEPT !.matrix[at] = RemoveAt(@, i)] = [h EXCEPT !.matrix[at] = RemoveAt(L, i)]
    BY <1>2, <2>1, Zenon
  <2> QED BY <1>1, <1>2, <1>4, <2>2, Zenon DEF EXTRACT_BLOCK, Relisted
<1>6. PICK M \in Seq(Int) : M = RemoveAt(L, i) /\ ToSet(M) = ToSet(L) \ {b} /\ IsInjective(M)
  BY <1>2, <1>4, Unlinked
<1> QED BY <1>1, <1>2, <1>5, <1>6, TakenOff

LEMMA ExtractFirstListed ==
  ASSUME NEW h, IsHeap(h), NEW f, Listed(h, f), NEW at \in At, h.matrix[at] # <<>>
  PROVE  /\ Head(h.matrix[at]) \in DOMAIN f /\ MAPPING_INSERT(f[Head(h.matrix[at])]) = at
         /\ IsHeap(EXTRACT_BLOCK_HDR(h, at)) /\ EXTRACT_BLOCK_HDR(h, at).hdr = h.hdr
         /\ Listed(EXTRACT_BLOCK_HDR(h, at), Dropped(f, Head(h.matrix[at])))
<1>1. PICK L \in Seq(Int) : L = h.matrix[at] /\ ToSet(L) = {c \in DOMAIN f : MAPPING_INSERT(f[c]) = at} /\ IsInjective(L) /\ L # <<>>
  BY DEF Listed
<1>2. PICK M \in Seq(Int) : M = Tail(L) /\ ToSet(M) = ToSet(L) \ {Head(L)} /\ IsInjective(M) /\ Head(L) \in ToSet(L)
  BY <1>1, Popped
<1>3. PICK b \in DOMAIN f : b = Head(L) /\ MAPPING_INSERT(f[b]) = at
  BY <1>1, <1>2
<1>4. EXTRACT_BLOCK_HDR(h, at) = ClearBits(Relisted(h, at, M), at)
  <2>1. PICK hd, m, fl, sl : h = [hdr |-> hd, matrix |-> m, fl_bitmap |-> fl, sl_bitmap |-> sl]
    BY Zenon DEF IsHeap
  <2>2. [h EXCEPT !.matrix[at] = Tail(@)] = [h EXCEPT !.matrix[at] = M]
    BY <1>1, <1>2, <2>1, Zenon
  <2> QED BY <2>2, Zenon DEF EXTRACT_BLOCK_HDR, Relisted
<1>5. PICK g : g = EXTRACT_BLOCK_HDR(h, at)
  OBVIOUS
<1>6. IsHeap(g) /\ g.hdr = h.hdr /\ Listed(g, Dropped(f, b))
  <2>1. ToSet(M) = ToSet(h.matrix[at]) \ {b}
    BY <1>1, <1>2, <1>3, Zenon
  <2>2. g = ClearBits(Relisted(h, at, M), at)
    BY <1>4, <1>5, Zenon
  <2>3. M \in Seq(Int) /\ IsInjective(M) /\ b \in DOMAIN f /\ MAPPING_INSERT(f[b]) = at
    BY <1>2, <1>3, Zenon
  <2> QED BY <2>1, <2>2, <2>3, TakenOff
<1>7. b = Head(h.matrix[at])
  BY <1>1, <1>3, Zenon
<1> QED BY <1>3, <1>5, <1>6, <1>7, Zenon
-----------------------------------------------------------------------------
(* The pool, and blocks that tile it.                                      *)

LEMMA RoundDown ==
  ASSUME NEW r \in Nat
  PROVE  /\ ROUNDDOWN_SIZE(r) \in Nat /\ Multiple(ROUNDDOWN_SIZE(r), BLOCK_ALIGN)
         /\ ROUNDDOWN_SIZE(r) <= r /\ r < ROUNDDOWN_SIZE(r) + BLOCK_ALIGN
BY Rounding, Consts DEF ROUNDDOWN_SIZE

LEMMA RoundUp ==
  ASSUME NEW r \in Nat, r + BLOCK_ALIGN <= WORD
  PROVE  /\ ROUNDUP_SIZE(r) \in Nat /\ Multiple(ROUNDUP_SIZE(r), BLOCK_ALIGN)
         /\ r <= ROUNDUP_SIZE(r) /\ ROUNDUP_SIZE(r) < r + BLOCK_ALIGN
<1>1. PICK s \in Nat : s = r + BLOCK_ALIGN - 1 /\ s < WORD
  BY Consts
<1>2. Wrap(s) = s
  BY <1>1, Consts DEF Wrap
<1>3. ROUNDUP_SIZE(r) = ROUNDDOWN_SIZE(s)
  BY <1>1, <1>2 DEF ROUNDUP_SIZE
<1> QED BY <1>1, <1>3, RoundDown, Consts

\* A multiple between two that are one apart is one of them.
LEMMA NextMultiple ==
  ASSUME NEW x \in Nat, NEW y \in Nat, NEW d \in Nat \ {0}, Multiple(x, d), Multiple(y, d), x < y
  PROVE  x + d <= y
<1>1. PICK p \in Nat, q \in Nat : x = p * d /\ y = q * d
  BY DEF Multiple
<1>2. p < q
  BY <1>1, Products
<1> QED BY <1>1, <1>2, Products

LEMMA PoolLayout ==
  /\ first \in Nat /\ last \in Nat /\ FirstSize \in Nat
  /\ Multiple(first, BLOCK_ALIGN) /\ Multiple(last, BLOCK_ALIGN) /\ Multiple(FirstSize, BLOCK_ALIGN)
  /\ last = first + BLOCK_ALIGN + FirstSize /\ BLOCK_ALIGN <= FirstSize
  /\ last + BLOCK_ALIGN <= POOL
<1>0. PICK W \in Nat \ {0} : W = BLOCK_ALIGN /\ W = BHDR_OVERHEAD /\ W = 2 * PTR
  BY Consts
<1>1. TLSF_SIZE \in Nat /\ TLSF_SIZE + 8 * W <= POOL /\ POOL \in Nat /\ POOL < WORD
  BY <1>0, PoolAssumption, Consts
<1>2. Multiple(POOL, W)
  BY <1>0, <1>1, PoolAssumption, MultipleIff
<1>3. PICK up \in Nat : up = ROUNDUP_SIZE(TLSF_SIZE) /\ Multiple(up, W) /\ TLSF_SIZE <= up /\ up < TLSF_SIZE + W
  <2>1. TLSF_SIZE \in Nat /\ TLSF_SIZE + BLOCK_ALIGN <= WORD
    BY <1>0, <1>1, Consts
  <2> QED BY <1>0, <2>1, RoundUp
<1>4. Multiple(W, W)
  <2>1. W = 1 * W
    OBVIOUS
  <2> QED BY <2>1 DEF Multiple
<1>5. ROUNDUP_SIZE(2 * PTR) = W
  <2>1. PICK u \in Nat : u = ROUNDUP_SIZE(W) /\ Multiple(u, W) /\ W <= u /\ u < W + W
    <3>1. BLOCK_ALIGN \in Nat /\ BLOCK_ALIGN + BLOCK_ALIGN <= WORD
      BY <1>0, <1>1, Consts
    <3> QED BY <1>0, <3>1, RoundUp
  <2>2. ~(W < u)
    BY <1>4, <2>1, NextMultiple
  <2> QED BY <1>0, <2>1, <2>2
<1>6. PICK down \in Nat : /\ down = ROUNDDOWN_SIZE(POOL - TLSF_SIZE) /\ Multiple(down, W)
                          /\ down <= POOL - TLSF_SIZE /\ POOL - TLSF_SIZE < down + W
  <2>1. PICK x \in Nat : x = POOL - TLSF_SIZE
    BY <1>1
  <2> QED BY <1>0, <2>1, RoundDown
<1>7. down + up = POOL
  <2>1. Multiple(down + up, W) /\ down + up \in Nat
    BY <1>3, <1>6, MultipleSum
  <2>2. down + up < POOL + W /\ POOL < down + up + W
    BY <1>0, <1>1, <1>3, <1>6
  <2>3. ~(down + up < POOL) /\ ~(POOL < down + up)
    BY <1>1, <1>2, <2>1, <2>2, NextMultiple
  <2> QED BY <1>1, <2>1, <2>3
<1>8. PICK x \in Nat : x = down - 3 * W - W /\ Multiple(x, W) /\ W <= x
  <2>1. Multiple(4 * W, W) /\ 4 * W \in Nat
    BY DEF Multiple
  <2>2. 4 * W <= down /\ W <= down - 3 * W - W /\ down - 3 * W - W \in Nat /\ down - 3 * W - W = down - 4 * W
    BY <1>1, <1>3, <1>7
  <2>3. Multiple(down - 4 * W, W)
    BY <1>6, <2>1, <2>2, MultipleSum
  <2> QED BY <2>2, <2>3
<1>9. FirstSize = x
  <2>1. FirstSize = ROUNDDOWN_SIZE(x)
    BY <1>0, <1>5, <1>6, <1>8 DEF FirstSize
  <2>2. PICK y \in Nat : y = ROUNDDOWN_SIZE(x) /\ Multiple(y, W) /\ y <= x /\ x < y + W
    BY <1>0, <1>8, RoundDown
  <2>3. ~(y < x)
    BY <1>8, <2>2, NextMultiple
  <2> QED BY <1>8, <2>1, <2>2, <2>3
<1>10. first = up + W + W /\ last = first + W + x
  BY <1>0, <1>3, <1>5, <1>9 DEF first, last, BufferOf, ib
<1>11. first \in Nat /\ Multiple(first, W)
  <2>1. Multiple(up + W, W) /\ up + W \in Nat
    BY <1>3, <1>4, MultipleSum
  <2>2. Multiple((up + W) + W, W) /\ (up + W) + W \in Nat
    BY <1>4, <2>1, MultipleSum
  <2> QED BY <1>10, <2>2
<1>12. last \in Nat /\ Multiple(last, W)
  <2>1. Multiple(first + W, W) /\ first + W \in Nat
    BY <1>4, <1>11, MultipleSum
  <2>2. Multiple((first + W) + x, W) /\ (first + W) + x \in Nat
    BY <1>8, <2>1, MultipleSum
  <2> QED BY <1>10, <2>2
<1>13. last + W <= POOL
  BY <1>0, <1>1, <1>3, <1>6, <1>7, <1>8, <1>10
<1> QED BY <1>0, <1>8, <1>9, <1>10, <1>11, <1>12, <1>13

Hdr == [size : 0 .. POOL, free : BOOLEAN, prev_free : BOOLEAN, prev_hdr : Nat \cup {NULL}]
After(H, b) == b + BLOCK_ALIGN + H[b].size

LEMMA NextIs == \A h, b : NextOf(h, b) = After(h.hdr, b)
BY Consts DEF NextOf, SizeAt, After

\* Block n follows block b.
Follows(H, b, n) ==
    /\ n \in DOMAIN H /\ \A c \in DOMAIN H : c <= b \/ n <= c
    /\ BLOCK_ALIGN <= H[b].size
    /\ H[n].prev_free = H[b].free
    /\ H[b].free => H[n].prev_hdr = b /\ ~H[n].free

\* The inductive form of BlocksTile: the last block is never free, and the first
\* one has no free block before it.
Tile(H) ==
    /\ H \in [DOMAIN H -> Hdr] /\ first \in DOMAIN H /\ last \in DOMAIN H
    /\ \A b \in DOMAIN H : b \in first .. last /\ Multiple(b, BLOCK_ALIGN) /\ Multiple(H[b].size, BLOCK_ALIGN)
    /\ H[last].size = 0 /\ H[last].free = FALSE /\ H[first].prev_free = FALSE
    /\ \A b \in DOMAIN H : b # last => Follows(H, b, After(H, b))

LEMMA TileTypes ==
  ASSUME NEW H, Tile(H), NEW b \in DOMAIN H
  PROVE  /\ b \in Nat /\ b \in first .. last /\ H[b] \in Hdr /\ H[b].size \in 0 .. POOL
         /\ H[b].free \in BOOLEAN /\ H[b].prev_free \in BOOLEAN /\ H[b].prev_hdr \in Nat \cup {NULL}
         /\ After(H, b) \in Nat /\ b + BLOCK_ALIGN <= After(H, b)
         /\ Multiple(b, BLOCK_ALIGN) /\ Multiple(H[b].size, BLOCK_ALIGN)
<1>1. b \in first .. last /\ H[b] \in Hdr /\ Multiple(b, BLOCK_ALIGN) /\ Multiple(H[b].size, BLOCK_ALIGN)
  BY DEF Tile
<1>2. H[b].size \in 0 .. POOL /\ H[b].free \in BOOLEAN /\ H[b].prev_free \in BOOLEAN /\ H[b].prev_hdr \in Nat \cup {NULL}
  BY <1>1 DEF Hdr
<1> QED BY <1>1, <1>2, PoolLayout, Consts DEF After

LEMMA Following ==
  ASSUME NEW H, Tile(H), NEW b \in DOMAIN H, b # last
  PROVE  /\ Follows(H, b, After(H, b)) /\ After(H, b) \in DOMAIN H /\ b < After(H, b) /\ b < last
         /\ \A c \in DOMAIN H : c <= b \/ After(H, b) <= c
         /\ b + 2 * BLOCK_ALIGN <= After(H, b)
<1>1. Follows(H, b, After(H, b))
  BY DEF Tile
<1>2. b \in Nat /\ b \in first .. last /\ H[b].size \in Nat
  BY TileTypes, Consts
<1> QED BY <1>1, <1>2, Consts, PoolLayout DEF Follows, After

\* Every block but the first follows one.
LEMMA Preceding ==
  ASSUME NEW H, Tile(H), NEW c \in DOMAIN H, c # first
  PROVE  \E a \in DOMAIN H : a # last /\ a < c /\ After(H, a) = c
<1>0. c \in Nat /\ first < c /\ c <= last /\ first \in DOMAIN H /\ first \in Nat /\ last \in Nat
  BY TileTypes, PoolLayout DEF Tile
<1> DEFINE S == {d \in Nat : \E a \in DOMAIN H : a < c /\ d = c - a}
<1>1. S \in SUBSET Nat /\ S # {}
  <2>1. c - first \in S
    BY <1>0
  <2> QED BY <2>1
<1>2. PICK d \in S : \A e \in S : d <= e
  BY <1>1, LeastOf
<1>3. PICK a \in DOMAIN H : a < c /\ d = c - a
  BY <1>2
<1>4. a \in Nat /\ a # last
  BY <1>0, <1>3, TileTypes
<1>5. After(H, a) \in DOMAIN H /\ a < After(H, a) /\ After(H, a) <= c /\ After(H, a) \in Nat
  BY <1>0, <1>3, <1>4, Following, TileTypes
<1>6. ~(After(H, a) < c)
  <2> SUFFICES ASSUME After(H, a) < c PROVE FALSE
    OBVIOUS
  <2>1. PICK n \in DOMAIN H : n = After(H, a) /\ n \in Nat /\ n < c /\ a < n
    BY <1>5
  <2>2. c - n \in S
    BY <1>0, <2>1
  <2>3. d <= c - n
    BY <1>2, <2>2
  <2> QED BY <1>0, <1>3, <1>4, <2>1, <2>3
<1> QED BY <1>0, <1>3, <1>4, <1>5, <1>6

\* The blocks from a up to m become one block, free or not.
Joins(H, H2, a, m, f) ==
    /\ H2 \in [{c \in DOMAIN H : c <= a \/ m <= c} -> Hdr]
    /\ \A c \in DOMAIN H2 : c # a /\ c # m => H2[c] = H[c]
    /\ H2[a].size = m - a - BLOCK_ALIGN /\ H2[a].free = f
    /\ H2[a].prev_free = H[a].prev_free /\ H2[a].prev_hdr = H[a].prev_hdr
    /\ H2[m].size = H[m].size /\ H2[m].free = H[m].free /\ H2[m].prev_free = f
    /\ f = TRUE => H2[m].prev_hdr = a

LEMMA OneBlock ==
  ASSUME NEW H, Tile(H), NEW H2, NEW a \in DOMAIN H, NEW m \in DOMAIN H, a < m,
         NEW f \in BOOLEAN, Joins(H, H2, a, m, f), f = TRUE => H[a].prev_free = FALSE /\ H[m].free = FALSE
  PROVE  Tile(H2)
<1>0. a \in Nat /\ m \in Nat /\ first <= a /\ m <= last /\ first \in Nat /\ last \in Nat /\ a # last /\ m # first
  BY TileTypes, PoolLayout
<1>1. DOMAIN H2 = {c \in DOMAIN H : c <= a \/ m <= c} /\ H2 \in [DOMAIN H2 -> Hdr] /\ DOMAIN H2 \subseteq DOMAIN H
  BY DEF Joins
<1>2. a \in DOMAIN H2 /\ m \in DOMAIN H2 /\ first \in DOMAIN H2 /\ last \in DOMAIN H2
  <2>1. first \in DOMAIN H /\ last \in DOMAIN H
    BY DEF Tile
  <2> QED BY <1>0, <1>1, <2>1
<1>3. a + 2 * BLOCK_ALIGN <= m
  BY <1>0, Following, Consts, TileTypes
<1>4. \A c \in DOMAIN H2 : c # a => H2[c].size = H[c].size /\ H2[c].free = H[c].free
  BY <1>1 DEF Joins
<1>5. H2[first].prev_free = FALSE /\ H2[last].size = 0 /\ H2[last].free = FALSE
  <2>1. H[first].prev_free = FALSE /\ H[last].size = 0 /\ H[last].free = FALSE
    BY DEF Tile
  <2>2. H2[first].prev_free = H[first].prev_free
    BY <1>0, <1>2 DEF Joins
  <2> QED BY <1>0, <1>2, <1>4, <2>1, <2>2
<1>6. ASSUME NEW c \in DOMAIN H2
      PROVE  c \in first .. last /\ Multiple(c, BLOCK_ALIGN) /\ Multiple(H2[c].size, BLOCK_ALIGN)
  <2>1. c \in first .. last /\ Multiple(c, BLOCK_ALIGN) /\ Multiple(H[c].size, BLOCK_ALIGN)
    BY <1>1 DEF Tile
  <2>2. CASE c # a
    BY <1>4, <2>1, <2>2
  <2>3. CASE c = a
    <3>1. Multiple(m, BLOCK_ALIGN) /\ Multiple(a, BLOCK_ALIGN)
      BY DEF Tile
    <3>2. Multiple(m - a, BLOCK_ALIGN) /\ m - a \in Nat
      BY <1>0, <3>1, MultipleSum, Consts
    <3>3. BLOCK_ALIGN = 1 * BLOCK_ALIGN /\ BLOCK_ALIGN \in Nat \ {0} /\ BLOCK_ALIGN <= m - a
      BY <1>0, <1>3, Consts
    <3>4. Multiple(BLOCK_ALIGN, BLOCK_ALIGN)
      BY <3>3 DEF Multiple
    <3>5. Multiple((m - a) - BLOCK_ALIGN, BLOCK_ALIGN)
      BY <3>2, <3>3, <3>4, MultipleSum
    <3>6. H2[a].size = (m - a) - BLOCK_ALIGN
      BY DEF Joins
    <3> QED BY <2>1, <2>3, <3>5, <3>6
  <2> QED BY <2>2, <2>3
<1>7. ASSUME NEW b \in DOMAIN H2, b # last PROVE Follows(H2, b, After(H2, b))
  <2>0. b \in DOMAIN H /\ b \in Nat /\ (b <= a \/ m <= b)
    BY <1>1, TileTypes
  <2>1. PICK n : n = After(H, b) /\ Follows(H, b, n) /\ n \in DOMAIN H /\ n \in Nat /\ b < n
    BY <1>7, <2>0, Following, TileTypes
  <2>2. CASE b < a
    <3>1. n <= a
      BY <1>0, <2>0, <2>1, <2>2 DEF Follows
    <3>2. n \in DOMAIN H2 /\ n # m /\ b # a /\ b # m
      BY <1>0, <1>1, <2>0, <2>1, <2>2, <3>1
    <3>3. After(H2, b) = n
      BY <1>4, <2>1, <3>2 DEF After
    <3>4. H2[n].prev_free = H[n].prev_free /\ H2[n].prev_hdr = H[n].prev_hdr
      BY <3>2 DEF Joins
    <3>5. H[b].free => H2[n].free = FALSE
      <4> SUFFICES ASSUME H[b].free PROVE H2[n].free = FALSE
        OBVIOUS
      <4>1. H[n].free = FALSE /\ H[n].prev_free = TRUE
        BY <2>0, <2>1, TileTypes DEF Follows
      <4>2. CASE n # a
        BY <1>4, <3>2, <4>1, <4>2
      <4>3. CASE n = a
        BY <4>1, <4>3 DEF Joins
      <4> QED BY <4>2, <4>3
    <3> QED BY <1>1, <1>4, <2>1, <3>2, <3>3, <3>4, <3>5 DEF Follows
  <2>3. CASE b = a
    <3>1. After(H2, a) = m /\ BLOCK_ALIGN <= H2[a].size
      BY <1>0, <1>3, Consts DEF After, Joins
    <3>2. \A c \in DOMAIN H2 : c <= a \/ m <= c
      BY <1>1
    <3>3. H2[m].prev_free = H2[a].free /\ (H2[a].free => H2[m].prev_hdr = a /\ ~H2[m].free)
      BY DEF Joins
    <3> QED BY <1>2, <2>3, <3>1, <3>2, <3>3 DEF Follows
  <2>4. CASE m <= b
    <3>1. n \in DOMAIN H2 /\ n # m /\ n # a /\ b # a
      BY <1>0, <1>1, <2>0, <2>1, <2>4
    <3>2. After(H2, b) = n
      BY <1>4, <2>1, <3>1 DEF After
    <3>3. H2[n] = H[n]
      BY <3>1 DEF Joins
    <3> QED BY <1>1, <1>4, <2>1, <3>1, <3>2, <3>3 DEF Follows
  <2> QED BY <1>0, <2>0, <2>2, <2>3, <2>4
<1> QED BY <1>1, <1>2, <1>5, <1>6, <1>7 DEF Tile

\* They become a used block and, from b2 on, a free one.
Splits(H, H2, a, b2, m) ==
    /\ H2 \in [{c \in DOMAIN H : c <= a \/ m <= c} \cup {b2} -> Hdr]
    /\ \A c \in DOMAIN H2 : c # a /\ c # m /\ c # b2 => H2[c] = H[c]
    /\ H2[a].size = b2 - a - BLOCK_ALIGN /\ H2[a].free = FALSE
    /\ H2[a].prev_free = H[a].prev_free /\ H2[a].prev_hdr = H[a].prev_hdr
    /\ H2[b2].size = m - b2 - BLOCK_ALIGN /\ H2[b2].free = TRUE /\ H2[b2].prev_free = FALSE
    /\ H2[m].size = H[m].size /\ H2[m].free = H[m].free /\ H2[m].prev_free = TRUE /\ H2[m].prev_hdr = b2

LEMMA TwoBlocks ==
  ASSUME NEW H, Tile(H), NEW H2, NEW a \in DOMAIN H, NEW m \in DOMAIN H, NEW b2 \in Nat,
         a + 2 * BLOCK_ALIGN <= b2, b2 + 2 * BLOCK_ALIGN <= m, Multiple(b2, BLOCK_ALIGN),
         Splits(H, H2, a, b2, m), H[m].free = FALSE
  PROVE  Tile(H2)
<1>0. /\ a \in Nat /\ m \in Nat /\ first <= a /\ m <= last /\ first \in Nat /\ last \in Nat
      /\ a < b2 /\ b2 < m /\ a # last /\ m # first /\ b2 # first /\ b2 # last
  BY TileTypes, PoolLayout, Consts
<1>1. /\ DOMAIN H2 = {c \in DOMAIN H : c <= a \/ m <= c} \cup {b2} /\ H2 \in [DOMAIN H2 -> Hdr]
      /\ \A c \in DOMAIN H2 : c # b2 => c \in DOMAIN H /\ (c <= a \/ m <= c)
  BY DEF Splits
<1>2. a \in DOMAIN H2 /\ m \in DOMAIN H2 /\ b2 \in DOMAIN H2 /\ first \in DOMAIN H2 /\ last \in DOMAIN H2
  <2>1. first \in DOMAIN H /\ last \in DOMAIN H
    BY DEF Tile
  <2> QED BY <1>0, <1>1, <2>1
<1>4. \A c \in DOMAIN H2 : c # a /\ c # b2 => H2[c].size = H[c].size /\ H2[c].free = H[c].free
  BY <1>1 DEF Splits
<1>5. H2[first].prev_free = FALSE /\ H2[last].size = 0 /\ H2[last].free = FALSE
  <2>1. H[first].prev_free = FALSE /\ H[last].size = 0 /\ H[last].free = FALSE
    BY DEF Tile
  <2>2. H2[first].prev_free = H[first].prev_free
    BY <1>0, <1>2 DEF Splits
  <2> QED BY <1>0, <1>2, <1>4, <2>1, <2>2
<1>6. ASSUME NEW c \in DOMAIN H2
      PROVE  c \in first .. last /\ Multiple(c, BLOCK_ALIGN) /\ Multiple(H2[c].size, BLOCK_ALIGN)
  <2>1. Multiple(m, BLOCK_ALIGN) /\ Multiple(a, BLOCK_ALIGN)
    BY DEF Tile
  <2>2. Multiple(m - b2, BLOCK_ALIGN) /\ m - b2 \in Nat /\ Multiple(b2 - a, BLOCK_ALIGN) /\ b2 - a \in Nat
    <3>1. BLOCK_ALIGN \in Nat \ {0} /\ b2 <= m /\ a <= b2 /\ m - b2 \in Nat /\ b2 - a \in Nat
      BY <1>0, Consts
    <3>2. Multiple(m - b2, BLOCK_ALIGN)
      BY <1>0, <2>1, <3>1, MultipleSum
    <3>3. Multiple(b2 - a, BLOCK_ALIGN)
      BY <1>0, <2>1, <3>1, MultipleSum
    <3> QED BY <3>1, <3>2, <3>3
  <2>3. BLOCK_ALIGN = 1 * BLOCK_ALIGN /\ BLOCK_ALIGN \in Nat \ {0} /\ BLOCK_ALIGN <= m - b2 /\ BLOCK_ALIGN <= b2 - a
    BY <1>0, Consts
  <2>4. Multiple(BLOCK_ALIGN, BLOCK_ALIGN)
    BY <2>3 DEF Multiple
  <2>5. Multiple((m - b2) - BLOCK_ALIGN, BLOCK_ALIGN) /\ Multiple((b2 - a) - BLOCK_ALIGN, BLOCK_ALIGN)
    BY <2>2, <2>3, <2>4, MultipleSum
  <2>6. H2[b2].size = (m - b2) - BLOCK_ALIGN /\ H2[a].size = (b2 - a) - BLOCK_ALIGN
    BY DEF Splits
  <2>7. CASE c = b2
    BY <1>0, <2>5, <2>6, <2>7
  <2>8. CASE c = a
    BY <1>0, <2>1, <2>5, <2>6, <2>8
  <2>9. CASE c # a /\ c # b2
    <3>1. c \in first .. last /\ Multiple(c, BLOCK_ALIGN) /\ Multiple(H[c].size, BLOCK_ALIGN)
      BY <1>1, <2>9 DEF Tile
    <3> QED BY <1>4, <2>9, <3>1
  <2> QED BY <2>7, <2>8, <2>9
<1>7. ASSUME NEW b \in DOMAIN H2, b # last PROVE Follows(H2, b, After(H2, b))
  <2>1. CASE b = a
    <3>1. After(H2, a) = b2 /\ BLOCK_ALIGN <= H2[a].size
      BY <1>0, Consts DEF After, Splits
    <3>2. \A c \in DOMAIN H2 : c <= a \/ b2 <= c
      BY <1>0, <1>1, TileTypes
    <3>3. H2[b2].prev_free = H2[a].free /\ ~H2[a].free
      BY DEF Splits
    <3> QED BY <1>2, <2>1, <3>1, <3>2, <3>3 DEF Follows
  <2>2. CASE b = b2
    <3>1. After(H2, b2) = m /\ BLOCK_ALIGN <= H2[b2].size
      BY <1>0, Consts DEF After, Splits
    <3>2. \A c \in DOMAIN H2 : c <= b2 \/ m <= c
      BY <1>0, <1>1, TileTypes
    <3>3. H2[m].prev_free = H2[b2].free /\ H2[m].prev_hdr = b2 /\ ~H2[m].free
      BY DEF Splits
    <3> QED BY <1>2, <2>2, <3>1, <3>2, <3>3 DEF Follows
  <2>3. CASE b # a /\ b # b2
    <3>0. b \in DOMAIN H /\ b \in Nat /\ (b <= a \/ m <= b)
      BY <1>1, <2>3, TileTypes
    <3>1. PICK n : n = After(H, b) /\ Follows(H, b, n) /\ n \in DOMAIN H /\ n \in Nat /\ b < n
      BY <1>7, <3>0, Following, TileTypes
    <3>2. After(H2, b) = n
      BY <1>4, <2>3, <3>1 DEF After
    <3>3. \A c \in DOMAIN H2 : c <= b \/ n <= c
      <4>1. \A c \in DOMAIN H : c <= b \/ n <= c
        BY <3>1 DEF Follows
      <4>2. b2 <= b \/ n <= b2
        <5>1. CASE m <= b
          BY <1>0, <3>0, <5>1
        <5>2. CASE b <= a
          BY <1>0, <2>3, <3>0, <3>1, <4>1, <5>2
        <5> QED BY <3>0, <5>1, <5>2
      <4> QED BY <1>1, <4>1, <4>2
    <3>4. n \in DOMAIN H2 /\ n # m /\ n # b2
      <4>1. CASE m <= b
        BY <1>0, <1>1, <3>0, <3>1, <4>1
      <4>2. CASE b <= a
        <5>1. n <= a
          BY <1>0, <2>3, <3>0, <3>1, <4>2 DEF Follows
        <5> QED BY <1>0, <1>1, <3>1, <5>1
      <4> QED BY <3>0, <4>1, <4>2
    <3>5. H2[n].prev_free = H[n].prev_free /\ H2[n].prev_hdr = H[n].prev_hdr
      BY <3>4 DEF Splits
    <3>6. H[b].free => H2[n].free = FALSE
      <4> SUFFICES ASSUME H[b].free PROVE H2[n].free = FALSE
        OBVIOUS
      <4>1. H[n].free = FALSE
        BY <3>1, TileTypes DEF Follows
      <4>2. CASE n # a
        BY <1>4, <3>4, <4>1, <4>2
      <4>3. CASE n = a
        BY <4>3 DEF Splits
      <4> QED BY <4>2, <4>3
    <3> QED BY <1>4, <2>3, <3>1, <3>2, <3>3, <3>4, <3>5, <3>6 DEF Follows
  <2> QED BY <2>1, <2>2, <2>3
<1> QED BY <1>1, <1>2, <1>5, <1>6, <1>7 DEF Tile
-----------------------------------------------------------------------------
(* What the heap's operations do to the headers and to the lists.          *)

WithHdr(h, H) == [hdr |-> H, matrix |-> h.matrix, fl_bitmap |-> h.fl_bitmap, sl_bitmap |-> h.sl_bitmap]

LEMMA WithHdrFields ==
  ASSUME NEW h, NEW H
  PROVE  /\ WithHdr(h, H).hdr = H /\ IsHeap(WithHdr(h, H))
         /\ \A f : Listed(h, f) => Listed(WithHdr(h, H), f)
<1>1. PICK g : g = WithHdr(h, H) /\ g.hdr = H /\ g.matrix = h.matrix /\ g.fl_bitmap = h.fl_bitmap /\ g.sl_bitmap = h.sl_bitmap
  <2> DEFINE g == WithHdr(h, H)
  <2>1. g.hdr = H /\ g.matrix = h.matrix /\ g.fl_bitmap = h.fl_bitmap /\ g.sl_bitmap = h.sl_bitmap
    BY DEF WithHdr
  <2> QED BY <2>1, Zenon
<1>2. IsHeap(g)
  BY <1>1 DEF IsHeap, WithHdr
<1>3. ASSUME NEW f, Listed(h, f) PROVE Listed(g, f)
  BY <1>1, <1>3 DEF Listed, BitsMatch
<1> QED BY <1>1, <1>2, <1>3, Zenon

\* The assignments to headers: of a heap, and of its headers alone.
SetFree(h, b, v) == [h EXCEPT !.hdr[b].free = v]
HdrFree(H, b, v) == [H EXCEPT ![b].free = v]
SetSize(h, b, size) == [h EXCEPT !.hdr[b].size = size]
HdrSize(H, b, size) == [H EXCEPT ![b].size = size]
SetUsed(h, b, n, v, w) == [h EXCEPT !.hdr[n].prev_free = v, !.hdr[b].free = w]
HdrUsed(H, b, n, v, w) == [H EXCEPT ![n].prev_free = v, ![b].free = w]
SetPrev(h, n, b, v) == [h EXCEPT !.hdr[n].prev_free = v, !.hdr[n].prev_hdr = b]
HdrPrev(H, n, b, v) == [H EXCEPT ![n].prev_free = v, ![n].prev_hdr = b]
SetNext(h, n, b, v) == [h EXCEPT !.hdr[n].prev_hdr = b, !.hdr[n].prev_free = v]
HdrNext(H, n, b, v) == [H EXCEPT ![n].prev_hdr = b, ![n].prev_free = v]
SetSizeFree(h, b, size, v) == [h EXCEPT !.hdr[b].size = size, !.hdr[b].free = v]
HdrSizeFree(H, b, size, v) == [H EXCEPT ![b].size = size, ![b].free = v]
SetHdr(h, H) == [h EXCEPT !.hdr = H]
SetRest(h, b, n, b2, size, v, w) ==
    [h EXCEPT !.hdr[n].prev_hdr = b2, !.hdr[n].prev_free = v, !.hdr[b].size = size, !.hdr[b].free = w]

LEMMA HdrSet ==
  ASSUME NEW h, IsHeap(h)
  PROVE  /\ \A b, v : SetFree(h, b, v) = WithHdr(h, HdrFree(h.hdr, b, v))
         /\ \A b, size : SetSize(h, b, size) = WithHdr(h, HdrSize(h.hdr, b, size))
         /\ \A b, n, v, w : SetUsed(h, b, n, v, w) = WithHdr(h, HdrUsed(h.hdr, b, n, v, w))
         /\ \A n, b, v : SetPrev(h, n, b, v) = WithHdr(h, HdrPrev(h.hdr, n, b, v))
         /\ \A n, b, v : SetNext(h, n, b, v) = WithHdr(h, HdrNext(h.hdr, n, b, v))
         /\ \A b, size, v : SetSizeFree(h, b, size, v) = WithHdr(h, HdrSizeFree(h.hdr, b, size, v))
         /\ \A K : SetHdr(h, K) = WithHdr(h, K)
<1>1. PICK hd, m, fl, sl : h = [hdr |-> hd, matrix |-> m, fl_bitmap |-> fl, sl_bitmap |-> sl]
  BY Zenon DEF IsHeap
<1>2. h.hdr = hd /\ h.matrix = m /\ h.fl_bitmap = fl /\ h.sl_bitmap = sl
  BY <1>1
<1>3. \A K : WithHdr(h, K) = [hdr |-> K, matrix |-> m, fl_bitmap |-> fl, sl_bitmap |-> sl]
  BY <1>2 DEF WithHdr
<1>4. \A K : [h EXCEPT !.hdr = K] = WithHdr(h, K)
  BY <1>1, <1>3
<1>5. ASSUME NEW b, NEW v PROVE SetFree(h, b, v) = WithHdr(h, HdrFree(h.hdr, b, v))
  <2>1. [h EXCEPT !.hdr[b].free = v]
          = [h EXCEPT !.hdr = [hd EXCEPT ![b].free = v]]
    BY <1>1
  <2> QED BY <1>2, <1>4, <2>1, Zenon DEF SetFree, HdrFree
<1>6. ASSUME NEW b, NEW size PROVE SetSize(h, b, size) = WithHdr(h, HdrSize(h.hdr, b, size))
  <2>1. [h EXCEPT !.hdr[b].size = size]
          = [h EXCEPT !.hdr = [hd EXCEPT ![b].size = size]]
    BY <1>1
  <2> QED BY <1>2, <1>4, <2>1, Zenon DEF SetSize, HdrSize
<1>7. ASSUME NEW b, NEW n, NEW v, NEW w PROVE SetUsed(h, b, n, v, w) = WithHdr(h, HdrUsed(h.hdr, b, n, v, w))
  <2>1. [h EXCEPT !.hdr[n].prev_free = v, !.hdr[b].free = w]
          = [h EXCEPT !.hdr = [hd EXCEPT ![n].prev_free = v, ![b].free = w]]
    BY <1>1
  <2> QED BY <1>2, <1>4, <2>1, Zenon DEF SetUsed, HdrUsed
<1>8. ASSUME NEW n, NEW b, NEW v PROVE SetPrev(h, n, b, v) = WithHdr(h, HdrPrev(h.hdr, n, b, v))
  <2>1. [h EXCEPT !.hdr[n].prev_free = v, !.hdr[n].prev_hdr = b]
          = [h EXCEPT !.hdr = [hd EXCEPT ![n].prev_free = v, ![n].prev_hdr = b]]
    BY <1>1
  <2> QED BY <1>2, <1>4, <2>1, Zenon DEF SetPrev, HdrPrev
<1>9. ASSUME NEW n, NEW b, NEW v PROVE SetNext(h, n, b, v) = WithHdr(h, HdrNext(h.hdr, n, b, v))
  <2>1. [h EXCEPT !.hdr[n].prev_hdr = b, !.hdr[n].prev_free = v]
          = [h EXCEPT !.hdr = [hd EXCEPT ![n].prev_hdr = b, ![n].prev_free = v]]
    BY <1>1
  <2> QED BY <1>2, <1>4, <2>1, Zenon DEF SetNext, HdrNext
<1>10. ASSUME NEW b, NEW size, NEW v PROVE SetSizeFree(h, b, size, v) = WithHdr(h, HdrSizeFree(h.hdr, b, size, v))
  <2>1. [h EXCEPT !.hdr[b].size = size, !.hdr[b].free = v]
          = [h EXCEPT !.hdr = [hd EXCEPT ![b].size = size, ![b].free = v]]
    BY <1>1
  <2> QED BY <1>2, <1>4, <2>1, Zenon DEF SetSizeFree, HdrSizeFree
<1> QED BY <1>4, <1>5, <1>6, <1>7, <1>8, <1>9, <1>10, Zenon DEF SetHdr

LEMMA RestSet ==
  ASSUME NEW h, IsHeap(h), NEW b, NEW n, NEW b2, NEW size, NEW v, NEW w
  PROVE  SetRest(h, b, n, b2, size, v, w) = WithHdr(h, HdrSizeFree(HdrNext(h.hdr, n, b2, v), b, size, w))
<1>1. SetRest(h, b, n, b2, size, v, w) = SetSizeFree(SetNext(h, n, b2, v), b, size, w)
  BY DEF SetRest, SetSizeFree, SetNext
<1>2. PICK K : K = HdrNext(h.hdr, n, b2, v)
  OBVIOUS
<1>3. PICK g : g = WithHdr(h, K)
  OBVIOUS
<1>4. SetNext(h, n, b2, v) = g
  BY <1>2, <1>3, HdrSet
<1>5. IsHeap(g) /\ g.hdr = K
  BY <1>3, WithHdrFields, Zenon
<1>6. SetSizeFree(g, b, size, w) = WithHdr(g, HdrSizeFree(K, b, size, w))
  BY <1>5, HdrSet
<1>7. \A L : WithHdr(g, L) = WithHdr(h, L)
  BY <1>3 DEF WithHdr
<1> QED BY <1>1, <1>2, <1>4, <1>6, <1>7, Zenon

\* Names for the two values, for the provers.
Yes == TRUE
No == FALSE

\* The sizes of the free blocks.
FreeSizes(H) == [b \in {c \in DOMAIN H : H[c].free = TRUE} |-> H[b].size]

\* RestFree leaves a used block and a free one.
HasRest(H, f, b, n, size, b2, rest) ==
    /\ H \in [DOMAIN H -> Hdr] /\ b \in DOMAIN H /\ n \in DOMAIN H /\ b # n
    /\ size \in 0 .. POOL /\ b2 \in Nat /\ b2 = b + BLOCK_ALIGN + size /\ b2 \notin DOMAIN H /\ b2 \notin DOMAIN f
    /\ rest \in 0 .. POOL /\ rest = H[b].size - size - BLOCK_ALIGN
RestIsFree(H, g, f, b, n, size, b2, rest) ==
    /\ IsHeap(g) /\ Listed(g, Added(f, b2, rest)) /\ g.hdr \in [DOMAIN H \cup {b2} -> Hdr]
    /\ \A c \in DOMAIN H : c # b /\ c # n => g.hdr[c] = H[c]
    /\ g.hdr[b].size = size /\ g.hdr[b].free = FALSE
    /\ g.hdr[b].prev_free = H[b].prev_free /\ g.hdr[b].prev_hdr = H[b].prev_hdr
    /\ g.hdr[b2].size = rest /\ g.hdr[b2].free = TRUE /\ g.hdr[b2].prev_free = FALSE
    /\ g.hdr[n].size = H[n].size /\ g.hdr[n].free = H[n].free
    /\ g.hdr[n].prev_free = TRUE /\ g.hdr[n].prev_hdr = b2

LEMMA RestFreeIs ==
  ASSUME NEW h, IsHeap(h), NEW f, Listed(h, f), NEW b, NEW n, NEW size, NEW b2, NEW rest,
         HasRest(h.hdr, f, b, n, size, b2, rest)
  PROVE  RestIsFree(h.hdr, RestFree(h, b, size, n), f, b, n, size, b2, rest)
<1>0. PICK g : g = RestFree(h, b, size, n)
  OBVIOUS
<1>01. /\ h.hdr \in [DOMAIN h.hdr -> Hdr] /\ b \in DOMAIN h.hdr /\ n \in DOMAIN h.hdr /\ b # n
       /\ size \in 0 .. POOL /\ b2 \in Nat /\ b2 = b + BLOCK_ALIGN + size /\ b2 \notin DOMAIN h.hdr /\ b2 \notin DOMAIN f
       /\ rest \in 0 .. POOL /\ rest = h.hdr[b].size - size - BLOCK_ALIGN
  BY DEF HasRest
<1> DEFINE x == [size |-> rest, free |-> TRUE, prev_free |-> FALSE, prev_hdr |-> NULL]
           H == h.hdr
           H1 == [a \in DOMAIN H \cup {b2} |-> IF a = b2 THEN x ELSE H[a]]
           h1 == WithHdr(h, H1)
           H2 == HdrSizeFree(HdrNext(H1, n, b2, Yes), b, size, No)
           h2 == WithHdr(h1, H2)
<1>1. Store(h, b2, x) = h1
  <2> HIDE DEF H1
  <2>1. SetHdr(h, H1) = h1
    BY HdrSet
  <2> QED BY <2>1, Zenon DEF Store, SetHdr, H1
<1>2. IsHeap(h1) /\ h1.hdr = H1 /\ Listed(h1, f)
  BY WithHdrFields, Zenon
<1>3. IsHeap(h2) /\ h2.hdr = H2 /\ Listed(h2, f)
  <2> HIDE DEF h1, H2
  <2> QED BY <1>2, WithHdrFields, Zenon
<1>4. SetRest(h1, b, n, b2, size, Yes, No) = h2
  <2> HIDE DEF h1, H1
  <2>1. SetRest(h1, b, n, b2, size, Yes, No)
          = WithHdr(h1, HdrSizeFree(HdrNext(h1.hdr, n, b2, Yes), b, size, No))
    BY <1>2, RestSet
  <2> QED BY <1>2, <2>1, Zenon
<1>5. g = INSERT_BLOCK(h2, b2)
  <2>1. b + BHDR_OVERHEAD + size = b2 /\ SizeAt(h, b) - size - BHDR_OVERHEAD = rest
    BY <1>01, Consts DEF SizeAt
  <2> HIDE DEF h1, h2
  <2> QED BY <1>1, <1>4, <2>1, <1>0, Zenon DEF RestFree, SetRest, Yes, No
<1>6. x \in Hdr /\ H1 \in [DOMAIN H \cup {b2} -> Hdr] /\ H1[b2] = x /\ \A c \in DOMAIN H : H1[c] = H[c]
  BY <1>01 DEF Hdr
<1>7. b # b2 /\ n # b2 /\ b \in DOMAIN H /\ n \in DOMAIN H
  BY <1>01
<1>8. PICK y : y = [H[n] EXCEPT !.prev_hdr = b2, !.prev_free = TRUE]
  OBVIOUS
<1>9. PICK z : z = [H[b] EXCEPT !.size = size, !.free = FALSE]
  OBVIOUS
<1>10. /\ y \in Hdr /\ y.size = H[n].size /\ y.free = H[n].free /\ y.prev_free = TRUE /\ y.prev_hdr = b2
       /\ z \in Hdr /\ z.size = size /\ z.free = FALSE /\ z.prev_free = H[b].prev_free /\ z.prev_hdr = H[b].prev_hdr
  <2>1. H[n] \in Hdr /\ H[b] \in Hdr
    BY <1>01
  <2> HIDE DEF H
  <2> QED BY <1>01, <1>8, <1>9, <2>1 DEF Hdr
<1>11. H2 = [H1 EXCEPT ![n] = y, ![b] = z]
  <2>1. H1[n] = H[n] /\ H1[b] = H[b] /\ b # n /\ n \in DOMAIN H1 /\ b \in DOMAIN H1
    BY <1>01, <1>6, <1>7
  <2> HIDE DEF H1, H
  <2> QED BY <1>8, <1>9, <2>1 DEF HdrSizeFree, HdrNext, Yes, No
<1>12. /\ H2 \in [DOMAIN H \cup {b2} -> Hdr] /\ H2[n] = y /\ H2[b] = z /\ H2[b2] = x
       /\ \A c \in DOMAIN H : c # b /\ c # n => H2[c] = H[c]
  <2> HIDE DEF H1, H2, H, x
  <2> QED BY <1>6, <1>7, <1>10, <1>11
<1>13. SizeAt(h2, b2) = rest
  <2> HIDE DEF H2, h2
  <2> QED BY <1>3, <1>12 DEF SizeAt
<1>14. IsHeap(g) /\ g.hdr = H2 /\ Listed(g, Added(f, b2, rest))
  <2> HIDE DEF H2, h2
  <2> QED BY <1>01, <1>3, <1>5, <1>13, InsertListed
<1>15. x.size = rest /\ x.free = TRUE /\ x.prev_free = FALSE
  OBVIOUS
<1> HIDE DEF H2, x
<1> QED BY <1>0, <1>10, <1>12, <1>14, <1>15 DEF RestIsFree

\* Block a can grow to s bytes over block b, whose header goes; f is what is listed.
Grows(H, a, b, s) ==
    /\ H \in [DOMAIN H -> Hdr] /\ a \in DOMAIN H /\ b \in DOMAIN H /\ a # b
    /\ s \in 0 .. POOL /\ s = H[a].size + H[b].size + BLOCK_ALIGN
Grown(H, g, f, a, b, s) ==
    /\ IsHeap(g) /\ Listed(g, f) /\ g.hdr \in [DOMAIN H \ {b} -> Hdr]
    /\ \A c \in DOMAIN H \ {b} : c # a => g.hdr[c] = H[c]
    /\ g.hdr[a].size = s /\ g.hdr[a].free = H[a].free
    /\ g.hdr[a].prev_free = H[a].prev_free /\ g.hdr[a].prev_hdr = H[a].prev_hdr

LEMMA MergedIs ==
  ASSUME NEW h, IsHeap(h), NEW f, Listed(h, f), NEW a, NEW b, NEW s, Grows(h.hdr, a, b, s)
  PROVE  Grown(h.hdr, Merged(h, a, b), f, a, b, s)
<1>0. PICK g : g = Merged(h, a, b)
  OBVIOUS
<1>01. /\ h.hdr \in [DOMAIN h.hdr -> Hdr] /\ a \in DOMAIN h.hdr /\ b \in DOMAIN h.hdr /\ a # b
       /\ s \in 0 .. POOL /\ s = h.hdr[a].size + h.hdr[b].size + BLOCK_ALIGN
  BY DEF Grows
<1> DEFINE H == h.hdr
           H1 == HdrSize(H, a, s)
           h1 == WithHdr(h, H1)
           H2 == [c \in DOMAIN H1 \ {b} |-> H1[c]]
           h2 == WithHdr(h1, H2)
<1>1. SetSize(h, a, s) = h1
  BY HdrSet
<1>2. IsHeap(h1) /\ h1.hdr = H1 /\ Listed(h1, f)
  <2> HIDE DEF H1
  <2> QED BY WithHdrFields, Zenon
<1>3. IsHeap(h2) /\ h2.hdr = H2 /\ Listed(h2, f)
  <2> HIDE DEF h1, H2
  <2> QED BY <1>2, WithHdrFields, Zenon
<1>4. SetHdr(h1, H2) = h2
  <2> HIDE DEF h1, H2
  <2> QED BY <1>2, HdrSet
<1>5. [h EXCEPT !.hdr[a].size = @ + SizeAt(h, b) + BHDR_OVERHEAD] = h1
  <2>1. H[a].size + SizeAt(h, b) + BHDR_OVERHEAD = s
    BY <1>01, Consts DEF SizeAt
  <2>2. PICK hd, m, fl, sl : h = [hdr |-> hd, matrix |-> m, fl_bitmap |-> fl, sl_bitmap |-> sl]
    BY Zenon DEF IsHeap
  <2>3. [h EXCEPT !.hdr[a].size = @ + SizeAt(h, b) + BHDR_OVERHEAD] = SetSize(h, a, H[a].size + SizeAt(h, b) + BHDR_OVERHEAD)
    BY <2>2, Zenon DEF SetSize
  <2> HIDE DEF h1
  <2> QED BY <1>1, <2>1, <2>3, Zenon
<1>6. g = h2
  <2> HIDE DEF h1, H1, h2
  <2>1. g = Forget(h1, b)
    BY <1>0, <1>5, Zenon DEF Merged
  <2>2. [c \in DOMAIN h1.hdr \ {b} |-> h1.hdr[c]] = H2
    BY <1>2
  <2> QED BY <1>4, <2>1, <2>2, Zenon DEF Forget, SetHdr
<1>7. PICK y : y = [H[a] EXCEPT !.size = s]
  OBVIOUS
<1>8. y \in Hdr /\ y.size = s /\ y.free = H[a].free /\ y.prev_free = H[a].prev_free /\ y.prev_hdr = H[a].prev_hdr
  <2>1. H[a] \in Hdr
    BY <1>01
  <2> HIDE DEF H
  <2> QED BY <1>01, <1>7, <2>1 DEF Hdr
<1>9. H1 \in [DOMAIN H -> Hdr] /\ H1[a] = y /\ \A c \in DOMAIN H : c # a => H1[c] = H[c]
  <2>1. H1 = [H EXCEPT ![a] = y]
    BY <1>7 DEF HdrSize
  <2> HIDE DEF H1
  <2> QED BY <1>01, <1>8, <2>1
<1> HIDE DEF H1
<1>10. H2 \in [DOMAIN H \ {b} -> Hdr] /\ H2[a] = y /\ \A c \in DOMAIN H \ {b} : c # a => H2[c] = H[c]
  BY <1>01, <1>9
<1> HIDE DEF H2
<1> QED BY <1>0, <1>3, <1>6, <1>8, <1>10 DEF Grown

\* MergeNext: block b grows over the free block n behind it.
LEMMA MergeNextIs ==
  ASSUME NEW h, IsHeap(h), NEW f, Listed(h, f), NEW b, NEW n, n = NextOf(h, b), NEW s
  PROVE  /\ h.hdr[n].free = FALSE => MergeNext(h, b) = h
         /\ h.hdr[n].free = TRUE /\ Grows(h.hdr, b, n, s) /\ n \in DOMAIN f /\ f[n] = h.hdr[n].size =>
              Grown(h.hdr, MergeNext(h, b), Dropped(f, n), b, n, s)
<1>1. ASSUME h.hdr[n].free = FALSE PROVE MergeNext(h, b) = h
  BY <1>1 DEF MergeNext
<1>2. ASSUME h.hdr[n].free = TRUE, Grows(h.hdr, b, n, s), n \in DOMAIN f, f[n] = h.hdr[n].size
      PROVE  Grown(h.hdr, MergeNext(h, b), Dropped(f, n), b, n, s)
  <2>1. PICK e : e = EXTRACT_BLOCK(h, n)
    OBVIOUS
  <2>2. IsHeap(e) /\ e.hdr = h.hdr /\ Listed(e, Dropped(f, n))
    <3>1. n \in DOMAIN f /\ f[n] = SizeAt(h, n) /\ f[n] \in 0 .. POOL
      BY <1>2 DEF SizeAt, Hdr, Grows
    <3> QED BY <2>1, <3>1, ExtractListed
  <2>3. MergeNext(h, b) = Merged(e, b, n)
    BY <1>2, <2>1 DEF MergeNext
  <2>4. Grows(e.hdr, b, n, s)
    BY <1>2, <2>2
  <2>5. Grown(e.hdr, Merged(e, b, n), Dropped(f, n), b, n, s)
    BY <2>2, <2>4, MergedIs, Zenon
  <2> QED BY <2>2, <2>3, <2>5
<1> QED BY <1>1, <1>2
-----------------------------------------------------------------------------
(* The sizes of a list's blocks, and the list a request is served from.    *)

LEMMA Pow2Divides == \A a, b \in Nat : a <= b => Multiple(Pow2[b], Pow2[a])
<1> SUFFICES ASSUME NEW a \in Nat, NEW b \in Nat, a <= b PROVE Multiple(Pow2[b], Pow2[a])
  OBVIOUS
<1>1. PICK c \in Nat : b = c + a
  <2>1. b - a \in Nat /\ b = (b - a) + a
    OBVIOUS
  <2> QED BY <2>1
<1>2. Pow2[b] = Pow2[c] * Pow2[a] /\ Pow2[c] \in Nat
  BY <1>1, Pow2Sum, Pow2Is
<1> QED BY <1>2, Zenon DEF Multiple

\* A block is aligned to a power of two, of which the largest size is a multiple.
LEMMA AlignPower ==
  /\ \E j \in Nat : BLOCK_ALIGN = Pow2[j]
  /\ Multiple(Pow2[MAX_FLI], BLOCK_ALIGN)
<1>1. PICK j \in Nat : PTR = Pow2[j]
  BY PoolAssumption
<1>2. BLOCK_ALIGN = Pow2[j + 1] /\ j + 1 \in Nat
  BY <1>1, Pow2Is, Consts
<1>3. Pow2[j + 1] < Pow2[MAX_FLI] /\ Pow2[j + 1] \in Nat /\ Pow2[MAX_FLI] \in Nat
  BY <1>2, Consts, PoolLayout
<1>4. j + 1 <= MAX_FLI
  <2> SUFFICES ASSUME MAX_FLI <= j + 1 PROVE FALSE
    BY Consts
  <2>1. Pow2[MAX_FLI] <= Pow2[j + 1]
    BY <1>2, Pow2Grows, Consts
  <2> QED BY <1>3, <2>1
<1>5. Multiple(Pow2[MAX_FLI], Pow2[j + 1])
  BY <1>2, <1>4, Pow2Divides, Consts
<1> QED BY <1>2, <1>5

\* Requested: what a request is rounded to.
LEMMA RequestedIs ==
  ASSUME NEW bytes \in 0 .. Pow2[MAX_FLI]
  PROVE  /\ Requested(bytes) \in BLOCK_ALIGN .. Pow2[MAX_FLI] /\ bytes <= Requested(bytes)
         /\ Multiple(Requested(bytes), BLOCK_ALIGN)
<1>0. PICK P \in Nat, W \in Nat \ {0} : P = Pow2[MAX_FLI] /\ W = BLOCK_ALIGN /\ W <= P /\ 4 * P <= WORD /\ Multiple(P, W)
  BY Consts, AlignPower, PoolLayout
<1>1. CASE bytes < W
  <2>1. Requested(bytes) = W
    BY <1>0, <1>1, Consts DEF Requested
  <2>2. W = 1 * W
    OBVIOUS
  <2>3. Multiple(W, W)
    BY <2>2 DEF Multiple
  <2> QED BY <1>0, <1>1, <2>1, <2>3
<1>2. CASE ~(bytes < W)
  <2>1. Requested(bytes) = ROUNDUP_SIZE(bytes)
    BY <1>0, <1>2, Consts DEF Requested
  <2>2. bytes \in Nat /\ bytes + BLOCK_ALIGN <= WORD /\ bytes <= P
    BY <1>0, Consts
  <2>3. PICK R \in Nat : R = ROUNDUP_SIZE(bytes) /\ Multiple(R, W) /\ bytes <= R /\ R < bytes + W
    BY <1>0, <2>2, RoundUp
  <2>4. ~(P < R)
    BY <1>0, <2>2, <2>3, NextMultiple
  <2> QED BY <1>0, <1>2, <2>1, <2>2, <2>3, <2>4
<1> QED BY <1>1, <1>2

\* The smallest size of a list, and how many sizes it is for.
Width(at) == IF at[1] = 0 THEN SmallWidth ELSE Pow2[at[1] + FLI_OFFSET - MAX_LOG2_SLI]
ListStart(at) == IF at[1] = 0 THEN at[2] * SmallWidth ELSE (MAX_SLI + at[2]) * Width(at)
Before(at, bt) == at[1] < bt[1] \/ (at[1] = bt[1] /\ at[2] < bt[2])
Lists == Nat \X (0 .. MAX_SLI - 1)

LEMMA ListSizes ==
  ASSUME NEW r \in Nat
  PROVE  /\ MAPPING_INSERT(r) \in Lists /\ Width(MAPPING_INSERT(r)) \in Nat \ {0}
         /\ ListStart(MAPPING_INSERT(r)) \in Nat
         /\ ListStart(MAPPING_INSERT(r)) <= r /\ r < ListStart(MAPPING_INSERT(r)) + Width(MAPPING_INSERT(r))
         /\ Multiple(r, Width(MAPPING_INSERT(r))) => ListStart(MAPPING_INSERT(r)) = r
<1>1. CASE r < SMALL_BLOCK
  <2>1. MAPPING_INSERT(r) = <<0, r \div SmallWidth>> /\ MAPPING_INSERT(r) \in Lists
    BY <1>1, SmallMap DEF Lists
  <2>2. PICK q \in Nat : /\ q = r \div SmallWidth /\ q * SmallWidth <= r /\ r < q * SmallWidth + SmallWidth
                         /\ r = q * SmallWidth + (r % SmallWidth)
    BY SmallLists, Quotient
  <2>3. Width(MAPPING_INSERT(r)) = SmallWidth /\ ListStart(MAPPING_INSERT(r)) = q * SmallWidth
    BY <2>1, <2>2 DEF Width, ListStart
  <2>4. Multiple(r, SmallWidth) => q * SmallWidth = r
    BY <2>2, MultipleIff, SmallLists
  <2> QED BY <2>1, <2>2, <2>3, <2>4, SmallLists
<1>2. CASE SMALL_BLOCK <= r
  <2>1. PICK fl \in Nat, d \in Nat \ {0}, q \in Nat :
            /\ fl > FLI_OFFSET /\ d = Pow2[fl - MAX_LOG2_SLI]
            /\ q = r \div d /\ q - MAX_SLI \in 0 .. MAX_SLI - 1
            /\ MAPPING_INSERT(r) = <<fl - FLI_OFFSET, q - MAX_SLI>>
    BY <1>2, LargeMap
  <2>2. q * d \in Nat /\ q * d <= r /\ r < q * d + d /\ r = q * d + (r % d)
    <3>1. (r \div d) * d <= r /\ r < (r \div d) * d + d /\ r = (r \div d) * d + (r % d)
      BY Quotient
    <3>2. q * d \in Nat
      OBVIOUS
    <3> QED BY <2>1, <3>1, <3>2, Zenon
  <2>3. fl - FLI_OFFSET \in Nat /\ fl - FLI_OFFSET # 0 /\ fl - FLI_OFFSET + FLI_OFFSET - MAX_LOG2_SLI = fl - MAX_LOG2_SLI
        /\ MAX_SLI + (q - MAX_SLI) = q
    BY <2>1, Consts
  <2>4. Width(MAPPING_INSERT(r)) = d
    BY <2>1, <2>3 DEF Width
  <2>5. ListStart(MAPPING_INSERT(r)) = q * d
    BY <2>1, <2>3, <2>4 DEF ListStart
  <2>6. Multiple(r, d) => q * d = r
    BY <2>1, <2>2, MultipleIff
  <2>7. MAPPING_INSERT(r) \in Lists
    BY <2>1, <2>3 DEF Lists
  <2> QED BY <2>1, <2>2, <2>4, <2>5, <2>6, <2>7
<1> QED BY <1>1, <1>2, Consts

\* The sizes of a list are below those of a later one.
LEMMA ListsApart ==
  ASSUME NEW at \in Lists, NEW bt \in Lists, Before(at, bt)
  PROVE  ListStart(at) + Width(at) <= ListStart(bt) /\ ListStart(at) \in Nat /\ Width(at) \in Nat
<1>1. PICK a1 \in Nat, a2 \in 0 .. MAX_SLI - 1, b1 \in Nat, b2 \in 0 .. MAX_SLI - 1 :
         at[1] = a1 /\ at[2] = a2 /\ bt[1] = b1 /\ bt[2] = b2
  BY DEF Lists
<1>2. PICK S \in Nat \ {0} : S = MAX_SLI
  BY Consts
<1>3. \A k \in Nat \ {0} : /\ k + FLI_OFFSET - MAX_LOG2_SLI \in Nat
                           /\ Pow2[k + FLI_OFFSET] = S * Pow2[k + FLI_OFFSET - MAX_LOG2_SLI]
                           /\ Pow2[k + FLI_OFFSET - MAX_LOG2_SLI] \in Nat \ {0}
  <2> SUFFICES ASSUME NEW k \in Nat \ {0}
               PROVE  /\ k + FLI_OFFSET - MAX_LOG2_SLI \in Nat
                      /\ Pow2[k + FLI_OFFSET] = S * Pow2[k + FLI_OFFSET - MAX_LOG2_SLI]
                      /\ Pow2[k + FLI_OFFSET - MAX_LOG2_SLI] \in Nat \ {0}
    OBVIOUS
  <2>1. PICK c \in Nat : c = k + FLI_OFFSET - MAX_LOG2_SLI /\ MAX_LOG2_SLI + c = k + FLI_OFFSET
    BY Consts
  <2>2. Pow2[MAX_LOG2_SLI + c] = Pow2[MAX_LOG2_SLI] * Pow2[c] /\ Pow2[c] \in Nat \ {0}
    BY Pow2Sum, Pow2Is, Consts
  <2> QED BY <1>2, <2>1, <2>2 DEF MAX_SLI
<1>4. PICK w \in Nat \ {0}, coef \in Nat :
         /\ w = Width(at) /\ coef * w = ListStart(at)
         /\ coef = (IF a1 = 0 THEN a2 ELSE S + a2)
         /\ coef * w + w <= Pow2[a1 + FLI_OFFSET + 1]
  <2>1. CASE a1 = 0
    <3>1. PICK x \in Nat \ {0} : x = SmallWidth /\ x = Width(at) /\ a2 * x = ListStart(at) /\ S * x = Pow2[FLI_OFFSET + 1]
      BY <1>1, <1>2, <2>1, SmallLists DEF Width, ListStart, SMALL_BLOCK
    <3>2. a2 * x + x <= S * x
      BY <1>2, Products
    <3>3. Pow2[a1 + FLI_OFFSET + 1] = S * x
      BY <2>1, <3>1, Consts
    <3> QED BY <2>1, <3>1, <3>2, <3>3
  <2>2. CASE a1 # 0
    <3>1. PICK x \in Nat \ {0} : x = Width(at) /\ (S + a2) * x = ListStart(at) /\ Pow2[a1 + FLI_OFFSET] = S * x
      BY <1>1, <1>2, <1>3, <2>2 DEF Width, ListStart
    <3>2. (S + a2) * x + x <= (2 * S) * x
      <4>1. S + a2 \in Nat /\ 2 * S \in Nat /\ S + a2 < 2 * S
        BY <1>2
      <4> QED BY <4>1, Products
    <3>3. Pow2[a1 + FLI_OFFSET + 1] = 2 * (S * x) /\ (2 * S) * x = 2 * (S * x)
      <4>1. a1 + FLI_OFFSET \in Nat
        BY Consts
      <4> QED BY <3>1, <4>1, Pow2Is
    <3>4. S + a2 \in Nat
      BY <1>2
    <3> QED BY <2>2, <3>1, <3>2, <3>3, <3>4
  <2> QED BY <2>1, <2>2
<1>5. CASE a1 = b1 /\ a2 < b2
  <2>1. PICK B \in Nat : B = (IF a1 = 0 THEN b2 ELSE S + b2) /\ B * w = ListStart(bt) /\ coef < B
    <3>1. Width(bt) = w
      BY <1>1, <1>4, <1>5 DEF Width
    <3>2. CASE a1 = 0
      <4>1. w = SmallWidth
        BY <1>1, <1>4, <3>2 DEF Width
      <4> QED BY <1>1, <1>4, <1>5, <3>2, <4>1 DEF ListStart
    <3>3. CASE a1 # 0
      <4>1. ListStart(bt) = (S + b2) * w /\ S + b2 \in Nat
        BY <1>1, <1>2, <1>5, <3>1, <3>3 DEF ListStart
      <4> QED BY <1>2, <1>4, <1>5, <3>3, <4>1
    <3> QED BY <3>2, <3>3
  <2>2. coef * w + w <= B * w
    BY <2>1, Products
  <2> QED BY <1>4, <2>1, <2>2
<1>6. CASE a1 < b1
  <2>1. PICK x \in Nat \ {0} : x = Width(bt) /\ (S + b2) * x = ListStart(bt) /\ Pow2[b1 + FLI_OFFSET] = S * x
    <3>1. b1 # 0
      BY <1>6
    <3> QED BY <1>1, <1>2, <1>3, <3>1 DEF Width, ListStart
  <2>2. S * x <= (S + b2) * x
    <3>1. S + b2 \in Nat /\ S <= S + b2
      BY <1>2
    <3> QED BY <3>1, Products
  <2>3. Pow2[a1 + FLI_OFFSET + 1] <= Pow2[b1 + FLI_OFFSET] /\ Pow2[a1 + FLI_OFFSET + 1] \in Nat
    <3>1. a1 + FLI_OFFSET + 1 \in Nat /\ b1 + FLI_OFFSET \in Nat /\ a1 + FLI_OFFSET + 1 <= b1 + FLI_OFFSET
      BY <1>6, Consts
    <3> QED BY <3>1, Pow2Grows, Pow2Is
  <2>4. S * x \in Nat /\ (S + b2) * x \in Nat /\ coef * w \in Nat
    BY <1>2
  <2> QED BY <1>4, <2>1, <2>2, <2>3, <2>4
<1> QED BY <1>1, <1>5, <1>6 DEF Before

LEMMA BeforeOrNot ==
  ASSUME NEW at \in Lists, NEW bt \in Lists, ~Before(at, bt), at # bt
  PROVE  Before(bt, at)
<1>1. PICK a1 \in Nat, a2 \in 0 .. MAX_SLI - 1, b1 \in Nat, b2 \in 0 .. MAX_SLI - 1 :
         at = <<a1, a2>> /\ bt = <<b1, b2>>
  BY DEF Lists
<1>2. a2 \in Nat /\ b2 \in Nat
  BY Consts
<1> QED BY <1>1, <1>2 DEF Before

\* Lists are ordered as sizes are; s is the smallest size of its list.
LEMMA ListOrder ==
  ASSUME NEW x \in Nat, NEW s \in Nat, ListStart(MAPPING_INSERT(s)) = s
  PROVE  s <= x <=> ~Before(MAPPING_INSERT(x), MAPPING_INSERT(s))
<1>1. PICK at \in Lists : /\ at = MAPPING_INSERT(x) /\ ListStart(at) \in Nat /\ Width(at) \in Nat \ {0}
                          /\ ListStart(at) <= x /\ x < ListStart(at) + Width(at)
  BY ListSizes
<1>2. PICK bt \in Lists : bt = MAPPING_INSERT(s) /\ Width(bt) \in Nat \ {0} /\ ListStart(bt) = s
  BY ListSizes
<1>3. ASSUME Before(at, bt) PROVE x < s
  <2>1. ListStart(at) + Width(at) <= s
    BY <1>2, <1>3, ListsApart
  <2> QED BY <1>1, <2>1
<1>4. ASSUME ~Before(at, bt) PROVE s <= x
  <2>1. CASE at = bt
    BY <1>1, <1>2, <2>1
  <2>2. CASE at # bt
    <3>1. Before(bt, at)
      BY <1>4, <2>2, BeforeOrNot
    <3>2. s + Width(bt) <= ListStart(at)
      BY <1>2, <3>1, ListsApart
    <3> QED BY <1>1, <1>2, <3>2
  <2> QED BY <2>1, <2>2
<1> QED BY <1>1, <1>2, <1>3, <1>4

\* RoundUpTo: the smallest size of a list, not below r.
LEMMA RoundUpIs ==
  ASSUME NEW r \in Nat, BLOCK_ALIGN <= r, r <= Pow2[MAX_FLI], Multiple(r, BLOCK_ALIGN)
  PROVE  /\ RoundUpTo(r) \in Nat /\ r <= RoundUpTo(r) /\ RoundUpTo(r) <= 2 * r
         /\ Multiple(RoundUpTo(r), BLOCK_ALIGN)
         /\ ListStart(MAPPING_INSERT(RoundUpTo(r))) = RoundUpTo(r)
<1>1. CASE r < SMALL_BLOCK
  <2>1. RoundUpTo(r) = r
    BY <1>1 DEF RoundUpTo
  <2>2. Width(MAPPING_INSERT(r)) = SmallWidth
    BY <1>1, SmallMap DEF Width
  <2>3. Multiple(r, SmallWidth)
    BY SmallLists, Consts, MultipleOfMultiple
  <2> QED BY <2>1, <2>2, <2>3, ListSizes
<1>2. CASE ~(r < SMALL_BLOCK)
  <2>1. PICK fl \in Nat, d \in Nat \ {0} :
            /\ fl = ms_bit(r) /\ d = Pow2[fl - MAX_LOG2_SLI] /\ fl > FLI_OFFSET
            /\ Pow2[fl] = MAX_SLI * d /\ Pow2[fl] <= r /\ r < Pow2[fl + 1]
    BY <1>2, LargeMap, Consts
  <2>2. d <= Pow2[fl]
    <3>1. \A y \in Nat \ {0} : d <= y * d
      OBVIOUS
    <3> QED BY <2>1, <3>1, Consts
  <2>3. PICK t \in Nat : t = r + d - 1 /\ Wrap(t) = t /\ t < 2 * r
    <3>1. PICK u \in Nat : u = r + d - 1 /\ u < 2 * r /\ u < WORD
      BY <2>1, <2>2, Consts, Pow2Is
    <3>2. Wrap(u) = u
      BY <3>1, Consts DEF Wrap
    <3> QED BY <3>1, <3>2
  <2>4. PICK s \in Nat : s = t - (t % d) /\ Multiple(s, d) /\ s <= t /\ t < s + d
    BY Rounding
  <2>5. RoundUpTo(r) = s
    BY <1>2, <2>1, <2>3, <2>4 DEF RoundUpTo
  <2>6. r <= s /\ s < r + d /\ s <= 2 * r
    BY <2>3, <2>4
  <2>7. Multiple(s, BLOCK_ALIGN)
    <3>1. PICK j \in Nat : BLOCK_ALIGN = Pow2[j]
      BY AlignPower
    <3>2. PICK k \in Nat : k = fl - MAX_LOG2_SLI
      BY <2>1, Consts
    <3>3. CASE j <= k
      <4>1. Multiple(d, BLOCK_ALIGN)
        BY <2>1, <3>1, <3>2, <3>3, Pow2Divides
      <4> QED BY <2>4, <4>1, MultipleOfMultiple, Consts
    <3>4. CASE k <= j
      <4>1. Multiple(BLOCK_ALIGN, d)
        BY <2>1, <3>1, <3>2, <3>4, Pow2Divides
      <4>2. Multiple(r, d)
        BY <4>1, MultipleOfMultiple, Consts
      <4>3. (r + d - 1) - ((r + d - 1) % d) = r
        BY <4>2, Rounding
      <4>4. s = r
        BY <2>3, <2>4, <4>3
      <4> QED BY <4>4
    <3> QED BY <3>3, <3>4
  <2>8. Multiple(s, Width(MAPPING_INSERT(s)))
    <3>1. PICK fl2 \in Nat, d2 \in Nat \ {0} :
            /\ fl2 = ms_bit(s) /\ fl2 > FLI_OFFSET /\ d2 = Pow2[fl2 - MAX_LOG2_SLI] /\ Pow2[fl2] = MAX_SLI * d2
            /\ MAPPING_INSERT(s)[1] = fl2 - FLI_OFFSET
      <4>1. SMALL_BLOCK <= s
        BY <1>2, <2>6, Consts
      <4> QED BY <4>1, LargeMap
    <3>2. Width(MAPPING_INSERT(s)) = d2
      <4>1. fl2 - FLI_OFFSET # 0 /\ (fl2 - FLI_OFFSET) + FLI_OFFSET - MAX_LOG2_SLI = fl2 - MAX_LOG2_SLI
        BY <3>1, Consts
      <4> QED BY <3>1, <4>1 DEF Width
    <3>3. s \in Nat \ {0} /\ Pow2[fl + 1] \in Nat /\ fl + 1 \in Nat
      BY <2>6, Consts, Pow2Is
    <3>4. CASE s < Pow2[fl + 1]
      <4>1. fl2 = fl
        <5>1. fl <= fl2
          <6>1. Pow2[fl] <= s
            <7>1. Pow2[fl] \in Nat
              BY Pow2Is
            <7> QED BY <2>1, <2>6, <7>1
          <6>2. \A k \in Nat : Pow2[k] <= s => k <= ms_bit(s)
            BY <3>3, MsBit
          <6> QED BY <3>1, <6>1, <6>2
        <5>2. fl2 < fl + 1
          BY <3>1, <3>3, <3>4, MsBit
        <5> QED BY <5>1, <5>2
      <4> QED BY <2>1, <2>4, <3>1, <3>2, <4>1
    <3>5. CASE ~(s < Pow2[fl + 1])
      <4>1. Pow2[fl + 1] = (2 * MAX_SLI) * d /\ 2 * MAX_SLI \in Nat
        <5>1. Pow2[fl + 1] = 2 * (MAX_SLI * d)
          BY <2>1, Pow2Is
        <5> QED BY <5>1, Consts
      <4>2. Multiple(Pow2[fl + 1], d)
        BY <4>1, Zenon DEF Multiple
      <4>3. ~(Pow2[fl + 1] < s)
        <5> SUFFICES ASSUME Pow2[fl + 1] < s PROVE FALSE
          OBVIOUS
        <5>1. Pow2[fl + 1] + d <= s
          BY <2>4, <3>3, <4>2, NextMultiple
        <5> QED BY <2>1, <2>6, <3>3, <5>1
      <4>4. s = Pow2[fl + 1]
        BY <3>3, <3>5, <4>3
      <4>5. Multiple(s, d2)
        <5>1. fl2 - MAX_LOG2_SLI \in Nat /\ Pow2[fl2] <= s /\ Pow2[fl2] \in Nat
          <6>1. Pow2[ms_bit(s)] <= s
            BY <3>3, MsBit
          <6>2. fl2 - MAX_LOG2_SLI \in Nat
            BY <3>1, Consts
          <6> QED BY <3>1, <6>1, <6>2, Pow2Is
        <5>2. fl2 <= fl + 1
          <6> SUFFICES ASSUME fl + 2 <= fl2 PROVE FALSE
            BY <3>1
          <6>1. Pow2[fl + 2] <= Pow2[fl2] /\ Pow2[fl + 2] \in Nat
            BY <3>1, Pow2Grows, Pow2Is
          <6>2. Pow2[(fl + 1) + 1] = 2 * Pow2[fl + 1] /\ (fl + 1) + 1 = fl + 2
            BY <3>3, Pow2Is
          <6> QED BY <3>3, <4>4, <5>1, <6>1, <6>2
        <5>3. fl2 - MAX_LOG2_SLI <= fl + 1
          BY <5>2, <5>1, Consts
        <5> QED BY <3>1, <3>3, <4>4, <5>1, <5>3, Pow2Divides
      <4> QED BY <3>2, <4>5
    <3> QED BY <3>4, <3>5
  <2> QED BY <2>5, <2>6, <2>7, <2>8, ListSizes
<1> QED BY <1>1, <1>2

\* FIND_SUITABLE_BLOCK: a list from at on that is not empty, if there is one.
LEMMA FindIs ==
  ASSUME NEW h, BitsMatch(h), NEW at \in Lists
  PROVE  \/ /\ FIND_SUITABLE_BLOCK(h, at)[1] = NULL
            /\ \A x \in At : h.matrix[x] # <<>> => Before(x, at)
         \/ /\ FIND_SUITABLE_BLOCK(h, at)[1] # NULL /\ FIND_SUITABLE_BLOCK(h, at) \in At
            /\ h.matrix[FIND_SUITABLE_BLOCK(h, at)] # <<>>
            /\ ~Before(FIND_SUITABLE_BLOCK(h, at), at)
<1>1. PICK a1 \in Nat, a2 \in Nat : at = <<a1, a2>> /\ at[1] = a1 /\ at[2] = a2
  BY Consts DEF Lists
<1>2. PICK sls : sls = {sl \in SlBits(h, a1) : sl >= a2}
  OBVIOUS
<1>3. PICK fls : fls = LevelsAbove(h, a1)
  OBVIOUS
<1>4. /\ h.sl_bitmap \in [0 .. REAL_FLI - 1 -> SUBSET (0 .. MAX_SLI - 1)]
      /\ \A x \in At : h.matrix[x] # <<>> <=> x[2] \in h.sl_bitmap[x[1]]
      /\ h.fl_bitmap = {fl \in 0 .. REAL_FLI - 1 : h.sl_bitmap[fl] # {}}
  BY DEF BitsMatch
<1>5. sls \in SUBSET Nat /\ fls \in SUBSET Nat
  <2>1. SlBits(h, a1) \subseteq Nat
    BY <1>4, Consts DEF SlBits
  <2> QED BY <1>2, <1>3, <1>4, <2>1, Consts DEF LevelsAbove
<1>6. CASE sls # {}
  <2>1. PICK k \in sls : k = Min(sls)
    BY <1>5, <1>6, LeastOf
  <2>2. FIND_SUITABLE_BLOCK(h, at) = <<a1, k>>
    BY <1>1, <1>2, <1>6, <2>1 DEF FIND_SUITABLE_BLOCK, ls_bit
  <2>3. a1 < REAL_FLI /\ k \in h.sl_bitmap[a1] /\ k >= a2
    BY <1>2, <2>1 DEF SlBits
  <2>4. a1 \in 0 .. REAL_FLI - 1 /\ k \in 0 .. MAX_SLI - 1
    BY <1>4, <2>3, Consts
  <2>5. <<a1, k>> \in At /\ h.matrix[<<a1, k>>] # <<>> /\ ~Before(<<a1, k>>, at) /\ a1 # NULL
    <3>1. <<a1, k>> \in At
      BY <2>4 DEF At
    <3>2. h.matrix[<<a1, k>>] # <<>>
      BY <1>4, <2>3, <3>1
    <3>3. ~Before(<<a1, k>>, at) /\ a1 # NULL
      BY <1>1, <2>3, <2>4 DEF Before, NULL
    <3> QED BY <3>1, <3>2, <3>3
  <2> QED BY <2>2, <2>5
<1>7. CASE sls = {} /\ fls # {}
  <2>1. PICK fl \in fls : fl = Min(fls)
    BY <1>5, <1>7, LeastOf
  <2>2. fl \in 0 .. REAL_FLI - 1 /\ h.sl_bitmap[fl] # {} /\ fl > a1 /\ fl > 0
    <3>1. fl \in h.fl_bitmap /\ fl > a1
      BY <1>3, <2>1, Zenon DEF LevelsAbove
    <3>2. fl \in 0 .. REAL_FLI - 1 /\ h.sl_bitmap[fl] # {}
      BY <1>4, <3>1, Zenon
    <3>3. fl > 0
      BY <1>1, <1>5, <2>1, <3>1
    <3> QED BY <3>1, <3>2, <3>3, Zenon
  <2>3. PICK bits : bits = h.sl_bitmap[fl] /\ bits \in SUBSET Nat /\ bits # {} /\ bits \subseteq 0 .. MAX_SLI - 1
    <3>1. h.sl_bitmap[fl] \in SUBSET (0 .. MAX_SLI - 1)
      BY <1>4, <2>2
    <3>2. 0 .. MAX_SLI - 1 \subseteq Nat
      BY Consts
    <3> QED BY <2>2, <3>1, <3>2, Zenon
  <2>4. PICK k \in bits : k = Min(bits)
    BY <2>3, LeastOf
  <2>5. FIND_SUITABLE_BLOCK(h, at) = <<fl, k>>
    BY <1>1, <1>2, <1>3, <1>7, <2>1, <2>2, <2>3, <2>4 DEF FIND_SUITABLE_BLOCK, ls_bit
  <2>6. <<fl, k>> \in At
    BY <2>2, <2>3, <2>4 DEF At
  <2>7. h.matrix[<<fl, k>>] # <<>> /\ fl # NULL
    BY <1>4, <2>2, <2>3, <2>4, <2>6 DEF NULL
  <2>8. ~Before(<<fl, k>>, at)
    BY <1>1, <2>2 DEF Before
  <2> QED BY <2>5, <2>6, <2>7, <2>8
<1>8. CASE sls = {} /\ fls = {}
  <2>1. FIND_SUITABLE_BLOCK(h, at)[1] = NULL
    BY <1>1, <1>2, <1>3, <1>8 DEF FIND_SUITABLE_BLOCK, ls_bit, NULL
  <2>2. ASSUME NEW x \in At, h.matrix[x] # <<>> PROVE Before(x, at)
    <3>1. PICK x1 \in 0 .. REAL_FLI - 1, x2 \in 0 .. MAX_SLI - 1 : x[1] = x1 /\ x[2] = x2
      BY DEF At
    <3>2. x2 \in h.sl_bitmap[x1] /\ x1 \in h.fl_bitmap
      BY <1>4, <2>2, <3>1
    <3>3. ~(x1 > a1)
      BY <1>3, <1>8, <3>2 DEF LevelsAbove
    <3>4. x1 = a1 => x2 < a2
      <4> SUFFICES ASSUME x1 = a1, ~(x2 < a2) PROVE FALSE
        OBVIOUS
      <4>1. x2 \in SlBits(h, a1) /\ x2 >= a2
        BY <3>1, <3>2, Consts DEF SlBits
      <4> QED BY <1>2, <1>8, <4>1
    <3> QED BY <1>1, <3>1, <3>3, <3>4 DEF Before
  <2> QED BY <2>1, <2>2
<1> QED BY <1>6, <1>7, <1>8
-----------------------------------------------------------------------------
(* The heap's invariant, and what each call makes of it.                   *)

HeapInv(h) == IsHeap(h) /\ Tile(h.hdr) /\ Listed(h, FreeSizes(h.hdr))

\* The used blocks outside S stay where and as they are.
Kept(H, H2, S) == \A c \in DOMAIN H \ S : H[c].free = FALSE =>
                     c \in DOMAIN H2 /\ H2[c].free = FALSE /\ H2[c].size = H[c].size

IsMap(f) == f = [c \in DOMAIN f |-> f[c]]

LEMMA FreeSizesIs ==
  ASSUME NEW H
  PROVE  /\ \A b : b \in DOMAIN FreeSizes(H) <=> b \in DOMAIN H /\ H[b].free = TRUE
         /\ \A b \in DOMAIN FreeSizes(H) : FreeSizes(H)[b] = H[b].size
BY DEF FreeSizes

\* A function of blocks is the one of the free blocks.
LEMMA SameSizes ==
  ASSUME NEW H, NEW f, IsMap(f),
         \A b : b \in DOMAIN f <=> b \in DOMAIN H /\ H[b].free = TRUE,
         \A b \in DOMAIN f : f[b] = H[b].size
  PROVE  f = FreeSizes(H)
<1>1. DOMAIN f = {c \in DOMAIN H : H[c].free = TRUE}
  OBVIOUS
<1>2. [b \in DOMAIN f |-> f[b]] = [b \in DOMAIN f |-> H[b].size]
  OBVIOUS
<1> QED BY <1>1, <1>2, Zenon DEF FreeSizes, IsMap

HasAlso(f, f2, b, r) == /\ IsMap(f2) /\ DOMAIN f2 = DOMAIN f \cup {b} /\ f2[b] = r
                        /\ \A c \in DOMAIN f : c # b => f2[c] = f[c]

LEMMA AddedIs ==
  ASSUME NEW f, NEW b, NEW r
  PROVE  HasAlso(f, Added(f, b, r), b, r)
BY DEF Added, IsMap, HasAlso

HasLess(f, f2, b) == /\ IsMap(f2) /\ DOMAIN f2 = DOMAIN f \ {b}
                     /\ \A c \in DOMAIN f \ {b} : f2[c] = f[c]

LEMMA DroppedIs ==
  ASSUME NEW f, NEW b
  PROVE  HasLess(f, Dropped(f, b), b)
BY DEF Dropped, IsMap, HasLess

\* The assignments to a header, field by field.
LEMMA SetFields ==
  ASSUME NEW h, IsHeap(h), NEW f, Listed(h, f), h.hdr \in [DOMAIN h.hdr -> Hdr],
         NEW b \in DOMAIN h.hdr, NEW v \in BOOLEAN,
         NEW g, g = SetFree(h, b, v)
  PROVE  /\ IsHeap(g) /\ Listed(g, f) /\ g.hdr \in [DOMAIN h.hdr -> Hdr]
         /\ \A c \in DOMAIN h.hdr : c # b => g.hdr[c] = h.hdr[c]
         /\ g.hdr[b].size = h.hdr[b].size /\ g.hdr[b].free = v
         /\ g.hdr[b].prev_free = h.hdr[b].prev_free /\ g.hdr[b].prev_hdr = h.hdr[b].prev_hdr
<1>1. PICK H : H = HdrFree(h.hdr, b, v)
  OBVIOUS
<1>2. IsHeap(g) /\ g.hdr = H /\ Listed(g, f)
  <2>1. g = WithHdr(h, H)
    BY <1>1, HdrSet
  <2> QED BY <2>1, WithHdrFields
<1>3. PICK y : y = [h.hdr[b] EXCEPT !.free = v]
  OBVIOUS
<1>4. /\ y \in Hdr /\ y.size = h.hdr[b].size /\ y.free = v
      /\ y.prev_free = h.hdr[b].prev_free /\ y.prev_hdr = h.hdr[b].prev_hdr
  <2>1. h.hdr[b] \in Hdr
    OBVIOUS
  <2> QED BY <1>3, <2>1 DEF Hdr
<1>5. H = [h.hdr EXCEPT ![b] = y]
  BY <1>1, <1>3 DEF HdrFree
<1>6. H \in [DOMAIN h.hdr -> Hdr] /\ H[b] = y /\ \A c \in DOMAIN h.hdr : c # b => H[c] = h.hdr[c]
  BY <1>4, <1>5
<1> QED BY <1>2, <1>4, <1>6

LEMMA SetPrevFields ==
  ASSUME NEW h, IsHeap(h), NEW f, Listed(h, f), h.hdr \in [DOMAIN h.hdr -> Hdr],
         NEW n \in DOMAIN h.hdr, NEW b \in Nat, NEW v \in BOOLEAN,
         NEW g, g = SetPrev(h, n, b, v) \/ g = SetNext(h, n, b, v)
  PROVE  /\ IsHeap(g) /\ Listed(g, f) /\ g.hdr \in [DOMAIN h.hdr -> Hdr]
         /\ \A c \in DOMAIN h.hdr : c # n => g.hdr[c] = h.hdr[c]
         /\ g.hdr[n].size = h.hdr[n].size /\ g.hdr[n].free = h.hdr[n].free
         /\ g.hdr[n].prev_free = v /\ g.hdr[n].prev_hdr = b
<1>1. PICK H : g = WithHdr(h, H) /\ (H = HdrPrev(h.hdr, n, b, v) \/ H = HdrNext(h.hdr, n, b, v))
  BY HdrSet
<1>2. IsHeap(g) /\ g.hdr = H /\ Listed(g, f)
  BY <1>1, WithHdrFields
<1>3. PICK y : y = [h.hdr[n] EXCEPT !.prev_free = v, !.prev_hdr = b]
  OBVIOUS
<1>4. /\ y \in Hdr /\ y.size = h.hdr[n].size /\ y.free = h.hdr[n].free
      /\ y.prev_free = v /\ y.prev_hdr = b
  <2>1. h.hdr[n] \in Hdr
    OBVIOUS
  <2> QED BY <1>3, <2>1 DEF Hdr
<1>5. H = [h.hdr EXCEPT ![n] = y]
  <2>1. CASE H = HdrPrev(h.hdr, n, b, v)
    BY <1>3, <2>1 DEF HdrPrev
  <2>2. CASE H = HdrNext(h.hdr, n, b, v)
    <3>1. y = [h.hdr[n] EXCEPT !.prev_hdr = b, !.prev_free = v]
      <4>1. h.hdr[n] \in Hdr
        OBVIOUS
      <4> QED BY <1>3, <4>1 DEF Hdr
    <3> QED BY <2>2, <3>1 DEF HdrNext
  <2> QED BY <1>1, <2>1, <2>2
<1>6. H \in [DOMAIN h.hdr -> Hdr] /\ H[n] = y /\ \A c \in DOMAIN h.hdr : c # n => H[c] = h.hdr[c]
  BY <1>4, <1>5
<1> QED BY <1>2, <1>4, <1>6

LEMMA SetUsedFields ==
  ASSUME NEW h, IsHeap(h), NEW f, Listed(h, f), h.hdr \in [DOMAIN h.hdr -> Hdr],
         NEW b \in DOMAIN h.hdr, NEW n \in DOMAIN h.hdr, b # n, NEW v \in BOOLEAN, NEW w \in BOOLEAN,
         NEW g, g = SetUsed(h, b, n, v, w)
  PROVE  /\ IsHeap(g) /\ Listed(g, f) /\ g.hdr \in [DOMAIN h.hdr -> Hdr]
         /\ \A c \in DOMAIN h.hdr : c # n /\ c # b => g.hdr[c] = h.hdr[c]
         /\ g.hdr[n].size = h.hdr[n].size /\ g.hdr[n].free = h.hdr[n].free /\ g.hdr[n].prev_free = v
         /\ g.hdr[b].size = h.hdr[b].size /\ g.hdr[b].free = w
         /\ g.hdr[b].prev_free = h.hdr[b].prev_free /\ g.hdr[b].prev_hdr = h.hdr[b].prev_hdr
<1>1. PICK H : g = WithHdr(h, H) /\ H = HdrUsed(h.hdr, b, n, v, w)
  BY HdrSet
<1>2. IsHeap(g) /\ g.hdr = H /\ Listed(g, f)
  BY <1>1, WithHdrFields
<1>3. PICK y, z : y = [h.hdr[n] EXCEPT !.prev_free = v] /\ z = [h.hdr[b] EXCEPT !.free = w]
  OBVIOUS
<1>4. /\ y \in Hdr /\ y.size = h.hdr[n].size /\ y.free = h.hdr[n].free /\ y.prev_free = v
      /\ z \in Hdr /\ z.size = h.hdr[b].size /\ z.free = w
      /\ z.prev_free = h.hdr[b].prev_free /\ z.prev_hdr = h.hdr[b].prev_hdr
  <2>1. h.hdr[n] \in Hdr /\ h.hdr[b] \in Hdr
    OBVIOUS
  <2> QED BY <1>3, <2>1 DEF Hdr
<1>5. H = [h.hdr EXCEPT ![n] = y, ![b] = z]
  BY <1>1, <1>3 DEF HdrUsed
<1>6. /\ H \in [DOMAIN h.hdr -> Hdr] /\ H[n] = y /\ H[b] = z
      /\ \A c \in DOMAIN h.hdr : c # n /\ c # b => H[c] = h.hdr[c]
  BY <1>4, <1>5
<1> QED BY <1>2, <1>4, <1>6

\* RestFree in a heap whose headers have become H1: of the bytes from used block
\* b up to block m, b keeps size and the others become a free block.
CanSplit(H, H1, b, m, size) ==
    /\ H1 \in [{c \in DOMAIN H : c <= b \/ m <= c} -> Hdr]
    /\ \A c \in DOMAIN H1 : c # b /\ c # m => H1[c] = H[c]
    /\ H1[b].size = m - b - BLOCK_ALIGN /\ H1[b].prev_free = H[b].prev_free /\ H1[b].prev_hdr = H[b].prev_hdr
    /\ H1[m].size = H[m].size /\ H1[m].free = H[m].free
    /\ b \in DOMAIN H /\ m \in DOMAIN H /\ b < m /\ H[m].free = FALSE
    /\ size \in Nat /\ BLOCK_ALIGN <= size /\ Multiple(size, BLOCK_ALIGN)
    /\ H1[b].size - size >= 2 * BLOCK_ALIGN
    /\ \A c \in DOMAIN H : c <= b \/ m <= c \/ H[c].free = TRUE

\* Lists f are those of the free blocks of H outside b and what it has absorbed.
ListedOutside(H, f, b, m) ==
    /\ IsMap(f)
    /\ \A c : c \in DOMAIN f <=> c \in DOMAIN H /\ H[c].free = TRUE /\ (c < b \/ m < c)
    /\ \A c \in DOMAIN f : f[c] = H[c].size

CanGiveBack(H, h, f, b, m, size) ==
    /\ Tile(H) /\ IsHeap(h) /\ Listed(h, f)
    /\ CanSplit(H, h.hdr, b, m, size) /\ ListedOutside(H, f, b, m)

\* Block b is used and has s bytes, and the other used blocks are as they were.
GaveBack(H, g, b, s) ==
    HeapInv(g) /\ Kept(H, g.hdr, {b}) /\ b \in DOMAIN g.hdr /\ g.hdr[b].free = FALSE /\ g.hdr[b].size = s

LEMMA RestFreeKeeps ==
  ASSUME NEW H, NEW h, NEW f, NEW b, NEW m, NEW size, CanGiveBack(H, h, f, b, m, size),
         NEW g, g = RestFree(h, b, size, m)
  PROVE  GaveBack(H, g, b, size)
<1> Tile(H) /\ IsHeap(h) /\ Listed(h, f) /\ CanSplit(H, h.hdr, b, m, size) /\ ListedOutside(H, f, b, m)
  BY DEF CanGiveBack
<1>1. PICK H1 : H1 = h.hdr
  OBVIOUS
<1>2. /\ DOMAIN H1 = {c \in DOMAIN H : c <= b \/ m <= c} /\ H1 \in [DOMAIN H1 -> Hdr]
      /\ b \in DOMAIN H1 /\ m \in DOMAIN H1 /\ b # m /\ b \in DOMAIN H /\ m \in DOMAIN H /\ b < m
      /\ b \in Nat /\ m \in Nat /\ size \in Nat /\ m <= last /\ H[m].free = FALSE
      /\ BLOCK_ALIGN <= size /\ H1[b].size = m - b - BLOCK_ALIGN /\ H1[b].size - size >= 2 * BLOCK_ALIGN
  <2>1. b \in DOMAIN H /\ m \in DOMAIN H /\ b < m
    BY DEF CanSplit
  <2>2. b \in Nat /\ m \in Nat /\ m <= last
    BY <2>1, TileTypes
  <2> QED BY <1>1, <2>1, <2>2 DEF CanSplit
<1>3. PICK W \in Nat \ {0} : W = BLOCK_ALIGN
  BY Consts
<1>4. PICK b2 \in Nat, rest \in Nat : /\ b2 = b + W + size /\ rest = H1[b].size - size - W
                                     /\ rest = m - b2 - W /\ b + 2 * W <= b2 /\ b2 + 2 * W <= m
  <2>1. b + W + size \in Nat /\ (m - b - W) - size - W = m - (b + W + size) - W
        /\ m - (b + W + size) - W \in Nat /\ b + 2 * W <= b + W + size /\ b + W + size + 2 * W <= m
    BY <1>2, <1>3
  <2> QED BY <1>2, <1>3, <2>1
<1>5. rest \in 0 .. POOL /\ size \in 0 .. POOL
  <2>1. last \in Nat /\ last <= POOL /\ POOL \in Nat
    BY PoolLayout, Consts
  <2>2. m <= POOL
    BY <1>2, <2>1
  <2> QED BY <1>2, <1>3, <1>4, <2>1, <2>2
<1>6. b2 \notin DOMAIN H1 /\ b2 \notin DOMAIN f /\ b2 # b /\ b2 # m
  <2>1. b < b2 /\ b2 < m
    BY <1>2, <1>3, <1>4
  <2>2. \A c \in DOMAIN f : c \in DOMAIN H /\ (c < b \/ m < c)
    BY DEF ListedOutside
  <2> QED BY <1>2, <1>4, <2>1, <2>2
<1>7. g = RestFree(h, b, size, m)
  OBVIOUS
<1>8. /\ IsHeap(g) /\ Listed(g, Added(f, b2, rest)) /\ g.hdr \in [DOMAIN H1 \cup {b2} -> Hdr]
      /\ \A c \in DOMAIN H1 : c # b /\ c # m => g.hdr[c] = H1[c]
      /\ g.hdr[b].size = size /\ g.hdr[b].free = FALSE
      /\ g.hdr[b].prev_free = H1[b].prev_free /\ g.hdr[b].prev_hdr = H1[b].prev_hdr
      /\ g.hdr[b2].size = rest /\ g.hdr[b2].free = TRUE /\ g.hdr[b2].prev_free = FALSE
      /\ g.hdr[m].size = H1[m].size /\ g.hdr[m].free = H1[m].free
      /\ g.hdr[m].prev_free = TRUE /\ g.hdr[m].prev_hdr = b2
  <2>1. HasRest(H1, f, b, m, size, b2, rest)
    BY <1>2, <1>3, <1>4, <1>5, <1>6 DEF HasRest
  <2>2. RestIsFree(H1, g, f, b, m, size, b2, rest)
    BY <1>1, <1>7, <2>1, RestFreeIs
  <2> QED BY <2>2 DEF RestIsFree
<1>9. Splits(H, g.hdr, b, b2, m)
  <2>1. g.hdr \in [{c \in DOMAIN H : c <= b \/ m <= c} \cup {b2} -> Hdr]
    BY <1>2, <1>8
  <2>2. \A c \in DOMAIN g.hdr : c # b /\ c # m /\ c # b2 => g.hdr[c] = H[c]
    BY <1>1, <1>8, <2>1 DEF CanSplit
  <2>3. b2 - b - BLOCK_ALIGN = size
    BY <1>2, <1>3, <1>4
  <2> QED BY <1>1, <1>3, <1>4, <1>8, <2>1, <2>2, <2>3 DEF Splits, CanSplit
<1>10. Tile(g.hdr)
  <2>1. Multiple(b2, W)
    <3>1. Multiple(b, W) /\ Multiple(size, W)
      BY <1>2, <1>3, TileTypes DEF CanSplit
    <3>2. W = 1 * W
      OBVIOUS
    <3>3. Multiple(W, W)
      BY <3>2 DEF Multiple
    <3>4. Multiple(b + W, W) /\ b + W \in Nat
      BY <1>2, <3>1, <3>3, MultipleSum
    <3>5. Multiple((b + W) + size, W)
      BY <1>2, <3>1, <3>4, MultipleSum
    <3> QED BY <1>4, <3>5
  <2> QED BY <1>2, <1>3, <1>4, <1>9, <2>1, TwoBlocks
<1>11. Added(f, b2, rest) = FreeSizes(g.hdr)
  <2>1. PICK a : a = Added(f, b2, rest)
    OBVIOUS
  <2>2. /\ IsMap(a) /\ DOMAIN a = DOMAIN f \cup {b2} /\ a[b2] = rest
        /\ \A c \in DOMAIN f : a[c] = f[c]
    <3>1. HasAlso(f, a, b2, rest)
      BY <2>1, AddedIs
    <3> QED BY <1>6, <3>1 DEF HasAlso
  <2>3. ASSUME NEW c PROVE c \in DOMAIN a <=> c \in DOMAIN g.hdr /\ g.hdr[c].free = TRUE
    <3>1. CASE c = b2
      BY <1>8, <2>2, <3>1
    <3>2. CASE c = b
      <4>1. c \notin DOMAIN f
        BY <1>2, <3>2 DEF ListedOutside
      <4> QED BY <1>6, <1>8, <2>2, <3>2, <4>1
    <3>3. CASE c = m
      <4>1. c \notin DOMAIN f
        BY <1>2, <3>3 DEF ListedOutside
      <4>2. g.hdr[m].free = FALSE
        BY <1>1, <1>2, <1>8 DEF CanSplit
      <4> QED BY <1>6, <2>2, <3>3, <4>1, <4>2
    <3>4. CASE c # b2 /\ c # b /\ c # m
      <4>1. c \in DOMAIN g.hdr <=> c \in DOMAIN H /\ (c <= b \/ m <= c)
        BY <1>2, <1>8, <3>4
      <4>2. c \in DOMAIN g.hdr => g.hdr[c] = H[c]
        BY <1>9, <3>4 DEF Splits
      <4>3. c \in DOMAIN H => ((c <= b \/ m <= c) <=> (c < b \/ m < c))
        BY <1>2, <3>4, TileTypes
      <4> QED BY <2>2, <3>4, <4>1, <4>2, <4>3 DEF ListedOutside
    <3> QED BY <3>1, <3>2, <3>3, <3>4
  <2>4. ASSUME NEW c \in DOMAIN a PROVE a[c] = g.hdr[c].size
    <3>1. CASE c = b2
      BY <1>8, <2>2, <3>1
    <3>2. CASE c # b2
      <4>1. c \in DOMAIN f /\ c # b /\ c # m
        BY <1>2, <2>2, <3>2 DEF ListedOutside
      <4>2. c \in DOMAIN g.hdr /\ g.hdr[c] = H[c]
        BY <1>9, <2>3, <3>2, <4>1 DEF Splits
      <4> QED BY <2>2, <4>1, <4>2 DEF ListedOutside
    <3> QED BY <3>1, <3>2
  <2> QED BY <2>1, <2>2, <2>3, <2>4, SameSizes
<1>12. Kept(H, g.hdr, {b})
  <2> SUFFICES ASSUME NEW c \in DOMAIN H \ {b}, H[c].free = FALSE
               PROVE  c \in DOMAIN g.hdr /\ g.hdr[c].free = FALSE /\ g.hdr[c].size = H[c].size
    BY DEF Kept
  <2>1. c <= b \/ m <= c
    BY DEF CanSplit
  <2>2. c \in DOMAIN H1 /\ c # b2
    BY <1>2, <1>6, <2>1
  <2>3. CASE c = m
    BY <1>1, <1>2, <1>8, <2>3 DEF CanSplit
  <2>4. CASE c # m
    BY <1>8, <1>9, <2>2, <2>4 DEF Splits
  <2> QED BY <2>3, <2>4
<1>13. b \in DOMAIN g.hdr
  BY <1>2, <1>8
<1> QED BY <1>7, <1>8, <1>10, <1>11, <1>12, <1>13 DEF HeapInv, GaveBack

\* One block from a up to m, and the used ones that stay.
CanJoin(H, H2, a, m, free, b) ==
    /\ Joins(H, H2, a, m, free) /\ free \in BOOLEAN
    /\ a \in DOMAIN H /\ m \in DOMAIN H /\ a < m /\ H[m].free = FALSE
    /\ free = TRUE => H[a].prev_free = FALSE
    /\ \A c \in DOMAIN H : c < a \/ m <= c \/ H[c].free = TRUE \/ c = b

LEMMA JoinTiles ==
  ASSUME NEW H, Tile(H), NEW H2, NEW a, NEW m, NEW free, NEW b, CanJoin(H, H2, a, m, free, b)
  PROVE  Tile(H2) /\ Kept(H, H2, {b}) /\ a \in DOMAIN H2 /\ H2[a].free = free
<1>1. Tile(H2)
  BY OneBlock DEF CanJoin
<1>2. a \in Nat /\ m \in Nat /\ a < m /\ a \in DOMAIN H
  BY TileTypes DEF CanJoin
<1>3. DOMAIN H2 = {c \in DOMAIN H : c <= a \/ m <= c}
  BY DEF CanJoin, Joins
<1>4. ASSUME NEW c \in DOMAIN H \ {b}, H[c].free = FALSE
      PROVE  c \in DOMAIN H2 /\ H2[c].free = FALSE /\ H2[c].size = H[c].size
  <2>1. c < a \/ m <= c
    BY <1>4 DEF CanJoin
  <2>2. c \in DOMAIN H2 /\ c # a
    BY <1>2, <1>3, <2>1, TileTypes
  <2> QED BY <1>4, <2>2 DEF CanJoin, Joins
<1>5. Kept(H, H2, {b})
  BY <1>4, Zenon DEF Kept
<1>6. H2[a].free = free
  BY Zenon DEF CanJoin, Joins
<1>7. a \in DOMAIN H2
  BY <1>2, <1>3
<1> QED BY <1>1, <1>5, <1>6, <1>7, Zenon

LEMMA JoinUsed ==
  ASSUME NEW H, Tile(H), NEW g, IsHeap(g), NEW f, Listed(g, f), NEW a, NEW m, NEW b,
         CanJoin(H, g.hdr, a, m, FALSE, b), ListedOutside(H, f, a, m)
  PROVE  HeapInv(g)
<1>1. Tile(g.hdr)
  BY JoinTiles
<1>2. a \in Nat /\ m \in Nat /\ a < m /\ a \in DOMAIN H /\ H[m].free = FALSE
  BY TileTypes DEF CanJoin
<1>3. /\ DOMAIN g.hdr = {c \in DOMAIN H : c <= a \/ m <= c} /\ g.hdr[a].free = FALSE /\ g.hdr[m].free = FALSE
      /\ \A c \in DOMAIN g.hdr : c # a /\ c # m => g.hdr[c] = H[c]
  BY <1>2 DEF CanJoin, Joins
<1>4. /\ IsMap(f) /\ \A c \in DOMAIN f : f[c] = H[c].size
      /\ \A c : c \in DOMAIN f <=> c \in DOMAIN H /\ H[c].free = TRUE /\ (c < a \/ m < c)
  BY DEF ListedOutside
<1>5. ASSUME NEW c PROVE c \in DOMAIN f <=> c \in DOMAIN g.hdr /\ g.hdr[c].free = TRUE
  <2>1. CASE c = a \/ c = m
    BY <1>2, <1>3, <1>4, <2>1
  <2>2. CASE c # a /\ c # m
    <3>1. c \in DOMAIN H => ((c <= a \/ m <= c) <=> (c < a \/ m < c))
      BY <1>2, <2>2, TileTypes
    <3> QED BY <1>3, <1>4, <2>2, <3>1
  <2> QED BY <2>1, <2>2
<1>6. ASSUME NEW c \in DOMAIN f PROVE f[c] = g.hdr[c].size
  <2>1. c # a /\ c # m
    BY <1>2, <1>4
  <2> QED BY <1>3, <1>4, <1>5, <2>1
<1>7. f = FreeSizes(g.hdr)
  BY <1>4, <1>5, <1>6, SameSizes
<1> QED BY <1>1, <1>7 DEF HeapInv

LEMMA JoinFree ==
  ASSUME NEW H, Tile(H), NEW g, IsHeap(g), NEW f, NEW a, NEW m, NEW b,
         Listed(g, Added(f, a, g.hdr[a].size)),
         CanJoin(H, g.hdr, a, m, TRUE, b), ListedOutside(H, f, a, m)
  PROVE  HeapInv(g)
<1>1. Tile(g.hdr)
  BY JoinTiles
<1>2. a \in Nat /\ m \in Nat /\ a < m /\ a \in DOMAIN H /\ H[m].free = FALSE
  BY TileTypes DEF CanJoin
<1>3. /\ DOMAIN g.hdr = {c \in DOMAIN H : c <= a \/ m <= c} /\ g.hdr[a].free = TRUE /\ g.hdr[m].free = FALSE
      /\ \A c \in DOMAIN g.hdr : c # a /\ c # m => g.hdr[c] = H[c]
  BY <1>2 DEF CanJoin, Joins
<1>4. /\ \A c \in DOMAIN f : f[c] = H[c].size
      /\ \A c : c \in DOMAIN f <=> c \in DOMAIN H /\ H[c].free = TRUE /\ (c < a \/ m < c)
  BY DEF ListedOutside
<1>5. PICK f2, r : f2 = Added(f, a, r) /\ r = g.hdr[a].size
  OBVIOUS
<1>6. /\ IsMap(f2) /\ DOMAIN f2 = DOMAIN f \cup {a} /\ f2[a] = g.hdr[a].size
      /\ \A c \in DOMAIN f : c # a => f2[c] = f[c]
  <2>1. HasAlso(f, f2, a, r)
    BY <1>5, AddedIs
  <2> QED BY <1>5, <2>1 DEF HasAlso
<1>7. ASSUME NEW c PROVE c \in DOMAIN f2 <=> c \in DOMAIN g.hdr /\ g.hdr[c].free = TRUE
  <2>1. CASE c = a
    BY <1>2, <1>3, <1>6, <2>1
  <2>2. CASE c = m
    <3>1. c \notin DOMAIN f /\ c # a
      BY <1>2, <1>4, <2>2
    <3> QED BY <1>3, <1>6, <2>2, <3>1
  <2>3. CASE c # a /\ c # m
    <3>1. c \in DOMAIN H => ((c <= a \/ m <= c) <=> (c < a \/ m < c))
      BY <1>2, <2>3, TileTypes
    <3> QED BY <1>3, <1>4, <1>6, <2>3, <3>1
  <2> QED BY <2>1, <2>2, <2>3
<1>8. ASSUME NEW c \in DOMAIN f2 PROVE f2[c] = g.hdr[c].size
  <2>1. CASE c = a
    BY <1>6, <2>1
  <2>2. CASE c # a
    <3>1. c \in DOMAIN f /\ c # m
      BY <1>2, <1>4, <1>6, <2>2
    <3> QED BY <1>3, <1>4, <1>6, <1>7, <2>2, <3>1
  <2> QED BY <2>1, <2>2
<1>9. f2 = FreeSizes(g.hdr)
  BY <1>6, <1>7, <1>8, SameSizes
<1> QED BY <1>1, <1>5, <1>9 DEF HeapInv
-----------------------------------------------------------------------------
(* malloc_ex.                                                              *)

\* Nothing is large enough, and the heap stays.
NoFit(h, r, bytes) ==
    /\ r = Result(h, NULL)
    /\ \A c \in DOMAIN h.hdr : h.hdr[c].free = TRUE => h.hdr[c].size < RoundUpTo(Requested(bytes))

\* A free block has become a used one that is large enough.
Fits(h, r, b, bytes) ==
    /\ r = Result(r.heap, BufferOf(b)) /\ b \in DOMAIN h.hdr /\ h.hdr[b].free = TRUE
    /\ HeapInv(r.heap) /\ Kept(h.hdr, r.heap.hdr, {})
    /\ b \in DOMAIN r.heap.hdr /\ r.heap.hdr[b].free = FALSE /\ bytes <= r.heap.hdr[b].size

LEMMA MallocSteps ==
  ASSUME NEW h, NEW bytes, NEW s, s = RoundUpTo(Requested(bytes)),
         NEW at, at = FIND_SUITABLE_BLOCK(h, MAPPING_INSERT(s)), NEW b, b = Head(h.matrix[at]),
         NEW h1, h1 = EXTRACT_BLOCK_HDR(h, at), NEW n, n = NextOf(h1, b)
  PROVE  /\ at[1] = NULL => malloc_ex(h, bytes) = Result(h, NULL)
         /\ at[1] # NULL /\ ShouldSplit(h1, b, s) => malloc_ex(h, bytes) = Result(RestFree(h1, b, s, n), BufferOf(b))
         /\ at[1] # NULL /\ ~ShouldSplit(h1, b, s) =>
               malloc_ex(h, bytes) = Result(SetUsed(h1, b, n, No, No), BufferOf(b))
BY DEF malloc_ex, MAPPING_SEARCH, SetUsed, No

\* Taking free block b off its list leaves the others on theirs.
LEMMA OthersListed ==
  ASSUME NEW H, Tile(H), NEW b \in DOMAIN H, H[b].free = TRUE
  PROVE  /\ b # last /\ After(H, b) \in DOMAIN H /\ b < After(H, b) /\ H[After(H, b)].free = FALSE
         /\ \A c \in DOMAIN H : c <= b \/ After(H, b) <= c
         /\ ListedOutside(H, Dropped(FreeSizes(H), b), b, After(H, b))
<1>1. b # last
  BY DEF Tile
<1>2. PICK m : m = After(H, b)
  OBVIOUS
<1>3. Follows(H, b, m) /\ m \in DOMAIN H /\ b < m /\ \A c \in DOMAIN H : c <= b \/ m <= c
  BY <1>1, <1>2, Following
<1>4. H[m].free = FALSE
  BY <1>3, TileTypes DEF Follows
<1>5. PICK f : f = Dropped(FreeSizes(H), b)
  OBVIOUS
<1>6. PICK f0 : f0 = FreeSizes(H)
  OBVIOUS
<1>7. HasLess(f0, f, b)
  BY <1>5, <1>6, DroppedIs
<1>8. /\ \A c : c \in DOMAIN f0 <=> c \in DOMAIN H /\ H[c].free = TRUE
      /\ \A c \in DOMAIN f0 : f0[c] = H[c].size
  BY <1>6, FreeSizesIs
<1>9. ASSUME NEW c PROVE c \in DOMAIN f <=> c \in DOMAIN H /\ H[c].free = TRUE /\ (c < b \/ m < c)
  <2>1. c \in DOMAIN f <=> c \in DOMAIN H /\ H[c].free = TRUE /\ c # b
    BY <1>7, <1>8 DEF HasLess
  <2>2. CASE c \in DOMAIN H /\ H[c].free = TRUE
    <3>1. c # m /\ c \in Nat /\ b \in Nat /\ m \in Nat
      BY <1>3, <1>4, <2>2, TileTypes
    <3>2. c # b <=> (c < b \/ m < c)
      BY <1>3, <2>2, <3>1
    <3> QED BY <2>1, <2>2, <3>2
  <2> QED BY <2>1, <2>2
<1>10. \A c \in DOMAIN f : f[c] = H[c].size
  BY <1>7, <1>8 DEF HasLess
<1>11. ListedOutside(H, f, b, m)
  BY <1>7, <1>9, <1>10 DEF ListedOutside, HasLess
<1> QED BY <1>1, <1>2, <1>3, <1>4, <1>5, <1>11

\* What is done to block b once it has been taken off its list.
Taken(h1, b, s, n, g) ==
    \/ ShouldSplit(h1, b, s) /\ g = RestFree(h1, b, s, n)
    \/ ~ShouldSplit(h1, b, s) /\ g = SetUsed(h1, b, n, No, No)

LEMMA TakenFits ==
  ASSUME NEW h, HeapInv(h), NEW b \in DOMAIN h.hdr, h.hdr[b].free = TRUE,
         NEW s \in Nat, BLOCK_ALIGN <= s, Multiple(s, BLOCK_ALIGN), s <= h.hdr[b].size,
         NEW h1, IsHeap(h1), h1.hdr = h.hdr, Listed(h1, Dropped(FreeSizes(h.hdr), b)),
         NEW n, n = NextOf(h1, b), NEW g, Taken(h1, b, s, n, g)
  PROVE  /\ HeapInv(g) /\ Kept(h.hdr, g.hdr, {})
         /\ b \in DOMAIN g.hdr /\ g.hdr[b].free = FALSE /\ s <= g.hdr[b].size
<1>1. PICK H : H = h.hdr
  OBVIOUS
<1>2. Tile(H) /\ b \in DOMAIN H /\ H[b].free = TRUE /\ s <= H[b].size /\ h1.hdr = H
  BY <1>1 DEF HeapInv
<1>3. n = After(H, b)
  BY <1>2, NextIs
<1>4. PICK f : f = Dropped(FreeSizes(H), b)
  OBVIOUS
<1>5. /\ b # last /\ n \in DOMAIN H /\ b < n /\ H[n].free = FALSE
      /\ \A c \in DOMAIN H : c <= b \/ n <= c
      /\ ListedOutside(H, f, b, n) /\ Listed(h1, f)
  BY <1>1, <1>2, <1>3, <1>4, OthersListed
<1>6. H \in [DOMAIN H -> Hdr] /\ {c \in DOMAIN H : c <= b \/ n <= c} = DOMAIN H
  BY <1>2, <1>5 DEF Tile
<1>7. /\ b \in Nat /\ n \in Nat /\ H[b].size \in 0 .. POOL /\ H[b].size = n - b - BLOCK_ALIGN
      /\ BLOCK_ALIGN \in Nat \ {0}
  <2>1. b \in Nat /\ n \in Nat /\ H[b].size \in 0 .. POOL /\ BLOCK_ALIGN \in Nat \ {0}
    BY <1>2, <1>5, TileTypes, Consts
  <2> QED BY <1>3, <2>1, Consts DEF After
<1>8. CASE ShouldSplit(h1, b, s) /\ g = RestFree(h1, b, s, n)
  <2>1. H[b].size - s >= 2 * BLOCK_ALIGN
    BY <1>2, <1>8, Consts DEF ShouldSplit, SizeAt
  <2>2. CanSplit(H, H, b, n, s)
    BY <1>2, <1>5, <1>6, <1>7, <2>1, Zenon DEF CanSplit
  <2>3. /\ HeapInv(g) /\ Kept(H, g.hdr, {b}) /\ b \in DOMAIN g.hdr
        /\ g.hdr[b].free = FALSE /\ g.hdr[b].size = s
    <3>1. CanSplit(H, h1.hdr, b, n, s)
      BY <1>2, <2>2
    <3>2. CanGiveBack(H, h1, f, b, n, s)
      BY <1>2, <1>5, <3>1 DEF CanGiveBack
    <3>3. GaveBack(H, g, b, s)
      BY <1>8, <3>2, RestFreeKeeps
    <3> QED BY <3>3 DEF GaveBack
  <2>4. Kept(H, g.hdr, {})
    BY <1>2, <2>3 DEF Kept
  <2> QED BY <1>1, <2>3, <2>4
<1>9. CASE ~ShouldSplit(h1, b, s) /\ g = SetUsed(h1, b, n, No, No)
  <2>1. /\ IsHeap(g) /\ Listed(g, f) /\ g.hdr \in [DOMAIN H -> Hdr]
        /\ \A c \in DOMAIN H : c # n /\ c # b => g.hdr[c] = H[c]
        /\ g.hdr[n].size = H[n].size /\ g.hdr[n].free = H[n].free /\ g.hdr[n].prev_free = FALSE
        /\ g.hdr[b].size = H[b].size /\ g.hdr[b].free = FALSE
        /\ g.hdr[b].prev_free = H[b].prev_free /\ g.hdr[b].prev_hdr = H[b].prev_hdr
    <3>1. PICK v : v = No
      OBVIOUS
    <3>2. b # n /\ v \in BOOLEAN /\ v = FALSE
      <4>1. v = FALSE
        BY <3>1 DEF No
      <4>2. v \in BOOLEAN
        BY <4>1, Zenon
      <4>3. b # n
        BY <1>5, <1>7
      <4> QED BY <4>1, <4>2, <4>3, Zenon
    <3>3. g = SetUsed(h1, b, n, v, v)
      BY <1>9, <3>1
    <3>4. h1.hdr \in [DOMAIN h1.hdr -> Hdr] /\ b \in DOMAIN h1.hdr /\ n \in DOMAIN h1.hdr
      BY <1>2, <1>5, <1>6
    <3>5. /\ IsHeap(g) /\ Listed(g, f) /\ g.hdr \in [DOMAIN h1.hdr -> Hdr]
          /\ \A c \in DOMAIN h1.hdr : c # n /\ c # b => g.hdr[c] = h1.hdr[c]
          /\ g.hdr[n].size = h1.hdr[n].size /\ g.hdr[n].free = h1.hdr[n].free /\ g.hdr[n].prev_free = v
          /\ g.hdr[b].size = h1.hdr[b].size /\ g.hdr[b].free = v
          /\ g.hdr[b].prev_free = h1.hdr[b].prev_free /\ g.hdr[b].prev_hdr = h1.hdr[b].prev_hdr
      BY <1>5, <3>2, <3>3, <3>4, SetUsedFields
    <3> QED BY <1>2, <3>2, <3>5
  <2>2. Joins(H, g.hdr, b, n, FALSE)
    BY <1>6, <1>7, <2>1 DEF Joins
  <2>3. CanJoin(H, g.hdr, b, n, FALSE, b)
    <3>1. \A c \in DOMAIN H : c < b \/ n <= c \/ H[c].free = TRUE \/ c = b
      <4> SUFFICES ASSUME NEW c \in DOMAIN H PROVE c < b \/ n <= c \/ c = b
        OBVIOUS
      <4>1. c \in Nat /\ (c <= b \/ n <= c)
        BY <1>2, <1>5, TileTypes
      <4> QED BY <1>7, <4>1
    <3> QED BY <1>2, <1>5, <2>2, <3>1, Zenon DEF CanJoin
  <2>4. HeapInv(g)
    BY <1>2, <1>5, <2>1, <2>3, JoinUsed
  <2>5. Kept(H, g.hdr, {b}) /\ b \in DOMAIN g.hdr
    BY <1>2, <2>3, JoinTiles
  <2>6. Kept(H, g.hdr, {})
    BY <1>2, <2>5 DEF Kept
  <2> QED BY <1>1, <1>2, <2>1, <2>4, <2>5, <2>6
<1> QED BY <1>8, <1>9 DEF Taken

LEMMA MallocIs ==
  ASSUME NEW h, HeapInv(h), NEW bytes \in 0 .. Pow2[MAX_FLI], NEW r, r = malloc_ex(h, bytes)
  PROVE  NoFit(h, r, bytes) \/ \E b : Fits(h, r, b, bytes)
<1>1. PICK H : H = h.hdr
  OBVIOUS
<1>2. PICK s, want : s = RoundUpTo(Requested(bytes)) /\ want = MAPPING_INSERT(s)
  OBVIOUS
<1>3. PICK at : at = FIND_SUITABLE_BLOCK(h, want)
  OBVIOUS
<1>4. PICK b, h1 : b = Head(h.matrix[at]) /\ h1 = EXTRACT_BLOCK_HDR(h, at)
  OBVIOUS
<1>5. PICK n : n = NextOf(h1, b)
  OBVIOUS
<1>6. PICK f : f = FreeSizes(H)
  OBVIOUS
<1>7. /\ IsHeap(h) /\ Tile(H) /\ Listed(h, f) /\ BitsMatch(h)
      /\ \A c : c \in DOMAIN f <=> c \in DOMAIN H /\ H[c].free = TRUE
      /\ \A c \in DOMAIN f : f[c] = H[c].size
  BY <1>1, <1>6, FreeSizesIs DEF HeapInv, Listed
<1>8. /\ s \in Nat /\ bytes <= s /\ BLOCK_ALIGN <= s /\ Multiple(s, BLOCK_ALIGN)
      /\ ListStart(want) = s /\ want \in Lists
  <2>1. PICK q : q = Requested(bytes)
    OBVIOUS
  <2>2. q \in BLOCK_ALIGN .. Pow2[MAX_FLI] /\ bytes <= q /\ Multiple(q, BLOCK_ALIGN)
    BY <2>1, RequestedIs
  <2>3. q \in Nat /\ BLOCK_ALIGN \in Nat /\ Pow2[MAX_FLI] \in Nat /\ bytes \in Nat
    BY <2>2, Consts
  <2>4. /\ s \in Nat /\ q <= s /\ Multiple(s, BLOCK_ALIGN) /\ ListStart(want) = s
    BY <1>2, <2>1, <2>2, <2>3, RoundUpIs
  <2>5. want \in Lists
    BY <1>2, <2>4, ListSizes
  <2> QED BY <2>2, <2>3, <2>4, <2>5
<1>9. \/ at[1] = NULL /\ \A x \in At : h.matrix[x] # <<>> => Before(x, want)
      \/ at[1] # NULL /\ at \in At /\ h.matrix[at] # <<>> /\ ~Before(at, want)
  BY <1>3, <1>7, <1>8, FindIs
<1>10. CASE at[1] = NULL /\ \A x \in At : h.matrix[x] # <<>> => Before(x, want)
  <2>1. r = Result(h, NULL)
    BY <1>2, <1>3, <1>4, <1>5, <1>10, MallocSteps
  <2>2. ASSUME NEW c \in DOMAIN H, H[c].free = TRUE PROVE H[c].size < s
    <3>1. H[c].size \in 0 .. POOL /\ H[c].size \in Nat
      BY <1>7, Consts, TileTypes
    <3>2. PICK x : x = MAPPING_INSERT(H[c].size)
      OBVIOUS
    <3>3. x \in At
      BY <3>1, <3>2, MappingRange DEF At
    <3>4. c \in ToSet(h.matrix[x])
      BY <1>7, <2>2, <3>2, <3>3 DEF Listed
    <3>5. h.matrix[x] # <<>>
      BY <3>4 DEF ToSet
    <3>6. Before(x, want)
      BY <1>10, <3>3, <3>5
    <3> QED BY <1>2, <1>8, <3>1, <3>2, <3>6, ListOrder
  <2> QED BY <1>1, <1>2, <2>1, <2>2 DEF NoFit
<1>11. CASE at[1] # NULL /\ at \in At /\ h.matrix[at] # <<>> /\ ~Before(at, want)
  <2>1. b \in DOMAIN f /\ MAPPING_INSERT(f[b]) = at /\ IsHeap(h1) /\ h1.hdr = H /\ Listed(h1, Dropped(f, b))
    BY <1>1, <1>4, <1>7, <1>11, ExtractFirstListed
  <2>2. b \in DOMAIN H /\ H[b].free = TRUE /\ MAPPING_INSERT(H[b].size) = at
    BY <1>7, <2>1
  <2>3. s <= H[b].size
    <3>1. H[b].size \in Nat
      BY <1>7, <2>2, Consts, TileTypes
    <3> QED BY <1>2, <1>8, <1>11, <2>2, <3>1, ListOrder
  <2>4. PICK g : Taken(h1, b, s, n, g)
    BY DEF Taken
  <2>5. r = Result(g, BufferOf(b))
    <3>1. /\ ShouldSplit(h1, b, s) => r = Result(RestFree(h1, b, s, n), BufferOf(b))
          /\ ~ShouldSplit(h1, b, s) => r = Result(SetUsed(h1, b, n, No, No), BufferOf(b))
      BY <1>2, <1>3, <1>4, <1>5, <1>11, MallocSteps
    <3> QED BY <2>4, <3>1 DEF Taken
  <2>6. r.heap = g
    BY <2>5 DEF Result
  <2>7. /\ HeapInv(g) /\ Kept(H, g.hdr, {})
        /\ b \in DOMAIN g.hdr /\ g.hdr[b].free = FALSE /\ s <= g.hdr[b].size
    <3>1. /\ b \in DOMAIN h.hdr /\ h.hdr[b].free = TRUE /\ s <= h.hdr[b].size
          /\ h1.hdr = h.hdr /\ Listed(h1, Dropped(FreeSizes(h.hdr), b))
      BY <1>1, <1>6, <2>1, <2>2, <2>3
    <3>2. /\ HeapInv(g) /\ Kept(h.hdr, g.hdr, {})
          /\ b \in DOMAIN g.hdr /\ g.hdr[b].free = FALSE /\ s <= g.hdr[b].size
      BY <1>5, <1>8, <2>1, <2>4, <3>1, TakenFits, ZenonT(30)
    <3> QED BY <1>1, <3>2
  <2>8. bytes <= g.hdr[b].size
    <3>1. g.hdr[b].size \in 0 .. POOL
      BY <2>7, TileTypes DEF HeapInv
    <3> QED BY <1>8, <2>7, <3>1, Consts
  <2>9. Fits(h, r, b, bytes)
    BY <1>1, <2>2, <2>5, <2>6, <2>7, <2>8 DEF Fits
  <2> QED BY <2>9
<1> QED BY <1>9, <1>10, <1>11
-----------------------------------------------------------------------------
(* free_ex.                                                                *)

\* Block a, off the lists, has absorbed what lies before m: free blocks and b.
Absorbing(H, k, f, a, m, b) ==
    /\ Tile(H) /\ IsHeap(k) /\ Listed(k, f) /\ ListedOutside(H, f, a, m)
    /\ k.hdr \in [{c \in DOMAIN H : c <= a \/ m <= c} -> Hdr]
    /\ \A c \in DOMAIN k.hdr : c # a => k.hdr[c] = H[c]
    /\ k.hdr[a].size = m - a - BLOCK_ALIGN
    /\ k.hdr[a].prev_free = H[a].prev_free /\ k.hdr[a].prev_hdr = H[a].prev_hdr
    /\ a \in DOMAIN H /\ m \in DOMAIN H /\ a < m /\ H[m].free = FALSE
    /\ \A c \in DOMAIN H : c < a \/ m <= c \/ H[c].free = TRUE \/ c = b

\* Block b before MergeNext: in free_ex it is marked as free already.
SameBut(H, h, b) ==
    /\ Tile(H) /\ IsHeap(h) /\ Listed(h, FreeSizes(H)) /\ h.hdr \in [DOMAIN H -> Hdr]
    /\ \A c \in DOMAIN H : c # b => h.hdr[c] = H[c]
    /\ h.hdr[b].size = H[b].size /\ h.hdr[b].prev_free = H[b].prev_free /\ h.hdr[b].prev_hdr = H[b].prev_hdr
    /\ b \in DOMAIN H /\ b # last /\ H[b].free = FALSE

\* What MergeNext makes of it.
NextAbsorbed(H, h, g, f, m, b) ==
    /\ Absorbing(H, g, f, b, m, b) /\ g.hdr[b].free = h.hdr[b].free
    /\ \/ H[After(H, b)].free = FALSE /\ g = h /\ g.hdr[b].size = H[b].size
       \/ /\ H[After(H, b)].free = TRUE /\ g # h
          /\ g.hdr[b].size = H[b].size + H[After(H, b)].size + BLOCK_ALIGN

LEMMA NothingAbsorbed ==
  ASSUME NEW H, NEW h, NEW b, SameBut(H, h, b), H[After(H, b)].free = FALSE
  PROVE  NextAbsorbed(H, h, MergeNext(h, b), FreeSizes(H), After(H, b), b)
<1>1. /\ Tile(H) /\ IsHeap(h) /\ Listed(h, FreeSizes(H)) /\ h.hdr \in [DOMAIN H -> Hdr]
      /\ \A c \in DOMAIN H : c # b => h.hdr[c] = H[c]
      /\ h.hdr[b].size = H[b].size /\ h.hdr[b].prev_free = H[b].prev_free /\ h.hdr[b].prev_hdr = H[b].prev_hdr
      /\ b \in DOMAIN H /\ b # last /\ H[b].free = FALSE
  BY DEF SameBut
<1>2. PICK n, f : n = After(H, b) /\ f = FreeSizes(H)
  OBVIOUS
<1>3. /\ n \in DOMAIN H /\ b < n /\ b \in Nat /\ n \in Nat /\ H[b].size \in Nat /\ b # n
      /\ \A c \in DOMAIN H : c <= b \/ n <= c
  <2>1. n \in DOMAIN H /\ b < n /\ b \in Nat /\ n \in Nat /\ H[b].size \in 0 .. POOL
        /\ \A c \in DOMAIN H : c <= b \/ n <= c
    BY <1>1, <1>2, Following, TileTypes
  <2> QED BY <2>1, Consts
<1>4. h.hdr[n].free = FALSE /\ H[n].free = FALSE
  BY <1>1, <1>2, <1>3
<1>5. NextOf(h, b) = n
  BY <1>1, <1>2, NextIs DEF After
<1>6. MergeNext(h, b) = h
  BY <1>1, <1>4, <1>5, MergeNextIs
<1>7. H[b].size = n - b - BLOCK_ALIGN
  BY <1>2, <1>3, Consts DEF After
<1>8. ListedOutside(H, f, b, n)
  <2>1. /\ \A c : c \in DOMAIN f <=> c \in DOMAIN H /\ H[c].free = TRUE
        /\ \A c \in DOMAIN f : f[c] = H[c].size
    BY <1>2, FreeSizesIs
  <2>2. ASSUME NEW c \in DOMAIN H, H[c].free = TRUE PROVE c < b \/ n < c
    <3>1. c # b /\ c # n /\ c \in Nat /\ (c <= b \/ n <= c)
      BY <1>1, <1>3, <1>4, <2>2, TileTypes
    <3> QED BY <1>3, <3>1
  <2>3. \A c : c \in DOMAIN f <=> c \in DOMAIN H /\ H[c].free = TRUE /\ (c < b \/ n < c)
    BY <2>1, <2>2
  <2>4. IsMap(f)
    BY <1>2 DEF IsMap, FreeSizes
  <2> QED BY <2>1, <2>3, <2>4 DEF ListedOutside
<1>9. DOMAIN H = {c \in DOMAIN H : c <= b \/ n <= c}
  BY <1>3
<1>10. \A c \in DOMAIN H : c < b \/ n <= c \/ H[c].free = TRUE \/ c = b
  <2> SUFFICES ASSUME NEW c \in DOMAIN H PROVE c < b \/ n <= c \/ c = b
    OBVIOUS
  <2>1. c \in Nat /\ (c <= b \/ n <= c)
    BY <1>1, <1>3, TileTypes
  <2> QED BY <1>3, <2>1
<1>11. Absorbing(H, h, f, b, n, b)
  BY <1>1, <1>2, <1>3, <1>4, <1>7, <1>8, <1>9, <1>10 DEF Absorbing
<1> QED BY <1>1, <1>2, <1>4, <1>6, <1>11, Zenon DEF NextAbsorbed

LEMMA FreeNextAbsorbed ==
  ASSUME NEW H, NEW h, NEW b, SameBut(H, h, b), H[After(H, b)].free = TRUE
  PROVE  NextAbsorbed(H, h, MergeNext(h, b), Dropped(FreeSizes(H), After(H, b)), After(H, After(H, b)), b)
<1>1. /\ Tile(H) /\ IsHeap(h) /\ Listed(h, FreeSizes(H)) /\ h.hdr \in [DOMAIN H -> Hdr]
      /\ \A c \in DOMAIN H : c # b => h.hdr[c] = H[c]
      /\ h.hdr[b].size = H[b].size /\ h.hdr[b].prev_free = H[b].prev_free /\ h.hdr[b].prev_hdr = H[b].prev_hdr
      /\ b \in DOMAIN H /\ b # last /\ H[b].free = FALSE
  BY DEF SameBut
<1>2. PICK n, m, f, g : /\ n = After(H, b) /\ m = After(H, n) /\ f = Dropped(FreeSizes(H), n)
                        /\ g = MergeNext(h, b)
  OBVIOUS
<1>3. /\ n \in DOMAIN H /\ b < n /\ b \in Nat /\ n \in Nat /\ b # n /\ H[n].free = TRUE
      /\ \A c \in DOMAIN H : c <= b \/ n <= c
  <2>1. n \in DOMAIN H /\ b < n /\ b \in Nat /\ n \in Nat /\ \A c \in DOMAIN H : c <= b \/ n <= c
    BY <1>1, <1>2, Following, TileTypes
  <2> QED BY <1>2, <2>1
<1>4. /\ m \in DOMAIN H /\ n < m /\ m \in Nat /\ H[m].free = FALSE
      /\ \A c \in DOMAIN H : c <= n \/ m <= c
      /\ ListedOutside(H, f, n, m)
  BY <1>1, <1>2, <1>3, OthersListed, TileTypes
<1>5. PICK s : s = H[b].size + H[n].size + BLOCK_ALIGN
  OBVIOUS
<1>6. H[b].size \in 0 .. POOL /\ H[n].size \in 0 .. POOL /\ H[b].size \in Nat /\ H[n].size \in Nat /\ BLOCK_ALIGN \in Nat
      /\ H[b].size = n - b - BLOCK_ALIGN /\ H[n].size = m - n - BLOCK_ALIGN
  <2>1. H[b].size \in 0 .. POOL /\ H[n].size \in 0 .. POOL
    BY <1>1, <1>3, TileTypes
  <2> QED BY <1>2, <1>3, <1>4, <2>1, Consts DEF After
<1>7. s = m - b - BLOCK_ALIGN /\ s \in 0 .. POOL
  <2>1. m <= last /\ last \in Nat /\ last <= POOL /\ POOL \in Nat
    BY <1>1, <1>4, TileTypes, PoolLayout, Consts
  <2> QED BY <1>3, <1>4, <1>5, <1>6, <2>1
<1>8. h.hdr[n] = H[n] /\ DOMAIN h.hdr = DOMAIN H
  BY <1>1, <1>3
<1>9. Grown(h.hdr, g, f, b, n, s)
  <2>1. NextOf(h, b) = n
    BY <1>1, <1>2, NextIs DEF After
  <2>2. Grows(h.hdr, b, n, s)
    BY <1>1, <1>3, <1>5, <1>7, <1>8 DEF Grows
  <2>3. n \in DOMAIN FreeSizes(H) /\ FreeSizes(H)[n] = h.hdr[n].size
    BY <1>3, <1>8 DEF FreeSizes
  <2>4. h.hdr[n].free = TRUE
    BY <1>3, <1>8
  <2> QED BY <1>1, <1>2, <2>1, <2>2, <2>3, <2>4, MergeNextIs
<1>10. /\ IsHeap(g) /\ Listed(g, f) /\ g.hdr \in [DOMAIN H \ {n} -> Hdr]
       /\ \A c \in DOMAIN H \ {n} : c # b => g.hdr[c] = H[c]
       /\ g.hdr[b].size = s /\ g.hdr[b].free = h.hdr[b].free
       /\ g.hdr[b].prev_free = H[b].prev_free /\ g.hdr[b].prev_hdr = H[b].prev_hdr
  BY <1>1, <1>8, <1>9 DEF Grown
<1>11. ListedOutside(H, f, b, m)
  <2>1. /\ IsMap(f) /\ \A c \in DOMAIN f : f[c] = H[c].size
        /\ \A c : c \in DOMAIN f <=> c \in DOMAIN H /\ H[c].free = TRUE /\ (c < n \/ m < c)
    BY <1>4 DEF ListedOutside
  <2>2. ASSUME NEW c \in DOMAIN H, H[c].free = TRUE PROVE (c < n \/ m < c) <=> (c < b \/ m < c)
    <3>1. c # b /\ c \in Nat /\ (c <= b \/ n <= c)
      BY <1>1, <1>3, <2>2, TileTypes
    <3> QED BY <1>3, <1>4, <3>1
  <2>3. \A c : c \in DOMAIN f <=> c \in DOMAIN H /\ H[c].free = TRUE /\ (c < b \/ m < c)
    BY <2>1, <2>2
  <2> QED BY <2>1, <2>3 DEF ListedOutside
<1>12. DOMAIN H \ {n} = {c \in DOMAIN H : c <= b \/ m <= c}
  <2> SUFFICES ASSUME NEW c \in DOMAIN H PROVE c # n <=> c <= b \/ m <= c
    OBVIOUS
  <2>1. c \in Nat /\ (c <= b \/ n <= c) /\ (c <= n \/ m <= c)
    BY <1>1, <1>3, <1>4, TileTypes
  <2> QED BY <1>3, <1>4, <2>1
<1>13. \A c \in DOMAIN H : c < b \/ m <= c \/ H[c].free = TRUE \/ c = b
  <2> SUFFICES ASSUME NEW c \in DOMAIN H PROVE c < b \/ m <= c \/ c = n \/ c = b
    BY <1>3
  <2>1. c \in Nat /\ (c <= b \/ n <= c) /\ (c <= n \/ m <= c)
    BY <1>1, <1>3, <1>4, TileTypes
  <2> QED BY <1>3, <1>4, <2>1
<1>14. b < m
  BY <1>3, <1>4
<1>15. Absorbing(H, g, f, b, m, b)
  BY <1>1, <1>4, <1>7, <1>10, <1>11, <1>12, <1>13, <1>14 DEF Absorbing
<1>16. g # h
  BY <1>3, <1>8, <1>10
<1> QED BY <1>2, <1>3, <1>5, <1>10, <1>15, <1>16, Zenon DEF NextAbsorbed

LEMMA MergeNextAbsorbs ==
  ASSUME NEW H, NEW h, NEW b, SameBut(H, h, b), NEW g, g = MergeNext(h, b)
  PROVE  \E f, m : NextAbsorbed(H, h, g, f, m, b)
<1>1. H[After(H, b)].free \in BOOLEAN
  <2>1. Tile(H) /\ b \in DOMAIN H /\ b # last
    BY DEF SameBut
  <2> QED BY <2>1, Following, TileTypes
<1>2. CASE H[After(H, b)].free = FALSE
  BY <1>2, NothingAbsorbed, Zenon
<1>3. CASE H[After(H, b)].free = TRUE
  BY <1>3, FreeNextAbsorbed, Zenon
<1> QED BY <1>1, <1>2, <1>3, Zenon

\* The free block before b absorbs it, and what it has absorbed.
AbsorbedBefore(H, g, f, a, m, b) ==
    Absorbing(H, g, f, a, m, b) /\ g.hdr[a].free = TRUE /\ H[a].prev_free = FALSE /\ a # b

LEMMA PrevAbsorbs ==
  ASSUME NEW H, NEW k, NEW f, NEW m, NEW b, Absorbing(H, k, f, b, m, b), H[b].prev_free = TRUE,
         NEW a, a = k.hdr[b].prev_hdr, NEW g, g = Merged(EXTRACT_BLOCK(k, a), a, b)
  PROVE  AbsorbedBefore(H, g, Dropped(f, a), a, m, b)
<1>1. /\ Tile(H) /\ IsHeap(k) /\ Listed(k, f) /\ ListedOutside(H, f, b, m)
      /\ k.hdr \in [{c \in DOMAIN H : c <= b \/ m <= c} -> Hdr]
      /\ \A c \in DOMAIN k.hdr : c # b => k.hdr[c] = H[c]
      /\ k.hdr[b].size = m - b - BLOCK_ALIGN /\ k.hdr[b].prev_hdr = H[b].prev_hdr
      /\ b \in DOMAIN H /\ m \in DOMAIN H /\ b < m /\ H[m].free = FALSE
      /\ \A c \in DOMAIN H : c < b \/ m <= c \/ H[c].free = TRUE \/ c = b
  BY DEF Absorbing
<1>2. b # first
  BY <1>1 DEF Tile
<1>3. PICK z \in DOMAIN H : z # last /\ z < b /\ After(H, z) = b
  BY <1>1, <1>2, Preceding
<1>4. Follows(H, z, b)
  BY <1>1, <1>3, Following
<1>5. H[z].free = TRUE /\ H[b].prev_hdr = z
  <2>1. H[z].free = TRUE
    BY <1>4 DEF Follows
  <2> QED BY <1>4, <2>1 DEF Follows
<1>6. a = z
  BY <1>1, <1>5
<1>7. /\ a \in DOMAIN H /\ a # last /\ a < b /\ H[a].free = TRUE /\ H[a].size = b - a - BLOCK_ALIGN
      /\ a \in Nat /\ b \in Nat /\ m \in Nat /\ H[a].size \in 0 .. POOL /\ BLOCK_ALIGN \in Nat /\ a < m
      /\ \A c \in DOMAIN H : c <= a \/ b <= c
  <2>1. a \in DOMAIN H /\ a # last /\ a < b /\ H[a].free = TRUE /\ After(H, a) = b
    BY <1>3, <1>5, <1>6
  <2>2. a \in Nat /\ b \in Nat /\ m \in Nat /\ H[a].size \in 0 .. POOL /\ H[a].size \in Nat /\ BLOCK_ALIGN \in Nat
    BY <1>1, <2>1, TileTypes, Consts
  <2>3. b = a + BLOCK_ALIGN + H[a].size
    BY <2>1 DEF After
  <2>4. \A c \in DOMAIN H : c <= a \/ b <= c
    BY <1>1, <2>1, Following
  <2>5. H[a].size = b - a - BLOCK_ALIGN
    <3>1. PICK i \in Nat, n \in Nat, v \in Nat, t \in Nat :
              i = a /\ n = b /\ v = BLOCK_ALIGN /\ t = H[a].size
      BY <2>2, Zenon
    <3>2. n = i + v + t
      BY <2>3, <3>1, Zenon
    <3>3. t = n - i - v
      BY <3>2
    <3> QED BY <3>1, <3>3, Zenon
  <2>6. a < m
    BY <1>1, <2>1, <2>2
  <2> QED BY <2>1, <2>2, <2>4, <2>5, <2>6
<1>8. H[a].prev_free = FALSE
  <2>1. CASE a = first
    BY <1>1, <2>1 DEF Tile
  <2>2. CASE a # first
    <3>1. PICK y \in DOMAIN H : y # last /\ y < a /\ After(H, y) = a
      BY <1>1, <1>7, <2>2, Preceding
    <3>2. Follows(H, y, a)
      BY <1>1, <3>1, Following
    <3>3. H[y].free \in BOOLEAN /\ H[a].prev_free = H[y].free /\ (H[y].free => ~H[a].free)
      BY <1>1, <3>1, <3>2, TileTypes DEF Follows
    <3> QED BY <1>7, <3>3
  <2> QED BY <2>1, <2>2
<1>9. PICK e, f2 : e = EXTRACT_BLOCK(k, a) /\ f2 = Dropped(f, a)
  OBVIOUS
<1>10. a \in DOMAIN f /\ f[a] = H[a].size /\ a \in DOMAIN k.hdr /\ k.hdr[a] = H[a] /\ b \in DOMAIN k.hdr /\ a # b
  <2>1. a \in DOMAIN f
    BY <1>1, <1>7 DEF ListedOutside
  <2> QED BY <1>1, <1>7, <2>1 DEF ListedOutside
<1>11. IsHeap(e) /\ e.hdr = k.hdr /\ Listed(e, f2)
  BY <1>1, <1>7, <1>9, <1>10, ExtractListed DEF SizeAt
<1>12. PICK s : s = H[a].size + (m - b - BLOCK_ALIGN) + BLOCK_ALIGN
  OBVIOUS
<1>13. s = m - a - BLOCK_ALIGN /\ s \in 0 .. POOL
  <2>1. m <= last /\ last \in Nat /\ last <= POOL /\ POOL \in Nat
    BY <1>1, TileTypes, PoolLayout, Consts
  <2>2. s = m - a - BLOCK_ALIGN
    BY <1>7, <1>12
  <2>3. s \in Nat
    BY <1>1, <1>7, <2>2
  <2>4. s <= POOL
    BY <1>7, <2>1, <2>2
  <2> QED BY <2>1, <2>2, <2>3, <2>4
<1>14. Grows(e.hdr, a, b, s)
  BY <1>1, <1>10, <1>11, <1>12, <1>13 DEF Grows
<1>15. Grown(e.hdr, g, f2, a, b, s)
  BY <1>9, <1>11, <1>14, MergedIs
<1>16. /\ IsHeap(g) /\ Listed(g, f2) /\ g.hdr \in [DOMAIN k.hdr \ {b} -> Hdr]
       /\ \A c \in DOMAIN k.hdr \ {b} : c # a => g.hdr[c] = k.hdr[c]
       /\ g.hdr[a].size = s /\ g.hdr[a].free = TRUE
       /\ g.hdr[a].prev_free = H[a].prev_free /\ g.hdr[a].prev_hdr = H[a].prev_hdr
  <2>1. /\ IsHeap(g) /\ Listed(g, f2) /\ g.hdr \in [DOMAIN e.hdr \ {b} -> Hdr]
        /\ \A c \in DOMAIN e.hdr \ {b} : c # a => g.hdr[c] = e.hdr[c]
        /\ g.hdr[a].size = s /\ g.hdr[a].free = e.hdr[a].free
        /\ g.hdr[a].prev_free = e.hdr[a].prev_free /\ g.hdr[a].prev_hdr = e.hdr[a].prev_hdr
    BY <1>15 DEF Grown
  <2>2. g.hdr[a].free = TRUE
    BY <1>7, <1>10, <1>11, <2>1
  <2> QED BY <1>10, <1>11, <2>1, <2>2, ZenonT(60)
<1>17. DOMAIN k.hdr \ {b} = {c \in DOMAIN H : c <= a \/ m <= c}
  <2>1. DOMAIN k.hdr = {c \in DOMAIN H : c <= b \/ m <= c}
    BY <1>1
  <2> SUFFICES ASSUME NEW c \in DOMAIN H PROVE (c <= b \/ m <= c) /\ c # b <=> c <= a \/ m <= c
    BY <2>1
  <2>2. c \in Nat /\ (c <= a \/ b <= c)
    BY <1>1, <1>7, TileTypes
  <2> QED BY <1>1, <1>7, <2>2
<1>18. \A c \in DOMAIN g.hdr : c # a => g.hdr[c] = H[c]
  BY <1>1, <1>16
<1>19. ListedOutside(H, f2, a, m)
  <2>1. HasLess(f, f2, a)
    BY <1>9, DroppedIs
  <2>2. /\ \A c \in DOMAIN f : f[c] = H[c].size
        /\ \A c : c \in DOMAIN f <=> c \in DOMAIN H /\ H[c].free = TRUE /\ (c < b \/ m < c)
    BY <1>1 DEF ListedOutside
  <2>3. ASSUME NEW c \in DOMAIN H PROVE (c < b \/ m < c) /\ c # a <=> c < a \/ m < c
    <3>1. c \in Nat /\ (c <= a \/ b <= c)
      BY <1>1, <1>7, TileTypes
    <3> QED BY <1>1, <1>7, <3>1
  <2>4. \A c : c \in DOMAIN f2 <=> c \in DOMAIN H /\ H[c].free = TRUE /\ (c < a \/ m < c)
    BY <2>1, <2>2, <2>3 DEF HasLess
  <2>5. \A c \in DOMAIN f2 : f2[c] = H[c].size
    BY <2>1, <2>2 DEF HasLess
  <2> QED BY <2>1, <2>4, <2>5 DEF ListedOutside, HasLess
<1>20. \A c \in DOMAIN H : c < a \/ m <= c \/ H[c].free = TRUE \/ c = b
  <2> SUFFICES ASSUME NEW c \in DOMAIN H PROVE c < a \/ m <= c \/ H[c].free = TRUE \/ c = b
    OBVIOUS
  <2>1. CASE c = a
    BY <1>7, <2>1
  <2>2. CASE c # a
    <3>1. c \in Nat /\ (c <= a \/ b <= c)
      BY <1>1, <1>7, TileTypes
    <3> QED BY <1>1, <1>7, <2>2, <3>1
  <2> QED BY <2>1, <2>2
<1>21. Absorbing(H, g, f2, a, m, b)
  BY <1>1, <1>7, <1>13, <1>16, <1>17, <1>18, <1>19, <1>20 DEF Absorbing
<1> QED BY <1>8, <1>9, <1>10, <1>16, <1>21 DEF AbsorbedBefore

\* The free block that results is put on its list, and the block behind it told.
LEMMA PlacedFree ==
  ASSUME NEW H, NEW k, NEW f, NEW a, NEW m, NEW b, Absorbing(H, k, f, a, m, b),
         k.hdr[a].free = TRUE, H[a].prev_free = FALSE,
         NEW h2, h2 = INSERT_BLOCK(k, a), NEW g, g = SetPrev(h2, NextOf(h2, a), a, Yes)
  PROVE  HeapInv(g) /\ Kept(H, g.hdr, {b})
<1>1. /\ Tile(H) /\ IsHeap(k) /\ Listed(k, f) /\ ListedOutside(H, f, a, m)
      /\ k.hdr \in [{c \in DOMAIN H : c <= a \/ m <= c} -> Hdr]
      /\ \A c \in DOMAIN k.hdr : c # a => k.hdr[c] = H[c]
      /\ k.hdr[a].size = m - a - BLOCK_ALIGN
      /\ k.hdr[a].prev_free = H[a].prev_free /\ k.hdr[a].prev_hdr = H[a].prev_hdr
      /\ a \in DOMAIN H /\ m \in DOMAIN H /\ a < m /\ H[m].free = FALSE
      /\ \A c \in DOMAIN H : c < a \/ m <= c \/ H[c].free = TRUE \/ c = b
  BY DEF Absorbing
<1>2. /\ a \in Nat /\ m \in Nat /\ BLOCK_ALIGN \in Nat /\ a # m
      /\ a \in DOMAIN k.hdr /\ m \in DOMAIN k.hdr /\ k.hdr[m] = H[m] /\ k.hdr[a] \in Hdr
  <2>1. a \in Nat /\ m \in Nat /\ BLOCK_ALIGN \in Nat
    BY <1>1, TileTypes, Consts
  <2>2. a # m /\ a <= a /\ m <= m
    BY <1>1, <2>1
  <2> QED BY <1>1, <2>1, <2>2
<1>3. a \notin DOMAIN f
  BY <1>1, <1>2 DEF ListedOutside
<1>4. PICK s : s = k.hdr[a].size
  OBVIOUS
<1>5. s \in 0 .. POOL /\ SizeAt(k, a) = s
  BY <1>2, <1>4 DEF Hdr, SizeAt
<1>6. IsHeap(h2) /\ h2.hdr = k.hdr /\ Listed(h2, Added(f, a, s))
  BY <1>1, <1>2, <1>3, <1>5, InsertListed
<1>7. NextOf(h2, a) = m
  BY <1>1, <1>2, <1>6, NextIs DEF After
<1>8. PICK v : v = Yes
  OBVIOUS
<1>9. v = TRUE
  BY <1>8 DEF Yes
<1>10. v \in BOOLEAN
  BY <1>9, Zenon
<1>11. h2.hdr \in [DOMAIN h2.hdr -> Hdr] /\ m \in DOMAIN h2.hdr
  BY <1>1, <1>2, <1>6
<1>12. /\ IsHeap(g) /\ Listed(g, Added(f, a, s)) /\ g.hdr \in [DOMAIN h2.hdr -> Hdr]
       /\ \A c \in DOMAIN h2.hdr : c # m => g.hdr[c] = h2.hdr[c]
       /\ g.hdr[m].size = h2.hdr[m].size /\ g.hdr[m].free = h2.hdr[m].free
       /\ g.hdr[m].prev_free = v /\ g.hdr[m].prev_hdr = a
  BY <1>2, <1>6, <1>7, <1>8, <1>10, <1>11, SetPrevFields
<1>13. Joins(H, g.hdr, a, m, TRUE)
  <2>1. g.hdr \in [{c \in DOMAIN H : c <= a \/ m <= c} -> Hdr]
    BY <1>1, <1>6, <1>12
  <2>2. \A c \in DOMAIN g.hdr : c # a /\ c # m => g.hdr[c] = H[c]
    BY <1>1, <1>6, <1>12, <2>1
  <2>3. g.hdr[a] = k.hdr[a]
    BY <1>2, <1>6, <1>12
  <2>4. g.hdr[m].size = H[m].size /\ g.hdr[m].free = H[m].free /\ g.hdr[m].prev_free = TRUE
    BY <1>2, <1>6, <1>9, <1>12
  <2> QED BY <1>1, <1>12, <2>1, <2>2, <2>3, <2>4 DEF Joins
<1>14. CanJoin(H, g.hdr, a, m, TRUE, b)
  BY <1>1, <1>13, Zenon DEF CanJoin
<1>15. Kept(H, g.hdr, {b})
  BY <1>1, <1>14, JoinTiles
<1>16. g.hdr[a].size = s
  BY <1>2, <1>4, <1>6, <1>12
<1>17. Listed(g, Added(f, a, g.hdr[a].size))
  BY <1>12, <1>16
<1>18. HeapInv(g)
  BY <1>1, <1>12, <1>14, <1>17, JoinFree
<1> QED BY <1>15, <1>18

\* Which block absorbs the one that is freed.
Absorber(h1, b, a, k) ==
    \/ h1.hdr[b].prev_free = FALSE /\ a = b /\ k = h1
    \/ h1.hdr[b].prev_free = TRUE /\ a = h1.hdr[b].prev_hdr /\ a # b /\ k = Merged(EXTRACT_BLOCK(h1, a), a, b)

LEMMA FreeSteps ==
  ASSUME NEW h, NEW p, p # NULL, NEW b, b = HdrOf(p), NEW h1, h1 = MergeNext(SetFree(h, b, Yes), b),
         NEW a, NEW k, Absorber(h1, b, a, k), NEW h2, h2 = INSERT_BLOCK(k, a)
  PROVE  free_ex(h, p) = SetPrev(h2, NextOf(h2, a), a, Yes)
<1>1. CASE h1.hdr[b].prev_free = FALSE /\ a = b /\ k = h1
  BY <1>1 DEF free_ex, SetFree, SetPrev, Yes
<1>2. CASE h1.hdr[b].prev_free = TRUE /\ a = h1.hdr[b].prev_hdr /\ a # b /\ k = Merged(EXTRACT_BLOCK(h1, a), a, b)
  BY <1>2, ZenonT(30) DEF free_ex, SetFree, SetPrev, Yes
<1> QED BY <1>1, <1>2 DEF Absorber

\* The callers' blocks: used, and not the last one, which has no bytes.
IsGiven(H, b) == b \in DOMAIN H /\ b # last /\ H[b].free = FALSE

LEMMA FreeIs ==
  ASSUME NEW h, HeapInv(h), NEW b, IsGiven(h.hdr, b), NEW p, p = BufferOf(b), NEW g, g = free_ex(h, p)
  PROVE  HeapInv(g) /\ Kept(h.hdr, g.hdr, {b})
<1>1. PICK H, h0, h1 : H = h.hdr /\ h0 = SetFree(h, b, Yes) /\ h1 = MergeNext(h0, b)
  OBVIOUS
<1>2. /\ Tile(H) /\ IsHeap(h) /\ Listed(h, FreeSizes(H)) /\ H \in [DOMAIN H -> Hdr]
      /\ b \in DOMAIN H /\ b # last /\ H[b].free = FALSE
  BY <1>1 DEF HeapInv, IsGiven, Tile
<1>3. p # NULL /\ b = HdrOf(p)
  <2>1. b \in Nat /\ BHDR_OVERHEAD \in Nat
    BY <1>2, TileTypes, Consts
  <2> QED BY <2>1 DEF BufferOf, HdrOf, NULL
<1>4. SameBut(H, h0, b) /\ h0.hdr[b].free = TRUE
  <2>1. PICK v : v = Yes
    OBVIOUS
  <2>2. v = TRUE
    BY <2>1 DEF Yes
  <2>3. v \in BOOLEAN
    BY <2>2, Zenon
  <2>4. h.hdr \in [DOMAIN h.hdr -> Hdr] /\ b \in DOMAIN h.hdr
    BY <1>1, <1>2
  <2>5. /\ IsHeap(h0) /\ Listed(h0, FreeSizes(H)) /\ h0.hdr \in [DOMAIN h.hdr -> Hdr]
        /\ \A c \in DOMAIN h.hdr : c # b => h0.hdr[c] = h.hdr[c]
        /\ h0.hdr[b].size = h.hdr[b].size /\ h0.hdr[b].free = v
        /\ h0.hdr[b].prev_free = h.hdr[b].prev_free /\ h0.hdr[b].prev_hdr = h.hdr[b].prev_hdr
    BY <1>1, <1>2, <2>1, <2>3, <2>4, SetFields
  <2> QED BY <1>1, <1>2, <2>2, <2>5 DEF SameBut
<1>5. PICK f, m : NextAbsorbed(H, h0, h1, f, m, b)
  BY <1>1, <1>4, MergeNextAbsorbs
<1>6. Absorbing(H, h1, f, b, m, b) /\ h1.hdr[b].free = TRUE /\ h1.hdr[b].prev_free = H[b].prev_free
  BY <1>4, <1>5 DEF NextAbsorbed, Absorbing
<1>7. H[b].prev_free \in BOOLEAN
  BY <1>2, TileTypes
<1>8. CASE H[b].prev_free = FALSE
  <2>1. PICK h2 : h2 = INSERT_BLOCK(h1, b)
    OBVIOUS
  <2>2. Absorber(h1, b, b, h1)
    BY <1>6, <1>8 DEF Absorber
  <2>3. g = SetPrev(h2, NextOf(h2, b), b, Yes)
    <3>1. PICK a, k : a = b /\ k = h1
      OBVIOUS
    <3>2. Absorber(h1, b, a, k) /\ h2 = INSERT_BLOCK(k, a)
      BY <2>1, <2>2, <3>1
    <3>3. free_ex(h, p) = SetPrev(h2, NextOf(h2, a), a, Yes)
      BY <1>1, <1>3, <3>2, FreeSteps
    <3> QED BY <3>1, <3>3
  <2>4. HeapInv(g) /\ Kept(H, g.hdr, {b})
    BY <1>6, <1>8, <2>1, <2>3, PlacedFree
  <2> QED BY <1>1, <2>4
<1>9. CASE H[b].prev_free = TRUE
  <2>1. PICK a : a = h1.hdr[b].prev_hdr
    OBVIOUS
  <2>2. PICK k : k = Merged(EXTRACT_BLOCK(h1, a), a, b)
    OBVIOUS
  <2>3. PICK h2 : h2 = INSERT_BLOCK(k, a)
    OBVIOUS
  <2>4. Absorbing(H, k, Dropped(f, a), a, m, b) /\ k.hdr[a].free = TRUE /\ H[a].prev_free = FALSE /\ a # b
    <3>1. AbsorbedBefore(H, k, Dropped(f, a), a, m, b)
      BY <1>6, <1>9, <2>1, <2>2, PrevAbsorbs
    <3> QED BY <3>1 DEF AbsorbedBefore
  <2>5. Absorber(h1, b, a, k)
    BY <1>6, <1>9, <2>1, <2>2, <2>4 DEF Absorber
  <2>6. g = SetPrev(h2, NextOf(h2, a), a, Yes)
    BY <1>1, <1>3, <2>3, <2>5, FreeSteps
  <2>7. HeapInv(g) /\ Kept(H, g.hdr, {b})
    BY <2>3, <2>4, <2>6, PlacedFree
  <2> QED BY <1>1, <2>7
<1> QED BY <1>7, <1>8, <1>9

\* init_memory_pool.
LEMMA InitIs ==
  ASSUME NEW g, g = free_ex(process_area, BufferOf(first))
  PROVE  HeapInv(g)
<1>1. PICK h, h0, H : h = process_area /\ h0 = SetFree(h, first, Yes) /\ H = h0.hdr
  OBVIOUS
<1>2. /\ first \in Nat /\ last \in Nat /\ FirstSize \in Nat /\ first < last /\ last <= POOL /\ POOL \in Nat
      /\ FirstSize = last - first - BLOCK_ALIGN /\ BLOCK_ALIGN <= FirstSize /\ FirstSize \in 0 .. POOL
      /\ Multiple(first, BLOCK_ALIGN) /\ Multiple(last, BLOCK_ALIGN) /\ Multiple(FirstSize, BLOCK_ALIGN)
      /\ BLOCK_ALIGN \in Nat \ {0} /\ last = first + BLOCK_ALIGN + FirstSize
  BY PoolLayout, Consts
<1>3. PICK K : K = [a \in {first, last} |->
                 IF a = first THEN [size |-> FirstSize, free |-> FALSE, prev_free |-> FALSE, prev_hdr |-> NULL]
                 ELSE [size |-> 0, free |-> FALSE, prev_free |-> TRUE, prev_hdr |-> first]]
  OBVIOUS
<1>4. /\ IsHeap(h) /\ h.hdr = K /\ h.fl_bitmap = {}
      /\ h.matrix = [at \in At |-> <<>>]
      /\ h.sl_bitmap = [fl \in 0 .. REAL_FLI - 1 |-> {}]
  BY <1>1, <1>3 DEF process_area, IsHeap, At
<1>5. PICK f : f = [c \in {} |-> 0]
  OBVIOUS
<1>6. Listed(h, f)
  <2>1. h.matrix \in [At -> Seq(Int)]
    BY <1>4
  <2>2. BitsMatch(h)
    <3>1. \A at \in At : h.matrix[at] = <<>> /\ at[1] \in 0 .. REAL_FLI - 1 /\ h.sl_bitmap[at[1]] = {}
      BY <1>4 DEF At
    <3>2. h.sl_bitmap \in [0 .. REAL_FLI - 1 -> SUBSET (0 .. MAX_SLI - 1)]
      BY <1>4
    <3>3. h.fl_bitmap = {fl \in 0 .. REAL_FLI - 1 : h.sl_bitmap[fl] # {}}
      BY <1>4
    <3> QED BY <3>1, <3>2, <3>3 DEF BitsMatch
  <2>3. ASSUME NEW at \in At
        PROVE  /\ ToSet(h.matrix[at]) = {b \in DOMAIN f : MAPPING_INSERT(f[b]) = at}
               /\ IsInjective(h.matrix[at])
    <3>1. h.matrix[at] = <<>>
      BY <1>4
    <3>2. ToSet(<<>>) = {} /\ IsInjective(<<>>)
      BY DEF ToSet, IsInjective
    <3>3. DOMAIN f = {}
      BY <1>5
    <3> QED BY <3>1, <3>2, <3>3
  <2> QED BY <2>1, <2>2, <2>3 DEF Listed
<1>7. /\ K \in [DOMAIN K -> Hdr] /\ DOMAIN K = {first, last} /\ first # last
      /\ K[first].size = FirstSize /\ K[first].free = FALSE /\ K[first].prev_free = FALSE /\ K[first].prev_hdr = NULL
      /\ K[last].size = 0 /\ K[last].free = FALSE /\ K[last].prev_free = TRUE /\ K[last].prev_hdr = first
  <2>1. first # last /\ 0 \in 0 .. POOL
    BY <1>2
  <2>2. [size |-> FirstSize, free |-> FALSE, prev_free |-> FALSE, prev_hdr |-> NULL] \in Hdr
    BY <1>2 DEF Hdr
  <2>3. [size |-> 0, free |-> FALSE, prev_free |-> TRUE, prev_hdr |-> first] \in Hdr
    BY <1>2 DEF Hdr
  <2> QED BY <1>3, <2>1, <2>2, <2>3
<1>8. /\ IsHeap(h0) /\ Listed(h0, f) /\ H \in [{first, last} -> Hdr] /\ H[last] = K[last]
      /\ H[first].size = FirstSize /\ H[first].free = TRUE /\ H[first].prev_free = FALSE
  <2>1. PICK v : v = Yes
    OBVIOUS
  <2>2. v = TRUE
    BY <2>1 DEF Yes
  <2>3. v \in BOOLEAN
    BY <2>2, Zenon
  <2>4. h.hdr \in [DOMAIN h.hdr -> Hdr] /\ first \in DOMAIN h.hdr
    BY <1>4, <1>7
  <2>5. /\ IsHeap(h0) /\ Listed(h0, f) /\ h0.hdr \in [DOMAIN h.hdr -> Hdr]
        /\ \A c \in DOMAIN h.hdr : c # first => h0.hdr[c] = h.hdr[c]
        /\ h0.hdr[first].size = h.hdr[first].size /\ h0.hdr[first].free = v
        /\ h0.hdr[first].prev_free = h.hdr[first].prev_free
    BY <1>1, <1>4, <1>6, <2>1, <2>3, <2>4, SetFields
  <2> QED BY <1>1, <1>4, <1>7, <2>2, <2>5
<1>9. After(H, first) = last
  BY <1>2, <1>8 DEF After
<1>10. Tile(H)
  <2>1. DOMAIN H = {first, last} /\ H \in [DOMAIN H -> Hdr]
    BY <1>8
  <2>2. Multiple(0, BLOCK_ALIGN)
    <3>1. 0 = 0 * BLOCK_ALIGN
      BY <1>2
    <3> QED BY <3>1 DEF Multiple
  <2>3. \A b \in DOMAIN H : b \in first .. last /\ Multiple(b, BLOCK_ALIGN) /\ Multiple(H[b].size, BLOCK_ALIGN)
    BY <1>2, <1>7, <1>8, <2>1, <2>2
  <2>4. Follows(H, first, last)
    <3>1. \A c \in DOMAIN H : c <= first \/ last <= c
      BY <1>2, <2>1
    <3> QED BY <1>2, <1>7, <1>8, <2>1, <3>1 DEF Follows
  <2>5. \A b \in DOMAIN H : b # last => Follows(H, b, After(H, b))
    BY <1>9, <2>1, <2>4
  <2> QED BY <1>7, <1>8, <2>1, <2>3, <2>5 DEF Tile
<1>11. Absorbing(H, h0, f, first, last, first)
  <2>1. \A c \in DOMAIN H : c <= first \/ last <= c
    BY <1>2, <1>8
  <2>2. H \in [{c \in DOMAIN H : c <= first \/ last <= c} -> Hdr]
    BY <1>8, <2>1
  <2>3. ListedOutside(H, f, first, last)
    <3>1. IsMap(f) /\ DOMAIN f = {}
      BY <1>5 DEF IsMap
    <3>2. \A c \in DOMAIN H : ~(c < first \/ last < c)
      BY <1>2, <1>8
    <3> QED BY <3>1, <3>2 DEF ListedOutside
  <2>4. \A c \in DOMAIN H : c < first \/ last <= c \/ H[c].free = TRUE \/ c = first
    BY <1>2, <1>8
  <2> QED BY <1>1, <1>2, <1>7, <1>8, <1>10, <2>2, <2>3, <2>4 DEF Absorbing
<1>12. MergeNext(h0, first) = h0
  <2>1. NextOf(h0, first) = last
    BY <1>1, <1>9, NextIs
  <2>2. h0.hdr[last].free = FALSE
    BY <1>1, <1>7, <1>8
  <2> QED BY <1>8, <2>1, <2>2, MergeNextIs
<1>13. PICK h2, p : h2 = INSERT_BLOCK(h0, first) /\ p = BufferOf(first)
  OBVIOUS
<1>14. p # NULL /\ first = HdrOf(p)
  <2>1. BHDR_OVERHEAD \in Nat
    BY Consts
  <2> QED BY <1>2, <1>13, <2>1 DEF BufferOf, HdrOf, NULL
<1>15. Absorber(h0, first, first, h0)
  BY <1>1, <1>8 DEF Absorber
<1>16. g = SetPrev(h2, NextOf(h2, first), first, Yes)
  <2>1. h0 = MergeNext(SetFree(h, first, Yes), first)
    BY <1>1, <1>12
  <2>2. free_ex(h, p) = SetPrev(h2, NextOf(h2, first), first, Yes)
    BY <1>13, <1>14, <1>15, <2>1, FreeSteps
  <2> QED BY <1>1, <1>13, <2>2
<1> QED BY <1>1, <1>8, <1>11, <1>13, <1>16, PlacedFree
-----------------------------------------------------------------------------
(* realloc_ex.                                                             *)

\* Block b has stayed where it is, and has at least size bytes.
Stays(H, g, b, size) ==
    /\ HeapInv(g) /\ Kept(H, g.hdr, {b})
    /\ b \in DOMAIN g.hdr /\ g.hdr[b].free = FALSE /\ size <= g.hdr[b].size

LEMMA ResizedSteps ==
  ASSUME NEW h, NEW b, NEW size, NEW h1, h1 = MergeNext(h, b), NEW n, n = NextOf(h1, b)
  PROVE  /\ ShouldSplit(h1, b, size) => Resized(h, b, size) = RestFree(h1, b, size, n)
         /\ ~ShouldSplit(h1, b, size) /\ h1 = h => Resized(h, b, size) = h
         /\ ~ShouldSplit(h1, b, size) /\ h1 # h => Resized(h, b, size) = SetNext(h1, n, b, No)
BY DEF Resized, SetNext, No

\* The used block is as long as all that it has absorbed.
LEMMA GrownUsed ==
  ASSUME NEW H, NEW k, NEW f, NEW m, NEW b, Absorbing(H, k, f, b, m, b), k.hdr[b].free = FALSE,
         NEW g, g = SetNext(k, m, b, No)
  PROVE  Stays(H, g, b, k.hdr[b].size)
<1>1. /\ Tile(H) /\ IsHeap(k) /\ Listed(k, f) /\ ListedOutside(H, f, b, m)
      /\ k.hdr \in [{c \in DOMAIN H : c <= b \/ m <= c} -> Hdr]
      /\ \A c \in DOMAIN k.hdr : c # b => k.hdr[c] = H[c]
      /\ k.hdr[b].size = m - b - BLOCK_ALIGN
      /\ k.hdr[b].prev_free = H[b].prev_free /\ k.hdr[b].prev_hdr = H[b].prev_hdr
      /\ b \in DOMAIN H /\ m \in DOMAIN H /\ b < m /\ H[m].free = FALSE
      /\ \A c \in DOMAIN H : c < b \/ m <= c \/ H[c].free = TRUE \/ c = b
  BY DEF Absorbing
<1>2. /\ b \in Nat /\ m \in Nat /\ BLOCK_ALIGN \in Nat /\ b # m
      /\ b \in DOMAIN k.hdr /\ m \in DOMAIN k.hdr /\ k.hdr[m] = H[m]
  <2>1. b \in Nat /\ m \in Nat /\ BLOCK_ALIGN \in Nat
    BY <1>1, TileTypes, Consts
  <2>2. b # m /\ b <= b /\ m <= m
    BY <1>1, <2>1
  <2> QED BY <1>1, <2>1, <2>2
<1>3. PICK v : v = No
  OBVIOUS
<1>4. v = FALSE
  BY <1>3 DEF No
<1>5. v \in BOOLEAN
  BY <1>4, Zenon
<1>6. k.hdr \in [DOMAIN k.hdr -> Hdr]
  BY <1>1
<1>7. /\ IsHeap(g) /\ Listed(g, f) /\ g.hdr \in [DOMAIN k.hdr -> Hdr]
      /\ \A c \in DOMAIN k.hdr : c # m => g.hdr[c] = k.hdr[c]
      /\ g.hdr[m].size = k.hdr[m].size /\ g.hdr[m].free = k.hdr[m].free
      /\ g.hdr[m].prev_free = v /\ g.hdr[m].prev_hdr = b
  BY <1>1, <1>2, <1>3, <1>5, <1>6, SetPrevFields
<1>8. Joins(H, g.hdr, b, m, FALSE)
  <2>1. g.hdr \in [{c \in DOMAIN H : c <= b \/ m <= c} -> Hdr]
    BY <1>1, <1>7
  <2>2. \A c \in DOMAIN g.hdr : c # b /\ c # m => g.hdr[c] = H[c]
    BY <1>1, <1>7, <2>1
  <2>3. g.hdr[b] = k.hdr[b]
    BY <1>2, <1>7
  <2>4. g.hdr[m].size = H[m].size /\ g.hdr[m].free = H[m].free /\ g.hdr[m].prev_free = FALSE
    BY <1>2, <1>4, <1>7
  <2> QED BY <1>1, <2>1, <2>2, <2>3, <2>4 DEF Joins
<1>9. CanJoin(H, g.hdr, b, m, FALSE, b)
  BY <1>1, <1>8, Zenon DEF CanJoin
<1>10. Kept(H, g.hdr, {b}) /\ b \in DOMAIN g.hdr
  BY <1>1, <1>9, JoinTiles
<1>11. HeapInv(g)
  BY <1>1, <1>7, <1>9, JoinUsed
<1>12. g.hdr[b] = k.hdr[b]
  BY <1>2, <1>7
<1>13. k.hdr[b].size <= k.hdr[b].size
  <2>1. m - b - BLOCK_ALIGN \in Int
    BY <1>2
  <2> QED BY <1>1, <2>1
<1> QED BY <1>10, <1>11, <1>12, <1>13 DEF Stays

\* What may stay: a block that is large enough, or will be with the free one behind it.
InPlace(h, b, size) == size <= SizeAt(h, b) \/ FitsWithNext(h, b, size)

LEMMA ResizedIs ==
  ASSUME NEW h, HeapInv(h), NEW b, IsGiven(h.hdr, b),
         NEW size \in Nat, BLOCK_ALIGN <= size, Multiple(size, BLOCK_ALIGN),
         InPlace(h, b, size), NEW g, g = Resized(h, b, size)
  PROVE  Stays(h.hdr, g, b, size)
<1>1. PICK H, h1 : H = h.hdr /\ h1 = MergeNext(h, b)
  OBVIOUS
<1>2. /\ Tile(H) /\ IsHeap(h) /\ Listed(h, FreeSizes(H)) /\ H \in [DOMAIN H -> Hdr]
      /\ b \in DOMAIN H /\ b # last /\ H[b].free = FALSE
  BY <1>1 DEF HeapInv, IsGiven, Tile
<1>3. SameBut(H, h, b)
  BY <1>1, <1>2 DEF SameBut
<1>4. PICK f, m : NextAbsorbed(H, h, h1, f, m, b)
  BY <1>1, <1>3, MergeNextAbsorbs
<1>5. /\ Absorbing(H, h1, f, b, m, b) /\ h1.hdr[b].free = FALSE
      /\ \/ H[After(H, b)].free = FALSE /\ h1 = h /\ h1.hdr[b].size = H[b].size
         \/ /\ H[After(H, b)].free = TRUE /\ h1 # h
            /\ h1.hdr[b].size = H[b].size + H[After(H, b)].size + BLOCK_ALIGN
  BY <1>1, <1>2, <1>4 DEF NextAbsorbed
<1>6. /\ h1.hdr \in [{c \in DOMAIN H : c <= b \/ m <= c} -> Hdr]
      /\ h1.hdr[b].size = m - b - BLOCK_ALIGN /\ m \in DOMAIN H /\ b < m
      /\ IsHeap(h1) /\ Listed(h1, f) /\ ListedOutside(H, f, b, m)
  BY <1>5 DEF Absorbing
<1>7. /\ b \in Nat /\ m \in Nat /\ BLOCK_ALIGN \in Nat /\ H[b].size \in Nat
      /\ H[After(H, b)].size \in Nat /\ h1.hdr[b].size \in Nat
  <2>1. After(H, b) \in DOMAIN H
    BY <1>2, Following
  <2>2. H[b].size \in 0 .. POOL /\ H[After(H, b)].size \in 0 .. POOL /\ b \in Nat /\ m \in Nat
    BY <1>2, <1>6, <2>1, TileTypes
  <2>3. H[b].size \in Nat /\ H[After(H, b)].size \in Nat
    BY <2>2, Consts
  <2>4. h1.hdr[b].size \in Nat
    BY <1>5, <2>3, Consts
  <2> QED BY <2>2, <2>3, <2>4, Consts
<1>8. NextOf(h1, b) = m
  BY <1>6, <1>7, NextIs DEF After
<1>9. size <= h1.hdr[b].size
  <2>1. CASE H[After(H, b)].free = FALSE /\ h1.hdr[b].size = H[b].size
    <3>1. ~FitsWithNext(h, b, size)
      BY <1>1, <2>1, NextIs DEF FitsWithNext
    <3> QED BY <1>1, <2>1, <3>1 DEF InPlace, SizeAt
  <2>2. CASE h1.hdr[b].size = H[b].size + H[After(H, b)].size + BLOCK_ALIGN
    <3>1. size <= H[b].size \/ size <= H[b].size + H[After(H, b)].size
      BY <1>1, NextIs DEF InPlace, FitsWithNext, SizeAt
    <3> QED BY <1>7, <2>2, <3>1
  <2> QED BY <1>5, <2>1, <2>2
<1>10. CASE ShouldSplit(h1, b, size)
  <2>1. h1.hdr[b].size - size >= 2 * BLOCK_ALIGN
    BY <1>10, Consts DEF ShouldSplit, SizeAt
  <2>2. \A c \in DOMAIN H : c <= b \/ m <= c \/ H[c].free = TRUE
    <3> SUFFICES ASSUME NEW c \in DOMAIN H PROVE c <= b \/ m <= c \/ H[c].free = TRUE
      OBVIOUS
    <3>1. c < b \/ m <= c \/ H[c].free = TRUE \/ c = b
      BY <1>5 DEF Absorbing
    <3> QED BY <1>2, <1>7, <3>1, TileTypes
  <2>3. CanSplit(H, h1.hdr, b, m, size)
    <3>1. H[m].free = FALSE /\ h1.hdr[m] = H[m] /\ \A c \in DOMAIN h1.hdr : c # b => h1.hdr[c] = H[c]
      <4>1. m \in DOMAIN h1.hdr /\ m # b
        BY <1>6, <1>7
      <4> QED BY <1>5, <4>1 DEF Absorbing
    <3>2. h1.hdr[b].prev_free = H[b].prev_free /\ h1.hdr[b].prev_hdr = H[b].prev_hdr
      BY <1>5 DEF Absorbing
    <3> QED BY <1>2, <1>6, <2>1, <2>2, <3>1, <3>2 DEF CanSplit
  <2>4. CanGiveBack(H, h1, f, b, m, size)
    BY <1>2, <1>6, <2>3 DEF CanGiveBack
  <2>5. g = RestFree(h1, b, size, m)
    BY <1>1, <1>8, <1>10, ResizedSteps
  <2>6. GaveBack(H, g, b, size)
    BY <2>4, <2>5, RestFreeKeeps
  <2> QED BY <1>1, <2>6 DEF GaveBack, Stays
<1>11. CASE ~ShouldSplit(h1, b, size) /\ h1 = h
  <2>1. g = h
    BY <1>1, <1>11 DEF Resized
  <2>2. Kept(H, H, {b})
    BY DEF Kept
  <2> QED BY <1>1, <1>2, <1>9, <1>11, <2>1, <2>2 DEF Stays
<1>12. CASE ~ShouldSplit(h1, b, size) /\ h1 # h
  <2>1. g = SetNext(h1, m, b, No)
    BY <1>1, <1>8, <1>12, ResizedSteps
  <2>2. Stays(H, g, b, h1.hdr[b].size)
    BY <1>5, <2>1, GrownUsed
  <2>3. g.hdr[b].size \in Nat
    <3>1. g.hdr[b].size \in 0 .. POOL
      BY <2>2, TileTypes DEF Stays, HeapInv
    <3> QED BY <3>1, Consts
  <2>4. size <= g.hdr[b].size
    BY <1>7, <1>9, <2>2, <2>3 DEF Stays
  <2> QED BY <1>1, <2>2, <2>4 DEF Stays
<1> QED BY <1>10, <1>11, <1>12

\* A request is refused: the heap stays.
Refused(h, r) == r = Result(h, NULL)

\* The block b is moved to a, and freed.
MovedTo(H, r, b, a, bytes) ==
    /\ r.ptr = BufferOf(a) /\ a \in DOMAIN H /\ H[a].free = TRUE
    /\ HeapInv(r.heap) /\ Kept(H, r.heap.hdr, {b})
    /\ a \in DOMAIN r.heap.hdr /\ r.heap.hdr[a].free = FALSE /\ bytes <= r.heap.hdr[a].size

ReallocGives(h, p, b, size, moved, r) ==
    \/ InPlace(h, b, size) /\ r = Result(Resized(h, b, size), p)
    \/ ~InPlace(h, b, size) /\ moved.ptr = NULL /\ r = moved
    \/ ~InPlace(h, b, size) /\ moved.ptr # NULL /\ r = Result(free_ex(moved.heap, p), moved.ptr)

LEMMA ReallocSteps ==
  ASSUME NEW h, NEW p, p # NULL, NEW bytes, bytes # 0
  PROVE  ReallocGives(h, p, HdrOf(p), Requested(bytes), malloc_ex(h, Requested(bytes)), realloc_ex(h, p, bytes))
BY DEF realloc_ex, ReallocGives, InPlace

LEMMA ReallocIs ==
  ASSUME NEW h, HeapInv(h), NEW b, IsGiven(h.hdr, b), NEW p, p = BufferOf(b),
         NEW bytes \in 0 .. Pow2[MAX_FLI], bytes # 0, NEW r, r = realloc_ex(h, p, bytes)
  PROVE  \/ Refused(h, r)
         \/ r.ptr = p /\ Stays(h.hdr, r.heap, b, bytes)
         \/ \E a : MovedTo(h.hdr, r, b, a, bytes)
<1>1. PICK H, size, moved : H = h.hdr /\ size = Requested(bytes) /\ moved = malloc_ex(h, size)
  OBVIOUS
<1>2. Tile(H) /\ b \in DOMAIN H /\ b # last /\ H[b].free = FALSE
  BY <1>1 DEF HeapInv, IsGiven
<1>3. p # NULL /\ b = HdrOf(p)
  <2>1. b \in Nat /\ BHDR_OVERHEAD \in Nat
    BY <1>2, TileTypes, Consts
  <2> QED BY <2>1 DEF BufferOf, HdrOf, NULL
<1>4. /\ size \in BLOCK_ALIGN .. Pow2[MAX_FLI] /\ bytes <= size /\ Multiple(size, BLOCK_ALIGN)
      /\ size \in Nat /\ BLOCK_ALIGN <= size /\ bytes \in Nat /\ size \in 0 .. Pow2[MAX_FLI]
  <2>1. size \in BLOCK_ALIGN .. Pow2[MAX_FLI] /\ bytes <= size /\ Multiple(size, BLOCK_ALIGN)
    BY <1>1, RequestedIs
  <2> QED BY <2>1, Consts
<1> ReallocGives(h, p, b, size, moved, r)
  BY <1>1, <1>3, ReallocSteps
<1>5. CASE InPlace(h, b, size)
  <2>1. PICK g : g = Resized(h, b, size)
    OBVIOUS
  <2>2. r = Result(g, p)
    BY <1>5, <2>1 DEF ReallocGives
  <2>3. Stays(H, g, b, size)
    BY <1>1, <1>4, <1>5, <2>1, ResizedIs
  <2>4. r.ptr = p /\ r.heap = g
    BY <2>2 DEF Result
  <2>5. g.hdr[b].size \in Nat
    <3>1. g.hdr[b].size \in 0 .. POOL
      BY <2>3, TileTypes DEF Stays, HeapInv
    <3> QED BY <3>1, Consts
  <2>6. bytes <= g.hdr[b].size
    BY <1>4, <2>3, <2>5 DEF Stays
  <2>7. Stays(H, g, b, bytes)
    BY <2>3, <2>6 DEF Stays
  <2> QED BY <1>1, <2>4, <2>7
<1>6. CASE ~InPlace(h, b, size)
  <2>1. /\ moved.ptr = NULL => r = moved
        /\ moved.ptr # NULL => r = Result(free_ex(moved.heap, p), moved.ptr)
    BY <1>6 DEF ReallocGives
  <2>2. CASE NoFit(h, moved, size)
    <3>1. moved = Result(h, NULL) /\ moved.ptr = NULL
      BY <2>2 DEF NoFit, Result
    <3> QED BY <2>1, <3>1 DEF Refused
  <2>3. CASE \E a : Fits(h, moved, a, size)
    <3>1. PICK a : Fits(h, moved, a, size)
      BY <2>3
    <3>2. PICK h2, g : h2 = moved.heap /\ g = free_ex(h2, p)
      OBVIOUS
    <3>3. /\ moved = Result(h2, BufferOf(a)) /\ a \in DOMAIN H /\ H[a].free = TRUE
          /\ HeapInv(h2) /\ Kept(H, h2.hdr, {})
          /\ a \in DOMAIN h2.hdr /\ h2.hdr[a].free = FALSE /\ size <= h2.hdr[a].size
      BY <1>1, <3>1, <3>2 DEF Fits
    <3>4. moved.ptr # NULL /\ moved.ptr = BufferOf(a)
      <4>1. a \in Nat /\ BHDR_OVERHEAD \in Nat
        BY <1>2, <3>3, TileTypes, Consts
      <4> QED BY <3>3, <4>1 DEF Result, BufferOf, NULL
    <3>5. r.heap = g /\ r.ptr = BufferOf(a)
      BY <2>1, <3>2, <3>4 DEF Result
    <3>6. IsGiven(h2.hdr, b)
      BY <1>2, <3>3 DEF IsGiven, Kept
    <3>7. HeapInv(g) /\ Kept(h2.hdr, g.hdr, {b})
      BY <3>2, <3>3, <3>6, FreeIs
    <3>8. a # b
      BY <1>2, <3>3
    <3>9. a \in DOMAIN g.hdr /\ g.hdr[a].free = FALSE /\ g.hdr[a].size = h2.hdr[a].size
      BY <3>3, <3>7, <3>8 DEF Kept
    <3>10. bytes <= g.hdr[a].size
      <4>1. h2.hdr[a].size \in 0 .. POOL
        BY <3>3, TileTypes DEF HeapInv
      <4> QED BY <1>4, <3>3, <3>9, <4>1, Consts
    <3>11. Kept(H, g.hdr, {b})
      BY <3>3, <3>7 DEF Kept
    <3>12. MovedTo(H, r, b, a, bytes)
      BY <3>3, <3>5, <3>7, <3>9, <3>10, <3>11 DEF MovedTo
    <3> QED BY <1>1, <3>12
  <2>4. NoFit(h, moved, size) \/ \E a : Fits(h, moved, a, size)
    BY <1>1, <1>4, MallocIs, Zenon
  <2> QED BY <2>2, <2>3, <2>4
<1> QED BY <1>5, <1>6
-----------------------------------------------------------------------------
(* What callers hold.                                                      *)

\* Pointer p is that of a used block in which the caller has what it asked for.
Holds(h, p, e) ==
    /\ p \in Nat /\ IsGiven(h.hdr, HdrOf(p))
    /\ e.asked \in Nat /\ e.ptr \in Nat /\ e.align \in Nat \ {0} /\ Multiple(e.ptr, e.align)
    /\ e.ptr = p \/ p + PTR <= e.ptr
    /\ e.ptr + e.asked <= p + h.hdr[HdrOf(p)].size

HeldInv(h, G) == HeapInv(h) /\ \A p \in DOMAIN G : Holds(h, p, G[p])

LEMMA HoldsKept ==
  ASSUME NEW h, NEW g, NEW p, NEW e, Holds(h, p, e), NEW S, Kept(h.hdr, g.hdr, S), HdrOf(p) \notin S
  PROVE  Holds(g, p, e) /\ g.hdr[HdrOf(p)].size = h.hdr[HdrOf(p)].size
<1>1. PICK b : b = HdrOf(p)
  OBVIOUS
<1>2. b \in DOMAIN h.hdr /\ b # last /\ h.hdr[b].free = FALSE
  BY <1>1 DEF Holds, IsGiven
<1>3. b \in DOMAIN g.hdr /\ g.hdr[b].free = FALSE /\ g.hdr[b].size = h.hdr[b].size
  BY <1>1, <1>2 DEF Kept
<1>4. IsGiven(g.hdr, b)
  BY <1>2, <1>3 DEF IsGiven
<1> QED BY <1>1, <1>3, <1>4 DEF Holds

LEMMA Buffers ==
  ASSUME NEW b \in Nat
  PROVE  BufferOf(b) \in Nat /\ HdrOf(BufferOf(b)) = b /\ BufferOf(b) # NULL /\ BufferOf(b) = b + BLOCK_ALIGN
BY Consts DEF BufferOf, HdrOf, NULL

LEMMA PlainHolds ==
  ASSUME NEW g, HeapInv(g), NEW a, IsGiven(g.hdr, a), NEW bytes \in Nat, bytes <= g.hdr[a].size,
         NEW p, p = BufferOf(a)
  PROVE  Holds(g, p, Ask(bytes, p, 1))
<1>1. a \in Nat /\ g.hdr[a].size \in 0 .. POOL /\ g.hdr[a].size \in Nat
  <2>1. a \in Nat /\ g.hdr[a].size \in 0 .. POOL
    BY TileTypes DEF HeapInv, IsGiven
  <2> QED BY <2>1, Consts
<1>2. p \in Nat /\ HdrOf(p) = a
  BY <1>1, Buffers
<1>3. PICK e : e = Ask(bytes, p, 1)
  OBVIOUS
<1>4. e.asked = bytes /\ e.ptr = p /\ e.align = 1
  BY <1>3 DEF Ask
<1>5. Multiple(p, 1)
  <2>1. p = p * 1
    BY <1>2
  <2> QED BY <1>2, <2>1 DEF Multiple
<1>6. p + bytes <= p + g.hdr[a].size
  BY <1>1, <1>2
<1> QED BY <1>2, <1>3, <1>4, <1>5, <1>6 DEF Holds

LEMMA AlignedHolds ==
  ASSUME NEW g, HeapInv(g), NEW a, IsGiven(g.hdr, a), NEW bytes \in Nat, NEW align \in Nat \ {0},
         bytes + Slack(align) <= g.hdr[a].size, NEW p, p = BufferOf(a)
  PROVE  Holds(g, p, Ask(bytes, AlignUp(p, align), align))
<1>1. a \in Nat /\ g.hdr[a].size \in 0 .. POOL /\ g.hdr[a].size \in Nat
  <2>1. a \in Nat /\ g.hdr[a].size \in 0 .. POOL
    BY TileTypes DEF HeapInv, IsGiven
  <2> QED BY <2>1, Consts
<1>2. p \in Nat /\ HdrOf(p) = a /\ PTR \in Nat
  BY <1>1, Buffers, Consts
<1>3. PICK q \in Nat : q = p + PTR + align - 1
  BY <1>2
<1>4. PICK x : x = q - (q % align)
  OBVIOUS
<1>5. x \in Nat /\ Multiple(x, align) /\ x <= q /\ q < x + align
  BY <1>4, Rounding
<1>6. AlignUp(p, align) = x
  BY <1>3, <1>4 DEF AlignUp
<1>7. PICK e : e = Ask(bytes, x, align)
  OBVIOUS
<1>8. e.asked = bytes /\ e.ptr = x /\ e.align = align
  BY <1>7 DEF Ask
<1>9. p + PTR <= x
  BY <1>2, <1>3, <1>5
<1>10. PICK s \in Nat : s = g.hdr[a].size
  BY <1>1
<1>11. bytes + (align - 1 + PTR) <= s
  BY <1>10 DEF Slack
<1>12. x + bytes <= p + s
  BY <1>2, <1>3, <1>5, <1>11
<1> QED BY <1>2, <1>5, <1>6, <1>7, <1>8, <1>9, <1>10, <1>12 DEF Holds

\* What a call makes of the heap and of what callers hold.
Same(h, G, g, G2) == g = h /\ DOMAIN G2 = DOMAIN G /\ \A q \in DOMAIN G : G2[q] = G[q]
Comes(h, G, g, G2, p) ==
    /\ HeapInv(g) /\ Kept(h.hdr, g.hdr, {})
    /\ p \notin DOMAIN G /\ DOMAIN G2 = DOMAIN G \cup {p} /\ \A q \in DOMAIN G : G2[q] = G[q]
    /\ Holds(g, p, G2[p])
Goes(h, G, g, G2, p) ==
    /\ HeapInv(g) /\ Kept(h.hdr, g.hdr, {HdrOf(p)})
    /\ p \in DOMAIN G /\ DOMAIN G2 = DOMAIN G \ {p} /\ \A q \in DOMAIN G2 : G2[q] = G[q]
Becomes(h, G, g, G2, p, q) ==
    /\ HeapInv(g) /\ Kept(h.hdr, g.hdr, {HdrOf(p)})
    /\ p \in DOMAIN G /\ (q = p \/ q \notin DOMAIN G)
    /\ DOMAIN G2 = (DOMAIN G \ {p}) \cup {q} /\ \A x \in DOMAIN G \ {p} : G2[x] = G[x]
    /\ Holds(g, q, G2[q])

\* Two pointers have two blocks.
LEMMA HeldApart ==
  ASSUME NEW h, NEW G, HeldInv(h, G), NEW p \in DOMAIN G, NEW q \in DOMAIN G, p # q
  PROVE  HdrOf(p) # HdrOf(q)
<1>1. p \in Nat /\ q \in Nat /\ BHDR_OVERHEAD \in Nat
  BY Consts DEF HeldInv, Holds
<1> QED BY <1>1 DEF HdrOf

LEMMA ComesHeld ==
  ASSUME NEW h, NEW G, HeldInv(h, G), NEW g, NEW G2, NEW p, Comes(h, G, g, G2, p)
  PROVE  /\ HeldInv(g, G2)
         /\ \A q \in DOMAIN G : g.hdr[HdrOf(q)].size = h.hdr[HdrOf(q)].size
<1>1. ASSUME NEW q \in DOMAIN G
      PROVE  Holds(g, q, G2[q]) /\ g.hdr[HdrOf(q)].size = h.hdr[HdrOf(q)].size
  <2>1. Holds(h, q, G[q]) /\ G2[q] = G[q] /\ Kept(h.hdr, g.hdr, {}) /\ HdrOf(q) \notin {}
    BY DEF HeldInv, Comes
  <2> QED BY <2>1, HoldsKept
<1>2. \A q \in DOMAIN G2 : Holds(g, q, G2[q])
  BY <1>1 DEF Comes
<1> QED BY <1>1, <1>2 DEF HeldInv, Comes

LEMMA GoesHeld ==
  ASSUME NEW h, NEW G, HeldInv(h, G), NEW g, NEW G2, NEW p, Goes(h, G, g, G2, p)
  PROVE  /\ HeldInv(g, G2)
         /\ \A q \in DOMAIN G \ {p} : g.hdr[HdrOf(q)].size = h.hdr[HdrOf(q)].size
<1>1. PICK S : S = {HdrOf(p)}
  OBVIOUS
<1>2. ASSUME NEW q \in DOMAIN G \ {p}
      PROVE  Holds(g, q, G2[q]) /\ g.hdr[HdrOf(q)].size = h.hdr[HdrOf(q)].size
  <2>1. Holds(h, q, G[q]) /\ G2[q] = G[q] /\ Kept(h.hdr, g.hdr, S)
    BY <1>1 DEF HeldInv, Goes
  <2>2. HdrOf(q) \notin S
    BY <1>1, HeldApart DEF Goes
  <2> QED BY <2>1, <2>2, HoldsKept
<1>3. \A q \in DOMAIN G2 : Holds(g, q, G2[q])
  BY <1>2 DEF Goes
<1> QED BY <1>2, <1>3 DEF HeldInv, Goes

LEMMA BecomesHeld ==
  ASSUME NEW h, NEW G, HeldInv(h, G), NEW g, NEW G2, NEW p, NEW x, Becomes(h, G, g, G2, p, x)
  PROVE  /\ HeldInv(g, G2)
         /\ \A q \in DOMAIN G \ {p} : g.hdr[HdrOf(q)].size = h.hdr[HdrOf(q)].size
<1>1. PICK S : S = {HdrOf(p)}
  OBVIOUS
<1>2. ASSUME NEW q \in DOMAIN G \ {p}
      PROVE  Holds(g, q, G2[q]) /\ g.hdr[HdrOf(q)].size = h.hdr[HdrOf(q)].size
  <2>1. Holds(h, q, G[q]) /\ G2[q] = G[q] /\ Kept(h.hdr, g.hdr, S)
    BY <1>1 DEF HeldInv, Becomes
  <2>2. HdrOf(q) \notin S
    BY <1>1, HeldApart DEF Becomes
  <2> QED BY <2>1, <2>2, HoldsKept
<1>3. \A q \in DOMAIN G2 : Holds(g, q, G2[q])
  BY <1>2 DEF Becomes
<1> QED BY <1>2, <1>3 DEF HeldInv, Becomes

\* Pointer p gets an entry that is right for any block of bytes.
Suits(g, p, e, bytes) ==
    \A a : IsGiven(g.hdr, a) /\ p = BufferOf(a) /\ bytes <= g.hdr[a].size => Holds(g, p, e)

\* A block that was free is nobody's.
LEMMA FreeIsNobodys ==
  ASSUME NEW h, NEW G, HeldInv(h, G), NEW a \in DOMAIN h.hdr, h.hdr[a].free = TRUE
  PROVE  a \in Nat /\ a # last /\ BufferOf(a) \notin DOMAIN G /\ BufferOf(a) # NULL
<1>1. a \in Nat /\ a # last
  BY TileTypes DEF HeldInv, HeapInv, Tile
<1>2. HdrOf(BufferOf(a)) = a /\ BufferOf(a) # NULL
  BY <1>1, Buffers
<1>3. ASSUME BufferOf(a) \in DOMAIN G PROVE FALSE
  <2>1. IsGiven(h.hdr, a)
    BY <1>2, <1>3 DEF HeldInv, Holds
  <2> QED BY <2>1 DEF IsGiven
<1> QED BY <1>1, <1>2, <1>3

\* G2 is G after a call to malloc_ex that has returned r.
Allocated(G, G2, r, e) == \/ r.ptr = NULL /\ G2 = G
                          \/ r.ptr # NULL /\ G2 = Added(G, r.ptr, e)

LEMMA AllocIs ==
  ASSUME NEW h, NEW G, HeldInv(h, G), NEW bytes \in 0 .. Pow2[MAX_FLI], NEW r, r = malloc_ex(h, bytes),
         NEW e, Suits(r.heap, r.ptr, e, bytes), NEW G2, Allocated(G, G2, r, e)
  PROVE  Same(h, G, r.heap, G2) \/ \E p : Comes(h, G, r.heap, G2, p)
<1>1. HeapInv(h)
  BY DEF HeldInv
<1>2. CASE NoFit(h, r, bytes)
  <2>1. r.heap = h /\ r.ptr = NULL
    BY <1>2 DEF NoFit, Result
  <2> QED BY <2>1 DEF Same, Allocated
<1>3. CASE \E b : Fits(h, r, b, bytes)
  <2>1. PICK b : Fits(h, r, b, bytes)
    BY <1>3
  <2>2. PICK g, p : g = r.heap /\ p = r.ptr
    OBVIOUS
  <2>3. /\ p = BufferOf(b) /\ b \in DOMAIN h.hdr /\ h.hdr[b].free = TRUE
        /\ HeapInv(g) /\ Kept(h.hdr, g.hdr, {})
        /\ b \in DOMAIN g.hdr /\ g.hdr[b].free = FALSE /\ bytes <= g.hdr[b].size
    <3>1. r.ptr = BufferOf(b)
      BY <2>1 DEF Fits, Result
    <3> QED BY <2>1, <2>2, <3>1 DEF Fits
  <2>4. b # last /\ p \notin DOMAIN G /\ p # NULL
    BY <2>3, FreeIsNobodys
  <2>5. IsGiven(g.hdr, b)
    BY <2>3, <2>4 DEF IsGiven
  <2>6. Holds(g, p, e)
    BY <2>2, <2>3, <2>5 DEF Suits
  <2>7. G2 = Added(G, p, e)
    BY <2>2, <2>4 DEF Allocated
  <2>8. HasAlso(G, G2, p, e)
    BY <2>7, AddedIs
  <2>9. Comes(h, G, g, G2, p)
    BY <2>3, <2>4, <2>6, <2>8 DEF Comes, HasAlso
  <2> QED BY <2>2, <2>9
<1> QED BY <1>1, <1>2, <1>3, MallocIs, Zenon

CallIs(h, G, g, G2) == \/ Same(h, G, g, G2)
                       \/ \E p : Comes(h, G, g, G2, p) \/ Goes(h, G, g, G2, p)
                       \/ \E p, q : Becomes(h, G, g, G2, p, q)

LEMMA SizesSmall ==
  ASSUME NEW bytes \in Sizes
  PROVE  /\ bytes \in 0 .. Pow2[MAX_FLI] /\ bytes \in Nat
         /\ \A align \in Aligns : /\ align \in Nat \ {0} /\ bytes + Slack(align) \in 0 .. Pow2[MAX_FLI]
                                  /\ Wrap(bytes + Slack(align)) = bytes + Slack(align)
<1>1. bytes \in 0 .. Pow2[MAX_FLI] - 1 /\ Pow2[MAX_FLI] \in Nat
  BY PoolAssumption, Consts
<1>2. bytes \in 0 .. Pow2[MAX_FLI] /\ bytes \in Nat
  BY <1>1
<1>3. ASSUME NEW align \in Aligns
      PROVE  /\ align \in Nat \ {0} /\ bytes + Slack(align) \in 0 .. Pow2[MAX_FLI]
             /\ Wrap(bytes + Slack(align)) = bytes + Slack(align)
  <2>1. align \in Nat \ {0} /\ bytes + align - 1 + PTR < Pow2[MAX_FLI]
    BY PoolAssumption
  <2>2. PICK n : n = bytes + Slack(align)
    OBVIOUS
  <2>3. n \in Nat /\ n < Pow2[MAX_FLI] /\ n < WORD /\ WORD \in Nat \ {0}
    <3>1. n \in Nat /\ n < Pow2[MAX_FLI]
      BY <1>2, <2>1, <2>2, Consts DEF Slack
    <3> QED BY <3>1, Consts
  <2>4. n % WORD = n
    BY <2>3
  <2> QED BY <1>1, <2>1, <2>2, <2>3, <2>4 DEF Wrap
<1> QED BY <1>2, <1>3

LEMMA MallocHeap ==
  ASSUME NEW h, HeapInv(h), NEW bytes \in 0 .. Pow2[MAX_FLI], NEW r, r = malloc_ex(h, bytes)
  PROVE  HeapInv(r.heap)
<1>1. NoFit(h, r, bytes) \/ \E b : Fits(h, r, b, bytes)
  BY MallocIs, Zenon
<1>2. CASE NoFit(h, r, bytes)
  BY <1>2 DEF NoFit, Result
<1>3. CASE \E b : Fits(h, r, b, bytes)
  BY <1>3 DEF Fits
<1> QED BY <1>1, <1>2, <1>3

LEMMA KmallocIs ==
  ASSUME HeldInv(heap, given), NEW bytes \in Sizes, kmalloc(bytes)
  PROVE  CallIs(heap, given, heap', given')
<1>1. PICK r, e : r = malloc_ex(heap, bytes) /\ e = Ask(bytes, r.ptr, 1)
  OBVIOUS
<1>2. bytes \in 0 .. Pow2[MAX_FLI] /\ bytes \in Nat
  BY SizesSmall
<1>3. heap' = r.heap /\ Allocated(given, given', r, e)
  BY <1>1 DEF kmalloc, Allocated, Give, Added
<1>4. HeapInv(r.heap)
  BY <1>1, <1>2, MallocHeap DEF HeldInv
<1>5. Suits(r.heap, r.ptr, e, bytes)
  <2> SUFFICES ASSUME NEW a, IsGiven(r.heap.hdr, a), r.ptr = BufferOf(a), bytes <= r.heap.hdr[a].size
               PROVE  Holds(r.heap, r.ptr, e)
    BY DEF Suits
  <2> QED BY <1>1, <1>2, <1>4, PlainHolds
<1>6. Same(heap, given, heap', given') \/ \E p : Comes(heap, given, heap', given', p)
  BY <1>1, <1>2, <1>3, <1>5, AllocIs
<1> QED BY <1>6 DEF CallIs

LEMMA AlignedKmallocIs ==
  ASSUME HeldInv(heap, given), NEW bytes \in Sizes, NEW align \in Aligns, aligned_kmalloc(bytes, align)
  PROVE  CallIs(heap, given, heap', given')
<1>1. PICK n, r, e : /\ n = bytes + Slack(align) /\ r = malloc_ex(heap, n)
                     /\ e = Ask(bytes, AlignUp(r.ptr, align), align)
  OBVIOUS
<1>2. n \in 0 .. Pow2[MAX_FLI] /\ Wrap(n) = n /\ bytes \in Nat /\ align \in Nat \ {0}
  BY <1>1, SizesSmall
<1>3. heap' = r.heap /\ Allocated(given, given', r, e)
  BY <1>1, <1>2 DEF aligned_kmalloc, Allocated, Give, Added
<1>4. HeapInv(r.heap)
  BY <1>1, <1>2, MallocHeap DEF HeldInv
<1>5. Suits(r.heap, r.ptr, e, n)
  <2> SUFFICES ASSUME NEW a, IsGiven(r.heap.hdr, a), r.ptr = BufferOf(a), n <= r.heap.hdr[a].size
               PROVE  Holds(r.heap, r.ptr, e)
    BY DEF Suits
  <2> QED BY <1>1, <1>2, <1>4, AlignedHolds
<1>6. Same(heap, given, heap', given') \/ \E p : Comes(heap, given, heap', given', p)
  BY <1>1, <1>2, <1>3, <1>5, AllocIs
<1> QED BY <1>6 DEF CallIs

LEMMA KfreeIs ==
  ASSUME HeldInv(heap, given), NEW p \in DOMAIN given \cup {NULL}, kfree(p)
  PROVE  CallIs(heap, given, heap', given')
<1>1. heap' = free_ex(heap, p) /\ given' = Dropped(given, p)
  BY DEF kfree, Without, Dropped
<1>2. HasLess(given, given', p)
  BY <1>1, DroppedIs
<1>3. CASE p = NULL
  <2>1. NULL \notin Nat
    BY DEF NULL
  <2>2. p \notin DOMAIN given
    BY <1>3, <2>1 DEF HeldInv, Holds
  <2>3. heap' = heap
    BY <1>1, <1>3 DEF free_ex
  <2> QED BY <1>2, <2>2, <2>3 DEF CallIs, Same, HasLess
<1>4. CASE p \in DOMAIN given
  <2>1. HeapInv(heap) /\ IsGiven(heap.hdr, HdrOf(p)) /\ p \in Nat
    BY <1>4 DEF HeldInv, Holds
  <2>2. p = BufferOf(HdrOf(p))
    BY <2>1, Consts DEF BufferOf, HdrOf
  <2>3. HeapInv(heap') /\ Kept(heap.hdr, heap'.hdr, {HdrOf(p)})
    BY <1>1, <2>1, <2>2, FreeIs
  <2>4. Goes(heap, given, heap', given', p)
    BY <1>2, <1>4, <2>3 DEF Goes, HasLess
  <2> QED BY <2>4 DEF CallIs
<1> QED BY <1>3, <1>4

LEMMA KreallocIs ==
  ASSUME HeldInv(heap, given), NEW p \in DOMAIN given \cup {NULL}, NEW bytes \in Sizes, krealloc(p, bytes)
  PROVE  CallIs(heap, given, heap', given')
<1>1. PICK r, e : r = realloc_ex(heap, p, bytes) /\ e = Ask(bytes, r.ptr, 1)
  OBVIOUS
<1>2. /\ heap' = r.heap
      /\ bytes = 0 => given' = Dropped(given, p)
      /\ bytes # 0 /\ r.ptr = NULL => given' = given
      /\ bytes # 0 /\ r.ptr # NULL => given' = Added(Dropped(given, p), r.ptr, e)
  <2>1. heap' = r.heap
    BY <1>1 DEF krealloc
  <2>2. CASE bytes = 0
    BY <1>1, <2>1, <2>2 DEF krealloc, Without, Dropped
  <2>3. CASE bytes # 0 /\ r.ptr = NULL
    BY <1>1, <2>1, <2>3 DEF krealloc
  <2>4. CASE bytes # 0 /\ r.ptr # NULL
    <3>1. PICK x : x = r.ptr
      OBVIOUS
    <3>2. given' = [q \in (DOMAIN given \ {p}) \cup {x} |-> IF q = x THEN e ELSE given[q]]
      BY <1>1, <2>4, <3>1 DEF krealloc
    <3>3. DOMAIN Dropped(given, p) = DOMAIN given \ {p}
      BY DEF Dropped
    <3>4. \A q \in DOMAIN given \ {p} : Dropped(given, p)[q] = given[q]
      BY DEF Dropped
    <3>5. [q \in (DOMAIN given \ {p}) \cup {x} |-> IF q = x THEN e ELSE given[q]]
          = [q \in (DOMAIN given \ {p}) \cup {x} |-> IF q = x THEN e ELSE Dropped(given, p)[q]]
      BY <3>4
    <3>6. given' = Added(Dropped(given, p), x, e)
      BY <3>2, <3>3, <3>5 DEF Added
    <3> QED BY <2>1, <2>4, <3>1, <3>6
  <2> QED BY <2>2, <2>3, <2>4
<1>3. bytes \in 0 .. Pow2[MAX_FLI] /\ bytes \in Nat
  BY SizesSmall
<1>4. PICK G : G = Dropped(given, p)
  OBVIOUS
<1>5. HasLess(given, G, p)
  BY <1>4, DroppedIs
<1>6. CASE p = NULL
  <2>1. NULL \notin Nat
    BY DEF NULL
  <2>2. p \notin DOMAIN given
    BY <1>6, <2>1 DEF HeldInv, Holds
  <2>3. HeldInv(heap, G) /\ Same(heap, given, heap, G)
    BY <1>5, <2>2 DEF HeldInv, HasLess, Same
  <2>4. CASE bytes = 0
    <3>1. heap' = heap /\ given' = G
      BY <1>1, <1>2, <1>4, <1>6, <2>4 DEF realloc_ex, Result
    <3> QED BY <2>3, <3>1 DEF CallIs
  <2>5. CASE bytes # 0
    <3>1. r = malloc_ex(heap, bytes)
      BY <1>1, <1>6, <2>5 DEF realloc_ex
    <3>2. PICK G2 : Allocated(G, G2, r, e)
      BY DEF Allocated
    <3>3. HeapInv(r.heap)
      BY <1>3, <3>1, MallocHeap DEF HeldInv
    <3>4. Suits(r.heap, r.ptr, e, bytes)
      <4> SUFFICES ASSUME NEW a, IsGiven(r.heap.hdr, a), r.ptr = BufferOf(a), bytes <= r.heap.hdr[a].size
                   PROVE  Holds(r.heap, r.ptr, e)
        BY DEF Suits
      <4> QED BY <1>1, <1>3, <3>3, PlainHolds
    <3>5. Same(heap, G, r.heap, G2) \/ \E q : Comes(heap, G, r.heap, G2, q)
      BY <1>3, <2>3, <3>1, <3>2, <3>4, AllocIs
    <3>6. DOMAIN G = DOMAIN given /\ \A q \in DOMAIN given : G[q] = given[q]
      BY <2>3 DEF Same
    <3>7. CASE Same(heap, G, r.heap, G2)
      <4>1. CASE r.ptr = NULL
        <5>1. given' = given
          BY <1>2, <2>5, <4>1
        <5> QED BY <1>2, <3>7, <5>1 DEF CallIs, Same
      <4>2. CASE r.ptr # NULL
        <5>1. given' = G2
          BY <1>2, <1>4, <2>5, <3>2, <4>2 DEF Allocated
        <5> QED BY <1>2, <3>6, <3>7, <5>1 DEF CallIs, Same
      <4> QED BY <4>1, <4>2
    <3>8. CASE \E q : Comes(heap, G, r.heap, G2, q)
      <4>1. PICK q : Comes(heap, G, r.heap, G2, q)
        BY <3>8
      <4>2. r.ptr # NULL
        <5>1. r.ptr = NULL => G2 = G
          BY <3>2 DEF Allocated
        <5> QED BY <4>1, <5>1 DEF Comes
      <4>3. given' = G2
        BY <1>2, <1>4, <2>5, <3>2, <4>2 DEF Allocated
      <4>4. Comes(heap, given, heap', given', q)
        BY <1>2, <3>6, <4>1, <4>3 DEF Comes
      <4> QED BY <4>4 DEF CallIs
    <3> QED BY <3>5, <3>7, <3>8
  <2> QED BY <2>4, <2>5
<1>7. CASE p \in DOMAIN given
  <2>1. PICK b : b = HdrOf(p)
    OBVIOUS
  <2>2. HeapInv(heap) /\ IsGiven(heap.hdr, b) /\ p \in Nat
    BY <1>7, <2>1 DEF HeldInv, Holds
  <2>3. p = BufferOf(b) /\ p # NULL
    BY <2>1, <2>2, Consts DEF BufferOf, HdrOf, NULL
  <2>4. CASE bytes = 0
    <3>1. heap' = free_ex(heap, p) /\ given' = G
      BY <1>1, <1>2, <1>4, <2>3, <2>4 DEF realloc_ex, Result
    <3>2. HeapInv(heap') /\ Kept(heap.hdr, heap'.hdr, {b})
      BY <2>2, <2>3, <3>1, FreeIs
    <3>3. Goes(heap, given, heap', given', p)
      BY <1>5, <1>7, <2>1, <3>1, <3>2 DEF Goes, HasLess
    <3> QED BY <3>3 DEF CallIs
  <2>5. CASE bytes # 0
    <3>1. \/ Refused(heap, r)
          \/ r.ptr = p /\ Stays(heap.hdr, r.heap, b, bytes)
          \/ \E a : MovedTo(heap.hdr, r, b, a, bytes)
      BY <1>1, <1>3, <2>2, <2>3, <2>5, ReallocIs
    <3>2. CASE Refused(heap, r)
      <4>1. heap' = heap /\ given' = given
        BY <1>2, <2>5, <3>2 DEF Refused, Result
      <4> QED BY <4>1 DEF CallIs, Same
    <3>3. CASE r.ptr = p /\ Stays(heap.hdr, r.heap, b, bytes)
      <4>1. given' = Added(G, p, e) /\ e = Ask(bytes, p, 1) /\ heap' = r.heap
        BY <1>1, <1>2, <1>4, <2>3, <2>5, <3>3
      <4>2. HasAlso(G, given', p, e)
        BY <4>1, AddedIs
      <4>3. HeapInv(heap') /\ Kept(heap.hdr, heap'.hdr, {b}) /\ IsGiven(heap'.hdr, b) /\ bytes <= heap'.hdr[b].size
        BY <2>2, <3>3, <4>1 DEF Stays, IsGiven
      <4>4. Holds(heap', p, e)
        BY <1>3, <2>3, <4>1, <4>3, PlainHolds
      <4>5. Becomes(heap, given, heap', given', p, p)
        BY <1>5, <1>7, <2>1, <4>2, <4>3, <4>4 DEF Becomes, HasLess, HasAlso
      <4> QED BY <4>5 DEF CallIs
    <3>4. CASE \E a : MovedTo(heap.hdr, r, b, a, bytes)
      <4>1. PICK a : MovedTo(heap.hdr, r, b, a, bytes)
        BY <3>4
      <4>2. PICK q : q = BufferOf(a)
        OBVIOUS
      <4>3. a # last /\ q \notin DOMAIN given /\ q # NULL /\ r.ptr = q
        BY <4>1, <4>2, FreeIsNobodys DEF MovedTo
      <4>4. given' = Added(G, q, e) /\ e = Ask(bytes, q, 1) /\ heap' = r.heap
        BY <1>1, <1>2, <1>4, <2>5, <4>3
      <4>5. HasAlso(G, given', q, e)
        BY <4>4, AddedIs
      <4>6. HeapInv(heap') /\ Kept(heap.hdr, heap'.hdr, {b}) /\ IsGiven(heap'.hdr, a) /\ bytes <= heap'.hdr[a].size
        BY <4>1, <4>3, <4>4 DEF MovedTo, IsGiven
      <4>7. Holds(heap', q, e)
        BY <1>3, <4>2, <4>4, <4>6, PlainHolds
      <4>8. Becomes(heap, given, heap', given', p, q)
        BY <1>5, <1>7, <2>1, <4>3, <4>5, <4>6, <4>7 DEF Becomes, HasLess, HasAlso
      <4> QED BY <4>8 DEF CallIs
    <3> QED BY <3>1, <3>2, <3>3, <3>4
  <2> QED BY <2>4, <2>5
<1> QED BY <1>6, <1>7

\* Every step is one of these calls.
LEMMA NextIsCall ==
  ASSUME HeldInv(heap, given), Next
  PROVE  CallIs(heap, given, heap', given')
<1>1. CASE \E bytes \in Sizes : kmalloc(bytes)
  BY <1>1, KmallocIs
<1>2. CASE \E bytes \in Sizes, align \in Aligns : aligned_kmalloc(bytes, align)
  BY <1>2, AlignedKmallocIs
<1>3. CASE \E p \in Plain \cup {NULL} : kfree(p)
  BY <1>3, KfreeIs DEF Plain
<1>4. CASE \E p \in DOMAIN given \ Plain : aligned_kfree(p)
  BY <1>4, KfreeIs DEF aligned_kfree
<1>5. CASE \E p \in Plain \cup {NULL}, bytes \in Sizes : krealloc(p, bytes)
  BY <1>5, KreallocIs DEF Plain
<1> QED BY <1>1, <1>2, <1>3, <1>4, <1>5 DEF Next
-----------------------------------------------------------------------------
(* The theorems.                                                           *)

LEMMA HeldAlways == Spec => []HeldInv(heap, given)
<1>1. Init => HeldInv(heap, given)
  <2> SUFFICES ASSUME Init PROVE HeldInv(heap, given)
    OBVIOUS
  <2>1. HeapInv(heap)
    BY InitIs DEF Init
  <2>2. DOMAIN given = {}
    BY DEF Init
  <2> QED BY <2>1, <2>2 DEF HeldInv
<1>2. HeldInv(heap, given) /\ [Next]_vars => HeldInv(heap, given)'
  <2> SUFFICES ASSUME HeldInv(heap, given), [Next]_vars PROVE HeldInv(heap', given')
    OBVIOUS
  <2>1. CASE UNCHANGED vars
    BY <2>1 DEF vars
  <2>2. CASE Next
    <3>1. CallIs(heap, given, heap', given')
      BY <2>2, NextIsCall
    <3>2. CASE Same(heap, given, heap', given')
      BY <3>2 DEF Same, HeldInv
    <3>3. CASE \E p : Comes(heap, given, heap', given', p)
      BY <3>3, ComesHeld
    <3>4. CASE \E p : Goes(heap, given, heap', given', p)
      BY <3>4, GoesHeld
    <3>5. CASE \E p, q : Becomes(heap, given, heap', given', p, q)
      BY <3>5, BecomesHeld
    <3> QED BY <3>1, <3>2, <3>3, <3>4, <3>5 DEF CallIs
  <2> QED BY <2>1, <2>2
<1> QED BY <1>1, <1>2, PTL DEF Spec

\* A list of blocks is a sequence of addresses of headers.
LEMMA ListOfBlocks ==
  ASSUME NEW L \in Seq(Int), NEW S, ToSet(L) \subseteq S
  PROVE  L \in Seq(S)
<1>1. \A i \in 1 .. Len(L) : L[i] \in S
  BY DEF ToSet
<1> QED BY <1>1

LEMMA HeapIsTyped ==
  ASSUME HeapInv(heap)
  PROVE  TypeOK
<1>1. PICK H : H = heap.hdr
  OBVIOUS
<1>2. Tile(H) /\ Listed(heap, FreeSizes(H))
  BY <1>1 DEF HeapInv
<1>3. \A b \in DOMAIN H : b % BLOCK_ALIGN = 0 /\ H[b].size % BLOCK_ALIGN = 0
  <2> SUFFICES ASSUME NEW b \in DOMAIN H PROVE b % BLOCK_ALIGN = 0 /\ H[b].size % BLOCK_ALIGN = 0
    OBVIOUS
  <2>1. b \in Nat /\ H[b].size \in Nat /\ Multiple(b, BLOCK_ALIGN) /\ Multiple(H[b].size, BLOCK_ALIGN)
    BY <1>2, TileTypes, Consts
  <2> QED BY <2>1, MultipleIff, Consts
<1>4. heap.matrix \in [At -> Seq(Blocks)]
  <2>1. ASSUME NEW at \in At PROVE heap.matrix[at] \in Seq(Blocks)
    <3>1. ToSet(heap.matrix[at]) \subseteq Blocks
      BY <1>1, <1>2 DEF Listed, FreeSizes, Blocks
    <3> QED BY <1>2, <3>1, ListOfBlocks DEF Listed
  <2> QED BY <1>2, <2>1 DEF Listed
<1>5. heap.fl_bitmap \subseteq 0 .. REAL_FLI - 1 /\ heap.sl_bitmap \in [0 .. REAL_FLI - 1 -> SUBSET (0 .. MAX_SLI - 1)]
  BY <1>2 DEF Listed, BitsMatch
<1>6. heap.hdr \in [Blocks -> [size : 0 .. POOL, free : BOOLEAN, prev_free : BOOLEAN, prev_hdr : Nat \cup {NULL}]]
  BY <1>1, <1>2 DEF Tile, Blocks, Hdr
<1> QED BY <1>1, <1>3, <1>4, <1>5, <1>6 DEF TypeOK, Blocks, At

\* The blocks tile the pool: the headers that malloc_ex, free_ex and realloc_ex
\* write, split and merge always form one chain from the first to the last, with
\* true marks of what is free before them and no two free neighbours.
THEOREM BlocksTileTheorem == Spec => []BlocksTile
<1>1. HeldInv(heap, given) => BlocksTile
  <2> SUFFICES ASSUME HeapInv(heap) PROVE BlocksTile
    BY DEF HeldInv
  <2>1. PICK H : H = heap.hdr
    OBVIOUS
  <2>2. Tile(H)
    BY <2>1 DEF HeapInv
  <2>3. {first, last} \subseteq Blocks /\ last + BHDR_OVERHEAD <= POOL
    BY <2>1, <2>2, PoolLayout, Consts DEF Tile, Blocks
  <2>4. ASSUME NEW b \in Blocks \ {last}, NEW n, n = NextOf(heap, b)
        PROVE  /\ n \in Blocks /\ \A c \in Blocks : c <= b \/ n <= c
               /\ heap.hdr[b].size >= MIN_BLOCK_SIZE
               /\ heap.hdr[n].prev_free = heap.hdr[b].free
               /\ heap.hdr[b].free => heap.hdr[n].prev_hdr = b /\ ~heap.hdr[n].free
    <3>1. b \in DOMAIN H /\ b # last /\ n = After(H, b)
      BY <2>1, <2>4, NextIs DEF Blocks
    <3>2. Follows(H, b, n)
      BY <2>2, <3>1 DEF Tile
    <3>3. H[b].size >= MIN_BLOCK_SIZE
      BY <3>2, Consts DEF Follows
    <3> QED BY <2>1, <3>2, <3>3 DEF Follows, Blocks
  <2>5. TypeOK
    BY HeapIsTyped
  <2> QED BY <2>3, <2>4, <2>5 DEF BlocksTile
<1> QED BY <1>1, HeldAlways, PTL

\* Every free block is on the list of its size, once, nothing else is on a list,
\* and the two levels of bitmaps say which lists are not empty.
THEOREM ListsMatchTheorem == Spec => []ListsMatch
<1>1. HeldInv(heap, given) => ListsMatch
  <2> SUFFICES ASSUME HeapInv(heap) PROVE ListsMatch
    BY DEF HeldInv
  <2>1. PICK f : f = FreeSizes(heap.hdr)
    OBVIOUS
  <2>2. Listed(heap, f) /\ Tile(heap.hdr)
    BY <2>1 DEF HeapInv
  <2>3. ASSUME NEW at \in At
        PROVE  {b \in DOMAIN f : MAPPING_INSERT(f[b]) = at}
               = {b \in FreeBlocks : MAPPING_INSERT(SizeAt(heap, b)) = at}
    <3>1. DOMAIN f = FreeBlocks
      BY <2>1, <2>2, TileTypes DEF FreeSizes, FreeBlocks, Blocks
    <3>2. \A b \in DOMAIN f : f[b] = SizeAt(heap, b)
      BY <2>1 DEF FreeSizes, SizeAt
    <3> QED BY <3>1, <3>2
  <2>4. DOMAIN heap.matrix = At
    BY <2>2 DEF Listed
  <2> QED BY <2>2, <2>3, <2>4 DEF ListsMatch, Listed, BitsMatch
<1> QED BY <1>1, HeldAlways, PTL

\* malloc_ex returns NULL only when no free block has the size that it has
\* rounded the request up to: FIND_SUITABLE_BLOCK misses no list.
THEOREM GoodFitTheorem == Spec => []GoodFit
<1>1. HeldInv(heap, given) => GoodFit
  <2> SUFFICES ASSUME HeapInv(heap), NEW bytes \in Sizes, malloc_ex(heap, bytes).ptr = NULL,
                      NEW b \in FreeBlocks
               PROVE  SizeAt(heap, b) < MAPPING_SEARCH(Requested(bytes)).size
    BY DEF HeldInv, GoodFit
  <2>1. PICK r : r = malloc_ex(heap, bytes)
    OBVIOUS
  <2>2. bytes \in 0 .. Pow2[MAX_FLI]
    BY SizesSmall
  <2>3. NoFit(heap, r, bytes) \/ \E a : Fits(heap, r, a, bytes)
    BY <2>1, <2>2, MallocIs
  <2>4. ASSUME NEW a, Fits(heap, r, a, bytes) PROVE FALSE
    <3>1. a \in Nat
      BY <2>4, TileTypes DEF Fits, HeapInv
    <3>2. r.ptr = BufferOf(a)
      BY <2>4 DEF Fits, Result
    <3> QED BY <2>1, <3>1, <3>2, Buffers
  <2>5. NoFit(heap, r, bytes)
    BY <2>3, <2>4
  <2>6. b \in DOMAIN heap.hdr /\ heap.hdr[b].free = TRUE
    <3>1. b \in DOMAIN heap.hdr /\ heap.hdr[b].free
      BY DEF FreeBlocks, Blocks
    <3> QED BY <3>1, TileTypes DEF HeapInv
  <2> QED BY <2>5, <2>6 DEF NoFit, SizeAt, MAPPING_SEARCH
<1> QED BY <1>1, HeldAlways, PTL

\* Every caller has what it asked for, at the alignment it asked for, inside its
\* own block; and behind the address that aligned_kmalloc keeps for aligned_kfree.
THEOREM AlignedFitsTheorem == Spec => []AlignedFits
<1>1. HeldInv(heap, given) => AlignedFits
  <2> SUFFICES ASSUME HeldInv(heap, given), NEW p \in DOMAIN given, NEW g, g = given[p]
               PROVE  /\ g.ptr % g.align = 0
                      /\ g.ptr # p => p + PTR <= g.ptr
                      /\ g.ptr + g.asked <= p + SizeAt(heap, HdrOf(p))
    BY DEF AlignedFits
  <2>1. Holds(heap, p, g)
    BY DEF HeldInv
  <2>2. g.ptr % g.align = 0
    BY <2>1, MultipleIff DEF Holds
  <2> QED BY <2>1, <2>2 DEF Holds, SizeAt
<1> QED BY <1>1, HeldAlways, PTL
-----------------------------------------------------------------------------
(* The refinement.                                                         *)

\* What callers hold, as Heap sees it.
Seen(h, G) == [p \in DOMAIN G |-> [len |-> SizeAt(h, HdrOf(p)), asked |-> G[p].asked]]

LEMMA SeenIs ==
  ASSUME NEW h, NEW G, NEW K, K = Seen(h, G)
  PROVE  /\ IsMap(K) /\ DOMAIN K = DOMAIN G
         /\ \A p \in DOMAIN G : K[p].len = h.hdr[HdrOf(p)].size /\ K[p].asked = G[p].asked
BY DEF Seen, IsMap, SizeAt

\* The bytes of a used block.
LEMMA CellsIn ==
  ASSUME NEW h, NEW p, NEW e, HeapInv(h), Holds(h, p, e), NEW n, n = h.hdr[HdrOf(p)].size, NEW b, b = HdrOf(p)
  PROVE  /\ b \in DOMAIN h.hdr /\ b \in Nat /\ n \in Nat /\ p = b + BLOCK_ALIGN /\ b # last
         /\ After(h.hdr, b) = p + n /\ first <= b /\ p + n <= last /\ e.asked <= n
<1>1. PICK H : H = h.hdr
  OBVIOUS
<1>2. Tile(H) /\ b \in DOMAIN H /\ b # last /\ p \in Nat
  BY <1>1 DEF HeapInv, Holds, IsGiven
<1>3. b \in Nat /\ n \in 0 .. POOL /\ n \in Nat /\ b \in first .. last /\ first \in Nat /\ last \in Nat
  BY <1>1, <1>2, TileTypes, Consts, PoolLayout
<1>4. p = b + BLOCK_ALIGN
  BY <1>2, <1>3, Consts DEF HdrOf
<1>5. After(H, b) = p + n
  BY <1>1, <1>3, <1>4, Consts DEF After
<1>6. p + n <= last
  <2>1. After(H, b) \in DOMAIN H
    BY <1>2, Following
  <2>2. After(H, b) \in first .. last
    BY <1>2, <2>1, TileTypes
  <2> QED BY <1>5, <2>2
<1>7. e.asked <= n
  <2>1. PICK x, y : x = e.ptr /\ y = e.asked
    OBVIOUS
  <2>2. x \in Nat /\ y \in Nat /\ (x = p \/ p + PTR <= x) /\ x + y <= p + n /\ PTR \in Nat
    BY <2>1, Consts DEF Holds
  <2>3. p <= x
    BY <1>2, <2>2
  <2> QED BY <1>2, <1>3, <2>1, <2>2, <2>3
<1> QED BY <1>1, <1>2, <1>3, <1>4, <1>5, <1>6, <1>7

\* Held blocks lie in the pool, and apart.
LEMMA SeenSound ==
  ASSUME NEW h, NEW G, HeldInv(h, G), NEW p \in DOMAIN G, NEW K, K = Seen(h, G)
  PROVE  A!Sound(K, p)
<1>1. /\ DOMAIN K = DOMAIN G
      /\ \A q \in DOMAIN G : K[q].len = h.hdr[HdrOf(q)].size /\ K[q].asked = G[q].asked
  BY SeenIs
<1>2. PICK b, n : b = HdrOf(p) /\ n = h.hdr[b].size
  OBVIOUS
<1>3. HeapInv(h) /\ Tile(h.hdr) /\ \A q \in DOMAIN G : Holds(h, q, G[q])
  BY DEF HeldInv, HeapInv
<1>4. /\ b \in DOMAIN h.hdr /\ b \in Nat /\ n \in Nat /\ p = b + BLOCK_ALIGN /\ b # last
      /\ After(h.hdr, b) = p + n /\ first <= b /\ p + n <= last /\ G[p].asked <= n
  BY <1>2, <1>3, CellsIn
<1>5. BLOCK_ALIGN \in Nat \ {0} /\ first \in Nat /\ last \in Nat /\ BufferOf(first) = first + BLOCK_ALIGN
  BY Consts, PoolLayout, Buffers
<1>6. K[p].len = n /\ K[p].asked = G[p].asked
  BY <1>1, <1>2
<1>7. p .. p + n - 1 \subseteq BufferOf(first) .. last - 1
  BY <1>4, <1>5
<1>8. ASSUME NEW q \in DOMAIN G \ {p}
      PROVE  (p .. p + n - 1) \cap (q .. q + K[q].len - 1) = {}
  <2>1. PICK c, m : c = HdrOf(q) /\ m = h.hdr[c].size
    OBVIOUS
  <2>2. K[q].len = m
    BY <1>1, <2>1
  <2>3. /\ c \in DOMAIN h.hdr /\ c \in Nat /\ m \in Nat /\ q = c + BLOCK_ALIGN /\ c # last
        /\ After(h.hdr, c) = q + m
    BY <1>3, <2>1, CellsIn
  <2>4. b # c
    BY <1>2, <2>1, HeldApart
  <2>5. (c <= b \/ p + n <= c) /\ (b <= c \/ q + m <= b)
    <3>1. c <= b \/ After(h.hdr, b) <= c
      BY <1>3, <1>4, <2>3, Following
    <3>2. b <= c \/ After(h.hdr, c) <= b
      BY <1>3, <1>4, <2>3, Following
    <3> QED BY <1>4, <2>3, <3>1, <3>2
  <2>6. p + n <= q \/ q + m <= p
    BY <1>4, <1>5, <2>3, <2>4, <2>5
  <2>7. ASSUME NEW x \in p .. p + n - 1, x \in q .. q + m - 1 PROVE FALSE
    <3>1. p \in Nat /\ q \in Nat
      BY <1>4, <1>5, <2>3
    <3> QED BY <1>4, <2>3, <2>6, <2>7, <3>1
  <2> QED BY <2>2, <2>7
<1>9. A!Cells(K, p) = p .. p + n - 1 /\ \A q : A!Cells(K, q) = q .. q + K[q].len - 1
  BY <1>6 DEF A!Cells
<1> QED BY <1>1, <1>4, <1>6, <1>7, <1>8, <1>9, ZenonT(30) DEF A!Sound

\* One entry of what is seen.
LEMMA SeenKept ==
  ASSUME NEW h, NEW G, NEW g, NEW G2, NEW q \in DOMAIN G, q \in DOMAIN G2, G2[q] = G[q],
         g.hdr[HdrOf(q)].size = h.hdr[HdrOf(q)].size
  PROVE  Seen(g, G2)[q] = Seen(h, G)[q]
BY DEF Seen, SizeAt

\* Heap's step: blocks K become K2.
SeenStep(K, K2) ==
    \/ K2 = K
    \/ \E p \in DOMAIN K2 \ DOMAIN K : A!Sound(K2, p) /\ A!Others(K2, {p}) = K
    \/ \E p \in DOMAIN K \ DOMAIN K2 : K2 = A!Others(K, {p})
    \/ \E p \in DOMAIN K, q \in DOMAIN K2 : A!Sound(K2, q) /\ A!Others(K2, {q}) = A!Others(K, {p})

LEMMA CallSeen ==
  ASSUME NEW h, NEW G, HeldInv(h, G), NEW g, NEW G2, CallIs(h, G, g, G2),
         NEW K, K = Seen(h, G), NEW K2, K2 = Seen(g, G2)
  PROVE  SeenStep(K, K2)
<1>1. IsMap(K) /\ DOMAIN K = DOMAIN G /\ IsMap(K2) /\ DOMAIN K2 = DOMAIN G2
  BY SeenIs
<1>2. CASE Same(h, G, g, G2)
  <2>1. \A q \in DOMAIN G : K2[q] = K[q]
    BY <1>2, SeenKept DEF Same
  <2>2. DOMAIN K2 = DOMAIN K
    BY <1>1, <1>2 DEF Same
  <2>3. K2 = K
    BY <1>1, <2>1, <2>2 DEF IsMap
  <2> QED BY <2>3 DEF SeenStep
<1>3. CASE \E p : Comes(h, G, g, G2, p)
  <2>1. PICK p : Comes(h, G, g, G2, p)
    BY <1>3
  <2>2. p \notin DOMAIN K /\ DOMAIN K2 = DOMAIN K \cup {p}
    BY <1>1, <2>1 DEF Comes
  <2>3. HeldInv(g, G2) /\ \A q \in DOMAIN G : g.hdr[HdrOf(q)].size = h.hdr[HdrOf(q)].size
    BY <2>1, ComesHeld
  <2>4. A!Sound(K2, p)
    BY <1>1, <2>2, <2>3, SeenSound
  <2>5. \A q \in DOMAIN K : K2[q] = K[q]
    BY <1>1, <2>1, <2>2, <2>3, SeenKept DEF Comes
  <2>6. A!Others(K2, {p}) = K
    <3>1. DOMAIN K2 \ {p} = DOMAIN K
      BY <2>2
    <3> QED BY <1>1, <2>5, <3>1 DEF A!Others, IsMap
  <2> QED BY <2>2, <2>4, <2>6 DEF SeenStep
<1>4. CASE \E p : Goes(h, G, g, G2, p)
  <2>1. PICK p : Goes(h, G, g, G2, p)
    BY <1>4
  <2>2. p \in DOMAIN K /\ DOMAIN K2 = DOMAIN K \ {p}
    BY <1>1, <2>1 DEF Goes
  <2>3. \A q \in DOMAIN G \ {p} : g.hdr[HdrOf(q)].size = h.hdr[HdrOf(q)].size
    BY <2>1, GoesHeld
  <2>4. \A q \in DOMAIN K \ {p} : K2[q] = K[q]
    BY <1>1, <2>1, <2>2, <2>3, SeenKept DEF Goes
  <2>5. K2 = A!Others(K, {p})
    BY <1>1, <2>2, <2>4 DEF A!Others, IsMap
  <2> QED BY <2>2, <2>5 DEF SeenStep
<1>5. CASE \E p, q : Becomes(h, G, g, G2, p, q)
  <2>1. PICK p, q : Becomes(h, G, g, G2, p, q)
    BY <1>5
  <2>2. p \in DOMAIN K /\ q \in DOMAIN K2 /\ DOMAIN K \ {p} = DOMAIN K2 \ {q}
    BY <1>1, <2>1 DEF Becomes
  <2>3. HeldInv(g, G2) /\ \A x \in DOMAIN G \ {p} : g.hdr[HdrOf(x)].size = h.hdr[HdrOf(x)].size
    BY <2>1, BecomesHeld
  <2>4. A!Sound(K2, q)
    BY <1>1, <2>2, <2>3, SeenSound
  <2>5. \A x \in DOMAIN K \ {p} : K[x] = K2[x]
    BY <1>1, <2>1, <2>2, <2>3, SeenKept DEF Becomes
  <2>6. A!Others(K2, {q}) = A!Others(K, {p})
    BY <2>2, <2>5 DEF A!Others
  <2> QED BY <2>2, <2>4, <2>6 DEF SeenStep
<1> QED BY <1>2, <1>3, <1>4, <1>5 DEF CallIs

\* The heap implements Heap: no byte is given to two callers, a block is at least
\* as long as was asked for, and only the call that is handed a block moves it.
THEOREM HeapRefinement == Spec => ImplementsHeap
<1>1. Init => A!Init
  BY DEF Init, A!Init
<1>2. HeldInv(heap, given) /\ [Next]_vars => [A!Alloc \/ A!Free \/ A!Resize]_(Seen(heap, given))
  <2> SUFFICES ASSUME HeldInv(heap, given), [Next]_vars
               PROVE  [A!Alloc \/ A!Free \/ A!Resize]_(Seen(heap, given))
    OBVIOUS
  <2>1. CASE UNCHANGED vars
    BY <2>1 DEF vars, Seen, SizeAt
  <2>2. CASE Next
    <3>1. PICK K, K2 : K = Seen(heap, given) /\ K2 = Seen(heap', given')
      OBVIOUS
    <3>2. SeenStep(K, K2)
      BY <2>2, <3>1, NextIsCall, CallSeen
    <3> QED BY <3>1, <3>2 DEF SeenStep, A!Alloc, A!Free, A!Resize, Seen
  <2> QED BY <2>1, <2>2
<1> QED BY <1>1, <1>2, HeldAlways, PTL DEF Spec, ImplementsHeap, A!Spec, Seen
=============================================================================
