---------------------------- MODULE VmspaceProofs ----------------------------
(***************************************************************************)
(* For every layout of the address space and every sequence of calls: the  *)
(* zones stay in order and apart, page_alloc is first fit, and the lists   *)
(* implement AddrSpace.  All of it as long as no caller asks for so many   *)
(* pages that va + size can wrap (NoWrap): the run vmspace_wrap shows what *)
(* happens if one does.                                                    *)
(***************************************************************************)
EXTENDS Vmspace, TLAPS, WellFoundedInduction, SequenceTheorems

NoWrap == \A n \in PageCounts : n > 0 => n * PAGE_SIZE + KERN_MAX_ADDR <= ASIZE

Low(user) == IF user THEN USER_MIN_ADDR ELSE USER_MAX_ADDR
End(z) == z.base + z.limit

\* One list.  The order is stated for any two zones, not only for neighbours, and
\* the only zone that no caller has asked for is the kernel image's.
HalfInv(L, user) ==
    /\ L \in Seq(Zone)
    /\ \A i \in 1 .. Len(L) : L[i].limit > 0 /\ Low(user) <= L[i].base /\ End(L[i]) <= Limit(user)
    /\ \A i, j \in 1 .. Len(L) : i < j => End(L[i]) <= L[j].base
    /\ user \/ (Len(L) >= 1 /\ L[1] = km0)
    /\ \A i \in 1 .. Len(L) : user \/ i > 1 => L[i].protect \in Prots

VInv == /\ HalfInv(uvmzone, TRUE)
        /\ HalfInv(kvmzone, FALSE)
        /\ ret \in [va : Addr, npages : PageCounts \cup {0}, prot : Prots \cup {0}, ok : BOOLEAN]
-----------------------------------------------------------------------------
\* The constants, as the proofs use them.
LEMMA Layout ==
    /\ ASIZE \in Nat \ {0} /\ PAGE_SIZE \in Nat \ {0} /\ USER_MIN_ADDR \in Nat /\ USER_MAX_ADDR \in Nat
    /\ KERN_MAX_ADDR \in Nat /\ Brk \in Nat
    /\ 0 < USER_MIN_ADDR /\ USER_MIN_ADDR < USER_MAX_ADDR /\ USER_MAX_ADDR < Brk
    /\ Brk <= KERN_MAX_ADDR /\ KERN_MAX_ADDR < ASIZE
    /\ Prots \subseteq Nat /\ VM_PROT_ALL \in Nat /\ PageCounts \subseteq Int
    /\ Vas \subseteq 0 .. ASIZE - 1
BY AddrAssumption

\* Addresses below ASIZE are not changed by the width of uint32_t.
LEMMA WrapLemma == ASSUME NEW x \in Nat, x < ASIZE PROVE Wrap(x) = x
<1>1. x = ASIZE * (x \div ASIZE) + (x % ASIZE) /\ x % ASIZE \in 0 .. ASIZE - 1 /\ x \div ASIZE \in Int
  BY Layout
<1>2. x % ASIZE = x
  BY <1>1, Layout
<1> QED BY <1>2 DEF Wrap

\* Whole pages begin and end on a boundary of pages.
LEMMA AlignedPages == ASSUME NEW k \in Int PROVE Aligned(PAGE_SIZE * k)
<1> DEFINE p == PAGE_SIZE
           x == p * k
<1>1. p \in Nat \ {0} /\ x \in Int
  BY Layout
<1>2. x = p * (x \div p) + (x % p) /\ x % p \in 0 .. p - 1 /\ x \div p \in Int
  BY <1>1
<1>3. PICK q \in Int, r \in 0 .. p - 1 : q = x \div p /\ r = x % p
  BY <1>2
<1>4. p * (k - q) = r
  BY <1>1, <1>2, <1>3
<1>5. r = 0
  <2>1. k - q \in Int
    BY <1>3
  <2>2. CASE k - q >= 1
    <3>1. p * (k - q) >= p
      BY <1>1, <2>1, <2>2
    <3> QED BY <1>1, <1>3, <1>4, <3>1
  <2>3. CASE k - q <= 0
    <3>1. p * (k - q) <= 0
      BY <1>1, <2>1, <2>3
    <3> QED BY <1>1, <1>3, <1>4, <3>1
  <2> QED BY <2>1, <2>2, <2>3
<1> QED BY <1>3, <1>5 DEF Aligned

\* What is on a boundary is so many pages.
LEMMA AlignedIs ==
  ASSUME NEW x \in Nat, Aligned(x)
  PROVE  \E k \in Int : x = PAGE_SIZE * k
<1>1. x = PAGE_SIZE * (x \div PAGE_SIZE) + (x % PAGE_SIZE) /\ x \div PAGE_SIZE \in Int
  BY Layout
<1>2. PICK q \in Int : q = x \div PAGE_SIZE
  BY <1>1
<1>3. x = PAGE_SIZE * q + 0 /\ PAGE_SIZE * q \in Int
  BY <1>1, <1>2, Layout DEF Aligned
<1>4. x = PAGE_SIZE * q
  BY <1>3
<1> QED BY <1>4

\* The sum of two multiples of a page is one.
LEMMA AlignedSum ==
  ASSUME NEW x \in Nat, NEW y \in Nat, Aligned(x), Aligned(y)
  PROVE  Aligned(x + y)
<1>1. PICK k \in Int : x = PAGE_SIZE * k
  BY AlignedIs
<1>2. PICK m \in Int : y = PAGE_SIZE * m
  BY AlignedIs
<1>3. x + y = PAGE_SIZE * (k + m) /\ k + m \in Int
  BY <1>1, <1>2, Layout
<1> QED BY <1>3, AlignedPages

\* A set of numbers that is not empty has a least one.
LEMMA LeastOf ==
  ASSUME NEW S \in SUBSET Nat, S # {}
  PROVE  Min(S) \in S /\ \A y \in S : Min(S) <= y
<1>1. PICK x \in S : \A y \in S : ~(<<y, x>> \in OpToRel(<, Nat))
  BY NatLessThanWellFounded, WFMin
<1>2. OpToRel(<, Nat) = {ss \in Nat \X Nat : ss[1] < ss[2]}
  BY Zenon DEF OpToRel
<1>3. \A y \in S : ~(<<y, x>> \in {ss \in Nat \X Nat : ss[1] < ss[2]})
  BY <1>1, <1>2, Zenon
<1>4. \A y \in S : ~(y < x)
  <2> SUFFICES ASSUME NEW y \in S, y < x PROVE FALSE
    OBVIOUS
  <2>1. <<y, x>> \in Nat \X Nat /\ <<y, x>>[1] < <<y, x>>[2]
    OBVIOUS
  <2> QED BY <1>3, <2>1, Zenon
<1>5. \A y \in S : x <= y
  BY <1>4
<1> QED BY <1>5 DEF Min
-----------------------------------------------------------------------------
\* What linking a zone in, cutting the list and taking a zone out leave where.
LEMMA InsertAtLemma ==
  ASSUME NEW T, NEW L \in Seq(T), NEW i \in 1 .. Len(L) + 1, NEW z \in T
  PROVE  /\ InsertAt(L, i, z) \in Seq(T) /\ Len(InsertAt(L, i, z)) = Len(L) + 1
         /\ \A j \in 1 .. Len(L) + 1 :
               InsertAt(L, i, z)[j] = IF j < i THEN L[j] ELSE IF j = i THEN z ELSE L[j - 1]
<1> DEFINE A == SubSeq(L, 1, i - 1)
           B == SubSeq(L, i, Len(L))
<1>1. A \in Seq(T) /\ Len(A) = i - 1 /\ \A j \in 1 .. i - 1 : A[j] = L[j]
  OBVIOUS
<1>2. B \in Seq(T) /\ Len(B) = Len(L) - i + 1 /\ \A j \in 1 .. Len(L) - i + 1 : B[j] = L[i + j - 1]
  OBVIOUS
<1>3. InsertAt(L, i, z) = (A \o <<z>>) \o B
  BY DEF InsertAt
<1> HIDE DEF A, B
<1>4. /\ A \o <<z>> \in Seq(T) /\ Len(A \o <<z>>) = i
      /\ \A j \in 1 .. i : (A \o <<z>>)[j] = IF j < i THEN L[j] ELSE z
  BY <1>1
<1>7. PICK C \in Seq(T) : /\ C = A \o <<z>> /\ Len(C) = i
                          /\ \A j \in 1 .. i : C[j] = IF j < i THEN L[j] ELSE z
  BY <1>4
<1>8. /\ C \o B \in Seq(T) /\ Len(C \o B) = Len(C) + Len(B)
      /\ \A j \in 1 .. Len(C) + Len(B) : (C \o B)[j] = IF j <= Len(C) THEN C[j] ELSE B[j - Len(C)]
  BY <1>2, ConcatProperties, Zenon
<1>9. PICK D \in Seq(T) : /\ D = C \o B /\ Len(D) = Len(C) + Len(B)
                          /\ \A j \in 1 .. Len(C) + Len(B) : D[j] = IF j <= Len(C) THEN C[j] ELSE B[j - Len(C)]
  BY <1>8, Zenon
<1>10. Len(L) \in Nat /\ Len(B) = Len(L) - i + 1 /\ Len(C) = i /\ Len(D) = Len(C) + Len(B)
  BY <1>2, <1>7, <1>9, LenProperties, Zenon
<1>5. Len(D) = Len(L) + 1 /\ Len(L) \in Nat
  BY <1>10
<1>6. ASSUME NEW j \in 1 .. Len(L) + 1
      PROVE  D[j] = IF j < i THEN L[j] ELSE IF j = i THEN z ELSE L[j - 1]
  <2>1. CASE j <= i
    <3>1. D[j] = C[j] /\ j \in 1 .. i
      BY <1>2, <1>7, <1>9, <2>1
    <3> QED BY <1>7, <2>1, <3>1
  <2>2. CASE j > i
    <3>1. D[j] = B[j - i] /\ j - i \in 1 .. Len(L) - i + 1
      BY <1>2, <1>7, <1>9, <2>2
    <3>2. B[j - i] = L[i + (j - i) - 1] /\ i + (j - i) - 1 = j - 1
      BY <1>2, <3>1
    <3> QED BY <2>2, <3>1, <3>2
  <2> QED BY <2>1, <2>2
<1> QED BY <1>3, <1>5, <1>6, <1>7, <1>9

LEMMA RemoveAtLemma ==
  ASSUME NEW T, NEW L \in Seq(T), NEW i \in 1 .. Len(L)
  PROVE  /\ RemoveAt(L, i) \in Seq(T) /\ Len(RemoveAt(L, i)) = Len(L) - 1
         /\ \A j \in 1 .. Len(L) - 1 : RemoveAt(L, i)[j] = IF j < i THEN L[j] ELSE L[j + 1]
<1> DEFINE A == SubSeq(L, 1, i - 1)
           B == SubSeq(L, i + 1, Len(L))
<1>1. A \in Seq(T) /\ Len(A) = i - 1 /\ \A j \in 1 .. i - 1 : A[j] = L[j]
  OBVIOUS
<1>2. B \in Seq(T) /\ Len(B) = Len(L) - i /\ \A j \in 1 .. Len(L) - i : B[j] = L[i + j]
  OBVIOUS
<1>3. RemoveAt(L, i) = A \o B
  BY DEF RemoveAt
<1> HIDE DEF A, B
<1>6. /\ A \o B \in Seq(T) /\ Len(A \o B) = Len(A) + Len(B)
      /\ \A j \in 1 .. Len(A) + Len(B) : (A \o B)[j] = IF j <= Len(A) THEN A[j] ELSE B[j - Len(A)]
  BY <1>1, <1>2, ConcatProperties, Zenon
<1>7. PICK D \in Seq(T) : /\ D = A \o B /\ Len(D) = Len(A) + Len(B)
                          /\ \A j \in 1 .. Len(A) + Len(B) : D[j] = IF j <= Len(A) THEN A[j] ELSE B[j - Len(A)]
  BY <1>6, Zenon
<1>4. Len(D) = Len(L) - 1 /\ Len(L) \in Nat
  BY <1>1, <1>2, <1>7
<1>5. ASSUME NEW j \in 1 .. Len(L) - 1
      PROVE  D[j] = IF j < i THEN L[j] ELSE L[j + 1]
  <2>1. CASE j < i
    <3>1. D[j] = A[j] /\ j \in 1 .. i - 1
      BY <1>1, <1>2, <1>7, <2>1
    <3> QED BY <1>1, <2>1, <3>1
  <2>2. CASE j >= i
    <3>1. D[j] = B[j - (i - 1)] /\ j - (i - 1) = j - i + 1 /\ j - i + 1 \in 1 .. Len(L) - i
      BY <1>1, <1>2, <1>7, <2>2
    <3>2. B[j - i + 1] = L[i + (j - i + 1)] /\ i + (j - i + 1) = j + 1
      BY <1>2, <3>1
    <3> QED BY <2>2, <3>1, <3>2
  <2> QED BY <2>1, <2>2
<1> QED BY <1>3, <1>4, <1>5, <1>7

LEMMA CutLemma ==
  ASSUME NEW T, NEW L \in Seq(T), NEW i \in 1 .. Len(L) + 1
  PROVE  /\ SubSeq(L, 1, i - 1) \in Seq(T) /\ Len(SubSeq(L, 1, i - 1)) = i - 1
         /\ \A j \in 1 .. i - 1 : SubSeq(L, 1, i - 1)[j] = L[j]
OBVIOUS

\* The zones of a list, their numbers as the proofs use them.
LEMMA ZoneFacts ==
  ASSUME NEW user \in BOOLEAN, NEW L, HalfInv(L, user), NEW i \in 1 .. Len(L)
  PROVE  /\ L[i] \in Zone /\ L[i].base \in Nat /\ L[i].limit \in Nat /\ L[i].limit > 0
         /\ Low(user) <= L[i].base /\ End(L[i]) <= Limit(user)
         /\ End(L[i]) \in Nat /\ L[i].base < End(L[i]) /\ End(L[i]) <= KERN_MAX_ADDR
         /\ EndOf(L[i]) = End(L[i])
         /\ \A va \in Addr : Inside(va, L[i]) <=> L[i].base <= va /\ va < End(L[i])
         /\ Aligned(L[i].base) /\ Aligned(End(L[i]))
<1>1. L[i] \in Zone
  BY DEF HalfInv
<1>2. /\ L[i].base \in Nat /\ L[i].limit \in Nat /\ Aligned(L[i].base) /\ Aligned(L[i].limit)
  BY <1>1 DEF Zone, PageAddr, Addr
<1>3. L[i].limit > 0 /\ Low(user) <= L[i].base /\ End(L[i]) <= Limit(user)
  BY DEF HalfInv
<1>4. End(L[i]) \in Nat /\ L[i].base < End(L[i]) /\ End(L[i]) <= KERN_MAX_ADDR
  BY <1>2, <1>3, Layout DEF End, Limit
<1>5. EndOf(L[i]) = End(L[i])
  BY <1>2, <1>4, WrapLemma, Layout DEF End, EndOf
<1>6. \A va \in Addr : Inside(va, L[i]) <=> L[i].base <= va /\ va < End(L[i])
  BY <1>2, <1>5 DEF Inside, Addr
<1>7. Aligned(End(L[i]))
  BY <1>2, AlignedSum DEF End
<1> QED BY <1>1, <1>2, <1>3, <1>4, <1>5, <1>6, <1>7

\* A zone that is linked in where it belongs, or is lost with all behind it.
LEMMA LinkLemma ==
  ASSUME NEW user \in BOOLEAN, NEW L, HalfInv(L, user), NEW i \in 1 .. Len(L) + 1, user \/ i > 1,
         NEW z \in Zone, z.limit > 0, Low(user) <= z.base, End(z) <= Limit(user), z.protect \in Prots,
         \A j \in 1 .. Len(L) : j < i => End(L[j]) <= z.base,
         \A j \in 1 .. Len(L) : j >= i => End(z) <= L[j].base,
         NEW got \in BOOLEAN
  PROVE  HalfInv(Link(L, i, z, got), user)
<1>0. L \in Seq(Zone) /\ Len(L) \in Nat
  BY DEF HalfInv
<1>1. CASE got
  <2> DEFINE M == InsertAt(L, i, z)
  <2>2. /\ M \in Seq(Zone) /\ Len(M) = Len(L) + 1
        /\ \A j \in 1 .. Len(L) + 1 : M[j] = IF j < i THEN L[j] ELSE IF j = i THEN z ELSE L[j - 1]
    BY <1>0, InsertAtLemma
  <2>1. M = InsertAt(L, i, z)
    OBVIOUS
  <2> HIDE DEF M
  <2>6. ASSUME NEW j \in 1 .. Len(M)
        PROVE  /\ j < i => j \in 1 .. Len(L) /\ M[j] = L[j]
               /\ j = i => M[j] = z
               /\ j > i => j - 1 \in 1 .. Len(L) /\ M[j] = L[j - 1]
    BY <1>0, <2>2
  <2>3. ASSUME NEW j \in 1 .. Len(M)
        PROVE  /\ M[j].limit > 0 /\ Low(user) <= M[j].base /\ End(M[j]) <= Limit(user)
               /\ user \/ j > 1 => M[j].protect \in Prots
    <3>1. CASE j < i
      BY <2>6, <3>1 DEF HalfInv
    <3>2. CASE j = i
      BY <2>6, <3>2
    <3>3. CASE j > i
      <4>1. j - 1 \in 1 .. Len(L) /\ M[j] = L[j - 1] /\ j - 1 >= i
        BY <2>6, <3>3
      <4> QED BY <4>1 DEF HalfInv
    <3> QED BY <3>1, <3>2, <3>3
  <2>4. ASSUME NEW j \in 1 .. Len(M), NEW k \in 1 .. Len(M), j < k
        PROVE  End(M[j]) <= M[k].base
    <3>1. CASE j < i /\ k < i
      BY <2>4, <2>6, <3>1 DEF HalfInv
    <3>2. CASE j < i /\ k = i
      BY <2>4, <2>6, <3>2
    <3>3. CASE j < i /\ k > i
      <4>1. k - 1 \in 1 .. Len(L) /\ M[k] = L[k - 1] /\ j < k - 1
        BY <2>6, <3>3
      <4> QED BY <2>6, <3>3, <4>1 DEF HalfInv
    <3>4. CASE j = i
      <4>1. k - 1 \in 1 .. Len(L) /\ M[k] = L[k - 1] /\ k - 1 >= i
        BY <2>4, <2>6, <3>4
      <4> QED BY <2>6, <3>4, <4>1
    <3>5. CASE j > i
      <4>1. k - 1 \in 1 .. Len(L) /\ M[k] = L[k - 1] /\ j - 1 \in 1 .. Len(L) /\ M[j] = L[j - 1]
            /\ j - 1 < k - 1
        BY <2>4, <2>6, <3>5
      <4> QED BY <4>1 DEF HalfInv
    <3> QED BY <2>4, <3>1, <3>2, <3>3, <3>4, <3>5
  <2>5. user \/ (Len(M) >= 1 /\ M[1] = km0)
    BY <1>0, <2>2 DEF HalfInv
  <2> QED BY <1>1, <2>1, <2>2, <2>3, <2>4, <2>5 DEF HalfInv, Link
<1>2. CASE ~got
  <2>1. PICK M : M = SubSeq(L, 1, i - 1)
    OBVIOUS
  <2>2. M \in Seq(Zone) /\ Len(M) = i - 1 /\ \A j \in 1 .. i - 1 : M[j] = L[j]
    BY <1>0, <2>1, CutLemma
  <2> QED BY <1>0, <1>2, <2>1, <2>2 DEF HalfInv, Link
<1> QED BY <1>1, <1>2

\* A zone that is taken out.
LEMMA RemoveLemma ==
  ASSUME NEW user \in BOOLEAN, NEW L, HalfInv(L, user), NEW i \in 1 .. Len(L), user \/ i > 1
  PROVE  HalfInv(RemoveAt(L, i), user)
<1>0. L \in Seq(Zone) /\ Len(L) \in Nat
  BY DEF HalfInv
<1>1. PICK M : M = RemoveAt(L, i)
  OBVIOUS
<1>2. /\ M \in Seq(Zone) /\ Len(M) = Len(L) - 1
      /\ \A j \in 1 .. Len(L) - 1 : M[j] = IF j < i THEN L[j] ELSE L[j + 1]
  BY <1>0, <1>1, RemoveAtLemma
<1>3. \A j \in 1 .. Len(M) : /\ M[j].limit > 0 /\ Low(user) <= M[j].base /\ End(M[j]) <= Limit(user)
                             /\ user \/ j > 1 => M[j].protect \in Prots
  BY <1>0, <1>2, SMTT(30) DEF HalfInv
<1>4. \A j, k \in 1 .. Len(M) : j < k => End(M[j]) <= M[k].base
  BY <1>0, <1>2, SMTT(30) DEF HalfInv
<1>5. user \/ (Len(M) >= 1 /\ M[1] = km0)
  BY <1>0, <1>2 DEF HalfInv
<1> QED BY <1>1, <1>2, <1>3, <1>4, <1>5 DEF HalfInv
-----------------------------------------------------------------------------
\* Where page_alloc_in_addr links a zone in: behind all that end before it, and
\* before all the others, never before the kernel image.
LEMMA StopLemma ==
  ASSUME NEW user \in BOOLEAN, NEW L, HalfInv(L, user),
         NEW va \in Nat, NEW size \in Nat, va + size < ASIZE, Low(user) <= va, FreeAt(L, va, size)
  PROVE  /\ StopAt(L, va) \in 1 .. Len(L) + 1
         /\ user \/ StopAt(L, va) > 1
         /\ \A j \in 1 .. Len(L) : j < StopAt(L, va) => End(L[j]) <= va
         /\ \A j \in 1 .. Len(L) : j >= StopAt(L, va) => va + size <= L[j].base
<1> DEFINE S == {i \in DOMAIN L : Inside(va, L[i]) \/ va < L[i].base} \cup {Len(L) + 1}
<1>1. Len(L) \in Nat /\ DOMAIN L = 1 .. Len(L) /\ va \in Addr
  BY Layout DEF HalfInv, Addr
<1>2. S \in SUBSET Nat /\ S # {} /\ S \subseteq 1 .. Len(L) + 1
  BY <1>1
<1>3. PICK i \in S : i = StopAt(L, va) /\ \A y \in S : i <= y
  BY <1>2, LeastOf, ZenonT(60) DEF StopAt
<1>4. i \in 1 .. Len(L) + 1
  BY <1>2
<1>5. \A j \in 1 .. Len(L) : /\ L[j].base \in Nat /\ End(L[j]) \in Nat /\ L[j].base < End(L[j])
                             /\ Inside(va, L[j]) <=> L[j].base <= va /\ va < End(L[j])
  BY <1>1, ZoneFacts
<1>6. ASSUME NEW j \in 1 .. Len(L), j < i PROVE End(L[j]) <= va
  <2>1. j \notin S
    BY <1>1, <1>2, <1>3, <1>6
  <2> QED BY <1>1, <1>5, <2>1
<1>7. ASSUME NEW j \in 1 .. Len(L), j >= i PROVE va + size <= L[j].base
  <2>1. i \in 1 .. Len(L)
    BY <1>1, <1>4, <1>7
  <2>2. Wrap(va + size) = va + size
    BY WrapLemma
  <2>3. va + size <= L[i].base
    BY <1>3, <2>1, <2>2, <1>1 DEF FreeAt
  <2>4. CASE j = i
    BY <2>3, <2>4
  <2>5. CASE j > i
    <3>1. End(L[i]) <= L[j].base
      BY <2>1, <2>5 DEF HalfInv
    <3> QED BY <1>5, <2>1, <2>3, <3>1
  <2> QED BY <1>4, <1>7, <2>4, <2>5
<1>8. user \/ i > 1
  <2> SUFFICES ASSUME ~user, i = 1 PROVE FALSE
    BY <1>4
  <2>1. Len(L) >= 1 /\ L[1] = km0 /\ 1 \in 1 .. Len(L)
    BY <1>1 DEF HalfInv
  <2>2. va + size <= USER_MAX_ADDR /\ USER_MAX_ADDR <= va
    BY <1>7, <2>1 DEF km0, Low
  <2>3. va = USER_MAX_ADDR
    BY <2>2, Layout
  <2>4. Inside(va, L[1])
    BY <1>5, <2>1, <2>3, Layout DEF km0
  <2> QED BY <1>1, <1>3, <2>1, <2>4 DEF FreeAt
<1> QED BY <1>3, <1>4, <1>6, <1>7, <1>8

\* Where page_alloc stops: the first zone that is followed by enough room, or the
\* last one.
LEMMA GapLemma ==
  ASSUME NEW user \in BOOLEAN, NEW L, HalfInv(L, user), L # <<>>,
         NEW size \in Nat, size + KERN_MAX_ADDR <= ASIZE
  PROVE  /\ GapAfter(L, size) \in 1 .. Len(L)
         /\ \A j \in 1 .. Len(L) : j <= GapAfter(L, size) => End(L[j]) <= End(L[GapAfter(L, size)])
         /\ \A j \in 1 .. Len(L) : j > GapAfter(L, size) => End(L[GapAfter(L, size)]) + size <= L[j].base
         /\ \A j \in 1 .. Len(L) - 1 : j < GapAfter(L, size) => L[j + 1].base < End(L[j]) + size
<1> DEFINE S == {i \in DOMAIN L : i = Len(L) \/ Wrap(EndOf(L[i]) + size) <= L[i + 1].base}
<1>1. Len(L) \in Nat /\ Len(L) >= 1 /\ DOMAIN L = 1 .. Len(L)
  BY DEF HalfInv
<1>2. S \in SUBSET Nat /\ S # {} /\ S \subseteq 1 .. Len(L)
  BY <1>1
<1>3. PICK g \in S : g = GapAfter(L, size) /\ \A y \in S : g <= y
  BY <1>2, LeastOf DEF GapAfter
<1>4. g \in 1 .. Len(L)
  BY <1>2
<1>5. \A j \in 1 .. Len(L) : /\ L[j].base \in Nat /\ End(L[j]) \in Nat /\ L[j].base < End(L[j])
                             /\ EndOf(L[j]) = End(L[j]) /\ End(L[j]) <= KERN_MAX_ADDR
  BY <1>1, ZoneFacts
<1>6. ASSUME NEW j \in 1 .. Len(L) - 1
      PROVE  /\ j \in 1 .. Len(L) /\ j + 1 \in 1 .. Len(L)
             /\ Wrap(EndOf(L[j]) + size) = End(L[j]) + size
  <2>1. j \in 1 .. Len(L) /\ j + 1 \in 1 .. Len(L)
    BY <1>1
  <2>2. End(L[j]) <= L[j + 1].base
    BY <2>1 DEF HalfInv
  <2>3. End(L[j]) + size \in Nat /\ End(L[j]) + size < ASIZE
    BY <1>5, <2>1, <2>2, Layout, SMTT(30)
  <2> QED BY <1>5, <2>1, <2>3, WrapLemma
<1>7. ASSUME NEW j \in 1 .. Len(L), j <= g PROVE End(L[j]) <= End(L[g])
  <2>1. CASE j = g
    BY <1>5, <2>1
  <2>2. CASE j < g
    <3>1. End(L[j]) <= L[g].base
      BY <1>4, <2>2 DEF HalfInv
    <3> QED BY <1>4, <1>5, <3>1
  <2> QED BY <1>4, <1>7, <2>1, <2>2
<1>8. ASSUME NEW j \in 1 .. Len(L), j > g PROVE End(L[g]) + size <= L[j].base
  <2>1. g \in 1 .. Len(L) - 1 /\ g # Len(L)
    BY <1>1, <1>4, <1>8
  <2>2. End(L[g]) + size <= L[g + 1].base
    BY <1>3, <1>6, <2>1
  <2>3. CASE j = g + 1
    BY <2>2, <2>3
  <2>4. CASE j > g + 1
    <3>1. g + 1 \in 1 .. Len(L) /\ End(L[g + 1]) <= L[j].base
      BY <2>1, <2>4, <1>6 DEF HalfInv
    <3> QED BY <1>4, <1>5, <2>2, <3>1
  <2> QED BY <1>4, <1>8, <2>3, <2>4
<1>9. ASSUME NEW j \in 1 .. Len(L) - 1, j < g PROVE L[j + 1].base < End(L[j]) + size
  <2>1. j \in DOMAIN L /\ j + 1 \in 1 .. Len(L)
    BY <1>1, <1>6
  <2>2. ~(g <= j)
    BY <1>1, <1>4, <1>9
  <2>3. j \notin S
    BY <1>3, <2>2, Zenon
  <2>4. ~(Wrap(EndOf(L[j]) + size) <= L[j + 1].base)
    BY <2>1, <2>3, Zenon
  <2>5. ~(End(L[j]) + size <= L[j + 1].base)
    BY <1>6, <2>4
  <2>6. End(L[j]) + size \in Int /\ L[j + 1].base \in Int
    BY <1>1, <1>5, <2>1, SMTT(30)
  <2> QED BY <2>5, <2>6
<1> QED BY <1>3, <1>4, <1>7, <1>8, <1>9

\* Callers' page counts: their size does not wrap, and is whole pages.
LEMMA SizeLemma ==
  ASSUME NoWrap, NEW npages \in PageCounts, npages > 0
  PROVE  /\ SizeOf(npages) = npages * PAGE_SIZE /\ SizeOf(npages) \in Nat /\ SizeOf(npages) > 0
         /\ SizeOf(npages) + KERN_MAX_ADDR <= ASIZE /\ SizeOf(npages) \in PageAddr
<1>1. npages \in Nat /\ npages >= 1
  BY Layout
<1>2. PICK s \in Nat : s = npages * PAGE_SIZE
  BY <1>1, Layout
<1>3. s > 0
  BY <1>1, <1>2, Layout
<1>4. s + KERN_MAX_ADDR <= ASIZE /\ s < ASIZE
  BY <1>2, Layout DEF NoWrap
<1>5. Wrap(s) = s
  BY <1>4, WrapLemma
<1>6. Aligned(s)
  <2>1. s = PAGE_SIZE * npages
    BY <1>1, <1>2, Layout
  <2> QED BY <1>1, <2>1, AlignedPages
<1>7. s \in PageAddr
  BY <1>4, <1>6, Layout DEF PageAddr, Addr
<1> QED BY <1>2, <1>3, <1>4, <1>5, <1>7 DEF SizeOf
-----------------------------------------------------------------------------
\* The list of a half, and a call that changes it.
Half(user) == IF user THEN uvmzone ELSE kvmzone

\* An allocation as both callers make it: a zone that fits between its neighbours
\* is linked in, or lost with what is behind it.
Allocates(user, i, z, got) ==
    LET L == Half(user)
    IN  /\ i \in 1 .. Len(L) + 1 /\ (user \/ i > 1)
        /\ z \in Zone /\ z.limit > 0 /\ Low(user) <= z.base /\ End(z) <= Limit(user)
        /\ z.protect \in Prots
        /\ \A j \in 1 .. Len(L) : j < i => End(L[j]) <= z.base
        /\ \A j \in 1 .. Len(L) : j >= i => End(z) <= L[j].base
        /\ SetList(user, Link(L, i, z, got))

\* page_free: a zone other than the kernel image's is taken out.
Frees(user, i) ==
    /\ i \in 1 .. Len(Half(user)) /\ (user \/ i > 1)
    /\ SetList(user, RemoveAt(Half(user), i))

\* An allocation at an address is one of those, or changes nothing.
LEMMA AllocInAddrLemma ==
  ASSUME NoWrap, VInv, NEW npages \in PageCounts, NEW va \in Vas, NEW prot \in Prots,
         page_alloc_in_addr(va, npages, prot)
  PROVE  /\ \/ UNCHANGED <<uvmzone, kvmzone>>
            \/ \E user, got \in BOOLEAN : \E i, z : Allocates(user, i, z, got)
         /\ ret' \in [va : Addr, npages : PageCounts \cup {0}, prot : Prots \cup {0}, ok : BOOLEAN]
<1> DEFINE size == SizeOf(npages)
           user == va < USER_MAX_ADDR
           L == Half(user)
           z == [base |-> va, limit |-> size, protect |-> prot]
           Ok == npages > 0 /\ ValidVa(va) /\ InBounds(va, size) /\ FreeAt(L, va, size)
<1>1. L = ListOf(va) /\ user \in BOOLEAN /\ va \in Nat /\ va \in Addr
  BY Layout DEF Half, ListOf, Addr
<1>2. CASE ~Ok
  <2>1. Fail
    BY <1>1, <1>2 DEF page_alloc_in_addr
  <2> QED BY <2>1, Layout DEF Fail, Failed, Addr
<1>3. CASE Ok
  <2>1. PICK got \in BOOLEAN : /\ SetList(user, Link(L, StopAt(L, va), z, got))
                               /\ ret' = Allocated(va, npages, prot)
    BY <1>1, <1>3 DEF page_alloc_in_addr
  <2>2. ret' \in [va : Addr, npages : PageCounts \cup {0}, prot : Prots \cup {0}, ok : BOOLEAN]
    BY <1>1, <2>1 DEF Allocated
  <2>3. size \in Nat /\ size > 0 /\ size + KERN_MAX_ADDR <= ASIZE /\ size \in PageAddr
    BY <1>3, SizeLemma
  <2>4. va + size \in Nat /\ va + size < ASIZE /\ Wrap(va + size) = va + size
    <3>1. va < KERN_MAX_ADDR
      BY <1>3 DEF InBounds
    <3>2. va + size \in Nat /\ va + size < ASIZE
      BY <1>1, <2>3, <3>1, Layout
    <3> QED BY <3>2, WrapLemma
  <2>5. Low(user) <= va /\ va + size <= Limit(user)
    BY <1>1, <1>3, <2>4, Layout DEF InBounds, Low, Limit
  <2>6. HalfInv(L, user)
    BY <1>1 DEF VInv, Half
  <2> HIDE DEF L, user, size
  <2>7. /\ StopAt(L, va) \in 1 .. Len(L) + 1
        /\ user \/ StopAt(L, va) > 1
        /\ \A j \in 1 .. Len(L) : j < StopAt(L, va) => End(L[j]) <= va
        /\ \A j \in 1 .. Len(L) : j >= StopAt(L, va) => va + size <= L[j].base
    BY <1>1, <1>3, <2>3, <2>4, <2>5, <2>6, StopLemma
  <2>8. z \in Zone /\ z.base = va /\ End(z) = va + size /\ z.limit = size /\ z.protect = prot
    BY <1>1, <1>3, <2>3 DEF Zone, PageAddr, ValidVa, End
  <2>9. Allocates(user, StopAt(L, va), z, got)
    BY <2>1, <2>3, <2>5, <2>7, <2>8 DEF Allocates, L
  <2> QED BY <1>1, <2>2, <2>9
<1> QED BY <1>2, <1>3

\* The same of an allocation anywhere.
LEMMA AllocLemma ==
  ASSUME NoWrap, VInv, NEW npages \in PageCounts, NEW user \in BOOLEAN, NEW prot \in Prots,
         page_alloc(npages, prot, user)
  PROVE  /\ \/ UNCHANGED <<uvmzone, kvmzone>>
            \/ \E half, got \in BOOLEAN : \E i, z : Allocates(half, i, z, got)
         /\ ret' \in [va : Addr, npages : PageCounts \cup {0}, prot : Prots \cup {0}, ok : BOOLEAN]
<1> DEFINE size == SizeOf(npages)
           L == Half(user)
           va == AllocVa(L, size)
           z == [base |-> va, limit |-> size, protect |-> prot]
           Ok == npages > 0 /\ HasRoom(user, va, size)
<1>0. HalfInv(L, user)
  BY DEF VInv, Half
<1>1. HalfInv(L, user) /\ L \in Seq(Zone) /\ Len(L) \in Nat
  BY <1>0 DEF HalfInv
<1>2. CASE ~Ok
  <2>1. Fail
    BY <1>2 DEF page_alloc, Half
  <2> QED BY <2>1, Layout DEF Fail, Failed, Addr
<1>3. CASE Ok
  <2>1. PICK got \in BOOLEAN : /\ SetList(user, Link(L, AllocPos(L, size), z, got))
                               /\ ret' = Allocated(va, npages, prot)
    BY <1>3 DEF page_alloc, Half
  <2>3. size \in Nat /\ size > 0 /\ size + KERN_MAX_ADDR <= ASIZE /\ size \in PageAddr
    BY <1>3, SizeLemma
  <2> HIDE DEF L, size
  <2>4. /\ va \in Nat /\ Aligned(va) /\ Low(user) <= va
        /\ AllocPos(L, size) \in 1 .. Len(L) + 1 /\ (user \/ AllocPos(L, size) > 1)
        /\ \A j \in 1 .. Len(L) : j < AllocPos(L, size) => End(L[j]) <= va
        /\ \A j \in 1 .. Len(L) : j >= AllocPos(L, size) => va + size <= L[j].base
    <3>1. CASE L = <<>>
      <4>1. Len(L) = 0 /\ user
        BY <1>1, <3>1 DEF HalfInv
      <4>2. va = USER_MIN_ADDR /\ AllocPos(L, size) = 1
        BY <3>1 DEF AllocVa, AllocPos
      <4>3. Aligned(USER_MIN_ADDR)
        BY AddrAssumption DEF Aligned
      <4> QED BY <4>1, <4>2, <4>3, Layout DEF Low
    <3>2. CASE L # <<>>
      <4>1. PICK g : g = GapAfter(L, size)
        OBVIOUS
      <4>2. /\ g \in 1 .. Len(L)
            /\ \A j \in 1 .. Len(L) : j <= g => End(L[j]) <= End(L[g])
            /\ \A j \in 1 .. Len(L) : j > g => End(L[g]) + size <= L[j].base
        BY <1>1, <2>3, <3>2, <4>1, GapLemma
      <4>3. va = EndOf(L[g]) /\ AllocPos(L, size) = g + 1
        BY <3>2, <4>1 DEF AllocVa, AllocPos
      <4>4. /\ EndOf(L[g]) = End(L[g]) /\ End(L[g]) \in Nat /\ Aligned(End(L[g]))
            /\ L[g].base \in Nat /\ L[g].base < End(L[g]) /\ Low(user) <= L[g].base
        BY <1>1, <4>2, ZoneFacts
      <4>5. Low(user) \in Nat
        BY Layout DEF Low
      <4> HIDE DEF va
      <4> QED BY <1>1, <4>2, <4>3, <4>4, <4>5
    <3> QED BY <3>1, <3>2
  <2> HIDE DEF va
  <2>5. va < KERN_MAX_ADDR /\ va < Limit(user) /\ Limit(user) \in Nat
    BY <1>3, <2>4, Layout DEF HasRoom, Limit
  <2>6. va + size \in Nat /\ va + size < ASIZE /\ va \in Addr
    BY <2>3, <2>4, <2>5, Layout DEF Addr
  <2>7. va + size <= Limit(user)
    BY <1>3, <2>6, WrapLemma DEF HasRoom
  <2>8. z \in Zone /\ z.base = va /\ End(z) = va + size /\ z.limit = size /\ z.protect = prot
    BY <2>3, <2>4, <2>6 DEF Zone, PageAddr, End
  <2>9. Allocates(user, AllocPos(L, size), z, got)
    BY <2>1, <2>3, <2>4, <2>7, <2>8 DEF Allocates, L
  <2>10. ret' \in [va : Addr, npages : PageCounts \cup {0}, prot : Prots \cup {0}, ok : BOOLEAN]
    BY <2>1, <2>6 DEF Allocated
  <2> QED BY <2>9, <2>10
<1> QED BY <1>2, <1>3

\* page_free takes one zone out, or changes nothing.
LEMMA FreeLemma ==
  ASSUME VInv, NEW npages \in PageCounts, NEW va \in Vas, page_free(va, npages)
  PROVE  /\ \/ UNCHANGED <<uvmzone, kvmzone>>
            \/ \E user \in BOOLEAN : \E i : Frees(user, i)
         /\ ret' \in [va : Addr, npages : PageCounts \cup {0}, prot : Prots \cup {0}, ok : BOOLEAN]
<1> DEFINE user == va < USER_MAX_ADDR
           L == Half(user)
           hits == {i \in DOMAIN L : Matches(L[i], va, npages)}
<1>1. L = ListOf(va) /\ user \in BOOLEAN
  BY DEF Half, ListOf
<1>2. ret' \in [va : Addr, npages : PageCounts \cup {0}, prot : Prots \cup {0}, ok : BOOLEAN]
  <2>1. ret' = Failed
    BY DEF page_free, Fail
  <2> QED BY <2>1, Layout DEF Failed, Addr
<1>6. HalfInv(L, user)
  BY <1>1 DEF VInv, Half
<1>3. HalfInv(L, user) /\ L \in Seq(Zone) /\ Len(L) \in Nat /\ DOMAIN L = 1 .. Len(L)
  BY <1>6 DEF HalfInv
<1>4. CASE hits = {}
  BY <1>1, <1>2, <1>4 DEF page_free, Fail
<1>5. CASE hits # {}
  <2>1. hits \in SUBSET Nat
    BY <1>3
  <2>2. PICK i \in hits : i = Min(hits)
    BY <1>5, <2>1, LeastOf
  <2>3. i \in 1 .. Len(L) /\ Matches(L[i], va, npages)
    BY <1>3, <2>2
  <2>4. user \/ i > 1
    BY <1>3, <2>3 DEF HalfInv, Matches, km0
  <2>5. SetList(user, RemoveAt(L, i))
    BY <1>1, <1>5, <2>2 DEF page_free
  <2>6. Frees(user, i)
    BY <2>3, <2>4, <2>5 DEF Frees
  <2> QED BY <1>1, <1>2, <2>6
<1> QED BY <1>4, <1>5

\* So that every step allocates, frees or changes no list.
LEMMA StepKinds ==
  ASSUME NoWrap, VInv, [Next]_vars
  PROVE  /\ \/ UNCHANGED <<uvmzone, kvmzone>>
            \/ \E user, got \in BOOLEAN : \E i, z : Allocates(user, i, z, got)
            \/ \E user \in BOOLEAN : \E i : Frees(user, i)
         /\ ret' \in [va : Addr, npages : PageCounts \cup {0}, prot : Prots \cup {0}, ok : BOOLEAN]
<1>1. CASE UNCHANGED vars
  BY <1>1 DEF vars, VInv
<1>2. CASE Next
  <2>1. PICK npages \in PageCounts :
            \/ \E va \in Vas, prot \in Prots : page_alloc_in_addr(va, npages, prot)
            \/ \E user \in BOOLEAN, prot \in Prots : page_alloc(npages, prot, user)
            \/ \E va \in Vas : page_free(va, npages)
    BY <1>2 DEF Next
  <2> QED BY <2>1, AllocInAddrLemma, AllocLemma, FreeLemma, Zenon
<1> QED BY <1>1, <1>2
-----------------------------------------------------------------------------
\* At the start there is the kernel image, and nothing else.
LEMMA VInvInit == Init => VInv
<1> SUFFICES ASSUME Init PROVE VInv
  OBVIOUS
<1>1. km0 \in Zone
  <2>1. Aligned(USER_MAX_ADDR) /\ Aligned(Brk)
    BY AddrAssumption DEF Aligned
  <2>2. Aligned(Brk - USER_MAX_ADDR)
    <3>1. PICK k \in Int : Brk = PAGE_SIZE * k
      BY <2>1, Layout, AlignedIs
    <3>2. PICK m \in Int : USER_MAX_ADDR = PAGE_SIZE * m
      BY <2>1, Layout, AlignedIs
    <3>3. Brk - USER_MAX_ADDR = PAGE_SIZE * (k - m) /\ k - m \in Int
      BY <3>1, <3>2, Layout
    <3> QED BY <3>3, AlignedPages
  <2> QED BY <2>1, <2>2, Layout DEF km0, Zone, PageAddr, Addr
<1>2. HalfInv(uvmzone, TRUE)
  BY DEF Init, HalfInv
<1>3. HalfInv(kvmzone, FALSE)
  <2>1. Len(kvmzone) = 1 /\ kvmzone[1] = km0 /\ kvmzone \in Seq(Zone)
    BY <1>1 DEF Init
  <2>2. km0.limit > 0 /\ Low(FALSE) <= km0.base /\ End(km0) <= Limit(FALSE)
    BY Layout DEF km0, Low, End, Limit
  <2>3. /\ \A i \in 1 .. Len(kvmzone) : i = 1
        /\ \A i, j \in 1 .. Len(kvmzone) : ~(i < j)
    BY <2>1
  <2>4. \A i \in 1 .. Len(kvmzone) : kvmzone[i] = km0 /\ ~(i > 1)
    BY <2>1, <2>3
  <2>5. Len(kvmzone) >= 1
    BY <2>1
  <2> QED BY <2>1, <2>2, <2>3, <2>4, <2>5, Zenon DEF HalfInv
<1>4. ret \in [va : Addr, npages : PageCounts \cup {0}, prot : Prots \cup {0}, ok : BOOLEAN]
  BY Layout DEF Init, Failed, Addr
<1> QED BY <1>2, <1>3, <1>4 DEF VInv

\* Every step keeps both lists as they should be.
LEMMA VInvNext == ASSUME NoWrap, VInv, [Next]_vars PROVE VInv'
<1>1. CASE UNCHANGED <<uvmzone, kvmzone>>
  <2>1. uvmzone' = uvmzone /\ kvmzone' = kvmzone
    BY <1>1
  <2> QED BY <2>1, StepKinds DEF VInv
<1>2. ASSUME NEW user \in BOOLEAN, NEW L, SetList(user, L), HalfInv(L, user)
      PROVE  HalfInv(uvmzone', TRUE) /\ HalfInv(kvmzone', FALSE)
  BY <1>2 DEF SetList, VInv
<1>3. ASSUME NEW user \in BOOLEAN PROVE HalfInv(Half(user), user)
  BY DEF VInv, Half
<1>4. ASSUME NEW user \in BOOLEAN, NEW got \in BOOLEAN, NEW i, NEW z, Allocates(user, i, z, got)
      PROVE  HalfInv(uvmzone', TRUE) /\ HalfInv(kvmzone', FALSE)
  <2>1. HalfInv(Link(Half(user), i, z, got), user)
    BY <1>3, <1>4, LinkLemma, Zenon DEF Allocates
  <2> QED BY <1>2, <1>4, <2>1 DEF Allocates
<1>5. ASSUME NEW user \in BOOLEAN, NEW i, Frees(user, i)
      PROVE  HalfInv(uvmzone', TRUE) /\ HalfInv(kvmzone', FALSE)
  <2>1. HalfInv(RemoveAt(Half(user), i), user)
    BY <1>3, <1>5, RemoveLemma, Zenon DEF Frees
  <2> QED BY <1>2, <1>5, <2>1 DEF Frees
<1>6. VInv' <=> HalfInv(uvmzone', TRUE) /\ HalfInv(kvmzone', FALSE)
  BY StepKinds DEF VInv
<1> QED BY <1>1, <1>4, <1>5, <1>6, StepKinds

\* Both lists are in the order of their addresses, no two zones overlap, none
\* leaves its half, and the kernel's list begins with the kernel image.
THEOREM ZonesOrderedTheorem == NoWrap /\ Spec => []ZonesOrdered
<1> SUFFICES ASSUME NoWrap PROVE Spec => []ZonesOrdered
  OBVIOUS
<1>1. VInv => ZonesOrdered
  BY SMTT(30) DEF VInv, HalfInv, ZonesOrdered, TypeOK, Ordered, Low, Limit, End
<1>2. VInv /\ [Next]_vars => VInv'
  BY VInvNext
<1> QED BY <1>1, <1>2, VInvInit, PTL DEF Spec
-----------------------------------------------------------------------------
\* No place where the pages fit is below the one page_alloc finds: they fit before
\* none of the zones up to it.
LEMMA NothingBefore ==
  ASSUME NEW user \in BOOLEAN, NEW L, HalfInv(L, user), L # <<>>,
         NEW size \in Nat, size + KERN_MAX_ADDR <= ASIZE,
         NEW w \in Nat, End(L[1]) <= w, Vacant(L, w, size)
  PROVE  End(L[GapAfter(L, size)]) <= w
<1>1. PICK g : g = GapAfter(L, size)
  OBVIOUS
<1>2. /\ g \in 1 .. Len(L) /\ Len(L) \in Nat /\ DOMAIN L = 1 .. Len(L)
      /\ \A j \in 1 .. Len(L) - 1 : j < g => L[j + 1].base < End(L[j]) + size
  BY <1>1, GapLemma DEF HalfInv
<1>3. \A j \in 1 .. Len(L) : L[j].base \in Nat /\ End(L[j]) \in Nat
  BY ZoneFacts
<1> DEFINE bad == {i \in 1 .. g : w < End(L[i])}
<1>4. bad = {}
  <2> SUFFICES ASSUME bad # {} PROVE FALSE
    OBVIOUS
  <2>1. bad \in SUBSET Nat
    BY <1>2
  <2>2. PICK m \in bad : \A y \in bad : m <= y
    BY <2>1, LeastOf
  <2>3. m \in 1 .. g /\ w < End(L[m])
    OBVIOUS
  <2>4. m # 1
    BY <1>2, <1>3, <2>3
  <2>5. m - 1 \in 1 .. g /\ m - 1 < g /\ m - 1 \in 1 .. Len(L) - 1 /\ (m - 1) + 1 = m
        /\ m \in 1 .. Len(L) /\ m - 1 \in 1 .. Len(L)
    BY <1>2, <2>3, <2>4
  <2>6. End(L[m - 1]) <= w
    <3>1. m - 1 \notin bad
      BY <2>2, <2>5
    <3> QED BY <1>3, <2>5, <3>1, SMTT(30)
  <2>7. L[m].base < End(L[m - 1]) + size
    BY <1>2, <2>5
  <2>8. w + size <= L[m].base \/ End(L[m]) <= w
    BY <1>2, <2>5 DEF Vacant, End
  <2>9. /\ L[m].base \in Nat /\ End(L[m]) \in Nat /\ End(L[m - 1]) \in Nat
    BY <1>3, <2>5
  <2> QED BY <2>3, <2>6, <2>7, <2>8, <2>9
<1>5. g \in 1 .. g
  BY <1>2
<1>6. ~(w < End(L[g]))
  BY <1>4, <1>5
<1> QED BY <1>1, <1>2, <1>3, <1>6

\* What FirstFit says of one call.
LEMMA FitLemma ==
  ASSUME NoWrap, VInv, NEW user \in BOOLEAN, NEW npages \in PageCounts, npages > 0
  PROVE  LET size == npages * PAGE_SIZE
             va == AllocVa(IF user THEN uvmzone ELSE kvmzone, SizeOf(npages))
         IN  IF Fitting(user, size) = {} THEN ~HasRoom(user, va, SizeOf(npages))
             ELSE HasRoom(user, va, SizeOf(npages)) /\ va = Min(Fitting(user, size))
<1>1. PICK size \in Nat : size = npages * PAGE_SIZE /\ SizeOf(npages) = size /\ size > 0
                          /\ size + KERN_MAX_ADDR <= ASIZE
  BY SizeLemma
<1>2. PICK L : L = IF user THEN uvmzone ELSE kvmzone
  OBVIOUS
<1>3. HalfInv(L, user)
  BY <1>2 DEF VInv
<1>4. L \in Seq(Zone) /\ Len(L) \in Nat /\ DOMAIN L = 1 .. Len(L) /\ (L = <<>> => Len(L) = 0)
      /\ (L # <<>> => 1 \in 1 .. Len(L)) /\ Limit(user) \in Nat /\ Limit(user) <= KERN_MAX_ADDR
  BY <1>3, Layout DEF HalfInv, Limit
<1>5. PICK va : va = AllocVa(L, size)
  OBVIOUS
<1>6. PICK from : from = IF L = <<>> THEN USER_MIN_ADDR ELSE End(L[1])
  OBVIOUS
<1>7. Fitting(user, size) = {w \in from .. Limit(user) - 1 : w + size <= Limit(user) /\ Vacant(L, w, size)}
  BY <1>2, <1>6 DEF Fitting, End
<1>8. /\ va \in Nat /\ from \in Nat /\ from <= va /\ Vacant(L, va, size)
      /\ \A w \in Nat : from <= w /\ Vacant(L, w, size) => va <= w
  <2>1. CASE L = <<>>
    <3>1. va = USER_MIN_ADDR /\ from = USER_MIN_ADDR
      BY <1>5, <1>6, <2>1 DEF AllocVa
    <3>2. Vacant(L, va, size)
      BY <1>4, <2>1 DEF Vacant
    <3> QED BY <3>1, <3>2, Layout
  <2>2. CASE L # <<>>
    <3>1. PICK g : g = GapAfter(L, size)
      OBVIOUS
    <3>2. /\ g \in 1 .. Len(L)
          /\ \A j \in 1 .. Len(L) : j <= g => End(L[j]) <= End(L[g])
          /\ \A j \in 1 .. Len(L) : j > g => End(L[g]) + size <= L[j].base
      BY <1>1, <1>3, <2>2, <3>1, GapLemma
    <3>3. \A j \in 1 .. Len(L) : EndOf(L[j]) = End(L[j]) /\ End(L[j]) \in Nat
      BY <1>3, ZoneFacts
    <3>4. va = End(L[g]) /\ from = End(L[1])
      BY <1>5, <1>6, <2>2, <3>1, <3>2, <3>3 DEF AllocVa
    <3>5. Vacant(L, va, size)
      <4> SUFFICES ASSUME NEW j \in 1 .. Len(L) PROVE va + size <= L[j].base \/ End(L[j]) <= va
        BY <1>4 DEF Vacant, End
      <4>1. j <= g \/ j > g
        BY <1>4, <3>2
      <4> QED BY <3>2, <3>4, <4>1
    <3>6. 1 <= g /\ 1 \in 1 .. Len(L)
      BY <1>4, <2>2, <3>2
    <3>7. \A w \in Nat : from <= w /\ Vacant(L, w, size) => va <= w
      BY <1>1, <1>3, <2>2, <3>1, <3>4, NothingBefore
    <3> QED BY <3>2, <3>3, <3>4, <3>5, <3>6, <3>7
  <2> QED BY <2>1, <2>2
<1>9. HasRoom(user, va, size) <=> va < Limit(user) /\ va + size <= Limit(user)
  <2>1. ASSUME va < Limit(user) PROVE Wrap(va + size) = va + size
    <3>1. va + size \in Nat /\ va + size < ASIZE
      BY <1>1, <1>4, <1>8, <2>1, Layout
    <3> QED BY <3>1, WrapLemma
  <2> QED BY <2>1 DEF HasRoom
<1>10. \A w \in Fitting(user, size) : w \in Nat /\ va <= w /\ w < Limit(user) /\ w + size <= Limit(user)
  BY <1>4, <1>7, <1>8
<1>11. HasRoom(user, va, size) => va \in Fitting(user, size)
  BY <1>4, <1>7, <1>8, <1>9
<1>12. Fitting(user, size) # {} => HasRoom(user, va, size)
  BY <1>1, <1>4, <1>8, <1>9, <1>10
<1>13. HasRoom(user, va, size) => va = Min(Fitting(user, size))
  <2> SUFFICES ASSUME HasRoom(user, va, size) PROVE va = Min(Fitting(user, size))
    OBVIOUS
  <2>1. PICK F : F = Fitting(user, size)
    OBVIOUS
  <2>2. F \in SUBSET Nat /\ va \in F /\ \A w \in F : va <= w
    BY <1>10, <1>11, <2>1
  <2>3. Min(F) \in F /\ \A w \in F : Min(F) <= w
    BY <2>2, LeastOf
  <2>4. Min(F) <= va /\ va <= Min(F) /\ Min(F) \in Nat /\ va \in Nat
    BY <2>2, <2>3
  <2> QED BY <2>1, <2>4
<1> QED BY <1>1, <1>2, <1>5, <1>11, <1>12, <1>13

\* page_alloc finds the lowest address above the first zone where the pages fit,
\* and fails only if they fit nowhere there.
THEOREM FirstFitTheorem == NoWrap /\ Spec => []FirstFit
<1> SUFFICES ASSUME NoWrap PROVE Spec => []FirstFit
  OBVIOUS
<1>1. VInv => FirstFit
  BY FitLemma DEF FirstFit
<1>2. VInv /\ [Next]_vars => VInv'
  BY VInvNext
<1> QED BY <1>1, <1>2, VInvInit, PTL DEF Spec
-----------------------------------------------------------------------------
(* The lists implement AddrSpace.                                          *)

\* page_prot of one list.
ProtIn(L, a) ==
    LET hits == {i \in DOMAIN L : Inside(a, L[i])}
    IN  IF hits = {} THEN -1 ELSE L[Min(hits)].protect

\* Since zones do not overlap, whichever zone has the address says what it is.
LEMMA HitLemma ==
  ASSUME NEW user \in BOOLEAN, NEW L, HalfInv(L, user), NEW a \in Addr,
         NEW i \in 1 .. Len(L), L[i].base <= a, a < End(L[i])
  PROVE  ProtIn(L, a) = L[i].protect /\ ProtIn(L, a) \in Nat
<1> DEFINE hits == {k \in DOMAIN L : Inside(a, L[k])}
<1>1. Len(L) \in Nat /\ DOMAIN L = 1 .. Len(L)
  BY DEF HalfInv
<1>2. \A k \in 1 .. Len(L) : /\ L[k].base \in Nat /\ End(L[k]) \in Nat
                             /\ Inside(a, L[k]) <=> L[k].base <= a /\ a < End(L[k])
  BY ZoneFacts
<1>3. i \in hits /\ hits \in SUBSET Nat
  BY <1>1, <1>2
<1>4. ASSUME NEW k \in hits PROVE k = i
  <2>1. k \in 1 .. Len(L) /\ L[k].base <= a /\ a < End(L[k])
    BY <1>1, <1>2
  <2>2. a \in Nat
    BY Layout DEF Addr
  <2>3. CASE k < i
    <3>1. End(L[k]) <= L[i].base
      BY <2>1, <2>3 DEF HalfInv
    <3> QED BY <1>2, <2>1, <2>2, <3>1
  <2>4. CASE i < k
    <3>1. End(L[i]) <= L[k].base
      BY <2>1, <2>4 DEF HalfInv
    <3> QED BY <1>2, <2>1, <2>2, <3>1
  <2> QED BY <2>1, <2>3, <2>4
<1>5. Min(hits) = i
  BY <1>3, <1>4, LeastOf
<1>6. L[i].protect \in Nat
  <2>1. L[i] \in Zone
    BY ZoneFacts
  <2> QED BY <2>1, Layout DEF Zone
<1> QED BY <1>3, <1>5, <1>6, Zenon DEF ProtIn

\* An address no zone has.
LEMMA MissLemma ==
  ASSUME NEW user \in BOOLEAN, NEW L, HalfInv(L, user), NEW a \in Addr,
         \A i \in 1 .. Len(L) : ~(L[i].base <= a /\ a < End(L[i]))
  PROVE  ProtIn(L, a) = -1
<1>1. DOMAIN L = 1 .. Len(L)
  BY DEF HalfInv
<1>2. \A k \in 1 .. Len(L) : Inside(a, L[k]) <=> L[k].base <= a /\ a < End(L[k])
  BY ZoneFacts
<1>3. {k \in DOMAIN L : Inside(a, L[k])} = {}
  BY <1>1, <1>2
<1> QED BY <1>3, Zenon DEF ProtIn

\* Two lists with the same zones at an address say the same of it.
LEMMA SameLemma ==
  ASSUME NEW user \in BOOLEAN, NEW L, HalfInv(L, user), NEW M, HalfInv(M, user), NEW a \in Addr,
         \A i \in 1 .. Len(L) : L[i].base <= a /\ a < End(L[i]) => \E j \in 1 .. Len(M) : M[j] = L[i],
         \A j \in 1 .. Len(M) : M[j].base <= a /\ a < End(M[j]) => \E i \in 1 .. Len(L) : L[i] = M[j]
  PROVE  ProtIn(M, a) = ProtIn(L, a)
<1>1. CASE \E i \in 1 .. Len(L) : L[i].base <= a /\ a < End(L[i])
  <2>1. PICK i \in 1 .. Len(L) : L[i].base <= a /\ a < End(L[i])
    BY <1>1
  <2>2. PICK j \in 1 .. Len(M) : M[j] = L[i]
    BY <2>1
  <2>3. ProtIn(L, a) = L[i].protect
    BY <2>1, HitLemma
  <2>4. M[j].base <= a /\ a < End(M[j])
    BY <2>1, <2>2
  <2>5. ProtIn(M, a) = M[j].protect
    BY <2>4, HitLemma
  <2> QED BY <2>2, <2>3, <2>5
<1>2. CASE \A i \in 1 .. Len(L) : ~(L[i].base <= a /\ a < End(L[i]))
  <2>1. \A j \in 1 .. Len(M) : ~(M[j].base <= a /\ a < End(M[j]))
    BY <1>2
  <2> QED BY <1>2, <2>1, MissLemma
<1> QED BY <1>1, <1>2

\* What page_prot says of an address is what the list of its half says, and a call
\* changes it only through that list.
LEMMA ProtLemma ==
  ASSUME NEW user \in BOOLEAN, NEW M, SetList(user, M), NEW a \in Addr
  PROVE  /\ (a < USER_MAX_ADDR) = user => page_prot(a) = ProtIn(Half(user), a) /\ page_prot(a)' = ProtIn(M, a)
         /\ (a < USER_MAX_ADDR) # user => page_prot(a)' = page_prot(a)
<1>1. page_prot(a) = ProtIn(IF a < USER_MAX_ADDR THEN uvmzone ELSE kvmzone, a)
  BY DEF page_prot, ProtIn, ListOf
<1>2. page_prot(a)' = ProtIn(IF a < USER_MAX_ADDR THEN uvmzone' ELSE kvmzone', a)
  BY DEF page_prot, ProtIn, ListOf
<1> QED BY <1>1, <1>2 DEF SetList, Half

\* A zone linked in: its addresses belonged to nobody and now have its protection,
\* the others keep theirs.
LEMMA GotZone ==
  ASSUME VInv, NEW user \in BOOLEAN, NEW i, NEW z, Allocates(user, i, z, TRUE), NEW a \in Addr
  PROVE  /\ z.base <= a /\ a < End(z) => page_prot(a) = -1 /\ page_prot(a)' = z.protect
         /\ ~(z.base <= a /\ a < End(z)) => page_prot(a)' = page_prot(a)
         /\ z.base \in Nat /\ End(z) \in Nat /\ End(z) <= KERN_MAX_ADDR /\ z.protect \in Prots
<1> DEFINE L == Half(user)
           M == Link(L, i, z, TRUE)
<1>1. HalfInv(L, user) /\ HalfInv(M, user)
  <2>1. HalfInv(L, user)
    BY DEF VInv, Half
  <2> QED BY <2>1, LinkLemma, Zenon DEF Allocates
<1>2. /\ L \in Seq(Zone) /\ Len(L) \in Nat /\ i \in 1 .. Len(L) + 1 /\ z \in Zone
      /\ Low(user) <= z.base /\ End(z) <= Limit(user) /\ SetList(user, M)
      /\ \A j \in 1 .. Len(L) : j < i => End(L[j]) <= z.base
      /\ \A j \in 1 .. Len(L) : j >= i => End(z) <= L[j].base
  <2>1. L \in Seq(Zone) /\ Len(L) \in Nat
    BY <1>1 DEF HalfInv
  <2> QED BY <2>1, Zenon DEF Allocates
<1>3. z.base \in Nat /\ z.limit \in Nat /\ End(z) \in Nat /\ End(z) <= KERN_MAX_ADDR /\ z.protect \in Prots
  BY <1>2, Layout DEF Zone, PageAddr, Addr, End, Limit, Allocates
<1>4. M = InsertAt(L, i, z)
  BY DEF Link
<1>5. /\ Len(M) = Len(L) + 1
      /\ \A j \in 1 .. Len(L) + 1 : M[j] = IF j < i THEN L[j] ELSE IF j = i THEN z ELSE L[j - 1]
  <2> HIDE DEF L, M
  <2>1. /\ Len(InsertAt(L, i, z)) = Len(L) + 1
        /\ \A j \in 1 .. Len(L) + 1 :
              InsertAt(L, i, z)[j] = IF j < i THEN L[j] ELSE IF j = i THEN z ELSE L[j - 1]
    BY <1>2, InsertAtLemma
  <2> QED BY <1>4, <2>1
<1>6. a \in Nat
  BY Layout DEF Addr
<1>7. \A j \in 1 .. Len(L) : L[j].base \in Nat /\ End(L[j]) \in Nat
  BY <1>1, ZoneFacts
<1> HIDE DEF L, M
<1>8. ASSUME z.base <= a, a < End(z) PROVE page_prot(a) = -1 /\ page_prot(a)' = z.protect
  <2>1. (a < USER_MAX_ADDR) = user
    BY <1>2, <1>3, <1>6, <1>8, Layout DEF Low, Limit
  <2>2. \A j \in 1 .. Len(L) : ~(L[j].base <= a /\ a < End(L[j]))
    BY <1>2, <1>3, <1>6, <1>7, <1>8
  <2>3. ProtIn(L, a) = -1
    BY <1>1, <2>2, MissLemma
  <2>4. i \in 1 .. Len(M) /\ M[i] = z
    BY <1>2, <1>5
  <2>5. ProtIn(M, a) = z.protect
    BY <1>1, <1>8, <2>4, HitLemma
  <2> QED BY <1>2, <2>1, <2>3, <2>5, ProtLemma DEF L
<1>9. ASSUME ~(z.base <= a /\ a < End(z)) PROVE page_prot(a)' = page_prot(a)
  <2>1. CASE (a < USER_MAX_ADDR) # user
    BY <1>2, <2>1, ProtLemma
  <2>2. CASE (a < USER_MAX_ADDR) = user
    <3>1. ASSUME NEW k \in 1 .. Len(L) PROVE \E j \in 1 .. Len(M) : M[j] = L[k]
      <4>1. CASE k < i
        BY <1>2, <1>5, <4>1
      <4>2. CASE k >= i
        <5>1. k + 1 \in 1 .. Len(M) /\ M[k + 1] = L[k]
          BY <1>2, <1>5, <4>2
        <5> QED BY <5>1
      <4> QED BY <1>2, <4>1, <4>2
    <3>2. ASSUME NEW j \in 1 .. Len(M), M[j].base <= a, a < End(M[j]) PROVE \E k \in 1 .. Len(L) : L[k] = M[j]
      <4>1. j # i
        BY <1>2, <1>5, <1>9, <3>2
      <4>2. CASE j < i
        BY <1>2, <1>5, <4>2
      <4>3. CASE j > i
        <5>1. j - 1 \in 1 .. Len(L) /\ M[j] = L[j - 1]
          BY <1>2, <1>5, <4>3
        <5> QED BY <5>1
      <4> QED BY <1>2, <1>5, <4>1, <4>2, <4>3
    <3>3. ProtIn(M, a) = ProtIn(L, a)
      BY <1>1, <3>1, <3>2, SameLemma
    <3> QED BY <1>2, <2>2, <3>3, ProtLemma DEF L
  <2> QED BY <2>1, <2>2
<1> QED BY <1>3, <1>8, <1>9

\* A zone taken out: its addresses are free again, the others keep theirs.
LEMMA FreedZone ==
  ASSUME VInv, NEW user \in BOOLEAN, NEW i, Frees(user, i)
  PROVE  \E z \in Zone :
           /\ z.base \in Nat /\ End(z) \in Nat /\ z.protect \in Prots
           /\ End(z) <= USER_MAX_ADDR \/ Brk <= z.base
           /\ \A a \in Addr :
                 /\ z.base <= a /\ a < End(z) => page_prot(a) = z.protect /\ page_prot(a)' = -1
                 /\ ~(z.base <= a /\ a < End(z)) => page_prot(a)' = page_prot(a)
<1> DEFINE L == Half(user)
           M == RemoveAt(L, i)
           z == L[i]
<1>1. HalfInv(L, user) /\ HalfInv(M, user)
  <2>1. HalfInv(L, user)
    BY DEF VInv, Half
  <2> QED BY <2>1, RemoveLemma, Zenon DEF Frees
<1>2. L \in Seq(Zone) /\ Len(L) \in Nat /\ i \in 1 .. Len(L) /\ SetList(user, M) /\ (user \/ i > 1)
  BY <1>1 DEF Frees, HalfInv
<1>3. /\ Len(M) = Len(L) - 1
      /\ \A j \in 1 .. Len(L) - 1 : M[j] = IF j < i THEN L[j] ELSE L[j + 1]
  BY <1>2, RemoveAtLemma
<1>4. \A j \in 1 .. Len(L) : L[j].base \in Nat /\ End(L[j]) \in Nat
                             /\ Low(user) <= L[j].base /\ End(L[j]) <= Limit(user)
  BY <1>1, ZoneFacts
<1>5. z \in Zone /\ z.base \in Nat /\ End(z) \in Nat
  BY <1>1, <1>2, ZoneFacts
<1>6. z.protect \in Prots
  BY <1>1, <1>2 DEF HalfInv
<1>7. End(z) <= USER_MAX_ADDR \/ Brk <= z.base
  <2>1. CASE user
    BY <1>2, <1>4, <2>1 DEF Limit
  <2>2. CASE ~user
    <3>1. i > 1 /\ L[1] = km0 /\ 1 \in 1 .. Len(L)
      BY <1>1, <1>2, <2>2 DEF HalfInv
    <3>2. End(L[1]) <= L[i].base
      BY <1>1, <1>2, <3>1 DEF HalfInv
    <3>3. End(km0) = Brk
      BY Layout DEF End, km0
    <3> QED BY <3>1, <3>2, <3>3
  <2> QED BY <2>1, <2>2
<1> HIDE DEF L, M
<1>8. ASSUME NEW a \in Addr, z.base <= a, a < End(z)
      PROVE  page_prot(a) = z.protect /\ page_prot(a)' = -1
  <2>0. a \in Nat
    BY Layout DEF Addr
  <2>1. (a < USER_MAX_ADDR) = user
    BY <1>2, <1>4, <1>8, <2>0, Layout DEF Low, Limit
  <2>2. ProtIn(L, a) = z.protect
    BY <1>1, <1>2, <1>8, HitLemma
  <2>3. ASSUME NEW j \in 1 .. Len(M) PROVE ~(M[j].base <= a /\ a < End(M[j]))
    <3>1. CASE j < i
      <4>1. M[j] = L[j] /\ j \in 1 .. Len(L)
        BY <1>2, <1>3, <3>1
      <4>2. End(L[j]) <= L[i].base
        BY <1>1, <1>2, <3>1, <4>1 DEF HalfInv
      <4> QED BY <1>2, <1>4, <1>8, <2>0, <4>1, <4>2
    <3>2. CASE j >= i
      <4>1. M[j] = L[j + 1] /\ j + 1 \in 1 .. Len(L) /\ i < j + 1
        BY <1>2, <1>3, <3>2
      <4>2. End(L[i]) <= L[j + 1].base
        BY <1>1, <1>2, <4>1 DEF HalfInv
      <4> QED BY <1>2, <1>4, <1>8, <2>0, <4>1, <4>2
    <3> QED BY <1>2, <1>3, <3>1, <3>2
  <2>4. ProtIn(M, a) = -1
    BY <1>1, <2>3, MissLemma
  <2> QED BY <1>2, <2>1, <2>2, <2>4, ProtLemma DEF L
<1>9. ASSUME NEW a \in Addr, ~(z.base <= a /\ a < End(z)) PROVE page_prot(a)' = page_prot(a)
  <2>1. CASE (a < USER_MAX_ADDR) # user
    BY <1>2, <2>1, ProtLemma
  <2>2. CASE (a < USER_MAX_ADDR) = user
    <3>1. ASSUME NEW k \in 1 .. Len(L), L[k].base <= a, a < End(L[k]) PROVE \E j \in 1 .. Len(M) : M[j] = L[k]
      <4>1. CASE k < i
        BY <1>2, <1>3, <4>1
      <4>2. CASE k > i
        <5>1. k - 1 \in 1 .. Len(M) /\ M[k - 1] = L[k]
          BY <1>2, <1>3, <4>2
        <5> QED BY <5>1
      <4> QED BY <1>2, <1>9, <3>1, <4>1, <4>2
    <3>2. ASSUME NEW j \in 1 .. Len(M) PROVE \E k \in 1 .. Len(L) : L[k] = M[j]
      <4>1. CASE j < i
        BY <1>2, <1>3, <4>1
      <4>2. CASE j >= i
        <5>1. j + 1 \in 1 .. Len(L) /\ M[j] = L[j + 1]
          BY <1>2, <1>3, <4>2
        <5> QED BY <5>1
      <4> QED BY <1>2, <1>3, <4>1, <4>2
    <3>3. ProtIn(M, a) = ProtIn(L, a)
      BY <1>1, <3>1, <3>2, SameLemma
    <3> QED BY <1>2, <2>2, <3>3, ProtLemma DEF L
  <2> QED BY <2>1, <2>2
<1> HIDE DEF z
<1> QED BY <1>5, <1>6, <1>7, <1>8, <1>9

\* A zone kmalloc has no memory for: from an address on, the half it was for has
\* nothing any more, and all before it, the kernel image included, is as it was.
LEMMA LostZones ==
  ASSUME VInv, NEW user \in BOOLEAN, NEW i, NEW z, Allocates(user, i, z, FALSE)
  PROVE  \/ \A a \in Addr : page_prot(a)' = page_prot(a)
         \/ \E low \in Addr :
              /\ (low < USER_MAX_ADDR) = user /\ (user \/ Brk <= low)
              /\ \A a \in Addr :
                    IF (a < USER_MAX_ADDR) = user /\ low <= a
                    THEN page_prot(a)' = -1
                    ELSE page_prot(a)' = page_prot(a)
<1> DEFINE L == Half(user)
           M == Link(L, i, z, FALSE)
<1>1. HalfInv(L, user) /\ HalfInv(M, user)
  <2>1. HalfInv(L, user)
    BY DEF VInv, Half
  <2> QED BY <2>1, LinkLemma, Zenon DEF Allocates
<1>2. L \in Seq(Zone) /\ Len(L) \in Nat /\ i \in 1 .. Len(L) + 1 /\ SetList(user, M) /\ (user \/ i > 1)
  <2>1. L \in Seq(Zone) /\ Len(L) \in Nat
    BY <1>1 DEF HalfInv
  <2> QED BY <2>1, Zenon DEF Allocates
<1>3. M = SubSeq(L, 1, i - 1)
  BY DEF Link
<1> HIDE DEF L, M
<1>4. Len(M) = i - 1 /\ \A j \in 1 .. i - 1 : M[j] = L[j] /\ j \in 1 .. Len(L)
  <2>1. Len(SubSeq(L, 1, i - 1)) = i - 1 /\ \A j \in 1 .. i - 1 : SubSeq(L, 1, i - 1)[j] = L[j]
    BY <1>2, CutLemma
  <2> QED BY <1>2, <1>3, <2>1
<1>5. \A j \in 1 .. Len(L) : L[j].base \in Nat /\ End(L[j]) \in Nat /\ L[j].base < End(L[j])
                             /\ Low(user) <= L[j].base /\ End(L[j]) <= Limit(user)
  BY <1>1, ZoneFacts
<1>6. Low(user) \in Nat /\ Limit(user) \in Nat /\ Limit(user) < ASIZE
  BY Layout DEF Low, Limit
<1>7. CASE i = Len(L) + 1
  <2>1. i - 1 = Len(L)
    BY <1>2, <1>7
  <2>2. M = L
    BY <1>2, <1>3, <2>1, SubSeqFull
  <2>3. \A a \in Addr : page_prot(a)' = page_prot(a)
    BY <1>2, <2>2, ProtLemma DEF L
  <2> QED BY <2>3
<1>8. CASE i \in 1 .. Len(L)
  <2>1. PICK low : low = L[i].base
    OBVIOUS
  <2>2. low \in Nat /\ low < Limit(user) /\ Low(user) <= low
    BY <1>5, <1>6, <1>8, <2>1
  <2>3. low \in Addr /\ (low < USER_MAX_ADDR) = user
    BY <1>6, <2>2, Layout DEF Addr, Low, Limit
  <2>4. user \/ Brk <= low
    <3> SUFFICES ASSUME ~user PROVE Brk <= low
      OBVIOUS
    <3>1. i > 1 /\ L[1] = km0 /\ 1 \in 1 .. Len(L)
      BY <1>1, <1>2 DEF HalfInv
    <3>2. End(L[1]) <= L[i].base
      BY <1>1, <1>8, <3>1 DEF HalfInv
    <3>3. End(km0) = Brk
      BY Layout DEF End, km0
    <3> QED BY <2>1, <3>1, <3>2, <3>3
  <2>5. ASSUME NEW a \in Addr, (a < USER_MAX_ADDR) = user, low <= a PROVE page_prot(a)' = -1
    <3>0. a \in Nat
      BY Layout DEF Addr
    <3>1. ASSUME NEW j \in 1 .. Len(M) PROVE ~(M[j].base <= a /\ a < End(M[j]))
      <4>1. j \in 1 .. Len(L) /\ M[j] = L[j] /\ j < i
        BY <1>2, <1>4
      <4>2. End(L[j]) <= L[i].base
        BY <1>1, <1>8, <4>1 DEF HalfInv
      <4> QED BY <1>5, <2>1, <2>2, <2>5, <3>0, <4>1, <4>2
    <3>2. ProtIn(M, a) = -1
      BY <1>1, <3>1, MissLemma
    <3> QED BY <1>2, <2>5, <3>2, ProtLemma
  <2>6. ASSUME NEW a \in Addr, ~((a < USER_MAX_ADDR) = user /\ low <= a)
        PROVE  page_prot(a)' = page_prot(a)
    <3>1. CASE (a < USER_MAX_ADDR) # user
      BY <1>2, <3>1, ProtLemma
    <3>2. CASE (a < USER_MAX_ADDR) = user
      <4>0. a \in Nat /\ a < low
        BY <2>2, <2>6, <3>2, Layout DEF Addr
      <4>1. ASSUME NEW k \in 1 .. Len(L), L[k].base <= a PROVE \E j \in 1 .. Len(M) : M[j] = L[k]
        <5>1. k < i
          <6> SUFFICES ASSUME k >= i PROVE FALSE
            BY <1>8
          <6>1. k = i \/ End(L[i]) <= L[k].base
            BY <1>1, <1>8 DEF HalfInv
          <6> QED BY <1>5, <1>8, <2>1, <4>0, <4>1, <6>1
        <5>2. k \in 1 .. Len(M) /\ M[k] = L[k]
          BY <1>2, <1>4, <5>1
        <5> QED BY <5>2
      <4>2. ASSUME NEW j \in 1 .. Len(M) PROVE \E k \in 1 .. Len(L) : L[k] = M[j]
        BY <1>4
      <4>3. ProtIn(M, a) = ProtIn(L, a)
        BY <1>1, <4>1, <4>2, SameLemma
      <4> QED BY <1>2, <3>2, <4>3, ProtLemma DEF L
    <3> QED BY <3>1, <3>2
  <2> QED BY <2>3, <2>4, <2>5, <2>6
<1> QED BY <1>2, <1>7, <1>8

\* What AddrSpace sees: the protection of every address, before and after a step.
Seen == [a \in Addr |-> page_prot(a)]

\* An allocation is AddrSpace's.
LEMMA GotIsAlloc ==
  ASSUME VInv, NEW user \in BOOLEAN, NEW i, NEW z, Allocates(user, i, z, TRUE)
  PROVE  AS!Next
<1>1. \A a \in Addr :
        /\ z.base <= a /\ a < End(z) => page_prot(a) = -1 /\ page_prot(a)' = z.protect
        /\ ~(z.base <= a /\ a < End(z)) => page_prot(a)' = page_prot(a)
  BY GotZone
<1>2. z.protect \in Prots /\ z.protect # -1 /\ z.base \in Nat /\ End(z) \in Nat /\ End(z) <= KERN_MAX_ADDR
  <2>1. 0 \in Addr
    BY Layout DEF Addr
  <2>2. z.protect \in Prots /\ z.base \in Nat /\ End(z) \in Nat /\ End(z) <= KERN_MAX_ADDR
    BY <2>1, GotZone, Zenon
  <2>3. z.protect # -1
    BY <2>2, Layout
  <2> QED BY <2>2, <2>3
<1>3. AS!Changed = {a \in Addr : z.base <= a /\ a < End(z)}
  BY <1>1, <1>2 DEF AS!Changed
<1> DEFINE S == {a \in Addr : z.base <= a /\ a < End(z)}
<1>4. AS!Consecutive(S)
  <2> SUFFICES ASSUME NEW a \in S, NEW b \in S, NEW c \in a .. b PROVE c \in S
    BY DEF AS!Consecutive
  <2> QED BY <1>2, Layout DEF Addr
<1>5. AS!Alloc(S)
  BY <1>1, <1>2 DEF AS!Alloc, AS!NoProt
<1> QED BY <1>3, <1>4, <1>5 DEF AS!Next

\* So is giving pages back.
LEMMA FreedIsFree ==
  ASSUME VInv, NEW user \in BOOLEAN, NEW i, Frees(user, i)
  PROVE  AS!Next
<1>1. PICK z \in Zone :
        /\ z.base \in Nat /\ End(z) \in Nat /\ z.protect \in Prots
        /\ End(z) <= USER_MAX_ADDR \/ Brk <= z.base
        /\ \A a \in Addr :
              /\ z.base <= a /\ a < End(z) => page_prot(a) = z.protect /\ page_prot(a)' = -1
              /\ ~(z.base <= a /\ a < End(z)) => page_prot(a)' = page_prot(a)
  BY FreedZone
<1>2. z.protect # -1
  BY <1>1, Layout
<1> DEFINE S == {a \in Addr : z.base <= a /\ a < End(z)}
<1>3. AS!Changed = S
  BY <1>1, <1>2 DEF AS!Changed
<1>4. AS!Consecutive(S)
  <2> SUFFICES ASSUME NEW a \in S, NEW b \in S, NEW c \in a .. b PROVE c \in S
    BY DEF AS!Consecutive
  <2> QED BY <1>1, Layout DEF Addr
<1>5. S \cap (USER_MAX_ADDR .. Brk - 1) = {}
  BY <1>1, Layout DEF Addr
<1>6. AS!Free(S)
  BY <1>1, <1>5 DEF AS!Free, AS!NoProt
<1> QED BY <1>3, <1>4, <1>6 DEF AS!Next

\* And a zone without memory loses what AddrSpace says it may lose.
LEMMA LostIsLose ==
  ASSUME VInv, NEW user \in BOOLEAN, NEW i, NEW z, Allocates(user, i, z, FALSE)
  PROVE  AS!Next \/ Seen' = Seen
<1>1. CASE \A a \in Addr : page_prot(a)' = page_prot(a)
  BY <1>1 DEF Seen
<1>2. ASSUME NEW low \in Addr,
             (low < USER_MAX_ADDR) = user, user \/ Brk <= low,
             \A a \in Addr : IF (a < USER_MAX_ADDR) = user /\ low <= a
                             THEN page_prot(a)' = -1
                             ELSE page_prot(a)' = page_prot(a)
      PROVE  AS!Next
  <2> DEFINE H == IF user THEN 0 .. USER_MAX_ADDR - 1 ELSE USER_MAX_ADDR .. ASIZE - 1
             S == {a \in H : a >= low /\ page_prot(a) # -1}
  <2>1. \A a : a \in H <=> a \in Addr /\ (a < USER_MAX_ADDR) = user
    BY Layout DEF Addr
  <2>2. low \in Nat /\ \A a \in Addr : a \in Nat
    BY Layout DEF Addr
  <2>3. AS!Changed = S
    <3>1. \A a \in Addr : page_prot(a)' # page_prot(a) <=> a \in S
      BY <1>2, <2>1, <2>2
    <3>2. S \subseteq Addr
      BY <2>1
    <3>3. AS!Changed = {a \in Addr : page_prot(a)' # page_prot(a)}
      BY DEF AS!Changed
    <3> HIDE DEF S
    <3> QED BY <3>1, <3>2, <3>3
  <2>4. S \cap (USER_MAX_ADDR .. Brk - 1) = {}
    BY <1>2, <2>1, <2>2, Layout
  <2>5. \A a \in S : page_prot(a)' = -1
    BY <1>2, <2>1, <2>2
  <2>6. low \in H /\ H \in {0 .. USER_MAX_ADDR - 1, USER_MAX_ADDR .. ASIZE - 1}
    BY <1>2, <2>1
  <2>7. S = {a \in H : a >= low /\ Seen[a] # -1} /\ \A a \in S : Seen'[a] = -1
    BY <2>1, <2>5 DEF Seen
  <2>8. AS!Lose(S)
    <3> HIDE DEF S, H
    <3> QED BY <2>4, <2>6, <2>7 DEF AS!Lose, AS!NoProt, Seen
  <2> QED BY <2>3, <2>8 DEF AS!Next
<1> QED BY <1>1, <1>2, LostZones

\* The zones implement AddrSpace: no address is given to two callers, page_prot
\* reports what the caller asked for, and the kernel image is never given away.
THEOREM AddrSpaceRefinement == NoWrap /\ Spec => ImplementsAddrSpace
<1> SUFFICES ASSUME NoWrap PROVE Spec => ImplementsAddrSpace
  OBVIOUS
<1>1. Init => AS!Init
  <2> SUFFICES ASSUME Init PROVE AS!Init
    OBVIOUS
  <2>1. uvmzone = <<>> /\ kvmzone = <<km0>> /\ HalfInv(uvmzone, TRUE) /\ HalfInv(kvmzone, FALSE)
    BY VInvInit DEF Init, VInv
  <2>2. ASSUME NEW a \in Addr
        PROVE  page_prot(a) = IF a \in USER_MAX_ADDR .. Brk - 1 THEN VM_PROT_ALL ELSE -1
    <3>0. a \in Nat
      BY Layout DEF Addr
    <3>1. page_prot(a) = ProtIn(IF a < USER_MAX_ADDR THEN uvmzone ELSE kvmzone, a)
      BY DEF page_prot, ProtIn, ListOf
    <3>2. CASE a < USER_MAX_ADDR
      <4>1. \A j \in 1 .. Len(uvmzone) : FALSE
        BY <2>1
      <4>2. HalfInv(uvmzone, TRUE) /\ TRUE \in BOOLEAN
        BY <2>1
      <4>3. ProtIn(uvmzone, a) = -1
        BY <4>1, <4>2, MissLemma, Zenon
      <4> QED BY <3>0, <3>1, <3>2, <4>3, Layout
    <3>3. CASE ~(a < USER_MAX_ADDR)
      <4>1. Len(kvmzone) = 1 /\ kvmzone[1] = km0
        BY <2>1
      <4>2. km0.base = USER_MAX_ADDR /\ End(km0) = Brk /\ km0.protect = VM_PROT_ALL
        BY Layout DEF km0, End
      <4>3. a < Brk => ProtIn(kvmzone, a) = VM_PROT_ALL
        <5> SUFFICES ASSUME a < Brk PROVE ProtIn(kvmzone, a) = VM_PROT_ALL
          OBVIOUS
        <5>1. 1 \in 1 .. Len(kvmzone) /\ kvmzone[1].base <= a /\ a < End(kvmzone[1])
          BY <3>0, <3>3, <4>1, <4>2, Layout
        <5>2. ProtIn(kvmzone, a) = kvmzone[1].protect
          BY <2>1, <5>1, HitLemma
        <5> QED BY <4>1, <4>2, <5>2
      <4>4. ~(a < Brk) => ProtIn(kvmzone, a) = -1
        <5> SUFFICES ASSUME ~(a < Brk) PROVE ProtIn(kvmzone, a) = -1
          OBVIOUS
        <5>1. \A j \in 1 .. Len(kvmzone) : ~(kvmzone[j].base <= a /\ a < End(kvmzone[j]))
          <6>1. \A j \in 1 .. Len(kvmzone) : j = 1
            BY <4>1
          <6> QED BY <4>1, <4>2, <6>1
        <5> QED BY <2>1, <5>1, MissLemma
      <4> QED BY <3>0, <3>1, <3>3, <4>3, <4>4, Layout
    <3> QED BY <3>2, <3>3
  <2> QED BY <2>2 DEF AS!Init, AS!NoProt
<1>2. VInv /\ [Next]_vars => [AS!Next]_Seen
  <2> SUFFICES ASSUME VInv, [Next]_vars PROVE AS!Next \/ Seen' = Seen
    OBVIOUS
  <2>1. CASE UNCHANGED <<uvmzone, kvmzone>>
    <3>1. \A a \in Addr : page_prot(a)' = page_prot(a)
      BY <2>1 DEF page_prot, ListOf
    <3> QED BY <3>1 DEF Seen
  <2> QED BY <2>1, StepKinds, GotIsAlloc, LostIsLose, FreedIsFree
<1>3. VInv /\ [Next]_vars => VInv'
  BY VInvNext
<1> QED BY <1>1, <1>2, <1>3, VInvInit, PTL DEF Spec, ImplementsAddrSpace, AS!Spec, Seen
=============================================================================
