---------------------------- MODULE PagingProofs ----------------------------
(***************************************************************************)
(* For every layout of the tables: no data abort maps a page, and none     *)
(* that do_page_fault sets out to resolve is returned from.  For every     *)
(* layout of memory: where the frames lie that frame_alloc returns, and    *)
(* that it never gets further.                                             *)
(***************************************************************************)
EXTENDS Paging, SequenceTheorems, WellFoundedInduction, TLAPS

\* The tables are those of init_paging, and every call under way is for a page.
PInv == /\ pgdir = Directory
        /\ pte = Entries
        /\ prot \in Protections
        /\ \E S : aborts \in Seq(S)
        /\ \A i \in 1 .. Len(aborts) : aborts[i].page \in Page

\* The entry of any page lies in the window, and the window has no table.
LEMMA WindowLemma ==
  ASSUME pgdir = Directory, NEW p \in Page
  PROVE  vtopte(p) \in Page /\ Walk(vtopte(p)) = "section"
<1> DEFINE w == vtopte(p)
           n == p \div EPP
<1>1. /\ NL1 \in Nat /\ TSIZE \in Nat \ {0} /\ EPP \in Nat \ {0} /\ NR_KERN_PAGETABLE \in Nat
      /\ KERNBASE \in Nat /\ USER_MAX_ADDR \in Nat
      /\ NR_KERN_PAGETABLE <= USER_MAX_ADDR /\ KERNBASE <= NL1 /\ USER_MAX_ADDR < KERNBASE
      /\ (KERNBASE - USER_MAX_ADDR) * TSIZE * EPP = NL1 * TSIZE
  BY PagingAssumption
<1>2. p \in Nat /\ p < NL1 * TSIZE
  BY <1>1 DEF Page
<1>3. n \in Nat /\ n * EPP <= p
  BY <1>1, <1>2
<1>4. n < (KERNBASE - USER_MAX_ADDR) * TSIZE
  <2> DEFINE m == (KERNBASE - USER_MAX_ADDR) * TSIZE
  <2>1. m \in Nat /\ n * EPP < m * EPP
    BY <1>1, <1>2, <1>3
  <2>2. ASSUME m <= n PROVE m * EPP <= n * EPP
    BY <1>1, <1>3, <2>1, <2>2
  <2> QED BY <1>3, <2>1, <2>2, <1>1
<1>5. w = USER_MAX_ADDR * TSIZE + n
  BY DEF vtopte
<1>6. /\ USER_MAX_ADDR * TSIZE <= w /\ w < KERNBASE * TSIZE /\ w \in Nat
  BY <1>1, <1>3, <1>4, <1>5
<1>7. KERNBASE * TSIZE <= NL1 * TSIZE
  BY <1>1
<1>8. w \in Page
  BY <1>1, <1>6, <1>7 DEF Page
<1>9. w \div TSIZE \in Nat /\ USER_MAX_ADDR <= w \div TSIZE /\ w \div TSIZE < KERNBASE
  BY <1>1, <1>6
<1>10. Directory[w \div TSIZE] = NONE
  BY <1>1, <1>9 DEF Directory
<1> QED
  BY <1>8, <1>10 DEF Walk, TableOf

\* What an abort does to the stack of calls.
LEMMA AbortLemma ==
  ASSUME NEW p \in Page, NEW write, NEW below, \E S : below \in Seq(S),
         \A i \in 1 .. Len(below) : below[i].page \in Page,
         Abort(p, write, below)
  PROVE  /\ \E S : aborts' \in Seq(S)
         /\ \A i \in 1 .. Len(aborts') : aborts'[i].page \in Page
         /\ Len(aborts') >= Len(below)
<1>1. CASE aborts' = below
  <2>1. Len(below) \in Nat
    OBVIOUS
  <2> QED BY <1>1, <2>1
<1>2. CASE aborts' # below
  <2> DEFINE x == [page |-> p, frame |-> Answer(1) \div PAGE_SIZE]
  <2>1. aborts' = Append(below, x)
    BY <1>2 DEF Abort
  <2>2. PICK S : below \in Seq(S)
    OBVIOUS
  <2>3. below \in Seq(S \cup {x}) /\ x \in S \cup {x}
    BY <2>2
  <2>4. aborts' \in Seq(S \cup {x}) /\ Len(aborts') = Len(below) + 1 /\ Len(below) \in Nat
    BY <2>1, <2>3
  <2>5. ASSUME NEW i \in 1 .. Len(aborts') PROVE aborts'[i].page \in Page
    <3>1. CASE i <= Len(below)
      BY <2>1, <2>3, <2>4, <3>1
    <3>2. CASE i = Len(below) + 1
      <4>1. aborts'[i] = x
        BY <2>1, <2>3, <2>4, <3>2
      <4> QED BY <4>1
    <3> QED BY <2>4, <3>1, <3>2
  <2> QED BY <2>4, <2>5
<1> QED BY <1>1, <1>2

\* The invariant holds after init_paging.
LEMMA InitLemma == Init => PInv
<1> SUFFICES ASSUME Init PROVE PInv
  OBVIOUS
<1>1. aborts = <<>> /\ pgdir = Directory /\ pte = Entries /\ prot \in Protections
  BY DEF Init
<1>2. (\E S : <<>> \in Seq(S)) /\ Len(<<>>) = 0
  OBVIOUS
<1> QED BY <1>1, <1>2 DEF PInv

\* A step keeps the invariant, leaves the tables alone and ends no call.
LEMMA StepLemma ==
  ASSUME PInv, [Next]_vars
  PROVE  PInv' /\ pgdir' = pgdir /\ pte' = pte /\ Len(aborts') >= Len(aborts)
<1> USE DEF PInv
<1>0. Len(aborts) \in Nat
  OBVIOUS
<1>1. ASSUME NEW p \in Page, NEW write \in BOOLEAN, Access(p, write)
      PROVE  PInv' /\ pgdir' = pgdir /\ pte' = pte /\ Len(aborts') >= Len(aborts)
  <2>1. /\ aborts = <<>> /\ Abort(p, write, <<>>)
        /\ pgdir' = pgdir /\ pte' = pte /\ prot' = prot
    BY <1>1 DEF Access
  <2>2. (\E S : <<>> \in Seq(S)) /\ Len(<<>>) = 0
    BY <2>1
  <2>3. /\ \E S : aborts' \in Seq(S)
        /\ \A i \in 1 .. Len(aborts') : aborts'[i].page \in Page
        /\ Len(aborts') >= Len(<<>>)
    BY <2>1, <2>2, AbortLemma
  <2> QED BY <2>1, <2>3
<1>2. CASE StorePte
  <2> DEFINE call == Last(aborts)
             w == vtopte(call.page)
  <2>1. aborts # <<>> /\ pgdir' = pgdir /\ prot' = prot
    BY <1>2 DEF StorePte
  <2>2. call.page \in Page
    <3>1. Len(aborts) \in 1 .. Len(aborts)
      BY <1>0, <2>1
    <3> QED BY <3>1 DEF Last
  <2>3. w \in Page /\ Walk(w) = "section"
    BY <2>2, WindowLemma
  <2>4. Abort(w, TRUE, aborts) /\ pte' = pte
    BY <1>2, <2>3 DEF StorePte
  <2>5. /\ \E S : aborts' \in Seq(S)
        /\ \A i \in 1 .. Len(aborts') : aborts'[i].page \in Page
        /\ Len(aborts') >= Len(aborts)
    BY <2>3, <2>4, AbortLemma
  <2> QED BY <2>1, <2>4, <2>5
<1>3. CASE UNCHANGED pvars
  BY <1>0, <1>3 DEF pvars
<1> QED
  BY <1>1, <1>2, <1>3 DEF Next, vars, pvars

\* common_Dabt_handler and do_page_fault never change a mapping: whichever pages
\* have zones, the tables stay those of init_paging.
THEOREM TablesStayTheorem == Spec => TablesStay
<1>1. Init => PInv
  BY InitLemma
<1>2. PInv /\ [Next]_vars => PInv' /\ [pgdir' = pgdir /\ pte' = pte]_vars
  BY StepLemma
<1> QED BY <1>1, <1>2, PTL DEF Spec, TablesStay

\* A fault that do_page_fault sets out to resolve is never returned from.
THEOREM NoReturnTheorem == Spec => NoReturn
<1>1. Init => PInv
  BY InitLemma
<1>2. PInv /\ [Next]_vars => PInv' /\ [Len(aborts') >= Len(aborts)]_vars
  BY StepLemma
<1> QED BY <1>1, <1>2, PTL DEF Spec, NoReturn
-----------------------------------------------------------------------------
(* The frames.                                                             *)

\* A set of numbers that is not empty has a least one.
LEMMA LeastOf ==
  ASSUME NEW S \in SUBSET Nat, S # {}
  PROVE  Min(S) \in S /\ \A y \in S : Min(S) <= y
<1>1. PICK x \in S : \A y \in S : ~(<<y, x>> \in OpToRel(<, Nat))
  BY NatLessThanWellFounded, WFMin
<1>2. OpToRel(<, Nat) = {ss \in Nat \X Nat : ss[1] < ss[2]}
  BY Zenon DEF OpToRel
<1>3. \A y \in S : ~(<<y, x>> \in {ss \in Nat \X Nat : ss[1] < ss[2]})
  BY <1>1, <1>2, Zenon
<1>4. \A y \in S : ~(y < x)
  <2> SUFFICES ASSUME NEW y \in S, y < x PROVE FALSE
    OBVIOUS
  <2>1. <<y, x>> \in Nat \X Nat /\ <<y, x>>[1] < <<y, x>>[2]
    OBVIOUS
  <2> QED BY <1>3, <2>1, Zenon
<1>5. \A y \in S : x <= y
  BY <1>4
<1> QED BY <1>5 DEF Min

\* What bitmap_set_multiple leaves, one bit after the other: what was there.
LEMMA BitsStay ==
  ASSUME NEW bits, NEW start, NEW cnt \in Nat, NEW value
  PROVE  bitmap_set_multiple(bits, start, cnt, value) = bits
<1> DEFINE Def(f) == [k \in 0 .. cnt |-> IF k = 0 THEN bits ELSE IF value THEN f[k - 1] ELSE f[k - 1]]
           same == [k \in 0 .. cnt |-> bits]
           after == CHOOSE f : f = Def(f)
<1>1. same = Def(same)
  OBVIOUS
<1>2. after = Def(after)
  BY <1>1, Zenon
<1>3. \A k \in 0 .. cnt : after[k] = IF k = 0 THEN bits ELSE after[k - 1]
  <2> HIDE DEF after
  <2> QED BY <1>2
<1>4. bitmap_set_multiple(bits, start, cnt, value) = after[cnt]
  BY Zenon DEF bitmap_set_multiple, bitmap_mark, bitmap_reset
<1> HIDE DEF after
<1> DEFINE bad == {k \in 0 .. cnt : after[k] # bits}
<1>5. SUFFICES ASSUME after[cnt] # bits PROVE FALSE
  BY <1>4
<1>6. bad \in SUBSET Nat /\ bad # {}
  BY <1>5
<1>7. PICK x \in bad : \A y \in bad : x <= y
  BY <1>6, LeastOf
<1>8. x \in 0 .. cnt /\ after[x] # bits /\ x # 0 /\ x - 1 \in 0 .. cnt /\ after[x] = after[x - 1]
  BY <1>3, <1>7
<1>9. x - 1 \in bad /\ ~(x <= x - 1)
  BY <1>8
<1> QED BY <1>7, <1>9

\* The zones init_frame leaves: each has a bit for every page it had before its
\* bitmap took the first ones.
Zone == [base : Nat, limit : Int, bit_cnt : Int, bits : SUBSET Int]
FInv == /\ pmzone \in [DOMAIN pmzone -> Zone] /\ DOMAIN pmzone \subseteq Nat \ {0}
        /\ \A z \in DOMAIN pmzone :
              pmzone[z].bit_cnt * PAGE_SIZE <=
                 pmzone[z].limit + PAGE_ROUNDUP(bitmap_buf_size(pmzone[z].bit_cnt))

LEMMA Quotient ==
  ASSUME NEW a \in Nat, NEW d \in Nat \ {0}
  PROVE  a \div d \in Nat /\ (a \div d) * d <= a
OBVIOUS

LEMMA FrameInitLemma == FrameInit => FInv
<1> SUFFICES ASSUME NEW ram \in RamMaps, pmzone \in init_frame(ram) PROVE FInv
  BY DEF FrameInit
<1> DEFINE zones == ZonesOf(ram)
<1>0. /\ PAGE_SIZE \in Nat \ {0} /\ ROUND \in Nat \ {0} /\ BITMAP_HDR \in Nat \ {0} /\ ELEM_SIZE \in Nat \ {0}
      /\ ELEM_BITS \in Nat \ {0} /\ ram \in Seq(Nat \X Nat)
  BY FrameAssumption
<1>1. PICK upto : /\ zones = [i \in {j \in 1 .. upto : ZoneOf(ram[j]).limit # 0} |-> ZoneOf(ram[i])]
                  /\ upto = IF {i \in DOMAIN ram : ram[i][2] = ram[i][1]} = {} THEN Len(ram)
                            ELSE Min({i \in DOMAIN ram : ram[i][2] = ram[i][1]}) - 1
  BY DEF ZonesOf
<1>2. upto \in Nat /\ upto <= Len(ram)
  <2> DEFINE empty == {i \in DOMAIN ram : ram[i][2] = ram[i][1]}
  <2>1. CASE empty = {}
    BY <1>0, <1>1, <2>1
  <2>2. CASE empty # {}
    <3>1. empty \in SUBSET Nat /\ \A i \in empty : i \in 1 .. Len(ram)
      BY <1>0
    <3>2. Min(empty) \in empty
      BY <2>2, <3>1, LeastOf
    <3>3. Min(empty) \in 1 .. Len(ram) /\ upto = Min(empty) - 1
      BY <1>1, <2>2, <3>1, <3>2
    <3> QED BY <1>0, <3>3
  <2> QED BY <2>1, <2>2
<1>3. PICK f : /\ pmzone = [i \in DOMAIN zones |-> [base |-> zones[i].base, limit |-> zones[i].limit,
                                                    bit_cnt |-> zones[i].bit_cnt, bits |-> f[i]]]
               /\ \A i \in DOMAIN zones : f[i] \subseteq Readable(zones[i])
  BY DEF init_frame
<1>4. DOMAIN zones \subseteq 1 .. upto /\ \A i \in DOMAIN zones : zones[i] = ZoneOf(ram[i])
  BY <1>1
<1> HIDE DEF zones
<1>5. ASSUME NEW i \in DOMAIN zones
      PROVE  /\ zones[i].base \in Nat /\ zones[i].limit \in Int /\ zones[i].bit_cnt \in Int
             /\ zones[i].bit_cnt * PAGE_SIZE <= zones[i].limit + PAGE_ROUNDUP(bitmap_buf_size(zones[i].bit_cnt))
             /\ Readable(zones[i]) \subseteq Int
  <2>0. i \in 1 .. Len(ram) /\ i \in DOMAIN ram /\ ram[i] \in Nat \X Nat /\ ram[i][1] <= ram[i][2]
    <3>1. i \in 1 .. Len(ram)
      BY <1>0, <1>2, <1>4
    <3> QED BY <1>0, <3>1, RamAssumption
  <2>1. PICK from \in Nat, to \in Nat : ram[i] = <<from, to>> /\ from <= to
    BY <2>0
  <2>2. PICK n \in Nat : n = (to - from) \div PAGE_SIZE /\ n * PAGE_SIZE <= to - from
    <3>1. to - from \in Nat
      BY <2>1
    <3>2. (to - from) \div PAGE_SIZE \in Nat /\ ((to - from) \div PAGE_SIZE) * PAGE_SIZE <= to - from
      BY <1>0, <3>1, Quotient
    <3> QED BY <3>2, Zenon
  <2>3. PICK m \in Nat : m = bitmap_buf_size(n)
    <3>1. DIV_ROUND_UP(n, ELEM_BITS) \in Nat
      <4>1. n + ELEM_BITS - 1 \in Nat
        BY <1>0
      <4> QED BY <1>0, <4>1, Quotient DEF DIV_ROUND_UP
    <3>2. \A k \in Nat : BITMAP_HDR + ELEM_SIZE * k \in Nat
      BY <1>0
    <3> QED BY <3>1, <3>2, Zenon DEF bitmap_buf_size
  <2>4. PICK size \in Nat : size = PAGE_ROUNDUP(m)
    BY <1>0, <2>3 DEF PAGE_ROUNDUP
  <2>5. zones[i] = [base |-> from + size, limit |-> to - from - size, bit_cnt |-> n]
    BY <1>4, <2>1, <2>2, <2>3, <2>4 DEF ZoneOf
  <2>6. Readable(zones[i]) \subseteq Int
    BY DEF Readable
  <2> QED BY <2>1, <2>2, <2>3, <2>4, <2>5, <2>6
<1>6. pmzone \in [DOMAIN zones -> Zone]
  <2> SUFFICES ASSUME NEW i \in DOMAIN zones PROVE pmzone[i] \in Zone
    BY <1>3
  <2>1. pmzone[i] = [base |-> zones[i].base, limit |-> zones[i].limit, bit_cnt |-> zones[i].bit_cnt, bits |-> f[i]]
    BY <1>3
  <2>2. f[i] \in SUBSET Int
    BY <1>3, <1>5
  <2> QED BY <1>5, <2>1, <2>2 DEF Zone
<1> QED BY <1>2, <1>3, <1>4, <1>5, <1>6 DEF FInv

\* Setting the bits of a run leaves the zones as they are.
LEMMA SetBitsSame ==
  ASSUME FInv, NEW z \in DOMAIN pmzone, NEW idx, NEW n \in Nat, NEW value
  PROVE  SetBits(z, idx, n, value) = pmzone
<1>1. bitmap_set_multiple(pmzone[z].bits, idx, n, value) = pmzone[z].bits
  BY BitsStay
<1>2. SetBits(z, idx, n, value) = [pmzone EXCEPT ![z].bits = pmzone[z].bits]
  BY <1>1, Zenon DEF SetBits
<1> QED BY <1>2 DEF FInv, Zone

\* frame_alloc takes the first clear run of the first zone that has one.
LEMMA ChoiceLemma ==
  ASSUME FInv, NEW n \in Nat \ {0}
  PROVE  /\ Choice(n).zone # 0 => /\ Choice(n).zone \in DOMAIN pmzone
                                  /\ Choice(n).idx \in Nat
                                  /\ Choice(n).idx + n <= pmzone[Choice(n).zone].bit_cnt
         /\ Choice(n).zone = 0 \/ Answer(n) \in Nat
<1> DEFINE zs == {z \in DOMAIN pmzone : bitmap_scan(pmzone[z], n) # BITMAP_ERROR}
<1>0. PAGE_SIZE \in Nat \ {0}
  BY FrameAssumption
<1>1. CASE zs = {}
  BY <1>1 DEF Choice
<1>2. CASE zs # {}
  <2>1. zs \in SUBSET Nat /\ 0 \notin zs
    BY DEF FInv
  <2>2. PICK z \in zs : z = Min(zs)
    BY <1>2, <2>1, LeastOf
  <2>3. Choice(n) = [zone |-> z, idx |-> bitmap_scan(pmzone[z], n)]
    BY <1>2, <2>2 DEF Choice
  <2>4. z \in DOMAIN pmzone /\ pmzone[z] \in Zone /\ z # 0
    BY <2>1, <2>2 DEF FInv
  <2> DEFINE runs == Runs(pmzone[z], n)
  <2>5. runs # {} /\ bitmap_scan(pmzone[z], n) = Min(runs)
    BY <2>2 DEF bitmap_scan
  <2>6. runs \in SUBSET Nat /\ \A i \in runs : i + n <= pmzone[z].bit_cnt
    BY <2>4 DEF Runs, Zone
  <2>7. Min(runs) \in runs
    BY <2>5, <2>6, LeastOf
  <2>8. PICK i \in Nat : i = bitmap_scan(pmzone[z], n) /\ i + n <= pmzone[z].bit_cnt
    BY <2>5, <2>6, <2>7
  <2>9. Answer(n) = pmzone[z].base + i * PAGE_SIZE
    BY <2>3, <2>4, <2>8 DEF Answer, Frame
  <2>10. Answer(n) \in Nat
    BY <1>0, <2>4, <2>8, <2>9 DEF Zone
  <2> QED BY <2>3, <2>4, <2>8, <2>10
<1> QED BY <1>1, <1>2

\* No call changes a zone.
LEMMA ZonesStay ==
  ASSUME FInv, [Next]_vars
  PROVE  pmzone' = pmzone
<1>0. Counts \subseteq Nat \ {0}
  BY FrameAssumption
<1>1. ASSUME NEW n \in Nat \ {0} PROVE Taken(n) = pmzone
  <2>1. CASE Choice(n).zone = 0
    BY <2>1 DEF Taken
  <2>2. CASE Choice(n).zone # 0
    <3>1. Choice(n).zone \in DOMAIN pmzone
      BY <2>2, ChoiceLemma
    <3> QED BY <2>2, <3>1, SetBitsSame DEF Taken
  <2> QED BY <2>1, <2>2
<1>2. ASSUME NEW p, NEW write, NEW below, Abort(p, write, below) PROVE pmzone' = pmzone
  BY <1>1, <1>2 DEF Abort
<1>3. ASSUME NEW c \in Callers, NEW n \in Counts, frame_alloc(c, n) PROVE pmzone' = pmzone
  BY <1>0, <1>1, <1>3 DEF frame_alloc
<1>4. ASSUME NEW c \in Callers, NEW n \in Counts, NEW pa, frame_alloc_in_addr(c, pa, n) PROVE pmzone' = pmzone
  <2> DEFINE zs == {z \in DOMAIN pmzone : InZone(z, pa) /\ bitmap_none(pmzone[z].bits, IndexOf(z, pa), n)}
  <2>1. CASE zs = {}
    BY <1>4, <2>1 DEF frame_alloc_in_addr, fvars
  <2>2. CASE zs # {}
    <3>1. zs \in SUBSET Nat
      BY DEF FInv
    <3>2. PICK z \in zs : z = Min(zs)
      BY <2>2, <3>1, LeastOf
    <3>3. pmzone' = SetBits(z, IndexOf(z, pa), n, TRUE)
      BY <1>4, <2>2, <3>2 DEF frame_alloc_in_addr
    <3> QED BY <1>0, <3>2, <3>3, SetBitsSame
  <2> QED BY <2>1, <2>2
<1>5. ASSUME NEW c \in Callers, NEW n \in Counts, NEW pa, frame_free(c, pa, n) PROVE pmzone' = pmzone
  <2> DEFINE zs == {z \in DOMAIN pmzone : InZone(z, pa)}
  <2>1. CASE zs = {}
    BY <1>5, <2>1 DEF frame_free
  <2>2. CASE zs # {}
    <3>1. zs \in SUBSET Nat
      BY DEF FInv
    <3>2. PICK z \in zs : z = Min(zs)
      BY <2>2, <3>1, LeastOf
    <3>3. pmzone' = SetBits(z, IndexOf(z, pa), n, FALSE)
      BY <1>5, <2>2, <3>2 DEF frame_free
    <3> QED BY <1>0, <3>2, <3>3, SetBitsSame
  <2> QED BY <2>1, <2>2
<1>6. CASE FrameNext
  BY <1>3, <1>4, <1>5, <1>6 DEF FrameNext
<1>7. ASSUME NEW p \in Page, NEW write \in BOOLEAN, Access(p, write) PROVE pmzone' = pmzone
  BY <1>2, <1>7 DEF Access
<1>8. CASE StorePte
  BY <1>2, <1>8 DEF StorePte
<1> QED BY <1>6, <1>7, <1>8 DEF Next, vars

\* As built, no sequence of allocations, frees and faults changes which frames
\* the next call of frame_alloc returns: the bits are never set.
THEOREM SameAnswerTheorem == Spec => SameAnswer
<1>1. Init => FInv
  BY FrameInitLemma DEF Init
<1>2. FInv /\ [Next]_vars => FInv' /\ [\A n \in Counts : Answer(n)' = Answer(n)]_vars
  <2> SUFFICES ASSUME FInv, [Next]_vars PROVE FInv' /\ \A n \in Counts : Answer(n)' = Answer(n)
    OBVIOUS
  <2>1. pmzone' = pmzone
    BY ZonesStay
  <2>2. FInv'
    BY <2>1 DEF FInv
  <2>3. ASSUME NEW n \in Counts PROVE Answer(n)' = Answer(n)
    BY <2>1, Zenon DEF Answer, Choice, Frame
  <2> QED BY <2>2, <2>3
<1> QED BY <1>1, <1>2, PTL DEF Spec, SameAnswer

\* What the calls of do_page_fault under way hold.
Underway == \A i \in 1 .. Len(aborts) : aborts[i] \in [page : Page, frame : Nat]

LEMMA UnderwayInit == Init => Underway
<1> SUFFICES ASSUME Init PROVE Underway
  OBVIOUS
<1>1. aborts = <<>> /\ Len(<<>>) = 0
  BY DEF Init
<1> QED BY <1>1 DEF Underway

LEMMA UnderwayStep ==
  ASSUME PInv, FInv, Underway, [Next]_vars
  PROVE  Underway'
<1>0. Len(aborts) \in Nat
  BY DEF PInv
<1>1. ASSUME NEW p \in Page, NEW write, NEW below, \E S : below \in Seq(S),
             \A i \in 1 .. Len(below) : below[i] \in [page : Page, frame : Nat], Abort(p, write, below)
      PROVE  Underway'
  <2>1. CASE aborts' = below
    BY <1>1, <2>1 DEF Underway
  <2>2. CASE aborts' # below
    <3>1. /\ aborts' = Append(below, [page |-> p, frame |-> Answer(1) \div PAGE_SIZE])
          /\ Answer(1) # BITMAP_ERROR
      BY <1>1, <2>2 DEF Abort
    <3>2. Answer(1) \in Nat
      <4>1. Choice(1).zone # 0
        BY <3>1 DEF Answer
      <4> QED BY <4>1, ChoiceLemma
    <3>3. Answer(1) \div PAGE_SIZE \in Nat
      BY <3>2, Quotient, FrameAssumption
    <3>4. PICK x \in [page : Page, frame : Nat] : aborts' = Append(below, x)
      BY <3>1, <3>3
    <3>5. PICK S : below \in Seq(S)
      BY <1>1
    <3>6. below \in Seq(S \cup {x}) /\ x \in S \cup {x}
      BY <3>5
    <3>7. ASSUME NEW i \in 1 .. Len(aborts') PROVE aborts'[i] \in [page : Page, frame : Nat]
      <4>1. Len(aborts') = Len(below) + 1 /\ Len(below) \in Nat
        BY <3>4, <3>6
      <4>2. CASE i <= Len(below)
        BY <1>1, <3>4, <3>6, <4>1, <4>2
      <4>3. CASE i = Len(below) + 1
        BY <3>4, <3>6, <4>1, <4>3
      <4> QED BY <4>1, <4>2, <4>3
    <3> QED BY <3>7 DEF Underway
  <2> QED BY <2>1, <2>2
<1>2. ASSUME NEW p \in Page, NEW write \in BOOLEAN, Access(p, write) PROVE Underway'
  <2>1. (\E S : <<>> \in Seq(S)) /\ (\A i \in 1 .. Len(<<>>) : <<>>[i] \in [page : Page, frame : Nat])
    <3>1. Len(<<>>) = 0
      OBVIOUS
    <3> QED BY <3>1
  <2> QED BY <1>1, <1>2, <2>1 DEF Access
<1>3. CASE StorePte
  <2>1. aborts # <<>> /\ Len(aborts) \in 1 .. Len(aborts)
    BY <1>0, <1>3 DEF StorePte, PInv
  <2>2. Last(aborts).page \in Page
    BY <2>1 DEF Last, PInv
  <2>3. vtopte(Last(aborts).page) \in Page /\ Walk(vtopte(Last(aborts).page)) = "section"
    BY <2>2, WindowLemma DEF PInv
  <2>4. Abort(vtopte(Last(aborts).page), TRUE, aborts)
    BY <1>3, <2>3 DEF StorePte
  <2> QED BY <1>1, <2>3, <2>4 DEF Underway, PInv
<1>4. CASE UNCHANGED aborts
  BY <1>4 DEF Underway
<1> QED BY <1>2, <1>3, <1>4 DEF Next, vars, pvars

\* The tables init_paging leaves, and the calls of do_page_fault, are well typed.
LEMMA TypeLemma == PInv /\ Underway => TypeOK
<1> SUFFICES ASSUME PInv, Underway PROVE TypeOK
  OBVIOUS
<1>1. /\ NL1 \in Nat /\ TSIZE \in Nat \ {0} /\ NR_KERN_PAGETABLE \in Nat /\ KERNBASE \in Nat
      /\ IO_FIRST \in Nat /\ IO_COUNT \in Nat /\ IO_FRAME \in Nat /\ MAPPED \in Nat
  BY PagingAssumption
<1>2. Directory \in [0 .. NL1 - 1 -> 0 .. NR_KERN_PAGETABLE - 1 \cup {NONE}]
  BY <1>1 DEF Directory
<1>3. Entries \in [0 .. (NR_KERN_PAGETABLE + 1) * TSIZE - 1 -> Nat \cup {NONE}]
  BY <1>1 DEF Entries
<1>4. aborts \in Seq([page : Page, frame : Nat])
  <2> DEFINE T == [page : Page, frame : Nat]
  <2>1. PICK n \in Nat : aborts \in [1 .. n -> T]
    <3>1. Len(aborts) \in Nat /\ aborts = [i \in 1 .. Len(aborts) |-> aborts[i]]
      BY DEF PInv
    <3>2. \A i \in 1 .. Len(aborts) : aborts[i] \in T
      BY DEF Underway
    <3> HIDE DEF T
    <3> QED BY <3>1, <3>2
  <2> HIDE DEF T
  <2>2. aborts \in Seq(T)
    BY <2>1, SeqDef
  <2> QED BY <2>2 DEF T
<1> QED BY <1>2, <1>3, <1>4 DEF PInv, TypeOK

\* What frame_alloc returns lies in its zone or behind it by less than the size
\* of the zone's bitmap: init_frame gave the bitmap a bit for each page the zone
\* had before the bitmap took the first ones.
THEOREM BehindByBitmapTheorem == Spec => []BehindByBitmap
<1>1. Init => PInv /\ FInv /\ Underway
  BY InitLemma, FrameInitLemma, UnderwayInit DEF Init
<1>2. PInv /\ FInv /\ Underway /\ [Next]_vars => (PInv /\ FInv /\ Underway)'
  <2> SUFFICES ASSUME PInv, FInv, Underway, [Next]_vars PROVE PInv' /\ FInv' /\ Underway'
    OBVIOUS
  <2>1. pmzone' = pmzone
    BY ZonesStay
  <2>2. FInv'
    BY <2>1 DEF FInv
  <2> QED BY <2>2, StepLemma, UnderwayStep
<1>3. PInv /\ FInv /\ Underway => BehindByBitmap
  <2> SUFFICES ASSUME PInv, FInv, Underway, NEW n \in Counts, Answer(n) # BITMAP_ERROR
               PROVE  \E z \in DOMAIN pmzone :
                         /\ Answer(n) >= pmzone[z].base
                         /\ Answer(n) + n * PAGE_SIZE <=
                              pmzone[z].base + pmzone[z].limit + PAGE_ROUNDUP(bitmap_buf_size(pmzone[z].bit_cnt))
    BY TypeLemma DEF BehindByBitmap
  <2>1. n \in Nat \ {0} /\ PAGE_SIZE \in Nat \ {0} /\ ROUND \in Nat \ {0}
    BY FrameAssumption
  <2>2. Choice(n).zone # 0
    BY DEF Answer
  <2>3. PICK z \in DOMAIN pmzone, i \in Nat :
           Choice(n).zone = z /\ Choice(n).idx = i /\ i + n <= pmzone[z].bit_cnt
    BY <2>1, <2>2, ChoiceLemma
  <2>4. Answer(n) = pmzone[z].base + i * PAGE_SIZE
    BY <2>2, <2>3 DEF Answer, Frame
  <2>5. /\ pmzone[z].base \in Nat /\ pmzone[z].limit \in Int /\ pmzone[z].bit_cnt \in Int
        /\ pmzone[z].bit_cnt * PAGE_SIZE <= pmzone[z].limit + PAGE_ROUNDUP(bitmap_buf_size(pmzone[z].bit_cnt))
    BY DEF FInv, Zone
  <2>6. \A b \in Nat, l \in Int, c \in Int, r \in Int :
           i + n <= c /\ c * PAGE_SIZE <= l + r
             => b + i * PAGE_SIZE >= b /\ b + i * PAGE_SIZE + n * PAGE_SIZE <= b + l + r
    BY <2>1, <2>3
  <2>7. PAGE_ROUNDUP(bitmap_buf_size(pmzone[z].bit_cnt)) \in Int
    <3>1. ELEM_BITS \in Nat \ {0} /\ BITMAP_HDR \in Nat /\ ELEM_SIZE \in Nat
      BY FrameAssumption
    <3>2. PICK k \in Int : k = DIV_ROUND_UP(pmzone[z].bit_cnt, ELEM_BITS)
      BY <2>5, <3>1 DEF DIV_ROUND_UP
    <3>3. PICK m \in Int : m = bitmap_buf_size(pmzone[z].bit_cnt)
      <4>1. BITMAP_HDR + ELEM_SIZE * k \in Int
        BY <3>1
      <4> QED BY <3>2, <4>1, Zenon DEF bitmap_buf_size
    <3>4. m + ROUND - (m % ROUND) \in Int
      BY <2>1
    <3> QED BY <3>3, <3>4, Zenon DEF PAGE_ROUNDUP
  <2> QED BY <2>3, <2>4, <2>5, <2>6, <2>7
<1> QED BY <1>1, <1>2, <1>3, PTL DEF Spec
=============================================================================
