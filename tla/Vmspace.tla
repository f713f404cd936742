------------------------------- MODULE Vmspace -------------------------------
(***************************************************************************)
(* The zones of kernel/page.c: which virtual addresses are allocated, and  *)
(* with which protection.  A list of zones for user space and one for      *)
(* kernel space, both linked in the order of their addresses; the kernel's *)
(* begins with km0, the kernel image.                                      *)
(*                                                                         *)
(* uint32_t arithmetic wraps at ASIZE.  The functions are called one at a  *)
(* time; save_flags_cli is commented out in all of them.                   *)
(***************************************************************************)
EXTENDS Integers, SequencesExt

CONSTANTS
    ASIZE,            \* 2^32
    PAGE_SIZE,
    USER_MIN_ADDR, USER_MAX_ADDR, KERN_MAX_ADDR,
    Brk,              \* the end of the kernel image, argument of init_vmspace
    VM_PROT_ALL,
    Prots,            \* protections callers ask for
    PageCounts,       \* values of npages
    Vas               \* addresses callers pass

ASSUME AddrAssumption ==
    /\ {ASIZE, PAGE_SIZE, USER_MIN_ADDR, USER_MAX_ADDR, KERN_MAX_ADDR, Brk} \subseteq Nat \ {0}
    /\ USER_MIN_ADDR < USER_MAX_ADDR /\ USER_MAX_ADDR < Brk
    /\ Brk <= KERN_MAX_ADDR /\ KERN_MAX_ADDR < ASIZE
    /\ \A a \in {ASIZE, USER_MIN_ADDR, USER_MAX_ADDR, KERN_MAX_ADDR, Brk} : a % PAGE_SIZE = 0
    /\ PageCounts \subseteq Int /\ Prots \subseteq Nat /\ VM_PROT_ALL \in Nat
    /\ Vas \subseteq 0 .. ASIZE - 1

VARIABLES
    uvmzone,   \* the zones of user space, in list order
    kvmzone,   \* the zones of kernel space, km0 first
    ret        \* what the last call was asked and whether it succeeded

vars == <<uvmzone, kvmzone, ret>>

Addr == 0 .. ASIZE - 1
Wrap(x) == x % ASIZE
SizeOf(npages) == Wrap(npages * PAGE_SIZE)

\* Addresses and sizes of whole pages.
Aligned(x) == x % PAGE_SIZE = 0
PageAddr == {a \in Addr : Aligned(a)}

Zone == [base : PageAddr, limit : PageAddr, protect : Prots \cup {VM_PROT_ALL}]
EndOf(z) == Wrap(z.base + z.limit)
Inside(va, z) == va >= z.base /\ va < EndOf(z)

km0 == [base |-> USER_MAX_ADDR, limit |-> Brk - USER_MAX_ADDR, protect |-> VM_PROT_ALL]

Failed == [va |-> 0, npages |-> 0, prot |-> 0, ok |-> FALSE]
Allocated(va, npages, prot) == [va |-> va, npages |-> npages, prot |-> prot, ok |-> TRUE]

TypeOK == /\ uvmzone \in Seq(Zone)
          /\ kvmzone \in Seq(Zone)
          /\ ret \in [va : Addr, npages : PageCounts \cup {0}, prot : Prots \cup {0}, ok : BOOLEAN]

Init == /\ uvmzone = <<>>
        /\ kvmzone = <<km0>>
        /\ ret = Failed

ListOf(va) == IF va < USER_MAX_ADDR THEN uvmzone ELSE kvmzone

\* The protection of the first zone that has va, -1 if none has.
page_prot(va) ==
    LET L == ListOf(va)
        hits == {i \in DOMAIN L : Inside(va, L[i])}
    IN  IF hits = {} THEN -1 ELSE L[Min(hits)].protect
-----------------------------------------------------------------------------
\* Linking a zone in before the i-th of L.  Without memory for it the link that
\* should have led to it becomes NULL, and the list ends there.
Link(L, i, z, got) == IF got THEN InsertAt(L, i, z) ELSE SubSeq(L, 1, i - 1)

SetList(user, L) == IF user THEN uvmzone' = L /\ UNCHANGED kvmzone
                            ELSE kvmzone' = L /\ UNCHANGED uvmzone

Fail == ret' = Failed /\ UNCHANGED <<uvmzone, kvmzone>>

InBoundsNoBoundary(va, size) ==
    va >= USER_MIN_ADDR /\ va < KERN_MAX_ADDR /\ Wrap(va + size) <= KERN_MAX_ADDR

\* The checks on va and va + size, the boundary of user space included.
InBounds(va, size) ==
    /\ va >= USER_MIN_ADDR /\ va < KERN_MAX_ADDR
    /\ Wrap(va + size) <= KERN_MAX_ADDR
    /\ va < USER_MAX_ADDR => Wrap(va + size) <= USER_MAX_ADDR

\* Where the search for va stops: at the zone that has va or starts after it.
StopAt(L, va) == Min({i \in DOMAIN L : Inside(va, L[i]) \/ va < L[i].base} \cup {Len(L) + 1})
FreeAt(L, va, size) == LET i == StopAt(L, va)
                       IN  i > Len(L) \/ (~Inside(va, L[i]) /\ Wrap(va + size) <= L[i].base)

ValidVa(va) == Aligned(va)

page_alloc_in_addr(va, npages, prot) ==
    LET size == SizeOf(npages)
        L == ListOf(va)
    IN  IF npages > 0 /\ ValidVa(va) /\ InBounds(va, size) /\ FreeAt(L, va, size)
        THEN \E got \in BOOLEAN :
                /\ SetList(va < USER_MAX_ADDR,
                           Link(L, StopAt(L, va), [base |-> va, limit |-> size, protect |-> prot], got))
                /\ ret' = Allocated(va, npages, prot)
        ELSE Fail

\* The zone after which page_alloc stops: the first with room before the next.
GapAfterLast(L, size) == Len(L)
GapAfter(L, size) == Min({i \in DOMAIN L : i = Len(L) \/ Wrap(EndOf(L[i]) + size) <= L[i + 1].base})
AllocVa(L, size) == IF L = <<>> THEN USER_MIN_ADDR ELSE EndOf(L[GapAfter(L, size)])
AllocPos(L, size) == IF L = <<>> THEN 1 ELSE GapAfter(L, size) + 1
Limit(user) == IF user THEN USER_MAX_ADDR ELSE KERN_MAX_ADDR
HasRoom(user, va, size) == va < Limit(user) /\ Wrap(va + size) <= Limit(user)

page_alloc(npages, prot, user) ==
    LET size == SizeOf(npages)
        L == IF user THEN uvmzone ELSE kvmzone
        va == AllocVa(L, size)
    IN  IF npages > 0 /\ HasRoom(user, va, size)
        THEN \E got \in BOOLEAN :
                /\ SetList(user, Link(L, AllocPos(L, size), [base |-> va, limit |-> size, protect |-> prot], got))
                /\ ret' = Allocated(va, npages, prot)
        ELSE Fail

\* The zone page_free removes: same base, same size, and not km0.
MatchesBase(z, va, npages) == z.base = va /\ npages > 0
Matches(z, va, npages) == z.base = va /\ z.limit = SizeOf(npages) /\ npages > 0 /\ va # USER_MAX_ADDR

page_free(va, npages) ==
    LET L == ListOf(va)
        hits == {i \in DOMAIN L : Matches(L[i], va, npages)}
    IN  IF hits # {}
        THEN SetList(va < USER_MAX_ADDR, RemoveAt(L, Min(hits))) /\ ret' = Failed
        ELSE Fail

Next == \E npages \in PageCounts :
            \/ \E va \in Vas, prot \in Prots : page_alloc_in_addr(va, npages, prot)
            \/ \E user \in BOOLEAN, prot \in Prots : page_alloc(npages, prot, user)
            \/ \E va \in Vas : page_free(va, npages)

Spec == Init /\ [][Next]_vars
-----------------------------------------------------------------------------
\* Each list is in the order of its addresses, no two zones share one, and no
\* zone leaves its half of the address space.
Ordered(L, low, high) ==
    /\ \A i \in DOMAIN L : /\ L[i].limit > 0
                           /\ low <= L[i].base /\ L[i].base + L[i].limit <= high
    /\ \A i \in 1 .. Len(L) - 1 : L[i].base + L[i].limit <= L[i + 1].base
ZonesOrdered == /\ TypeOK
                /\ Ordered(uvmzone, USER_MIN_ADDR, USER_MAX_ADDR)
                /\ Ordered(kvmzone, USER_MAX_ADDR, KERN_MAX_ADDR)
                /\ Head(kvmzone) = km0

\* page_alloc is first fit: the lowest address, from the end of the first zone
\* on, where the pages fit; it fails exactly when there is none.  The addresses
\* below the first zone are never considered.
Vacant(L, va, size) == \A i \in DOMAIN L : va + size <= L[i].base \/ L[i].base + L[i].limit <= va
Fitting(user, size) ==
    LET L == IF user THEN uvmzone ELSE kvmzone
        from == IF L = <<>> THEN USER_MIN_ADDR ELSE Head(L).base + Head(L).limit
    IN  {va \in from .. Limit(user) - 1 : va + size <= Limit(user) /\ Vacant(L, va, size)}
FirstFit ==
    \A user \in BOOLEAN : \A npages \in {n \in PageCounts : n > 0} :
        LET size == npages * PAGE_SIZE
            va == AllocVa(IF user THEN uvmzone ELSE kvmzone, SizeOf(npages))
        IN  IF Fitting(user, size) = {} THEN ~HasRoom(user, va, SizeOf(npages))
            ELSE HasRoom(user, va, SizeOf(npages)) /\ va = Min(Fitting(user, size))

\* The zones implement an address space in which an address is given to one
\* caller at a time, and page_prot reports exactly what was asked for.  When
\* kmalloc has no memory for a zone, whose result nobody checks, the zones behind
\* it are lost, in its half only, and never the kernel image's.
AS == INSTANCE AddrSpace WITH
        Reserved <- USER_MAX_ADDR .. Brk - 1, ReservedProt <- VM_PROT_ALL, Prot <- Prots,
        Halves <- {0 .. USER_MAX_ADDR - 1, USER_MAX_ADDR .. ASIZE - 1},
        prot <- [a \in Addr |-> page_prot(a)]
ImplementsAddrSpace == AS!Spec

\* page.c, page_alloc_in_addr: "must lie in [USER_MIN_ADDR, KERN_MAX_ADDR)".
\* A call that succeeds was asked for pages between the two.
GrantedIsInRange ==
    ret.ok => USER_MIN_ADDR <= ret.va /\ ret.va + ret.npages * PAGE_SIZE <= KERN_MAX_ADDR
=============================================================================
