------------------------------- MODULE Paging -------------------------------
(***************************************************************************)
(* Page tables and data aborts: init_paging of kernel/machdep.c, the MMU's *)
(* walk, the data abort vector of kernel/entry.S with its handler of       *)
(* kernel/interrupt.c, and do_page_fault of kernel/page.c over Frames.     *)
(*                                                                         *)
(* Virtual memory is in pages, the tables in entries.  do_page_fault       *)
(* touches memory itself, and an access of its own may abort as well: the  *)
(* calls of do_page_fault under way are a stack.                           *)
(***************************************************************************)
EXTENDS Frames, SequencesExt

CONSTANTS
    NL1,                \* entries of the page directory
    TSIZE,              \* entries of a page table
    EPP,                \* entries that fit in a page
    NR_KERN_PAGETABLE,
    KERNBASE,           \* in entries of the directory
    USER_MAX_ADDR,      \* in entries of the directory
    KERN_MIN_ADDR,      \* in pages
    PHYSFREE,           \* init_paging's argument, in frames
    MAPPED,             \* PAGE_ROUNDUP(physfree) >> 12
    IO_FIRST, IO_COUNT, IO_FRAME,
    VECTORS,            \* the page of 0xFFFF0000
    Protections,        \* page -> what page_prot says of it
    DEPTH               \* calls of do_page_fault the abort stack has room for

VM_PROT_ALL == 7
Page == 0 .. NL1 * TSIZE - 1
PTD_FRAMES == NL1 \div EPP
TABLES == PHYSFREE + PTD_FRAMES                     \* the frame of the first table
VECTOR_PTE == NR_KERN_PAGETABLE * TSIZE + (VECTORS % TSIZE)

ASSUME PagingAssumption ==
    /\ {NL1, TSIZE, EPP, NR_KERN_PAGETABLE, MAPPED, DEPTH} \subseteq Nat \ {0}
    /\ {KERNBASE, USER_MAX_ADDR, KERN_MIN_ADDR, PHYSFREE, IO_FIRST, IO_COUNT, IO_FRAME} \subseteq Nat
    /\ NR_KERN_PAGETABLE <= USER_MAX_ADDR /\ KERNBASE + NR_KERN_PAGETABLE <= NL1
    \* The window on the tables fills the directory entries below KERNBASE.
    /\ USER_MAX_ADDR < KERNBASE /\ (KERNBASE - USER_MAX_ADDR) * TSIZE * EPP = NL1 * TSIZE
    /\ MAPPED <= IO_FIRST /\ IO_FIRST + IO_COUNT <= NR_KERN_PAGETABLE * TSIZE
    /\ VECTORS \in Page
    /\ Protections \subseteq [Page -> -1 .. 7]
    \* Before init_vmspace there are no zones; from then on the kernel's covers the window.
    /\ \A p \in Protections : \/ \A q \in Page : p[q] = -1
                              \/ \A q \in USER_MAX_ADDR * TSIZE .. KERNBASE * TSIZE - 1 : p[q] = VM_PROT_ALL

NONE == -1

VARIABLES
    pgdir,    \* directory entry -> number of its page table, or NONE
    pte,      \* entry of the tables, and of the words behind them -> frame, or NONE
    prot,     \* page -> the protect of its zone, -1 if it has none
    aborts    \* the calls of do_page_fault under way

pvars == <<pgdir, pte, prot, aborts>>
vars == <<pmzone, held, pgdir, pte, prot, aborts>>
-----------------------------------------------------------------------------
(* init_paging.                                                            *)

Directory == [i \in 0 .. NL1 - 1 |->
                IF i < NR_KERN_PAGETABLE THEN i
                ELSE IF i - KERNBASE \in 0 .. NR_KERN_PAGETABLE - 1 THEN i - KERNBASE
                ELSE NONE]

\* The identity mapping, the devices, and one entry behind the last table.
Entries == [k \in 0 .. (NR_KERN_PAGETABLE + 1) * TSIZE - 1 |->
              IF k = VECTOR_PTE THEN 0
              ELSE IF k \in IO_FIRST .. IO_FIRST + IO_COUNT - 1 THEN IO_FRAME + k - IO_FIRST
              ELSE IF k < MAPPED THEN k
              ELSE NONE]

Init == /\ FrameInit
        /\ pgdir = Directory
        /\ pte = Entries
        /\ prot \in Protections
        /\ aborts = <<>>
-----------------------------------------------------------------------------
(* The MMU.                                                                *)

TableOf(p) == pgdir[p \div TSIZE]
EntryOf(p) == pte[TableOf(p) * TSIZE + (p % TSIZE)]
Walk(p) == IF TableOf(p) = NONE THEN "section"
           ELSE IF EntryOf(p) = NONE THEN "page"
           ELSE "ok"
-----------------------------------------------------------------------------
(* The data abort.                                                         *)

\* common_Dabt_handler: 0x805 is a write that found no table; every other code
\* is passed on as VM_PROT_READ, which do_page_fault takes for PTE_V.
TakenForInvalid(p, write) == write /\ Walk(p) = "section"

\* vtopte: the page that has p's entry, seen through the window at PT.
PteAtPTD(p) == KERN_MIN_ADDR + (p \div EPP)
vtopte(p) == USER_MAX_ADDR * TSIZE + (p \div EPP)

\* do_page_fault refuses an address without a zone or without any right, and
\* what it takes for a violation of protection.
Refused(p, write) == prot[p] \in {-1, 0} \/ ~TakenForInvalid(p, write)

\* An access to p aborts, with the calls in below under way.  The vector returns
\* behind the instruction that aborted, whatever do_page_fault returned.
Abort(p, write, below) ==
    \/ /\ Refused(p, write)
       /\ aborts' = below
       /\ UNCHANGED pmzone
    \/ /\ ~Refused(p, write)
       /\ pmzone' = Taken(1)
       /\ IF Answer(1) = BITMAP_ERROR THEN aborts' = below
          ELSE /\ Len(below) < DEPTH
               /\ aborts' = Append(below, [page |-> p, frame |-> Answer(1) \div PAGE_SIZE])

\* A task touches a page that is not mapped.
Access(p, write) ==
    /\ aborts = <<>> /\ Walk(p) # "ok"
    /\ Abort(p, write, <<>>)
    /\ UNCHANGED <<held, pgdir, pte, prot>>

\* *vtopte(vaddr) = paddr|x, in the call on top.  If its address is mapped, the
\* word there is a table entry if it leads to the tables, memset clears the page
\* and the call returns; if not, the store aborts.
StorePte ==
    LET call == Last(aborts)
        w == vtopte(call.page)
        k == (EntryOf(w) - TABLES) * EPP + (call.page % EPP)
    IN  /\ aborts # <<>>
        /\ IF Walk(w) = "ok"
           THEN /\ pte' = IF k \in DOMAIN pte THEN [pte EXCEPT ![k] = call.frame] ELSE pte
                /\ aborts' = Front(aborts)
                /\ UNCHANGED pmzone
           ELSE Abort(w, TRUE, aborts) /\ UNCHANGED pte
        /\ UNCHANGED <<held, pgdir, prot>>

Next == \/ \E p \in Page, write \in BOOLEAN : Access(p, write)
        \/ StorePte
        \/ aborts = <<>> /\ FrameNext /\ UNCHANGED pvars

Spec == Init /\ [][Next]_vars
-----------------------------------------------------------------------------
TypeOK ==
    /\ pgdir \in [0 .. NL1 - 1 -> 0 .. NR_KERN_PAGETABLE - 1 \cup {NONE}]
    /\ pte \in [0 .. (NR_KERN_PAGETABLE + 1) * TSIZE - 1 -> Nat \cup {NONE}]
    /\ prot \in Protections
    /\ aborts \in Seq([page : Page, frame : Nat])

\* No data abort ever maps a page: the tables stay as init_paging left them.
TablesStay == [][pgdir' = pgdir /\ pte' = pte]_vars

\* A fault that do_page_fault sets out to resolve is never returned from: the
\* store to the page's entry aborts in its turn, and so on until the stack ends.
NoReturn == [][Len(aborts') >= Len(aborts)]_vars

\* What frame_alloc returns lies in its zone, or behind it by less than the size
\* of the zone's own bitmap, whose pages were counted as frames.
BehindByBitmap ==
    /\ TypeOK
    /\ \A n \in Counts : Answer(n) # BITMAP_ERROR =>
          \E z \in DOMAIN pmzone :
              /\ Answer(n) >= pmzone[z].base
              /\ Answer(n) + n * PAGE_SIZE <=
                   pmzone[z].base + pmzone[z].limit + PAGE_ROUNDUP(bitmap_buf_size(pmzone[z].bit_cnt))

\* As built, no sequence of allocations, frees and faults changes which frames
\* the next request gets.
SameAnswer == [][\A n \in Counts : Answer(n)' = Answer(n)]_vars
=============================================================================
