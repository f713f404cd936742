# Verification of EPOS-ARM

TLA+ models of the EPOS kernel for ARM (Raspberry Pi), model-checked with TLC
on small instances and, for every property but liveness, proved with TLAPS for
every value of the constants.

## 1. The system

What runs on the machine is small. `entry.S` sets up the vectors and calls
`cstart` (`machdep.c`), which builds the page tables, initialises the UART,
creates four tasks in a static table, starts a 1 Hz timer, enables interrupts
and loops. From then on the timer interrupt switches from task to task. Around
that core the source holds the subsystems of the x86 kernel it was ported
from (threads, address zones, frames, heap, sleeping): compiled and linked,
with their interrupt masking commented out, but started only by `mi_startup`,
which the endless loop of `cstart` keeps from being reached.

| component | state | operations | interacts with |
|---|---|---|---|
| task table (`task.c` 32-188) | `task_info[256]` (rank, status, function, ready ID `TRID`), `task_table[256]` (saved registers), `task_global` (running TID, `kstack`, `schedule_lock`) | `task_init`, `task_create`, `task_run`, `task_schedule`, `task_delete`, `task_(un)lock_schedule` | called by `cstart`, by tasks, and by the vector |
| IRQ vector (`entry.S` 147-227) | the processor's registers and I bit, the word below each task's stack pointer | save, handle, schedule, restore | reads and writes `task_table` through `task_global.kstack` |
| address zones (`page.c` 43-256) | two linked lists of zones | `page_alloc_in_addr`, `page_alloc`, `page_free`, `page_prot` | `kmalloc`; read by `do_page_fault` |
| page tables, faults (`machdep.c` 107-254, `page.c` 262-348, `interrupt.c`) | directory and tables | `init_paging`, `page_map`, `page_unmap`, `do_page_fault` | zones, frames |
| frames, bitmaps (`frame.c`, `bitmap.c`) | RAM zones, one bit per frame | `frame_alloc`, `frame_alloc_in_addr`, `frame_free` | page faults |
| heap (`kmalloc.c`, `tlsf.c`) | two-level segregated free lists | `kmalloc`, `kfree`, `krealloc` | zones, threads |
| legacy threads (`task.c` 190-477) | list of `struct tcb`, wait queues | `schedule`, `sleep_on`, `wake_up`, `sys_task_*` | heap; nothing starts them |
| timer, sleeping (`timer.c`) | `g_timer_ticks` | `sleep`, `_sleep`, `calibrate_delay` | legacy `schedule` |
| `memcpy`, `memset`, `memmove` (`lib/`) | none | copying and filling by bytes, words and groups of eight words | heap, page tables, threads |
| formatting (`lib/snprintf.c`) | the state of one call: where format, arguments and buffer have got to | `vsnprintf`, `snprintf` | `printk` |
| console (`printk.c`, `uart.c`) | a buffer on the caller's stack, the UART's FIFO | `printk`, `uart_putc` | tasks, the timer's handler, the fault handlers |
| fault vectors (`entry.S` 103-145, `interrupt.c`) | the stacks of the exception modes | save, handle, return | `sleep`, `printk`, `do_page_fault` |

What is hard here: the timer may interrupt any task between any two
instructions, `task_create` and `task_delete` included; the vector enables
interrupts before it has finished; ready IDs serve as links, marks and TIDs at
once, with 0, 17 and 256 each meaning two things; and 32-bit sums wrap. The
hazards, each at its line and with the properties aimed at it, are in
`PROJECT.json`.

What makes each part correct:

* task table: registers of different tasks never mix, only tasks that are
  ready run, every task that should run does so again and again, entries are
  not handed out twice;
* vector: an interrupted task resumes exactly where and as it was;
* zones: an address has one owner, the lists stay ordered, a request is
  granted exactly when it fits;
* page tables: what the comments say is mapped is mapped, a fault on an
  allocated page maps it and lets the access succeed (it does neither);
* frames and heap: no frame and no byte is given out twice, what is freed can
  be allocated again;
* threads: a waiter wakes when, and only when, the thread it waits for ended
  (as built it never sleeps, and takes a thread that has not ended);
* `memcpy`, `memset`, `memmove`: exactly the bytes asked for, at any alignment
  and over any overlap;
* formatting: nothing outside the buffer changes, the buffer ends in a NUL, a
  field reads back as its argument and has its width;
* console: a caller's characters come out in order, none twice and none lost;
* fault vectors: a task that faults goes on where it should, or not at all, and
  no stack is left changed;
* `sleep`: as long as asked, wherever the counter stands.

## 2. Modules

| module | models | used by |
|---|---|---|
| `TaskTable` | the task table, `cstart` from `task_init` on, the vector as one step | `MCTaskTable`, `TaskSpawn` |
| `Vcpu` | abstract: every task has a processor of its own, one of them is running | refinement of `TaskTable` |
| `TaskSpawn` | `TaskTable` plus tasks that call `task_create` and `task_run`, store by store | `MCTaskSpawn`, `TaskTableProofs` |
| `IrqSwitch` | the vector, instruction by instruction where it matters, with the timer and the UART as sources | `IrqSwitchProofs` |
| `Vmspace` | the zones of `page.c` | run directly, `VmspaceProofs` |
| `AddrSpace` | abstract: an address has at most one owner and its protection | refinement of `Vmspace` |
| `Tlsf` | the heap: `tlsf.c` behind `kmalloc.c` | run directly, `TlsfProofs` |
| `Heap` | abstract: nobody's bytes are given to another, only the block being resized moves | refinement of `Tlsf` |
| `Frames` | `init_frame`, the frame allocator and its bitmaps | `Paging` |
| `Paging` | `init_paging`, the MMU's walk, data aborts and `do_page_fault` over `Frames` | `MCPaging`, `PagingProofs` |
| `Threads` | the legacy threads, and the sleeping of `timer.c` that yields to them | run directly, `ThreadsProofs` |
| `Memops` | `memcpy`, `memset` and `memmove` | `MCMemops`, `LibProofs` |
| `Format` | `vsnprintf` and `snprintf`, a round of `dopr`'s loop at a time | `Console` |
| `Console` | `Format` plus `printk` and `uart_putc`, interrupted by others who print | `MCConsole`, `LibProofs` |
| `Faults` | the fault vectors, their handlers, and `sleep` | run directly, `FaultsProofs` |
| `TaskTableProofs`, `IrqSwitchProofs`, `VmspaceProofs`, `PagingProofs`, `TlsfProofs`, `ThreadsProofs`, `LibProofs`, `FaultsProofs` | the theorems | |

### TaskTable

`NSLOT` stands for 256, the size of both arrays and the modulus of a conversion
to `unsigned char`; `SCAN` for the literal 17 of `task_schedule`. A context is
abstracted to whose code it executes (`fn`), where in it (`pc`: in the body, at
one of the stores of `task_delete`, or astray) and the rest of the registers as
a number (`work`). `Init` is memory as the loader leaves it. `TaskInit`,
`BootTask` and `Cli` are `cstart` in order, with interrupts masked. `Tick` is
the whole vector: save at `kstack`, `task_schedule`, load from the new
`kstack`. A task computes, locks or unlocks scheduling, or returns; returning
enters `task_delete`, since `task_create` put its address in `lr`. Its five
groups of stores are separate steps, because interrupts are enabled there.
After its last store `task_delete` returns either to itself, `lr` being still
its own address, or to what its dead frames hold; both are kept.

The uninitialised `TRID` that `task_create` copies from its stack is any member
of `StackWords`.

### TaskSpawn

The locals of a call live on the caller's stack, so `frame` is a function of
the caller's entry. `Masked` says whether callers mask interrupts around a call
(`sti`/`cli` of `entry.S`: the names are the wrong way round); the code of
`task.c` does not do it for them. Entries are filled by two steps (`FillInfo`,
`FillTable`) and run by two (`RunTRID`, `RunStatus`).

### IrqSwitch

A register holds what its task put there, the address of a table entry, or a
kernel value. `Enter` saves everything; `SavedR7` accounts for the literal the
vector executes before it saves `r7`. `Handle` acknowledges the timer only and
pushes over the word at `sp - 4` of the interrupted task. `Restore` parks the
resume address there and enables interrupts; `LoadR1`, `LoadR0` and `LoadPc`
are the remaining instructions. With the I bit clear, a pending interrupt is
taken before the next instruction executes, hence the guard `pending = {}` of
the three.

### Vmspace

`Addr` is `0 .. ASIZE - 1` and all sums are taken modulo `ASIZE`. A list of zones is
the sequence of its elements; `Link` is the insertion after the last element
passed; when `kmalloc` returned NULL, which nobody checks, the list ends there
instead. `AddrSpace` therefore has, besides allocating and freeing, a step that
loses everything one half has from an address on. `ret` remembers what the
last call was asked for, for the properties only.

### Tlsf

Memory is the partial function `hdr` from header addresses to headers; a header
that is merged away leaves its domain. Free lists are sequences and bitmaps are
sets of bits, so that `EXTRACT_BLOCK` takes the block out of its list and calls
`ClearBits`. Two places say more than the line they stand for: `sl_bitmap` is
read one past its end for a size of the last level, where the processor finds
`matrix[0]`, whose first lists are always empty (`SlBits`); and `RestFree` sets
`prev_free` of the block behind, which in `malloc_ex` it already is. What
`krealloc` copies is not modelled. Each function of `tlsf.c` is an operator on
the whole heap, and the wrappers of `kmalloc.c` are the actions: interrupts are
not masked in them any more, but two calls at once are not modelled.

### Frames and Paging

`bitmap_mark` and `bitmap_reset` are the identity, as in the build, and the
bits are therefore what memory held when the bitmap was laid over it: any
subset. Bits behind `bit_cnt` are read by runs that begin near the end. A zone
keeps the index of its entry in `g_ram_zone`, where the code packs the zones
that are left; callers see addresses only.

`Paging` counts virtual memory in pages and the tables in entries. `Directory`
and `Entries` are what the loops of `init_paging` leave; `Walk` is the MMU
(external), with the domain set to manager, so that no permission is ever
checked. A data abort is `Abort`: refused by `do_page_fault`, or a further call
on the stack `aborts`, whose next step is the store through `vtopte`
(`StorePte`). That store is an access like any other. `prot` is what
`page_prot` says: nothing before `init_vmspace`, as in the kernel that runs, or
zones of every protection after it.

### Threads

A thread is the page `kmalloc` returned for its `struct tcb`. `schedule` selects
a thread and returns, the call of `switch_to` being commented out; what it can
do to its caller is not return, which `ScheduleEnds` decides by following the
links for as many steps as there are pages. Memory that has been freed is kept
as it was, except for the word that becomes a link of the free list, since
`g_task_running` may still point to it; the page may become a new thread's.
`code_exit` and the time slice are left out, and pages are given to threads
only. A `_sleep` is a state of the caller; `AfterInterrupt` is what an interrupt
does to `g_timer_ticks`: nothing, as the handler that counted is commented out.
`run_as_task0` has no use in the kernel; without it every call but
`sys_task_create` fails or follows a null pointer.

### Memops

One call at any alignment, in the steps of the code: a byte, a word, or the
eight words of the unrolled loops. A word is the sequence of its bytes, least
significant first, so that the shifts of `COPY_SHIFT` are moves of bytes.
Memory may hold anything at first (`Mem0`); in `MCMemops` every byte has a
value of its own, so that a byte in the wrong place shows. `words` records what
a step accessed as words. `memmove` goes a byte at a time, from the front or
from the back, between blocks that overlap by all but up to three bytes.

### Format

A call is a machine with the states of `dopr` (`Default`, `Flags`, `MinWidth`,
`Dot`, `MaxWidth`, `Mod`, `Conv`), each action one round of its loop, and `Done`
the end of it, wherever the format stops or the buffer is full. What a
conversion prints is an operator (`fmtint`, `fmtstr`, `fmtfp`) that gives its
characters, and `dopr_outch` takes them one after the other, as long as there is
room. `LONG`, the number of values of a `long`, is scaled down, so that the
smallest one, which has no absolute value, is an argument. A double is a number
of parts of 1/`SCALE`, which is enough for the roundings that carry. The ghost
variable `full` is everything that was to be printed, and `field` the last
conversion.

`ArgumentsMatch`, a part of `FieldsAreRight`, says that whatever takes an argument
takes the one meant for it. `FieldsAreRight` reads every number back from its
digits and compares a string character by character, padding included.
`FormatAssumption` says that numbers fit a `long` (`IsLong`), that the integral
part of a double does (`IsDouble`; `fmtfp` keeps it in one), and that `convert[20]`
has room for any `long` in any base. The exceptions that
`FieldsAreRight` names are the code's: a precision above the number of digits makes a field with the
flag 0 narrower than its width; the precision of a string limits its padding as
well; the zeros a fraction begins with come at its end, so that 0.05 is printed
as 0.500000; and a double with the flag 0 and a sign, or with the precision 0, is
one character short. `%p` is signed, `%e` and `%g` take their argument and print
nothing, a negative `*` is no flag, and `%w` drops the character behind it,
whatever it is: `FormatAssumption` excludes formats that end there.

### Console

`printk` formats, and then sends what `vsnprintf` says the length is. `uart_putc`
is two steps: `Poll` sees room in the FIFO, `Write` writes. Between them, or
anywhere, `Interrupt` takes the processor away until others (the timer's handler,
which prints, and the tasks that run meanwhile) have printed `others` characters,
more than the FIFO holds. `Transmit` is the UART (external). `SentOrLost` bounds
the loss: a character that was polled for, per interrupt.

### Faults

A task is a program of a few instructions, each harmless, a call of `sleep`, or
one that faults. `Trap` is a vector up to its `bl`, `Handler` the parts of a
handler in order, `Pop` the `ldm` that returns. Addresses are relative to the
faulting instruction: `Lr` is what the processor leaves in `r14` (external), and
4 is subtracted by every vector, which is right for none but a prefetch abort
whose page has become mapped meanwhile, and no handler maps it. The vector for
undefined instructions pushes `r15` instead of `r14`: it returns to its own `ldm`
or, on a processor that stores its address and 12, into the next vector, and in
either case to an address the task's stack happens to hold (`"wild"`).

`sleep` polls a counter of `CSIZE` values; up to `GAP` pass between two polls,
interrupts and other tasks' turns included. `FaultAssumption` says that no wait
is so long that the counter passes its end between two polls.

## 3. Runs

| run | result | shows |
|---|---|---|
| `task_table` | passes | six entries, `SCAN` = 2, four boot tasks (one with the sentinel TID), three of which may return |
| `task_spawn` | passes | four entries: the table runs full and past it; masked callers |
| `task_spawn_dead` | violation | a created task is dispatched before `task_run` |
| `irq_switch` | passes | three tasks, both interrupt sources |
| `vmspace` | passes | three user and three kernel pages, requests of 0 to 2 pages, two protections, aligned and unaligned addresses inside and outside, `kmalloc` failing at any time |
| `vmspace_wrap` | violation | a request whose end wraps is granted |
| `tlsf` | passes | a pool of 20 bytes behind its headers, requests of 0 to 17 bytes, aligned and resized |
| `paging` | passes | 32 pages, two page tables, two memory maps, any bitmap contents, reads and writes of every unmapped page |
| `memops` | passes | the three functions, four alignments of each end, lengths around every threshold up to two unrolled rounds |
| `threads` | passes | three pages, up to five threads one after the other, sleeps of zero, some and a wrapped number of ticks |
| `printk` | passes | eight sets of flags with and without width and precision, ten conversions, the smallest, the largest and other arguments, buffers of 1, 3 and 8 bytes; `printk` of six formats through a FIFO of three, interrupted twice |
| `faults` | passes | every program of three instructions of six kinds, sleeps of a negative, no, a short and a long time, every start of the counter |

Bounds. `task_table`: with `NSLOT` > `NBOOT` + 1 there are free entries behind
the last task, so the round closes over the truncation of 256; with `SCAN` = 2
one of the tasks is the sentinel; with three tasks that may return there are
deletions before, at and behind every position, and two at once. `StackWords`
holds a valid TID, a free one and a word beyond the table. `WORK` = 2 tells two
register states apart, enough to see one task's taken for another's. The
theorems remove these bounds for everything but liveness. `task_spawn`: two
boot tasks and room for one more, so that a second creation finds the table
full; the stack words include the TIDs of live, free and missing tasks and a
word that a byte cannot hold.
`irq_switch`: three tasks, so that a task other than the two being switched
exists. `vmspace`: three pages a side give gaps of zero, one and two pages
before, between and behind two zones. `tlsf`: the constants are scaled (a pointer
of one byte, four lists a level, small blocks below 8) so that requests use
three levels; 17 rounds up to the width of a list (18 to 20), 9 makes a block
that has to move when it grows, 0 frees through `krealloc`, and the pool is full
after two to four blocks. `paging`: the smallest layout in which the identity
mapping, the devices, the window and the vectors are in different directory
entries; one zone of memory ends inside a page, another is all bitmap; `DEPTH`
is 4, and since no call returns a deeper stack repeats the same step. `memops`:
lengths 0 to 15 include both thresholds (8 and 12) and their neighbours, 31 to 39
enter the unrolled loop once with and without odd words, 66 and 71 twice.
`threads`: with three pages a page is freed and given to a new thread while two
others are linked, and `g_task_running` outlives its page; `MAX_TID` bounds the
threads created. `printk`: with `LONG` = 32 a number has up to two decimal and
five bits of binary digits, below, at and above the width and the precision;
buffers of 1 and 3 are full in the middle of a field, one of 8 holds most
fields; bursts of 4 and 5 refill a FIFO of 3 that was empty, and two interrupts
(`MAX_TICKS`) can cost two characters, or hit the same one. `faults`: three
instructions put every kind before, at and behind every other; with `CSIZE` = 10
a wait of 6 wraps from half of the starts, and a gap of 3 may pass over its end.

Fairness. `TaskTable` assumes that `cstart` runs to its loop, and that an
interrupt which stays possible is eventually taken (the timer reloads itself
and the vector clears it each time). `IrqSwitch` assumes that the processor
executes the vector and takes interrupts that stay pending; it does not assume
that either source ever fires. `Memops` assumes that a call that can take a
step does; the scheduling of `TaskTable` gives every task its turns again.
`Console` assumes the same of the caller and of those who print meanwhile, and
that the UART transmits what it holds; not that anybody interrupts. `Faults`
assumes that the processor runs and that the counter counts.
Nothing is assumed about what tasks do.

Deadlock is not checked in `paging`, where a fault that nests until the abort
stack ends stops the machine, in `memops` and `printk`, where one call is made,
in `faults`, where the program ends, and in `threads`, where a `schedule` that
does not return ends everything.

What the passing properties say of the shipped kernel: `task_idle` is never
executed, the entry with TID 17 would never run, one task that returns starves
every task behind it, entries are never reused, one byte received by the
UART makes every task end in the vector's epilogue, the frame allocator gives
every caller the same frames, a thread that waits for another frees it unended,
a sleep of one tick never ends, an access that faults is skipped, a `swi` and an
instruction that cannot be fetched are taken again for ever, a task does not
survive an undefined instruction, and no data abort is ever resolved: as the
kernel stands the handler skips the access, and once zones exist it recurses.
They are stated as properties since they are what the code guarantees; each
changes when the code is repaired, and the run then says so.

Two facts are visible in the modules without a run of their own. The literal
`.word task_global` in `__vector_irq` is executed, and with the layout of
`kernel.list` it may change `r7` before it is saved (`SavedR7`; `BodyIsExact`
leaves `r7` out). And `init_paging` writes the entry for the vectors' high
address behind the last page table, where no directory entry leads
(`VECTOR_PTE`, `Directory`): 0xFFFF0000 stays unmapped.

## 4. Proofs

`TaskTableProofs` proves, for every `NSLOT`, `SCAN` (2 <= `SCAN` < `NSLOT` -
1), list of fewer than `NSLOT` boot tasks, set of returning functions and stack
words: `TypeOK`, `OwnRegisters`, `IdleNeverRuns`, `SentinelNeverRuns`,
`DeadEnd`, `DispatchOnlyReady`, `NoSlotReuse`, and that the table implements
`Vcpu`. None of them is inductive. The invariant `IInv` adds which entries are
in use (those below `booted`, in order, each with its own function), that the
ready ID of a used entry is its own TID or, once its task has entered
`task_delete`, 0, that `kstack` follows the running TID, and at which store of
`task_delete` which fields are already cleared. The argument of the dispatch
properties is `ScheduleLemma`: from a running task, `task_schedule` yields the
next used entry if it is alive and not the sentinel, the one after the
sentinel, or task 0, because whatever else it can meet (a free entry, a deleted
one) converts to 0. `DeadEnd` follows since the running TID only ever grows by
entries that are alive or falls back to 0.

`IrqSwitchProofs` proves `BodyIsExact` and `WindowIsFatal` for any number of
tasks. The invariant `IrqInv` says which registers are back at each instruction
of the window, and that throughout the window the word at `sp - 4` equals the
saved pc; `BodyIsExact` alone says nothing about the states in which it is
established.

`PagingProofs` proves `TablesStay` and `NoReturn` for every layout in which the
window lies between the low tables and `KERNBASE` and has the size its use
needs. The invariant is that the tables are those of `init_paging` and every
call on the stack is for a page of the address space; `WindowLemma` then places
the entry of any page in a directory entry that has no table, so that the store
of `StorePte` always aborts, and `AbortLemma` says that an abort never shortens
the stack. For every layout of memory it proves `SameAnswer`, from `FInv` (the
zones, once made, stay, bits included) and `BitsStay` (`bitmap_set_multiple`
leaves the bits as they are, however many it is to mark), and `BehindByBitmap`,
which needs the frames of the calls under way as well (`Underway`).

The second half of `TaskTableProofs` is about `TaskSpawn`, for callers that
mask interrupts (`Masked`; `task_spawn_dead` shows what happens to those that
do not, and the code leaves it to them). `SpawnInv` strengthens
`SpawnedRunTheirFunction` by what a call under way has stored so far
(`CallInv`), and by what each entry has in common with its thread at every
store of `task_delete` (`EntryInv`); nothing is said of ready IDs, which here
may be any word the stack held. `OnlyTaskZeroIsOverwritten` follows from the
same invariant: the scan of `task_create` returns a free entry or, when there
is none, 0.

`VmspaceProofs` proves `ZonesOrdered`, `FirstFit` and the refinement of
`AddrSpace` under the hypothesis `NoWrap`: no caller asks for so many pages
that its end wraps around the address space. The run `vmspace_wrap` shows that
without it a request that does wrap is granted. The invariant states the order
of a list for any two of its zones, and that only the first zone of the kernel
was not asked for. `FirstFit` reduces to the least zone a request fits behind;
`AllocLemma` and `FreeLemma` say what a call makes of a list; `GotZone`,
`FreedZone` and `LostZones` what that means for the owner and the protection of
each address, from which the refinement follows address by address.

`TlsfProofs` proves `BlocksTile`, `ListsMatch`, `GoodFit`, `AlignedFits` and
the refinement of `Heap`, for every pool, every number of lists and every
sequence of `kmalloc`, `aligned_kmalloc`, `krealloc` and `kfree`. The invariant
`HeldInv` has three parts. `Tile`: each header is followed by the next where
its size says, knows its neighbour, and no two free blocks are neighbours, up
to a last header of size 0 that is never free. `Listed`: a block is in one
list, the one `MAPPING_INSERT` gives for its size, exactly if it is free, and
the bitmaps have a bit for exactly the lists that are not empty. `Holds`: a
pointer that was given out belongs to a block that is in use, is aligned, and
has room. `Listed` is stated for any function from blocks to sizes, since in
the middle of a call the lists are those of another state than the headers; the
lemmas on `INSERT_BLOCK` and `EXTRACT_BLOCK` say how it moves by one block,
those on splitting and joining how `Tile` does, and `MallocIs`, `FreeIs` and
`ReallocIs` put them together in the order of the code. That both `MAPPING`
functions compute the right list (`ListOrder`, `FindIs`) is what makes a block
of the list that is found large enough, and a failure mean that no block is.

`ThreadsProofs` proves `ListIsUsed`, `LoopsOnlyAfterSelfWait`, `ReapsTheLiving`
and `SleepsForever`, for any number of pages. The properties follow `next`; the
invariant `TInv` says what `next` is without following it: the used page with
the next larger `tid` (`Linked`). Its preservation needs no induction. What a
walk from the head meets does, and the library's induction theorems cannot be
used here, so that it is taken from the least element of a set of numbers: the
first step that would miss a page. That a walk ends within as many steps as
there are pages (`NoEndlessWalk`) is a counting argument over the pages it has
met, and that `schedule` returns follows from it unless `g_task_running` is a
freed page.

`LibProofs` has three parts. The first proves `SentOrLost` for any text, any
FIFO and any number of interrupts. The invariant `CInv` numbers the characters:
those on the wire and in the FIFO are in order, none twice, and all but the lost
ones are there (`InOrder`). A write that comes next and may be lost (`AtRisk`)
has its interrupt still to its credit, which is why the bound is strict there.

The second part is about `dopr`, for every format and size of a buffer, if the
arguments are always those that the format asks for (`[]ArgumentsMatch`, which
the run `printk` checks of its calls as a part of `FieldsAreRight`, and which
no call can be spared: what a mismatched `va_arg` returns is undefined).
`BufferHoldsPrefix` follows from `BInv`, what the buffer holds in each round of
the loop; what a conversion prints matters there only in that it is a sequence of
characters (`IsText`), and `OutchStep` is the one place where they are stored.
`DoprIsBounded` says that the loop ends: each round lowers `DoprWork`, the
characters left and the states that may still come.

`FieldsAreRight` needs what a text means. `Reads` says that a text, read in base
b behind a number x, leaves the number y; it is a statement about the readings of
every prefix of the text, so that it can be joined from its parts (`ReadsJoined`)
without an induction over the text. `Part` adds the length and whether the text
has a minus sign: a sign and spaces carry x to x, n zeros in front of a number 0
to 0, and the digits of u carry 0 to u (`DigitsRead`). That one is Horner's rule:
after i digits the reading is u divided by the power of the digits left
(`HornerStep`), and there are enough digits, since a `long` is below the power
that `FormatAssumption` names (`PlaceFits`). `Value`, which the property
evaluates, is a recursive function; that it is the reading of `Reads` (`ValueIs`)
is shown at the least prefix where the two would differ. `IntegerText` then joins
the parts in each of the layouts of `fmtint`, `NumberPart` those of a double,
whose fraction may begin with zeros that `fmtfp` puts at its end, and `StringFields`
compares a string with its layout. `FieldInv` says of the last field that it was
printed by `Text` for arguments of its type.

The third part proves `ExactBytes` and `WordsAreMine` for `memcpy`, `memset`
and `memmove` on any memory, with blocks that lie in it and, for `memcpy`, do
not overlap ("No overlap check is performed"). The invariant `MemInv` says how
many bytes p of the n have been done in each loop, what the counters make of
the rest, and that memory is the old one with exactly those p bytes replaced
(`Copied`, `Filled`, `MovedDown`). While `memcpy` shifts, `SourceAt` says where
`src` is and that `srcWord` is the word the next byte lies in, which has been
read ahead; `CopyWordsIs` is the step of one or eight words in either kind of
loop, and gives the bytes of a word stored as those of the two words read.
Every word read has a byte of the source that is still to be copied (`Mine`).
For `memmove` the source is overwritten on the way, and the direction is what
makes the next byte still the old one (`MoveUpStep`, `MoveDownStep`).
`MemCallsAreBounded` says that every step of a call lowers a natural number
(`MemWork`): what is left of the loop, and of the loops behind it. A `do` loop
that was entered with 0 would raise it.

`FaultsProofs` proves `GetsPast` and `SleepsAsLong` for any program and any
width of the counter under `FaultAssumption`. `FaultInv` says at which
instruction the task and the vector are, what each stack holds there
(`InVector`, `Only`), that what has been passed can be passed (`Passed`), and
how many ticks have gone by of the wait under way (`Waits`).

Hypotheses. Besides the assumptions on the constants, which TLC evaluates on
every run, three hypotheses are named above: `Masked` and `NoWrap`, which the
constants of the runs `task_spawn` and `vmspace` satisfy, and `ArgumentsMatch`.
Of the assumptions, `FormatAssumption` bounds `LONG` by the powers of 16, 10 and 8
that a number of 32 bits has digits for, and the integral part of a double by a
`long`; `PoolAssumption` says that the pool is whole pages, that
its size is in reach of the lists, and that no request is so large that
rounding it up wraps; `RamAssumption` that no entry of `g_ram_zone` is smaller
than its own bitmap.

Only model-checked: the liveness properties (`RoundRobin`, `StormEndsAll`,
`Returns`, `CallsReturn`, `FaultsEnd`), which are beyond the prover; of `Returns`
and of the formatting in `CallsReturn` the half that is safety is proved
(`MemCallsAreBounded`, `DoprIsBounded`); that a call that has not returned can
take a step, and therefore returns under fairness, is left to TLC. And
`ArgumentsMatch`, which is a property of the calls as much as of `dopr`.

Type invariants that are part of another property (`BlocksTile`, `ListIsUsed`,
`ZonesOrdered`, `WordsAreMine`, `BehindByBitmap`, `SpawnedRunTheirFunction`)
are checked with it; those of `IrqSwitch`, `Faults` and `Console` are part of
the invariants that are proved.

## 5. Not modelled

The per-task stacks and their overflow; `uart_puts`, `HexToString` and the text
of messages; the functions of `string.c` other than `strlen` and `memmove`,
`calibrate_delay`, `add_new_area` and `calloc_ex`, and the functions of
`bitmap.c` that nobody calls (none has a caller in the kernel); `mi_startup`
(never reached); the reserved and FIQ vectors (never taken); what pages and
blocks of the heap hold; the alternative `init_paging` behind `#else`; and two
calls at once of the zones, the frames and the heap, whose masking of interrupts
is commented out but which no task calls as the kernel stands.

## 6. Plan

Every safety property of the runs is proved. What could be added is a second
caller of the zones, the frames and the heap, once tasks call them and somebody
decides how they are to be masked; the contents of pages and of blocks of the
heap, to follow the copy that `krealloc` makes through `memcpy`; and the stacks
of the tasks, whose depth the nested aborts of `Paging` already count.
