------------------------------ MODULE TaskTable ------------------------------
(***************************************************************************)
(* The preemptive task table of kernel/task.c: task_init, task_create and  *)
(* task_run as cstart (kernel/machdep.c) calls them, task_schedule as the  *)
(* IRQ vector (kernel/entry.S) calls it, and task_delete, which a task     *)
(* enters by returning from its function.                                  *)
(*                                                                         *)
(* The arrays have 256 entries and TIDs are unsigned chars, so NSLOT is    *)
(* both the size of the table and the modulus of a conversion to a TID.    *)
(* TRID = NSLOT is what task_init stores in a free entry.                  *)
(***************************************************************************)
EXTENDS Naturals, Sequences, FiniteSetsExt

CONSTANTS
    NSLOT,       \* entries of task_info and task_table (256)
    SCAN,        \* literal 17 of task_schedule: loop bound and sentinel
    MAX_rank,    \* lowest priority of the table (3)
    BootFuncs,   \* the functions cstart creates tasks for, in order
    task_idle,   \* the function task_init creates task 0 for
    cstart,      \* the thread that boots the kernel
    NoFunc,      \* the null function pointer
    MayReturn,   \* the functions that may return (none of those shipped)
    StackWords,  \* what the uninitialised TRID of task_create may hold
    WORK         \* how many register states of a thread are told apart

ASSUME SlotAssumption == /\ NSLOT \in Nat
                         /\ SCAN \in Nat /\ 2 <= SCAN /\ SCAN + 1 < NSLOT
                         /\ MAX_rank \in Nat
                         /\ WORK \in Nat \ {0}
ASSUME BootAssumption == /\ BootFuncs \in Seq(Range(BootFuncs))
                         /\ Len(BootFuncs) < NSLOT
                         /\ {NoFunc, cstart, task_idle} \cap Range(BootFuncs) = {}
                         /\ task_idle # NoFunc /\ cstart # NoFunc /\ cstart # task_idle
                         /\ MayReturn \subseteq Range(BootFuncs)
ASSUME StackAssumption == StackWords \subseteq Nat /\ StackWords # {}

VARIABLES
    task_info,    \* TID -> priority, status, function and ready ID
    task_table,   \* TID -> saved registers (struct context)
    task_global,  \* the running TID, where the vector saves its registers,
                  \* and the flag of task_lock_schedule
    cpu,          \* the registers of the running thread
    irq,          \* TRUE when the I bit of the CPSR is clear
    booted        \* how many tasks task_init and cstart have created

vars == <<task_info, task_table, task_global, cpu, irq, booted>>

Slot == 0 .. NSLOT - 1
NBOOT == Len(BootFuncs)
Func == {NoFunc, cstart, task_idle} \cup Range(BootFuncs)
Status == {"STATUS_NULL", "READY", "RUN", "WAIT", "SUSPEND", "DEAD"}

\* The steps of task_delete, each named for what it clears next.
DeletePc == {"TRID", "rank", "status", "task_func", "context"}

\* A context: whose code it executes, where in that code, and the rest of the
\* registers as a number.  "stray" is the return from task_delete.
Context == [fn : Func, pc : {"null", "body", "stray"} \cup DeletePc, work : 0 .. WORK - 1]
ZeroContext == [fn |-> NoFunc, pc |-> "null", work |-> 0]
FreshContext(f) == [fn |-> f, pc |-> "body", work |-> 0]

FreeEntry == [rank |-> 0, status |-> "STATUS_NULL", task_func |-> NoFunc, TRID |-> NSLOT]
BssEntry == [rank |-> 0, status |-> "STATUS_NULL", task_func |-> NoFunc, TRID |-> 0]

\* The types, with the ready IDs that may be in the table.
Types(trids) ==
    /\ task_info \in [Slot -> [rank : 0 .. MAX_rank + 1, status : Status,
                               task_func : Func, TRID : trids]]
    /\ task_table \in [Slot -> Context]
    /\ task_global \in [tid : Slot, kstack : 0 .. NSLOT, schedule_lock : BOOLEAN]
    /\ cpu \in Context
    /\ irq \in BOOLEAN
    /\ booted \in 0 .. NBOOT + 1

TypeOK == Types(0 .. NSLOT)
-----------------------------------------------------------------------------
(* The functions of task.c, as operators on the arrays they work on.       *)

\* A TID is the low byte of what is assigned to it.
AsTID(x) == x % NSLOT

\* The first free entry, or 0, which is also a TID, when there is none.
LastWhenFull(info) ==
    LET free == {s \in Slot : info[s] = FreeEntry}
    IN  IF free = {} THEN NSLOT - 1 ELSE Min(free)
task_get_id(info) ==
    LET free == {s \in Slot : info[s] = FreeEntry}
    IN  IF free = {} THEN 0 ELSE Min(free)

\* The entry task_create copies from its stack: TRID is never assigned.
CreatedEntry(rank, f, w) == [rank |-> rank, status |-> "DEAD", task_func |-> f, TRID |-> w]

RankAccepted(rank) == rank <= MAX_rank + 1

\* What task_run(tid) leaves in task_info.
RunStatusOnly(info, tid) == [info EXCEPT ![tid].status = "READY"]
task_run(info, tid) ==
    IF info[tid].status # "DEAD" THEN info
    ELSE [info EXCEPT ![tid].TRID = tid, ![tid].status = "READY"]

\* The TID task_schedule picks: the first of the SCAN entries after the ready
\* ID of the running task whose own ready ID is not SCAN.
Candidate(info, trid, i) == info[(trid + i + 1) % NSLOT].TRID
HitsSkipFree(info, trid) == {i \in 0 .. SCAN - 1 : Candidate(info, trid, i) # NSLOT}
HitsSkipGone(info, trid) == {i \in 0 .. NSLOT - 1 : Candidate(info, trid, i) \notin {0, SCAN, NSLOT}}
Hits(info, trid) == {i \in 0 .. SCAN - 1 : Candidate(info, trid, i) # SCAN}
task_schedule(info, tid) ==
    LET trid == AsTID(info[tid].TRID)
        hits == Hits(info, trid)
    IN  IF hits = {} THEN trid ELSE AsTID(Candidate(info, trid, Min(hits)))
-----------------------------------------------------------------------------
(* Booting: everything up to Cli runs with interrupts masked.              *)

\* Memory as the loader leaves it: zeroes, and a null kstack.
Init ==
    /\ task_info = [s \in Slot |-> BssEntry]
    /\ task_table = [s \in Slot |-> ZeroContext]
    /\ task_global = [tid |-> 0, kstack |-> NSLOT, schedule_lock |-> FALSE]
    /\ cpu = FreshContext(cstart)
    /\ irq = FALSE
    /\ booted = 0

\* task_create followed by task_run of what it returned, on the arrays given.
CreateAndRun(info, table, f) ==
    LET tid == task_get_id(info)
    IN  /\ RankAccepted(MAX_rank)
        /\ \E w \in StackWords :
              task_info' = task_run([info EXCEPT ![tid] = CreatedEntry(MAX_rank, f, w)], tid)
        /\ task_table' = [table EXCEPT ![tid] = FreshContext(f)]

\* &task_table[TID], where the first interrupt will save cstart's registers.
NullKstack == NSLOT
FirstKstack == 0

TaskInit ==
    /\ booted = 0
    /\ CreateAndRun([s \in Slot |-> FreeEntry], task_table, task_idle)
    /\ task_global' = [tid |-> 0, kstack |-> FirstKstack, schedule_lock |-> FALSE]
    /\ booted' = 1
    /\ UNCHANGED <<cpu, irq>>

BootTask ==
    /\ booted \in 1 .. NBOOT
    /\ CreateAndRun(task_info, task_table, BootFuncs[booted])
    /\ booted' = booted + 1
    /\ UNCHANGED <<task_global, cpu, irq>>

\* init_arm_timer, then cli(), which clears the I bit and so enables IRQs.
Cli ==
    /\ booted = NBOOT + 1
    /\ ~irq
    /\ irq' = TRUE
    /\ UNCHANGED <<task_info, task_table, task_global, cpu, booted>>
-----------------------------------------------------------------------------
(* Running.                                                                *)

\* The I bit is all that holds an interrupt back: nothing reads schedule_lock.
IrqTakenUnlessLocked == irq /\ ~task_global.schedule_lock
IrqTaken == irq

\* The vector saves the registers before it calls task_schedule.
SaveSlotLate == task_schedule(task_info, task_global.tid)
SaveSlot == task_global.kstack

\* One interrupt: the vector saves the registers at kstack, task_schedule picks
\* a TID and moves kstack, the vector loads the registers found there.
Tick ==
    /\ IrqTaken
    /\ LET saved == [task_table EXCEPT ![SaveSlot] = cpu]
           next == task_schedule(task_info, task_global.tid)
       IN  /\ task_table' = saved
           /\ task_global' = [task_global EXCEPT !.tid = next, !.kstack = next]
           /\ cpu' = saved[next]
    /\ UNCHANGED <<task_info, irq, booted>>

\* The running thread computes.
Compute ==
    /\ irq
    /\ cpu.pc = "body"
    /\ cpu' = [cpu EXCEPT !.work = (@ + 1) % WORK]
    /\ UNCHANGED <<task_info, task_table, task_global, irq, booted>>

\* The task's function returns: lr was set to task_delete by task_create.
Return ==
    /\ irq
    /\ cpu.pc = "body"
    /\ cpu.fn \in MayReturn
    /\ cpu' = [cpu EXCEPT !.pc = "TRID"]
    /\ UNCHANGED <<task_info, task_table, task_global, irq, booted>>

\* The zeroes task_delete stores, and in which order.
ClearedForReuse(field) == FreeEntry[field]
ClearedButTRID(field) == IF field = "TRID" THEN task_global.tid ELSE BssEntry[field]
Cleared(field) == BssEntry[field]
AfterClearing == [TRID |-> "rank", rank |-> "status", status |-> "task_func", task_func |-> "context"]

\* One store of task_delete into task_info[task_global.tid].
DeleteField ==
    /\ irq
    /\ cpu.pc \in DOMAIN AfterClearing
    /\ task_info' = [task_info EXCEPT ![task_global.tid][cpu.pc] = Cleared(cpu.pc)]
    /\ cpu' = [cpu EXCEPT !.pc = AfterClearing[@]]
    /\ UNCHANGED <<task_table, task_global, irq, booted>>

\* The stores of task_delete into task_table, and its return: to task_delete
\* itself when lr still holds it, into the task's own dead frames otherwise.
DeleteContext ==
    /\ irq
    /\ cpu.pc = "context"
    /\ task_table' = [task_table EXCEPT ![task_global.tid] = ZeroContext]
    /\ \E pc \in {"TRID", "stray"} : cpu' = [cpu EXCEPT !.pc = pc]
    /\ UNCHANGED <<task_info, task_global, irq, booted>>

task_lock_schedule ==
    /\ irq
    /\ cpu.pc = "body"
    /\ task_global' = [task_global EXCEPT !.schedule_lock = TRUE]
    /\ UNCHANGED <<task_info, task_table, cpu, irq, booted>>

task_unlock_schedule ==
    /\ irq
    /\ cpu.pc = "body"
    /\ task_global' = [task_global EXCEPT !.schedule_lock = FALSE]
    /\ UNCHANGED <<task_info, task_table, cpu, irq, booted>>

task_delete == DeleteField \/ DeleteContext

Next == \/ TaskInit \/ BootTask \/ Cli
        \/ Tick \/ Compute \/ Return \/ task_delete
        \/ task_lock_schedule \/ task_unlock_schedule

Spec == Init /\ [][Next]_vars

\* cstart runs to its endless loop, and the periodic timer keeps firing.
Fairness == WF_vars(TaskInit \/ BootTask \/ Cli) /\ WF_vars(Tick)
FairSpec == Spec /\ Fairness
-----------------------------------------------------------------------------
(* What makes the table correct, and how far it goes.                      *)

\* The task of entry s can be dispatched; it has entered task_delete.
Live(s) == booted > 0 /\ task_info[s].TRID = s
Gone(s) == booted > 0 /\ s # 0 /\ task_info[s].TRID = 0

\* The registers of the thread of entry s, and the code it belongs to.
ThreadOf(s) == IF s = task_global.tid THEN cpu ELSE task_table[s]
Owner(s) == IF s = 0 THEN cstart ELSE task_info[s].task_func

\* Context switching mixes nothing up: the registers of every task that can be
\* dispatched, on the processor or in task_table, execute that task's function
\* and have not passed the store that takes the task off the ready IDs.
OwnRegisters ==
    \A s \in Slot : Live(s) =>
        /\ ThreadOf(s).fn = Owner(s)
        /\ ThreadOf(s).pc \in {"body", "TRID"}

\* task_schedule never reads status, yet it switches to READY tasks only:
\* task_delete clears TRID before it clears anything else.
DispatchOnlyReady ==
    [][task_global'.tid # task_global.tid => task_info[task_global'.tid].status = "READY"]_vars

\* The function task_init creates task 0 for never runs: the first interrupt
\* saves the registers of cstart over the context that would have started it.
IdleNeverRuns == cpu.fn # task_idle

\* The task whose TID is the sentinel of task_schedule is never dispatched.
SentinelNeverRuns == task_global.tid # SCAN

\* A TRID of 0 sends the scan back to task 0, so once a task has entered
\* task_delete no task behind it in the table is ever dispatched again.
DeadEnd == \A d \in Slot : Gone(d) => task_global.tid <= d

\* An entry, once used, is never free again for task_get_id, because
\* task_delete leaves TRID = 0 and a free entry has TRID = NSLOT.
NoSlotReuse == [][\A s \in Slot : booted > 0 /\ task_info[s] # FreeEntry
                                     => task_info'[s] # FreeEntry]_vars

\* Every task created at boot gets the processor again and again, whatever the
\* others do and whoever holds schedule_lock, unless its TID is the sentinel
\* or a task at or before its entry has entered task_delete.
RoundRobin == \A t \in 0 .. NBOOT : []<>( \/ task_global.tid = t
                                         \/ t = SCAN
                                         \/ \E d \in 1 .. t : Gone(d))

\* The table gives every task a processor of its own.
LiveTasks == {0} \cup {s \in Slot : Live(s)}
GoneTasks == {s \in Slot : Gone(s)}
Registers == [s \in Slot |-> ThreadOf(s).work]
V == INSTANCE Vcpu WITH
        Thread <- Slot, Boot <- 0, Work <- 0 .. WORK - 1, Work0 <- 0,
        owner <- task_global.tid, live <- LiveTasks, exited <- GoneTasks, work <- Registers

\* TaskTable implements Vcpu: only the running task's registers change, an
\* interrupt moves the processor without changing anybody's, always to a task
\* that is alive, and never back to one that has left.
ImplementsVcpu == V!Spec
=============================================================================
