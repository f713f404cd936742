------------------------------ MODULE IrqSwitch ------------------------------
(***************************************************************************)
(* __vector_irq of kernel/entry.S, an instruction at a time where it       *)
(* matters: which registers reach task_table, what lies just below a       *)
(* task's stack pointer, and the three instructions that still have to run *)
(* after the vector has enabled interrupts again.                          *)
(*                                                                         *)
(* TaskTable takes the vector as one step.  Here it is several:            *)
(*   Enter    save the registers, switch to SVC mode         (147-186)     *)
(*   Handle   clear the timer, common_irq_handler, schedule  (189-195)     *)
(*   Restore  reload all but r0, r1 and pc, enable IRQs      (198-222)     *)
(*   LoadR1, LoadR0, LoadPc                                  (224-227)     *)
(***************************************************************************)
EXTENDS Naturals

CONSTANT NTASK      \* tasks in the round; fewer than SCAN of TaskTable

ASSUME TaskAssumption == NTASK \in Nat \ {0}

Task == 0 .. NTASK - 1

\* A register holds what task t put there (t), the address of task_table[t]
\* (Entry(t)), or something of the kernel's.
Entry(t) == NTASK + t
Junk == 2 * NTASK
Value == 0 .. 2 * NTASK

\* The instructions after the vector has enabled interrupts, by their number.
Window == {"LoadR1", "LoadR0", "LoadPc"}
Code == {"body", "kernel"} \cup Window

VARIABLES
    pc,        \* where the processor is; "vector" and "restore" run masked
    reg,       \* r0, r1, r7 and the other registers (r2-r6, r8-r14)
    tid,       \* task_global.tid, and with it task_global.kstack
    table,     \* task_table: the same registers and the saved pc
    below,     \* the word at sp - 4 of each task
    pending    \* interrupt lines that are up

vars == <<pc, reg, tid, table, below, pending>>

TypeOK ==
    /\ pc \in {"body", "vector", "restore"} \cup Window
    /\ reg \in [r0 : Value, r1 : Value, r7 : Value, rest : Value]
    /\ tid \in Task
    /\ table \in [Task -> [r0 : Value, r1 : Value, r7 : Value, rest : Value, pc : Code]]
    /\ below \in [Task -> Code]
    /\ pending \subseteq {"timer", "aux"}

Own(t) == [r0 |-> t, r1 |-> t, r7 |-> t, rest |-> t]

\* cstart is in its loop as task 0, the others have the context of task_create.
Init ==
    /\ pc = "body"
    /\ reg = Own(0)
    /\ tid = 0
    /\ table = [t \in Task |-> [r0 |-> t, r1 |-> t, r7 |-> t, rest |-> t, pc |-> "body"]]
    /\ below = [t \in Task |-> "kernel"]
    /\ pending = {}
-----------------------------------------------------------------------------
\* The 1 Hz timer; a byte arrives at the mini UART, whose receive interrupt
\* uart_init enabled and no handler acknowledges.
TimerFires == /\ "timer" \notin pending
              /\ pending' = pending \cup {"timer"}
              /\ UNCHANGED <<pc, reg, tid, table, below>>
UartReceives == /\ "aux" \notin pending
                /\ pending' = pending \cup {"aux"}
                /\ UNCHANGED <<pc, reg, tid, table, below>>

\* The .word between the stores is an instruction to the processor: with this
\* kernel's task_global it is andgt r7, r5, r4, asr #6, before r7 is saved.
SavedR7(gt) == IF gt THEN Junk ELSE reg.r7

\* With the I bit clear an interrupt is taken before the next instruction.
Enter ==
    /\ pc \in {"body"} \cup Window
    /\ pending # {}
    /\ \E gt \in BOOLEAN :
          table' = [table EXCEPT ![tid] =
                      [r0 |-> reg.r0, r1 |-> reg.r1, r7 |-> SavedR7(gt), rest |-> reg.rest, pc |-> pc]]
    /\ pc' = "vector"
    /\ UNCHANGED <<reg, tid, below, pending>>

\* What the vector and common_irq_handler acknowledge: the timer alone.
AckAll == {}
Acknowledged == pending \ {"timer"}

\* task_schedule with NTASK tasks, all alive, and no other entry in use.
NextTask == (tid + 1) % NTASK

\* common_irq_handler pushes its return address at sp - 4 of the task that was
\* interrupted: the vector is in SVC mode, on that task's stack.
Handle ==
    /\ pc = "vector"
    /\ pending' = Acknowledged
    /\ below' = [below EXCEPT ![tid] = "kernel"]
    /\ tid' = NextTask
    /\ reg' = [r0 |-> Junk, r1 |-> Junk, r7 |-> Junk, rest |-> Junk]
    /\ pc' = "restore"
    /\ UNCHANGED table

\* The registers of the next task but r0, which holds its entry, and r1, which
\* holds its cpsr; its pc goes to sp - 4.  Writing cpsr enables interrupts.
Restore ==
    /\ pc = "restore"
    /\ reg' = [r0 |-> Entry(tid), r1 |-> Junk, r7 |-> table[tid].r7, rest |-> table[tid].rest]
    /\ below' = [below EXCEPT ![tid] = table[tid].pc]
    /\ pc' = "LoadR1"
    /\ UNCHANGED <<tid, table, pending>>

\* ldr through r0: a field of the entry it points to, if it points to one.
Fetch(field) == IF \E t \in Task : reg.r0 = Entry(t)
                THEN table[CHOOSE t \in Task : reg.r0 = Entry(t)][field]
                ELSE Junk

LoadR0First == /\ pc = "LoadR1" /\ pending = {}
               /\ reg' = [reg EXCEPT !.r0 = Fetch("r0")]
               /\ pc' = "LoadR0"
               /\ UNCHANGED <<tid, table, below, pending>>

LoadR1 == /\ pc = "LoadR1" /\ pending = {}
          /\ reg' = [reg EXCEPT !.r1 = Fetch("r1")]
          /\ pc' = "LoadR0"
          /\ UNCHANGED <<tid, table, below, pending>>

LoadR0 == /\ pc = "LoadR0" /\ pending = {}
          /\ reg' = [reg EXCEPT !.r0 = Fetch("r0")]
          /\ pc' = "LoadPc"
          /\ UNCHANGED <<tid, table, below, pending>>

\* ldr pc, [sp, #-4]
TaskCode == "body"
Parked == below[tid]

LoadPc == /\ pc = "LoadPc" /\ pending = {}
          /\ pc' = Parked
          /\ UNCHANGED <<reg, tid, table, below, pending>>

Next == \/ TimerFires \/ UartReceives
        \/ Enter \/ Handle \/ Restore
        \/ LoadR1 \/ LoadR0 \/ LoadPc

Spec == Init /\ [][Next]_vars

\* The processor executes: interrupts that stay pending are taken, the vector
\* runs to its end.  Neither the timer nor the UART need ever fire.
Fairness == WF_vars(Enter) /\ WF_vars(Handle) /\ WF_vars(Restore)
FairSpec == Spec /\ Fairness
-----------------------------------------------------------------------------
\* t was interrupted between the store of its pc at sp - 4 and the load of it.
Caught(t) == table[t].pc \in Window

\* A task that is back in its own code has its own registers: everything the
\* vector saves comes back, r7 apart.
BodyIsExact == pc = "body" => reg.r0 = tid /\ reg.r1 = tid /\ reg.rest = tid

\* A task interrupted in the window never executes its own code again: its pc
\* was in the word common_irq_handler pushed over, and what the vector saved
\* for it is an address of the vector.
WindowIsFatal ==
    [][\A t \in Task : Caught(t) => Caught(t)' /\ ~(tid' = t /\ pc' = "body")]_vars

\* One received byte keeps the interrupt line up for good, so that every task
\* is interrupted in the window the next time it is resumed.
StormEndsAll == ("aux" \in pending) ~> (\A t \in Task : Caught(t))
=============================================================================
