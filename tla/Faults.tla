------------------------------- MODULE Faults -------------------------------
(***************************************************************************)
(* The vectors of kernel/entry.S for what a task does wrong or asks for:   *)
(* an undefined instruction, a swi, an instruction or a word in a page     *)
(* that is not mapped.  Each vector pushes where it will return to, calls  *)
(* its handler of kernel/interrupt.c, which prints and sleeps, and pops.   *)
(*                                                                         *)
(* sleep (kernel/timer.c) polls a counter of microseconds that wraps; it   *)
(* is called by tasks as well.  Interrupts are masked in the handlers, and *)
(* FIQs always: the reserved and the FIQ vector are never taken.           *)
(*                                                                         *)
(* Addresses are relative to the instruction the task is at.               *)
(***************************************************************************)
EXTENDS Integers, Sequences, SequencesExt

CONSTANTS
    LAST,         \* the task's last instruction
    Millis,       \* the arguments of a task's own sleep, besides a negative one
    SHORT, LONG,  \* the 500 and the 5000 ms the handlers sleep for
    PERMS,        \* 1000: microseconds in a millisecond
    CSIZE,        \* 2^32, where TIMER_CL0 wraps
    GAP           \* the longest time between two polls

ASSUME FaultAssumption ==
    /\ {LAST, PERMS, CSIZE, GAP, SHORT, LONG} \subseteq Nat \ {0}
    /\ Millis \subseteq Nat
    \* No poll is so late that it misses the end of the wait: that takes 71 minutes.
    /\ \A ms \in Millis \cup {SHORT, LONG} : ms * PERMS + GAP <= CSIZE

Op == {"plain", "sleep", "undefined", "swi", "fetch", "access"}
Faulting == {"undefined", "swi", "fetch", "access"}
Mode == {"svc", "und", "abt"}

VARIABLES
    program,      \* what each of the task's instructions is
    at,           \* the one it is at
    executed,     \* the ones that have had their effect
    pc,           \* in the task, a handler, sleep, or "wild" once the task is off its code
    mode,
    stack,        \* what the vectors have pushed, per mode; svc is the task's own
    todo,         \* what the handler has yet to do
    cl0,          \* TIMER_CL0
    wait          \* the sleep: ms, current_time, the time it has really taken, and where it returns to

vars == <<program, at, executed, pc, mode, stack, todo, cl0, wait>>
Counter == 0 .. CSIZE - 1
NoWait == [ms |-> 0, current_time |-> 0, elapsed |-> 0, back |-> "task"]

Init == /\ program \in [0 .. LAST -> Op]
        /\ at = 0 /\ executed = {}
        /\ pc = "task" /\ mode = "svc" /\ stack = [m \in Mode |-> <<>>] /\ todo = <<>>
        /\ cl0 \in Counter /\ wait = NoWait
-----------------------------------------------------------------------------
(* sleep.                                                                  *)

\* It returns at once if ms is negative; if not, it reads the counter, and polls.
sleep(ms, back) ==
    IF ms < 0 THEN pc' = back /\ UNCHANGED wait
    ELSE pc' = "sleep" /\ wait' = [ms |-> ms, current_time |-> cl0, elapsed |-> 0, back |-> back]

Us == (wait.ms * PERMS) % CSIZE
BeforeDeadline(now) == now < (wait.current_time + Us) % CSIZE
NotYetEqual(now) == (now - wait.current_time) % CSIZE # Us
StillWaits(now) == (now - wait.current_time) % CSIZE < Us

\* Time is told apart up to CSIZE, which is longer than any wait.
Capped(t) == IF t <= CSIZE THEN t ELSE CSIZE + 1

\* A reading of the counter, some time after the one before it.
Poll == \E gap \in 0 .. GAP :
    LET now == (cl0 + gap) % CSIZE
    IN  /\ pc = "sleep"
        /\ cl0' = now /\ wait' = [wait EXCEPT !.elapsed = Capped(@ + gap)]
        /\ pc' = IF StillWaits(now) THEN "sleep" ELSE wait.back
        /\ UNCHANGED <<program, at, executed, mode, stack, todo>>
-----------------------------------------------------------------------------
(* The task.                                                               *)

Running(ops) == pc = "task" /\ at <= LAST /\ program[at] \in ops
Advance == at' = at + 1
Effect == executed' = executed \cup {at}

Execute ==
    /\ Running({"plain"}) /\ Advance /\ Effect
    /\ UNCHANGED <<program, pc, mode, stack, todo, cl0, wait>>

CallSleep ==
    /\ Running({"sleep"})
    /\ \E ms \in Millis \cup {-1} : sleep(ms, "called")
    /\ UNCHANGED <<program, at, executed, mode, stack, todo, cl0>>

Called ==
    /\ pc = "called" /\ pc' = "task" /\ Advance /\ Effect
    /\ UNCHANGED <<program, mode, stack, todo, cl0, wait>>
-----------------------------------------------------------------------------
(* The vectors.                                                            *)

\* Three places that are not the task's: the ldm at the end of the vector, the
\* vector behind it, and wherever the task's own lr says.
LDM == 1000
SWI_VECTOR == 1004
NOWHERE == 2000

ModeOf(op) == CASE op = "undefined" -> "und" [] op = "swi" -> "svc" [] OTHER -> "abt"

\* What the processor leaves in r14 of the new mode.
Lr(op) == IF op = "access" THEN 8 ELSE 4

\* Every vector subtracts 4.  The first one then pushes r15 instead of r14: its
\* own address and 8, or 12, as the processor chooses.
NotSubtracted(op) == {Lr(op)}
Pushed(op) == IF op = "undefined" THEN {LDM, SWI_VECTOR} ELSE {Lr(op) - 4}

\* do_page_fault refuses the access, since nothing has called init_vmspace.
Body(op) == CASE op \in {"undefined", "swi"} -> <<"short", "print">>
              [] op = "fetch" -> <<"print", "long">>
              [] op = "access" -> <<"print", "do_page_fault", "short">>

\* The task's instruction faults; the vector is entered, up to its bl.
Trap ==
    /\ Running(Faulting)
    /\ mode' = ModeOf(program[at])
    /\ \E ret \in Pushed(program[at]) : stack' = [stack EXCEPT ![mode'] = Append(@, ret)]
    /\ todo' = Body(program[at]) /\ pc' = "handler"
    /\ UNCHANGED <<program, at, executed, cl0, wait>>

Handler ==
    /\ pc = "handler" /\ todo # <<>>
    /\ todo' = Tail(todo)
    /\ CASE Head(todo) = "short" -> sleep(SHORT, "handler")
         [] Head(todo) = "long" -> sleep(LONG, "handler")
         [] OTHER -> UNCHANGED <<pc, wait>>
    /\ UNCHANGED <<program, at, executed, mode, stack, cl0>>

\* ldmfd r13!, {r0-r3, pc}^ at the end of a vector, back in the mode of the task.
Pop ==
    LET ret == Last(stack[mode])
        popped == [stack EXCEPT ![mode] = Front(@)]
    IN  /\ pc = "handler" /\ todo = <<>>
        /\ \/ /\ ret \in {0, 4, NOWHERE, LDM}
              /\ stack' = popped /\ mode' = "svc"
              /\ pc' = CASE ret \in {0, 4} -> "task" [] ret = NOWHERE -> "wild" [] ret = LDM -> "ldm"
              /\ IF ret = 4 THEN Advance ELSE UNCHANGED at
              /\ UNCHANGED todo
           \/ /\ ret = SWI_VECTOR
              /\ mode' = "svc"
              /\ stack' = [popped EXCEPT !["svc"] = Append(@, NOWHERE)]
              /\ pc' = "handler" /\ todo' = Body("swi")
              /\ UNCHANGED at
        /\ UNCHANGED <<program, executed, cl0, wait>>

\* The same ldm once more, now from the task's own stack.
PopTask ==
    /\ pc = "ldm" /\ pc' = "wild"
    /\ UNCHANGED <<program, at, executed, mode, stack, todo, cl0, wait>>

Next == \/ Poll \/ Execute \/ CallSleep \/ Called \/ Trap \/ Handler \/ Pop \/ PopTask

\* The processor runs, and the counter counts.
Spec == Init /\ [][Next]_vars /\ WF_vars(Next)
-----------------------------------------------------------------------------
\* A task gets past an instruction that faults only if that was an access, which
\* then has no effect: it is skipped, and not tried again.  A swi, and an
\* instruction that cannot be fetched, are met again and again.  From an undefined
\* instruction the task never comes back; every other vector leaves no stack
\* changed.
GetsPast ==
    /\ \A i \in 0 .. at - 1 :
          /\ program[i] \in {"plain", "sleep", "access"}
          /\ i \in executed <=> program[i] # "access"
    /\ pc = "wild" => program[at] = "undefined"
    /\ pc = "task" => mode = "svc" /\ \A m \in Mode : stack[m] = <<>>

\* sleep takes as long as it was asked to, wherever the counter starts and even if
\* it wraps, and longer by no more than the time between two polls.
SleepsAsLong ==
    [][pc = "sleep" /\ pc' # "sleep" =>
          LET us == wait.ms * PERMS
          IN  wait'.elapsed >= us /\ wait'.elapsed <= us + GAP]_vars

\* No fault keeps the processor in its handler: what follows is the task's code
\* again, or code that is nobody's.
FaultsEnd == (pc \notin {"task", "wild"}) ~> (pc \in {"task", "wild"})
=============================================================================
