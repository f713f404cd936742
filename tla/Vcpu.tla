-------------------------------- MODULE Vcpu --------------------------------
(***************************************************************************)
(* What preemptive multitasking promises a thread: a processor of its own. *)
(* Only the owner of the real processor makes progress, switching owners   *)
(* changes nobody's registers, the next owner is always a thread that is   *)
(* alive, and a thread that has exited and lost the processor never gets   *)
(* it back.  The abstract counterpart of TaskTable (kernel/task.c).        *)
(***************************************************************************)
CONSTANTS Thread,   \* every thread there may ever be
          Boot,     \* the thread that owns the processor at power-on
          Work,     \* what a thread can be doing (its registers)
          Work0     \* the registers a new thread starts with

VARIABLES owner,    \* the thread on the processor
          live,     \* threads that were started and have not exited
          exited,   \* threads that have exited
          work      \* thread -> its registers, on the processor or not

vars == <<owner, live, exited, work>>

Init == /\ owner = Boot
        /\ live = {Boot}
        /\ exited = {}
        /\ work = [t \in Thread |-> Work0]

\* A new thread; the registers of the others stay as they are.
Spawn(t) == /\ t \notin live \cup exited
            /\ live' = live \cup {t}
            /\ work' = [work EXCEPT ![t] = Work0]
            /\ UNCHANGED <<owner, exited>>

\* The owner, and nobody else, makes progress.
Run == /\ \E w \in Work : work' = [work EXCEPT ![owner] = w]
       /\ UNCHANGED <<owner, live, exited>>

\* The processor goes to a thread that is alive.
Switch(t) == /\ t \in live
             /\ owner' = t
             /\ UNCHANGED <<live, exited, work>>

\* The owner exits.  It keeps the processor until the next Switch.
Exit == /\ live' = live \ {owner}
        /\ exited' = exited \cup {owner}
        /\ UNCHANGED <<owner, work>>

Next == Run \/ Exit \/ \E t \in Thread : Spawn(t) \/ Switch(t)

Spec == Init /\ [][Next]_vars
=============================================================================
