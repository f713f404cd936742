------------------------------ MODULE Threads ------------------------------
(***************************************************************************)
(* The threads of kernel/task.c below its task table, and the sleeping of  *)
(* kernel/timer.c that yields to them.  switch_to is commented out at the  *)
(* end of schedule, which therefore returns to its caller: the code that   *)
(* calls these functions is always that of g_task_running, task0 once      *)
(* run_as_task0 has been executed.                                         *)
(*                                                                         *)
(* A thread is the page kmalloc returned for it.  kfree leaves a page as   *)
(* it is but for the links of the free list, which overwrite tid, and      *)
(* g_task_running may keep pointing to it.  g_resched is 0 and             *)
(* g_task_own_fpu NULL from init_task on.                                  *)
(***************************************************************************)
EXTENDS Integers, FiniteSets, Sequences

CONSTANTS
    Page,          \* the pages the heap has
    NULL,
    MAX_TID,       \* bound on the number of threads created
    HZ,
    USIZE,         \* 2^32, where unsigned wraps
    Seconds        \* arguments of sys_sleep, tv_sec and tv_nsec

ASSUME ThreadAssumption ==
    /\ Page # {} /\ IsFiniteSet(Page) /\ NULL \notin Page
    /\ MAX_TID \in Nat /\ HZ \in Nat /\ USIZE \in Nat \ {0} /\ Seconds \subseteq Nat

POINTER == -1      \* any address, as an int: no thread has it as its tid
State == {"WAITING", "READY", "ZOMBIE"}

VARIABLES
    tcb,               \* page -> tid, state, wq_exit (who waits) and next
    used,              \* the pages kmalloc has given out and kfree not taken back
    g_task_head, g_task_running,
    tid,               \* the next thread's
    cpu,               \* does the caller run, or does schedule never return to it?
    asleep,            \* ticks the caller's _sleep waits for, and those of the _sleep after it
    g_timer_ticks      \* counted from the start of the _sleep

vars == <<tcb, used, g_task_head, g_task_running, tid, cpu, asleep, g_timer_ticks>>

PageOrNull == Page \cup {NULL}

TypeOK ==
    /\ tcb \in [Page -> [tid : -1 .. MAX_TID, state : State, wq_exit : Seq(Page), next : PageOrNull]]
    /\ used \subseteq Page
    /\ g_task_head \in PageOrNull /\ g_task_running \in PageOrNull
    /\ tid \in 0 .. MAX_TID + 1 /\ cpu \in {"runs", "loops"}
    /\ asleep \in Seq(1 .. USIZE - 1) /\ g_timer_ticks \in 0 .. USIZE - 1
-----------------------------------------------------------------------------
(* The list.                                                               *)

\* The pages a loop meets that goes from b to succ[b], the i-th after i rounds.
Steps == 0 .. Cardinality(Page)
Walk(b, succ) == LET at[i \in Steps] == IF i = 0 THEN b ELSE succ[at[i - 1]] IN at

Onwards(t, b) == Walk(b, [p \in PageOrNull |-> IF p = NULL THEN NULL ELSE t[p].next])
List(t, head) == {Onwards(t, head)[i] : i \in Steps} \ {NULL}

\* add_task: the list's last element, if there is one, leads to new.
add_task(t, head, new) ==
    [b \in Page |-> IF b \in List(t, head) /\ t[b].next = NULL THEN [t[b] EXCEPT !.next = new] ELSE t[b]]

NotUnlinked(t, head, tsk) == t
\* remove_task: whatever led to tsk leads past it.
remove_task(t, head, tsk) ==
    [b \in Page |-> IF b \in List(t, head) /\ t[b].next = tsk
                    THEN [t[b] EXCEPT !.next = t[tsk].next] ELSE t[b]]

get_task(id) == {b \in List(tcb, g_task_head) : tcb[b].tid = id}
-----------------------------------------------------------------------------
(* The scheduler.                                                          *)

\* The threads schedule looks at, in order, over the end of the list.
Selected(t) ==
    Walk(g_task_running, [p \in PageOrNull |->
        IF p = NULL THEN NULL ELSE IF t[p].next = NULL THEN g_task_head ELSE t[p].next])
StopsAtReady(t, b) == b # NULL /\ t[b].tid # 0 /\ t[b].state = "READY"
StopsAt(t, b) == b = g_task_running \/ StopsAtReady(t, b)

\* schedule changes nothing.  It does not return if its loop never stops, or if
\* it follows a g_task_head that is NULL.
ScheduleEnds(t) == \E i \in Steps \ {0} : StopsAt(t, Selected(t)[i])
SwitchSelected(t) ==
    LET stops == {i \in Steps \ {0} : StopsAt(t, Selected(t)[i])}
        first == CHOOSE i \in stops : \A j \in stops : i <= j
    IN  IF stops = {} THEN g_task_running ELSE Selected(t)[first]
switch_to(t) == g_task_running          \* the call is commented out
schedule(t) == /\ cpu' = IF ScheduleEnds(t) THEN "runs" ELSE "loops"
               /\ g_task_running' = switch_to(t)

\* wake_up(&wq, -1).
wake_up(t, wq) == [b \in Page |-> IF \E i \in DOMAIN wq : wq[i] = b
                                  THEN [t[b] EXCEPT !.state = "READY"] ELSE t[b]]

\* sleep_on up to its schedule, and after it.
Queued(t, tsk) ==
    LET w == [t EXCEPT ![tsk].wq_exit = <<g_task_running>> \o @]
    IN  [w EXCEPT ![g_task_running].state = "WAITING"]
Unqueued(t, tsk) == [t EXCEPT ![tsk].wq_exit = Tail(@)]
-----------------------------------------------------------------------------
(* Pages.                                                                  *)

\* The second word of a page that is freed becomes a link of the free list,
\* unless the block merges with the one before it.
kfree(t, b) == {[t EXCEPT ![b].tid = x] : x \in {t[b].tid, 0, POINTER}}

NewThread(id) == [tid |-> id, state |-> "READY", wq_exit |-> <<>>, next |-> NULL]

\* Memory before the first thread: anything, taken to be zero.
Fresh == [tid |-> 0, state |-> "WAITING", wq_exit |-> <<>>, next |-> NULL]

\* init_task: no thread but task0, and none running.
Init == \E task0 \in Page :
            /\ tcb = [b \in Page |-> IF b = task0 THEN NewThread(0) ELSE Fresh]
            /\ used = {task0}
            /\ g_task_head = task0 /\ g_task_running = NULL
            /\ tid = 1 /\ cpu = "runs"
            /\ asleep = <<>> /\ g_timer_ticks = 0

run_as_task0 ==
    /\ g_task_running = NULL
    /\ g_task_running' \in {b \in used : tcb[b].tid = 0}
    /\ UNCHANGED <<tcb, used, g_task_head, tid, cpu, asleep, g_timer_ticks>>

\* The caller is between two calls.
CallerRuns == cpu = "runs" /\ asleep = <<>>

sys_task_create ==
    /\ CallerRuns /\ tid <= MAX_TID
    /\ \E new \in Page \ used :
          LET t == [tcb EXCEPT ![new] = NewThread(tid)]
          IN  /\ used' = used \cup {new}
              /\ tcb' = add_task(t, g_task_head, new)
              /\ g_task_head' = IF g_task_head = NULL THEN new ELSE g_task_head
    /\ tid' = tid + 1
    /\ UNCHANGED <<g_task_running, cpu, asleep, g_timer_ticks>>

sys_task_exit ==
    /\ CallerRuns /\ g_task_running # NULL
    /\ LET me == g_task_running
           t == [wake_up(tcb, tcb[me].wq_exit) EXCEPT ![me].state = "ZOMBIE"]
       IN  tcb' = t /\ schedule(t)
    /\ UNCHANGED <<used, g_task_head, tid, asleep, g_timer_ticks>>

\* tsk is unlinked and freed.
Reap(t, tsk) ==
    /\ tcb' \in kfree(remove_task(t, g_task_head, tsk), tsk)
    /\ g_task_head' = IF tsk = g_task_head THEN t[tsk].next ELSE g_task_head
    /\ used' = used \ {tsk}

LeaveToOthers(t) == tcb' = t /\ UNCHANGED <<used, g_task_head>>

\* Without a thread of this id, or before run_as_task0, it returns -1.
sys_task_wait(id) ==
    /\ CallerRuns /\ g_task_running # NULL
    /\ \E tsk \in get_task(id) :
          LET waits == tcb[tsk].state # "ZOMBIE"
              queued == IF waits THEN Queued(tcb, tsk) ELSE tcb
              after == IF waits THEN Unqueued(queued, tsk) ELSE tcb
          IN  /\ IF waits THEN schedule(queued) ELSE UNCHANGED <<cpu, g_task_running>>
              /\ IF waits /\ ~ScheduleEnds(queued) THEN LeaveToOthers(queued)
                 ELSE IF after[tsk].wq_exit = <<>> THEN Reap(after, tsk) ELSE LeaveToOthers(after)
    /\ UNCHANGED <<tid, asleep, g_timer_ticks>>

sys_task_yield ==
    /\ CallerRuns /\ g_task_running # NULL
    /\ schedule(tcb)
    /\ UNCHANGED <<tcb, used, g_task_head, tid, asleep, g_timer_ticks>>
-----------------------------------------------------------------------------
(* Sleeping.                                                               *)

\* do_sleep converts to ticks without dividing by its denominator.
TicksOf(num) == (num * HZ) % USIZE

\* The _sleeps that are worth a tick, one after the other: what is not, is a
\* busy-wait in _delay.
Worth(ticks) == IF ticks > 0 THEN <<ticks>> ELSE <<>>

Sleep(sleeps) ==
    /\ CallerRuns /\ g_task_running # NULL
    /\ asleep' = sleeps
    /\ g_timer_ticks' = 0
    /\ UNCHANGED <<tcb, used, g_task_head, g_task_running, tid, cpu>>

sys_sleep(seconds) == Sleep(Worth(TicksOf(seconds)))
sys_nanosleep(tv_sec, tv_nsec) == Sleep(Worth(TicksOf(tv_sec)) \o Worth(TicksOf(tv_nsec)))

\* g_timer_ticks while the caller runs: what counted it is commented out.
TicksCounted(n) == (n + 1) % USIZE
AfterInterrupt(n) == n

\* One round of the loop of _sleep.
SleepRound ==
    /\ cpu = "runs" /\ asleep # <<>>
    /\ IF g_timer_ticks < Head(asleep)
       THEN schedule(tcb) /\ UNCHANGED asleep /\ g_timer_ticks' = AfterInterrupt(g_timer_ticks)
       ELSE asleep' = Tail(asleep) /\ g_timer_ticks' = 0 /\ UNCHANGED <<cpu, g_task_running>>
    /\ UNCHANGED <<tcb, used, g_task_head, tid>>

Next == \/ run_as_task0 \/ sys_task_create \/ sys_task_exit \/ sys_task_yield
        \/ \E id \in 0 .. MAX_TID : sys_task_wait(id)
        \/ \E s \in Seconds : sys_sleep(s)
        \/ \E s, ns \in Seconds : sys_nanosleep(s, ns)
        \/ SleepRound

Spec == Init /\ [][Next]_vars
-----------------------------------------------------------------------------
\* The list from g_task_head leads to every page in use, ends there, and has
\* them in the order of their creation: add_task and remove_task neither lose a
\* thread nor keep one whose page is free, wherever in the list it was.
ListIsUsed ==
    /\ TypeOK
    /\ List(tcb, g_task_head) = used
    /\ \A b \in used : tcb[b].next # NULL => tcb[b].tid < tcb[tcb[b].next].tid

\* schedule returns as long as the page of g_task_running is in use.  It stops
\* returning only to a thread that has waited for itself, whose page it then
\* goes on reading.
LoopsOnlyAfterSelfWait == cpu = "loops" => g_task_running \notin used

\* sys_task_wait takes threads that have not ended: whatever thread it frees,
\* other than its caller's own, is READY and has never run.
ReapsTheLiving ==
    [][\A b \in used \ used' : b # g_task_running => tcb[b].state = "READY"]_vars

\* A _sleep that waits for a tick never returns, and a sys_nanosleep never
\* reaches its second part.
SleepsForever == [][asleep # <<>> => asleep' = asleep]_vars
=============================================================================
