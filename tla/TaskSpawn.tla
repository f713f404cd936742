------------------------------ MODULE TaskSpawn ------------------------------
(***************************************************************************)
(* task_create and task_run of kernel/task.c called by running tasks, the  *)
(* way cstart calls them (create, then run what was returned), with        *)
(* interrupts enabled between the stores unless the caller masks them.     *)
(* The thread of entry s keeps the locals of the call it is in on its own  *)
(* stack, task_stack[s]: frame[s].                                         *)
(***************************************************************************)
EXTENDS TaskTable

CONSTANTS Masked,    \* TRUE when callers mask IRQs (sti) around each call
          Ranks      \* the priorities they ask for

ASSUME SpawnAssumption == Masked \in BOOLEAN /\ Ranks \subseteq Nat

VARIABLE frame

spawnVars == <<task_info, task_table, task_global, cpu, irq, booted, frame>>

\* at: what the call does next.  "run" is between the two calls.
NoFrame == [at |-> "none", rank |-> 0, func |-> NoFunc, tid |-> 0]

me == task_global.tid
Goto(label) == frame' = [frame EXCEPT ![me].at = label]
InKernelCall == frame[me].at \notin {"none", "run"}

SpawnInit == Init /\ frame = [s \in Slot |-> NoFrame]

\* The running task calls task_create(rank, f).  A rank that is refused makes it
\* return 0, and the caller goes on to task_run(0).
Create(rank, f) ==
    /\ irq /\ cpu.pc = "body" /\ frame[me].at = "none"
    /\ frame' = [frame EXCEPT ![me] =
          IF RankAccepted(rank)
          THEN [at |-> "info", rank |-> rank, func |-> f, tid |-> task_get_id(task_info)]
          ELSE [NoFrame EXCEPT !.at = "run"]]
    /\ UNCHANGED vars

\* task_info[TID] = task_info_this, TRID with whatever the stack held.
FillInfo ==
    /\ irq /\ cpu.pc = "body" /\ frame[me].at = "info"
    /\ \E w \in StackWords :
          task_info' = [task_info EXCEPT ![frame[me].tid] = CreatedEntry(frame[me].rank, frame[me].func, w)]
    /\ Goto("table")
    /\ UNCHANGED <<task_table, task_global, cpu, irq, booted>>

\* The stores into task_table[TID].  What a suspended thread of that entry was
\* doing is lost with its saved registers.
FillTable ==
    /\ irq /\ cpu.pc = "body" /\ frame[me].at = "table"
    /\ LET tid == frame[me].tid
       IN  /\ task_table' = [task_table EXCEPT ![tid] = FreshContext(frame[me].func)]
           /\ frame' = [frame EXCEPT ![tid] = NoFrame, ![me] = [frame[me] EXCEPT !.at = "run"]]
    /\ UNCHANGED <<task_info, task_global, cpu, irq, booted>>

\* task_run(TID): nothing unless the task is DEAD, else TRID and then status.
RunTRID ==
    /\ irq /\ cpu.pc = "body" /\ frame[me].at = "run"
    /\ LET tid == frame[me].tid
       IN  IF task_info[tid].status # "DEAD"
           THEN frame' = [frame EXCEPT ![me] = NoFrame] /\ UNCHANGED task_info
           ELSE task_info' = [task_info EXCEPT ![tid].TRID = tid] /\ Goto("status")
    /\ UNCHANGED <<task_table, task_global, cpu, irq, booted>>

RunStatus ==
    /\ irq /\ cpu.pc = "body" /\ frame[me].at = "status"
    /\ task_info' = [task_info EXCEPT ![frame[me].tid].status = "READY"]
    /\ frame' = [frame EXCEPT ![me] = NoFrame]
    /\ UNCHANGED <<task_table, task_global, cpu, irq, booted>>

\* An interrupt finds the caller's I bit clear, or does not come.
AnyTick == Tick
SpawnTick == Tick /\ (Masked => ~InKernelCall)

\* What the table does of itself; a task in a call neither returns nor exits.
Base == /\ \/ TaskInit \/ BootTask \/ Cli
           \/ SpawnTick \/ task_delete
           \/ Return /\ frame[me].at = "none"
        /\ UNCHANGED frame

SpawnNext == \/ \E rank \in Ranks, f \in Range(BootFuncs) : Create(rank, f)
             \/ FillInfo \/ FillTable \/ RunTRID \/ RunStatus
             \/ Base

SpawnSpec == SpawnInit /\ [][SpawnNext]_spawnVars
-----------------------------------------------------------------------------
\* TRID may be whatever task_create's stack held.
SpawnTypeOK ==
    /\ Types(Nat)
    /\ frame \in [Slot -> [at : {"none", "info", "table", "run", "status"},
                           rank : Ranks \cup {0}, func : Func, tid : Slot]]

\* With callers that mask interrupts, what runs for an entry is what the entry
\* says: its registers execute its task_func (task 0, which task_init starts
\* over cstart, apart).  Two creators that interleave would get one TID.
SpawnedRunTheirFunction ==
    /\ SpawnTypeOK
    /\ \A s \in Slot \ {0} :
          task_info[s].TRID = s /\ task_info[s].status = "READY" /\ ThreadOf(s).pc \in {"body", "TRID"}
              => ThreadOf(s).fn = task_info[s].task_func

\* task_create takes an entry from no task but task 0, whatever garbage it
\* leaves in TRID: an entry in use keeps its function until it is deleted.
OnlyTaskZeroIsOverwritten ==
    [][\A s \in Slot \ {0} :
          task_info[s].status \in {"READY", "DEAD"} /\ booted > 0
              => task_info'[s].task_func \in {task_info[s].task_func, NoFunc}]_spawnVars

\* kernel.h, TASK_STATUS_ENUM: "DEAD: not under the management of the scheduler".
\* A task between its task_create and its task_run is not dispatched.
DeadIsUnmanaged ==
    [][task_global'.tid # task_global.tid => task_info[task_global'.tid].status # "DEAD"]_spawnVars
=============================================================================
