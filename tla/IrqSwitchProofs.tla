--------------------------- MODULE IrqSwitchProofs ---------------------------
(***************************************************************************)
(* Proofs about IrqSwitch for every number of tasks.  The invariant says   *)
(* what has been restored at each instruction of the window for a task     *)
(* that was interrupted in its own code, and that the word at sp - 4 is,   *)
(* throughout the window, the pc the vector saved.                         *)
(***************************************************************************)
EXTENDS IrqSwitch, TLAPS

OwnSaved(t) == table[t].r0 = t /\ table[t].r1 = t /\ table[t].rest = t

\* How far the registers of the running task are its own again.
Progress ==
    /\ reg.rest = tid
    /\ pc \in {"LoadR1", "LoadR0"} => reg.r0 = Entry(tid)
    /\ pc \in {"LoadR0", "LoadPc"} => reg.r1 = tid
    /\ pc = "LoadPc" => reg.r0 = tid

IrqInv ==
    /\ TypeOK
    /\ \A t \in Task : table[t].pc # "kernel"
    /\ \A t \in Task : table[t].pc = "body" => OwnSaved(t)
    /\ pc \in Window => below[tid] = table[tid].pc
    /\ pc \in Window /\ table[tid].pc = "body" => Progress
    /\ pc = "body" => BodyIsExact /\ table[tid].pc = "body"

\* A load through r0 reads the entry r0 points to.
LEMMA FetchLemma ==
    ASSUME NEW t \in Task, reg.r0 = Entry(t), NEW field
    PROVE  Fetch(field) = table[t][field]
<1>1. \A u \in Task : Entry(u) = Entry(t) => u = t
  BY TaskAssumption DEF Entry, Task
<1> QED BY <1>1 DEF Fetch

\* What a load through r0 returns is a register value.
LEMMA FetchType ==
    ASSUME TypeOK, NEW field \in {"r0", "r1"}
    PROVE  Fetch(field) \in Value
<1>1. Junk \in Value
  BY TaskAssumption DEF Junk, Value
<1>2. CASE \E t \in Task : reg.r0 = Entry(t)
  <2>1. PICK t \in Task : reg.r0 = Entry(t)
    BY <1>2
  <2>2. Fetch(field) = table[t][field]
    BY <2>1, FetchLemma
  <2>3. table[t].r0 \in Value /\ table[t].r1 \in Value
    BY DEF TypeOK
  <2> QED BY <2>2, <2>3
<1>3. CASE ~\E t \in Task : reg.r0 = Entry(t)
  BY <1>1, <1>3 DEF Fetch
<1> QED BY <1>2, <1>3

\* Booted, every task has its own registers and none is in the window.
LEMMA IrqInitInv == Init => IrqInv
<1> SUFFICES ASSUME Init PROVE IrqInv
  OBVIOUS
<1>1. \A t \in Task : t \in Value
  BY TaskAssumption DEF Task, Value
<1>2. 0 \in Task
  BY TaskAssumption DEF Task
<1>3. TypeOK
  BY <1>1, <1>2 DEF Init, TypeOK, Own, Code
<1> QED BY <1>2, <1>3 DEF Init, IrqInv, OwnSaved, BodyIsExact, Own, Window

\* Every instruction of the vector, and every interrupt, preserves the invariant.
LEMMA IrqNextInv == IrqInv /\ [Next]_vars => IrqInv'
<1> SUFFICES ASSUME IrqInv, [Next]_vars PROVE IrqInv'
  OBVIOUS
<1>0. TypeOK /\ tid \in Task /\ NTASK \in Nat /\ NTASK > 0
  BY TaskAssumption DEF IrqInv, TypeOK
<1>1. Junk \in Value /\ \A t \in Task : t \in Value /\ Entry(t) \in Value
  BY TaskAssumption DEF Junk, Value, Task, Entry
<1>2. CASE TimerFires \/ UartReceives
  <2>1. UNCHANGED <<pc, reg, tid, table, below>> /\ pending' \subseteq {"timer", "aux"}
    BY <1>0, <1>2 DEF TimerFires, UartReceives, TypeOK
  <2> QED BY <2>1 DEF IrqInv, TypeOK, OwnSaved, Progress, BodyIsExact
<1>3. CASE Enter
  <2>1. PICK gt \in BOOLEAN :
          table' = [table EXCEPT ![tid] =
                      [r0 |-> reg.r0, r1 |-> reg.r1, r7 |-> SavedR7(gt), rest |-> reg.rest, pc |-> pc]]
    BY <1>3 DEF Enter
  <2>2. pc' = "vector" /\ UNCHANGED <<reg, tid, below, pending>> /\ pc \in {"body"} \cup Window
    BY <1>3 DEF Enter
  <2>3. SavedR7(gt) \in Value
    BY <1>0, <1>1 DEF SavedR7, TypeOK
  <2>4. TypeOK'
    BY <1>0, <2>1, <2>2, <2>3 DEF TypeOK, Code
  <2>5. \A t \in Task : t # tid => table'[t] = table[t]
    BY <1>0, <2>1 DEF TypeOK
  <2>6. table'[tid].pc = pc /\ (pc = "body" => table'[tid].r0 = tid /\ table'[tid].r1 = tid /\ table'[tid].rest = tid)
    BY <1>0, <2>1 DEF TypeOK, IrqInv, BodyIsExact
  <2> QED BY <1>0, <2>2, <2>4, <2>5, <2>6 DEF IrqInv, OwnSaved, Window
<1>4. CASE Handle
  <2>1. NextTask \in Task
    BY <1>0 DEF NextTask, Task
  <2>2. TypeOK'
    BY <1>0, <1>1, <1>4, <2>1 DEF Handle, TypeOK, Acknowledged, Code
  <2> QED BY <1>4, <2>2 DEF Handle, IrqInv, OwnSaved, Window
<1>5. CASE Restore
  <2>1. TypeOK'
    BY <1>0, <1>1, <1>5 DEF Restore, TypeOK, Window
  <2>2. below'[tid] = table[tid].pc /\ UNCHANGED <<tid, table>> /\ pc' = "LoadR1"
    BY <1>0, <1>5 DEF Restore, TypeOK
  <2>3. table[tid].pc = "body" => Progress'
    BY <1>0, <1>5, <2>2 DEF Restore, Progress, IrqInv, OwnSaved
  <2> QED BY <2>1, <2>2, <2>3 DEF IrqInv, OwnSaved
<1>6. CASE LoadR1
  <2>1. /\ reg' = [reg EXCEPT !.r1 = Fetch("r1")] /\ pc = "LoadR1" /\ pc' = "LoadR0"
        /\ UNCHANGED <<tid, table, below, pending>>
    BY <1>6 DEF LoadR1
  <2>2. TypeOK'
    <3>1. Fetch("r1") \in Value
      BY <1>0, FetchType
    <3> QED BY <1>0, <2>1, <3>1 DEF TypeOK, Window
  <2>3. table[tid].pc = "body" => Progress'
    <3>1. SUFFICES ASSUME table[tid].pc = "body" PROVE Progress'
      OBVIOUS
    <3>2. reg.r0 = Entry(tid) /\ reg.rest = tid /\ table[tid].r1 = tid
      BY <1>0, <2>1, <3>1 DEF IrqInv, Progress, OwnSaved, Window
    <3>3. Fetch("r1") = tid
      BY <1>0, <3>2, FetchLemma
    <3>4. reg'.r1 = tid /\ reg'.r0 = reg.r0 /\ reg'.rest = reg.rest
      BY <1>0, <2>1, <3>3 DEF TypeOK
    <3> QED BY <2>1, <3>2, <3>4 DEF Progress, Entry
  <2> QED BY <2>1, <2>2, <2>3 DEF IrqInv, OwnSaved, Window
<1>7. CASE LoadR0
  <2>1. /\ reg' = [reg EXCEPT !.r0 = Fetch("r0")] /\ pc = "LoadR0" /\ pc' = "LoadPc"
        /\ UNCHANGED <<tid, table, below, pending>>
    BY <1>7 DEF LoadR0
  <2>2. TypeOK'
    <3>1. Fetch("r0") \in Value
      BY <1>0, FetchType
    <3> QED BY <1>0, <2>1, <3>1 DEF TypeOK, Window
  <2>3. table[tid].pc = "body" => Progress'
    <3>1. SUFFICES ASSUME table[tid].pc = "body" PROVE Progress'
      OBVIOUS
    <3>2. reg.r0 = Entry(tid) /\ reg.r1 = tid /\ reg.rest = tid /\ table[tid].r0 = tid
      BY <1>0, <2>1, <3>1 DEF IrqInv, Progress, OwnSaved, Window
    <3>3. Fetch("r0") = tid
      BY <1>0, <3>2, FetchLemma
    <3>4. reg'.r0 = tid /\ reg'.r1 = reg.r1 /\ reg'.rest = reg.rest
      BY <1>0, <2>1, <3>3 DEF TypeOK
    <3> QED BY <2>1, <3>2, <3>4 DEF Progress
  <2> QED BY <2>1, <2>2, <2>3 DEF IrqInv, OwnSaved, Window
<1>8. CASE LoadPc
  <2>1. /\ pc = "LoadPc" /\ pc' = below[tid] /\ UNCHANGED <<reg, tid, table, below, pending>>
    BY <1>8 DEF LoadPc, Parked
  <2>2. pc' = table[tid].pc /\ pc' \in {"body"} \cup Window
    BY <1>0, <2>1 DEF IrqInv, TypeOK, Window, Code
  <2>3. TypeOK'
    BY <1>0, <2>1, <2>2 DEF TypeOK
  <2>4. pc' = "body" => BodyIsExact'
    BY <2>1, <2>2 DEF IrqInv, Progress, BodyIsExact, Window
  <2> QED BY <2>1, <2>2, <2>3, <2>4 DEF IrqInv, OwnSaved, Window
<1>9. CASE UNCHANGED vars
  BY <1>9 DEF vars, IrqInv, TypeOK, OwnSaved, Progress, BodyIsExact
<1> QED BY <1>2, <1>3, <1>4, <1>5, <1>6, <1>7, <1>8, <1>9 DEF Next

\* The invariant of the interrupt vector holds in every reachable state.
THEOREM IrqInvariance == Spec => []IrqInv
BY IrqInitInv, IrqNextInv, PTL DEF Spec

\* A task that is back in its own code has its own registers, r7 apart.
THEOREM ResumeIsExact == Spec => []BodyIsExact
<1>1. IrqInv => BodyIsExact
  BY DEF IrqInv, BodyIsExact
<1> QED BY <1>1, IrqInvariance, PTL

\* A task interrupted in the window never executes its own code again.
THEOREM WindowKills == Spec => WindowIsFatal
<1> DEFINE A == \A t \in Task : Caught(t) => Caught(t)' /\ ~(tid' = t /\ pc' = "body")
<1>1. ASSUME IrqInv, IrqInv', [Next]_vars PROVE [A]_vars
  <2>1. \A t \in Task : Caught(t) => Caught(t)'
    <3>1. CASE Enter
      <4>1. \A t \in Task : table'[t].pc = IF t = tid THEN pc ELSE table[t].pc
        BY <1>1, <3>1 DEF Enter, IrqInv, TypeOK
      <4>2. pc \in Window \/ ~Caught(tid)
        BY <1>1, <3>1 DEF Enter, IrqInv, Caught, Window
      <4> QED BY <4>1, <4>2 DEF Caught
    <3>2. CASE ~Enter
      <4>1. table' = table
        BY <1>1, <3>2 DEF Next, vars, TimerFires, UartReceives, Handle, Restore, LoadR1, LoadR0, LoadPc
      <4> QED BY <4>1 DEF Caught
    <3> QED BY <3>1, <3>2
  <2>2. \A t \in Task : Caught(t)' => ~(tid' = t /\ pc' = "body")
    BY <1>1 DEF IrqInv, Caught, Window
  <2> QED BY <2>1, <2>2
<1> QED BY <1>1, IrqInvariance, PTL DEF Spec, WindowIsFatal
=============================================================================
