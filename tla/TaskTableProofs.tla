--------------------------- MODULE TaskTableProofs ---------------------------
(***************************************************************************)
(* Proofs about TaskTable for every table size, sentinel and set of boot   *)
(* tasks.  IInv is the inductive invariant; ScheduleLemma says what        *)
(* task_schedule returns in a state that satisfies it.                     *)
(***************************************************************************)
EXTENDS TaskSpawn, TLAPS, WellFoundedInduction

\* The arrays hold exactly the tasks created so far, an entry in use has its
\* own TID or 0 as ready ID, and the entries behind it are free.
TableInv ==
    /\ \A s \in Slot : s >= booted => task_info[s] = FreeEntry
    /\ \A s \in Slot : s < booted => task_info[s].TRID \in {0, s}
    /\ \A s \in Slot : s < booted /\ task_info[s].TRID = s =>
          /\ task_info[s].status = "READY"
          /\ s # 0 => task_info[s].task_func \in Range(BootFuncs)
    /\ SCAN < booted => task_info[SCAN].TRID = SCAN

\* The running task and its registers.
CpuInv ==
    /\ task_global.tid < booted
    /\ task_global.kstack = task_global.tid
    /\ task_global.tid # SCAN
    /\ ThreadOf(0).pc = "body"
    /\ cpu.fn # task_idle
    /\ cpu.pc # "null"
    /\ cpu.pc \notin {"body", "TRID"} => Gone(task_global.tid)
    /\ irq \/ task_global.tid = 0

IInv ==
    /\ TypeOK
    /\ irq => booted = NBOOT + 1
    /\ booted = 0 => /\ cpu = FreshContext(cstart)
                     /\ task_global.tid = 0
                     /\ task_table = [s \in Slot |-> ZeroContext]
    /\ booted > 0 => TableInv /\ CpuInv /\ OwnRegisters /\ DeadEnd

-----------------------------------------------------------------------------
\* A number below the modulus is its own remainder, and the modulus leaves 0:
\* how TIDs and ready IDs survive the conversions to unsigned char.
LEMMA ModLemma ==
    ASSUME NEW m \in Nat, m > 0
    PROVE  /\ \A x \in 0 .. m - 1 : x % m = x
           /\ m % m = 0
<1>1. ASSUME NEW x \in 0 .. m - 1 PROVE x % m = x
  BY SMT
<1>2. m % m = 0
  BY SMT
<1> QED BY <1>1, <1>2

\* The least element of a set of numbers that has one.
LEMMA MinLemma ==
    ASSUME NEW S \in SUBSET Nat, NEW x \in S, \A y \in S : x <= y
    PROVE  Min(S) = x
<1>1. PICK z : z = Min(S)
  OBVIOUS
<1>2. z \in S /\ \A y \in S : z <= y
  BY <1>1 DEF Min
<1>3. z <= x /\ x <= z
  BY <1>2
<1>4. z \in Nat /\ x \in Nat
  BY <1>2
<1> QED BY <1>1, <1>3, <1>4

\* task_get_id returns the first entry behind those in use.
LEMMA GetIdLemma ==
    ASSUME NEW info, NEW n \in Slot,
           \A s \in Slot : s >= n => info[s] = FreeEntry,
           \A s \in Slot : s < n => info[s] # FreeEntry
    PROVE  task_get_id(info) = n
<1> DEFINE free == {s \in Slot : info[s] = FreeEntry}
<1>1. n \in free /\ free \in SUBSET Nat
  BY SlotAssumption DEF Slot
<1>2. \A y \in free : n <= y
  BY SlotAssumption DEF Slot
<1>3. Min(free) = n
  BY <1>1, <1>2, MinLemma
<1>4. free # {}
  BY <1>1
<1> QED BY <1>3, <1>4 DEF task_get_id

\* What task_schedule picks: a task whose ready ID is its own TID, never the
\* one with the sentinel's TID, and none behind a task that has been deleted.
\* The scan stops at its first or second entry.
LEMMA ScheduleLemma ==
    ASSUME TypeOK, booted > 0, TableInv, DeadEnd,
           task_global.tid < booted, task_global.tid # SCAN,
           NEW next, next = task_schedule(task_info, task_global.tid)
    PROVE  /\ next \in Slot /\ next < booted /\ next # SCAN
           /\ task_info[next].TRID = next
           /\ \A d \in Slot : Gone(d) => next <= d
<1> DEFINE tid == task_global.tid
           trid == AsTID(task_info[tid].TRID)
           hits == Hits(task_info, trid)
<1>1. /\ tid \in Slot /\ booted \in Nat /\ booted <= NSLOT
      /\ NSLOT \in Nat /\ SCAN \in Nat /\ 2 <= SCAN /\ SCAN + 1 < NSLOT
  BY SlotAssumption, BootAssumption DEF TypeOK, Types, NBOOT
<1>2. /\ trid \in {0, tid} /\ trid = task_info[tid].TRID
  BY <1>1, ModLemma DEF AsTID, TableInv, Slot
<1>3. trid \in Slot /\ trid < booted /\ trid # SCAN
  BY <1>1, <1>2 DEF Slot
<1>4. \A c \in Slot : /\ task_info[c].TRID \in {0, c, NSLOT}
                      /\ task_info[c].TRID = SCAN => c = SCAN
  BY <1>1 DEF TableInv, FreeEntry, Slot
<1>5. PICK c \in Slot : /\ next = AsTID(task_info[c].TRID)
                        /\ \/ c = 0
                           \/ c = trid + 1 /\ c # SCAN
                           \/ c = SCAN + 1 /\ trid + 1 = SCAN /\ task_info[SCAN].TRID = SCAN
                        /\ task_info[c].TRID # SCAN
  <2>1. \A i \in {0, 1} : i \in hits <=> Candidate(task_info, trid, i) # SCAN
    BY <1>1 DEF Hits
  <2>2. hits \in SUBSET Nat
    BY <1>1 DEF Hits
  <2>3. CASE 0 \in hits
    <3>1. Min(hits) = 0
      BY <2>2, <2>3, MinLemma
    <3>2. next = AsTID(Candidate(task_info, trid, 0))
      BY <2>3, <3>1 DEF task_schedule
    <3>3. Candidate(task_info, trid, 0) = task_info[(trid + 1) % NSLOT].TRID
      BY <1>1, <1>3 DEF Candidate, Slot
    <3>4. CASE trid + 1 < NSLOT
      <4>1. (trid + 1) % NSLOT = trid + 1 /\ trid + 1 \in Slot
        BY <1>1, <1>3, <3>4, ModLemma DEF Slot
      <4>2. task_info[trid + 1].TRID # SCAN
        BY <2>1, <2>3, <3>3, <4>1
      <4>3. trid + 1 # SCAN \/ booted <= SCAN
        BY <1>1, <4>2 DEF TableInv, Slot
      <4>4. CASE trid + 1 # SCAN
        BY <3>2, <3>3, <4>1, <4>2, <4>4
      <4>5. CASE trid + 1 = SCAN
        <5>1. task_info[trid + 1].TRID = NSLOT
          BY <1>1, <4>3, <4>5 DEF TableInv, FreeEntry, Slot
        <5>2. task_info[0].TRID = 0 /\ 0 \in Slot
          BY <1>1 DEF TableInv, Slot
        <5>3. AsTID(NSLOT) = 0 /\ AsTID(0) = 0
          BY <1>1, ModLemma DEF AsTID
        <5> QED BY <1>1, <3>2, <3>3, <4>1, <5>1, <5>2, <5>3
      <4> QED BY <4>4, <4>5
    <3>5. CASE trid + 1 = NSLOT
      <4>1. (trid + 1) % NSLOT = 0 /\ 0 \in Slot
        BY <1>1, <3>5, ModLemma DEF Slot
      <4> QED BY <2>1, <2>3, <3>2, <3>3, <4>1
    <3> QED BY <1>1, <1>3, <3>4, <3>5 DEF Slot
  <2>4. CASE 0 \notin hits
    <3>1. task_info[(trid + 1) % NSLOT].TRID = SCAN
      BY <1>1, <1>3, <2>1, <2>4 DEF Candidate, Slot
    <3>2. trid + 1 < NSLOT
      <4>1. CASE trid + 1 = NSLOT
        <5>1. (trid + 1) % NSLOT = 0 /\ 0 \in Slot
          BY <1>1, <4>1, ModLemma DEF Slot
        <5>2. SCAN = 0
          BY <1>4, <3>1, <5>1
        <5> QED BY <1>1, <5>2
      <4> QED BY <1>1, <1>3, <4>1 DEF Slot
    <3>3. (trid + 1) % NSLOT = trid + 1 /\ trid + 1 \in Slot
      BY <1>1, <1>3, <3>2, ModLemma DEF Slot
    <3>4. trid + 1 = SCAN /\ task_info[SCAN].TRID = SCAN
      BY <1>4, <3>1, <3>3
    <3>5. (trid + 2) % NSLOT = SCAN + 1 /\ SCAN + 1 \in Slot
      <4>1. trid + 2 = SCAN + 1 /\ SCAN + 1 \in 0 .. NSLOT - 1
        BY <1>1, <1>3, <3>4 DEF Slot
      <4> QED BY <1>1, <4>1, ModLemma DEF Slot
    <3>6. Candidate(task_info, trid, 1) = task_info[SCAN + 1].TRID
      BY <1>1, <1>3, <3>5 DEF Candidate, Slot
    <3>7. task_info[SCAN + 1].TRID # SCAN
      BY <1>1, <1>4, <3>5
    <3>8. 1 \in hits
      BY <2>1, <3>6, <3>7
    <3>9. \A y \in hits : 1 <= y
      BY <2>2, <2>4
    <3>10. Min(hits) = 1
      BY <2>2, <3>8, <3>9, MinLemma
    <3>11. next = AsTID(task_info[SCAN + 1].TRID)
      BY <3>6, <3>8, <3>10 DEF task_schedule
    <3> QED BY <3>4, <3>5, <3>7, <3>11
  <2> QED BY <2>3, <2>4
<1>6. next \in {0, c} /\ (next # 0 => task_info[c].TRID = c /\ c < booted)
  <2>1. task_info[c].TRID \in {0, c, NSLOT}
    BY <1>4
  <2>2. AsTID(0) = 0 /\ AsTID(NSLOT) = 0 /\ AsTID(c) = c
    BY <1>1, ModLemma DEF AsTID, Slot
  <2>3. task_info[c].TRID = NSLOT => next = 0
    BY <1>5, <2>2
  <2>4. task_info[c].TRID # NSLOT => next = task_info[c].TRID
    BY <1>5, <2>1, <2>2
  <2>5. c >= booted => task_info[c].TRID = NSLOT
    BY DEF TableInv, FreeEntry
  <2> QED BY <1>1, <2>1, <2>3, <2>4, <2>5 DEF Slot
<1>7. task_info[0].TRID = 0 /\ 0 \in Slot
  BY <1>1 DEF TableInv, Slot
<1>8. next \in Slot /\ next < booted /\ next # SCAN /\ task_info[next].TRID = next
  BY <1>1, <1>5, <1>6, <1>7
<1>9. ASSUME NEW d \in Slot, Gone(d) PROVE next <= d
  <2>1. d # 0 /\ task_info[d].TRID = 0 /\ tid <= d /\ d \in Nat
    BY <1>9, <1>1 DEF Gone, DeadEnd, Slot
  <2>2. CASE next = 0
    BY <2>1, <2>2
  <2>3. CASE next # 0
    <3>1. next = c /\ c # 0
      BY <1>6, <2>3
    <3>2. trid < d
      BY <1>1, <1>2, <2>1 DEF Slot
    <3>3. CASE c = trid + 1
      BY <1>1, <1>3, <3>1, <3>2, <3>3, <2>1 DEF Slot
    <3>4. CASE c = SCAN + 1 /\ trid + 1 = SCAN /\ task_info[SCAN].TRID = SCAN
      <4>1. d # SCAN
        BY <1>1, <2>1, <3>4
      <4> QED BY <1>1, <1>3, <3>1, <3>2, <3>4, <2>1, <4>1 DEF Slot
    <3> QED BY <1>5, <3>1, <3>3, <3>4
  <2> QED BY <2>2, <2>3
<1> QED BY <1>8, <1>9

-----------------------------------------------------------------------------
\* Memory as the loader leaves it satisfies the invariant.
LEMMA InitInv == Init => IInv
<1> SUFFICES ASSUME Init PROVE IInv
  OBVIOUS
<1>1. /\ NSLOT \in Nat /\ NSLOT > 3 /\ NBOOT \in Nat /\ WORK \in Nat /\ WORK > 0 /\ MAX_rank \in Nat
  BY SlotAssumption, BootAssumption DEF NBOOT
<1>2. 0 \in Slot /\ 0 \in 0 .. WORK - 1 /\ 0 \in 0 .. MAX_rank + 1 /\ NSLOT \in 0 .. NSLOT /\ 0 \in 0 .. NSLOT
  BY <1>1 DEF Slot
<1>3. TypeOK
  <2>1. ZeroContext \in Context /\ FreshContext(cstart) \in Context
    BY <1>2 DEF ZeroContext, FreshContext, Context, Func, DeletePc
  <2>2. BssEntry \in [rank : 0 .. MAX_rank + 1, status : Status, task_func : Func, TRID : 0 .. NSLOT]
    BY <1>2 DEF BssEntry, FreeEntry, Status, Func
  <2>3. task_global \in [tid : Slot, kstack : 0 .. NSLOT, schedule_lock : BOOLEAN]
    BY <1>2 DEF Init
  <2>4. irq \in BOOLEAN
    BY Zenon DEF Init
  <2>5. booted \in 0 .. NBOOT + 1
    BY <1>1 DEF Init
  <2>6. /\ task_info \in [Slot -> [rank : 0 .. MAX_rank + 1, status : Status, task_func : Func, TRID : 0 .. NSLOT]]
        /\ task_table \in [Slot -> Context] /\ cpu \in Context
    BY <2>1, <2>2 DEF Init
  <2> QED BY <2>3, <2>4, <2>5, <2>6 DEF TypeOK, Types
<1> QED BY <1>1, <1>3 DEF Init, IInv

\* What CreateAndRun does once the first n entries are in use: entry n gets the
\* task, with its own TID as ready ID and a fresh context.
LEMMA CreateLemma ==
    ASSUME NEW info, NEW n \in Slot, NEW f \in Func,
           info \in [Slot -> [rank : 0 .. MAX_rank + 1, status : Status, task_func : Func, TRID : 0 .. NSLOT]],
           \A s \in Slot : s >= n => info[s] = FreeEntry,
           \A s \in Slot : s < n => info[s].TRID \in {0, s},
           CreateAndRun(info, task_table, f)
    PROVE  /\ task_info' = [info EXCEPT ![n] = [rank |-> MAX_rank, status |-> "READY", task_func |-> f, TRID |-> n]]
           /\ task_table' = [task_table EXCEPT ![n] = FreshContext(f)]
<1>1. \A s \in Slot : s < n => info[s] # FreeEntry
  BY SlotAssumption DEF Slot, FreeEntry
<1>2. task_get_id(info) = n
  BY <1>1, GetIdLemma
<1>3. PICK w \in StackWords : task_info' = task_run([info EXCEPT ![n] = CreatedEntry(MAX_rank, f, w)], n)
  BY <1>2 DEF CreateAndRun
<1>4. task_info' = [info EXCEPT ![n] = [rank |-> MAX_rank, status |-> "READY", task_func |-> f, TRID |-> n]]
  BY <1>3 DEF task_run, CreatedEntry
<1> QED BY <1>2, <1>4 DEF CreateAndRun

\* An interrupt moves the processor and changes nobody's registers.
LEMMA TickLemma ==
    ASSUME IInv, Tick
    PROVE  /\ booted = NBOOT + 1 /\ booted > 0
           /\ task_global' = [task_global EXCEPT !.tid = task_global.tid', !.kstack = task_global.tid']
           /\ task_global.tid' \in Slot
           /\ task_global.tid' < booted
           /\ task_global.tid' # SCAN
           /\ Live(task_global.tid')
           /\ \A d \in Slot : Gone(d) => task_global.tid' <= d
           /\ cpu' = ThreadOf(task_global.tid')
           /\ task_table' = [s \in Slot |-> ThreadOf(s)]
           /\ \A s \in Slot : ThreadOf(s)' = ThreadOf(s)
           /\ UNCHANGED <<task_info, irq, booted>>
<1> DEFINE next == task_schedule(task_info, task_global.tid)
           saved == [task_table EXCEPT ![task_global.kstack] = cpu]
<1>1. booted = NBOOT + 1 /\ booted > 0
  BY BootAssumption DEF IInv, Tick, IrqTaken, NBOOT
<1>2. TypeOK /\ TableInv /\ CpuInv /\ DeadEnd
  BY <1>1 DEF IInv
<1>3. /\ next \in Slot /\ next < booted /\ next # SCAN
      /\ task_info[next].TRID = next
      /\ \A d \in Slot : Gone(d) => next <= d
  BY <1>1, <1>2, ScheduleLemma DEF CpuInv
<1>4. task_global' = [task_global EXCEPT !.tid = next, !.kstack = next] /\ task_global'.tid = next
  BY <1>2 DEF Tick, TypeOK, Types
<1>5. saved = [s \in Slot |-> ThreadOf(s)]
  BY <1>2 DEF CpuInv, TypeOK, Types, ThreadOf
<1>6. task_table' = saved /\ cpu' = saved[next]
  BY DEF Tick, SaveSlot
<1>7. cpu' = ThreadOf(next)
  BY <1>3, <1>5, <1>6
<1>8. \A s \in Slot : ThreadOf(s)' = IF s = next THEN cpu' ELSE task_table'[s]
  BY <1>4 DEF ThreadOf
<1>9. \A s \in Slot : ThreadOf(s)' = ThreadOf(s)
  BY <1>5, <1>6, <1>7, <1>8
<1>10. Live(next)
  BY <1>1, <1>3 DEF Live
<1>11. UNCHANGED <<task_info, irq, booted>>
  BY DEF Tick
<1> HIDE DEF next, saved
<1> QED BY <1>1, <1>3, <1>4, <1>5, <1>6, <1>7, <1>9, <1>10, <1>11

\* Creating the next boot task: the common part of TaskInit and BootTask.
LEMMA BootLemma ==
    ASSUME IInv, ~irq, booted' = booted + 1, booted <= NBOOT,
           NEW f \in Func, f = IF booted = 0 THEN task_idle ELSE BootFuncs[booted],
           CreateAndRun(IF booted = 0 THEN [s \in Slot |-> FreeEntry] ELSE task_info, task_table, f),
           task_global' = [tid |-> 0, kstack |-> 0, schedule_lock |-> task_global.schedule_lock'],
           task_global.schedule_lock' \in BOOLEAN,
           task_global.tid = 0,
           UNCHANGED <<cpu, irq>>
    PROVE  IInv'
<1> DEFINE info == IF booted = 0 THEN [s \in Slot |-> FreeEntry] ELSE task_info
           n == booted
           Entry == [rank : 0 .. MAX_rank + 1, status : Status, task_func : Func, TRID : 0 .. NSLOT]
           new == [rank |-> MAX_rank, status |-> "READY", task_func |-> f, TRID |-> n]
<1>1. /\ NSLOT \in Nat /\ SCAN \in Nat /\ 2 <= SCAN /\ SCAN + 1 < NSLOT
      /\ MAX_rank \in Nat /\ WORK \in Nat /\ WORK > 0 /\ NBOOT \in Nat /\ NBOOT < NSLOT
  BY SlotAssumption, BootAssumption DEF NBOOT
<1>2. TypeOK /\ n \in Slot
  BY <1>1 DEF IInv, TypeOK, Types, Slot
<1>3. FreeEntry \in Entry
  BY <1>1 DEF FreeEntry, Status, Func
<1>4. info \in [Slot -> Entry]
  BY <1>2, <1>3 DEF TypeOK, Types
<1>5. /\ \A s \in Slot : s >= n => info[s] = FreeEntry
      /\ \A s \in Slot : s < n => info[s].TRID \in {0, s}
  <2>1. CASE booted = 0
    BY <1>1, <2>1 DEF Slot
  <2>2. CASE booted # 0
    <3>1. info = task_info /\ TableInv
      BY <1>1, <1>2, <2>2 DEF IInv, TypeOK, Types
    <3> QED BY <3>1 DEF TableInv
  <2> QED BY <2>1, <2>2
<1>6. /\ task_info' = [info EXCEPT ![n] = new]
      /\ task_table' = [task_table EXCEPT ![n] = FreshContext(f)]
  BY <1>2, <1>4, <1>5, CreateLemma
<1>7. new \in Entry /\ FreshContext(f) \in Context
  BY <1>1, <1>2 DEF Status, Slot, FreshContext, Context
<1>8. TypeOK'
  <2>1. task_info' \in [Slot -> Entry] /\ task_table' \in [Slot -> Context]
    BY <1>2, <1>4, <1>6, <1>7 DEF TypeOK, Types
  <2>2. task_global' \in [tid : Slot, kstack : 0 .. NSLOT, schedule_lock : BOOLEAN]
    BY <1>1 DEF Slot
  <2>3. booted' \in 0 .. NBOOT + 1
    BY <1>1, <1>2 DEF TypeOK, Types
  <2> QED BY <1>2, <2>1, <2>2, <2>3 DEF TypeOK, Types
<1>9. /\ \A s \in Slot : s # n => task_info'[s] = info[s]
      /\ task_info'[n] = new
  BY <1>2, <1>4, <1>6
<1>10. n # 0 => f \in Range(BootFuncs)
  BY <1>1, <1>2, BootAssumption, SMTT(30) DEF TypeOK, Types, NBOOT, Range
<1>11. TableInv'
  <2>1. \A s \in Slot : s >= booted' => task_info'[s] = FreeEntry
    BY <1>1, <1>2, <1>5, <1>9 DEF Slot
  <2>2. \A s \in Slot : s < booted' => task_info'[s].TRID \in {0, s}
    BY <1>1, <1>2, <1>5, <1>9 DEF Slot
  <2>3. \A s \in Slot : s < booted' /\ task_info'[s].TRID = s =>
          /\ task_info'[s].status = "READY"
          /\ s # 0 => task_info'[s].task_func \in Range(BootFuncs)
    BY <1>1, <1>2, <1>5, <1>9, <1>10, SMTT(30) DEF Slot, IInv, TableInv
  <2>4. SCAN < booted' => task_info'[SCAN].TRID = SCAN
    BY <1>1, <1>2, <1>9 DEF Slot, IInv, TableInv
  <2> QED BY <2>1, <2>2, <2>3, <2>4 DEF TableInv
<1>12. cpu.fn = cstart /\ cpu.pc = "body"
  <2>1. CASE booted = 0
    BY <2>1 DEF IInv, FreshContext
  <2>2. CASE booted # 0
    <3>1. CpuInv /\ OwnRegisters /\ Live(0) /\ 0 \in Slot
      BY <1>1, <1>2, <2>2, SMTT(30) DEF IInv, Live, TableInv, Slot, TypeOK, Types
    <3>2. ThreadOf(0) = cpu
      BY DEF ThreadOf
    <3> QED BY <3>1, <3>2 DEF CpuInv, OwnRegisters, Owner
  <2> QED BY <2>1, <2>2
<1>13. booted' > 0 /\ 0 \in Slot
  BY <1>1, <1>2, SMTT(30) DEF Slot, TypeOK, Types
<1>14. ThreadOf(0)' = cpu /\ task_global'.tid = 0 /\ task_global'.kstack = 0
  BY DEF ThreadOf
<1>16. CpuInv'
  BY <1>12, <1>13, <1>14, <1>1, BootAssumption DEF CpuInv, TypeOK, Types
<1>17. OwnRegisters'
  <2> SUFFICES ASSUME NEW s \in Slot, Live(s)'
               PROVE  /\ ThreadOf(s)'.fn = Owner(s)'
                      /\ ThreadOf(s)'.pc \in {"body", "TRID"}
    BY DEF OwnRegisters
  <2>1. CASE s = 0
    BY <1>12, <1>14, <2>1 DEF Owner
  <2>2. CASE s # 0
    <3>1. ThreadOf(s)' = task_table'[s] /\ Owner(s)' = task_info'[s].task_func
      BY <1>14, <2>2 DEF ThreadOf, Owner
    <3>2. CASE s = n
      BY <1>2, <1>6, <1>9, <3>1, <3>2 DEF TypeOK, Types, FreshContext
    <3>3. CASE s # n
      <4>1. task_info'[s] = info[s] /\ task_info'[s].TRID = s
        BY <1>9, <3>3 DEF Live
      <4>2. s < n
        BY <1>1, <1>2, <1>5, <4>1 DEF FreeEntry, Slot
      <4>3. booted > 0 /\ info = task_info
        BY <1>1, <1>2, <4>2 DEF Slot
      <4>4. Live(s) /\ OwnRegisters
        BY <4>1, <4>3 DEF Live, IInv
      <4>5. ThreadOf(s) = task_table[s] /\ Owner(s) = task_info[s].task_func
        BY <2>2 DEF ThreadOf, Owner
      <4>6. task_table'[s] = task_table[s]
        BY <1>2, <1>6, <3>3 DEF TypeOK, Types
      <4> QED BY <3>1, <4>1, <4>3, <4>4, <4>5, <4>6 DEF OwnRegisters
    <3> QED BY <3>2, <3>3
  <2> QED BY <2>1, <2>2
<1>18. DeadEnd'
  BY <1>1, <1>14 DEF DeadEnd, Slot
<1> QED
  <2>1. ~irq' /\ booted' # 0
    BY <1>13
  <2> QED BY <1>8, <1>11, <1>16, <1>17, <1>18, <2>1 DEF IInv

\* One store of task_delete: the running task, which is not task 0, ends up with
\* ready ID 0, and no other entry changes.
LEMMA DeleteLemma ==
    ASSUME IInv, DeleteField
    PROVE  /\ irq /\ UNCHANGED <<task_table, task_global, irq, booted>>
           /\ task_global.tid # 0 /\ task_global.tid \in Slot /\ task_global.tid < booted
           /\ cpu' \in Context /\ cpu'.fn = cpu.fn /\ cpu'.work = cpu.work
           /\ cpu'.pc \in {"rank", "status", "task_func", "context"}
           /\ task_info' \in [Slot -> [rank : 0 .. MAX_rank + 1, status : Status, task_func : Func, TRID : 0 .. NSLOT]]
           /\ task_info'[task_global.tid].TRID = 0
           /\ \A s \in Slot : s # task_global.tid => task_info'[s] = task_info[s]
<1> DEFINE tid == task_global.tid
           Entry == [rank : 0 .. MAX_rank + 1, status : Status, task_func : Func, TRID : 0 .. NSLOT]
<1>1. irq /\ UNCHANGED <<task_table, task_global, irq, booted>>
  BY DEF DeleteField
<1>2. TypeOK /\ CpuInv /\ booted > 0 /\ task_global.tid \in Slot
  BY <1>1, SlotAssumption, BootAssumption DEF IInv, TypeOK, Types, NBOOT
<1>3. /\ cpu.pc \in {"TRID", "rank", "status", "task_func"}
      /\ cpu' = [cpu EXCEPT !.pc = AfterClearing[cpu.pc]]
      /\ AfterClearing[cpu.pc] \in {"rank", "status", "task_func", "context"}
  BY DEF DeleteField, AfterClearing
<1>4. cpu' \in Context /\ cpu'.fn = cpu.fn /\ cpu'.work = cpu.work /\ cpu'.pc \in {"rank", "status", "task_func", "context"}
  BY <1>3, <1>2 DEF TypeOK, Types, Context, DeletePc
<1>5. tid # 0 /\ tid \in Slot
  BY <1>2, <1>1, <1>3 DEF CpuInv, ThreadOf
<1>6. task_info[tid] \in Entry /\ tid < booted
  BY <1>2, <1>1 DEF TypeOK, Types, CpuInv
<1>7. PICK e : e = [task_info[tid] EXCEPT ![cpu.pc] = Cleared(cpu.pc)]
  OBVIOUS
<1>8. e \in Entry /\ e.TRID = 0
  <2>1. 0 \in 0 .. MAX_rank + 1 /\ 0 \in 0 .. NSLOT /\ "STATUS_NULL" \in Status /\ NoFunc \in Func
    BY SlotAssumption DEF Status, Func
  <2>2. CASE cpu.pc = "TRID"
    <3>1. e = [task_info[tid] EXCEPT !.TRID = 0]
      BY <1>7, <2>2 DEF Cleared, BssEntry
    <3> QED BY <1>6, <2>1, <3>1
  <2>3. CASE cpu.pc # "TRID"
    <3>1. task_info[tid].TRID = 0
      BY <1>2, <1>1, <1>3, <2>3 DEF CpuInv, Gone
    <3>2. CASE cpu.pc = "rank"
      <4>1. e = [task_info[tid] EXCEPT !.rank = 0]
        BY <1>7, <3>2 DEF Cleared, BssEntry
      <4> QED BY <1>6, <2>1, <3>1, <4>1
    <3>3. CASE cpu.pc = "status"
      <4>1. e = [task_info[tid] EXCEPT !.status = "STATUS_NULL"]
        BY <1>7, <3>3 DEF Cleared, BssEntry
      <4> QED BY <1>6, <2>1, <3>1, <4>1
    <3>4. CASE cpu.pc = "task_func"
      <4>1. e = [task_info[tid] EXCEPT !.task_func = NoFunc]
        BY <1>7, <3>4 DEF Cleared, BssEntry
      <4> QED BY <1>6, <2>1, <3>1, <4>1
    <3> QED BY <1>3, <2>3, <3>2, <3>3, <3>4
  <2> QED BY <2>2, <2>3
<1>9. task_info' = [task_info EXCEPT ![tid] = e]
  BY <1>7 DEF DeleteField
<1>10. task_info'[tid] = e /\ \A s \in Slot : s # tid => task_info'[s] = task_info[s]
  BY <1>5, <1>9, <1>2 DEF TypeOK, Types
<1>11. task_info' \in [Slot -> Entry]
  BY <1>8, <1>9, <1>2 DEF TypeOK, Types
<1> QED BY <1>1, <1>4, <1>5, <1>6, <1>8, <1>10, <1>11

\* Every step of the kernel preserves the invariant.
LEMMA NextInv == IInv /\ [Next]_vars => IInv'
<1> SUFFICES ASSUME IInv, [Next]_vars PROVE IInv'
  OBVIOUS
<1> USE DEF IInv
<1>1. /\ NSLOT \in Nat /\ SCAN \in Nat /\ 2 <= SCAN /\ SCAN + 1 < NSLOT
      /\ WORK \in Nat /\ WORK > 0 /\ NBOOT \in Nat /\ NBOOT < NSLOT
      /\ 0 \in Slot /\ booted \in Nat
  BY SlotAssumption, BootAssumption DEF NBOOT, Slot, TypeOK, Types
<1>2. ASSUME irq
      PROVE  /\ booted > 0 /\ booted = NBOOT + 1
             /\ TypeOK /\ TableInv /\ CpuInv /\ OwnRegisters /\ DeadEnd
             /\ Live(0) /\ task_global.tid \in Slot
  BY <1>1, <1>2 DEF TableInv, Live, TypeOK, Types
<1>3. CASE TaskInit
  <2>1. ~irq
    BY <1>1, <1>3 DEF TaskInit
  <2>2. task_idle \in Func
    BY DEF Func
  <2>3. /\ task_global' = [tid |-> 0, kstack |-> 0, schedule_lock |-> task_global.schedule_lock']
        /\ task_global.schedule_lock' \in BOOLEAN
    BY <1>3 DEF TaskInit, FirstKstack
  <2>4. booted = 0 /\ booted' = booted + 1 /\ booted <= NBOOT /\ task_global.tid = 0
    BY <1>1, <1>3 DEF TaskInit
  <2>5. /\ task_idle = IF booted = 0 THEN task_idle ELSE BootFuncs[booted]
        /\ CreateAndRun(IF booted = 0 THEN [s \in Slot |-> FreeEntry] ELSE task_info, task_table, task_idle)
        /\ UNCHANGED <<cpu, irq>>
    BY <1>3, <2>4, Zenon DEF TaskInit
  <2> HIDE DEF IInv
  <2> QED BY <2>1, <2>2, <2>3, <2>4, <2>5, BootLemma
<1>4. CASE BootTask
  <2>1. ~irq /\ booted <= NBOOT /\ booted > 0
    BY <1>1, <1>4 DEF BootTask
  <2>2. BootFuncs[booted] \in Func
    BY <1>1, <1>4, BootAssumption DEF BootTask, Func, NBOOT, Range
  <2>3. task_global.tid = 0 /\ task_global.kstack = 0
    BY <2>1 DEF CpuInv
  <2>4. /\ task_global' = [tid |-> 0, kstack |-> 0, schedule_lock |-> task_global.schedule_lock']
        /\ task_global.schedule_lock' \in BOOLEAN
    BY <1>4, <2>3 DEF BootTask, TypeOK, Types
  <2> QED BY <1>1, <1>4, <2>1, <2>2, <2>3, <2>4, BootLemma DEF BootTask
<1>5. CASE Cli
  <2>1. booted > 0 /\ booted' = booted /\ irq'
    BY <1>1, <1>5 DEF Cli
  <2>2. TypeOK'
    BY <1>5 DEF TypeOK, Types, Cli
  <2>3. TableInv' /\ CpuInv' /\ OwnRegisters' /\ DeadEnd'
    BY <1>5, <2>1 DEF Cli, TableInv, CpuInv, OwnRegisters, DeadEnd, Live, Gone, ThreadOf, Owner
  <2> QED BY <1>5, <2>1, <2>2, <2>3 DEF Cli
<1>6. CASE Tick
  <2> DEFINE next == task_global.tid'
  <2>0. /\ booted = NBOOT + 1 /\ booted > 0
        /\ task_global' = [task_global EXCEPT !.tid = next, !.kstack = next]
        /\ next \in Slot /\ next < booted /\ next # SCAN /\ Live(next)
        /\ \A d \in Slot : Gone(d) => next <= d
        /\ cpu' = ThreadOf(next)
        /\ task_table' = [s \in Slot |-> ThreadOf(s)]
        /\ \A s \in Slot : ThreadOf(s)' = ThreadOf(s)
        /\ UNCHANGED <<task_info, irq, booted>>
    BY <1>6, TickLemma
  <2>1. irq
    BY <1>6 DEF Tick, IrqTaken
  <2>2. \A s \in Slot : /\ ThreadOf(s) \in Context /\ Live(s)' = Live(s)
                        /\ Gone(s)' = Gone(s) /\ Owner(s)' = Owner(s)
    BY <1>2, <2>0, <2>1 DEF ThreadOf, TypeOK, Types, Live, Gone, Owner
  <2>3. TypeOK'
    <3>1. next \in 0 .. NSLOT
      BY <1>1, <2>0 DEF Slot
    <3>2. task_global' \in [tid : Slot, kstack : 0 .. NSLOT, schedule_lock : BOOLEAN]
      BY <2>0, <3>1 DEF TypeOK, Types
    <3> QED BY <2>0, <2>2, <3>2 DEF TypeOK, Types
  <2>4. TableInv'
    BY <2>0 DEF TableInv
  <2>5. OwnRegisters'
    BY <1>2, <2>0, <2>1, <2>2 DEF OwnRegisters
  <2>6. DeadEnd'
    BY <2>0, <2>2, <2>3 DEF DeadEnd
  <2>7. cpu'.fn = Owner(next) /\ cpu'.pc \in {"body", "TRID"}
    BY <1>2, <2>0, <2>1 DEF OwnRegisters
  <2>8. Owner(next) # task_idle
    BY <1>2, <2>0, <2>1, BootAssumption DEF Owner, TableInv, Live
  <2>9. task_global'.kstack = next /\ task_global'.tid = next
    BY <2>0 DEF TypeOK, Types
  <2>10. CpuInv'
    BY <1>1, <1>2, <2>0, <2>1, <2>7, <2>8, <2>9 DEF CpuInv
  <2> QED BY <2>0, <2>3, <2>4, <2>5, <2>6, <2>10
<1>7. CASE Compute
  <2>0. irq /\ UNCHANGED <<task_info, task_table, task_global, irq, booted>>
    BY <1>7 DEF Compute
  <2>1. cpu'.pc = cpu.pc /\ cpu'.fn = cpu.fn /\ cpu' \in Context
    <3>1. cpu.work \in Nat /\ cpu \in Context
      BY <1>1 DEF TypeOK, Types, Context
    <3>2. (cpu.work + 1) % WORK \in 0 .. WORK - 1
      BY <1>1, <3>1
    <3> QED BY <1>7, <3>1, <3>2 DEF Compute, Context
  <2>2. TypeOK'
    BY <2>0, <2>1 DEF TypeOK, Types
  <2>3. TableInv' /\ DeadEnd'
    BY <1>2, <2>0 DEF TableInv, DeadEnd, Gone
  <2>4. \A s \in Slot : ThreadOf(s)'.pc = ThreadOf(s).pc /\ ThreadOf(s)'.fn = ThreadOf(s).fn
    BY <2>0, <2>1 DEF ThreadOf
  <2>5. CpuInv' /\ OwnRegisters'
    BY <1>1, <1>2, <2>0, <2>1, <2>4 DEF CpuInv, OwnRegisters, Live, Gone, Owner
  <2> QED BY <1>2, <2>0, <2>2, <2>3, <2>5
<1>8. CASE Return
  <2>0. irq /\ UNCHANGED <<task_info, task_table, task_global, irq, booted>>
    BY <1>8 DEF Return
  <2>1. cpu'.pc = "TRID" /\ cpu'.fn = cpu.fn /\ cpu' \in Context
    BY <1>8 DEF Return, TypeOK, Types, Context, DeletePc
  <2>2. TypeOK'
    BY <2>0, <2>1 DEF TypeOK, Types
  <2>3. TableInv' /\ DeadEnd'
    BY <1>2, <2>0 DEF TableInv, DeadEnd, Gone
  <2>4. task_global.tid # 0
    BY <1>1, <1>2, <1>8, <2>0, BootAssumption DEF Return, OwnRegisters, ThreadOf, Owner
  <2>5. \A s \in Slot : /\ ThreadOf(s)'.fn = ThreadOf(s).fn
                        /\ ThreadOf(s)'.pc = IF s = task_global.tid THEN "TRID" ELSE ThreadOf(s).pc
    BY <2>0, <2>1 DEF ThreadOf
  <2>6. CpuInv' /\ OwnRegisters'
    BY <1>1, <1>2, <2>0, <2>1, <2>4, <2>5 DEF CpuInv, OwnRegisters, Live, Gone, Owner
  <2> QED BY <1>2, <2>0, <2>2, <2>3, <2>6
<1>9. CASE DeleteContext
  <2>0. irq /\ UNCHANGED <<task_info, task_global, irq, booted>> /\ cpu.pc = "context"
    BY <1>9 DEF DeleteContext
  <2>1. cpu'.pc \in {"TRID", "stray"} /\ cpu'.fn = cpu.fn /\ cpu' \in Context
    BY <1>9 DEF DeleteContext, TypeOK, Types, Context, DeletePc
  <2>2. ZeroContext \in Context
    BY <1>1 DEF ZeroContext, Context, Func
  <2>3. TypeOK'
    BY <1>9, <2>0, <2>1, <2>2 DEF TypeOK, Types, DeleteContext
  <2>4. TableInv' /\ DeadEnd'
    BY <1>2, <2>0 DEF TableInv, DeadEnd, Gone
  <2>5. Gone(task_global.tid)
    BY <1>2, <2>0 DEF CpuInv
  <2>6. \A s \in Slot : s # task_global.tid => ThreadOf(s)' = ThreadOf(s)
    BY <1>9, <2>0 DEF ThreadOf, DeleteContext, TypeOK, Types
  <2>7. CpuInv' /\ OwnRegisters'
    BY <1>1, <1>2, <2>0, <2>1, <2>5, <2>6 DEF CpuInv, OwnRegisters, Live, Gone, Owner
  <2> QED BY <1>2, <2>0, <2>3, <2>4, <2>7
<1>10. CASE task_lock_schedule \/ task_unlock_schedule
  <2>0. irq /\ UNCHANGED <<task_info, task_table, cpu, irq, booted>>
    BY <1>10 DEF task_lock_schedule, task_unlock_schedule
  <2>1. /\ task_global'.tid = task_global.tid /\ task_global'.kstack = task_global.kstack
        /\ task_global' \in [tid : Slot, kstack : 0 .. NSLOT, schedule_lock : BOOLEAN]
    BY <1>10 DEF task_lock_schedule, task_unlock_schedule, TypeOK, Types
  <2>2. TypeOK'
    BY <2>0, <2>1 DEF TypeOK, Types
  <2>3. TableInv' /\ DeadEnd' /\ CpuInv' /\ OwnRegisters'
    BY <1>2, <2>0, <2>1 DEF TableInv, DeadEnd, CpuInv, OwnRegisters, Live, Gone, Owner, ThreadOf
  <2> QED BY <1>2, <2>0, <2>2, <2>3
<1>11. CASE UNCHANGED vars
  BY <1>11 DEF vars, TypeOK, Types, TableInv, DeadEnd, CpuInv, OwnRegisters, Live, Gone, Owner, ThreadOf
<1>12. CASE DeleteField
  <2> DEFINE tid == task_global.tid
  <2>0. irq /\ UNCHANGED <<task_table, task_global, irq, booted>>
    BY <1>12, DeleteLemma
  <2>1. cpu' \in Context /\ cpu'.fn = cpu.fn /\ cpu'.pc \in {"rank", "status", "task_func", "context"}
    BY <1>12, DeleteLemma
  <2>2. tid # 0 /\ tid \in Slot /\ tid < booted
    BY <1>12, DeleteLemma
  <2>3. /\ task_info' \in [Slot -> [rank : 0 .. MAX_rank + 1, status : Status, task_func : Func, TRID : 0 .. NSLOT]]
        /\ task_info'[tid].TRID = 0
        /\ \A s \in Slot : s # tid => task_info'[s] = task_info[s]
    BY <1>12, DeleteLemma
  <2>4. TypeOK'
    BY <2>0, <2>1, <2>3 DEF TypeOK, Types
  <2>5. TableInv'
    <3>1. TableInv /\ tid # SCAN /\ SCAN \in Slot
      BY <1>1, <1>2, <2>0 DEF CpuInv, Slot
    <3> HIDE DEF IInv
    <3>2. \A s \in Slot : s >= booted => task_info'[s] = FreeEntry
      <4>1. \A s \in Slot : s >= booted => s # tid
        BY <1>1, <2>2 DEF Slot
      <4> QED BY <2>3, <3>1, <4>1 DEF TableInv
    <3>3. \A s \in Slot : s < booted => task_info'[s].TRID \in {0, s}
      BY <2>3, <3>1 DEF TableInv
    <3>4. \A s \in Slot : s < booted /\ task_info'[s].TRID = s => s # tid
      BY <2>2, <2>3
    <3>5. SCAN < booted => task_info'[SCAN].TRID = SCAN
      BY <2>3, <3>1 DEF TableInv
    <3> QED BY <2>0, <2>3, <3>1, <3>2, <3>3, <3>4, <3>5 DEF TableInv
  <2>6. Gone(tid)' /\ ~Live(tid)'
    BY <1>2, <2>0, <2>2, <2>3 DEF Gone, Live
  <2>7. \A s \in Slot : s # tid => /\ ThreadOf(s)' = ThreadOf(s) /\ Gone(s)' = Gone(s)
                                   /\ Live(s)' = Live(s) /\ Owner(s)' = Owner(s)
    BY <2>0, <2>3 DEF ThreadOf, Gone, Live, Owner
  <2>8. CpuInv'
    BY <1>1, <1>2, <2>0, <2>1, <2>2, <2>6, <2>7 DEF CpuInv
  <2>9. OwnRegisters'
    BY <1>2, <2>0, <2>6, <2>7 DEF OwnRegisters
  <2>10. DeadEnd'
    BY <1>1, <1>2, <2>0, <2>2, <2>7 DEF DeadEnd, Slot
  <2> QED BY <1>2, <2>0, <2>4, <2>5, <2>8, <2>9, <2>10
<1> QED BY <1>3, <1>4, <1>5, <1>6, <1>7, <1>8, <1>9, <1>10, <1>11, <1>12 DEF Next, task_delete

-----------------------------------------------------------------------------
\* The inductive invariant holds throughout.
THEOREM Invariance == Spec => []IInv
BY InitInv, NextInv, PTL DEF Spec

\* Every variable keeps its type: in particular a TID is always an index of
\* the arrays, although task_schedule truncates ready IDs up to NSLOT to it.
THEOREM TypeCorrect == Spec => []TypeOK
<1>1. IInv => TypeOK
  BY DEF IInv
<1> QED BY <1>1, Invariance, PTL

\* Context switching mixes no registers up, for any number of tasks.
THEOREM RegistersStayOwn == Spec => []OwnRegisters
<1>1. IInv => OwnRegisters
  BY SlotAssumption, BootAssumption DEF IInv, OwnRegisters, Live, TypeOK, Types, NBOOT
<1> QED BY <1>1, Invariance, PTL

\* The function task_init creates task 0 for never runs, whatever tasks there are.
THEOREM IdleIsLost == Spec => []IdleNeverRuns
<1>1. IInv => IdleNeverRuns
  BY BootAssumption DEF IInv, IdleNeverRuns, CpuInv, FreshContext, TypeOK, Types, NBOOT
<1> QED BY <1>1, Invariance, PTL

\* The task whose TID is the sentinel of task_schedule never runs.
THEOREM SentinelIsLost == Spec => []SentinelNeverRuns
<1>1. IInv => SentinelNeverRuns
  BY SlotAssumption, BootAssumption DEF IInv, SentinelNeverRuns, CpuInv, TypeOK, Types, NBOOT
<1> QED BY <1>1, Invariance, PTL

\* No task behind a deleted one is ever dispatched again.
THEOREM DeletionIsADeadEnd == Spec => []DeadEnd
<1>1. IInv => DeadEnd
  BY SlotAssumption, BootAssumption DEF IInv, DeadEnd, Gone, TypeOK, Types, NBOOT
<1> QED BY <1>1, Invariance, PTL

\* task_schedule only switches to tasks that are READY, without reading status.
THEOREM SwitchesToReady == Spec => DispatchOnlyReady
<1> DEFINE A == task_global'.tid # task_global.tid => task_info[task_global'.tid].status = "READY"
<1>1. ASSUME IInv, [Next]_vars PROVE [A]_vars
  <2>1. CASE Tick
    <3>1. /\ booted > 0 /\ task_global'.tid \in Slot /\ task_global'.tid < booted
          /\ Live(task_global'.tid)
      BY <1>1, <2>1, TickLemma
    <3> QED BY <1>1, <3>1 DEF IInv, TableInv, Live
  <2>2. CASE TaskInit
    BY <1>1, <2>2 DEF IInv, TaskInit
  <2>3. CASE BootTask \/ Cli \/ Compute \/ Return \/ task_delete
    BY <2>3 DEF BootTask, Cli, Compute, Return, task_delete, DeleteField, DeleteContext
  <2>4. CASE task_lock_schedule \/ task_unlock_schedule
    BY <1>1, <2>4 DEF IInv, TypeOK, Types, task_lock_schedule, task_unlock_schedule
  <2> QED BY <1>1, <2>1, <2>2, <2>3, <2>4 DEF Next
<1> QED BY <1>1, Invariance, PTL DEF Spec, DispatchOnlyReady

\* An entry of the table, once used, is never free again.
THEOREM SlotsAreNotReused == Spec => NoSlotReuse
<1> DEFINE A == \A s \in Slot : booted > 0 /\ task_info[s] # FreeEntry => task_info'[s] # FreeEntry
<1>1. ASSUME IInv, [Next]_vars PROVE [A]_vars
  <2>1. CASE BootTask
    <3>1. /\ booted > 0 /\ booted \in Slot /\ TypeOK /\ TableInv /\ BootFuncs[booted] \in Func
      BY <1>1, <2>1, SlotAssumption, BootAssumption, SMTT(30) DEF IInv, BootTask, TypeOK, Types, NBOOT, Slot, Func, Range
    <3>2. task_info' = [task_info EXCEPT ![booted] =
              [rank |-> MAX_rank, status |-> "READY", task_func |-> BootFuncs[booted], TRID |-> booted]]
      BY <2>1, <3>1, CreateLemma DEF BootTask, TableInv, TypeOK, Types
    <3>3. task_info'[booted].TRID # NSLOT
      BY <3>1, <3>2, SlotAssumption DEF TypeOK, Types, Slot
    <3>4. \A s \in Slot : s # booted => task_info'[s] = task_info[s]
      BY <3>1, <3>2 DEF TypeOK, Types
    <3> QED BY <3>3, <3>4 DEF FreeEntry
  <2>2. CASE DeleteField
    <3>1. \A s \in Slot : task_info'[s].TRID = 0 \/ task_info'[s] = task_info[s]
      BY <1>1, <2>2, DeleteLemma
    <3> QED BY <3>1, SlotAssumption DEF FreeEntry
  <2>3. CASE TaskInit
    BY <2>3 DEF TaskInit
  <2>4. CASE Cli \/ Tick \/ Compute \/ Return \/ DeleteContext
    BY <2>4 DEF Cli, Tick, Compute, Return, DeleteContext
  <2>5. CASE task_lock_schedule \/ task_unlock_schedule
    BY <2>5 DEF task_lock_schedule, task_unlock_schedule
  <2> QED BY <1>1, <2>1, <2>2, <2>3, <2>4, <2>5 DEF Next, task_delete
<1> QED BY <1>1, Invariance, PTL DEF Spec, NoSlotReuse

-----------------------------------------------------------------------------
\* A step that leaves what Vcpu sees of every entry alone is a stutter of Vcpu.
LEMMA StutterLemma ==
    ASSUME task_global'.tid = task_global.tid,
           LiveTasks' = LiveTasks, GoneTasks' = GoneTasks,
           \A s \in Slot : ThreadOf(s)'.work = ThreadOf(s).work
    PROVE  UNCHANGED V!vars
BY DEF V!vars, Registers

\* TaskTable implements Vcpu: the kernel's arrays, vector and scheduler give
\* every task a processor of its own.
THEOREM Refinement == Spec => ImplementsVcpu
<1>1. Init => V!Init
  <2> SUFFICES ASSUME Init PROVE V!Init
    OBVIOUS
  <2>1. 0 \in Slot /\ \A s \in Slot : ~Live(s) /\ ~Gone(s)
    BY SlotAssumption DEF Init, Live, Gone, Slot
  <2>2. \A s \in Slot : ThreadOf(s).work = 0
    BY DEF Init, ThreadOf, ZeroContext, FreshContext
  <2> QED BY <2>1, <2>2 DEF V!Init, Init, LiveTasks, GoneTasks, Registers
<1>2. ASSUME IInv, IInv', [Next]_vars PROVE [V!Next]_(V!vars)
  <2>1. /\ NSLOT \in Nat /\ SCAN \in Nat /\ NBOOT \in Nat /\ NBOOT < NSLOT
        /\ 0 \in Slot /\ booted \in Nat /\ TypeOK
    <3>1. NSLOT \in Nat /\ SCAN \in Nat /\ NBOOT \in Nat /\ NBOOT < NSLOT /\ 0 \in Slot
      BY SlotAssumption, BootAssumption DEF NBOOT, Slot
    <3> QED BY <1>2, <3>1 DEF IInv, TypeOK, Types
  <2>2. CASE TaskInit
    <3>1. booted = 0 /\ task_global.tid = 0 /\ task_global'.tid = 0 /\ cpu' = cpu
      BY <1>2, <2>2 DEF TaskInit, IInv
    <3>2. /\ task_info' = [[s \in Slot |-> FreeEntry] EXCEPT ![0] = [rank |-> MAX_rank, status |-> "READY", task_func |-> task_idle, TRID |-> 0]]
          /\ task_table' = [task_table EXCEPT ![0] = FreshContext(task_idle)]
      <4>1. FreeEntry \in [rank : 0 .. MAX_rank + 1, status : Status, task_func : Func, TRID : 0 .. NSLOT]
        BY SlotAssumption DEF FreeEntry, Status, Func
      <4>2. [s \in Slot |-> FreeEntry] \in [Slot -> [rank : 0 .. MAX_rank + 1, status : Status, task_func : Func, TRID : 0 .. NSLOT]]
        BY <4>1
      <4>3. task_idle \in Func
        BY DEF Func
      <4>4. CreateAndRun([s \in Slot |-> FreeEntry], task_table, task_idle)
        BY <2>2 DEF TaskInit
      <4>5. \A s \in Slot : ~(s < 0) /\ [r \in Slot |-> FreeEntry][s] = FreeEntry
        BY <2>1 DEF Slot
      <4> QED BY <2>1, <4>2, <4>3, <4>4, <4>5, CreateLemma
    <3>3. \A s \in Slot : (Live(s)' => s = 0) /\ ~Gone(s)'
      BY <2>1, <3>2 DEF Live, Gone, FreeEntry, Slot
    <3>4. \A s \in Slot : ~Live(s) /\ ~Gone(s)
      BY <3>1 DEF Live, Gone
    <3>5. LiveTasks' = LiveTasks /\ GoneTasks' = GoneTasks
      BY <3>3, <3>4 DEF LiveTasks, GoneTasks
    <3>6. \A s \in Slot : ThreadOf(s)'.work = ThreadOf(s).work
      BY <2>1, <3>1, <3>2 DEF ThreadOf, TypeOK, Types
    <3> QED BY <3>1, <3>5, <3>6, StutterLemma
  <2>3. CASE BootTask
    <3>0. PICK n : n = booted
      OBVIOUS
    <3>1. /\ n > 0 /\ n \in Slot /\ TableInv /\ BootFuncs[n] \in Func
          /\ booted' = n + 1 /\ UNCHANGED <<task_global, cpu>>
      BY <1>2, <2>1, <2>3, <3>0, BootAssumption DEF IInv, BootTask, NBOOT, Slot, Func, Range
    <3>2. /\ task_info' = [task_info EXCEPT ![n] = [rank |-> MAX_rank, status |-> "READY", task_func |-> BootFuncs[n], TRID |-> n]]
          /\ task_table' = [task_table EXCEPT ![n] = FreshContext(BootFuncs[n])]
      BY <2>1, <2>3, <3>0, <3>1, CreateLemma DEF BootTask, TableInv, TypeOK, Types
    <3>3. task_info[n].TRID = NSLOT /\ task_info'[n].TRID = n
      BY <2>1, <3>0, <3>1, <3>2 DEF TableInv, FreeEntry, TypeOK, Types
    <3>4. n \notin LiveTasks \cup GoneTasks
      BY <2>1, <3>0, <3>1, <3>3 DEF LiveTasks, GoneTasks, Live, Gone, Slot
    <3>5. \A s \in Slot : s # n => Live(s)' = Live(s) /\ Gone(s)' = Gone(s)
      BY <2>1, <3>0, <3>1, <3>2 DEF Live, Gone, TypeOK, Types
    <3>6. Live(n)' /\ ~Gone(n)'
      BY <2>1, <3>0, <3>1, <3>3 DEF Live, Gone
    <3>7. LiveTasks' = LiveTasks \cup {n} /\ GoneTasks' = GoneTasks
      BY <3>1, <3>4, <3>5, <3>6 DEF LiveTasks, GoneTasks
    <3>8. task_global.tid = 0
      BY <1>2, <2>1, <2>3, <3>0, <3>1 DEF IInv, CpuInv, BootTask
    <3>9. \A s \in Slot : ThreadOf(s)'.work = IF s = n THEN 0 ELSE ThreadOf(s).work
      BY <2>1, <3>1, <3>2, <3>8 DEF ThreadOf, TypeOK, Types, FreshContext
    <3>10. Registers' = [Registers EXCEPT ![n] = 0]
      BY <3>1, <3>9 DEF Registers
    <3>11. V!Spawn(n)
      BY <3>1, <3>4, <3>7, <3>10 DEF V!Spawn
    <3> QED BY <3>1, <3>11 DEF V!Next
  <2>4. CASE Tick
    <3>1. /\ task_global'.tid \in Slot /\ Live(task_global'.tid)
          /\ \A s \in Slot : ThreadOf(s)' = ThreadOf(s)
          /\ UNCHANGED <<task_info, booted>>
      BY <1>2, <2>4, TickLemma
    <3>2. LiveTasks' = LiveTasks /\ GoneTasks' = GoneTasks /\ Registers' = Registers
      BY <3>1 DEF LiveTasks, GoneTasks, Live, Gone, Registers
    <3>3. V!Switch(task_global'.tid)
      BY <3>1, <3>2 DEF V!Switch, LiveTasks
    <3> QED BY <3>1, <3>3 DEF V!Next
  <2>5. CASE Compute
    <3>1. UNCHANGED <<task_info, task_table, task_global, booted>> /\ task_global.tid \in Slot
      BY <2>1, <2>5 DEF Compute, TypeOK, Types
    <3>2. LiveTasks' = LiveTasks /\ GoneTasks' = GoneTasks
      BY <3>1 DEF LiveTasks, GoneTasks, Live, Gone
    <3>3. cpu'.work \in 0 .. WORK - 1
      BY <1>2 DEF IInv, TypeOK, Types, Context
    <3>4. Registers' = [Registers EXCEPT ![task_global.tid] = cpu'.work]
      BY <3>1 DEF Registers, ThreadOf
    <3>5. V!Run
      BY <3>1, <3>2, <3>3, <3>4 DEF V!Run
    <3> QED BY <3>5 DEF V!Next
  <2>6. CASE DeleteField
    <3>1. /\ UNCHANGED <<task_table, task_global, booted>> /\ cpu'.work = cpu.work
          /\ task_global.tid # 0 /\ task_global.tid \in Slot /\ task_global.tid < booted
          /\ task_info'[task_global.tid].TRID = 0
          /\ \A s \in Slot : s # task_global.tid => task_info'[s] = task_info[s]
      BY <1>2, <2>6, DeleteLemma
    <3>2. Gone(task_global.tid)' /\ ~Live(task_global.tid)'
      BY <2>1, <3>1 DEF Gone, Live, Slot
    <3>3. \A s \in Slot : s # task_global.tid => Live(s)' = Live(s) /\ Gone(s)' = Gone(s)
      BY <3>1 DEF Gone, Live
    <3>4. LiveTasks' = LiveTasks \ {task_global.tid}
      BY <3>1, <3>2, <3>3 DEF LiveTasks
    <3>5. GoneTasks' = GoneTasks \cup {task_global.tid}
      BY <3>1, <3>2, <3>3 DEF GoneTasks
    <3>6. Registers' = Registers
      BY <3>1 DEF Registers, ThreadOf
    <3>7. V!Exit
      BY <3>1, <3>4, <3>5, <3>6 DEF V!Exit
    <3> QED BY <3>7 DEF V!Next
  <2>7. CASE Cli \/ Return \/ DeleteContext \/ task_lock_schedule \/ task_unlock_schedule \/ UNCHANGED vars
    <3>1. UNCHANGED <<task_info, booted>> /\ cpu'.work = cpu.work /\ task_global'.tid = task_global.tid
      BY <2>1, <2>7 DEF Cli, Return, DeleteContext, task_lock_schedule, task_unlock_schedule, vars, TypeOK, Types, Context
    <3>2. \A s \in Slot : s # task_global.tid => task_table'[s] = task_table[s]
      BY <2>1, <2>7 DEF Cli, Return, DeleteContext, task_lock_schedule, task_unlock_schedule, vars, TypeOK, Types
    <3>3. LiveTasks' = LiveTasks /\ GoneTasks' = GoneTasks
      BY <3>1 DEF LiveTasks, GoneTasks, Live, Gone
    <3>4. \A s \in Slot : ThreadOf(s)'.work = ThreadOf(s).work
      BY <3>1, <3>2 DEF ThreadOf
    <3> QED BY <3>1, <3>3, <3>4, StutterLemma
  <2> QED BY <1>2, <2>2, <2>3, <2>4, <2>5, <2>6, <2>7 DEF Next, task_delete
<1> QED BY <1>1, <1>2, Invariance, PTL DEF Spec, ImplementsVcpu, V!Spec

-----------------------------------------------------------------------------
(* TaskSpawn: tasks that create tasks, and mask interrupts while they do.  *)

\* Entry s and its thread: a task that is there executes its function; an entry
\* that task_get_id would give out has no thread; task_delete has taken the ready
\* ID of a free entry away before it clears status, and clears status before it
\* clears the function.
EntryInv(s) ==
    /\ task_info[s].status \in {"READY", "DEAD"} /\ ThreadOf(s).pc \in {"body", "TRID"}
          => ThreadOf(s).fn = task_info[s].task_func
    /\ task_info[s].status = "STATUS_NULL" /\ task_info[s].TRID = NSLOT => ThreadOf(s).pc = "null"
    /\ ThreadOf(s).pc \in {"rank", "status"} => task_info[s].TRID # NSLOT
    /\ ThreadOf(s).pc \in {"task_func", "context"} => task_info[s].status = "STATUS_NULL"

\* The call the thread of entry s is in.  Between its stores nobody else runs, so
\* that the entry it works on is as it left it.
CallInv(s) ==
    /\ frame[s].at # "none" => ThreadOf(s).pc = "body"
    /\ frame[s].at \in {"info", "table", "status"} => s = task_global.tid
    /\ frame[s].at = "info" => /\ RankAccepted(frame[s].rank)
                               /\ frame[s].tid = 0 \/ task_info[frame[s].tid] = FreeEntry
    /\ frame[s].at = "table" => /\ task_info[frame[s].tid].status = "DEAD"
                                /\ task_info[frame[s].tid].task_func = frame[s].func
    /\ frame[s].at = "status" => task_info[frame[s].tid].status = "DEAD"

SpawnInv ==
    /\ SpawnTypeOK
    /\ irq => booted = NBOOT + 1
    /\ booted = 0 => task_table = [s \in Slot |-> ZeroContext]
    /\ booted > 0 => task_global.kstack = task_global.tid
    /\ ~irq => task_global.tid = 0 /\ cpu.pc = "body" /\ \A s \in Slot : frame[s].at = "none"
    /\ booted > 0 => \A s \in Slot \ {0} : EntryInv(s)
    /\ \A s \in Slot : CallInv(s)

EntryType == [rank : 0 .. MAX_rank + 1, status : Status, task_func : Func, TRID : Nat]
FrameType == [at : {"none", "info", "table", "run", "status"}, rank : Ranks \cup {0}, func : Func, tid : Slot]

LEMMA SpawnTypes ==
  ASSUME SpawnTypeOK
  PROVE  /\ task_info \in [Slot -> EntryType] /\ task_table \in [Slot -> Context] /\ cpu \in Context
         /\ frame \in [Slot -> FrameType] /\ task_global.tid \in Slot /\ me \in Slot
         /\ task_global \in [tid : Slot, kstack : 0 .. NSLOT, schedule_lock : BOOLEAN]
         /\ NSLOT \in Nat /\ 0 \in Slot /\ MAX_rank \in Nat /\ \A s \in Slot : s # NSLOT /\ s \in Nat
         /\ \A s \in Slot : ThreadOf(s) \in Context
<1>1. /\ task_info \in [Slot -> EntryType] /\ task_table \in [Slot -> Context] /\ cpu \in Context
      /\ task_global \in [tid : Slot, kstack : 0 .. NSLOT, schedule_lock : BOOLEAN]
  BY DEF SpawnTypeOK, Types, EntryType
<1>2. frame \in [Slot -> FrameType]
  BY DEF SpawnTypeOK, FrameType
<1>3. NSLOT \in Nat /\ 0 \in Slot /\ MAX_rank \in Nat /\ \A s \in Slot : s # NSLOT /\ s \in Nat
  BY SlotAssumption DEF Slot
<1>4. \A s \in Slot : ThreadOf(s) \in Context
  BY <1>1 DEF ThreadOf
<1> QED BY <1>1, <1>2, <1>3, <1>4 DEF me

\* A set of numbers that is not empty has a least one.
LEMMA MinIn ==
  ASSUME NEW S \in SUBSET Nat, S # {}
  PROVE  Min(S) \in S
<1>1. PICK x \in S : \A y \in S : ~(<<y, x>> \in OpToRel(<, Nat))
  BY NatLessThanWellFounded, WFMin
<1>2. OpToRel(<, Nat) = {ss \in Nat \X Nat : ss[1] < ss[2]}
  BY Zenon DEF OpToRel
<1>3. \A y \in S : ~(<<y, x>> \in {ss \in Nat \X Nat : ss[1] < ss[2]})
  BY <1>1, <1>2, Zenon
<1>4. \A y \in S : ~(y < x)
  <2> SUFFICES ASSUME NEW y \in S, y < x PROVE FALSE
    OBVIOUS
  <2>1. <<y, x>> \in Nat \X Nat /\ <<y, x>>[1] < <<y, x>>[2]
    OBVIOUS
  <2> QED BY <1>3, <2>1, Zenon
<1>5. \A y \in S : x <= y
  BY <1>4
<1>6. Min(S) = x
  BY <1>5, MinLemma
<1> QED BY <1>6

\* task_create gets a free entry, or takes that of task 0.
LEMMA FreshId ==
  ASSUME NEW info
  PROVE  /\ task_get_id(info) \in Slot
         /\ task_get_id(info) = 0 \/ info[task_get_id(info)] = FreeEntry
<1> DEFINE free == {s \in Slot : info[s] = FreeEntry}
<1>1. free \in SUBSET Nat /\ 0 \in Slot
  BY SlotAssumption DEF Slot
<1>2. CASE free = {}
  <2>1. task_get_id(info) = 0
    BY <1>2 DEF task_get_id
  <2> QED BY <1>1, <2>1
<1>3. CASE free # {}
  <2>1. task_get_id(info) = Min(free)
    BY <1>3 DEF task_get_id
  <2>2. Min(free) \in free
    <3> HIDE DEF free
    <3> QED BY <1>1, <1>3, MinIn
  <2> QED BY <2>1, <2>2
<1> QED BY <1>2, <1>3

\* Whatever is in the table, task_schedule returns a TID.
LEMMA NextId ==
  ASSUME NEW info \in [Slot -> EntryType], NEW t \in Slot
  PROVE  task_schedule(info, t) \in Slot
<1>1. NSLOT \in Nat /\ NSLOT > 0 /\ SCAN \in Nat
  BY SlotAssumption
<1>2. \A x \in Nat : AsTID(x) \in Slot
  BY <1>1 DEF AsTID, Slot
<1>3. PICK trid \in Slot : trid = AsTID(info[t].TRID)
  BY <1>2 DEF EntryType
<1>4. ASSUME NEW i \in Nat PROVE AsTID(Candidate(info, trid, i)) \in Slot
  <2>1. trid + i + 1 \in Nat
    BY <1>1, <1>3 DEF Slot
  <2>2. (trid + i + 1) % NSLOT \in Slot
    BY <1>1, <2>1 DEF Slot
  <2>3. Candidate(info, trid, i) \in Nat
    BY <2>2 DEF Candidate, EntryType
  <2> QED BY <1>2, <2>3
<1> DEFINE hits == Hits(info, trid)
<1>5. hits \in SUBSET Nat
  BY <1>1 DEF Hits
<1>6. hits # {} => Min(hits) \in Nat
  <2> HIDE DEF hits
  <2> QED BY <1>5, MinIn
<1>7. task_schedule(info, t) = IF hits = {} THEN trid ELSE AsTID(Candidate(info, trid, Min(hits)))
  BY <1>3 DEF task_schedule
<1> HIDE DEF hits
<1> QED BY <1>3, <1>4, <1>6, <1>7

LEMMA SpawnInitInv == SpawnInit => SpawnInv
<1> SUFFICES ASSUME SpawnInit PROVE SpawnInv
  OBVIOUS
<1>1. Init /\ frame = [s \in Slot |-> NoFrame]
  BY DEF SpawnInit
<1>2. TypeOK
  BY <1>1, InitInv DEF IInv
<1>3. Types(Nat)
  BY <1>2, SlotAssumption DEF TypeOK, Types
<1>4. 0 \in Slot /\ NoFunc \in Func
  BY SlotAssumption DEF Slot, Func
<1>5. SpawnTypeOK /\ \A s \in Slot : frame[s].at = "none"
  BY <1>1, <1>3, <1>4 DEF SpawnTypeOK, NoFrame
<1>6. /\ irq = FALSE /\ booted = 0 /\ task_table = [s \in Slot |-> ZeroContext]
      /\ task_global.tid = 0 /\ cpu.pc = "body"
  BY <1>1 DEF Init, FreshContext
<1>7. \A s \in Slot : CallInv(s)
  BY <1>5 DEF CallInv
<1> QED BY <1>5, <1>6, <1>7 DEF SpawnInv

\* What a running task finds, as the steps below use it.
LEMMA Running ==
  ASSUME SpawnInv, irq
  PROVE  /\ SpawnTypeOK /\ irq = TRUE /\ booted = NBOOT + 1 /\ booted > 0 /\ task_global.kstack = task_global.tid /\ me = task_global.tid
         /\ \A s \in Slot \ {0} : EntryInv(s)
         /\ \A s \in Slot : CallInv(s)
         /\ ThreadOf(me) = cpu
<1>1. irq = TRUE
  BY Zenon DEF SpawnInv, SpawnTypeOK, Types
<1>2. booted = NBOOT + 1 /\ booted > 0
  BY <1>1, BootAssumption DEF SpawnInv, NBOOT
<1> QED BY <1>1, <1>2 DEF SpawnInv, me, ThreadOf

LEMMA CreateCallStep ==
  ASSUME SpawnInv, NEW rank \in Ranks, NEW f \in Range(BootFuncs), Create(rank, f)
  PROVE  SpawnInv'
<1> DEFINE tid == task_get_id(task_info)
           new == IF RankAccepted(rank) THEN [at |-> "info", rank |-> rank, func |-> f, tid |-> tid]
                  ELSE [NoFrame EXCEPT !.at = "run"]
<1>1. /\ irq /\ cpu.pc = "body" /\ frame[me].at = "none" /\ frame' = [frame EXCEPT ![me] = new]
      /\ UNCHANGED <<task_info, task_table, task_global, cpu, irq, booted>>
  BY DEF Create, vars
<1>2. tid \in Slot /\ (tid = 0 \/ task_info[tid] = FreeEntry)
  BY FreshId
<1> HIDE DEF tid
<1>3. new \in FrameType /\ new.at \in {"info", "run"} /\ (new.at = "info" => new.tid = tid /\ RankAccepted(new.rank))
  BY <1>2, Running, SpawnTypes, <1>1 DEF FrameType, NoFrame, Func
<1> HIDE DEF new
<1>4. me' = me /\ \A s \in Slot : ThreadOf(s)' = ThreadOf(s)
  BY <1>1 DEF me, ThreadOf
<1>5. SpawnTypeOK'
  <2>1. frame' \in [Slot -> FrameType]
    BY <1>1, <1>3, Running, SpawnTypes
  <2>2. Types(Nat)'
    BY <1>1, Running DEF SpawnTypeOK, Types
  <2> QED BY <2>1, <2>2 DEF SpawnTypeOK, FrameType
<1>6. ASSUME NEW s \in Slot \ {0} PROVE EntryInv(s)'
  <2>1. EntryInv(s)
    BY <1>1, Running
  <2> QED BY <1>1, <1>4, <2>1 DEF EntryInv
<1>7. ASSUME NEW s \in Slot PROVE CallInv(s)'
  <2>1. CASE s = me
    <3>1. frame'[me] = new
      BY <1>1, Running, SpawnTypes
    <3>2. frame'[s] = new
      BY <2>1, <3>1
    <3>3. ThreadOf(s)'.pc = "body" /\ s = task_global'.tid
      BY <1>1, <1>4, <2>1, Running
    <3> QED BY <1>1, <1>2, <1>3, <3>2, <3>3 DEF CallInv
  <2>2. CASE s # me
    <3>1. frame'[s] = frame[s]
      BY <1>1, <2>2, Running, SpawnTypes
    <3>2. CallInv(s)
      BY <1>1, Running
    <3> QED BY <1>1, <1>4, <3>1, <3>2 DEF CallInv
  <2> QED BY <2>1, <2>2
<1>8. irq' /\ booted' > 0 /\ booted' = NBOOT + 1 /\ task_global'.kstack = task_global'.tid
  BY <1>1, Running
<1> QED BY <1>5, <1>6, <1>7, <1>8 DEF SpawnInv

LEMMA FillInfoStep == SpawnInv /\ FillInfo => SpawnInv'
<1> SUFFICES ASSUME SpawnInv, FillInfo PROVE SpawnInv'
  OBVIOUS
<1>1. PICK w \in StackWords :
         /\ irq /\ cpu.pc = "body" /\ frame[me].at = "info"
         /\ task_info' = [task_info EXCEPT ![frame[me].tid] = CreatedEntry(frame[me].rank, frame[me].func, w)]
         /\ frame' = [frame EXCEPT ![me].at = "table"]
         /\ UNCHANGED <<task_table, task_global, cpu, irq, booted>>
  BY DEF FillInfo, Goto
<1>2. PICK tid \in Slot, f \in Func, new \in {CreatedEntry(frame[me].rank, frame[me].func, w)} :
         /\ tid = frame[me].tid /\ f = frame[me].func
         /\ new = CreatedEntry(frame[me].rank, frame[me].func, w)
  BY <1>1, Running, SpawnTypes DEF FrameType
<1>3. RankAccepted(frame[me].rank) /\ (tid = 0 \/ task_info[tid] = FreeEntry)
  BY <1>1, <1>2, Running, SpawnTypes DEF CallInv
<1>4. new \in EntryType /\ new.status = "DEAD" /\ new.task_func = f
  <2>1. frame[me].rank \in Nat
    BY <1>1, Running, SpawnTypes, SpawnAssumption DEF FrameType
  <2>2. frame[me].rank \in 0 .. MAX_rank + 1
    BY <1>1, <1>3, <2>1, Running, SpawnTypes DEF RankAccepted
  <2> QED BY <1>2, <2>2, StackAssumption DEF CreatedEntry, EntryType, Status
<1>5. task_info' = [task_info EXCEPT ![tid] = new]
  BY <1>1, <1>2
<1>6. me' = me /\ me = task_global.tid /\ me \in Slot /\ \A s \in Slot : ThreadOf(s)' = ThreadOf(s)
  BY <1>1, Running, SpawnTypes DEF me, ThreadOf
<1>7. /\ frame' \in [Slot -> FrameType] /\ frame'[me].at = "table" /\ frame'[me].tid = tid /\ frame'[me].func = f
      /\ \A s \in Slot : s # me => frame'[s] = frame[s]
  BY <1>1, <1>2, Running, SpawnTypes DEF FrameType
<1>8. task_info' \in [Slot -> EntryType] /\ task_info'[tid] = new /\ \A s \in Slot : s # tid => task_info'[s] = task_info[s]
  BY <1>1, <1>4, <1>5, Running, SpawnTypes
<1>9. SpawnTypeOK'
  <2>1. Types(Nat)'
    BY <1>1, <1>8, Running DEF SpawnTypeOK, Types, EntryType
  <2> QED BY <1>7, <2>1 DEF SpawnTypeOK, FrameType
<1>10. ASSUME NEW s \in Slot \ {0} PROVE EntryInv(s)'
  <2>0. EntryInv(s)
    BY <1>1, Running
  <2>1. CASE s = tid
    <3>1. task_info[s] = FreeEntry
      BY <1>3, <2>1
    <3>2. ThreadOf(s).pc = "null"
      BY <2>0, <3>1 DEF EntryInv, FreeEntry
    <3> QED BY <1>6, <3>2 DEF EntryInv
  <2>2. CASE s # tid
    BY <1>6, <1>8, <2>0, <2>2 DEF EntryInv
  <2> QED BY <2>1, <2>2
<1>11. ASSUME NEW s \in Slot PROVE CallInv(s)'
  <2>0. CallInv(s)
    BY <1>1, Running
  <2>1. CASE s = me
    <3>1. ThreadOf(s)'.pc = "body" /\ s = task_global'.tid
      BY <1>1, <1>6, <2>1, Running
    <3> QED BY <1>4, <1>7, <1>8, <2>1, <3>1 DEF CallInv
  <2>2. CASE s # me
    <3>1. frame'[s] = frame[s] /\ frame[s].at \notin {"info", "table", "status"}
      BY <1>6, <1>7, <2>0, <2>2 DEF CallInv
    <3> QED BY <1>6, <2>0, <3>1 DEF CallInv
  <2> QED BY <2>1, <2>2
<1>12. irq' /\ booted' > 0 /\ booted' = NBOOT + 1 /\ task_global'.kstack = task_global'.tid
  BY <1>1, Running
<1> QED BY <1>9, <1>10, <1>11, <1>12 DEF SpawnInv

LEMMA FillTableStep == SpawnInv /\ FillTable => SpawnInv'
<1> SUFFICES ASSUME SpawnInv, FillTable PROVE SpawnInv'
  OBVIOUS
<1>1. /\ irq /\ cpu.pc = "body" /\ frame[me].at = "table"
      /\ task_table' = [task_table EXCEPT ![frame[me].tid] = FreshContext(frame[me].func)]
      /\ frame' = [frame EXCEPT ![frame[me].tid] = NoFrame, ![me] = [frame[me] EXCEPT !.at = "run"]]
      /\ UNCHANGED <<task_info, task_global, cpu, irq, booted>>
  BY DEF FillTable
<1>2. PICK tid \in Slot, f \in Func, new \in FrameType :
         tid = frame[me].tid /\ f = frame[me].func /\ new = [frame[me] EXCEPT !.at = "run"] /\ new.at = "run"
  <2>1. [frame[me] EXCEPT !.at = "run"] \in FrameType /\ [frame[me] EXCEPT !.at = "run"].at = "run"
    BY <1>1, Running, SpawnTypes DEF FrameType
  <2> QED BY <1>1, <2>1, Running, SpawnTypes DEF FrameType
<1>3. task_info[tid].status = "DEAD" /\ task_info[tid].task_func = f
  BY <1>1, <1>2, Running, SpawnTypes DEF CallInv
<1>4. FreshContext(f) \in Context /\ FreshContext(f).pc = "body" /\ FreshContext(f).fn = f
  BY SlotAssumption DEF FreshContext, Context
<1>5. me' = me /\ me = task_global.tid /\ me \in Slot /\ ThreadOf(me)' = cpu /\ ThreadOf(me) = cpu
  BY <1>1, Running, SpawnTypes DEF me, ThreadOf
<1>6. /\ task_table' \in [Slot -> Context]
      /\ \A s \in Slot : task_table'[s] = IF s = tid THEN FreshContext(f) ELSE task_table[s]
  BY <1>1, <1>2, <1>4, Running, SpawnTypes
<1>7. \A s \in Slot : s # me => ThreadOf(s)' = IF s = tid THEN FreshContext(f) ELSE ThreadOf(s)
  BY <1>1, <1>5, <1>6 DEF ThreadOf
<1>8. /\ frame' \in [Slot -> FrameType] /\ frame'[me] = new
      /\ \A s \in Slot : s # me => frame'[s] = IF s = tid THEN NoFrame ELSE frame[s]
  <2>1. NoFrame \in FrameType
    BY <1>1, Running, SpawnTypes DEF NoFrame, FrameType, Func
  <2>2. frame' = [frame EXCEPT ![tid] = NoFrame, ![me] = new]
    BY <1>1, <1>2
  <2> QED BY <1>1, <1>5, <2>1, <2>2, Running, SpawnTypes
<1>9. SpawnTypeOK'
  <2>1. Types(Nat)'
    BY <1>1, <1>6, Running DEF SpawnTypeOK, Types
  <2> QED BY <1>8, <2>1 DEF SpawnTypeOK, FrameType
<1>10. ASSUME NEW s \in Slot \ {0} PROVE EntryInv(s)'
  <2>0. EntryInv(s)
    BY <1>1, Running
  <2>1. CASE s = me
    BY <1>1, <1>5, <2>0, <2>1 DEF EntryInv
  <2>2. CASE s # me /\ s = tid
    BY <1>1, <1>3, <1>4, <1>7, <2>2 DEF EntryInv
  <2>3. CASE s # me /\ s # tid
    BY <1>1, <1>7, <2>0, <2>3 DEF EntryInv
  <2> QED BY <2>1, <2>2, <2>3
<1>11. ASSUME NEW s \in Slot PROVE CallInv(s)'
  <2>0. CallInv(s)
    BY <1>1, Running
  <2>1. CASE s = me
    BY <1>1, <1>2, <1>5, <1>8, <2>1 DEF CallInv
  <2>2. CASE s # me /\ s = tid
    <3>1. frame'[s].at = "none"
      BY <1>8, <2>2 DEF NoFrame
    <3> QED BY <3>1 DEF CallInv
  <2>3. CASE s # me /\ s # tid
    <3>1. frame'[s] = frame[s] /\ frame[s].at \notin {"info", "table", "status"} /\ ThreadOf(s)' = ThreadOf(s)
      BY <1>5, <1>7, <1>8, <2>0, <2>3 DEF CallInv
    <3> QED BY <2>0, <3>1 DEF CallInv
  <2> QED BY <2>1, <2>2, <2>3
<1>12. irq' /\ booted' > 0 /\ booted' = NBOOT + 1 /\ task_global'.kstack = task_global'.tid
  BY <1>1, Running
<1> QED BY <1>9, <1>10, <1>11, <1>12 DEF SpawnInv

LEMMA RunTRIDStep == SpawnInv /\ RunTRID => SpawnInv'
<1> SUFFICES ASSUME SpawnInv, RunTRID PROVE SpawnInv'
  OBVIOUS
<1>1. /\ irq /\ cpu.pc = "body" /\ frame[me].at = "run"
      /\ UNCHANGED <<task_table, task_global, cpu, irq, booted>>
  BY DEF RunTRID
<1>2. PICK tid \in Slot : tid = frame[me].tid
  BY <1>1, Running, SpawnTypes DEF FrameType
<1>3. IF task_info[tid].status # "DEAD"
      THEN frame' = [frame EXCEPT ![me] = NoFrame] /\ UNCHANGED task_info
      ELSE task_info' = [task_info EXCEPT ![tid].TRID = tid] /\ frame' = [frame EXCEPT ![me].at = "status"]
  BY <1>2 DEF RunTRID, Goto
<1>4. /\ me' = me /\ me = task_global.tid /\ me \in Slot /\ ThreadOf(me) = cpu
      /\ \A s \in Slot : ThreadOf(s)' = ThreadOf(s)
  BY <1>1, Running, SpawnTypes DEF me, ThreadOf
<1>5. /\ task_info' \in [Slot -> EntryType]
      /\ \A s \in Slot : /\ task_info'[s].status = task_info[s].status /\ task_info'[s].task_func = task_info[s].task_func
                         /\ \/ task_info'[s].TRID = task_info[s].TRID
                            \/ task_info[s].status = "DEAD" /\ task_info'[s].TRID = s
  <2>1. CASE task_info[tid].status # "DEAD"
    BY <1>1, <1>3, <2>1, Running, SpawnTypes
  <2>2. CASE task_info[tid].status = "DEAD"
    <3>1. task_info' = [task_info EXCEPT ![tid].TRID = tid] /\ tid \in Nat /\ task_info \in [Slot -> EntryType]
      BY <1>1, <1>3, <2>2, Running, SpawnTypes
    <3> QED BY <2>2, <3>1 DEF EntryType
  <2> QED BY <2>1, <2>2
<1>6. /\ frame' \in [Slot -> FrameType]
      /\ \A s \in Slot : s # me => frame'[s] = frame[s]
      /\ \/ frame'[me].at = "none"
         \/ frame'[me].at = "status" /\ frame'[me].tid = tid /\ task_info[tid].status = "DEAD"
  <2>1. CASE task_info[tid].status # "DEAD"
    <3>1. NoFrame \in FrameType /\ NoFrame.at = "none"
      BY <1>1, Running, SpawnTypes DEF NoFrame, FrameType, Func
    <3> QED BY <1>1, <1>3, <2>1, <3>1, Running, SpawnTypes
  <2>2. CASE task_info[tid].status = "DEAD"
    <3>1. frame' = [frame EXCEPT ![me].at = "status"] /\ frame \in [Slot -> FrameType]
      BY <1>1, <1>3, <2>2, Running, SpawnTypes
    <3> QED BY <1>2, <1>4, <2>2, <3>1 DEF FrameType
  <2> QED BY <2>1, <2>2
<1>7. SpawnTypeOK'
  <2>1. Types(Nat)'
    BY <1>1, <1>5, Running DEF SpawnTypeOK, Types, EntryType
  <2> QED BY <1>6, <2>1 DEF SpawnTypeOK, FrameType
<1>8. ASSUME NEW s \in Slot \ {0} PROVE EntryInv(s)'
  <2>1. EntryInv(s) /\ s # NSLOT
    BY <1>1, Running, SpawnTypes
  <2> QED BY <1>4, <1>5, <2>1 DEF EntryInv
<1>9. ASSUME NEW s \in Slot PROVE CallInv(s)'
  <2>0. CallInv(s)
    BY <1>1, Running
  <2>1. CASE s = me
    BY <1>1, <1>4, <1>5, <1>6, <2>1 DEF CallInv
  <2>2. CASE s # me
    <3>1. frame'[s] = frame[s] /\ frame[s].at \notin {"info", "table", "status"}
      BY <1>4, <1>6, <2>0, <2>2 DEF CallInv
    <3> QED BY <1>4, <2>0, <3>1 DEF CallInv
  <2> QED BY <2>1, <2>2
<1>10. irq' /\ booted' > 0 /\ booted' = NBOOT + 1 /\ task_global'.kstack = task_global'.tid
  BY <1>1, Running
<1> QED BY <1>7, <1>8, <1>9, <1>10 DEF SpawnInv

LEMMA RunStatusStep == SpawnInv /\ RunStatus => SpawnInv'
<1> SUFFICES ASSUME SpawnInv, RunStatus PROVE SpawnInv'
  OBVIOUS
<1>1. /\ irq /\ cpu.pc = "body" /\ frame[me].at = "status"
      /\ task_info' = [task_info EXCEPT ![frame[me].tid].status = "READY"]
      /\ frame' = [frame EXCEPT ![me] = NoFrame]
      /\ UNCHANGED <<task_table, task_global, cpu, irq, booted>>
  BY DEF RunStatus
<1>2. PICK tid \in Slot : tid = frame[me].tid
  BY <1>1, Running, SpawnTypes DEF FrameType
<1>3. task_info[tid].status = "DEAD"
  BY <1>1, <1>2, Running, SpawnTypes DEF CallInv
<1>4. /\ me = task_global.tid /\ me \in Slot /\ ThreadOf(me) = cpu
      /\ \A s \in Slot : ThreadOf(s)' = ThreadOf(s)
  BY <1>1, Running, SpawnTypes DEF me, ThreadOf
<1>5. /\ task_info' \in [Slot -> EntryType]
      /\ \A s \in Slot : /\ task_info'[s].TRID = task_info[s].TRID /\ task_info'[s].task_func = task_info[s].task_func
                         /\ \/ task_info'[s].status = task_info[s].status
                            \/ task_info[s].status = "DEAD" /\ task_info'[s].status = "READY"
  <2>1. task_info' = [task_info EXCEPT ![tid].status = "READY"] /\ task_info \in [Slot -> EntryType]
    BY <1>1, <1>2, Running, SpawnTypes
  <2> QED BY <1>3, <2>1 DEF EntryType, Status
<1>6. frame' \in [Slot -> FrameType] /\ frame'[me].at = "none" /\ \A s \in Slot : s # me => frame'[s] = frame[s]
  <2>1. NoFrame \in FrameType /\ NoFrame.at = "none"
    BY <1>1, Running, SpawnTypes DEF NoFrame, FrameType, Func
  <2> QED BY <1>1, <2>1, Running, SpawnTypes
<1>7. SpawnTypeOK'
  <2>1. Types(Nat)'
    BY <1>1, <1>5, Running DEF SpawnTypeOK, Types, EntryType
  <2> QED BY <1>6, <2>1 DEF SpawnTypeOK, FrameType
<1>8. ASSUME NEW s \in Slot \ {0} PROVE EntryInv(s)'
  <2>1. EntryInv(s)
    BY <1>1, Running
  <2> QED BY <1>4, <1>5, <2>1 DEF EntryInv
<1>9. ASSUME NEW s \in Slot PROVE CallInv(s)'
  <2>0. CallInv(s)
    BY <1>1, Running
  <2>1. CASE s = me
    BY <1>6, <2>1 DEF CallInv
  <2>2. CASE s # me
    <3>1. frame'[s] = frame[s] /\ frame[s].at \notin {"info", "table", "status"}
      BY <1>4, <1>6, <2>0, <2>2 DEF CallInv
    <3> QED BY <1>4, <2>0, <3>1 DEF CallInv
  <2> QED BY <2>1, <2>2
<1>10. irq' /\ booted' > 0 /\ booted' = NBOOT + 1 /\ task_global'.kstack = task_global'.tid
  BY <1>1, Running
<1> QED BY <1>7, <1>8, <1>9, <1>10 DEF SpawnInv

\* Booting: interrupts are off and nobody is in a call.
LEMMA SpawnBootStep == SpawnInv /\ (TaskInit \/ BootTask \/ Cli) /\ UNCHANGED frame => SpawnInv'
<1> SUFFICES ASSUME SpawnInv, TaskInit \/ BootTask \/ Cli, UNCHANGED frame PROVE SpawnInv'
  OBVIOUS
<1>1. SpawnTypeOK /\ booted \in Nat /\ NBOOT \in Nat /\ irq \in BOOLEAN
  BY BootAssumption, SMTT(30) DEF SpawnInv, SpawnTypeOK, Types, NBOOT
<1>2. CASE Cli
  <2>1. ~irq /\ irq' = TRUE /\ booted > 0 /\ booted = NBOOT + 1 /\ UNCHANGED <<task_info, task_table, task_global, cpu, booted>>
    BY <1>1, <1>2 DEF Cli
  <2>2. SpawnTypeOK'
    BY <1>1, <2>1 DEF SpawnTypeOK, Types
  <2>3. \A s \in Slot : ThreadOf(s)' = ThreadOf(s)
    BY <2>1 DEF ThreadOf
  <2>4. ASSUME NEW s \in Slot \ {0} PROVE EntryInv(s)'
    BY <2>1, <2>3 DEF SpawnInv, EntryInv
  <2>5. ASSUME NEW s \in Slot PROVE CallInv(s)'
    BY <2>1, <2>3 DEF SpawnInv, CallInv
  <2> QED BY <2>1, <2>2, <2>4, <2>5 DEF SpawnInv
<1>3. CASE TaskInit \/ BootTask
  <2>1. ASSUME NEW info \in [Slot -> EntryType], NEW f \in Func, CreateAndRun(info, task_table, f),
               \A s \in Slot \ {0} : /\ info[s].status \in {"READY", "DEAD"} /\ task_table[s].pc \in {"body", "TRID"}
                                            => task_table[s].fn = info[s].task_func
                                     /\ info[s].status = "STATUS_NULL" /\ info[s].TRID = NSLOT => task_table[s].pc = "null"
                                     /\ task_table[s].pc \in {"rank", "status"} => info[s].TRID # NSLOT
                                     /\ task_table[s].pc \in {"task_func", "context"} => info[s].status = "STATUS_NULL",
               ~irq, UNCHANGED <<cpu, irq>>, booted' > 0, booted' \in 0 .. NBOOT + 1,
               task_global'.tid = 0, task_global'.kstack = 0,
               task_global' \in [tid : Slot, kstack : 0 .. NSLOT, schedule_lock : BOOLEAN]
        PROVE  SpawnInv'
    <3>1. PICK tid \in Slot : tid = task_get_id(info)
      BY FreshId
    <3>2. PICK w \in StackWords : task_info' = task_run([info EXCEPT ![tid] = CreatedEntry(MAX_rank, f, w)], tid)
      BY <2>1, <3>1 DEF CreateAndRun
    <3>3. task_info' = [info EXCEPT ![tid] = [rank |-> MAX_rank, status |-> "READY", task_func |-> f, TRID |-> tid]]
      BY <3>2 DEF task_run, CreatedEntry
    <3>4. task_table' = [task_table EXCEPT ![tid] = FreshContext(f)]
      BY <2>1, <3>1 DEF CreateAndRun
    <3>5. FreshContext(f) \in Context /\ FreshContext(f).pc = "body" /\ FreshContext(f).fn = f
      BY SlotAssumption DEF FreshContext, Context
    <3>6. /\ task_info' \in [Slot -> EntryType]
          /\ task_info'[tid].status = "READY" /\ task_info'[tid].task_func = f /\ task_info'[tid].TRID = tid
          /\ \A s \in Slot : s # tid => task_info'[s] = info[s]
      BY <1>1, <3>3, SpawnTypes DEF EntryType, Status
    <3>7. task_table' \in [Slot -> Context] /\ \A s \in Slot : task_table'[s] = IF s = tid THEN FreshContext(f) ELSE task_table[s]
      BY <1>1, <3>4, <3>5, SpawnTypes
    <3>8. SpawnTypeOK'
      BY <1>1, <2>1, <3>6, <3>7 DEF SpawnTypeOK, Types, EntryType
    <3>9. \A s \in Slot \ {0} : ThreadOf(s)' = task_table'[s]
      BY <2>1 DEF ThreadOf
    <3>10. ASSUME NEW s \in Slot \ {0} PROVE EntryInv(s)'
      <4>1. CASE s = tid
        BY <1>1, <3>5, <3>6, <3>7, <3>9, <4>1, SpawnTypes DEF EntryInv
      <4>2. CASE s # tid
        BY <2>1, <3>6, <3>7, <3>9, <4>2 DEF EntryInv
      <4> QED BY <4>1, <4>2
    <3>11. cpu'.pc = "body" /\ \A s \in Slot : frame'[s].at = "none"
      BY <2>1 DEF SpawnInv
    <3>12. \A s \in Slot : CallInv(s)'
      BY <3>11 DEF CallInv
    <3> QED BY <2>1, <3>8, <3>10, <3>11, <3>12 DEF SpawnInv
  <2>2. CASE TaskInit
    <3>1. /\ booted = 0 /\ CreateAndRun([s \in Slot |-> FreeEntry], task_table, task_idle)
          /\ task_global' = [tid |-> 0, kstack |-> 0, schedule_lock |-> FALSE]
          /\ booted' = 1 /\ UNCHANGED <<cpu, irq>>
      BY <2>2 DEF TaskInit, FirstKstack
    <3>2. task_table = [s \in Slot |-> ZeroContext] /\ ~irq
      BY <1>1, <3>1 DEF SpawnInv
    <3>3. FreeEntry \in EntryType /\ task_idle \in Func
      BY <1>1, SpawnTypes DEF FreeEntry, EntryType, Status, Func
    <3>4. [s \in Slot |-> FreeEntry] \in [Slot -> EntryType]
      BY <3>3
    <3>5. \A s \in Slot : task_table[s].pc = "null"
      BY <3>2 DEF ZeroContext
    <3>6. /\ task_global'.tid = 0 /\ task_global'.kstack = 0 /\ booted' > 0 /\ booted' \in 0 .. NBOOT + 1
          /\ task_global' \in [tid : Slot, kstack : 0 .. NSLOT, schedule_lock : BOOLEAN]
      BY <1>1, <3>1, SpawnTypes
    <3> QED BY <2>1, <3>1, <3>2, <3>3, <3>4, <3>5, <3>6
  <2>3. CASE BootTask
    <3>1. /\ booted \in 1 .. NBOOT /\ CreateAndRun(task_info, task_table, BootFuncs[booted])
          /\ booted' = booted + 1 /\ UNCHANGED <<task_global, cpu, irq>>
      BY <2>3 DEF BootTask
    <3>2. ~irq /\ booted > 0
      BY <1>1, <3>1 DEF SpawnInv
    <3>3. PICK f \in Func : f = BootFuncs[booted]
      BY <3>1, BootAssumption DEF NBOOT, Func
    <3>4. /\ task_global'.tid = 0 /\ task_global'.kstack = 0 /\ booted' > 0 /\ booted' \in 0 .. NBOOT + 1
          /\ task_global' \in [tid : Slot, kstack : 0 .. NSLOT, schedule_lock : BOOLEAN]
      BY <1>1, <3>1, <3>2, SpawnTypes DEF SpawnInv
    <3>5. ASSUME NEW s \in Slot \ {0}
          PROVE  /\ task_info[s].status \in {"READY", "DEAD"} /\ task_table[s].pc \in {"body", "TRID"}
                       => task_table[s].fn = task_info[s].task_func
                 /\ task_info[s].status = "STATUS_NULL" /\ task_info[s].TRID = NSLOT => task_table[s].pc = "null"
                 /\ task_table[s].pc \in {"rank", "status"} => task_info[s].TRID # NSLOT
                 /\ task_table[s].pc \in {"task_func", "context"} => task_info[s].status = "STATUS_NULL"
      <4>1. EntryInv(s) /\ ThreadOf(s) = task_table[s]
        BY <3>2 DEF SpawnInv, ThreadOf
      <4> QED BY <4>1 DEF EntryInv
    <3>6. task_info \in [Slot -> EntryType]
      BY <1>1, SpawnTypes
    <3> QED BY <2>1, <3>1, <3>2, <3>3, <3>4, <3>5, <3>6
  <2> QED BY <1>3, <2>2, <2>3
<1> QED BY <1>2, <1>3

\* An interrupt, which finds nobody between two stores.
LEMMA SpawnTickStep ==
  ASSUME Masked, SpawnInv, SpawnTick, UNCHANGED frame
  PROVE  SpawnInv'
<1> DEFINE next == task_schedule(task_info, task_global.tid)
           saved == [task_table EXCEPT ![task_global.kstack] = cpu]
<1>1. /\ irq /\ task_table' = saved /\ cpu' = saved[next]
      /\ task_global' = [task_global EXCEPT !.tid = next, !.kstack = next]
      /\ UNCHANGED <<task_info, irq, booted>> /\ frame[me].at \notin {"info", "table", "status"}
  <2>1. frame[me].at \in {"none", "run"}
    BY DEF SpawnTick, InKernelCall
  <2> QED BY <2>1 DEF SpawnTick, Tick, IrqTaken, SaveSlot
<1>2. next \in Slot
  BY <1>1, Running, SpawnTypes, NextId
<1>3. saved = [s \in Slot |-> ThreadOf(s)]
  BY <1>1, Running, SpawnTypes DEF ThreadOf
<1> HIDE DEF next, saved
<1>4. /\ task_global' \in [tid : Slot, kstack : 0 .. NSLOT, schedule_lock : BOOLEAN]
      /\ task_global'.tid = next /\ task_global'.kstack = next
  <2>1. task_global \in [tid : Slot, kstack : 0 .. NSLOT, schedule_lock : BOOLEAN]
    BY <1>1, Running, SpawnTypes
  <2>2. next \in 0 .. NSLOT
    BY <1>2, SlotAssumption DEF Slot
  <2> QED BY <1>1, <1>2, <2>1, <2>2
<1>5. task_table' \in [Slot -> Context] /\ cpu' \in Context /\ \A s \in Slot : ThreadOf(s)' = ThreadOf(s)
  <2>1. task_table' \in [Slot -> Context] /\ cpu' = ThreadOf(next) /\ \A s \in Slot : task_table'[s] = ThreadOf(s)
    BY <1>1, <1>2, <1>3, Running, SpawnTypes
  <2>2. \A s \in Slot : ThreadOf(s)' = IF s = next THEN cpu' ELSE task_table'[s]
    BY <1>4 DEF ThreadOf
  <2> QED BY <1>1, <1>2, <2>1, <2>2, Running, SpawnTypes
<1>6. SpawnTypeOK'
  BY <1>1, <1>4, <1>5, Running DEF SpawnTypeOK, Types
<1>7. ASSUME NEW s \in Slot \ {0} PROVE EntryInv(s)'
  <2>1. EntryInv(s)
    BY <1>1, Running
  <2> QED BY <1>1, <1>5, <2>1 DEF EntryInv
<1>8. ASSUME NEW s \in Slot PROVE CallInv(s)'
  <2>1. CallInv(s)
    BY <1>1, Running
  <2>2. frame[s].at \notin {"info", "table", "status"}
    BY <1>1, <2>1, Running DEF CallInv
  <2> QED BY <1>5, <2>1, <2>2 DEF CallInv
<1>9. irq' /\ booted' > 0 /\ booted' = NBOOT + 1 /\ task_global'.kstack = task_global'.tid
  BY <1>1, <1>4, Running
<1> QED BY <1>6, <1>7, <1>8, <1>9 DEF SpawnInv

\* The function returns.
LEMMA SpawnReturnStep ==
  ASSUME SpawnInv, Return, frame[me].at = "none", UNCHANGED frame
  PROVE  SpawnInv'
<1>1. /\ irq /\ cpu.pc = "body" /\ cpu' = [cpu EXCEPT !.pc = "TRID"]
      /\ UNCHANGED <<task_info, task_table, task_global, irq, booted>>
  BY DEF Return
<1>2. cpu' \in Context /\ cpu'.pc = "TRID" /\ cpu'.fn = cpu.fn
  BY <1>1, Running, SpawnTypes DEF Context, DeletePc
<1>3. /\ me \in Slot /\ me = task_global.tid /\ ThreadOf(me) = cpu
      /\ \A s \in Slot : s = me => ThreadOf(s)' = cpu'
      /\ \A s \in Slot : s # me => ThreadOf(s)' = ThreadOf(s)
  <2>1. me \in Slot /\ me = task_global.tid /\ task_table \in [Slot -> Context]
    BY <1>1, Running, SpawnTypes DEF me
  <2>2. task_global'.tid = me /\ \A s \in Slot : s # me => task_table'[s] = task_table[s]
    BY <1>1, <2>1
  <2> QED BY <2>1, <2>2 DEF ThreadOf
<1>4. SpawnTypeOK'
  BY <1>1, <1>2, Running DEF SpawnTypeOK, Types
<1>5. ASSUME NEW s \in Slot \ {0} PROVE EntryInv(s)'
  <2>1. EntryInv(s)
    BY <1>1, Running
  <2>2. CASE s = me
    BY <1>1, <1>2, <1>3, <2>1, <2>2 DEF EntryInv
  <2>3. CASE s # me
    BY <1>1, <1>3, <2>1, <2>3 DEF EntryInv
  <2> QED BY <2>2, <2>3
<1>6. ASSUME NEW s \in Slot PROVE CallInv(s)'
  <2>1. CallInv(s)
    BY <1>1, Running
  <2>2. CASE s = me
    BY <2>2 DEF CallInv
  <2>3. CASE s # me
    BY <1>1, <1>3, <2>1, <2>3 DEF CallInv
  <2> QED BY <2>2, <2>3
<1>7. irq' /\ booted' > 0 /\ booted' = NBOOT + 1 /\ task_global'.kstack = task_global'.tid
  BY <1>1, Running
<1> QED BY <1>4, <1>5, <1>6, <1>7 DEF SpawnInv

\* A store of task_delete into task_info.
LEMMA SpawnDeleteFieldStep ==
  ASSUME SpawnInv, DeleteField, UNCHANGED frame
  PROVE  SpawnInv'
<1>1. /\ irq /\ cpu.pc \in {"TRID", "rank", "status", "task_func"}
      /\ task_info' = [task_info EXCEPT ![me][cpu.pc] = BssEntry[cpu.pc]]
      /\ cpu' = [cpu EXCEPT !.pc = AfterClearing[cpu.pc]]
      /\ UNCHANGED <<task_table, task_global, irq, booted>>
  BY DEF DeleteField, AfterClearing, Cleared, me
<1>2. /\ me \in Slot /\ me = task_global.tid /\ ThreadOf(me) = cpu
      /\ \A s \in Slot : s = me => ThreadOf(s)' = cpu'
      /\ \A s \in Slot : s # me => ThreadOf(s)' = ThreadOf(s)
  <2>1. me \in Slot /\ me = task_global.tid /\ task_table \in [Slot -> Context]
    BY <1>1, Running, SpawnTypes DEF me
  <2>2. task_global'.tid = me /\ \A s \in Slot : s # me => task_table'[s] = task_table[s]
    BY <1>1, <2>1
  <2> QED BY <2>1, <2>2 DEF ThreadOf
<1>3. frame[me].at = "none"
  BY <1>1, <1>2, Running DEF CallInv
<1>4. cpu' \in Context /\ cpu'.fn = cpu.fn /\ cpu'.pc = AfterClearing[cpu.pc]
  BY <1>1, Running, SpawnTypes DEF Context, DeletePc, AfterClearing
<1>5. /\ task_info' \in [Slot -> EntryType] /\ \A s \in Slot : s # me => task_info'[s] = task_info[s]
      /\ cpu.pc = "TRID" => task_info'[me] = [task_info[me] EXCEPT !.TRID = 0]
      /\ cpu.pc = "rank" => task_info'[me] = [task_info[me] EXCEPT !.rank = 0]
      /\ cpu.pc = "status" => task_info'[me] = [task_info[me] EXCEPT !.status = "STATUS_NULL"]
      /\ cpu.pc = "task_func" => task_info'[me] = [task_info[me] EXCEPT !.task_func = NoFunc]
  <2>1. BssEntry["TRID"] = 0 /\ BssEntry["rank"] = 0 /\ BssEntry["status"] = "STATUS_NULL" /\ BssEntry["task_func"] = NoFunc
    BY DEF BssEntry
  <2>2. task_info \in [Slot -> EntryType] /\ MAX_rank \in Nat /\ NoFunc \in Func /\ "STATUS_NULL" \in Status
    BY <1>1, Running, SpawnTypes DEF Func, Status
  <2> QED BY <1>1, <1>2, <2>1, <2>2 DEF EntryType
<1>6. SpawnTypeOK'
  BY <1>1, <1>4, <1>5, Running DEF SpawnTypeOK, Types, EntryType
<1>7. ASSUME NEW s \in Slot \ {0} PROVE EntryInv(s)'
  <2>1. EntryInv(s)
    BY <1>1, Running
  <2>2. CASE s # me
    BY <1>1, <1>2, <1>5, <2>1, <2>2 DEF EntryInv
  <2>3. CASE s = me
    <3>1. task_info[me] \in EntryType /\ NSLOT # 0
      BY <1>1, <1>2, Running, SpawnTypes
    <3>2. CASE cpu.pc = "TRID"
      <4>1. cpu'.pc = "rank" /\ task_info'[me].TRID = 0
        BY <1>4, <1>5, <3>1, <3>2 DEF AfterClearing, EntryType
      <4> QED BY <1>2, <2>3, <3>1, <4>1 DEF EntryInv
    <3>3. CASE cpu.pc = "rank"
      <4>1. cpu'.pc = "status" /\ task_info'[me].TRID = task_info[me].TRID
        BY <1>4, <1>5, <3>1, <3>3 DEF AfterClearing, EntryType
      <4> QED BY <1>2, <2>1, <2>3, <3>3, <4>1 DEF EntryInv
    <3>4. CASE cpu.pc = "status"
      <4>1. cpu'.pc = "task_func" /\ task_info'[me].TRID = task_info[me].TRID /\ task_info'[me].status = "STATUS_NULL"
        BY <1>4, <1>5, <3>1, <3>4 DEF AfterClearing, EntryType
      <4> QED BY <1>2, <2>1, <2>3, <3>4, <4>1 DEF EntryInv
    <3>5. CASE cpu.pc = "task_func"
      <4>1. cpu'.pc = "context" /\ task_info'[me].TRID = task_info[me].TRID /\ task_info'[me].status = task_info[me].status
        BY <1>4, <1>5, <3>1, <3>5 DEF AfterClearing, EntryType
      <4> QED BY <1>2, <2>1, <2>3, <3>5, <4>1 DEF EntryInv
    <3> QED BY <1>1, <3>2, <3>3, <3>4, <3>5
  <2> QED BY <2>2, <2>3
<1>8. ASSUME NEW s \in Slot PROVE CallInv(s)'
  <2>1. CallInv(s)
    BY <1>1, Running
  <2>2. CASE s = me
    BY <1>3, <2>2 DEF CallInv
  <2>3. CASE s # me
    <3>1. frame[s].at \notin {"info", "table", "status"}
      BY <1>2, <2>1, <2>3 DEF CallInv
    <3> QED BY <1>2, <2>1, <2>3, <3>1 DEF CallInv
  <2> QED BY <2>2, <2>3
<1>9. irq' /\ booted' > 0 /\ booted' = NBOOT + 1 /\ task_global'.kstack = task_global'.tid
  BY <1>1, Running
<1> QED BY <1>6, <1>7, <1>8, <1>9 DEF SpawnInv

\* The stores of task_delete into task_table.
LEMMA SpawnDeleteContextStep ==
  ASSUME SpawnInv, DeleteContext, UNCHANGED frame
  PROVE  SpawnInv'
<1>1. PICK pc \in {"TRID", "stray"} :
         /\ irq /\ cpu.pc = "context" /\ task_table' = [task_table EXCEPT ![me] = ZeroContext]
         /\ cpu' = [cpu EXCEPT !.pc = pc] /\ UNCHANGED <<task_info, task_global, irq, booted>>
  BY DEF DeleteContext, me
<1>2. cpu' \in Context /\ cpu'.pc = pc
  BY <1>1, Running, SpawnTypes DEF Context, DeletePc
<1>3. task_table' \in [Slot -> Context]
  <2>1. ZeroContext \in Context
    BY SlotAssumption DEF ZeroContext, Context, Func
  <2> QED BY <1>1, <2>1, Running, SpawnTypes
<1>4. /\ me \in Slot /\ me = task_global.tid /\ ThreadOf(me) = cpu
      /\ \A s \in Slot : s = me => ThreadOf(s)' = cpu'
      /\ \A s \in Slot : s # me => ThreadOf(s)' = ThreadOf(s)
  <2>1. me \in Slot /\ me = task_global.tid /\ task_table \in [Slot -> Context]
    BY <1>1, Running, SpawnTypes DEF me
  <2>2. task_global'.tid = me /\ \A s \in Slot : s # me => task_table'[s] = task_table[s]
    BY <1>1, <2>1
  <2> QED BY <2>1, <2>2 DEF ThreadOf
<1>5. frame[me].at = "none"
  BY <1>1, <1>4, Running DEF CallInv
<1>6. SpawnTypeOK'
  BY <1>1, <1>2, <1>3, Running DEF SpawnTypeOK, Types
<1>7. ASSUME NEW s \in Slot \ {0} PROVE EntryInv(s)'
  <2>1. EntryInv(s)
    BY <1>1, Running
  <2>2. CASE s = me
    <3>1. task_info[s].status = "STATUS_NULL" /\ task_info[s].TRID # NSLOT
      BY <1>1, <1>4, <2>1, <2>2 DEF EntryInv
    <3> QED BY <1>1, <1>2, <1>4, <2>2, <3>1 DEF EntryInv
  <2>3. CASE s # me
    BY <1>1, <1>4, <2>1, <2>3 DEF EntryInv
  <2> QED BY <2>2, <2>3
<1>8. ASSUME NEW s \in Slot PROVE CallInv(s)'
  <2>1. CallInv(s)
    BY <1>1, Running
  <2>2. CASE s = me
    BY <1>5, <2>2 DEF CallInv
  <2>3. CASE s # me
    BY <1>1, <1>4, <2>1, <2>3 DEF CallInv
  <2> QED BY <2>2, <2>3
<1>9. irq' /\ booted' > 0 /\ booted' = NBOOT + 1 /\ task_global'.kstack = task_global'.tid
  BY <1>1, Running
<1> QED BY <1>6, <1>7, <1>8, <1>9 DEF SpawnInv

LEMMA SpawnNextInv == ASSUME Masked PROVE SpawnInv /\ [SpawnNext]_spawnVars => SpawnInv'
<1> SUFFICES ASSUME SpawnInv, [SpawnNext]_spawnVars PROVE SpawnInv'
  OBVIOUS
<1>1. ASSUME NEW rank \in Ranks, NEW f \in Range(BootFuncs), Create(rank, f) PROVE SpawnInv'
  BY <1>1, CreateCallStep
<1>2. CASE FillInfo
  BY <1>2, FillInfoStep
<1>3. CASE FillTable
  BY <1>3, FillTableStep
<1>4. CASE RunTRID
  BY <1>4, RunTRIDStep
<1>5. CASE RunStatus
  BY <1>5, RunStatusStep
<1>6. CASE Base
  <2>1. UNCHANGED frame
    BY <1>6 DEF Base
  <2>2. CASE TaskInit \/ BootTask \/ Cli
    BY <2>1, <2>2, SpawnBootStep
  <2>3. CASE SpawnTick
    BY <2>1, <2>3, SpawnTickStep
  <2>4. CASE DeleteField
    BY <2>1, <2>4, SpawnDeleteFieldStep
  <2>5. CASE DeleteContext
    BY <2>1, <2>5, SpawnDeleteContextStep
  <2>6. CASE Return /\ frame[me].at = "none"
    BY <2>1, <2>6, SpawnReturnStep
  <2> QED BY <1>6, <2>2, <2>3, <2>4, <2>5, <2>6 DEF Base, task_delete
<1>7. CASE UNCHANGED spawnVars
  <2>1. UNCHANGED <<task_info, task_table, task_global, cpu, irq, booted, frame>>
    BY <1>7 DEF spawnVars
  <2>2. \A s \in Slot : ThreadOf(s)' = ThreadOf(s)
    BY <2>1 DEF ThreadOf
  <2>3. SpawnTypeOK'
    BY <2>1 DEF SpawnInv, SpawnTypeOK, Types
  <2>4. ASSUME booted > 0, NEW s \in Slot \ {0} PROVE EntryInv(s)'
    BY <2>1, <2>2, <2>4 DEF SpawnInv, EntryInv
  <2>5. ASSUME NEW s \in Slot PROVE CallInv(s)'
    BY <2>1, <2>2 DEF SpawnInv, CallInv
  <2> QED BY <2>1, <2>3, <2>4, <2>5 DEF SpawnInv
<1> QED BY <1>1, <1>2, <1>3, <1>4, <1>5, <1>6, <1>7 DEF SpawnNext

\* Tasks that create tasks, with interrupts masked in each call: whatever TRID
\* task_create finds on its stack and whoever is dispatched by it, every task but
\* task 0 executes the function it was created for.
THEOREM SpawnedRunTheirFunctionTheorem == Masked /\ SpawnSpec => []SpawnedRunTheirFunction
<1> SUFFICES ASSUME Masked PROVE SpawnSpec => []SpawnedRunTheirFunction
  OBVIOUS
<1>1. SpawnInv /\ [SpawnNext]_spawnVars => SpawnInv'
  BY SpawnNextInv
<1>2. SpawnSpec => []SpawnInv
  BY <1>1, SpawnInitInv, PTL DEF SpawnSpec
<1>3. SpawnInv => SpawnedRunTheirFunction
  <2> SUFFICES ASSUME SpawnInv, NEW s \in Slot \ {0}, task_info[s].TRID = s, task_info[s].status = "READY",
                      ThreadOf(s).pc \in {"body", "TRID"}
               PROVE  ThreadOf(s).fn = task_info[s].task_func
    BY DEF SpawnedRunTheirFunction, SpawnInv
  <2>1. CASE booted > 0
    BY <2>1 DEF SpawnInv, EntryInv
  <2>2. CASE ~(booted > 0)
    <3>1. booted = 0
      BY <2>2, BootAssumption DEF SpawnInv, SpawnTypeOK, Types, NBOOT
    <3>2. ThreadOf(s) = ZeroContext
      BY <3>1, BootAssumption DEF SpawnInv, ThreadOf, NBOOT
    <3> QED BY <3>2 DEF ZeroContext
  <2> QED BY <2>1, <2>2
<1> QED BY <1>2, <1>3, PTL

\* No call of task_create changes the function of a task that is there, task 0
\* apart, which is what task_get_id returns when the table is full.
THEOREM OnlyTaskZeroIsOverwrittenTheorem == Masked /\ SpawnSpec => OnlyTaskZeroIsOverwritten
<1> SUFFICES ASSUME Masked PROVE SpawnSpec => OnlyTaskZeroIsOverwritten
  OBVIOUS
<1>1. SpawnInv /\ [SpawnNext]_spawnVars => SpawnInv'
  BY SpawnNextInv
<1>2. SpawnSpec => []SpawnInv
  BY <1>1, SpawnInitInv, PTL DEF SpawnSpec
<1>3. SpawnInv /\ [SpawnNext]_spawnVars
         => \A s \in Slot \ {0} : task_info[s].status \in {"READY", "DEAD"} /\ booted > 0
                                     => task_info'[s].task_func \in {task_info[s].task_func, NoFunc}
  <2> SUFFICES ASSUME SpawnInv, [SpawnNext]_spawnVars, NEW s \in Slot \ {0},
                      task_info[s].status \in {"READY", "DEAD"}, booted > 0
               PROVE  task_info'[s].task_func \in {task_info[s].task_func, NoFunc}
    OBVIOUS
  <2>0. task_info \in [Slot -> EntryType]
    BY SpawnTypes DEF SpawnInv
  <2>1. CASE task_info' = task_info
    BY <2>1
  <2>2. CASE FillInfo
    <3>1. PICK w \in StackWords : 
             /\ irq /\ frame[me].at = "info"
             /\ task_info' = [task_info EXCEPT ![frame[me].tid] = CreatedEntry(frame[me].rank, frame[me].func, w)]
      BY <2>2 DEF FillInfo
    <3>2. frame[me].tid = 0 \/ task_info[frame[me].tid] = FreeEntry
      BY <3>1, Running, SpawnTypes DEF CallInv
    <3>3. s # frame[me].tid
      BY <3>2 DEF FreeEntry
    <3> QED BY <2>0, <3>1, <3>3
  <2>3. CASE RunTRID
    BY <2>0, <2>3 DEF RunTRID, EntryType
  <2>4. CASE RunStatus
    BY <2>0, <2>4 DEF RunStatus, EntryType
  <2>5. CASE DeleteField
    <3>1. task_info' = [task_info EXCEPT ![me][cpu.pc] = BssEntry[cpu.pc]] /\ cpu.pc \in {"TRID", "rank", "status", "task_func"}
      BY <2>5 DEF DeleteField, Cleared, me, AfterClearing
    <3>2. BssEntry["task_func"] = NoFunc
      BY DEF BssEntry
    <3> QED BY <2>0, <3>1, <3>2 DEF EntryType
  <2>6. CASE TaskInit \/ BootTask
    <3>1. BootTask
      BY <2>6 DEF TaskInit
    <3>2. PICK f, w : task_info' = task_run([task_info EXCEPT ![task_get_id(task_info)] = CreatedEntry(MAX_rank, f, w)],
                                            task_get_id(task_info))
      BY <3>1 DEF BootTask, CreateAndRun
    <3>3. s # task_get_id(task_info)
      <4>1. task_get_id(task_info) = 0 \/ task_info[task_get_id(task_info)] = FreeEntry
        BY FreshId
      <4> QED BY <4>1 DEF FreeEntry
    <3>4. PICK tid : tid = task_get_id(task_info)
      OBVIOUS
    <3> QED BY <2>0, <3>2, <3>3, <3>4 DEF task_run
  <2> QED BY <2>1, <2>2, <2>3, <2>4, <2>5, <2>6
          DEF SpawnNext, Base, Create, FillTable, Cli, SpawnTick, Tick, Return, task_delete, DeleteContext, spawnVars, vars
<1> QED BY <1>2, <1>3, PTL DEF OnlyTaskZeroIsOverwritten, SpawnSpec
=============================================================================
