---------------------------- MODULE ThreadsProofs ----------------------------
(***************************************************************************)
(* The list of threads, for any number of pages and any sequence of calls. *)
(* The invariant says what next is without following it: the thread with   *)
(* the next larger tid.  What following it gives, and that the loops of    *)
(* add_task, remove_task and schedule end, is derived from that.           *)
(***************************************************************************)
EXTENDS Threads, TLAPS, FiniteSetTheorems, WellFoundedInduction, SequenceTheorems

Tcbs == [Page -> [tid : -1 .. MAX_TID, state : State, wq_exit : Seq(Page), next : PageOrNull]]

\* The threads u are linked in t in the order of their tids, which are below n.
Linked(t, u, head, n) ==
    /\ \A b \in u : t[b].tid \in 0 .. n - 1
    /\ \A b, c \in u : t[b].tid = t[c].tid => b = c
    /\ head = NULL => u = {}
    /\ head # NULL => head \in u /\ \A c \in u : t[head].tid <= t[c].tid
    /\ \A b \in u : t[b].next = NULL => \A c \in u : t[c].tid <= t[b].tid
    /\ \A b \in u : t[b].next # NULL =>
          /\ t[b].next \in u /\ t[b].tid < t[t[b].next].tid
          /\ \A c \in u : t[c].tid <= t[b].tid \/ t[t[b].next].tid <= t[c].tid

\* Whoever is not running is READY, and a sleep that has begun has not counted a tick.
TInv == /\ TypeOK
        /\ Linked(tcb, used, g_task_head, tid)
        /\ \A b \in used : b # g_task_running => tcb[b].state = "READY"
        /\ cpu = "loops" => g_task_running # NULL /\ g_task_running \notin used
        /\ g_timer_ticks = 0 /\ (asleep # <<>> => g_task_running # NULL)
-----------------------------------------------------------------------------
(* Induction, and what it says of a walk through the list.                 *)

LEMMA PageCount == Cardinality(Page) \in Nat /\ Cardinality(Page) >= 1 /\ Steps = 0 .. Cardinality(Page)
<1>1. Cardinality(Page) \in Nat /\ Cardinality(Page) # 0
  BY ThreadAssumption, FS_CardinalityType, FS_EmptySet
<1> QED BY <1>1 DEF Steps

\* A set of numbers that is not empty has a least one.
LEMMA LeastOf ==
  ASSUME NEW S \in SUBSET Nat, S # {}
  PROVE  \E x \in S : \A y \in S : x <= y
<1>1. PICK x \in S : \A y \in S : ~(<<y, x>> \in OpToRel(<, Nat))
  BY NatLessThanWellFounded, WFMin
<1>2. OpToRel(<, Nat) = {ss \in Nat \X Nat : ss[1] < ss[2]}
  BY Zenon DEF OpToRel
<1>3. \A y \in S : ~(<<y, x>> \in {ss \in Nat \X Nat : ss[1] < ss[2]})
  BY <1>1, <1>2, Zenon
<1>4. \A y \in S : ~(y < x)
  <2> SUFFICES ASSUME NEW y \in S, y < x PROVE FALSE
    OBVIOUS
  <2>1. <<y, x>> \in Nat \X Nat /\ <<y, x>>[1] < <<y, x>>[2]
    OBVIOUS
  <2> QED BY <1>3, <2>1, Zenon
<1> QED BY <1>4

\* What holds of 0 and passes from a number to the next holds of all up to n.
LEMMA Upwards ==
  ASSUME NEW n \in Nat, NEW good, 0 \in good, \A i \in 0 .. n - 1 : i \in good => i + 1 \in good
  PROVE  0 .. n \subseteq good
<1> SUFFICES ASSUME NEW k \in 0 .. n, k \notin good PROVE FALSE
  OBVIOUS
<1> DEFINE bad == {i \in 0 .. n : i \notin good}
<1>1. bad \in SUBSET Nat /\ bad # {}
  OBVIOUS
<1>2. PICK x \in bad : \A y \in bad : x <= y
  BY <1>1, LeastOf
<1>3. x \in 0 .. n /\ x \notin good /\ x # 0
  BY <1>2
<1>4. x - 1 \in 0 .. n - 1 /\ (x - 1) + 1 = x
  BY <1>3
<1>5. x - 1 \in good
  <2>1. ~(x <= x - 1) /\ x - 1 \in 0 .. n
    BY <1>3
  <2> QED BY <1>2, <2>1
<1> QED BY <1>3, <1>4, <1>5

\* A walk of as many steps as there are pages exists.
LEMMA WalkExists ==
  ASSUME NEW start \in PageOrNull, NEW succ \in [PageOrNull -> PageOrNull]
  PROVE  \E f \in [Steps -> PageOrNull] : f[0] = start /\ \A i \in Steps \ {0} : f[i] = succ[f[i - 1]]
<1> DEFINE S == PageOrNull
           Walks(m, f) == f[0] = start /\ \A i \in 1 .. m : f[i] = succ[f[i - 1]]
           good == {m \in Nat : \E f \in [0 .. m -> S] : Walks(m, f)}
<1>1. 0 \in good
  <2>1. [i \in 0 .. 0 |-> start] \in [0 .. 0 -> S] /\ Walks(0, [i \in 0 .. 0 |-> start])
    OBVIOUS
  <2> QED BY <2>1
<1>2. ASSUME NEW m \in Nat, m \in good PROVE m + 1 \in good
  <2>1. PICK f \in [0 .. m -> S] : Walks(m, f)
    BY <1>2
  <2> DEFINE g == [i \in 0 .. m + 1 |-> IF i <= m THEN f[i] ELSE succ[f[m]]]
  <2>2. f[m] \in S /\ succ[f[m]] \in S
    BY <2>1
  <2>3. g \in [0 .. m + 1 -> S]
    BY <2>2
  <2>4. g[0] = start
    BY <2>1
  <2>5. ASSUME NEW i \in 1 .. m + 1 PROVE g[i] = succ[g[i - 1]]
    <3>1. i - 1 \in 0 .. m /\ g[i - 1] = f[i - 1]
      OBVIOUS
    <3>2. CASE i <= m
      BY <2>1, <3>1, <3>2
    <3>3. CASE i = m + 1
      BY <3>1, <3>3
    <3> QED BY <3>2, <3>3
  <2>6. Walks(m + 1, g)
    BY <2>4, <2>5
  <2> HIDE DEF g, Walks
  <2> QED BY <2>3, <2>6
<1>3. PICK n \in Nat : Steps = 0 .. n
  BY PageCount
<1>4. 0 .. n \subseteq good
  <2> HIDE DEF good
  <2> QED BY <1>1, <1>2, Upwards
<1>5. PICK f \in [0 .. n -> S] : Walks(n, f)
  BY <1>4
<1>6. Steps \ {0} = 1 .. n
  BY <1>3
<1> QED BY <1>3, <1>5, <1>6

\* A walk that goes up all the time, as key measures it, is shorter than there are
\* pages: nothing is met twice.
LEMMA NoEndlessWalk ==
  ASSUME NEW at \in [Steps -> Page], NEW key \in [Page -> Int],
         \A i \in Steps \ {0} : key[at[i - 1]] < key[at[i]]
  PROVE  FALSE
<1> DEFINE n == Cardinality(Page)
<1>1. n \in Nat /\ Steps = 0 .. n /\ IsFiniteSet(Page)
  BY PageCount, ThreadAssumption
<1> HIDE DEF n
<1>2. ASSUME NEW i \in 0 .. n, NEW k \in 0 .. n, i < k PROVE key[at[i]] < key[at[k]]
  <2> DEFINE good == {m \in Nat : m <= i \/ m > n \/ key[at[i]] < key[at[m]]}
  <2>1. 0 \in good
    OBVIOUS
  <2>2. ASSUME NEW m \in 0 .. n - 1, m \in good PROVE m + 1 \in good
    <3>1. m + 1 \in Steps \ {0} /\ (m + 1) - 1 = m /\ m \in Steps /\ i \in Steps
      BY <1>1
    <3>2. key[at[m]] < key[at[m + 1]] /\ key[at[m]] \in Int /\ key[at[m + 1]] \in Int /\ key[at[i]] \in Int
      BY <3>1
    <3>3. m < i \/ m = i \/ key[at[i]] < key[at[m]]
      BY <1>1, <2>2
    <3> QED BY <1>1, <3>2, <3>3
  <2>3. k \in good
    <3> HIDE DEF good
    <3> QED BY <1>1, <2>1, <2>2, Upwards
  <2>4. ~(k <= i) /\ ~(k > n)
    BY <1>1, <1>2
  <2> QED BY <2>3, <2>4
<1>3. IsFiniteSet(Steps) /\ Cardinality(Steps) = n + 1
  BY <1>1, FS_Interval
<1>4. PICK x, y \in Steps : x # y /\ at[x] = at[y]
  <2>1. Cardinality(Page) < Cardinality(Steps)
    BY <1>1, <1>3 DEF n
  <2> QED BY <1>1, <1>3, <2>1, FS_PigeonHole
<1>5. key[at[x]] \in Int
  OBVIOUS
<1>6. x < y \/ y < x
  BY <1>1, <1>4
<1> QED BY <1>1, <1>2, <1>4, <1>5, <1>6

\* What the definition of Walk, a function of itself, comes to.
LEMMA WalkIs ==
  ASSUME NEW b \in PageOrNull, NEW succ \in [PageOrNull -> PageOrNull]
  PROVE  /\ Walk(b, succ) \in [Steps -> PageOrNull] /\ Walk(b, succ)[0] = b
         /\ \A i \in Steps \ {0} : Walk(b, succ)[i] = succ[Walk(b, succ)[i - 1]]
<1> DEFINE Is(at) == at = [i \in Steps |-> IF i = 0 THEN b ELSE succ[at[i - 1]]]
<1>1. PICK f \in [Steps -> PageOrNull] : f[0] = b /\ \A i \in Steps \ {0} : f[i] = succ[f[i - 1]]
  BY WalkExists
<1>2. Is(f)
  <2>1. f = [i \in Steps |-> f[i]]
    BY <1>1
  <2>2. ASSUME NEW i \in Steps, i # 0 PROVE f[i] = succ[f[i - 1]]
    BY <1>1, <2>2, PageCount
  <2> QED BY <1>1, <2>1, <2>2
<1>3. Walk(b, succ) = CHOOSE at : Is(at)
  BY DEF Walk
<1>4. Is(Walk(b, succ))
  <2> HIDE DEF Is
  <2> QED BY <1>2, <1>3, Zenon
<1>5. PICK at : at = Walk(b, succ) /\ Is(at)
  BY <1>4, Zenon
<1>6. at[0] = b /\ \A i \in Steps \ {0} : at[i] = succ[at[i - 1]]
  BY <1>5, PageCount
<1>7. at = [i \in Steps |-> at[i]]
  BY <1>5
<1>8. \A i \in Steps : at[i] \in PageOrNull
  <2> DEFINE good == {i \in Nat : i \in Steps => at[i] \in PageOrNull}
  <2>1. 0 \in good
    BY <1>6
  <2>2. ASSUME NEW i \in 0 .. Cardinality(Page) - 1, i \in good PROVE i + 1 \in good
    <3>1. i + 1 \in Steps \ {0} /\ (i + 1) - 1 = i /\ i \in Steps
      BY PageCount
    <3>2. at[i] \in PageOrNull
      BY <2>2, <3>1
    <3>3. at[i + 1] = succ[at[i]]
      BY <1>6, <3>1
    <3> QED BY <3>1, <3>2, <3>3
  <2>3. 0 .. Cardinality(Page) \subseteq good
    <3> HIDE DEF good
    <3> QED BY <2>1, <2>2, PageCount, Upwards
  <2> QED BY <2>3, PageCount
<1>9. at \in [Steps -> PageOrNull]
  BY <1>7, <1>8
<1> QED BY <1>5, <1>6, <1>9, Zenon
-----------------------------------------------------------------------------
(* The list.                                                               *)

\* From the head, next leads to every thread and to nothing else.
LEMMA ListIs ==
  ASSUME NEW t \in Tcbs, NEW u \in SUBSET Page, NEW head \in PageOrNull, NEW n \in Nat, Linked(t, u, head, n)
  PROVE  List(t, head) = u
<1> DEFINE succ == [p \in PageOrNull |-> IF p = NULL THEN NULL ELSE t[p].next]
<1>0. NULL \notin Page /\ \A p \in Page : t[p].next \in PageOrNull /\ t[p].tid \in Int
  BY ThreadAssumption DEF Tcbs
<1>1. succ \in [PageOrNull -> PageOrNull]
  BY <1>0 DEF PageOrNull
<1>2. PICK at \in [Steps -> PageOrNull] :
         at = Onwards(t, head) /\ at[0] = head /\ \A i \in Steps \ {0} : at[i] = succ[at[i - 1]]
  <2>1. Onwards(t, head) = Walk(head, succ)
    BY DEF Onwards
  <2> HIDE DEF succ
  <2> QED BY <1>1, <2>1, WalkIs
<1>3. List(t, head) = {at[i] : i \in Steps} \ {NULL}
  BY <1>2 DEF List
<1>4. \A i \in Steps : at[i] \in u \cup {NULL}
  <2> DEFINE good == {i \in Nat : i \in Steps => at[i] \in u \cup {NULL}}
  <2>1. 0 \in good
    BY <1>2 DEF Linked
  <2>2. ASSUME NEW i \in 0 .. Cardinality(Page) - 1, i \in good PROVE i + 1 \in good
    <3>1. i + 1 \in Steps \ {0} /\ (i + 1) - 1 = i /\ i \in Steps
      BY PageCount
    <3>2. at[i] \in u \cup {NULL}
      BY <2>2, <3>1
    <3>3. at[i + 1] = IF at[i] = NULL THEN NULL ELSE t[at[i]].next
      BY <1>2, <3>1
    <3>4. at[i + 1] \in u \cup {NULL}
      BY <3>2, <3>3 DEF Linked
    <3> QED BY <3>4
  <2>3. 0 .. Cardinality(Page) \subseteq good
    <3> HIDE DEF good
    <3> QED BY <2>1, <2>2, PageCount, Upwards
  <2> QED BY <2>3, PageCount
<1>5. ASSUME NEW c \in u, \A i \in Steps : at[i] # c PROVE FALSE
  <2> DEFINE good == {i \in Nat : i \in Steps => at[i] \in u /\ t[at[i]].tid < t[c].tid}
  <2>1. 0 \in good
    <3>1. at[0] = head /\ head # c
      BY <1>2, <1>5, PageCount
    <3>2. head \in u /\ t[head].tid <= t[c].tid /\ t[head].tid # t[c].tid
      BY <3>1 DEF Linked
    <3>3. t[head].tid \in Int /\ t[c].tid \in Int
      BY <1>0, <3>2
    <3> QED BY <3>1, <3>2, <3>3
  <2>2. ASSUME NEW i \in 0 .. Cardinality(Page) - 1, i \in good PROVE i + 1 \in good
    <3>1. i + 1 \in Steps \ {0} /\ (i + 1) - 1 = i /\ i \in Steps
      BY PageCount
    <3>2. at[i] \in u /\ t[at[i]].tid < t[c].tid /\ at[i] \in Page
      BY <2>2, <3>1
    <3>3. at[i + 1] = t[at[i]].next /\ at[i + 1] # c
      BY <1>0, <1>2, <1>5, <3>1, <3>2
    <3>4. t[at[i]].tid \in Int /\ t[c].tid \in Int
      BY <1>0, <3>2
    <3>5. at[i + 1] # NULL
      BY <3>2, <3>3, <3>4 DEF Linked
    <3>6. at[i + 1] \in u /\ t[at[i + 1]].tid <= t[c].tid /\ t[at[i + 1]].tid # t[c].tid
      BY <3>2, <3>3, <3>4, <3>5 DEF Linked
    <3>7. t[at[i + 1]].tid \in Int
      BY <1>0, <3>6
    <3> QED BY <3>4, <3>6, <3>7
  <2>3. 0 .. Cardinality(Page) \subseteq good
    <3> HIDE DEF good
    <3> QED BY <2>1, <2>2, PageCount, Upwards
  <2>4. \A i \in Steps : at[i] \in u
    BY <2>3, PageCount
  <2> DEFINE key == [p \in Page |-> t[p].tid]
  <2>5. at \in [Steps -> Page] /\ key \in [Page -> Int]
    BY <1>0, <1>2, <2>4
  <2>6. ASSUME NEW i \in Steps \ {0} PROVE key[at[i - 1]] < key[at[i]]
    <3>1. i - 1 \in Steps /\ at[i - 1] \in u /\ at[i] \in u
      BY <2>4, PageCount
    <3>2. at[i] = t[at[i - 1]].next /\ at[i] # NULL
      BY <1>0, <1>2, <3>1
    <3>3. t[at[i - 1]].tid < t[at[i]].tid
      BY <3>1, <3>2 DEF Linked
    <3> QED BY <3>1, <3>3
  <2> HIDE DEF key
  <2> QED BY <2>5, <2>6, NoEndlessWalk
<1> QED BY <1>0, <1>3, <1>4, <1>5

\* schedule comes back to g_task_running, if it meets nobody before that.
LEMMA ScheduleReturns ==
  ASSUME NEW t \in Tcbs, used \in SUBSET Page, g_task_head \in PageOrNull, tid \in Nat,
         Linked(t, used, g_task_head, tid), g_task_running \in used
  PROVE  ScheduleEnds(t)
<1> SUFFICES ASSUME ~ScheduleEnds(t) PROVE FALSE
  OBVIOUS
<1> DEFINE succ == [p \in PageOrNull |->
                      IF p = NULL THEN NULL ELSE IF t[p].next = NULL THEN g_task_head ELSE t[p].next]
           key == [p \in Page |-> IF t[p].tid >= t[g_task_running].tid THEN t[p].tid ELSE t[p].tid + tid]
<1>1. NULL \notin Page /\ \A p \in Page : t[p].next \in PageOrNull /\ t[p].tid \in Int
  BY ThreadAssumption DEF Tcbs
<1>2. succ \in [PageOrNull -> PageOrNull] /\ g_task_running \in PageOrNull /\ g_task_running \in Page
  BY <1>1 DEF PageOrNull
<1>3. PICK at \in [Steps -> PageOrNull] :
         /\ at = Selected(t) /\ at[0] = g_task_running
         /\ \A i \in Steps \ {0} : at[i] = succ[at[i - 1]]
  <2>1. Selected(t) = Walk(g_task_running, succ)
    BY DEF Selected
  <2> HIDE DEF succ
  <2> QED BY <1>2, <2>1, WalkIs
<1>4. \A i \in Steps \ {0} : at[i] # g_task_running
  BY <1>3 DEF ScheduleEnds, StopsAt
<1>5. g_task_head \in used /\ g_task_head # NULL
  BY <1>2 DEF Linked
<1>6. ASSUME NEW b \in used
      PROVE  /\ succ[b] \in used /\ succ[b] # NULL
             /\ succ[b] # g_task_running => key[b] < key[succ[b]]
  <2>1. b \in Page /\ b # NULL /\ t[b].tid \in Int
    BY <1>1
  <2>2. succ[b] = IF t[b].next = NULL THEN g_task_head ELSE t[b].next
    BY <2>1 DEF PageOrNull
  <2>3. t[b].tid \in 0 .. tid - 1 /\ t[g_task_running].tid \in 0 .. tid - 1 /\ t[g_task_head].tid \in 0 .. tid - 1
    BY <1>5 DEF Linked
  <2>4. CASE t[b].next = NULL
    <3>1. succ[b] = g_task_head
      BY <2>2, <2>4
    <3>2. t[g_task_running].tid <= t[b].tid /\ t[g_task_head].tid <= t[g_task_running].tid
      BY <1>5, <2>4 DEF Linked
    <3>3. g_task_head # g_task_running => t[g_task_head].tid # t[g_task_running].tid
      BY <1>5 DEF Linked
    <3>4. key[b] = t[b].tid
      BY <2>1, <2>3, <3>2
    <3>5. g_task_head # g_task_running => key[g_task_head] = t[g_task_head].tid + tid
      BY <1>5, <2>3, <3>2, <3>3
    <3> HIDE DEF key
    <3> QED BY <1>5, <2>3, <3>1, <3>4, <3>5
  <2>5. CASE t[b].next # NULL
    <3> DEFINE c == t[b].next
    <3>1. succ[b] = c
      BY <2>2, <2>5
    <3>2. c \in used /\ t[b].tid < t[c].tid
      BY <2>5 DEF Linked
    <3>3. t[g_task_running].tid <= t[b].tid \/ t[c].tid <= t[g_task_running].tid
      BY <2>5 DEF Linked
    <3>4. c # g_task_running => t[c].tid # t[g_task_running].tid
      BY <3>2 DEF Linked
    <3>5. t[c].tid \in 0 .. tid - 1 /\ c \in Page
      BY <3>2 DEF Linked
    <3>6. c # g_task_running => key[b] < key[c]
      <4> HIDE DEF c
      <4>1. /\ key[b] = IF t[b].tid >= t[g_task_running].tid THEN t[b].tid ELSE t[b].tid + tid
            /\ key[c] = IF t[c].tid >= t[g_task_running].tid THEN t[c].tid ELSE t[c].tid + tid
        BY <2>1, <3>5
      <4> HIDE DEF key
      <4> QED BY <2>3, <3>2, <3>3, <3>4, <3>5, <4>1
    <3> HIDE DEF key, c
    <3> QED BY <1>1, <2>5, <3>1, <3>2, <3>6
  <2> QED BY <2>4, <2>5
<1>7. \A i \in Steps : at[i] \in used
  <2> HIDE DEF succ, key
  <2> DEFINE good == {i \in Nat : i \in Steps => at[i] \in used}
  <2>1. 0 \in good
    BY <1>3
  <2>2. ASSUME NEW i \in 0 .. Cardinality(Page) - 1, i \in good PROVE i + 1 \in good
    <3>1. i + 1 \in Steps \ {0} /\ (i + 1) - 1 = i /\ i \in Steps
      BY PageCount
    <3>2. at[i] \in used
      BY <2>2, <3>1
    <3> QED BY <1>3, <1>6, <3>1, <3>2
  <2>3. 0 .. Cardinality(Page) \subseteq good
    <3> HIDE DEF good
    <3> QED BY <2>1, <2>2, PageCount, Upwards
  <2> QED BY <2>3, PageCount
<1>8. at \in [Steps -> Page] /\ key \in [Page -> Int]
  BY <1>1, <1>3, <1>7
<1>9. ASSUME NEW i \in Steps \ {0} PROVE key[at[i - 1]] < key[at[i]]
  <2> HIDE DEF succ, key
  <2>1. i - 1 \in Steps /\ at[i - 1] \in used /\ at[i] = succ[at[i - 1]] /\ at[i] # g_task_running
    BY <1>3, <1>4, <1>7, PageCount
  <2> QED BY <1>6, <2>1
<1> HIDE DEF key
<1> QED BY <1>8, <1>9, NoEndlessWalk

\* The links do not depend on the states and the queues.
LEMMA SameLinks ==
  ASSUME NEW t \in Tcbs, NEW v \in Tcbs, NEW u \in SUBSET Page, NEW head, NEW n, Linked(t, u, head, n),
         \A b \in u : v[b].tid = t[b].tid /\ v[b].next = t[b].next
  PROVE  Linked(v, u, head, n)
BY DEF Linked

\* add_task makes v of t, and h of the head, for a thread new that is not in the list.
Adds(t, u, head, n, new, v, h) ==
    /\ Linked(t, u, head, n)
    /\ new \in Page \ u /\ t[new].tid = n /\ t[new].next = NULL
    /\ v = add_task(t, head, new) /\ h = IF head = NULL THEN new ELSE head

LEMMA AddTask ==
  ASSUME NEW t \in Tcbs, NEW u \in SUBSET Page, NEW head \in PageOrNull, NEW n \in Nat,
         NEW new, NEW v, NEW h, Adds(t, u, head, n, new, v, h)
  PROVE  v \in Tcbs /\ (\A b \in Page : v[b].state = t[b].state) /\ Linked(v, u \cup {new}, h, n + 1)
<1>0. /\ Linked(t, u, head, n) /\ new \in Page \ u /\ t[new].tid = n /\ t[new].next = NULL
      /\ v = add_task(t, head, new) /\ h = IF head = NULL THEN new ELSE head
  BY DEF Adds
<1> USE <1>0
<1>1. List(t, head) = u
  BY ListIs
<1>2. v = [b \in Page |-> IF b \in u /\ t[b].next = NULL THEN [t[b] EXCEPT !.next = new] ELSE t[b]]
  BY <1>1 DEF add_task
<1>3. \A b \in Page : v[b] = IF b \in u /\ t[b].next = NULL THEN [t[b] EXCEPT !.next = new] ELSE t[b]
  BY <1>2
<1>4. v \in Tcbs
  <2>1. \A b \in Page : v[b] \in [tid : -1 .. MAX_TID, state : State, wq_exit : Seq(Page), next : PageOrNull]
    BY <1>3, ZenonT(30) DEF Tcbs, PageOrNull
  <2>2. v = [b \in Page |-> v[b]]
    BY <1>2
  <2> QED BY <2>1, <2>2 DEF Tcbs
<1>5. \A b \in Page : /\ v[b].tid = t[b].tid /\ v[b].state = t[b].state
                      /\ v[b].next = IF b \in u /\ t[b].next = NULL THEN new ELSE t[b].next
  BY <1>2 DEF Tcbs
<1>6. NULL \notin Page /\ \A b \in Page : t[b].tid \in Int
  BY ThreadAssumption DEF Tcbs
<1>7. ASSUME NEW b \in u \cup {new}, NEW c \in u \cup {new}, v[b].tid = v[c].tid PROVE b = c
  BY <1>5, <1>7 DEF Linked
<1>8. \A b \in u \cup {new} : v[b].tid \in 0 .. n
  BY <1>5 DEF Linked
<1>9. h # NULL /\ h \in u \cup {new} /\ \A c \in u \cup {new} : v[h].tid <= v[c].tid
  BY <1>5, <1>6 DEF Linked
<1>10. ASSUME NEW b \in u \cup {new}, v[b].next = NULL PROVE \A c \in u \cup {new} : v[c].tid <= v[b].tid
  <2>1. b = new
    BY <1>5, <1>6, <1>10
  <2> QED BY <1>5, <2>1 DEF Linked
<1>11. ASSUME NEW b \in u \cup {new}, v[b].next # NULL
       PROVE  /\ v[b].next \in u \cup {new} /\ v[b].tid < v[v[b].next].tid
              /\ \A c \in u \cup {new} : v[c].tid <= v[b].tid \/ v[v[b].next].tid <= v[c].tid
  <2>1. b \in u
    BY <1>5, <1>11
  <2>2. CASE t[b].next = NULL
    <3>1. v[b].next = new /\ v[new].tid = n
      BY <1>5, <2>1, <2>2
    <3>2. \A c \in u : t[c].tid <= t[b].tid
      BY <2>1, <2>2 DEF Linked
    <3>3. v[b].tid \in 0 .. n - 1
      BY <1>5, <2>1 DEF Linked
    <3> QED BY <1>5, <1>6, <2>1, <3>1, <3>2, <3>3
  <2>3. CASE t[b].next # NULL
    <3>1. v[b].next = t[b].next
      BY <1>5, <2>1, <2>3
    <3>2. /\ t[b].next \in u /\ t[b].tid < t[t[b].next].tid
          /\ \A c \in u : t[c].tid <= t[b].tid \/ t[t[b].next].tid <= t[c].tid
      BY <2>1, <2>3 DEF Linked
    <3>3. t[t[b].next].tid \in 0 .. n - 1
      BY <3>2 DEF Linked
    <3> QED BY <1>5, <2>1, <3>1, <3>2, <3>3
  <2> QED BY <2>2, <2>3
<1>12. Linked(v, u \cup {new}, h, n + 1)
  <2>1. (n + 1) - 1 = n
    OBVIOUS
  <2> QED BY <1>7, <1>8, <1>9, <1>10, <1>11, <2>1 DEF Linked
<1> QED BY <1>4, <1>5, <1>12

\* remove_task, and the kfree after it.
LEMMA RemoveTask ==
  ASSUME NEW t \in Tcbs, NEW u \in SUBSET Page, NEW head \in PageOrNull, NEW n \in Nat, Linked(t, u, head, n),
         NEW tsk \in u, NEW v \in kfree(remove_task(t, head, tsk), tsk),
         NEW h, tsk = head => h = t[tsk].next, tsk # head => h = head
  PROVE  v \in Tcbs /\ (\A b \in Page : v[b].state = t[b].state) /\ Linked(v, u \ {tsk}, h, n)
<1>1. List(t, head) = u
  BY ListIs
<1>2. PICK r : r = [b \in Page |-> IF b \in u /\ t[b].next = tsk THEN [t[b] EXCEPT !.next = t[tsk].next] ELSE t[b]]
  OBVIOUS
<1>3. r = remove_task(t, head, tsk)
  BY <1>1, <1>2 DEF remove_task
<1>4. r \in Tcbs
  BY <1>2, SMTT(30) DEF Tcbs, PageOrNull
<1>5. \A b \in Page : /\ r[b].tid = t[b].tid /\ r[b].state = t[b].state
                      /\ r[b].next = IF b \in u /\ t[b].next = tsk THEN t[tsk].next ELSE t[b].next
  BY <1>2 DEF Tcbs
<1>6. PICK x \in {r[tsk].tid, 0, POINTER} : v = [r EXCEPT ![tsk].tid = x]
  BY <1>3 DEF kfree
<1>7. x \in -1 .. MAX_TID
  BY <1>4, <1>6, ThreadAssumption DEF Tcbs, POINTER
<1>8. v \in Tcbs
  BY <1>4, <1>6, <1>7 DEF Tcbs
<1>9. \A b \in Page : v[b].state = t[b].state /\ (b # tsk => v[b].tid = t[b].tid)
                      /\ v[b].next = IF b \in u /\ t[b].next = tsk THEN t[tsk].next ELSE t[b].next
  <2>1. \A b \in Page : v[b].state = r[b].state /\ v[b].next = r[b].next /\ (b # tsk => v[b].tid = r[b].tid)
    BY <1>4, <1>6 DEF Tcbs
  <2> QED BY <1>5, <2>1
<1>10. NULL \notin Page /\ \A b \in Page : t[b].tid \in Int
  BY ThreadAssumption DEF Tcbs
<1> DEFINE w == u \ {tsk}
<1>11. /\ \A b \in w : v[b].tid \in 0 .. n - 1
       /\ \A b, c \in w : v[b].tid = v[c].tid => b = c
  BY <1>9 DEF Linked
<1>12. h = NULL => w = {}
  <2> SUFFICES ASSUME h = NULL, NEW c \in w PROVE FALSE
    OBVIOUS
  <2>1. tsk = head /\ t[tsk].next = NULL
    BY DEF Linked
  <2>2. t[c].tid <= t[tsk].tid /\ t[tsk].tid <= t[c].tid /\ t[c].tid \in Int /\ t[tsk].tid \in Int
    BY <1>10, <2>1 DEF Linked
  <2>3. t[c].tid = t[tsk].tid
    BY <2>2
  <2> QED BY <2>3 DEF Linked
<1>13. ASSUME h # NULL PROVE h \in w /\ \A c \in w : v[h].tid <= v[c].tid
  <2>1. CASE tsk = head
    <3>1. h = t[tsk].next /\ t[tsk].next # NULL
      BY <1>13, <2>1
    <3>2. h \in u /\ t[tsk].tid < t[h].tid /\ \A c \in u : t[c].tid <= t[tsk].tid \/ t[h].tid <= t[c].tid
      BY <3>1 DEF Linked
    <3>3. \A c \in u : t[tsk].tid <= t[c].tid
      BY <2>1, <1>10 DEF Linked
    <3>4. \A c \in w : t[c].tid # t[tsk].tid
      BY DEF Linked
    <3>5. h # tsk
      BY <1>10, <3>2
    <3>6. \A c \in w : t[h].tid <= t[c].tid
      BY <1>10, <3>2, <3>3, <3>4
    <3> QED BY <1>9, <3>2, <3>5, <3>6
  <2>2. CASE tsk # head
    <3>1. h = head /\ head # NULL
      BY <1>13, <2>2
    <3> QED BY <1>9, <2>2, <3>1 DEF Linked
  <2> QED BY <2>1, <2>2
<1>14. ASSUME NEW b \in w, v[b].next = NULL PROVE \A c \in w : v[c].tid <= v[b].tid
  <2> SUFFICES ASSUME NEW c \in w PROVE t[c].tid <= t[b].tid
    BY <1>9
  <2>1. CASE t[b].next = tsk
    <3>1. t[tsk].next = NULL
      BY <1>9, <1>14, <2>1
    <3>2. t[b].next # NULL
      BY <1>10, <2>1
    <3>3. t[c].tid <= t[b].tid \/ t[tsk].tid <= t[c].tid
      BY <2>1, <3>2 DEF Linked
    <3>4. t[c].tid <= t[tsk].tid /\ t[c].tid # t[tsk].tid
      BY <3>1 DEF Linked
    <3> QED BY <1>10, <3>3, <3>4
  <2>2. CASE t[b].next # tsk
    BY <1>9, <1>14, <2>2 DEF Linked
  <2> QED BY <2>1, <2>2
<1>15. ASSUME NEW b \in w, v[b].next # NULL
       PROVE  /\ v[b].next \in w /\ v[b].tid < v[v[b].next].tid
              /\ \A c \in w : v[c].tid <= v[b].tid \/ v[v[b].next].tid <= v[c].tid
  <2>1. CASE t[b].next = tsk
    <3> DEFINE d == t[tsk].next
    <3>1. v[b].next = d /\ d # NULL
      BY <1>9, <1>15, <2>1
    <3>2. t[b].tid < t[tsk].tid /\ \A c \in u : t[c].tid <= t[b].tid \/ t[tsk].tid <= t[c].tid
      BY <1>10, <2>1 DEF Linked
    <3>3. d \in u /\ t[tsk].tid < t[d].tid /\ \A c \in u : t[c].tid <= t[tsk].tid \/ t[d].tid <= t[c].tid
      BY <3>1 DEF Linked
    <3>4. \A c \in w : t[c].tid # t[tsk].tid
      BY DEF Linked
    <3> HIDE DEF d
    <3>5. d # tsk /\ t[b].tid < t[d].tid
      BY <1>10, <3>2, <3>3
    <3>6. \A c \in w : t[c].tid <= t[b].tid \/ t[d].tid <= t[c].tid
      BY <1>10, <3>2, <3>3, <3>4
    <3> QED BY <1>9, <3>1, <3>3, <3>5, <3>6
  <2>2. CASE t[b].next # tsk
    <3>1. v[b].next = t[b].next /\ t[b].next # NULL
      BY <1>9, <1>15, <2>2
    <3>2. /\ t[b].next \in u /\ t[b].tid < t[t[b].next].tid
          /\ \A c \in u : t[c].tid <= t[b].tid \/ t[t[b].next].tid <= t[c].tid
      BY <3>1 DEF Linked
    <3> QED BY <1>9, <2>2, <3>1, <3>2
  <2> QED BY <2>1, <2>2
<1>16. Linked(v, w, h, n)
  <2> HIDE DEF w
  <2> QED BY <1>11, <1>12, <1>13, <1>14, <1>15 DEF Linked
<1> QED BY <1>8, <1>9, <1>16
-----------------------------------------------------------------------------
(* The invariant.                                                          *)

LEMMA ThreadInit == Init => TInv
<1> SUFFICES ASSUME Init PROVE TInv
  OBVIOUS
<1>1. PICK task0 \in Page :
         /\ tcb = [b \in Page |-> IF b = task0 THEN NewThread(0) ELSE Fresh]
         /\ used = {task0} /\ g_task_head = task0 /\ g_task_running = NULL
         /\ tid = 1 /\ cpu = "runs" /\ asleep = <<>> /\ g_timer_ticks = 0
  BY DEF Init
<1>2. tcb \in Tcbs
  BY <1>1, ThreadAssumption DEF Tcbs, NewThread, Fresh, State, PageOrNull
<1>3. tcb[task0].tid = 0 /\ tcb[task0].next = NULL /\ tcb[task0].state = "READY"
  BY <1>1 DEF NewThread
<1>4. TypeOK
  BY <1>1, <1>2, ThreadAssumption DEF TypeOK, Tcbs, PageOrNull
<1>5. Linked(tcb, used, g_task_head, tid)
  BY <1>1, <1>3, ThreadAssumption DEF Linked
<1> QED BY <1>1, <1>3, <1>4, <1>5 DEF TInv

\* The types, as the steps use them.
LEMMA ThreadTypes ==
  ASSUME TInv
  PROVE  /\ tcb \in Tcbs /\ used \in SUBSET Page /\ g_task_head \in PageOrNull /\ g_task_running \in PageOrNull
         /\ tid \in Nat /\ tid <= MAX_TID + 1 /\ MAX_TID \in Nat /\ NULL \notin Page
         /\ Linked(tcb, used, g_task_head, tid)
BY ThreadAssumption DEF TInv, TypeOK, Tcbs

LEMMA RunAsTask0Step == TInv /\ run_as_task0 => TInv'
<1> SUFFICES ASSUME TInv, run_as_task0 PROVE TInv'
  OBVIOUS
<1>1. /\ g_task_running = NULL /\ g_task_running' \in used
      /\ UNCHANGED <<tcb, used, g_task_head, tid, cpu, asleep, g_timer_ticks>>
  BY DEF run_as_task0
<1>2. TypeOK'
  BY <1>1 DEF TInv, TypeOK, PageOrNull
<1>3. Linked(tcb, used, g_task_head, tid)'
  BY <1>1 DEF TInv
<1>4. \A b \in used : tcb[b].state = "READY"
  BY <1>1, ThreadTypes DEF TInv
<1>5. cpu # "loops" /\ g_timer_ticks = 0
  BY <1>1 DEF TInv
<1> QED BY <1>1, <1>2, <1>3, <1>4, <1>5 DEF TInv

LEMMA CreateStep == TInv /\ sys_task_create => TInv'
<1> SUFFICES ASSUME TInv, sys_task_create PROVE TInv'
  OBVIOUS
<1>1. UNCHANGED <<g_task_running, cpu, asleep, g_timer_ticks>> /\ tid' = tid + 1 /\ tid <= MAX_TID /\ cpu = "runs"
  BY DEF sys_task_create, CallerRuns
<1>2. PICK new \in Page \ used :
         /\ used' = used \cup {new}
         /\ tcb' = add_task([tcb EXCEPT ![new] = NewThread(tid)], g_task_head, new)
         /\ g_task_head' = IF g_task_head = NULL THEN new ELSE g_task_head
  BY DEF sys_task_create
<1>3. PICK t : t = [tcb EXCEPT ![new] = NewThread(tid)]
  OBVIOUS
<1>4. NewThread(tid) \in [tid : -1 .. MAX_TID, state : State, wq_exit : Seq(Page), next : PageOrNull]
  BY <1>1, ThreadTypes DEF NewThread, State, PageOrNull
<1>5. t \in Tcbs /\ t[new] = NewThread(tid) /\ \A b \in Page : b # new => t[b] = tcb[b]
  BY <1>3, <1>4, ThreadTypes DEF Tcbs
<1>6. t[new].tid = tid /\ t[new].next = NULL /\ t[new].state = "READY"
  BY <1>5 DEF NewThread
<1>7. Linked(t, used, g_task_head, tid)
  BY <1>5, ThreadTypes, SameLinks
<1>8. /\ tcb' \in Tcbs /\ \A b \in Page : tcb'[b].state = t[b].state
      /\ Linked(tcb', used', g_task_head', tid')
  <2>1. used \in SUBSET Page /\ g_task_head \in PageOrNull /\ tid \in Nat
    BY ThreadTypes
  <2>2. tcb' = add_task(t, g_task_head, new)
    BY <1>2, <1>3
  <2>3. tcb' \in Tcbs /\ (\A b \in Page : tcb'[b].state = t[b].state) /\ Linked(tcb', used \cup {new}, g_task_head', tid + 1)
    <3>1. PICK u \in SUBSET Page, h \in PageOrNull, n \in Nat, v \in {tcb'}, k \in {g_task_head'} :
             /\ u = used /\ h = g_task_head /\ n = tid /\ v = tcb' /\ k = g_task_head'
      BY <2>1
    <3>2. t \in Tcbs /\ Adds(t, u, h, n, new, v, k)
      BY <1>2, <1>5, <1>6, <1>7, <2>2, <3>1 DEF Adds
    <3>3. v \in Tcbs /\ (\A b \in Page : v[b].state = t[b].state) /\ Linked(v, u \cup {new}, k, n + 1)
      BY <3>2, AddTask, Zenon
    <3> QED BY <3>1, <3>3, Zenon
  <2> QED BY <1>1, <1>2, <2>3
<1>9. TypeOK'
  <2>1. used' \subseteq Page /\ g_task_head' \in PageOrNull /\ tid' \in 0 .. MAX_TID + 1
    BY <1>1, <1>2, ThreadTypes DEF PageOrNull
  <2> QED BY <1>1, <1>8, <2>1 DEF TInv, TypeOK, Tcbs
<1>10. \A b \in used' : b # g_task_running' => tcb'[b].state = "READY"
  BY <1>1, <1>2, <1>5, <1>6, <1>8, ZenonT(30) DEF TInv, TypeOK
<1> QED BY <1>1, <1>8, <1>9, <1>10, SMTT(30) DEF TInv

\* schedule is called by a thread, and returns to it unless its page is free.
LEMMA ScheduleStep ==
  ASSUME TInv, NEW t \in Tcbs, Linked(t, used, g_task_head, tid), g_task_running # NULL, schedule(t)
  PROVE  /\ g_task_running' = g_task_running /\ cpu' \in {"runs", "loops"}
         /\ cpu' = "loops" => g_task_running \notin used /\ ~ScheduleEnds(t)
<1>1. g_task_running' = g_task_running /\ cpu' = IF ScheduleEnds(t) THEN "runs" ELSE "loops"
  BY DEF schedule, switch_to
<1>2. g_task_running \in used => ScheduleEnds(t)
  BY ThreadTypes, ScheduleReturns
<1> QED BY <1>1, <1>2

LEMMA ExitStep == TInv /\ sys_task_exit => TInv'
<1> SUFFICES ASSUME TInv, sys_task_exit PROVE TInv'
  OBVIOUS
<1>1. PICK t : /\ t = [wake_up(tcb, tcb[g_task_running].wq_exit) EXCEPT ![g_task_running].state = "ZOMBIE"]
               /\ tcb' = t /\ schedule(t) /\ UNCHANGED <<used, g_task_head, tid, asleep, g_timer_ticks>>
               /\ g_task_running # NULL
  BY DEF sys_task_exit
<1>2. g_task_running \in Page
  BY <1>1, ThreadTypes DEF PageOrNull
<1>3. PICK w : w = wake_up(tcb, tcb[g_task_running].wq_exit)
  OBVIOUS
<1>4. w \in Tcbs /\ \A b \in Page : /\ w[b].tid = tcb[b].tid /\ w[b].next = tcb[b].next
                                    /\ w[b].state \in {"READY", tcb[b].state}
  BY <1>3, ThreadTypes, ZenonT(30) DEF wake_up, Tcbs, State
<1>5. t = [w EXCEPT ![g_task_running].state = "ZOMBIE"]
  BY <1>1, <1>3, SMTT(30)
<1>6. t \in Tcbs /\ \A b \in Page : /\ t[b].tid = w[b].tid /\ t[b].next = w[b].next
                                    /\ b # g_task_running => t[b].state = w[b].state
  BY <1>2, <1>4, <1>5 DEF Tcbs, State
<1>7. Linked(t, used, g_task_head, tid)
  BY <1>4, <1>6, ThreadTypes, SameLinks
<1>8. /\ g_task_running' = g_task_running /\ cpu' \in {"runs", "loops"}
      /\ cpu' = "loops" => g_task_running \notin used
  BY <1>1, <1>6, <1>7, ScheduleStep
<1>9. TypeOK'
  BY <1>1, <1>6, <1>8 DEF TInv, TypeOK, Tcbs
<1>10. \A b \in used' : b # g_task_running' => tcb'[b].state = "READY"
  BY <1>1, <1>4, <1>6, <1>8 DEF TInv, TypeOK
<1> QED BY <1>1, <1>7, <1>8, <1>9, <1>10 DEF TInv

LEMMA YieldStep == TInv /\ sys_task_yield => TInv'
<1> SUFFICES ASSUME TInv, sys_task_yield PROVE TInv'
  OBVIOUS
<1>1. UNCHANGED <<tcb, used, g_task_head, tid, asleep, g_timer_ticks>> /\ schedule(tcb) /\ g_task_running # NULL
  BY DEF sys_task_yield
<1>2. /\ g_task_running' = g_task_running /\ cpu' \in {"runs", "loops"}
      /\ cpu' = "loops" => g_task_running \notin used
  BY <1>1, ThreadTypes, ScheduleStep
<1>3. TypeOK'
  BY <1>1, <1>2 DEF TInv, TypeOK
<1>4. Linked(tcb, used, g_task_head, tid)'
  BY <1>1, ThreadTypes
<1> QED BY <1>1, <1>2, <1>3, <1>4 DEF TInv

\* What sys_task_wait(id) of thread tsk leaves when it comes to an end.
LEMMA WaitEnds ==
  ASSUME TInv, NEW tsk \in used, NEW t \in Tcbs, Linked(t, used, g_task_head, tid),
         \A b \in Page : b # g_task_running => t[b].state = tcb[b].state,
         \/ Reap(t, tsk)
         \/ LeaveToOthers(t)
  PROVE  /\ tcb' \in Tcbs /\ used' \subseteq used /\ g_task_head' \in PageOrNull
         /\ Linked(tcb', used', g_task_head', tid)
         /\ \A b \in Page : b # g_task_running => tcb'[b].state = tcb[b].state
<1>1. CASE Reap(t, tsk)
  <2>1. /\ tcb' \in kfree(remove_task(t, g_task_head, tsk), tsk) /\ used' = used \ {tsk}
        /\ g_task_head' = IF tsk = g_task_head THEN t[tsk].next ELSE g_task_head
    BY <1>1 DEF Reap
  <2>2. /\ tcb' \in Tcbs /\ \A b \in Page : tcb'[b].state = t[b].state
        /\ Linked(tcb', used \ {tsk}, g_task_head', tid)
    <3>1. used \in SUBSET Page /\ g_task_head \in PageOrNull /\ tid \in Nat
      BY ThreadTypes
    <3>2. PICK u \in SUBSET Page, h \in PageOrNull, n \in Nat, v \in {tcb'}, k \in {g_task_head'} :
             /\ u = used /\ h = g_task_head /\ n = tid /\ v = tcb' /\ k = g_task_head'
      BY <3>1
    <3>3. /\ Linked(t, u, h, n) /\ tsk \in u /\ v \in kfree(remove_task(t, h, tsk), tsk)
          /\ (tsk = h => k = t[tsk].next) /\ (tsk # h => k = h)
      BY <2>1, <3>2
    <3>4. v \in Tcbs /\ (\A b \in Page : v[b].state = t[b].state) /\ Linked(v, u \ {tsk}, k, n)
      BY <3>3, RemoveTask, ZenonT(30)
    <3> QED BY <3>2, <3>4, Zenon
  <2>3. g_task_head' \in PageOrNull
    BY <2>1, ThreadTypes DEF Tcbs
  <2> QED BY <2>1, <2>2, <2>3
<1>2. CASE LeaveToOthers(t)
  <2>1. tcb' = t /\ used' = used /\ g_task_head' = g_task_head
    BY <1>2 DEF LeaveToOthers
  <2> QED BY <2>1, ThreadTypes
<1> QED BY <1>1, <1>2

LEMMA WaitStep == ASSUME NEW id \in 0 .. MAX_TID PROVE TInv /\ sys_task_wait(id) => TInv'
<1> SUFFICES ASSUME TInv, sys_task_wait(id) PROVE TInv'
  OBVIOUS
<1> DEFINE Waits(tsk) == tcb[tsk].state # "ZOMBIE"
           Before(tsk) == IF Waits(tsk) THEN Queued(tcb, tsk) ELSE tcb
           After(tsk) == IF Waits(tsk) THEN Unqueued(Before(tsk), tsk) ELSE tcb
<1>1. UNCHANGED <<tid, asleep, g_timer_ticks>> /\ cpu = "runs" /\ g_task_running # NULL
  BY DEF sys_task_wait, CallerRuns
<1>2. PICK tsk \in get_task(id) :
         /\ IF Waits(tsk) THEN schedule(Before(tsk)) ELSE UNCHANGED <<cpu, g_task_running>>
         /\ IF Waits(tsk) /\ ~ScheduleEnds(Before(tsk)) THEN LeaveToOthers(Before(tsk))
            ELSE IF After(tsk)[tsk].wq_exit = <<>> THEN Reap(After(tsk), tsk) ELSE LeaveToOthers(After(tsk))
  BY DEF sys_task_wait
<1>3. tsk \in used /\ tsk \in Page /\ g_task_running \in Page
  <2>1. List(tcb, g_task_head) = used
    BY ThreadTypes, ListIs
  <2> QED BY <1>1, <1>2, <2>1, ThreadTypes DEF get_task, PageOrNull
\* Queued and Unqueued leave tid and next alone, and of the states all but the caller's.
<1>4. ASSUME Waits(tsk)
      PROVE  /\ Before(tsk) \in Tcbs /\ After(tsk) \in Tcbs
             /\ \A b \in Page : /\ Before(tsk)[b].tid = tcb[b].tid /\ Before(tsk)[b].next = tcb[b].next
                                /\ After(tsk)[b].tid = tcb[b].tid /\ After(tsk)[b].next = tcb[b].next
                                /\ b # g_task_running => Before(tsk)[b].state = tcb[b].state
                                                         /\ After(tsk)[b].state = tcb[b].state
  <2>1. PICK q : q = <<g_task_running>> \o tcb[tsk].wq_exit /\ q \in Seq(Page) /\ Tail(q) \in Seq(Page)
    <3>1. tcb[tsk].wq_exit \in Seq(Page) /\ <<g_task_running>> \in Seq(Page)
      BY <1>3, ThreadTypes DEF Tcbs
    <3>2. <<g_task_running>> \o tcb[tsk].wq_exit \in Seq(Page) /\ <<g_task_running>> \o tcb[tsk].wq_exit # <<>>
      BY <3>1
    <3>3. Tail(<<g_task_running>> \o tcb[tsk].wq_exit) \in Seq(Page)
      BY <3>2
    <3> QED BY <3>2, <3>3
  <2>2. PICK w : w = [tcb EXCEPT ![tsk].wq_exit = q]
    OBVIOUS
  <2>3. w \in Tcbs /\ \A b \in Page : w[b].tid = tcb[b].tid /\ w[b].next = tcb[b].next /\ w[b].state = tcb[b].state
    BY <1>3, <2>1, <2>2, ThreadTypes DEF Tcbs
  <2>4. w[tsk].wq_exit = q
    BY <1>3, <2>2, ThreadTypes DEF Tcbs
  <2>5. PICK x : x = [w EXCEPT ![g_task_running].state = "WAITING"]
    OBVIOUS
  <2>6. x \in Tcbs /\ \A b \in Page : /\ x[b].tid = w[b].tid /\ x[b].next = w[b].next /\ x[b].wq_exit = w[b].wq_exit
                                      /\ b # g_task_running => x[b].state = w[b].state
    BY <1>3, <2>3, <2>5, ZenonT(30) DEF Tcbs, State
  <2>7. Before(tsk) = x
    BY <1>4, <2>1, <2>2, <2>5 DEF Queued
  <2>8. PICK y : y = [x EXCEPT ![tsk].wq_exit = Tail(q)]
    OBVIOUS
  <2>9. y \in Tcbs /\ \A b \in Page : y[b].tid = x[b].tid /\ y[b].next = x[b].next /\ y[b].state = x[b].state
    BY <1>3, <2>1, <2>6, <2>8, ZenonT(90) DEF Tcbs
  <2>10. After(tsk) = y
    <3>1. x[tsk].wq_exit = q
      BY <1>3, <2>4, <2>6, SMTT(30)
    <3>2. After(tsk) = [x EXCEPT ![tsk].wq_exit = Tail(x[tsk].wq_exit)]
      BY <1>4, <2>7 DEF Unqueued
    <3> QED BY <2>8, <3>1, <3>2
  <2> HIDE DEF Before, After
  <2> QED BY <2>3, <2>6, <2>7, <2>9, <2>10
<1>5. /\ Before(tsk) \in Tcbs /\ After(tsk) \in Tcbs
      /\ Linked(Before(tsk), used, g_task_head, tid) /\ Linked(After(tsk), used, g_task_head, tid)
      /\ \A b \in Page : b # g_task_running => Before(tsk)[b].state = tcb[b].state
                                               /\ After(tsk)[b].state = tcb[b].state
  <2>1. CASE ~Waits(tsk)
    <3>1. Before(tsk) = tcb /\ After(tsk) = tcb
      BY <2>1
    <3> QED BY <3>1, ThreadTypes
  <2>2. CASE Waits(tsk)
    <3> HIDE DEF Before, After, Waits
    <3> QED BY <1>4, <2>2, ThreadTypes, SameLinks
  <2> QED BY <2>1, <2>2
<1> HIDE DEF Before, After, Waits
<1>6. /\ g_task_running' = g_task_running /\ cpu' \in {"runs", "loops"}
      /\ cpu' = "loops" => g_task_running \notin used
  <2>1. CASE Waits(tsk)
    BY <1>1, <1>2, <1>5, <2>1, ScheduleStep
  <2>2. CASE ~Waits(tsk)
    BY <1>1, <1>2, <2>2
  <2> QED BY <2>1, <2>2
<1>7. /\ tcb' \in Tcbs /\ used' \subseteq used /\ g_task_head' \in PageOrNull
      /\ Linked(tcb', used', g_task_head', tid)
      /\ \A b \in Page : b # g_task_running => tcb'[b].state = tcb[b].state
  <2>1. CASE LeaveToOthers(Before(tsk))
    BY <1>3, <1>5, <2>1, WaitEnds
  <2>2. CASE Reap(After(tsk), tsk) \/ LeaveToOthers(After(tsk))
    BY <1>3, <1>5, <2>2, WaitEnds
  <2> QED BY <1>2, <2>1, <2>2
<1>8. TypeOK'
  <2>1. used' \subseteq Page
    BY <1>7, ThreadTypes
  <2> QED BY <1>1, <1>6, <1>7, <2>1 DEF TInv, TypeOK, Tcbs
<1>9. \A b \in used' : b # g_task_running' => tcb'[b].state = "READY"
  BY <1>6, <1>7, ThreadTypes DEF TInv
<1> QED BY <1>1, <1>6, <1>7, <1>8, <1>9 DEF TInv

\* What a call sleeps is worth a tick.
LEMMA WorthLemma ==
  ASSUME NEW num \in Nat
  PROVE  Worth(TicksOf(num)) \in Seq(1 .. USIZE - 1)
<1>1. num * HZ \in Nat /\ USIZE \in Nat \ {0}
  BY ThreadAssumption
<1>2. PICK n : n = (num * HZ) % USIZE /\ n \in 0 .. USIZE - 1
  BY <1>1
<1>3. n > 0 => n \in 1 .. USIZE - 1
  BY <1>1, <1>2
<1>4. n > 0 => <<n>> \in Seq(1 .. USIZE - 1)
  BY <1>3
<1>5. Worth(n) \in Seq(1 .. USIZE - 1)
  <2>1. CASE n > 0
    BY <1>4, <2>1 DEF Worth
  <2>2. CASE ~(n > 0)
    <3>1. Worth(n) = <<>>
      BY <2>2, Zenon DEF Worth
    <3> QED BY <3>1
  <2> QED BY <2>1, <2>2
<1> QED BY <1>2, <1>5 DEF TicksOf

LEMMA SleepStep == ASSUME NEW sleeps \in Seq(1 .. USIZE - 1) PROVE TInv /\ Sleep(sleeps) => TInv'
<1> SUFFICES ASSUME TInv, Sleep(sleeps) PROVE TInv'
  OBVIOUS
<1>1. /\ UNCHANGED <<tcb, used, g_task_head, g_task_running, tid, cpu>>
      /\ g_timer_ticks' = 0 /\ asleep' = sleeps
  BY DEF Sleep
<1>2. g_task_running # NULL
  BY DEF Sleep
<1>3. TypeOK' /\ Linked(tcb, used, g_task_head, tid)'
  BY <1>1, ThreadAssumption DEF TInv, TypeOK
<1> QED BY <1>1, <1>2, <1>3 DEF TInv

\* A round of the loop of _sleep changes nothing but cpu.
LEMMA RoundLemma == TInv /\ SleepRound => asleep' = asleep /\ g_timer_ticks' = 0 /\ schedule(tcb)
<1> SUFFICES ASSUME TInv, SleepRound PROVE asleep' = asleep /\ g_timer_ticks' = 0 /\ schedule(tcb)
  OBVIOUS
<1>1. asleep \in Seq(1 .. USIZE - 1) /\ asleep # <<>> /\ g_timer_ticks = 0
  BY DEF TInv, TypeOK, SleepRound
<1>2. Head(asleep) \in 1 .. USIZE - 1 /\ USIZE \in Nat
  BY <1>1, ThreadAssumption
<1>3. g_timer_ticks < Head(asleep)
  BY <1>1, <1>2
<1> QED BY <1>1, <1>3 DEF SleepRound, AfterInterrupt

LEMMA RoundStep == TInv /\ SleepRound => TInv'
<1> SUFFICES ASSUME TInv, SleepRound PROVE TInv'
  OBVIOUS
<1>1. /\ asleep' = asleep /\ g_timer_ticks' = 0 /\ schedule(tcb)
      /\ UNCHANGED <<tcb, used, g_task_head, tid>>
  BY RoundLemma DEF SleepRound
<1>2. g_task_running # NULL
  BY DEF TInv, SleepRound
<1>3. /\ g_task_running' = g_task_running /\ cpu' \in {"runs", "loops"}
      /\ cpu' = "loops" => g_task_running \notin used
  BY <1>1, <1>2, ThreadTypes, ScheduleStep
<1>4. TypeOK'
  BY <1>1, <1>3, ThreadAssumption DEF TInv, TypeOK
<1>5. Linked(tcb, used, g_task_head, tid)'
  BY <1>1, ThreadTypes
<1> QED BY <1>1, <1>2, <1>3, <1>4, <1>5 DEF TInv

LEMMA ThreadNext == TInv /\ [Next]_vars => TInv'
<1> SUFFICES ASSUME TInv, [Next]_vars PROVE TInv'
  OBVIOUS
<1>1. CASE run_as_task0
  BY <1>1, RunAsTask0Step
<1>2. CASE sys_task_create
  BY <1>2, CreateStep
<1>3. CASE sys_task_exit
  BY <1>3, ExitStep
<1>4. CASE sys_task_yield
  BY <1>4, YieldStep
<1>5. ASSUME NEW id \in 0 .. MAX_TID, sys_task_wait(id) PROVE TInv'
  BY <1>5, WaitStep
<1>6. ASSUME NEW s \in Seconds, sys_sleep(s) PROVE TInv'
  <2>1. Worth(TicksOf(s)) \in Seq(1 .. USIZE - 1)
    BY WorthLemma, ThreadAssumption
  <2> QED BY <1>6, <2>1, SleepStep DEF sys_sleep
<1>7. ASSUME NEW s \in Seconds, NEW ns \in Seconds, sys_nanosleep(s, ns) PROVE TInv'
  <2>1. Worth(TicksOf(s)) \in Seq(1 .. USIZE - 1) /\ Worth(TicksOf(ns)) \in Seq(1 .. USIZE - 1)
    BY WorthLemma, ThreadAssumption
  <2>2. Worth(TicksOf(s)) \o Worth(TicksOf(ns)) \in Seq(1 .. USIZE - 1)
    BY <2>1, ConcatProperties
  <2> QED BY <1>7, <2>2, SleepStep DEF sys_nanosleep
<1>8. CASE SleepRound
  BY <1>8, RoundStep
<1>9. CASE UNCHANGED vars
  <2>1. UNCHANGED <<tcb, used, g_task_head, g_task_running, tid, cpu, asleep, g_timer_ticks>>
    BY <1>9 DEF vars
  <2>2. TypeOK' /\ Linked(tcb, used, g_task_head, tid)'
    BY <2>1 DEF TInv, TypeOK
  <2> QED BY <2>1, <2>2 DEF TInv
<1> QED BY <1>1, <1>2, <1>3, <1>4, <1>5, <1>6, <1>7, <1>8, <1>9 DEF Next

LEMMA ThreadInvariant == Spec => []TInv
BY ThreadInit, ThreadNext, PTL DEF Spec
-----------------------------------------------------------------------------
\* However threads are created, waited for and reaped, the list from g_task_head
\* has exactly the pages in use, in the order of their creation: add_task and
\* remove_task lose none and keep none, and their loops end.
THEOREM ListIsUsedTheorem == Spec => []ListIsUsed
<1>1. TInv => ListIsUsed
  <2> SUFFICES ASSUME TInv PROVE ListIsUsed
    OBVIOUS
  <2>1. List(tcb, g_task_head) = used
    BY ThreadTypes, ListIs
  <2>2. \A b \in used : tcb[b].next # NULL => tcb[b].tid < tcb[tcb[b].next].tid
    BY DEF TInv, Linked
  <2> QED BY <2>1, <2>2 DEF TInv, ListIsUsed
<1> QED BY <1>1, ThreadInvariant, PTL

\* The loop of schedule ends as long as the page of g_task_running is in use; it
\* does not return only to a thread that has waited for itself.
THEOREM LoopsOnlyAfterSelfWaitTheorem == Spec => []LoopsOnlyAfterSelfWait
<1>1. TInv => LoopsOnlyAfterSelfWait
  BY DEF TInv, LoopsOnlyAfterSelfWait
<1> QED BY <1>1, ThreadInvariant, PTL

\* Whatever thread sys_task_wait frees, other than its caller's own, is READY: it
\* has not ended, and will never run.
THEOREM ReapsTheLivingTheorem == Spec => ReapsTheLiving
<1>1. TInv => \A b \in used \ used' : b # g_task_running => tcb[b].state = "READY"
  BY DEF TInv
<1> QED BY <1>1, ThreadInvariant, PTL DEF ReapsTheLiving

\* A _sleep that waits for a tick never returns: nothing counts g_timer_ticks.
THEOREM SleepsForeverTheorem == Spec => SleepsForever
<1>1. TInv /\ [Next]_vars => (asleep # <<>> => asleep' = asleep)
  <2> SUFFICES ASSUME TInv, [Next]_vars, asleep # <<>> PROVE asleep' = asleep
    OBVIOUS
  <2>1. CASE SleepRound
    BY <2>1, RoundLemma
  <2>2. CASE run_as_task0 \/ UNCHANGED vars
    BY <2>2 DEF run_as_task0, vars
  <2>3. ~CallerRuns
    BY DEF CallerRuns
  <2> QED BY <2>1, <2>2, <2>3 DEF Next, sys_task_create, sys_task_exit, sys_task_yield,
                                  sys_task_wait, sys_sleep, sys_nanosleep, Sleep
<1> QED BY <1>1, ThreadInvariant, PTL DEF SleepsForever, Spec
=============================================================================
