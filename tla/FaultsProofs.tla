---------------------------- MODULE FaultsProofs ----------------------------
(***************************************************************************)
(* For every program and every width of the counter: which instructions a  *)
(* task gets past, what the vectors leave on the stacks, and how long      *)
(* sleep takes.                                                            *)
(***************************************************************************)
EXTENDS Faults, TLAPS

FTypeOK ==
    /\ program \in [0 .. LAST -> Op]
    /\ at \in 0 .. LAST + 1
    /\ pc \in {"task", "called", "sleep", "handler", "ldm", "wild"}
    /\ mode \in Mode
    /\ stack \in [Mode -> Seq({0, 4, LDM, SWI_VECTOR, NOWHERE})]
    /\ todo \in Seq({"short", "long", "print", "do_page_fault"})
    /\ cl0 \in Counter
    /\ wait \in [ms : Nat, current_time : Counter, elapsed : Nat, back : {"task", "called", "handler"}]

\* Where the program is once the sleep it may be in is over.
Place == IF pc = "sleep" THEN wait.back ELSE pc

\* What is on which stack: nothing but the one address the vector will pop.
Only(m, a) == [n \in Mode |-> IF n = m THEN <<a>> ELSE <<>>]
NoneLeft == [m \in Mode |-> <<>>]

\* The vector the task is in is that of the instruction it is at, or the one
\* behind it, entered with an address of the task's own stack to return to.
InVector ==
    /\ at <= LAST
    /\ \/ /\ program[at] \in Faulting \ {"undefined"}
          /\ mode = ModeOf(program[at]) /\ stack = Only(mode, Lr(program[at]) - 4)
       \/ /\ program[at] = "undefined"
          /\ \/ mode = "und" /\ (stack = Only("und", LDM) \/ stack = Only("und", SWI_VECTOR))
             \/ mode = "svc" /\ stack = Only("svc", NOWHERE)

Passed == \A i \in 0 .. at - 1 :
             /\ program[i] \in {"plain", "sleep", "access"}
             /\ i \in executed <=> program[i] # "access"

\* The time that has passed is what the counter says, once around or not, and
\* the wait was not over when it was last polled.
Waits ==
    /\ wait.ms \in Millis \cup {SHORT, LONG}
    /\ wait.back # "task"
    /\ \/ wait.elapsed = 0
       \/ wait.elapsed < wait.ms * PERMS
    /\ \/ cl0 = wait.current_time + wait.elapsed
       \/ cl0 = wait.current_time + wait.elapsed - CSIZE

FaultInv ==
    /\ FTypeOK
    /\ Passed
    /\ executed \subseteq 0 .. at - 1
    /\ Place \in {"task", "called"} => mode = "svc" /\ stack = NoneLeft
    /\ Place = "called" => at <= LAST /\ program[at] = "sleep"
    /\ Place = "handler" => InVector
    /\ Place \in {"ldm", "wild"} => at <= LAST /\ program[at] = "undefined"
    /\ pc = "sleep" => Waits
-----------------------------------------------------------------------------
\* The values of %, where it wraps at most once.
LEMMA ModOnce ==
  ASSUME NEW n \in Nat \ {0}, NEW x \in Int
  PROVE  /\ 0 <= x /\ x < n => x % n = x
         /\ n <= x /\ x < n + n => x % n = x - n
         /\ -n <= x /\ x < 0 => x % n = x + n
<1>1. x = n * (x \div n) + (x % n) /\ x % n \in 0 .. n - 1 /\ x \div n \in Int
  OBVIOUS
<1>2. CASE 0 <= x /\ x < n
  BY <1>1, <1>2
<1>3. CASE n <= x /\ x < n + n
  BY <1>1, <1>3
<1>4. CASE -n <= x /\ x < 0
  BY <1>1, <1>4
<1> QED BY <1>2, <1>3, <1>4

\* The counter wraps at n, was s when a sleep began, e later was c, and is read
\* again g after that.
Tells(n, c, s, e, g) ==
    /\ (c + g) % n \in 0 .. n - 1
    /\ (c + g) % n = s + (e + g) \/ (c + g) % n = s + (e + g) - n
    /\ e + g < n => (((c + g) % n) - s) % n = e + g
    /\ e + g = n => (((c + g) % n) - s) % n = 0

\* The difference of two readings of a counter that wraps is the time between
\* them, short of a whole round.
LEMMA Readings ==
  ASSUME NEW n \in Nat \ {0}, NEW c \in 0 .. n - 1, NEW s \in 0 .. n - 1,
         NEW e \in Nat, NEW g \in Nat,
         e + g <= n, c = s + e \/ c = s + e - n, g <= n
  PROVE  Tells(n, c, s, e, g)
<1>1. PICK x \in Int : x = c + g
  OBVIOUS
<1>2. PICK m \in Int : m = x % n
  OBVIOUS
<1>3. (m = c + g /\ c + g < n) \/ (m = c + g - n /\ n <= c + g)
  <2>1. /\ 0 <= x /\ x < n => x % n = x
        /\ n <= x /\ x < n + n => x % n = x - n
    BY ModOnce
  <2> QED BY <1>1, <1>2, <2>1
<1>4. m \in 0 .. n - 1 /\ (m = s + (e + g) \/ m = s + (e + g) - n)
  BY <1>2, <1>3
<1>5. PICK d \in Int : d = m - s
  OBVIOUS
<1>6. -n <= d /\ d < n /\ (d = e + g \/ d = e + g - n)
  BY <1>4, <1>5
<1>7. (e + g < n => d % n = e + g) /\ (e + g = n => d % n = 0)
  <2>1. /\ 0 <= d /\ d < n => d % n = d
        /\ -n <= d /\ d < 0 => d % n = d + n
    BY ModOnce
  <2> QED BY <1>6, <2>1
<1> QED BY <1>1, <1>2, <1>4, <1>5, <1>7 DEF Tells

\* A poll: what it reads, and that it ends the wait if, and only if, the time that
\* was asked for has passed.
LEMMA PollLemma ==
  ASSUME FTypeOK, Waits, NEW gap \in 0 .. GAP
  PROVE  LET now == (cl0 + gap) % CSIZE
             t == wait.elapsed + gap
             us == wait.ms * PERMS
         IN  /\ now \in Counter /\ us \in Nat
             /\ t \in Nat /\ Capped(t) = t /\ t <= us + GAP
             /\ now = wait.current_time + t \/ now = wait.current_time + t - CSIZE
             /\ StillWaits(now) <=> t < us
<1>1. PICK us \in Nat : us = wait.ms * PERMS
  BY FaultAssumption DEF FTypeOK
<1>2. /\ CSIZE \in Nat \ {0} /\ GAP \in Nat \ {0}
      /\ us + GAP <= CSIZE
  BY <1>1, FaultAssumption DEF Waits
<1>3. /\ cl0 \in 0 .. CSIZE - 1 /\ wait.current_time \in 0 .. CSIZE - 1 /\ wait.elapsed \in Nat
      /\ gap \in Nat /\ gap <= GAP
      /\ wait.elapsed = 0 \/ wait.elapsed < us
      /\ cl0 = wait.current_time + wait.elapsed \/ cl0 = wait.current_time + wait.elapsed - CSIZE
  BY <1>1, <1>2 DEF FTypeOK, Counter, Waits
<1>4. us < CSIZE /\ wait.elapsed + gap <= CSIZE /\ wait.elapsed + gap <= us + GAP /\ gap <= CSIZE
  BY <1>2, <1>3
<1>5. Us = us
  <2>1. us \in Int /\ 0 <= us
    OBVIOUS
  <2>2. us % CSIZE = us
    BY <1>2, <1>4, <2>1, ModOnce, Zenon
  <2> QED BY <1>1, <2>2 DEF Us
<1>6. Tells(CSIZE, cl0, wait.current_time, wait.elapsed, gap)
  BY <1>2, <1>3, <1>4, Readings, Zenon
<1>7. StillWaits((cl0 + gap) % CSIZE) <=> wait.elapsed + gap < us
  <2>1. PICK d \in Int : d = (((cl0 + gap) % CSIZE) - wait.current_time) % CSIZE
    BY <1>2, <1>3, <1>6 DEF Tells
  <2>2. /\ wait.elapsed + gap < CSIZE => d = wait.elapsed + gap
        /\ wait.elapsed + gap = CSIZE => d = 0
    BY <1>6, <2>1, Zenon DEF Tells
  <2>3. d < us <=> wait.elapsed + gap < us
    BY <1>2, <1>3, <1>4, <2>2
  <2> QED BY <2>1, <2>3, <1>5, Zenon DEF StillWaits
<1>8. Capped(wait.elapsed + gap) = wait.elapsed + gap /\ wait.elapsed + gap \in Nat
  BY <1>3, <1>4 DEF Capped
<1> QED
  BY <1>1, <1>3, <1>4, <1>6, <1>7, <1>8, Zenon DEF Counter, Tells
-----------------------------------------------------------------------------
\* At the start nothing has been passed, and nothing is on a stack.
LEMMA FaultInvInit == Init => FaultInv
<1> SUFFICES ASSUME Init PROVE FaultInv
  OBVIOUS
<1>1. FTypeOK
  BY FaultAssumption DEF Init, FTypeOK, NoWait, Counter, Mode
<1>2. Passed /\ executed \subseteq 0 .. at - 1
  BY FaultAssumption DEF Init, Passed
<1>3. pc = "task" /\ mode = "svc" /\ stack = NoneLeft
  BY DEF Init, NoneLeft
<1> QED BY <1>1, <1>2, <1>3 DEF FaultInv, Place

\* A sleep that begins, in a task or in a handler.
LEMMA SleepLemma ==
  ASSUME FTypeOK, NEW ms \in Millis \cup {SHORT, LONG, -1},
         NEW back \in {"called", "handler"}, sleep(ms, back), cl0' = cl0
  PROVE  /\ pc' \in {"sleep", back}
         /\ wait' \in [ms : Nat, current_time : Counter, elapsed : Nat,
                       back : {"task", "called", "handler"}]
         /\ Place' = back
         /\ pc' = "sleep" => Waits'
<1>1. CASE ms < 0
  BY <1>1 DEF sleep, FTypeOK, Place
<1>2. CASE ~(ms < 0)
  <2>1. ms \in Millis \cup {SHORT, LONG} /\ ms \in Nat
    BY <1>2, FaultAssumption
  <2>2. pc' = "sleep" /\ wait' = [ms |-> ms, current_time |-> cl0, elapsed |-> 0, back |-> back]
    BY <1>2 DEF sleep
  <2>3. wait' \in [ms : Nat, current_time : Counter, elapsed : Nat,
                   back : {"task", "called", "handler"}]
    BY <2>1, <2>2 DEF FTypeOK
  <2>4. Waits'
    BY <2>1, <2>2, FaultAssumption DEF Waits, FTypeOK, Counter
  <2> QED BY <2>2, <2>3, <2>4 DEF Place
<1> QED BY <1>1, <1>2

\* Getting past the instruction the task is at.
LEMMA AdvanceLemma ==
  ASSUME FTypeOK, Passed, executed \subseteq 0 .. at - 1, at <= LAST,
         program' = program, Advance,
         program[at] \in {"plain", "sleep", "access"},
         executed' = IF program[at] = "access" THEN executed ELSE executed \cup {at}
  PROVE  at' \in 0 .. LAST + 1 /\ Passed' /\ executed' \subseteq 0 .. at' - 1
<1>1. at \in Nat /\ at' = at + 1 /\ LAST \in Nat
  BY FaultAssumption DEF FTypeOK, Advance
<1>2. at \notin executed
  BY <1>1
<1>3. ASSUME NEW i \in 0 .. at' - 1
      PROVE  /\ program'[i] \in {"plain", "sleep", "access"}
             /\ i \in executed' <=> program'[i] # "access"
  <2>1. i \in 0 .. at - 1 \/ i = at
    BY <1>1
  <2>2. CASE i \in 0 .. at - 1
    <3>1. i # at
      BY <1>1, <2>2
    <3> QED BY <2>2, <3>1 DEF Passed
  <2>3. CASE i = at
    BY <1>2, <2>3
  <2> QED BY <2>1, <2>2, <2>3
<1>4. executed' \subseteq 0 .. at' - 1
  BY <1>1
<1> QED BY <1>1, <1>3, <1>4 DEF Passed, FTypeOK

\* A reading of the counter.
LEMMA PollStep == ASSUME FaultInv, Poll PROVE FaultInv'
<1>1. PICK gap \in 0 .. GAP :
         LET now == (cl0 + gap) % CSIZE
         IN  /\ pc = "sleep"
             /\ cl0' = now /\ wait' = [wait EXCEPT !.elapsed = Capped(@ + gap)]
             /\ pc' = IF StillWaits(now) THEN "sleep" ELSE wait.back
             /\ UNCHANGED <<program, at, executed, mode, stack, todo>>
  BY DEF Poll
<1>2. FTypeOK /\ Waits /\ wait.back # "sleep"
  BY <1>1 DEF FaultInv, FTypeOK
<1>3. /\ cl0' \in Counter /\ wait.elapsed + gap \in Nat
      /\ wait' = [wait EXCEPT !.elapsed = wait.elapsed + gap]
      /\ cl0' = wait.current_time + (wait.elapsed + gap)
           \/ cl0' = wait.current_time + (wait.elapsed + gap) - CSIZE
      /\ pc' = "sleep" => wait.elapsed + gap < wait.ms * PERMS
      /\ pc' \in {"sleep", wait.back}
  BY <1>1, <1>2, PollLemma, Zenon
<1>4. /\ wait' \in [ms : Nat, current_time : Counter, elapsed : Nat,
                    back : {"task", "called", "handler"}]
      /\ wait'.ms = wait.ms /\ wait'.current_time = wait.current_time
      /\ wait'.elapsed = wait.elapsed + gap /\ wait'.back = wait.back
  BY <1>2, <1>3 DEF FTypeOK
<1>5. Place' = Place /\ wait.back \in {"called", "handler"}
  BY <1>1, <1>2, <1>3, <1>4 DEF Place, Waits, FTypeOK
<1>6. FTypeOK'
  BY <1>1, <1>2, <1>3, <1>4, <1>5 DEF FTypeOK
<1>7. pc' = "sleep" => Waits'
  BY <1>2, <1>3, <1>4 DEF Waits
<1>8. Passed' <=> Passed
  BY <1>1 DEF Passed
<1>9. InVector' <=> InVector
  BY <1>1 DEF InVector
<1> QED BY <1>1, <1>5, <1>6, <1>7, <1>8, <1>9 DEF FaultInv

\* An instruction that does not fault.
LEMMA ExecuteStep == ASSUME FaultInv, Execute PROVE FaultInv'
<1>1. /\ FTypeOK /\ Passed /\ executed \subseteq 0 .. at - 1 /\ at <= LAST
      /\ program[at] = "plain" /\ pc = "task" /\ mode = "svc" /\ stack = NoneLeft
  BY DEF FaultInv, Execute, Running, Place
<1>2. at' \in 0 .. LAST + 1 /\ Passed' /\ executed' \subseteq 0 .. at' - 1
  BY <1>1, AdvanceLemma DEF Execute, Effect
<1>3. FTypeOK'
  BY <1>1, <1>2 DEF FTypeOK, Execute
<1>4. pc' = "task" /\ mode' = "svc" /\ stack' = NoneLeft
  BY <1>1 DEF Execute
<1> QED BY <1>2, <1>3, <1>4 DEF FaultInv, Place

\* A task that calls sleep.
LEMMA CallSleepStep == ASSUME FaultInv, CallSleep PROVE FaultInv'
<1>1. /\ FTypeOK /\ Passed /\ executed \subseteq 0 .. at - 1 /\ at <= LAST
      /\ program[at] = "sleep" /\ pc = "task" /\ mode = "svc" /\ stack = NoneLeft
  BY DEF FaultInv, CallSleep, Running, Place
<1>2. PICK ms \in Millis \cup {-1} : sleep(ms, "called")
  BY DEF CallSleep
<1>3. /\ pc' \in {"sleep", "called"}
      /\ wait' \in [ms : Nat, current_time : Counter, elapsed : Nat,
                    back : {"task", "called", "handler"}]
      /\ Place' = "called"
      /\ pc' = "sleep" => Waits'
  BY <1>1, <1>2, SleepLemma DEF CallSleep
<1>4. FTypeOK'
  BY <1>1, <1>3 DEF FTypeOK, CallSleep
<1>5. Passed'
  BY <1>1 DEF Passed, CallSleep
<1> QED BY <1>1, <1>3, <1>4, <1>5 DEF FaultInv, CallSleep

\* The return from that call.
LEMMA CalledStep == ASSUME FaultInv, Called PROVE FaultInv'
<1>1. /\ FTypeOK /\ Passed /\ executed \subseteq 0 .. at - 1 /\ at <= LAST
      /\ program[at] = "sleep" /\ mode = "svc" /\ stack = NoneLeft
  BY DEF FaultInv, Called, Place
<1>2. at' \in 0 .. LAST + 1 /\ Passed' /\ executed' \subseteq 0 .. at' - 1
  BY <1>1, AdvanceLemma DEF Called, Effect
<1>3. FTypeOK'
  BY <1>1, <1>2 DEF FTypeOK, Called
<1>4. pc' = "task" /\ mode' = "svc" /\ stack' = NoneLeft
  BY <1>1 DEF Called
<1> QED BY <1>2, <1>3, <1>4 DEF FaultInv, Place

\* What a handler does is a sequence of the four things handlers do.
LEMMA BodyLemma ==
  ASSUME NEW op \in Faulting
  PROVE  Body(op) \in Seq({"short", "long", "print", "do_page_fault"})
<1>1. CASE op \in {"undefined", "swi"}
  <2>1. Body(op) = <<"short", "print">>
    BY <1>1 DEF Body
  <2> QED BY <2>1
<1>2. CASE op = "fetch"
  <2>1. Body(op) = <<"print", "long">>
    BY <1>2 DEF Body
  <2> QED BY <2>1
<1>3. CASE op = "access"
  <2>1. Body(op) = <<"print", "do_page_fault", "short">>
    BY <1>3 DEF Body
  <2> QED BY <2>1
<1> QED BY <1>1, <1>2, <1>3 DEF Faulting

\* A fault, up to the call of the handler: on stacks that were empty, the vector
\* leaves the address it will return to, and nothing else.
LEMMA TrapStep == ASSUME FaultInv, Trap PROVE FaultInv'
<1>1. /\ FTypeOK /\ Passed /\ executed \subseteq 0 .. at - 1 /\ at <= LAST /\ at \in 0 .. LAST
      /\ program[at] \in Faulting /\ pc = "task" /\ mode = "svc" /\ stack = NoneLeft
  BY FaultAssumption, SMTT(30) DEF FaultInv, Trap, Running, Place, FTypeOK
<1>2. PICK ret \in Pushed(program[at]) : stack' = [stack EXCEPT ![mode'] = Append(@, ret)]
  BY DEF Trap
<1>3. mode' \in Mode /\ mode' = ModeOf(program[at])
  BY <1>1 DEF Trap, ModeOf, Faulting, Mode
<1>4. ret \in {0, 4, LDM, SWI_VECTOR, NOWHERE}
  BY <1>1 DEF Pushed, Lr, Faulting
<1>5. stack' = Only(mode', ret)
  BY <1>1, <1>2, <1>3, <1>4 DEF NoneLeft, Only
<1>6. stack' \in [Mode -> Seq({0, 4, LDM, SWI_VECTOR, NOWHERE})]
  BY <1>3, <1>4, <1>5 DEF Only
<1>7. todo' \in Seq({"short", "long", "print", "do_page_fault"})
  BY <1>1, BodyLemma DEF Trap
<1>8. FTypeOK'
  BY <1>1, <1>3, <1>6, <1>7 DEF FTypeOK, Trap
<1>9. InVector'
  BY <1>1, <1>2, <1>3, <1>5 DEF InVector, Trap, Pushed, ModeOf, Faulting
<1>10. Passed'
  BY <1>1 DEF Passed, Trap
<1> QED BY <1>1, <1>8, <1>9, <1>10 DEF FaultInv, Trap, Place

\* A step of a handler: it prints, or begins to sleep.
LEMMA HandlerStep == ASSUME FaultInv, Handler PROVE FaultInv'
<1>1. FTypeOK /\ Passed /\ executed \subseteq 0 .. at - 1 /\ pc = "handler" /\ InVector
  BY DEF FaultInv, Handler, Place
<1>2. /\ pc' \in {"sleep", "handler"}
      /\ wait' \in [ms : Nat, current_time : Counter, elapsed : Nat,
                    back : {"task", "called", "handler"}]
      /\ Place' = "handler"
      /\ pc' = "sleep" => Waits'
  <2>1. CASE Head(todo) \in {"short", "long"}
    <3>1. PICK ms \in {SHORT, LONG} : sleep(ms, "handler")
      BY <2>1 DEF Handler
    <3> QED BY <1>1, <3>1, SleepLemma DEF Handler
  <2>2. CASE Head(todo) \notin {"short", "long"}
    <3>1. pc' = "handler" /\ wait' = wait
      BY <1>1, <2>2 DEF Handler
    <3> QED BY <1>1, <3>1 DEF FTypeOK, Place
  <2> QED BY <2>1, <2>2
<1>3. todo' \in Seq({"short", "long", "print", "do_page_fault"})
  BY <1>1 DEF Handler, FTypeOK
<1>4. FTypeOK'
  BY <1>1, <1>2, <1>3 DEF FTypeOK, Handler
<1>5. Passed' /\ InVector'
  BY <1>1 DEF Passed, InVector, Handler
<1> QED BY <1>1, <1>2, <1>4, <1>5 DEF FaultInv, Handler

\* What the pop of a vector finds on a stack with one address, and leaves.
LEMMA PopsTheOnly ==
  ASSUME NEW m \in Mode, NEW a \in {0, 4, LDM, SWI_VECTOR, NOWHERE}, stack = Only(m, a)
  PROVE  Last(stack[m]) = a /\ [stack EXCEPT ![m] = Front(@)] = NoneLeft
<1>1. stack[m] = <<a>>
  BY DEF Only
<1>2. Last(<<a>>) = a
  BY DEF Last
<1>3. Front(<<a>>) = <<>>
  BY DEF Front
<1> QED BY <1>1, <1>2, <1>3 DEF Only, NoneLeft

\* The end of a vector.
LEMMA PopStep == ASSUME FaultInv, Pop PROVE FaultInv'
<1>1. /\ FTypeOK /\ Passed /\ executed \subseteq 0 .. at - 1 /\ at \in 0 .. LAST
      /\ InVector /\ mode \in Mode
  BY FaultAssumption DEF FaultInv, Pop, Place, FTypeOK, InVector
<1>2. /\ program' = program /\ executed' = executed /\ cl0' = cl0 /\ wait' = wait
  BY DEF Pop
<1>3. PICK a \in {0, 4, LDM, SWI_VECTOR, NOWHERE} : stack = Only(mode, a)
  BY <1>1 DEF InVector, Lr
<1>4. Last(stack[mode]) = a /\ [stack EXCEPT ![mode] = Front(@)] = NoneLeft
  BY <1>1, <1>3, PopsTheOnly
<1>5. CASE a \in {0, 4}
  <2>1. mode' = "svc" /\ stack' = NoneLeft /\ pc' = "task" /\ todo' = todo
        /\ IF a = 4 THEN Advance ELSE UNCHANGED at
    BY <1>4, <1>5 DEF Pop, LDM, SWI_VECTOR, NOWHERE
  <2>2. a = 4 => program[at] = "access"
    BY <1>1, <1>3 DEF InVector, Only, Lr, LDM, SWI_VECTOR, NOWHERE
  <2>3. at' \in 0 .. LAST + 1 /\ Passed' /\ executed' \subseteq 0 .. at' - 1
    <3>1. CASE a = 4
      <4>1. /\ at <= LAST /\ Advance /\ program[at] = "access"
            /\ executed' = IF program[at] = "access" THEN executed ELSE executed \cup {at}
        BY <1>1, <1>2, <2>1, <2>2, <3>1, FaultAssumption
      <4> QED BY <1>1, <1>2, <4>1, AdvanceLemma
    <3>2. CASE a = 0
      <4>1. at' = at /\ executed' = executed /\ program' = program
        BY <1>2, <2>1, <3>2
      <4> QED BY <1>1, <4>1 DEF Passed, FTypeOK
    <3> QED BY <1>5, <3>1, <3>2
  <2>4. NoneLeft \in [Mode -> Seq({0, 4, LDM, SWI_VECTOR, NOWHERE})] /\ "svc" \in Mode
    BY DEF NoneLeft, Mode
  <2>5. FTypeOK'
    BY <1>1, <1>2, <2>1, <2>3, <2>4 DEF FTypeOK
  <2> QED BY <2>1, <2>3, <2>5 DEF FaultInv, Place
<1>6. CASE a \notin {0, 4}
  <2>1. program[at] = "undefined"
    BY <1>1, <1>3, <1>6 DEF InVector, Only, Lr
  <2>2. at' = at
    BY <1>4, <1>6 DEF Pop
  <2>3. Passed'
    BY <1>1, <1>2, <2>2 DEF Passed
  <2>4. CASE a \in {LDM, NOWHERE}
    <3>1. mode' = "svc" /\ stack' = NoneLeft /\ pc' \in {"ldm", "wild"} /\ todo' = todo
      BY <1>4, <2>4 DEF Pop, LDM, SWI_VECTOR, NOWHERE
    <3>2. NoneLeft \in [Mode -> Seq({0, 4, LDM, SWI_VECTOR, NOWHERE})] /\ "svc" \in Mode
      BY DEF NoneLeft, Mode
    <3>3. FTypeOK'
      BY <1>1, <1>2, <2>2, <3>1, <3>2 DEF FTypeOK
    <3> QED BY <1>1, <1>2, <2>1, <2>2, <2>3, <3>1, <3>3 DEF FaultInv, Place
  <2>5. CASE a = SWI_VECTOR
    <3>1. /\ mode' = "svc" /\ stack' = [NoneLeft EXCEPT !["svc"] = Append(@, NOWHERE)]
          /\ pc' = "handler" /\ todo' = Body("swi")
      BY <1>4, <2>5 DEF Pop, LDM, SWI_VECTOR, NOWHERE
    <3>2. "svc" \in Mode /\ stack' = Only("svc", NOWHERE)
      <4>1. "svc" \in Mode
        BY DEF Mode
      <4>2. NoneLeft["svc"] = <<>> /\ Append(<<>>, NOWHERE) = <<NOWHERE>>
        BY <4>1 DEF NoneLeft
      <4> QED BY <3>1, <4>1, <4>2 DEF NoneLeft, Only
    <3>3. stack' \in [Mode -> Seq({0, 4, LDM, SWI_VECTOR, NOWHERE})]
      <4>1. <<NOWHERE>> \in Seq({0, 4, LDM, SWI_VECTOR, NOWHERE})
        OBVIOUS
      <4>2. <<>> \in Seq({0, 4, LDM, SWI_VECTOR, NOWHERE})
        OBVIOUS
      <4> QED BY <3>2, <4>1, <4>2 DEF Only
    <3>4. Body("swi") \in Seq({"short", "long", "print", "do_page_fault"})
      BY BodyLemma DEF Faulting
    <3>5. FTypeOK'
      BY <1>1, <1>2, <2>2, <3>1, <3>2, <3>3, <3>4 DEF FTypeOK
    <3>6. InVector'
      BY <1>1, <1>2, <2>1, <2>2, <3>1, <3>2 DEF InVector
    <3> QED BY <1>1, <1>2, <2>2, <2>3, <3>1, <3>5, <3>6 DEF FaultInv, Place
  <2> QED BY <1>6, <2>4, <2>5
<1> QED BY <1>5, <1>6

\* The second pop of the first vector.
LEMMA PopTaskStep == ASSUME FaultInv, PopTask PROVE FaultInv'
<1>1. FTypeOK'
  BY DEF FaultInv, FTypeOK, PopTask
<1>2. Passed'
  BY DEF FaultInv, Passed, PopTask
<1> QED BY <1>1, <1>2 DEF FaultInv, PopTask, Place

\* Every step keeps the invariant.
LEMMA FaultInvNext == ASSUME FaultInv, [Next]_vars PROVE FaultInv'
<1>1. CASE UNCHANGED vars
  BY <1>1 DEF vars, FaultInv, FTypeOK, Place, Passed, InVector, Waits
<1> QED BY <1>1, PollStep, ExecuteStep, CallSleepStep, CalledStep, TrapStep,
           HandlerStep, PopStep, PopTaskStep DEF Next

\* A task gets past a fault only if it was an access, which it skips; from the
\* vector of an undefined instruction it does not come back; the other vectors
\* leave the stacks as they were.  For every program.
THEOREM GetsPastTheorem == Spec => []GetsPast
<1>1. FaultInv => GetsPast
  BY DEF FaultInv, Passed, Place, GetsPast, NoneLeft
<1> QED BY <1>1, FaultInvInit, FaultInvNext, PTL DEF Spec

\* sleep takes the time it was asked to take and at most one polling gap more,
\* for every counter width that no poll is late enough to miss, and wherever the
\* counter stands when it begins.
THEOREM SleepsAsLongTheorem == Spec => SleepsAsLong
<1> DEFINE Step == pc = "sleep" /\ pc' # "sleep" =>
                     LET us == wait.ms * PERMS
                     IN  wait'.elapsed >= us /\ wait'.elapsed <= us + GAP
<1>1. ASSUME FaultInv, [Next]_vars PROVE [Step]_vars
  <2> SUFFICES ASSUME Next, pc = "sleep", pc' # "sleep" PROVE Step
    BY <1>1
  <2>1. Poll
    BY DEF Next, Execute, CallSleep, Called, Trap, Handler, Pop, PopTask, Running
  <2>2. PICK gap \in 0 .. GAP :
           LET now == (cl0 + gap) % CSIZE
           IN  /\ wait' = [wait EXCEPT !.elapsed = Capped(@ + gap)]
               /\ pc' = IF StillWaits(now) THEN "sleep" ELSE wait.back
    BY <2>1 DEF Poll
  <2>3. FTypeOK /\ Waits
    BY <1>1 DEF FaultInv
  <2>4. /\ wait.ms * PERMS \in Nat /\ wait.elapsed + gap \in Nat
        /\ wait' = [wait EXCEPT !.elapsed = wait.elapsed + gap]
        /\ ~(wait.elapsed + gap < wait.ms * PERMS)
        /\ wait.elapsed + gap <= wait.ms * PERMS + GAP
    BY <2>2, <2>3, PollLemma, Zenon
  <2>5. wait'.elapsed = wait.elapsed + gap
    BY <2>3, <2>4 DEF FTypeOK
  <2> QED BY <2>4, <2>5
<1> QED BY <1>1, FaultInvInit, FaultInvNext, PTL DEF Spec, SleepsAsLong
=============================================================================
