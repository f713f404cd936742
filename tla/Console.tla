------------------------------ MODULE Console ------------------------------
(***************************************************************************)
(* printk (kernel/printk.c) on the mini UART (kernel/uart.c): the text is  *)
(* formatted into a buffer on the caller's stack, and then goes out one    *)
(* character at a time, in two steps that can be interrupted: uart_putc    *)
(* polls the line status, and writes.  The timer's handler prints itself,  *)
(* and the tasks it switches to may print before this one goes on; all of  *)
(* them wait for room in the same FIFO.                                    *)
(***************************************************************************)
EXTENDS Format

CONSTANTS
    BUFSIZE,       \* sizeof(buf)
    Printed,       \* what tasks print
    FIFO,          \* the characters the UART holds
    Bursts,        \* how many characters others print before the task goes on
    MAX_TICKS      \* bound on the number of interrupts

ASSUME ConsoleAssumption ==
    /\ BUFSIZE \in Sizes /\ Printed \subseteq Calls
    /\ FIFO \in Nat \ {0} /\ MAX_TICKS \in Nat
    /\ Bursts \subseteq Nat \ 0 .. FIFO        \* "timer interrupts\r\n" alone fills the FIFO

VARIABLES
    user,       \* who called vsnprintf: "snprintf", or printk, "printing" and then "returned"
    j,          \* characters uart_putc has been called for
    polled,     \* has it seen that there is room?
    fifo,       \* the FIFO: n for the n-th character of the text, 0 for one of somebody else's
    wire,       \* the task's characters that have left it
    lost,       \* the task's characters that were written to a full FIFO
    others,     \* characters others print before the task goes on
    ticks       \* interrupts so far

cvars == <<user, j, polled, fifo, wire, lost, others, ticks>>
vars == <<fvars, cvars>>

Foreign == 0

Init == /\ FormatInit
        /\ user = "snprintf" /\ j = 0 /\ polled = FALSE
        /\ fifo = <<>> /\ wire = <<>> /\ lost = {} /\ others = 0 /\ ticks = 0

printk(c) ==
    /\ state = "IDLE" /\ vsnprintf(BUFSIZE, c)
    /\ user' = "printing"
    /\ UNCHANGED <<j, polled, fifo, wire, lost, others, ticks>>

\* The task runs, in the loop over what vsnprintf said the length is.
Printing == user = "printing" /\ state = "RETURNED" /\ others = 0

AlwaysReady == TRUE
\* AUX_MU_LSR_REG & 0x20
TransmitterReady == Len(fifo) < FIFO

Poll ==
    /\ Printing /\ j < strlen(buffer) /\ ~polled
    /\ TransmitterReady
    /\ polled' = TRUE
    /\ UNCHANGED <<fvars, user, j, fifo, wire, lost, others, ticks>>

Write ==
    /\ Printing /\ polled
    /\ IF Len(fifo) < FIFO THEN fifo' = Append(fifo, j + 1) /\ UNCHANGED lost
                           ELSE lost' = lost \cup {j + 1} /\ UNCHANGED fifo
    /\ j' = j + 1 /\ polled' = FALSE
    /\ UNCHANGED <<fvars, user, wire, others, ticks>>

Return ==
    /\ Printing /\ j = strlen(buffer) /\ ~polled
    /\ user' = "returned"
    /\ UNCHANGED <<fvars, j, polled, fifo, wire, lost, others, ticks>>

\* The timer interrupts the task.
Interrupt ==
    /\ Printing /\ ticks < MAX_TICKS
    /\ others' \in Bursts /\ ticks' = ticks + 1
    /\ UNCHANGED <<fvars, user, j, polled, fifo, wire, lost>>

\* Somebody else's uart_putc.
OtherPuts ==
    /\ others > 0 /\ TransmitterReady
    /\ fifo' = Append(fifo, Foreign) /\ others' = others - 1
    /\ UNCHANGED <<fvars, user, j, polled, wire, lost, ticks>>

\* The UART sends a character.
Transmit ==
    /\ fifo # <<>>
    /\ wire' = IF Head(fifo) = Foreign THEN wire ELSE Append(wire, Head(fifo))
    /\ fifo' = Tail(fifo)
    /\ UNCHANGED <<fvars, user, j, polled, lost, others, ticks>>

TaskStep == (dopr /\ UNCHANGED cvars) \/ Poll \/ Write \/ Return

Next == \/ \E count \in Sizes, c \in Calls : snprintf(count, c) /\ UNCHANGED cvars
        \/ \E c \in Printed : printk(c)
        \/ TaskStep \/ Interrupt \/ OtherPuts \/ Transmit

\* The task runs when it is not interrupted, so does whoever interrupts it, and
\* the UART transmits.
Fairness == WF_vars(TaskStep) /\ WF_vars(OtherPuts) /\ WF_vars(Transmit)

Spec == Init /\ [][Next]_vars /\ Fairness
-----------------------------------------------------------------------------
\* The task's characters come out in their order, each one once, and none is lost
\* but to an interrupt between the poll and the write, which costs at most one.
SentOrLost ==
    LET sent == wire \o fifo
    IN  /\ \A m, n \in DOMAIN sent : m < n /\ Foreign \notin {sent[m], sent[n]} => sent[m] < sent[n]
        /\ Range(sent) \ {Foreign} = 1 .. j \ lost
        /\ Cardinality(lost) <= ticks

\* Every call comes back: dopr gets to the end of any format, and uart_putc does
\* not wait for ever.
CallsReturn == (state # "IDLE") ~> (state = "RETURNED" /\ user # "printing")
=============================================================================
