------------------------------ MODULE LibProofs ------------------------------
(***************************************************************************)
(* Printing, formatting and moving memory.  For every text, every size of  *)
(* the UART's FIFO and any number of interrupts, the characters of a printk *)
(* come out in their order, each at most once, and an interrupt costs at   *)
(* most one of them.  For every format and arguments that match it, dopr   *)
(* stays in its buffer and ends, and a field reads back as its argument.   *)
(* For every alignment and length, memcpy, memset and memmove leave the    *)
(* bytes that were asked for, and end.                                     *)
(***************************************************************************)
EXTENDS Console, Memops, TLAPS, FiniteSetTheorems, SequenceTheorems, WellFoundedInduction

\* The characters that are on the wire or in the FIFO are those uart_putc was
\* called for and has not lost, in their order; they are numbered from 1.
InOrder(sent, n, gone) ==
    /\ sent \in Seq(Nat)
    /\ \A k, m \in 1 .. Len(sent) : k < m /\ sent[k] # Foreign /\ sent[m] # Foreign => sent[k] < sent[m]
    /\ \A m \in 1 .. Len(sent) : sent[m] # Foreign => sent[m] \in 1 .. n \ gone
    /\ \A x \in 1 .. n \ gone : \E m \in 1 .. Len(sent) : sent[m] = x

\* The write that comes next may be lost: it is not, unless an interrupt that has
\* not cost a character yet came after the poll.
AtRisk == polled /\ (others > 0 \/ ~(Len(fifo) < FIFO))

CInv == /\ wire \in Seq(Nat) /\ fifo \in Seq(Nat)
        /\ j \in Nat /\ ticks \in Nat /\ others \in Nat /\ polled \in BOOLEAN
        /\ lost \subseteq 1 .. j /\ IsFiniteSet(lost)
        /\ InOrder(wire \o fifo, j, lost)
        /\ IF AtRisk THEN Cardinality(lost) < ticks ELSE Cardinality(lost) <= ticks
-----------------------------------------------------------------------------
\* One more character at the end of the FIFO.
LEMMA SentMore ==
  ASSUME NEW u \in Seq(Nat), NEW v \in Seq(Nat), NEW x \in Nat
  PROVE  u \o Append(v, x) = Append(u \o v, x)
<1>1. Append(v, x) = v \o <<x>> /\ <<x>> \in Seq(Nat)
  BY AppendIsConcat
<1>2. u \o v \in Seq(Nat)
  BY ConcatProperties
<1>3. Append(u \o v, x) = (u \o v) \o <<x>>
  BY <1>2, AppendIsConcat
<1>4. (u \o v) \o <<x>> = u \o (v \o <<x>>)
  BY <1>1, ConcatAssociative
<1> QED BY <1>1, <1>3, <1>4, Zenon

\* The first character of the FIFO goes on the wire, which changes nothing of what
\* has been sent.
LEMMA SentOn ==
  ASSUME NEW u \in Seq(Nat), NEW v \in Seq(Nat), v # <<>>
  PROVE  Append(u, Head(v)) \o Tail(v) = u \o v
<1>1. Head(v) \in Nat /\ Tail(v) \in Seq(Nat) /\ <<Head(v)>> \in Seq(Nat)
  BY HeadTailProperties
<1>2. Append(u, Head(v)) = u \o <<Head(v)>>
  BY <1>1, AppendIsConcat
<1>3. (u \o <<Head(v)>>) \o Tail(v) = u \o (<<Head(v)>> \o Tail(v))
  BY <1>1, ConcatAssociative
<1>4. <<Head(v)>> \o Tail(v) = v
  <2>1. /\ <<Head(v)>> \o Tail(v) \in Seq(Nat) /\ Len(<<Head(v)>> \o Tail(v)) = Len(v)
        /\ \A i \in 1 .. Len(v) : (<<Head(v)>> \o Tail(v))[i] = v[i]
    BY <1>1
  <2> QED BY <2>1, SeqEqual, Zenon
<1> QED BY <1>2, <1>3, <1>4, Zenon

\* Somebody else's character at the end.
LEMMA ForeignAtEnd ==
  ASSUME NEW sent, NEW n \in Nat, NEW gone, InOrder(sent, n, gone)
  PROVE  InOrder(Append(sent, Foreign), n, gone)
<1>0. sent \in Seq(Nat) /\ Foreign \in Nat
  BY DEF InOrder, Foreign
<1>1. PICK s \in Seq(Nat) : s = Append(sent, Foreign) /\ Len(s) = Len(sent) + 1 /\ Len(sent) \in Nat
                            /\ s[Len(sent) + 1] = Foreign /\ \A k \in 1 .. Len(sent) : s[k] = sent[k]
  <2>1. /\ Append(sent, Foreign) \in Seq(Nat) /\ Len(Append(sent, Foreign)) = Len(sent) + 1 /\ Len(sent) \in Nat
        /\ Append(sent, Foreign)[Len(sent) + 1] = Foreign
        /\ \A k \in 1 .. Len(sent) : Append(sent, Foreign)[k] = sent[k]
    BY <1>0
  <2> QED BY <2>1, Zenon
<1>2. \A k \in 1 .. Len(s) : s[k] # Foreign => k \in 1 .. Len(sent) /\ s[k] = sent[k]
  BY <1>1
<1>3. \A k \in 1 .. Len(sent) : k \in 1 .. Len(s) /\ s[k] = sent[k]
  BY <1>1
<1> QED BY <1>1, <1>2, <1>3 DEF InOrder

\* The task's next character at the end.
LEMMA OwnAtEnd ==
  ASSUME NEW sent, NEW n \in Nat, NEW gone \in SUBSET (1 .. n), InOrder(sent, n, gone)
  PROVE  InOrder(Append(sent, n + 1), n + 1, gone)
<1>0. sent \in Seq(Nat) /\ n + 1 \in Nat
  BY DEF InOrder
<1>1. PICK s \in Seq(Nat) : s = Append(sent, n + 1) /\ Len(s) = Len(sent) + 1 /\ Len(sent) \in Nat
                            /\ s[Len(sent) + 1] = n + 1 /\ \A k \in 1 .. Len(sent) : s[k] = sent[k]
  <2>1. /\ Append(sent, n + 1) \in Seq(Nat) /\ Len(Append(sent, n + 1)) = Len(sent) + 1 /\ Len(sent) \in Nat
        /\ Append(sent, n + 1)[Len(sent) + 1] = n + 1
        /\ \A k \in 1 .. Len(sent) : Append(sent, n + 1)[k] = sent[k]
    BY <1>0
  <2> QED BY <2>1, Zenon
<1>2. \A k \in 1 .. Len(sent) : sent[k] # Foreign => sent[k] \in 1 .. n \ gone
  BY DEF InOrder
<1>3. \A k \in 1 .. Len(s) : s[k] # Foreign => s[k] \in 1 .. n + 1 \ gone
  BY <1>1, <1>2
<1>4. ASSUME NEW k \in 1 .. Len(s), NEW m \in 1 .. Len(s), k < m, s[k] # Foreign, s[m] # Foreign
      PROVE  s[k] < s[m]
  <2>1. k \in 1 .. Len(sent) /\ s[k] = sent[k] /\ s[k] \in 1 .. n
    BY <1>1, <1>2, <1>4
  <2>2. CASE m \in 1 .. Len(sent)
    BY <1>1, <1>4, <2>1, <2>2 DEF InOrder
  <2>3. CASE m = Len(sent) + 1
    BY <1>1, <2>1, <2>3
  <2> QED BY <1>1, <2>2, <2>3
<1>5. ASSUME NEW x \in 1 .. n + 1 \ gone PROVE \E m \in 1 .. Len(s) : s[m] = x
  <2>1. CASE x = n + 1
    BY <1>1, <2>1
  <2>2. CASE x # n + 1
    <3>1. x \in 1 .. n \ gone
      BY <1>5, <2>2
    <3>2. PICK m \in 1 .. Len(sent) : sent[m] = x
      BY <3>1 DEF InOrder
    <3>3. m \in 1 .. Len(s) /\ s[m] = x
      BY <1>1, <3>2
    <3> QED BY <3>3
  <2> QED BY <2>1, <2>2
<1> QED BY <1>1, <1>3, <1>4, <1>5 DEF InOrder

\* The task's next character lost.
LEMMA OwnLost ==
  ASSUME NEW sent, NEW n \in Nat, NEW gone \in SUBSET (1 .. n), InOrder(sent, n, gone)
  PROVE  InOrder(sent, n + 1, gone \cup {n + 1})
<1>1. 1 .. n + 1 \ (gone \cup {n + 1}) = 1 .. n \ gone
  OBVIOUS
<1> QED BY <1>1 DEF InOrder

\* Somebody else's character at the head of the FIFO leaves.
LEMMA ForeignLeaves ==
  ASSUME NEW u \in Seq(Nat), NEW v \in Seq(Nat), v # <<>>, Head(v) = Foreign,
         NEW n, NEW gone, InOrder(u \o v, n, gone)
  PROVE  InOrder(u \o Tail(v), n, gone)
<1>1. PICK s \in Seq(Nat) : s = u \o v /\ Len(s) = Len(u) + Len(v)
        /\ \A i \in 1 .. Len(u) + Len(v) : s[i] = IF i <= Len(u) THEN u[i] ELSE v[i - Len(u)]
  <2>1. /\ u \o v \in Seq(Nat) /\ Len(u \o v) = Len(u) + Len(v)
        /\ \A i \in 1 .. Len(u) + Len(v) : (u \o v)[i] = IF i <= Len(u) THEN u[i] ELSE v[i - Len(u)]
    BY ConcatProperties
  <2> QED BY <2>1, Zenon
<1>2. Tail(v) \in Seq(Nat) /\ Len(Tail(v)) = Len(v) - 1 /\ \A i \in 1 .. Len(v) - 1 : Tail(v)[i] = v[i + 1]
  BY HeadTailProperties
<1>3. PICK t \in Seq(Nat) : t = u \o Tail(v) /\ Len(t) = Len(u) + Len(Tail(v))
        /\ \A i \in 1 .. Len(u) + Len(Tail(v)) : t[i] = IF i <= Len(u) THEN u[i] ELSE Tail(v)[i - Len(u)]
  <2>1. /\ u \o Tail(v) \in Seq(Nat) /\ Len(u \o Tail(v)) = Len(u) + Len(Tail(v))
        /\ \A i \in 1 .. Len(u) + Len(Tail(v)) :
              (u \o Tail(v))[i] = IF i <= Len(u) THEN u[i] ELSE Tail(v)[i - Len(u)]
    BY <1>2, ConcatProperties
  <2> QED BY <2>1, Zenon
<1>4. Len(u) \in Nat /\ Len(v) \in Nat /\ Len(v) >= 1 /\ v[1] = Foreign
  OBVIOUS
<1>5. Len(t) = Len(s) - 1 /\ Len(t) \in Nat /\ Len(u) <= Len(t) /\ Len(s) \in Nat /\ Len(u) + 1 \in 1 .. Len(s) /\ s[Len(u) + 1] = Foreign
  BY <1>1, <1>2, <1>3, <1>4
<1>6. ASSUME NEW i \in 1 .. Len(t)
      PROVE  /\ i <= Len(u) => i \in 1 .. Len(s) /\ t[i] = s[i]
             /\ i > Len(u) => i + 1 \in 1 .. Len(s) /\ t[i] = s[i + 1]
  <2>1. CASE i <= Len(u)
    BY <1>1, <1>2, <1>3, <1>4, <1>5, <2>1
  <2>2. CASE i > Len(u)
    <3>1. i + 1 \in 1 .. Len(s) /\ i - Len(u) \in 1 .. Len(v) - 1
      BY <1>1, <1>2, <1>3, <1>4, <1>5, <2>2
    <3>2. t[i] = Tail(v)[i - Len(u)]
      BY <1>2, <1>3, <1>4, <2>2
    <3>3. Tail(v)[i - Len(u)] = v[(i - Len(u)) + 1] /\ (i - Len(u)) + 1 = (i + 1) - Len(u)
      BY <1>2, <1>4, <3>1
    <3>4. s[i + 1] = v[(i + 1) - Len(u)]
      BY <1>1, <1>4, <2>2, <3>1
    <3> QED BY <1>4, <2>2, <3>1, <3>2, <3>3, <3>4
  <2> QED BY <1>4, <2>1, <2>2
<1>7. ASSUME NEW k \in 1 .. Len(t), NEW m \in 1 .. Len(t), k < m, t[k] # Foreign, t[m] # Foreign
      PROVE  t[k] < t[m]
  <2>1. PICK a \in 1 .. Len(s), b \in 1 .. Len(s) : a < b /\ t[k] = s[a] /\ t[m] = s[b]
    <3>1. CASE m <= Len(u)
      <4>1. k <= Len(u)
        BY <1>4, <1>5, <1>7, <3>1
      <4>2. k \in 1 .. Len(s) /\ m \in 1 .. Len(s) /\ k < m /\ t[k] = s[k] /\ t[m] = s[m]
        BY <1>6, <1>7, <3>1, <4>1
      <4> QED BY <4>2, Zenon
    <3>2. CASE k <= Len(u) /\ m > Len(u)
      <4>1. k \in 1 .. Len(s) /\ t[k] = s[k] /\ m + 1 \in 1 .. Len(s) /\ t[m] = s[m + 1]
        BY <1>6, <1>7, <3>2, Zenon
      <4>2. k < m + 1
        BY <1>5, <1>7
      <4> QED BY <4>1, <4>2, Zenon
    <3>3. CASE k > Len(u)
      <4>1. m > Len(u) /\ k + 1 < m + 1
        BY <1>4, <1>5, <1>7, <3>3
      <4>2. k + 1 \in 1 .. Len(s) /\ t[k] = s[k + 1] /\ m + 1 \in 1 .. Len(s) /\ t[m] = s[m + 1]
        BY <1>6, <1>7, <3>3, <4>1, Zenon
      <4> QED BY <4>1, <4>2, Zenon
    <3>4. m <= Len(u) \/ (k <= Len(u) /\ m > Len(u)) \/ k > Len(u)
      <4>1. k \in Nat /\ m \in Nat
        BY <1>7
      <4>2. \A p, q, r \in Nat : q <= r \/ (p <= r /\ q > r) \/ p > r
        OBVIOUS
      <4> QED BY <1>4, <4>1, <4>2, Zenon
    <3> QED BY <3>1, <3>2, <3>3, <3>4, Zenon
  <2> QED BY <1>1, <1>7, <2>1 DEF InOrder
<1>8. ASSUME NEW m \in 1 .. Len(t), t[m] # Foreign PROVE t[m] \in 1 .. n \ gone
  <2>1. PICK a \in 1 .. Len(s) : t[m] = s[a]
    <3>1. CASE m <= Len(u)
      <4>1. m \in 1 .. Len(s) /\ t[m] = s[m]
        BY <1>6, <1>8, <3>1, Zenon
      <4> QED BY <4>1, Zenon
    <3>2. CASE m > Len(u)
      <4>1. m + 1 \in 1 .. Len(s) /\ t[m] = s[m + 1]
        BY <1>6, <1>8, <3>2, Zenon
      <4> QED BY <4>1, Zenon
    <3> QED BY <1>4, <3>1, <3>2
  <2> QED BY <1>1, <1>8, <2>1 DEF InOrder
<1>9. ASSUME NEW x \in 1 .. n \ gone PROVE \E m \in 1 .. Len(t) : t[m] = x
  <2>1. PICK a \in 1 .. Len(s) : s[a] = x
    BY <1>1 DEF InOrder
  <2>2. x # Foreign
    BY <1>9 DEF Foreign
  <2>3. a # Len(u) + 1
    BY <1>5, <2>1, <2>2
  <2>4. CASE a <= Len(u)
    <3>1. a \in 1 .. Len(t)
      BY <1>4, <1>5, <2>4
    <3>2. t[a] = s[a]
      BY <1>6, <2>4, <3>1
    <3> QED BY <2>1, <3>1, <3>2
  <2>5. CASE a > Len(u)
    <3>1. a \in Nat /\ a <= Len(s) /\ a - 1 > Len(u)
      <4>1. a \in Nat /\ a <= Len(s)
        BY <1>5, <2>1
      <4>2. \A p, q \in Nat : p > q /\ p # q + 1 => p - 1 > q
        OBVIOUS
      <4> QED BY <1>4, <2>3, <2>5, <4>1, <4>2, Zenon
    <3>2. a - 1 \in 1 .. Len(t) /\ (a - 1) + 1 = a
      BY <1>4, <1>5, <3>1
    <3>3. t[a - 1] = s[a]
      BY <1>6, <3>1, <3>2
    <3> QED BY <2>1, <3>2, <3>3
  <2> QED BY <1>4, <2>4, <2>5
<1> QED BY <1>3, <1>7, <1>8, <1>9 DEF InOrder
-----------------------------------------------------------------------------
LEMMA CInit == Init => CInv
<1> SUFFICES ASSUME Init PROVE CInv
  OBVIOUS
<1>1. wire = <<>> /\ fifo = <<>> /\ j = 0 /\ ticks = 0 /\ others = 0 /\ polled = FALSE /\ lost = {}
  BY DEF Init
<1>2. wire \o fifo = <<>> /\ wire \in Seq(Nat) /\ fifo \in Seq(Nat)
  BY <1>1
<1>3. IsFiniteSet(lost) /\ Cardinality(lost) = 0
  BY <1>1, FS_EmptySet, Zenon
<1>4. InOrder(<<>>, 0, {})
  BY DEF InOrder
<1>5. InOrder(wire \o fifo, j, lost)
  BY <1>1, <1>2, <1>4, Zenon
<1>6. ~AtRisk
  BY <1>1, Zenon DEF AtRisk
<1>7. lost \subseteq 1 .. j /\ Cardinality(lost) <= ticks
  BY <1>1, <1>3
<1> QED BY <1>1, <1>2, <1>3, <1>5, <1>6, <1>7 DEF CInv

\* Steps that leave the characters alone: snprintf, printk, dopr, the end of printk.
LEMMA CharactersStay ==
  ASSUME CInv, UNCHANGED <<j, polled, fifo, wire, lost, others, ticks>>
  PROVE  CInv'
BY DEF CInv, AtRisk

LEMMA PollStep == CInv /\ Poll => CInv'
<1> SUFFICES ASSUME CInv, Poll PROVE CInv'
  OBVIOUS
<1>1. UNCHANGED <<j, fifo, wire, lost, others, ticks>> /\ polled' = TRUE
  BY DEF Poll
<1>2. ~AtRisk' /\ ~AtRisk
  BY <1>1 DEF Poll, Printing, TransmitterReady, AtRisk, CInv
<1> QED BY <1>1, <1>2 DEF CInv

LEMMA WriteStep == CInv /\ Write => CInv'
<1> SUFFICES ASSUME CInv, Write PROVE CInv'
  OBVIOUS
<1>1. /\ UNCHANGED <<wire, others, ticks>> /\ j' = j + 1 /\ polled' = FALSE /\ polled
      /\ IF Len(fifo) < FIFO THEN fifo' = Append(fifo, j + 1) /\ UNCHANGED lost
                             ELSE lost' = lost \cup {j + 1} /\ UNCHANGED fifo
  BY DEF Write
<1>2. ~AtRisk'
  BY <1>1, Zenon DEF AtRisk
<1>3. Cardinality(lost) \in Nat
  BY FS_CardinalityType DEF CInv
<1>4. CASE Len(fifo) < FIFO
  <2>1. fifo' = Append(fifo, j + 1) /\ lost' = lost
    BY <1>1, <1>4
  <2>2. wire' \o fifo' = Append(wire \o fifo, j + 1)
    BY <1>1, <2>1, SentMore DEF CInv
  <2>3. InOrder(Append(wire \o fifo, j + 1), j + 1, lost)
    BY OwnAtEnd DEF CInv
  <2>4. InOrder(wire \o fifo, j, lost)'
    BY <1>1, <2>1, <2>2, <2>3
  <2>5. Cardinality(lost) <= ticks
    BY <1>3 DEF CInv
  <2>6. lost' \subseteq 1 .. j' /\ j' \in Nat /\ fifo' \in Seq(Nat)
    BY <1>1, <2>1 DEF CInv
  <2>7. IsFiniteSet(lost') /\ Cardinality(lost') <= ticks'
    BY <1>1, <2>1, <2>5 DEF CInv
  <2> QED BY <1>1, <1>2, <2>4, <2>6, <2>7 DEF CInv
<1>5. CASE ~(Len(fifo) < FIFO)
  <2>1. fifo' = fifo /\ lost' = lost \cup {j + 1}
    BY <1>1, <1>5
  <2>2. AtRisk
    BY <1>1, <1>5 DEF AtRisk
  <2>3. Cardinality(lost) < ticks
    BY <2>2 DEF CInv
  <2>4. j + 1 \notin lost
    BY DEF CInv
  <2>5. IsFiniteSet(lost') /\ Cardinality(lost') = Cardinality(lost) + 1
    BY <2>1, <2>4, FS_AddElement DEF CInv
  <2>6. InOrder(wire \o fifo, j + 1, lost \cup {j + 1})
    BY OwnLost DEF CInv
  <2>7. InOrder(wire \o fifo, j, lost)'
    BY <1>1, <2>1, <2>6
  <2>8. lost' \subseteq 1 .. j' /\ j' \in Nat
    BY <1>1, <2>1 DEF CInv
  <2>9. Cardinality(lost') <= ticks'
    BY <1>1, <1>3, <2>3, <2>5 DEF CInv
  <2> QED BY <1>1, <1>2, <2>1, <2>5, <2>7, <2>8, <2>9 DEF CInv
<1> QED BY <1>4, <1>5

LEMMA InterruptStep == CInv /\ Interrupt => CInv'
<1> SUFFICES ASSUME CInv, Interrupt PROVE CInv'
  OBVIOUS
<1>1. UNCHANGED <<j, polled, fifo, wire, lost>> /\ others' \in Nat /\ ticks' = ticks + 1
  BY ConsoleAssumption DEF Interrupt
<1>2. Cardinality(lost) \in Nat
  BY FS_CardinalityType DEF CInv
<1>3. Cardinality(lost) <= ticks
  BY <1>2 DEF CInv
<1> QED BY <1>1, <1>2, <1>3 DEF CInv

LEMMA OtherPutsStep == CInv /\ OtherPuts => CInv'
<1> SUFFICES ASSUME CInv, OtherPuts PROVE CInv'
  OBVIOUS
<1>1. /\ UNCHANGED <<j, polled, wire, lost, ticks>> /\ others > 0
      /\ others' = others - 1 /\ fifo' = Append(fifo, Foreign)
  BY DEF OtherPuts
<1>2. Foreign \in Nat
  BY DEF Foreign
<1>3. wire' \o fifo' = Append(wire \o fifo, Foreign)
  BY <1>1, <1>2, SentMore DEF CInv
<1>4. InOrder(Append(wire \o fifo, Foreign), j, lost)
  BY ForeignAtEnd DEF CInv
<1>5. InOrder(wire \o fifo, j, lost)'
  BY <1>1, <1>3, <1>4
<1>6. Cardinality(lost) \in Nat
  BY FS_CardinalityType DEF CInv
<1>7. AtRisk' => AtRisk
  BY <1>1 DEF AtRisk
<1>8. IF AtRisk' THEN Cardinality(lost) < ticks ELSE Cardinality(lost) <= ticks
  BY <1>6, <1>7 DEF CInv
<1>9. fifo' \in Seq(Nat) /\ others' \in Nat
  BY <1>1, <1>2 DEF CInv
<1> QED BY <1>1, <1>5, <1>8, <1>9 DEF CInv

LEMMA TransmitStep == CInv /\ Transmit => CInv'
<1> SUFFICES ASSUME CInv, Transmit PROVE CInv'
  OBVIOUS
<1>1. /\ UNCHANGED <<j, polled, lost, others, ticks>> /\ fifo # <<>> /\ fifo' = Tail(fifo)
      /\ wire' = IF Head(fifo) = Foreign THEN wire ELSE Append(wire, Head(fifo))
  BY DEF Transmit
<1>2. Head(fifo) \in Nat /\ Tail(fifo) \in Seq(Nat) /\ Len(Tail(fifo)) = Len(fifo) - 1 /\ Len(fifo) \in Nat
  BY <1>1, HeadTailProperties DEF CInv
<1>3. wire' \in Seq(Nat) /\ fifo' \in Seq(Nat)
  BY <1>1, <1>2 DEF CInv
<1>4. InOrder(wire' \o fifo', j, lost)
  <2>1. CASE Head(fifo) = Foreign
    <3>1. InOrder(wire \o Tail(fifo), j, lost)
      BY <1>1, <2>1, ForeignLeaves DEF CInv
    <3> QED BY <1>1, <2>1, <3>1
  <2>2. CASE Head(fifo) # Foreign
    <3>1. Append(wire, Head(fifo)) \o Tail(fifo) = wire \o fifo
      BY <1>1, SentOn DEF CInv
    <3> QED BY <1>1, <2>2, <3>1 DEF CInv
  <2> QED BY <2>1, <2>2
<1>5. Cardinality(lost) \in Nat
  BY FS_CardinalityType DEF CInv
<1>6. AtRisk' => AtRisk
  BY <1>1, <1>2, ConsoleAssumption DEF AtRisk
<1>7. IF AtRisk' THEN Cardinality(lost) < ticks ELSE Cardinality(lost) <= ticks
  BY <1>5, <1>6 DEF CInv
<1>8. InOrder(wire \o fifo, j, lost)'
  BY <1>1, <1>4
<1> QED BY <1>1, <1>3, <1>7, <1>8 DEF CInv

LEMMA CNext == CInv /\ [Next]_vars => CInv'
<1> SUFFICES ASSUME CInv, [Next]_vars PROVE CInv'
  OBVIOUS
<1>1. ASSUME NEW size \in Sizes, NEW c \in Calls, snprintf(size, c) /\ UNCHANGED cvars PROVE CInv'
  BY <1>1, CharactersStay DEF cvars
<1>2. ASSUME NEW c \in Printed, printk(c) PROVE CInv'
  BY <1>2, CharactersStay DEF printk
<1>3. CASE dopr /\ UNCHANGED cvars
  BY <1>3, CharactersStay DEF cvars
<1>4. CASE Poll
  BY <1>4, PollStep
<1>5. CASE Write
  BY <1>5, WriteStep
<1>6. CASE Return
  BY <1>6, CharactersStay DEF Return
<1>7. CASE Interrupt
  BY <1>7, InterruptStep
<1>8. CASE OtherPuts
  BY <1>8, OtherPutsStep
<1>9. CASE Transmit
  BY <1>9, TransmitStep
<1>10. CASE UNCHANGED vars
  BY <1>10, CharactersStay DEF vars, cvars
<1> QED BY <1>1, <1>2, <1>3, <1>4, <1>5, <1>6, <1>7, <1>8, <1>9, <1>10 DEF Next, TaskStep

LEMMA CInvImplies == CInv => SentOrLost
<1> SUFFICES ASSUME CInv PROVE SentOrLost
  OBVIOUS
<1>1. PICK sent \in Seq(Nat) : sent = wire \o fifo /\ InOrder(sent, j, lost)
  BY DEF CInv, InOrder
<1>2. DOMAIN sent = 1 .. Len(sent)
  BY <1>1
<1>3. \A m, n \in DOMAIN sent : m < n /\ Foreign \notin {sent[m], sent[n]} => sent[m] < sent[n]
  BY <1>1, <1>2 DEF InOrder
<1>4. Range(sent) \ {Foreign} = 1 .. j \ lost
  <2>1. Foreign \notin 1 .. j
    BY DEF Foreign
  <2>2. ASSUME NEW x \in Range(sent), x # Foreign PROVE x \in 1 .. j \ lost
    <3>1. PICK m \in 1 .. Len(sent) : x = sent[m]
      BY <1>2, <2>2 DEF Range
    <3> QED BY <1>1, <2>2, <3>1 DEF InOrder
  <2>3. ASSUME NEW x \in 1 .. j \ lost PROVE x \in Range(sent) \ {Foreign}
    <3>1. PICK m \in 1 .. Len(sent) : x = sent[m]
      BY <1>1 DEF InOrder
    <3> QED BY <1>2, <2>1, <3>1 DEF Range
  <2> QED BY <2>2, <2>3
<1>5. Cardinality(lost) <= ticks
  <2>1. Cardinality(lost) \in Nat
    BY FS_CardinalityType DEF CInv
  <2> QED BY <2>1 DEF CInv
<1> QED BY <1>1, <1>3, <1>4, <1>5 DEF SentOrLost

\* The characters of a printk come out of the UART in their order, none twice, and
\* an interrupt costs at most one of them (the write of uart_putc after a poll that
\* is out of date), whatever the text, the FIFO and what others print.
THEOREM SentOrLostTheorem == Spec => []SentOrLost
<1>1. Spec => []CInv
  BY CInit, CNext, PTL DEF Spec
<1> QED BY <1>1, CInvImplies, PTL

-----------------------------------------------------------------------------
(* What vsnprintf leaves in the buffer.                                    *)

IsText(s) == \E S : s \in Seq(S)

LEMMA Joined ==
  ASSUME NEW s, NEW t, IsText(s), IsText(t)
  PROVE  /\ IsText(s \o t) /\ Len(s) \in Nat /\ Len(t) \in Nat
         /\ Len(s \o t) = Len(s) + Len(t)
         /\ \A i \in 1 .. Len(s) + Len(t) : (s \o t)[i] = IF i <= Len(s) THEN s[i] ELSE t[i - Len(s)]
<1>1. PICK S, T : s \in Seq(S) /\ t \in Seq(T)
  BY DEF IsText
<1>2. PICK U : U = S \cup T
  OBVIOUS
<1>3. s \in Seq(U) /\ t \in Seq(U)
  BY <1>1, <1>2
<1>4. /\ s \o t \in Seq(U) /\ Len(s \o t) = Len(s) + Len(t)
      /\ \A i \in 1 .. Len(s) + Len(t) : (s \o t)[i] = IF i <= Len(s) THEN s[i] ELSE t[i - Len(s)]
  BY <1>3, ConcatProperties
<1>5. Len(s) \in Nat /\ Len(t) \in Nat
  BY <1>3
<1> QED BY <1>4, <1>5 DEF IsText

LEMMA Shortened ==
  ASSUME NEW s, IsText(s), NEW k \in Int, k <= Len(s)
  PROVE  IsText(SubSeq(s, 1, k))
<1>1. PICK S : s \in Seq(S)
  BY DEF IsText
<1>2. SubSeq(s, 1, k) \in Seq(S)
  BY <1>1
<1> QED BY <1>2 DEF IsText

LEMMA OneCharacter == ASSUME NEW c PROVE IsText(<<c>>) /\ Len(<<c>>) = 1 /\ <<c>>[1] = c
<1>1. <<c>> \in Seq({c})
  OBVIOUS
<1> QED BY <1>1 DEF IsText

LEMMA NoCharacter == IsText(<<>>) /\ Len(<<>>) = 0
<1>1. <<>> \in Seq({})
  OBVIOUS
<1> QED BY <1>1 DEF IsText

LEMMA CopiesText == ASSUME NEW c, NEW n \in Int PROVE IsText(Copies(c, n))
<1>1. Pos(n) \in Nat
  BY DEF Pos
<1>2. [i \in 1 .. Pos(n) |-> c] \in Seq({c})
  BY <1>1
<1> QED BY <1>2 DEF IsText, Copies

\* A number has between one and nineteen digits, whatever its base.
LEMMA PlaceIs == ASSUME NEW u, NEW base PROVE place(u, base) \in 1 .. 19
<1> DEFINE S == {n \in 1 .. 19 : n = 19 \/ u < base ^ n}
<1>1. PICK x \in S : \A y \in S : ~(<<y, x>> \in OpToRel(<, Nat))
  <2>1. 19 \in S /\ S \in SUBSET Nat
    OBVIOUS
  <2>2. S \subseteq Nat /\ S # {}
    BY <2>1, Zenon
  <2> HIDE DEF S
  <2> QED BY <2>2, NatLessThanWellFounded, WFMin, Zenon
<1>2. OpToRel(<, Nat) = {ss \in Nat \X Nat : ss[1] < ss[2]}
  BY Zenon DEF OpToRel
<1>3. \A y \in S : ~(<<y, x>> \in {ss \in Nat \X Nat : ss[1] < ss[2]})
  BY <1>1, <1>2, Zenon
<1>4. x \in 1 .. 19 /\ (x = 19 \/ u < base ^ x)
  OBVIOUS
<1>5. ASSUME NEW m \in 1 .. x - 1 PROVE ~(u < base ^ m)
  <2> SUFFICES ASSUME u < base ^ m PROVE FALSE
    OBVIOUS
  <2>1. m \in 1 .. 19 /\ m < x /\ <<m, x>> \in Nat \X Nat /\ <<m, x>>[1] < <<m, x>>[2]
    BY <1>4
  <2>2. m \in S
    BY <2>1
  <2> QED BY <1>3, <2>1, <2>2, Zenon
<1>6. \E n \in 1 .. 19 : (n = 19 \/ u < base ^ n) /\ \A m \in 1 .. n - 1 : ~(u < base ^ m)
  BY <1>4, <1>5
<1> QED BY <1>6, Zenon DEF place

LEMMA DigitsText == ASSUME NEW u, NEW base, NEW caps PROVE IsText(Digits(u, base, caps))
<1>1. PICK n \in 1 .. 19 : n = place(u, base)
  BY PlaceIs
<1>2. PICK f : f = [i \in 1 .. n |-> (IF caps THEN Upper ELSE Lower)[((u \div base ^ (n - i)) % base) + 1]]
  OBVIOUS
<1>3. Digits(u, base, caps) = f
  BY <1>1, <1>2, Zenon DEF Digits
<1>4. DOMAIN f = 1 .. n /\ f = [i \in 1 .. n |-> f[i]]
  BY <1>2, Zenon
<1>5. PICK S : S = {f[i] : i \in 1 .. n}
  OBVIOUS
<1>6. \A i \in 1 .. n : f[i] \in S
  BY <1>5
<1>7. f \in Seq(S)
  <2>1. f \in [1 .. n -> S]
    BY <1>4, <1>6, Zenon
  <2> QED BY <2>1
<1> QED BY <1>3, <1>7 DEF IsText

LEMMA SignText == ASSUME NEW negative, NEW flags PROVE IsText(Sign(negative, flags))
BY OneCharacter, NoCharacter, Zenon DEF Sign

LEMMA JustifiedText ==
  ASSUME NEW text, IsText(text), NEW padlen \in Int, NEW flags PROVE IsText(Justified(text, padlen, flags))
BY CopiesText, Joined, Zenon DEF Justified

LEMMA IntText ==
  ASSUME NEW value, NEW base, NEW min \in Int, NEW max \in Int, NEW flags
  PROVE  IsText(fmtint(value, base, min, max, flags))
<1> DEFINE signed == "unsigned" \notin flags
           sign == IF signed THEN Sign(value < 0, flags) ELSE <<>>
           uvalue == (IF signed /\ value < 0 THEN -value ELSE value) % LONG
           digits == Digits(uvalue, base, "up" \in flags)
           zpadlen == Pos(max - Len(digits))
           spadlen == Pos(min - MAX(Pos(max), Len(digits)) - Len(sign))
<1>1. IsText(sign)
  BY NoCharacter, SignText
<1>2. IsText(digits)
  BY DigitsText
<1>3. Len(digits) \in Nat /\ Len(sign) \in Nat
  BY <1>1, <1>2, Joined
<1> HIDE DEF digits, sign
<1>4. zpadlen \in Int /\ spadlen \in Int /\ ZeroPad(zpadlen, spadlen) \in Int
  BY <1>3 DEF Pos, MAX, ZeroPad
<1> HIDE DEF zpadlen, spadlen
<1>5. IsText(sign \o Copies("0", ZeroPad(zpadlen, spadlen)) \o digits)
  BY <1>1, <1>2, <1>4, CopiesText, Joined, Zenon
<1>6. IsText(Justified(sign \o Copies("0", zpadlen) \o digits, spadlen, flags))
  BY <1>1, <1>2, <1>4, CopiesText, JustifiedText, Joined, Zenon
<1>7. fmtint(value, base, min, max, flags) =
        IF "0" \in flags THEN sign \o Copies("0", ZeroPad(zpadlen, spadlen)) \o digits
        ELSE Justified(sign \o Copies("0", zpadlen) \o digits, spadlen, flags)
  BY Zenon DEF fmtint, sign, digits, zpadlen, spadlen
<1> QED BY <1>5, <1>6, <1>7, Zenon

LEMMA StrText ==
  ASSUME NEW value, IsText(value), NEW flags, NEW min \in Int, NEW max \in Int
  PROVE  IsText(fmtstr(value, flags, min, max))
<1>1. Len(value) \in Nat
  BY Joined
<1>2. PICK text : text = Justified(value, min - Len(value), flags) /\ IsText(text)
  BY <1>1, JustifiedText
<1>3. Len(text) \in Nat
  BY <1>2, Joined
<1>4. PICK k \in Int : k = (IF Len(text) < max THEN Len(text) ELSE max) /\ k <= Len(text)
  BY <1>3
<1>5. fmtstr(value, flags, min, max) = SubSeq(text, 1, k)
  BY <1>2, <1>4, Zenon DEF fmtstr
<1> QED BY <1>2, <1>4, <1>5, Shortened

LEMMA FloatText ==
  ASSUME NEW fvalue, NEW flags, NEW min \in Int, NEW max0 \in Int
  PROVE  IsText(fmtfp(fvalue, flags, min, max0))
<1> DEFINE max == IF max0 < 0 THEN 6 ELSE IF max0 > 9 THEN 9 ELSE max0
<1>1. max \in Int
  OBVIOUS
<1> HIDE DEF max
<1> DEFINE ufvalue == IF fvalue < 0 THEN -fvalue ELSE fvalue
           frac == Rounded(max, ufvalue % SCALE)
           carry == IF frac >= 10 ^ max THEN 1 ELSE 0
           int == Digits((ufvalue \div SCALE) + carry, 10, FALSE)
           fraction == Digits(frac - carry * 10 ^ max, 10, FALSE)
           sign == Sign(fvalue < 0, flags)
           padlen == Pos(min - Len(int) - max - 1 - Len(sign))
           number == int \o (IF max > 0 THEN <<".">> \o fraction ELSE <<>>)
                         \o Copies("0", max - Len(fraction))
<1>2. IsText(int) /\ IsText(fraction) /\ IsText(sign)
  BY DigitsText, SignText, Zenon
<1>3. Len(int) \in Nat /\ Len(fraction) \in Nat /\ Len(sign) \in Nat
  BY <1>2, Joined, Zenon
<1> HIDE DEF int, fraction, sign
<1>4. padlen \in Int /\ padlen - Len(sign) \in Int /\ max - Len(fraction) \in Int
  BY <1>1, <1>3 DEF Pos
<1> HIDE DEF padlen
<1>5. IsText(<<".">> \o fraction) /\ IsText(<<>>)
  BY <1>2, OneCharacter, NoCharacter, Joined
<1>6. IsText(int \o (IF max > 0 THEN <<".">> \o fraction ELSE <<>>))
  BY <1>2, <1>5, Joined, Zenon
<1>7. IsText(number)
  BY <1>4, <1>6, CopiesText, Joined, Zenon
<1> HIDE DEF number
<1>8. IsText(sign \o Copies("0", padlen - Len(sign)) \o number)
  BY <1>2, <1>4, <1>7, CopiesText, Joined, Zenon
<1>9. IsText(Justified(sign \o number, padlen, flags))
  BY <1>2, <1>4, <1>7, JustifiedText, Joined, Zenon
<1>10. fmtfp(fvalue, flags, min, max0) =
        IF "0" \in flags /\ "-" \notin flags /\ padlen > 0
        THEN sign \o Copies("0", padlen - Len(sign)) \o number
        ELSE Justified(sign \o number, padlen, flags)
  BY Zenon DEF fmtfp, Decimals, max, int, fraction, sign, padlen, number
<1> QED BY <1>8, <1>9, <1>10, Zenon

\* What any conversion prints, of an argument that is meant for it.
LEMMA TextText ==
  ASSUME NEW conv \in Prints, NEW a, NEW s, s.min \in Int, s.max \in Int, call.maxlen \in Int,
         conv = "s" => IsText(StringOf(a))
  PROVE  IsText(Text(conv, a, s))
<1>1. CASE conv \in IntConv
  <2>1. conv \notin {"f", "c", "s"}
    BY <1>1 DEF IntConv
  <2>2. Text(conv, a, s) = fmtint(a.long, Base(conv), s.min, s.max, s.flags \cup Added(conv))
    BY <1>1, <2>1 DEF Text
  <2> QED BY <2>2, IntText, Zenon
<1>2. CASE conv = "f"
  <2>1. "f" \notin IntConv
    BY DEF IntConv
  <2>2. Text(conv, a, s) = fmtfp(a.double, s.flags, s.min, s.max)
    BY <1>2, <2>1 DEF Text
  <2> QED BY <2>2, FloatText, Zenon
<1>3. CASE conv = "c"
  <2>1. "c" \notin IntConv
    BY DEF IntConv
  <2>2. Text(conv, a, s) = <<a.char>>
    BY <1>3, <2>1 DEF Text
  <2> QED BY <2>2, OneCharacter, Zenon
<1>4. CASE conv = "s"
  <2>1. "s" \notin IntConv
    BY DEF IntConv
  <2>2. PICK max \in Int : max = IF s.max < 0 THEN call.maxlen ELSE s.max
    OBVIOUS
  <2>3. Text(conv, a, s) = fmtstr(StringOf(a), s.flags, s.min, max)
    BY <1>4, <2>1, <2>2 DEF Text
  <2> QED BY <1>4, <2>3, StrText, Zenon
<1> QED BY <1>1, <1>2, <1>3, <1>4 DEF Prints

Smaller(p, q) == IF p < q THEN p ELSE q

\* The buffer holds the first n characters of full, and behind them what it held,
\* or else a NUL.
Contents(n, ended) ==
    [i \in Cell |-> IF i < n THEN full[i + 1] ELSE IF i = n /\ (ended \/ n = 0) THEN NUL ELSE ANY]

SpecType == [flags : SUBSET Flag, cflags : {"", "h", "l", "L"}, min : Int, max : Int]

Stored == /\ IsText(full) /\ call.maxlen \in Sizes /\ currlen \in Nat
          /\ currlen = Smaller(Len(full), call.maxlen)
          /\ buffer = Contents(currlen, FALSE)

BInv == state # "IDLE" =>
          /\ \E c \in Calls : call.fmt = c.fmt /\ call.args = c.args
          /\ pos \in 1 .. Len(call.fmt) + 1
          /\ spec \in SpecType
          /\ IF state = "RETURNED"
             THEN /\ IsText(full) /\ call.maxlen \in Sizes
                  /\ buffer = Contents(Smaller(Len(full), call.maxlen - 1), TRUE)
             ELSE Stored

LEMMA CellIs == Sizes \subseteq Nat \ {0} /\ \E m \in Nat : Cell = 0 .. m + 1 /\ \A n \in Sizes : n <= m
<1>1. PICK m \in Sizes : \A n \in Sizes : n <= m
  BY FormatAssumption
<1>2. Sizes \subseteq Nat \ {0}
  BY FormatAssumption
<1>3. \E x \in Sizes : \A y \in Sizes : x >= y
  BY <1>1, <1>2
<1>4. Max(Sizes) \in Sizes /\ \A y \in Sizes : Max(Sizes) >= y
  BY <1>3, Zenon DEF Max
<1>5. Max(Sizes) \in Nat /\ \A n \in Sizes : n <= Max(Sizes)
  BY <1>2, <1>4
<1> QED BY <1>2, <1>5 DEF Cell

LEMMA CallIs ==
  ASSUME NEW c \in Calls
  PROVE  /\ IsText(c.fmt) /\ Len(c.fmt) \in Nat /\ (Len(c.fmt) > 0 => c.fmt[Len(c.fmt)] # "w")
         /\ \A i \in DOMAIN c.args : /\ "long" \in DOMAIN c.args[i] => IsLong(c.args[i].long)
                                     /\ "double" \in DOMAIN c.args[i] => IsDouble(c.args[i].double)
                                     /\ "text" \in DOMAIN c.args[i] => IsText(c.args[i].text)
<1>1. /\ c.fmt \in Seq(STRING) /\ ~EndsInW(c.fmt)
      /\ \A i \in DOMAIN c.args : /\ "long" \in DOMAIN c.args[i] => IsLong(c.args[i].long)
                                  /\ "double" \in DOMAIN c.args[i] => IsDouble(c.args[i].double)
                                  /\ "text" \in DOMAIN c.args[i] => c.args[i].text \in Seq(STRING)
  BY FormatAssumption, Zenon
<1>2. Len(c.fmt) \in Nat /\ (Len(c.fmt) > 0 => c.fmt # <<>>)
  BY <1>1
<1>3. Len(c.fmt) > 0 => c.fmt[Len(c.fmt)] # "w"
  BY <1>1, <1>2, Zenon DEF EndsInW, Last
<1> QED BY <1>1, <1>2, <1>3, Zenon DEF IsText

LEMMA StringText ==
  ASSUME NEW c \in Calls, NEW i \in DOMAIN c.args,
         "text" \in DOMAIN c.args[i] \/ "null" \in DOMAIN c.args[i]
  PROVE  IsText(StringOf(c.args[i]))
<1>1. CASE "null" \in DOMAIN c.args[i]
  <2>1. <<"<", "N", "U", "L", "L", ">">> \in Seq({"<", "N", "U", "L", ">"})
    OBVIOUS
  <2> QED BY <1>1, <2>1 DEF StringOf, IsText
<1>2. CASE "null" \notin DOMAIN c.args[i]
  <2>1. IsText(c.args[i].text)
    BY <1>2, CallIs
  <2> QED BY <1>2, <2>1, Zenon DEF StringOf
<1> QED BY <1>1, <1>2

\* dopr_outch, as long as there is room and when there is none left.
LEMMA OutchStep ==
  ASSUME Stored, NEW text, IsText(text), dopr_outch(text), UNCHANGED call
  PROVE  Stored'
<1>1. PICK m \in Nat : Cell = 0 .. m + 1 /\ \A n \in Sizes : n <= m
  BY CellIs
<1>2. PICK l \in Nat : l = call.maxlen /\ l <= m
  BY <1>1, CellIs DEF Stored
<1>3. /\ Len(full) \in Nat /\ Len(text) \in Nat /\ IsText(full \o text)
      /\ Len(full \o text) = Len(full) + Len(text)
      /\ \A i \in 1 .. Len(full) + Len(text) :
            (full \o text)[i] = IF i <= Len(full) THEN full[i] ELSE text[i - Len(full)]
  BY Joined DEF Stored
<1>4. PICK n \in Nat : n = currlen /\ n = Smaller(Len(full), l)
  BY <1>2 DEF Stored
<1>5. PICK k \in Nat : k = Smaller(Len(full) + Len(text), l)
  BY <1>2, <1>3 DEF Smaller
<1>6. n <= k /\ k <= l /\ (n < k => n = Len(full)) /\ n <= Len(full) /\ k <= Len(full) + Len(text)
  BY <1>2, <1>3, <1>4, <1>5 DEF Smaller
<1> DEFINE stored == {i \in Cell : i >= currlen /\ i - currlen < Len(text) /\ HasRoom(i)}
<1>7. stored = n .. k - 1
  BY <1>1, <1>2, <1>3, <1>4, <1>5, SMTT(30) DEF HasRoom, Smaller
<1>8. Cardinality(stored) = k - n
  <2>1. Cardinality(n .. k - 1) = IF n > k - 1 THEN 0 ELSE (k - 1) - n + 1
    BY FS_Interval
  <2>2. Cardinality(n .. k - 1) = k - n
    BY <1>6, <2>1
  <2> QED BY <1>7, <2>2, Zenon
<1>9. /\ buffer' = [i \in Cell |-> IF i \in stored THEN text[i - currlen + 1] ELSE buffer[i]]
      /\ currlen' = currlen + Cardinality(stored) /\ full' = full \o text
  BY Zenon DEF dopr_outch
<1> HIDE DEF stored
<1>10. currlen' = k
  <2>1. currlen' = n + (k - n)
    BY <1>4, <1>8, <1>9, Zenon
  <2> QED BY <1>6, <2>1
<1>11. currlen' = Smaller(Len(full'), call'.maxlen)
  BY <1>2, <1>3, <1>5, <1>9, <1>10
<1>12. ASSUME NEW i \in Cell
       PROVE  (IF i \in stored THEN text[i - currlen + 1] ELSE buffer[i])
                = (IF i < k THEN full'[i + 1] ELSE IF i = k /\ (FALSE \/ k = 0) THEN NUL ELSE ANY)
  <2>1. i \in Nat
    BY <1>1
  <2>2. buffer[i] = IF i < n THEN full[i + 1] ELSE IF i = n /\ (FALSE \/ n = 0) THEN NUL ELSE ANY
    BY <1>4 DEF Stored, Contents
  <2>3. CASE i \in n .. k - 1
    <3>1. full'[i + 1] = text[i + 1 - Len(full)] /\ n = Len(full)
      BY <1>3, <1>6, <1>9, <2>1, <2>3, SMTT(30)
    <3> QED BY <1>4, <1>7, <2>1, <2>3, <3>1
  <2>4. CASE i < n
    <3>1. full'[i + 1] = full[i + 1]
      BY <1>3, <1>6, <1>9, <2>1, <2>4
    <3> QED BY <1>6, <1>7, <2>1, <2>2, <2>4, <3>1
  <2>5. CASE i >= k
    BY <1>6, <1>7, <2>1, <2>2, <2>5
  <2> QED BY <2>1, <2>3, <2>4, <2>5
<1>13. buffer' = Contents(currlen, FALSE)'
  BY <1>9, <1>10, <1>12, Zenon DEF Contents
<1> QED BY <1>3, <1>9, <1>10, <1>11, <1>13 DEF Stored

Going == {"DEFAULT", "FLAGS", "MIN", "DOT", "MAX", "MOD", "CONV"}

LEMMA SpecFields == NoSpec \in SpecType /\ \A s \in SpecType : s.min \in Int /\ s.max \in Int
<1>1. {} \in SUBSET Flag /\ -1 \in Int
  OBVIOUS
<1>2. NoSpec \in SpecType
  BY <1>1 DEF NoSpec, SpecType
<1> QED BY <1>2 DEF SpecType

LEMMA ReadingIs ==
  ASSUME BInv, NEW s \in Going, Reading(s)
  PROVE  /\ Stored /\ state = s /\ spec \in SpecType
         /\ \E c \in Calls : call.fmt = c.fmt /\ call.args = c.args
         /\ Len(call.fmt) \in Nat /\ pos \in 1 .. Len(call.fmt) /\ ch = call.fmt[pos]
<1>1. state = s /\ s # "IDLE" /\ s # "RETURNED" /\ ch # NUL
  BY DEF Reading, Going
<1>2. PICK c \in Calls : call.fmt = c.fmt /\ call.args = c.args
  BY <1>1 DEF BInv
<1>3. Len(call.fmt) \in Nat /\ pos \in 1 .. Len(call.fmt) + 1
  BY <1>1, <1>2, CallIs DEF BInv
<1>4. pos <= Len(call.fmt)
  BY <1>1 DEF ch
<1>5. Stored /\ spec \in SpecType
  BY <1>1 DEF BInv
<1>6. ch = call.fmt[pos]
  BY <1>4 DEF ch
<1> QED BY <1>1, <1>2, <1>3, <1>4, <1>5, <1>6

\* A round of the loop.
LEMMA RoundIs ==
  ASSUME UNCHANGED call, \E c \in Calls : call.fmt = c.fmt /\ call.args = c.args,
         state' \in Going, pos' \in 1 .. Len(call.fmt) + 1, spec' \in SpecType, Stored'
  PROVE  BInv'
<1>1. state' # "RETURNED"
  BY DEF Going
<1> QED BY <1>1, Zenon DEF BInv

LEMMA NothingStored == ASSUME Stored, NoOutput, UNCHANGED call PROVE Stored'
BY DEF Stored, NoOutput, Contents, Smaller

LEMMA DefaultStep == ASSUME BInv, Default PROVE BInv'
<1>1. Reading("DEFAULT") /\ "DEFAULT" \in Going
  BY DEF Default, Going
<1>2. UNCHANGED <<call, spec>> /\ pos' = pos + 1
  BY DEF Default, NextCh
<1>3. /\ Stored /\ state = "DEFAULT" /\ spec \in SpecType
      /\ \E c \in Calls : call.fmt = c.fmt /\ call.args = c.args
      /\ Len(call.fmt) \in Nat /\ pos \in 1 .. Len(call.fmt)
  BY <1>1, ReadingIs
<1>4. CASE ch = "%"
  <2>1. state' = "FLAGS" /\ NoOutput
    BY <1>4 DEF Default
  <2>2. Stored' /\ state' \in Going
    BY <1>2, <1>3, <2>1, NothingStored DEF Going
  <2>3. pos' \in 1 .. Len(call.fmt) + 1 /\ spec' \in SpecType
    BY <1>2, <1>3
  <2> QED BY <1>2, <1>3, <2>2, <2>3, RoundIs
<1>5. CASE ch # "%"
  <2>1. state' = "DEFAULT" /\ dopr_outch(<<ch>>)
    BY <1>3, <1>5 DEF Default
  <2>2. Stored' /\ state' \in Going
    BY <1>2, <1>3, <2>1, OutchStep, OneCharacter DEF Going
  <2>3. pos' \in 1 .. Len(call.fmt) + 1 /\ spec' \in SpecType
    BY <1>2, <1>3
  <2> QED BY <1>2, <1>3, <2>2, <2>3, RoundIs
<1> QED BY <1>4, <1>5

LEMMA FlagsStep == ASSUME BInv, Flags PROVE BInv'
<1>1. Reading("FLAGS") /\ "FLAGS" \in Going
  BY DEF Flags, Going
<1>2. /\ Stored /\ state = "FLAGS" /\ spec \in SpecType
      /\ \E c \in Calls : call.fmt = c.fmt /\ call.args = c.args
      /\ Len(call.fmt) \in Nat /\ pos \in 1 .. Len(call.fmt)
  BY <1>1, ReadingIs
<1>3. UNCHANGED call /\ NoOutput
  BY DEF Flags
<1>4. pos' \in {pos, pos + 1} /\ state' \in {"FLAGS", "MIN"}
  BY <1>2 DEF Flags, NextCh, KeepCh
<1>5. spec' \in SpecType
  <2>2. CASE ch \in Flag
    <3>1. spec' = [spec EXCEPT !.flags = @ \cup {ch}]
      BY <2>2 DEF Flags
    <3> QED BY <1>2, <2>2, <3>1 DEF SpecType
  <2>3. CASE ch \notin Flag
    BY <1>2, <2>3 DEF Flags
  <2> QED BY <2>2, <2>3
<1>6. Stored'
  BY <1>2, <1>3, NothingStored
<1>7. pos' \in 1 .. Len(call.fmt) + 1 /\ state' \in Going
  BY <1>2, <1>4 DEF Going
<1> QED BY <1>2, <1>3, <1>5, <1>6, <1>7, RoundIs

\* A width or a precision, from the format or from the arguments.
LEMMA NumberStep ==
  ASSUME BInv, ArgumentsMatch, NEW s \in {"MIN", "MAX"}, Reading(s),
         NEW what \in {"min", "max"}, NEW seen \in Int, NEW then \in Going, Number(what, seen, then)
  PROVE  BInv'
<1>1. s \in Going
  BY DEF Going
<1>2. /\ Stored /\ state = s /\ spec \in SpecType
      /\ \E c \in Calls : call.fmt = c.fmt /\ call.args = c.args
      /\ Len(call.fmt) \in Nat /\ pos \in 1 .. Len(call.fmt)
  BY <1>1, ReadingIs
<1>3. UNCHANGED call /\ NoOutput
  BY DEF Number
<1>4. pos' \in {pos, pos + 1} /\ state' \in {s, then}
  BY <1>2 DEF Number, NextCh, KeepCh
<1>5. spec' \in SpecType
  <2>1. ASSUME NEW n \in Int, spec' = [spec EXCEPT ![what] = n] PROVE spec' \in SpecType
    <3>1. CASE what = "min"
      BY <1>2, <2>1, <3>1 DEF SpecType
    <3>2. CASE what = "max"
      BY <1>2, <2>1, <3>2 DEF SpecType
    <3> QED BY <3>1, <3>2
  <2>2. CASE ch \in Range(Digit)
    <3>1. spec' = [spec EXCEPT ![what] = 10 * seen + char_to_int(ch)]
      <4>1. "*" \notin Range(Digit)
        BY DEF Range, Digit
      <4> QED BY <2>2, <4>1 DEF Number
    <3>2. \E i \in DOMAIN Digit : Digit[i] = ch
      BY <2>2, Zenon DEF Range
    <3>3. (CHOOSE i \in DOMAIN Digit : Digit[i] = ch) \in DOMAIN Digit
      BY <3>2, Zenon
    <3>4. DOMAIN Digit \subseteq Int
      BY DEF Digit
    <3>5. char_to_int(ch) \in Int
      BY <3>3, <3>4 DEF char_to_int
    <3>6. 10 * seen + char_to_int(ch) \in Int
      BY <3>5
    <3> QED BY <2>1, <3>1, <3>6
  <2>3. CASE ch = "*" /\ ch \notin Range(Digit)
    <3>1. spec' = [spec EXCEPT ![what] = arg.long]
      BY <2>3 DEF Number
    <3>2. ap \in DOMAIN call.args /\ "long" \in DOMAIN arg
      BY <1>2, <2>3 DEF ArgumentsMatch
    <3>3. arg.long \in Int
      BY <1>2, <3>2, CallIs DEF arg, IsLong
    <3> QED BY <2>1, <3>1, <3>3
  <2>4. CASE ch \notin Range(Digit) \cup {"*"}
    BY <1>2, <2>4 DEF Number
  <2> QED BY <2>2, <2>3, <2>4
<1>6. Stored'
  BY <1>2, <1>3, NothingStored
<1>7. pos' \in 1 .. Len(call.fmt) + 1 /\ state' \in Going
  BY <1>1, <1>2, <1>4
<1> QED BY <1>2, <1>3, <1>5, <1>6, <1>7, RoundIs

LEMMA MinWidthStep == ASSUME BInv, ArgumentsMatch, MinWidth PROVE BInv'
<1>1. Reading("MIN") /\ Number("min", spec.min, "DOT") /\ "MIN" \in Going /\ "DOT" \in Going
  BY DEF MinWidth, Going
<1>2. spec \in SpecType
  BY <1>1, ReadingIs
<1>3. spec.min \in Int
  BY <1>2, SpecFields
<1> QED BY <1>1, <1>3, NumberStep

LEMMA MaxWidthStep == ASSUME BInv, ArgumentsMatch, MaxWidth PROVE BInv'
<1>1. Reading("MAX") /\ Number("max", Pos(spec.max), "MOD") /\ "MAX" \in Going /\ "MOD" \in Going
  BY DEF MaxWidth, Going
<1>2. spec \in SpecType
  BY <1>1, ReadingIs
<1>3. Pos(spec.max) \in Int
  BY <1>2, SpecFields DEF Pos
<1> QED BY <1>1, <1>3, NumberStep

LEMMA DotStep == ASSUME BInv, Dot PROVE BInv'
<1>1. Reading("DOT") /\ "DOT" \in Going
  BY DEF Dot, Going
<1>2. /\ Stored /\ spec \in SpecType
      /\ \E c \in Calls : call.fmt = c.fmt /\ call.args = c.args
      /\ Len(call.fmt) \in Nat /\ pos \in 1 .. Len(call.fmt)
  BY <1>1, ReadingIs
<1>3. UNCHANGED <<call, spec>> /\ NoOutput
  BY DEF Dot
<1>4. pos' \in {pos, pos + 1} /\ state' \in {"MAX", "MOD"}
  BY DEF Dot, NextCh, KeepCh
<1>5. Stored'
  BY <1>2, <1>3, NothingStored
<1>6. pos' \in 1 .. Len(call.fmt) + 1 /\ state' \in Going /\ spec' \in SpecType
  BY <1>2, <1>3, <1>4 DEF Going
<1> QED BY <1>2, <1>3, <1>5, <1>6, RoundIs

LEMMA ModStep == ASSUME BInv, Mod PROVE BInv'
<1>1. Reading("MOD") /\ "MOD" \in Going
  BY DEF Mod, Going
<1>2. /\ Stored /\ spec \in SpecType
      /\ \E c \in Calls : call.fmt = c.fmt /\ call.args = c.args
      /\ Len(call.fmt) \in Nat /\ pos \in 1 .. Len(call.fmt)
  BY <1>1, ReadingIs
<1>3. UNCHANGED call /\ NoOutput
  BY DEF Mod
<1>4. pos' \in {pos, pos + 1} /\ state' = "CONV"
  BY DEF Mod, NextCh, KeepCh
<1>5. spec' \in SpecType
  <2>1. CASE ch \in {"h", "l", "L"}
    <3>1. spec' = [spec EXCEPT !.cflags = ch]
      BY <2>1 DEF Mod
    <3> QED BY <1>2, <2>1, <3>1 DEF SpecType
  <2>2. CASE ch \notin {"h", "l", "L"}
    BY <1>2, <2>2 DEF Mod
  <2> QED BY <2>1, <2>2
<1>6. Stored'
  BY <1>2, <1>3, NothingStored
<1>7. pos' \in 1 .. Len(call.fmt) + 1 /\ state' \in Going
  BY <1>2, <1>4 DEF Going
<1> QED BY <1>2, <1>3, <1>5, <1>6, <1>7, RoundIs

LEMMA ConvStep == ASSUME BInv, ArgumentsMatch, Conv PROVE BInv'
<1>1. Reading("CONV") /\ "CONV" \in Going
  BY DEF Conv, Going
<1>2. /\ Stored /\ spec \in SpecType /\ state = "CONV"
      /\ Len(call.fmt) \in Nat /\ pos \in 1 .. Len(call.fmt) /\ ch = call.fmt[pos]
  BY <1>1, ReadingIs
<1>3. PICK c \in Calls : call.fmt = c.fmt /\ call.args = c.args
  BY <1>1, ReadingIs
<1>4. UNCHANGED call /\ state' = "DEFAULT" /\ spec' = NoSpec /\ pos' = pos + Skipped(ch)
  BY DEF Conv
<1>5. spec' \in SpecType
  BY <1>4, SpecFields
<1>6. pos' \in 1 .. Len(call.fmt) + 1
  <2>1. CASE ch = "w"
    <3>1. pos # Len(call.fmt)
      BY <1>2, <1>3, <2>1, CallIs
    <3> QED BY <1>2, <1>4, <2>1, <3>1 DEF Skipped
  <2>2. CASE ch # "w"
    BY <1>2, <1>4, <2>2 DEF Skipped
  <2> QED BY <2>1, <2>2
<1>7. Stored'
  <2>1. CASE ch \in Prints
    <3>1. /\ field' = [conv |-> ch, arg |-> arg, spec |-> spec, text |-> Text(ch, arg, spec)]
          /\ dopr_outch(field'.text)
      <4>1. "%" \notin Prints
        BY DEF Prints, IntConv
      <4> QED BY <2>1, <4>1 DEF Conv
    <3>2. dopr_outch(Text(ch, arg, spec))
      <4>1. field'.text = Text(ch, arg, spec)
        BY <3>1
      <4> QED BY <3>1, <4>1, Zenon
    <3>3. ch = "s" => IsText(StringOf(arg))
      <4> SUFFICES ASSUME ch = "s" PROVE IsText(StringOf(arg))
        OBVIOUS
      <4>1. ap \in DOMAIN call.args /\ ("text" \in DOMAIN arg \/ "null" \in DOMAIN arg)
        BY <1>2 DEF ArgumentsMatch
      <4> QED BY <1>3, <4>1, StringText DEF arg
    <3>4. spec.min \in Int /\ spec.max \in Int /\ call.maxlen \in Int
      <4>1. \A n \in Sizes : n \in Int
        BY CellIs
      <4>2. call.maxlen \in Int
        BY <1>2, <4>1, Zenon DEF Stored
      <4> QED BY <1>2, <4>2, SpecFields
    <3>5. IsText(Text(ch, arg, spec))
      BY <2>1, <3>3, <3>4, TextText
    <3> QED BY <1>2, <1>4, <3>2, <3>5, OutchStep
  <2>2. CASE ch = "%"
    <3>1. dopr_outch(<<ch>>)
      <4>1. "%" \notin Prints
        BY DEF Prints, IntConv
      <4> QED BY <2>2, <4>1 DEF Conv
    <3> QED BY <1>2, <1>4, <3>1, OutchStep, OneCharacter
  <2>3. CASE ch \notin Prints \cup {"%"}
    <3>1. NoOutput
      BY <2>3 DEF Conv
    <3> QED BY <1>2, <1>4, <3>1, NothingStored
  <2> QED BY <2>1, <2>2, <2>3
<1>8. state' \in Going
  BY <1>4 DEF Going
<1> QED BY <1>3, <1>4, <1>5, <1>6, <1>7, <1>8, RoundIs

\* The NUL that ends the string, over its last character when the buffer is full.
LEMMA DoneStep == ASSUME BInv, Done PROVE BInv'
<1>1. state # "IDLE" /\ state # "RETURNED" /\ state' = "RETURNED" /\ UNCHANGED <<call, pos, spec, currlen, full>>
  BY DEF Done
<1>2. Stored
  BY <1>1 DEF BInv
<1>3. PICK m \in Nat : Cell = 0 .. m + 1 /\ \A n \in Sizes : n <= m
  BY CellIs
<1>4. PICK l \in Nat : l = call.maxlen /\ l > 0 /\ l <= m
  <2>1. \A n \in Sizes : n \in Nat /\ n > 0 /\ n <= m
    BY <1>3, CellIs
  <2>2. call.maxlen \in Nat /\ call.maxlen > 0 /\ call.maxlen <= m
    BY <1>2, <2>1, Zenon DEF Stored
  <2> QED BY <2>2
<1>5. PICK n \in Nat : n = Len(full)
  BY <1>2, Joined DEF Stored
<1>6. PICK e \in Nat : e = Smaller(n, l - 1)
  BY <1>4, <1>5 DEF Smaller
<1>7. PICK k \in Nat : k = currlen /\ k = Smaller(n, l)
  BY <1>2, <1>4, <1>5 DEF Stored
<1>8. e = End(k) /\ e \in Cell /\ e <= k /\ (e # k => k = e + 1)
  BY <1>3, <1>4, <1>5, <1>6, <1>7 DEF End, Smaller
<1>9. buffer' = [buffer EXCEPT ![e] = NUL]
  BY <1>7, <1>8 DEF Done
<1>10. ASSUME NEW i \in Cell
       PROVE  buffer'[i] = (IF i < e THEN full[i + 1] ELSE IF i = e /\ (TRUE \/ e = 0) THEN NUL ELSE ANY)
  <2>1. i \in Nat
    BY <1>3
  <2>2. /\ DOMAIN buffer = Cell
        /\ buffer[i] = IF i < k THEN full[i + 1] ELSE IF i = k /\ (FALSE \/ k = 0) THEN NUL ELSE ANY
    BY <1>2, <1>7 DEF Stored, Contents
  <2>3. CASE i = e
    BY <1>9, <2>1, <2>2, <2>3
  <2>4. CASE i # e
    BY <1>8, <1>9, <2>1, <2>2, <2>4
  <2> QED BY <2>3, <2>4
<1>11. buffer' = [i \in Cell |-> buffer'[i]]
  <2>1. buffer = [i \in Cell |-> buffer[i]]
    BY <1>2 DEF Stored, Contents
  <2> QED BY <1>9, <2>1
<1>12. buffer' = [i \in Cell |-> IF i < e THEN full[i + 1] ELSE IF i = e /\ (TRUE \/ e = 0) THEN NUL ELSE ANY]
  BY <1>10, <1>11
<1>13. buffer' = Contents(Smaller(Len(full), call.maxlen - 1), TRUE)'
  BY <1>1, <1>4, <1>5, <1>6, <1>12, Zenon DEF Contents
<1>14. IsText(full)' /\ call'.maxlen \in Sizes
  BY <1>1, <1>2 DEF Stored
<1> QED BY <1>1, <1>13, <1>14 DEF BInv

\* A call begins, with the buffer of somebody or with that of printk.
LEMMA CallStep ==
  ASSUME NEW size \in Sizes, NEW c \in Calls, vsnprintf(size, c) PROVE BInv'
<1>1. /\ call' = [fmt |-> c.fmt, args |-> c.args, maxlen |-> size] /\ state' = "DEFAULT" /\ pos' = 1
      /\ spec' = NoSpec /\ buffer' = [i \in Cell |-> IF i = 0 THEN NUL ELSE ANY]
      /\ currlen' = 0 /\ full' = <<>>
  BY DEF vsnprintf
<1>2. call'.fmt = c.fmt /\ call'.args = c.args /\ call'.maxlen = size
  BY <1>1
<1>3. Len(c.fmt) \in Nat
  BY CallIs
<1>4. spec' \in SpecType
  BY <1>1, SpecFields
<1>5. Stored'
  <2>1. PICK m \in Nat : Cell = 0 .. m + 1
    BY CellIs
  <2>2. \A i \in Cell : ~(i < 0)
    BY <2>1
  <2>3. buffer' = Contents(currlen, FALSE)'
    BY <1>1, <2>2 DEF Contents
  <2>4. currlen' = Smaller(Len(full), call.maxlen)' /\ currlen' \in Nat
    BY <1>1, <1>2, NoCharacter, CellIs DEF Smaller
  <2> QED BY <1>1, <1>2, <2>3, <2>4, NoCharacter DEF Stored
<1>6. state' # "RETURNED" /\ pos' \in 1 .. Len(call'.fmt) + 1
  BY <1>1, <1>2, <1>3
<1> QED BY <1>2, <1>4, <1>5, <1>6 DEF BInv

LEMMA BNext == BInv /\ ArgumentsMatch /\ [Next]_vars => BInv'
<1> SUFFICES ASSUME BInv, ArgumentsMatch, [Next]_vars PROVE BInv'
  OBVIOUS
<1>1. ASSUME NEW size \in Sizes, NEW c \in Calls, snprintf(size, c) PROVE BInv'
  BY <1>1, CallStep DEF snprintf
<1>2. ASSUME NEW c \in Printed, printk(c) PROVE BInv'
  BY <1>2, CallStep, ConsoleAssumption DEF printk
<1>3. CASE dopr
  BY <1>3, DefaultStep, FlagsStep, MinWidthStep, DotStep, MaxWidthStep, ModStep, ConvStep, DoneStep DEF dopr
<1>4. CASE UNCHANGED fvars
  BY <1>4 DEF fvars, BInv, Stored, Contents
<1>5. Poll \/ Write \/ Return \/ Interrupt \/ OtherPuts \/ Transmit \/ UNCHANGED vars => UNCHANGED fvars
  BY Zenon DEF Poll, Write, Return, Interrupt, OtherPuts, Transmit, vars
<1> QED BY <1>1, <1>2, <1>3, <1>4, <1>5 DEF Next, TaskStep

LEMMA BInvImplies == BInv => BufferHoldsPrefix
<1> SUFFICES ASSUME BInv, state # "IDLE"
             PROVE  LET room == IF state = "RETURNED" THEN call.maxlen - 1 ELSE call.maxlen
                        kept == IF Len(full) < room THEN Len(full) ELSE room
                    IN  /\ \A i \in Cell :
                              buffer[i] = IF i < kept THEN full[i + 1]
                                          ELSE IF i = kept /\ (state = "RETURNED" \/ kept = 0) THEN NUL ELSE ANY
                        /\ pos <= Len(call.fmt) + 1
  BY DEF BufferHoldsPrefix
<1>1. pos <= Len(call.fmt) + 1
  <2>1. Len(call.fmt) \in Nat
    BY CallIs DEF BInv
  <2> QED BY <2>1 DEF BInv
<1>2. CASE state = "RETURNED"
  BY <1>1, <1>2 DEF BInv, Contents, Smaller
<1>3. CASE state # "RETURNED"
  BY <1>1, <1>3 DEF BInv, Stored, Contents, Smaller
<1> QED BY <1>2, <1>3

\* Whatever a caller has formatted, dopr writes nothing outside the buffer, keeps
\* in it as much as fits, ends it with a NUL, and does not read past the end of the
\* format; if the arguments are what the format says they are.
THEOREM BufferHoldsPrefixTheorem == Spec /\ []ArgumentsMatch => []BufferHoldsPrefix
<1>1. Init => BInv
  BY DEF Init, FormatInit, BInv
<1> QED BY <1>1, BNext, BInvImplies, PTL DEF Spec
-----------------------------------------------------------------------------
\* What dopr has left of a format: its characters, and of the character it has
\* got to, the states that may still come.
StatesLeft == CASE state = "DEFAULT" -> 7 [] state = "FLAGS" -> 6 [] state = "MIN" -> 5 [] state = "DOT" -> 4
                [] state = "MAX" -> 3 [] state = "MOD" -> 2 [] state \in {"IDLE", "RETURNED"} -> 0 [] OTHER -> 1
DoprWork == 8 * (Len(call.fmt) + 1 - pos) + StatesLeft

LEMMA RoundWorks ==
  ASSUME BInv, BInv', state \notin {"IDLE", "RETURNED"}, dopr PROVE DoprWork' \in Nat /\ DoprWork' < DoprWork
<1>1. /\ call' = call /\ state' # "IDLE"
  BY DEF dopr, Default, Flags, MinWidth, Dot, MaxWidth, Number, Mod, Conv, Done
<1>2. PICK n \in Nat : n = Len(call.fmt) /\ pos \in 1 .. n + 1
  <2>1. Len(call.fmt) \in Nat
    BY CallIs DEF BInv
  <2> QED BY <2>1 DEF BInv
<1>3. n = Len(call'.fmt) /\ pos' \in 1 .. n + 1
  BY <1>1, <1>2 DEF BInv
<1>4. StatesLeft \in 0 .. 7 /\ StatesLeft' \in 0 .. 7
  BY DEF StatesLeft
<1>5. DoprWork = 8 * (n + 1 - pos) + StatesLeft /\ DoprWork' = 8 * (n + 1 - pos') + StatesLeft'
  BY <1>2, <1>3 DEF DoprWork
<1>6. (pos' > pos /\ StatesLeft' <= StatesLeft + 6) \/ (pos' = pos /\ StatesLeft' < StatesLeft)
  <2>1. CASE Default
    BY <1>2, <1>4, <2>1 DEF Default, NextCh, Reading, StatesLeft
  <2>2. CASE Flags
    BY <1>2, <1>4, <2>2 DEF Flags, NextCh, KeepCh, Reading, StatesLeft
  <2>3. CASE MinWidth
    BY <1>2, <1>4, <2>3 DEF MinWidth, Number, NextCh, KeepCh, Reading, StatesLeft
  <2>4. CASE Dot
    BY <1>2, <1>4, <2>4 DEF Dot, NextCh, KeepCh, Reading, StatesLeft
  <2>5. CASE MaxWidth
    BY <1>2, <1>4, <2>5 DEF MaxWidth, Number, NextCh, KeepCh, Reading, StatesLeft
  <2>6. CASE Mod
    BY <1>2, <1>4, <2>6 DEF Mod, NextCh, KeepCh, Reading, StatesLeft
  <2>7. CASE Conv
    BY <1>2, <1>4, <2>7 DEF Conv, Skipped, Reading, StatesLeft
  <2>8. CASE Done
    <3>1. state \notin {"IDLE", "RETURNED"} /\ pos' = pos /\ state' = "RETURNED"
      BY <2>8 DEF Done
    <3> QED BY <3>1 DEF StatesLeft
  <2> QED BY <2>1, <2>2, <2>3, <2>4, <2>5, <2>6, <2>7, <2>8 DEF dopr
<1>7. \A p, q \in 1 .. n + 1, x, y \in 0 .. 7 :
          (q > p /\ y <= x + 6) \/ (q = p /\ y < x) =>
              8 * (n + 1 - q) + y \in Nat /\ 8 * (n + 1 - q) + y < 8 * (n + 1 - p) + x
  BY <1>2
<1> QED BY <1>2, <1>3, <1>4, <1>5, <1>6, <1>7

\* Every round of dopr's loop either takes a character of the format or goes on to
\* a later state, so that it ends for every format.
THEOREM DoprIsBounded ==
  Spec /\ []ArgumentsMatch =>
      [][state \notin {"IDLE", "RETURNED"} => DoprWork' \in Nat /\ DoprWork' < DoprWork]_fvars
<1>1. Init => BInv
  BY DEF Init, FormatInit, BInv
<1>2. BInv /\ BInv' /\ [Next]_vars =>
          [state \notin {"IDLE", "RETURNED"} => DoprWork' \in Nat /\ DoprWork' < DoprWork]_fvars
  <2> SUFFICES ASSUME BInv, BInv', [Next]_vars, ~(UNCHANGED fvars), state \notin {"IDLE", "RETURNED"}
               PROVE  DoprWork' \in Nat /\ DoprWork' < DoprWork
    OBVIOUS
  <2>1. Poll \/ Write \/ Return \/ Interrupt \/ OtherPuts \/ Transmit \/ UNCHANGED vars => UNCHANGED fvars
    BY Zenon DEF Poll, Write, Return, Interrupt, OtherPuts, Transmit, vars
  <2>2. dopr
    BY <2>1 DEF Next, TaskStep, snprintf, printk
  <2> QED BY <2>2, RoundWorks
<1> QED BY <1>1, <1>2, BNext, PTL DEF Spec
-----------------------------------------------------------------------------
(* What a field reads as.                                                  *)

LEMMA LeastNatural == ASSUME NEW S \in SUBSET Nat, S # {} PROVE \E x \in S : \A y \in S : x <= y
<1>1. PICK x \in S : \A y \in S : ~(<<y, x>> \in OpToRel(<, Nat))
  BY NatLessThanWellFounded, WFMin, Zenon
<1>2. OpToRel(<, Nat) = {ss \in Nat \X Nat : ss[1] < ss[2]}
  BY Zenon DEF OpToRel
<1>3. ASSUME NEW y \in S PROVE x <= y
  <2>1. <<y, x>> \in Nat \X Nat /\ <<y, x>>[1] = y /\ <<y, x>>[2] = x /\ x \in Nat /\ y \in Nat
    OBVIOUS
  <2>2. ~(y < x)
    BY <1>1, <1>2, <2>1, Zenon
  <2> QED BY <2>1, <2>2
<1> QED BY <1>3

\* How many digits a number of 32 bits can have in a base.
Bases == {8, 10, 16}
Top(b) == IF b = 8 THEN 11 ELSE IF b = 10 THEN 10 ELSE 8

PowerStep(b, k) == b ^ k \in Nat /\ b ^ k > 0 /\ b ^ k <= b ^ Top(b) /\ b ^ (k + 1) = b * b ^ k

LEMMA PowerSteps == \A b \in Bases : \A k \in 0 .. Top(b) : PowerStep(b, k)
<1>1. \A k \in 0 .. Top(8) : PowerStep(8, k)
  <2>1. /\ PowerStep(8, 0) /\ PowerStep(8, 1) /\ PowerStep(8, 2) /\ PowerStep(8, 3)
        /\ PowerStep(8, 4) /\ PowerStep(8, 5) /\ PowerStep(8, 6) /\ PowerStep(8, 7)
        /\ PowerStep(8, 8) /\ PowerStep(8, 9) /\ PowerStep(8, 10) /\ PowerStep(8, 11)
    BY DEF PowerStep, Top
  <2>2. \A k \in 0 .. Top(8) : k = 0 \/ k = 1 \/ k = 2 \/ k = 3 \/ k = 4 \/ k = 5 \/ k = 6 \/ k = 7 \/ k = 8 \/ k = 9 \/ k = 10 \/ k = 11
    BY DEF Top
  <2> QED BY <2>1, <2>2, Zenon
<1>2. \A k \in 0 .. Top(10) : PowerStep(10, k)
  <2>1. /\ PowerStep(10, 0) /\ PowerStep(10, 1) /\ PowerStep(10, 2) /\ PowerStep(10, 3)
        /\ PowerStep(10, 4) /\ PowerStep(10, 5) /\ PowerStep(10, 6) /\ PowerStep(10, 7)
        /\ PowerStep(10, 8) /\ PowerStep(10, 9) /\ PowerStep(10, 10)
    BY DEF PowerStep, Top
  <2>2. \A k \in 0 .. Top(10) : k = 0 \/ k = 1 \/ k = 2 \/ k = 3 \/ k = 4 \/ k = 5 \/ k = 6 \/ k = 7 \/ k = 8 \/ k = 9 \/ k = 10
    BY DEF Top
  <2> QED BY <2>1, <2>2, Zenon
<1>3. \A k \in 0 .. Top(16) : PowerStep(16, k)
  <2>1. /\ PowerStep(16, 0) /\ PowerStep(16, 1) /\ PowerStep(16, 2) /\ PowerStep(16, 3)
        /\ PowerStep(16, 4) /\ PowerStep(16, 5) /\ PowerStep(16, 6) /\ PowerStep(16, 7)
        /\ PowerStep(16, 8)
    BY DEF PowerStep, Top
  <2>2. \A k \in 0 .. Top(16) : k = 0 \/ k = 1 \/ k = 2 \/ k = 3 \/ k = 4 \/ k = 5 \/ k = 6 \/ k = 7 \/ k = 8
    BY DEF Top
  <2> QED BY <2>1, <2>2, Zenon
<1> QED BY <1>1, <1>2, <1>3, Zenon DEF Bases

LEMMA LongIs == LONG \in Nat /\ LONG > 0 /\ \A b \in Bases : LONG <= b ^ Top(b)
<1>1. LONG \in Nat \ {0}
  <2>1. {LONG, SHORT, SCALE} \subseteq Nat \ {0}
    BY FormatAssumption, Zenon
  <2> QED BY <2>1
<1>2. LONG \in Nat /\ LONG > 0
  BY <1>1
<1>3. ASSUME NEW b \in Bases PROVE LONG <= b ^ Top(b)
  <2>1. \E n \in 1 .. Top(b) : LONG <= b ^ n
    <3>1. Top(8) = 11 /\ Top(10) = 10 /\ Top(16) = 8
      BY DEF Top
    <3>2. (\E n \in 1 .. 8 : LONG <= 16 ^ n) /\ (\E n \in 1 .. 10 : LONG <= 10 ^ n) /\ (\E n \in 1 .. 11 : LONG <= 8 ^ n)
      BY FormatAssumption, Zenon
    <3> QED BY <3>1, <3>2, Zenon DEF Bases
  <2>2. 1 .. Top(b) \subseteq 0 .. Top(b) /\ Top(b) \in 0 .. Top(b)
    BY DEF Top
  <2>3. PICK n \in 0 .. Top(b) : LONG <= b ^ n
    BY <2>1, <2>2, Zenon
  <2>4. b ^ n \in Nat /\ b ^ Top(b) \in Nat /\ b ^ n <= b ^ Top(b)
    BY <2>2, PowerSteps, Zenon DEF PowerStep
  <2>5. \A x, y, z \in Nat : x <= y /\ y <= z => x <= z
    OBVIOUS
  <2> QED BY <1>2, <2>3, <2>4, <2>5, Zenon
<1> QED BY <1>2, <1>3

\* The powers of b, as far as a long goes.
PowersOf(b, p) == /\ p \in [0 .. Top(b) -> Nat] /\ p[0] = 1 /\ LONG <= p[Top(b)]
                  /\ \A k \in 0 .. Top(b) : p[k] > 0
                  /\ \A k \in 0 .. Top(b) - 1 : p[k + 1] = b * p[k]

LEMMA Powers ==
  ASSUME NEW b \in Bases
  PROVE  /\ Top(b) \in 8 .. 11
         /\ \E p : PowersOf(b, p) /\ \A k \in 0 .. Top(b) : p[k] = b ^ k
<1>1. Top(b) \in 8 .. 11
  BY DEF Bases, Top
<1>2. /\ b ^ 0 = 1 /\ LONG <= b ^ Top(b)
      /\ \A k \in 0 .. Top(b) : b ^ k \in Nat /\ b ^ k > 0
      /\ \A k \in 0 .. Top(b) - 1 : b ^ (k + 1) = b * b ^ k
  <2>1. b ^ 0 = 1
    <3>1. 8 ^ 0 = 1 /\ 10 ^ 0 = 1 /\ 16 ^ 0 = 1
      OBVIOUS
    <3> QED BY <3>1, Zenon DEF Bases
  <2>2. 0 .. Top(b) - 1 \subseteq 0 .. Top(b)
    BY <1>1
  <2> QED BY <2>1, <2>2, PowerSteps, LongIs, Zenon DEF PowerStep
<1>3. PICK p : p = [k \in 0 .. Top(b) |-> b ^ k]
  OBVIOUS
<1>4. 0 \in 0 .. Top(b) /\ Top(b) \in 0 .. Top(b)
      /\ \A k \in 0 .. Top(b) - 1 : k \in 0 .. Top(b) /\ k + 1 \in 0 .. Top(b)
  BY <1>1
<1>5. \A k \in 0 .. Top(b) : p[k] = b ^ k
  BY <1>3, Zenon
<1>6. p \in [0 .. Top(b) -> Nat]
  BY <1>2, <1>3, Zenon
<1>7. PowersOf(b, p)
  BY <1>2, <1>4, <1>5, <1>6, Zenon DEF PowersOf
<1> QED BY <1>1, <1>5, <1>7, Zenon

LEMMA PowersNumbers ==
  ASSUME NEW b \in Bases, NEW p, PowersOf(b, p)
  PROVE  /\ b \in Nat /\ b > 1 /\ Top(b) \in 8 .. 11
         /\ \A k \in 0 .. Top(b) : p[k] \in Nat /\ p[k] > 0
         /\ \A k \in 1 .. Top(b) : p[k] = b * p[k - 1]
<1>1. b \in Nat /\ b > 1 /\ Top(b) \in 8 .. 11
  BY Powers DEF Bases
<1>2. \A k \in 1 .. Top(b) : k - 1 \in 0 .. Top(b) - 1 /\ (k - 1) + 1 = k
  BY <1>1
<1>3. \A k \in 1 .. Top(b) : p[k] = b * p[k - 1]
  BY <1>2, Zenon DEF PowersOf
<1> QED BY <1>1, <1>3 DEF PowersOf

\* The first power of b above u is found among the digits that fit.
LEMMA PlaceFits ==
  ASSUME NEW b \in Bases, NEW u \in Nat, NEW p, PowersOf(b, p), u < p[Top(b)],
         \A k \in 0 .. Top(b) : p[k] = b ^ k
  PROVE  place(u, b) \in 1 .. Top(b) /\ u < p[place(u, b)] /\ \A m \in 1 .. place(u, b) - 1 : ~(u < p[m])
<1>1. Top(b) \in 8 .. 11
  BY PowersNumbers, Zenon
<1>2. PICK n \in 1 .. 19 : (n = 19 \/ u < b ^ n) /\ \A m \in 1 .. n - 1 : ~(u < b ^ m)
  <2> DEFINE S == {n \in 1 .. 19 : n = 19 \/ u < b ^ n}
  <2>1. S \in SUBSET Nat /\ 19 \in S
    OBVIOUS
  <2>2. \A n \in S : n \in 1 .. 19 /\ (n = 19 \/ u < b ^ n)
    OBVIOUS
  <2>3. \A n \in 1 .. 19 : u < b ^ n => n \in S
    OBVIOUS
  <2> HIDE DEF S
  <2>4. PICK n \in S : \A y \in S : n <= y
    BY <2>1, LeastNatural, Zenon
  <2>5. ASSUME NEW m \in 1 .. n - 1 PROVE ~(u < b ^ m)
    <3>1. n \in 1 .. 19
      BY <2>2, Zenon
    <3>2. m \in 1 .. 19 /\ ~(n <= m)
      BY <3>1
    <3> QED BY <2>3, <2>4, <3>2, Zenon
  <2> QED BY <2>2, <2>4, <2>5, Zenon
<1>3. PICK q \in 1 .. 19 : q = place(u, b) /\ (q = 19 \/ u < b ^ q) /\ \A m \in 1 .. q - 1 : ~(u < b ^ m)
  BY <1>2, Zenon DEF place
<1>4. u < p[Top(b)]
  BY Zenon
<1>5. q <= Top(b)
  <2> SUFFICES ASSUME ~(q <= Top(b)) PROVE FALSE
    OBVIOUS
  <2>1. Top(b) \in 1 .. q - 1 /\ Top(b) \in 0 .. Top(b)
    BY <1>1
  <2>2. u < b ^ Top(b)
    BY <1>4, <2>1, Zenon
  <2> QED BY <1>3, <2>1, <2>2, Zenon
<1>6. q \in 1 .. Top(b) /\ q \in 0 .. Top(b) /\ q # 19
  BY <1>1, <1>5
<1>7. u < p[q]
  BY <1>3, <1>6, Zenon
<1>8. \A m \in 1 .. q - 1 : m \in 0 .. Top(b)
  BY <1>1, <1>6
<1> QED BY <1>3, <1>6, <1>7, <1>8, Zenon

\* One more digit.
LEMMA OneMoreDigit ==
  ASSUME NEW u \in Nat, NEW b \in Nat, b > 0, NEW q \in Nat, q > 0
  PROVE  u \div q = (u \div (b * q)) * b + ((u \div q) % b)
<1>1. PICK x \in Nat, r \in 0 .. q - 1 : x = u \div q /\ u = q * x + r
  OBVIOUS
<1>2. PICK y \in Nat, t \in 0 .. b - 1 : y = x \div b /\ t = x % b /\ x = b * y + t
  OBVIOUS
<1>3. u = (b * q) * y + (q * t + r)
  <2>1. q * (b * y + t) = (b * q) * y + q * t
    OBVIOUS
  <2> QED BY <1>1, <1>2, <2>1
<1>4. q * t + r \in 0 .. b * q - 1
  <2>1. q * t <= q * (b - 1) /\ q * t \in Nat
    BY <1>2
  <2>2. q * (b - 1) = b * q - q
    OBVIOUS
  <2> QED BY <2>1, <2>2
<1>5. u \div (b * q) = y
  <2>1. PICK z \in Nat, e \in Nat : z = b * q /\ e = q * t + r /\ e < z
    BY <1>4
  <2>2. u = z * y + e
    BY <1>3, <2>1
  <2>3. \A a \in Nat, c \in Nat, f \in Nat, g \in Nat : a = c * f + g /\ g < c => a \div c = f
    OBVIOUS
  <2> QED BY <2>1, <2>2, <2>3
<1> QED BY <1>1, <1>2, <1>5

LEMMA HornerStep ==
  ASSUME NEW b \in Bases, NEW u \in Nat, NEW p, PowersOf(b, p), NEW n \in 1 .. Top(b), NEW k \in 1 .. n
  PROVE  u \div p[n - k] = (u \div p[n - (k - 1)]) * b + ((u \div p[n - k]) % b)
         /\ u \div p[n - k] \in Nat /\ (u \div p[n - k]) % b \in 0 .. b - 1
<1>1. /\ b \in Nat /\ b > 1 /\ Top(b) \in 8 .. 11
      /\ \A m \in 0 .. Top(b) : p[m] \in Nat /\ p[m] > 0
      /\ \A m \in 1 .. Top(b) : p[m] = b * p[m - 1]
  BY PowersNumbers
<1>2. n - k \in 0 .. Top(b) /\ n - (k - 1) \in 1 .. Top(b) /\ (n - (k - 1)) - 1 = n - k
  BY <1>1
<1>3. PICK q \in Nat : q = p[n - k] /\ q > 0 /\ p[n - (k - 1)] = b * q
  BY <1>1, <1>2
<1>4. u \div q = (u \div (b * q)) * b + ((u \div q) % b)
  BY <1>1, <1>3, OneMoreDigit
<1>5. u \div q \in Nat /\ (u \div q) % b \in 0 .. b - 1
  <2>1. PICK x \in Nat : x = u \div q
    BY <1>3
  <2>2. x % b \in 0 .. b - 1
    BY <1>1
  <2> QED BY <2>1, <2>2
<1> QED BY <1>3, <1>4, <1>5

\* The characters of numbers: a character stands for one digit.
LEMMA CharsOf ==
  ASSUME NEW letters, IsText(letters), Len(letters) = 6
  PROVE  /\ DOMAIN (Digit \o letters) = 1 .. 16
         /\ \A i \in 1 .. 16 : (Digit \o letters)[i] = IF i <= 10 THEN Digit[i] ELSE letters[i - 10]
<1>1. Digit \in Seq({"0", "1", "2", "3", "4", "5", "6", "7", "8", "9"}) /\ Len(Digit) = 10
  BY DEF Digit
<1>2. /\ IsText(Digit \o letters) /\ Len(Digit \o letters) = 16
      /\ \A i \in 1 .. 16 : (Digit \o letters)[i] = IF i <= 10 THEN Digit[i] ELSE letters[i - 10]
  <2>1. IsText(Digit)
    BY <1>1 DEF IsText
  <2>2. PICK text : text = Digit \o letters
    OBVIOUS
  <2>3. /\ IsText(text) /\ Len(text) = 10 + 6
        /\ \A i \in 1 .. 10 + 6 : text[i] = IF i <= 10 THEN Digit[i] ELSE letters[i - 10]
    <3>1. /\ IsText(text) /\ Len(text) = Len(Digit) + Len(letters)
          /\ \A i \in 1 .. Len(Digit) + Len(letters) : text[i] = IF i <= Len(Digit) THEN Digit[i] ELSE letters[i - Len(Digit)]
      BY <2>1, <2>2, Joined, Zenon
    <3>2. Len(Digit) = 10
      BY <1>1
    <3> QED BY <3>1, <3>2
  <2>4. 10 + 6 = 16
    OBVIOUS
  <2> QED BY <2>2, <2>3, <2>4, Zenon
<1>3. DOMAIN (Digit \o letters) = 1 .. 16
  <2>1. PICK text : text = Digit \o letters
    OBVIOUS
  <2>2. PICK S : text \in Seq(S)
    BY <1>2, <2>1, Zenon DEF IsText
  <2>3. DOMAIN text = 1 .. Len(text)
    BY <2>2
  <2> QED BY <1>2, <2>1, <2>3, Zenon
<1> QED BY <1>2, <1>3, Zenon

LEMMA LowerIs ==
  /\ DOMAIN Lower = 1 .. 16 /\ \A i \in 1 .. 10 : Lower[i] = Digit[i]
  /\ Lower[11] = "a" /\ Lower[12] = "b" /\ Lower[13] = "c" /\ Lower[14] = "d" /\ Lower[15] = "e" /\ Lower[16] = "f"
<1>1. PICK letters : letters = <<"a", "b", "c", "d", "e", "f">>
  OBVIOUS
<1>2. IsText(letters) /\ Len(letters) = 6
  <2>1. letters \in Seq({"a", "b", "c", "d", "e", "f"}) /\ Len(letters) = 6
    BY <1>1
  <2> QED BY <2>1, Zenon DEF IsText
<1>3. DOMAIN Lower = 1 .. 16 /\ \A i \in 1 .. 16 : Lower[i] = IF i <= 10 THEN Digit[i] ELSE letters[i - 10]
  <2>1. Lower = Digit \o letters
    BY <1>1, Zenon DEF Lower
  <2> QED BY <1>2, <2>1, CharsOf, Zenon
<1>4. \A i \in 1 .. 10 : i \in 1 .. 16 /\ i <= 10
  OBVIOUS
<1> QED BY <1>1, <1>3, <1>4

LEMMA UpperIs ==
  /\ DOMAIN Upper = 1 .. 16 /\ \A i \in 1 .. 10 : Upper[i] = Digit[i]
  /\ Upper[11] = "A" /\ Upper[12] = "B" /\ Upper[13] = "C" /\ Upper[14] = "D" /\ Upper[15] = "E" /\ Upper[16] = "F"
<1>1. PICK letters : letters = <<"A", "B", "C", "D", "E", "F">>
  OBVIOUS
<1>2. IsText(letters) /\ Len(letters) = 6
  <2>1. letters \in Seq({"A", "B", "C", "D", "E", "F"}) /\ Len(letters) = 6
    BY <1>1
  <2> QED BY <2>1, Zenon DEF IsText
<1>3. DOMAIN Upper = 1 .. 16 /\ \A i \in 1 .. 16 : Upper[i] = IF i <= 10 THEN Digit[i] ELSE letters[i - 10]
  <2>1. Upper = Digit \o letters
    BY <1>1, Zenon DEF Upper
  <2> QED BY <1>2, <2>1, CharsOf, Zenon
<1>4. \A i \in 1 .. 10 : i \in 1 .. 16 /\ i <= 10
  OBVIOUS
<1> QED BY <1>1, <1>3, <1>4

LEMMA DigitIs ==
  /\ Digit[1] = "0" /\ Digit[2] = "1" /\ Digit[3] = "2" /\ Digit[4] = "3" /\ Digit[5] = "4"
  /\ Digit[6] = "5" /\ Digit[7] = "6" /\ Digit[8] = "7" /\ Digit[9] = "8" /\ Digit[10] = "9"
BY DEF Digit

LEMMA OneToSixteen == \A i \in 1 .. 16 : \/ i = 1 \/ i = 2 \/ i = 3 \/ i = 4 \/ i = 5 \/ i = 6 \/ i = 7 \/ i = 8
                                         \/ i = 9 \/ i = 10 \/ i = 11 \/ i = 12 \/ i = 13 \/ i = 14 \/ i = 15 \/ i = 16
OBVIOUS

\* The digit a character is, and 16 for what is none.
Rank(c) ==
    IF c = "0" THEN 0
    ELSE IF c = "1" THEN 1
    ELSE IF c = "2" THEN 2
    ELSE IF c = "3" THEN 3
    ELSE IF c = "4" THEN 4
    ELSE IF c = "5" THEN 5
    ELSE IF c = "6" THEN 6
    ELSE IF c = "7" THEN 7
    ELSE IF c = "8" THEN 8
    ELSE IF c = "9" THEN 9
    ELSE IF c \in {"a", "A"} THEN 10
    ELSE IF c \in {"b", "B"} THEN 11
    ELSE IF c \in {"c", "C"} THEN 12
    ELSE IF c \in {"d", "D"} THEN 13
    ELSE IF c \in {"e", "E"} THEN 14
    ELSE IF c \in {"f", "F"} THEN 15
    ELSE 16

LEMMA Ranks ==
  /\ \A i \in 1 .. 16 : Rank(Lower[i]) = i - 1 /\ Rank(Upper[i]) = i - 1
  /\ \A c \in {"-", "+", " ", "."} : Rank(c) = 16
<1>1. /\ Rank("0") = 0 /\ Rank("1") = 1 /\ Rank("2") = 2 /\ Rank("3") = 3
      /\ Rank("4") = 4 /\ Rank("5") = 5 /\ Rank("6") = 6 /\ Rank("7") = 7
      /\ Rank("8") = 8 /\ Rank("9") = 9 /\ Rank("a") = 10 /\ Rank("b") = 11
      /\ Rank("c") = 12 /\ Rank("d") = 13 /\ Rank("e") = 14 /\ Rank("f") = 15
  BY DEF Rank
<1>2. /\ Rank("A") = 10 /\ Rank("B") = 11 /\ Rank("C") = 12 /\ Rank("D") = 13
      /\ Rank("E") = 14 /\ Rank("F") = 15
  BY DEF Rank
<1>3. Rank("-") = 16 /\ Rank("+") = 16 /\ Rank(" ") = 16 /\ Rank(".") = 16
  BY DEF Rank
<1>4. /\ Lower[1] = "0" /\ Lower[2] = "1" /\ Lower[3] = "2" /\ Lower[4] = "3"
      /\ Lower[5] = "4" /\ Lower[6] = "5" /\ Lower[7] = "6" /\ Lower[8] = "7"
      /\ Lower[9] = "8" /\ Lower[10] = "9" /\ Lower[11] = "a" /\ Lower[12] = "b"
      /\ Lower[13] = "c" /\ Lower[14] = "d" /\ Lower[15] = "e" /\ Lower[16] = "f"
  BY DigitIs, LowerIs
<1>5. /\ Upper[1] = "0" /\ Upper[2] = "1" /\ Upper[3] = "2" /\ Upper[4] = "3"
      /\ Upper[5] = "4" /\ Upper[6] = "5" /\ Upper[7] = "6" /\ Upper[8] = "7"
      /\ Upper[9] = "8" /\ Upper[10] = "9" /\ Upper[11] = "A" /\ Upper[12] = "B"
      /\ Upper[13] = "C" /\ Upper[14] = "D" /\ Upper[15] = "E" /\ Upper[16] = "F"
  BY DigitIs, UpperIs
<1>6. \A i \in 1 .. 16 : Rank(Lower[i]) = i - 1
  BY <1>1, <1>4, OneToSixteen
<1>7. \A i \in 1 .. 16 : Rank(Upper[i]) = i - 1
  BY <1>1, <1>2, <1>5, OneToSixteen
<1> QED BY <1>3, <1>6, <1>7, Zenon

\* Which characters are digits, and of which number.
LEMMA DigitFacts ==
  /\ \A d \in 0 .. 15 : /\ IsDigit(Lower[d + 1]) /\ DigitOf(Lower[d + 1]) = d /\ Lower[d + 1] # "-"
                        /\ IsDigit(Upper[d + 1]) /\ DigitOf(Upper[d + 1]) = d /\ Upper[d + 1] # "-"
  /\ \A c \in {"-", "+", " ", "."} : ~IsDigit(c)
  /\ IsDigit("0") /\ DigitOf("0") = 0
<1>1. \A i \in 1 .. 16 : i - 1 < 16 /\ ~(i - 1 = 16)
  OBVIOUS
<1>2. DOMAIN Lower = 1 .. 16 /\ DOMAIN Upper = 1 .. 16
  BY LowerIs, UpperIs, Zenon
<1>3. ASSUME NEW d \in 0 .. 15
      PROVE  /\ IsDigit(Lower[d + 1]) /\ DigitOf(Lower[d + 1]) = d /\ Lower[d + 1] # "-"
             /\ IsDigit(Upper[d + 1]) /\ DigitOf(Upper[d + 1]) = d /\ Upper[d + 1] # "-"
  <2>1. d + 1 \in 1 .. 16 /\ (d + 1) - 1 = d /\ \A i \in 1 .. 16 : i - 1 = d => i = d + 1
    OBVIOUS
  <2>2. Rank(Lower[d + 1]) = d /\ Rank(Upper[d + 1]) = d
    BY <2>1, Ranks, Zenon
  <2>3. Rank("-") = 16 /\ d # 16
    <3>1. d # 16
      OBVIOUS
    <3> QED BY <3>1, Ranks, Zenon
  <2>4. Lower[d + 1] # "-" /\ Upper[d + 1] # "-"
    BY <2>2, <2>3, Zenon
  <2>5. Lower[d + 1] \in Range(Lower) /\ Upper[d + 1] \in Range(Upper)
    BY <1>2, <2>1, Zenon DEF Range
  <2>6. IsDigit(Lower[d + 1]) /\ IsDigit(Upper[d + 1])
    BY <2>5, Zenon DEF IsDigit
  <2>7. ASSUME NEW i \in DOMAIN Lower, Lower[i] = Lower[d + 1] \/ Lower[i] = Upper[d + 1] PROVE i = d + 1
    BY <1>2, <2>1, <2>2, <2>7, Ranks
  <2>8. ASSUME NEW i \in DOMAIN Upper, Upper[i] = Upper[d + 1] PROVE i = d + 1
    BY <1>2, <2>1, <2>2, <2>8, Ranks
  <2>9. (CHOOSE i \in DOMAIN Lower : Lower[i] = Lower[d + 1]) = d + 1
    BY <1>2, <2>1, <2>7, Zenon
  <2>10. (CHOOSE i \in DOMAIN Upper : Upper[i] = Upper[d + 1]) = d + 1
    BY <1>2, <2>1, <2>8, Zenon
  <2>11. DigitOf(Lower[d + 1]) = d
    <3>1. DigitOf(Lower[d + 1]) = (CHOOSE i \in DOMAIN Lower : Lower[i] = Lower[d + 1]) - 1
      BY <2>5, Zenon DEF DigitOf
    <3> QED BY <2>1, <2>9, <3>1, Zenon
  <2>12. DigitOf(Upper[d + 1]) = d
    <3>1. CASE Upper[d + 1] \in Range(Lower)
      <4>1. PICK i \in DOMAIN Lower : Lower[i] = Upper[d + 1]
        BY <3>1, Zenon DEF Range
      <4>2. (CHOOSE m \in DOMAIN Lower : Lower[m] = Upper[d + 1]) = d + 1
        BY <2>7, <4>1, Zenon
      <4>3. DigitOf(Upper[d + 1]) = (CHOOSE m \in DOMAIN Lower : Lower[m] = Upper[d + 1]) - 1
        BY <3>1, Zenon DEF DigitOf
      <4> QED BY <2>1, <4>2, <4>3, Zenon
    <3>2. CASE Upper[d + 1] \notin Range(Lower)
      <4>1. DigitOf(Upper[d + 1]) = (CHOOSE i \in DOMAIN Upper : Upper[i] = Upper[d + 1]) - 1
        BY <3>2, Zenon DEF DigitOf
      <4> QED BY <2>1, <2>10, <4>1, Zenon
    <3> QED BY <3>1, <3>2
  <2> QED BY <2>4, <2>6, <2>11, <2>12, Zenon
<1>4. ASSUME NEW c \in {"-", "+", " ", "."} PROVE ~IsDigit(c)
  <2>1. Rank(c) = 16 /\ \A i \in 1 .. 16 : i - 1 # 16
    BY <1>1, Ranks, Zenon
  <2>2. \A i \in 1 .. 16 : Rank(Lower[i]) # 16 /\ Rank(Upper[i]) # 16
    BY <2>1, Ranks, Zenon
  <2> QED BY <1>2, <2>1, <2>2, Zenon DEF IsDigit, Range
<1>5. Lower[1] = "0" /\ 0 + 1 = 1 /\ 0 \in 0 .. 15
  BY LowerIs, DigitIs
<1> QED BY <1>3, <1>4, <1>5, Zenon

\* A text that, read in base b behind digits of the number x, gives y.
NextDigit(text, b, v, k) == v[k] = IF IsDigit(text[k]) THEN v[k - 1] * b + DigitOf(text[k]) ELSE v[k - 1]
Reads(text, b, x, y) ==
    /\ IsText(text)
    /\ \E v \in [0 .. Len(text) -> Nat] : /\ v[0] = x /\ v[Len(text)] = y
                                          /\ \A k \in 1 .. Len(text) : NextDigit(text, b, v, k)
Negative(text) == \E i \in 1 .. Len(text) : text[i] = "-"
OnlyDigits(text) == \A i \in 1 .. Len(text) : IsDigit(text[i])

LEMMA ReadsJoined ==
  ASSUME NEW s, NEW t, NEW b, NEW x, NEW y, NEW z, Reads(s, b, x, y), Reads(t, b, y, z)
  PROVE  Reads(s \o t, b, x, z)
<1>1. IsText(s) /\ IsText(t)
  BY Zenon DEF Reads
<1>2. PICK m \in Nat, n \in Nat : m = Len(s) /\ n = Len(t)
  BY <1>1, Joined, Zenon
<1>3. PICK text : /\ m = Len(s) /\ n = Len(t) /\ text = s \o t /\ IsText(text) /\ Len(text) = m + n
                  /\ \A i \in 1 .. m + n : text[i] = IF i <= m THEN s[i] ELSE t[i - m]
  <2>1. PICK text : text = s \o t
    OBVIOUS
  <2>2. /\ IsText(text) /\ Len(text) = Len(s) + Len(t)
        /\ \A i \in 1 .. Len(s) + Len(t) : text[i] = IF i <= Len(s) THEN s[i] ELSE t[i - Len(s)]
    BY <1>1, <2>1, Joined, Zenon
  <2> QED BY <1>2, <2>1, <2>2
<1>4. PICK v \in [0 .. m -> Nat] : v[0] = x /\ v[m] = y /\ \A k \in 1 .. m : NextDigit(s, b, v, k)
  BY <1>3, Zenon DEF Reads
<1>5. PICK w \in [0 .. n -> Nat] : w[0] = y /\ w[n] = z /\ \A k \in 1 .. n : NextDigit(t, b, w, k)
  BY <1>3, Zenon DEF Reads
<1>6. PICK r : r = [k \in 0 .. m + n |-> IF k <= m THEN v[k] ELSE w[k - m]]
  OBVIOUS
<1>7. \A k \in 0 .. m + n : r[k] = (IF k <= m THEN v[k] ELSE w[k - m]) /\ (k >= m => r[k] = w[k - m])
  <2>1. ASSUME NEW k \in 0 .. m + n PROVE k >= m => r[k] = w[k - m]
    <3>1. CASE k = m
      BY <1>4, <1>5, <1>6, <3>1
    <3>2. CASE k > m
      BY <1>6, <3>2
    <3>3. CASE k < m
      BY <3>3
    <3> QED BY <3>1, <3>2, <3>3
  <2> QED BY <1>6, <2>1
<1>8. r \in [0 .. m + n -> Nat] /\ r[0] = x /\ r[m + n] = z
  <2>1. r \in [0 .. m + n -> Nat]
    BY <1>6
  <2>2. 0 \in 0 .. m + n /\ m + n \in 0 .. m + n /\ 0 <= m /\ m + n >= m /\ m + n - m = n
    OBVIOUS
  <2> QED BY <1>4, <1>5, <1>7, <2>1, <2>2
<1>9. ASSUME NEW k \in 1 .. m + n PROVE NextDigit(text, b, r, k)
  <2>1. CASE k <= m
    <3>1. k \in 1 .. m /\ k \in 0 .. m + n /\ k - 1 \in 0 .. m + n /\ k - 1 <= m
      BY <2>1
    <3>2. NextDigit(s, b, v, k)
      BY <1>4, <3>1, Zenon
    <3>3. r[k] = v[k] /\ r[k - 1] = v[k - 1] /\ text[k] = s[k]
      BY <1>3, <1>7, <2>1, <3>1, Zenon
    <3> QED BY <3>2, <3>3, Zenon DEF NextDigit
  <2>2. CASE ~(k <= m)
    <3>1. k - m \in 1 .. n /\ k \in 0 .. m + n /\ k - 1 \in 0 .. m + n /\ k - 1 >= m /\ k >= m /\ k - 1 - m = (k - m) - 1
      BY <2>2
    <3>2. NextDigit(t, b, w, k - m)
      BY <1>5, <3>1, Zenon
    <3>3. r[k] = w[k - m] /\ r[k - 1] = w[(k - m) - 1] /\ text[k] = t[k - m]
      BY <1>3, <1>7, <2>2, <3>1, Zenon
    <3> QED BY <3>2, <3>3, Zenon DEF NextDigit
  <2> QED BY <2>1, <2>2
<1> QED BY <1>3, <1>8, <1>9, Zenon DEF Reads

LEMMA CopiesLen ==
  ASSUME NEW c, NEW n \in Int
  PROVE  Len(Copies(c, n)) = Pos(n) /\ Pos(n) \in Nat /\ \A i \in 1 .. Pos(n) : Copies(c, n)[i] = c
<1>1. Pos(n) \in Nat
  BY DEF Pos
<1>2. PICK text : text = [i \in 1 .. Pos(n) |-> c]
  OBVIOUS
<1>3. text \in Seq({c}) /\ Len(text) = Pos(n) /\ \A i \in 1 .. Pos(n) : text[i] = c
  BY <1>1, <1>2
<1> QED BY <1>1, <1>2, <1>3, Zenon DEF Copies

\* Nothing is read where there are no digits.
LEMMA NothingRead ==
  ASSUME NEW text, IsText(text), \A i \in 1 .. Len(text) : ~IsDigit(text[i]), NEW b, NEW x \in Nat
  PROVE  Reads(text, b, x, x)
<1>1. Len(text) \in Nat
  BY Joined, Zenon
<1>2. PICK v : v = [k \in 0 .. Len(text) |-> x]
  OBVIOUS
<1>3. v \in [0 .. Len(text) -> Nat] /\ \A k \in 0 .. Len(text) : v[k] = x
  BY <1>2, Zenon
<1>4. 0 \in 0 .. Len(text) /\ Len(text) \in 0 .. Len(text)
      /\ \A k \in 1 .. Len(text) : k \in 0 .. Len(text) /\ k - 1 \in 0 .. Len(text)
  BY <1>1
<1> QED BY <1>3, <1>4, Zenon DEF Reads, NextDigit

\* Zeros in front of a number change nothing.
LEMMA LeadingZeros == ASSUME NEW n \in Int, NEW b \in Nat PROVE Reads(Copies("0", n), b, 0, 0)
<1>1. PICK text : text = Copies("0", n) /\ IsText(text) /\ Len(text) \in Nat
  BY CopiesText, Joined, Zenon
<1>2. \A i \in 1 .. Len(text) : text[i] = "0"
  BY <1>1, CopiesLen, Zenon
<1>3. PICK v : v = [k \in 0 .. Len(text) |-> 0]
  OBVIOUS
<1>4. v \in [0 .. Len(text) -> Nat] /\ \A k \in 0 .. Len(text) : v[k] = 0
  BY <1>3
<1>5. 0 \in 0 .. Len(text) /\ Len(text) \in 0 .. Len(text) /\ 0 * b + 0 = 0
      /\ \A k \in 1 .. Len(text) : k \in 0 .. Len(text) /\ k - 1 \in 0 .. Len(text)
  BY <1>1
<1> QED BY <1>1, <1>2, <1>4, <1>5, DigitFacts, Zenon DEF Reads, NextDigit

\* Zeros behind a number.
LEMMA TrailingZeros ==
  ASSUME NEW b \in Bases, NEW p, PowersOf(b, p), NEW n \in 0 .. Top(b), NEW x \in Nat
  PROVE  Reads(Copies("0", n), b, x, x * p[n])
<1>1. /\ b \in Nat /\ b > 1 /\ Top(b) \in 8 .. 11
      /\ \A k \in 0 .. Top(b) : p[k] \in Nat
      /\ \A k \in 1 .. Top(b) : p[k] = b * p[k - 1]
  BY PowersNumbers
<1>2. PICK text : text = Copies("0", n)
  OBVIOUS
<1>3. n \in Nat /\ n \in Int /\ Pos(n) = n
  BY <1>1 DEF Pos
<1>4. IsText(text) /\ Len(text) = n /\ \A i \in 1 .. n : text[i] = "0"
  BY <1>2, <1>3, CopiesText, CopiesLen, Zenon
<1>5. PICK v : v = [k \in 0 .. n |-> x * p[k]]
  OBVIOUS
<1>6. \A k \in 0 .. n : k \in 0 .. Top(b) /\ x * p[k] \in Nat
  BY <1>1, <1>3
<1>7. v \in [0 .. n -> Nat] /\ \A k \in 0 .. n : v[k] = x * p[k]
  BY <1>5, <1>6, Zenon
<1>8. 0 \in 0 .. n /\ n \in 0 .. n
  BY <1>3
<1>9. v[0] = x
  <2>1. p[0] = 1 /\ x * 1 = x
    <3>1. p[0] = 1
      BY Zenon DEF PowersOf
    <3> QED BY <3>1
  <2> QED BY <1>7, <1>8, <2>1, Zenon
<1>10. ASSUME NEW k \in 1 .. n PROVE NextDigit(text, b, v, k)
  <2>1. k \in 0 .. n /\ k - 1 \in 0 .. n /\ k \in 1 .. Top(b)
    BY <1>1, <1>3
  <2>2. v[k] = x * p[k] /\ v[k - 1] = x * p[k - 1] /\ p[k] = b * p[k - 1] /\ p[k - 1] \in Nat
    BY <1>1, <1>6, <1>7, <2>1, Zenon
  <2>3. \A q \in Nat : x * (b * q) = (x * q) * b + 0
    BY <1>1
  <2>4. v[k] = v[k - 1] * b + 0
    BY <2>2, <2>3, Zenon
  <2> QED BY <1>4, <2>4, DigitFacts, Zenon DEF NextDigit
<1> QED BY <1>2, <1>4, <1>7, <1>8, <1>9, <1>10, Zenon DEF Reads

\* The digits of a number of 32 bits read as it.
LEMMA DigitsRead ==
  ASSUME NEW b \in Bases, NEW u \in Nat, NEW caps,
         NEW p, PowersOf(b, p), u < p[Top(b)], \A k \in 0 .. Top(b) : p[k] = b ^ k, NEW x \in Nat
  PROVE  /\ place(u, b) \in 1 .. Top(b) /\ Len(Digits(u, b, caps)) = place(u, b)
         /\ Reads(Digits(u, b, caps), b, x, x * p[place(u, b)] + u)
         /\ OnlyDigits(Digits(u, b, caps)) /\ ~Negative(Digits(u, b, caps))
<1>1. /\ b \in Nat /\ b > 1 /\ b <= 16 /\ Top(b) \in 8 .. 11
      /\ \A k \in 0 .. Top(b) : p[k] \in Nat /\ p[k] > 0
      /\ \A k \in 1 .. Top(b) : p[k] = b * p[k - 1]
  BY PowersNumbers DEF Bases
<1>2. PICK n \in 1 .. Top(b) : n = place(u, b) /\ u < p[n]
  BY PlaceFits, Zenon
<1>3. PICK chars : chars = IF caps THEN Upper ELSE Lower
  OBVIOUS
<1>4. PICK text : text = [i \in 1 .. n |-> chars[((u \div b ^ (n - i)) % b) + 1]]
  OBVIOUS
<1>5. text = Digits(u, b, caps)
  BY <1>2, <1>3, <1>4, Zenon DEF Digits
<1>6. IsText(text)
  BY <1>5, DigitsText, Zenon
<1>7. n \in Nat /\ Len(text) = n
  <2>1. PICK S : text \in Seq(S)
    BY <1>6, Zenon DEF IsText
  <2>2. DOMAIN text = 1 .. n
    BY <1>4
  <2> QED BY <1>1, <2>1, <2>2
<1>8. \A i \in 1 .. n : n - i \in 0 .. Top(b)
  BY <1>1
<1>9. ASSUME NEW i \in 1 .. n
      PROVE  (u \div p[n - i]) % b \in 0 .. 15 /\ text[i] = chars[((u \div p[n - i]) % b) + 1]
  <2>1. (u \div p[n - i]) % b \in 0 .. b - 1
    BY HornerStep, Zenon
  <2>2. \A d \in 0 .. b - 1 : d \in 0 .. 15
    BY <1>1
  <2>3. (u \div p[n - i]) % b \in 0 .. 15
    BY <2>1, <2>2, Zenon
  <2> QED BY <1>4, <1>8, <2>3, Zenon
<1>10. ASSUME NEW i \in 1 .. n
       PROVE  IsDigit(text[i]) /\ DigitOf(text[i]) = (u \div p[n - i]) % b /\ text[i] # "-"
  BY <1>3, <1>9, DigitFacts, Zenon
<1>11. PICK v : v = [k \in 0 .. n |-> x * p[k] + (u \div p[n - k])]
  OBVIOUS
<1>12. \A k \in 0 .. n : v[k] = x * p[k] + (u \div p[n - k]) /\ v[k] \in Nat
  <2>1. ASSUME NEW k \in 0 .. n PROVE x * p[k] + (u \div p[n - k]) \in Nat
    <3>1. k \in 0 .. Top(b) /\ n - k \in 0 .. Top(b)
      BY <1>1, <1>7
    <3>2. PICK q \in Nat, r \in Nat : q = p[k] /\ r = p[n - k] /\ r > 0
      BY <1>1, <3>1
    <3>3. x * q \in Nat /\ u \div r \in Nat
      BY <3>2
    <3> QED BY <3>2, <3>3
  <2> QED BY <1>11, <2>1, Zenon
<1>13. v \in [0 .. n -> Nat]
  BY <1>11, <1>12, Zenon
<1>14. v[0] = x /\ v[n] = x * p[n] + u
  <2>1. 0 \in 0 .. n /\ n \in 0 .. n /\ n - 0 = n /\ n - n = 0 /\ n \in 0 .. Top(b)
    BY <1>1, <1>7
  <2>2. p[0] = 1 /\ p[n] \in Nat
    BY <1>1, <2>1, Zenon DEF PowersOf
  <2>3. v[0] = x * 1 + (u \div p[n]) /\ v[n] = x * p[n] + (u \div 1)
    BY <1>12, <2>1, <2>2, Zenon
  <2>4. u \div p[n] = 0 /\ u \div 1 = u /\ x * 1 + 0 = x
    <3>1. PICK q \in Nat : q = p[n] /\ u < q
      BY <1>2, <2>2
    <3>2. u \div q = 0
      BY <3>1
    <3> QED BY <3>1, <3>2
  <2> QED BY <2>3, <2>4, Zenon
<1>15. ASSUME NEW k \in 1 .. n PROVE v[k] = v[k - 1] * b + ((u \div p[n - k]) % b)
  <2>1. /\ k \in 0 .. n /\ k - 1 \in 0 .. n /\ k \in 1 .. Top(b) /\ k - 1 \in 0 .. Top(b)
    BY <1>1, <1>7
  <2>2. v[k] = x * p[k] + (u \div p[n - k]) /\ v[k - 1] = x * p[k - 1] + (u \div p[n - (k - 1)])
    BY <1>12, <2>1, Zenon
  <2>3. PICK q \in Nat : q = p[k - 1] /\ p[k] = b * q
    BY <1>1, <2>1, Zenon
  <2>4. PICK e \in Nat, f \in Nat, g \in Nat :
           e = u \div p[n - k] /\ f = u \div p[n - (k - 1)] /\ g = (u \div p[n - k]) % b /\ e = f * b + g
    <3>1. n - (k - 1) \in 0 .. Top(b)
      BY <1>1, <1>7
    <3>2. PICK r \in Nat : r = p[n - (k - 1)] /\ r > 0
      BY <1>1, <3>1
    <3>3. u \div r \in Nat
      BY <3>2
    <3>4. \A d \in 0 .. b - 1 : d \in Nat
      OBVIOUS
    <3>5. /\ u \div p[n - k] = (u \div p[n - (k - 1)]) * b + ((u \div p[n - k]) % b)
          /\ u \div p[n - k] \in Nat /\ (u \div p[n - k]) % b \in Nat
      BY <3>4, HornerStep, Zenon
    <3> QED BY <3>2, <3>3, <3>5, Zenon
  <2>5. x * (b * q) + (f * b + g) = (x * q + f) * b + g
    BY <1>1
  <2> QED BY <2>2, <2>3, <2>4, <2>5, Zenon
<1>16. \A k \in 1 .. n : NextDigit(text, b, v, k)
  BY <1>10, <1>15, Zenon DEF NextDigit
<1>17. Reads(text, b, x, x * p[n] + u)
  BY <1>6, <1>7, <1>13, <1>14, <1>16, Zenon DEF Reads
<1>18. OnlyDigits(text) /\ ~Negative(text)
  BY <1>7, <1>10, Zenon DEF OnlyDigits, Negative
<1> QED BY <1>2, <1>5, <1>7, <1>17, <1>18, Zenon

\* What a text reads as is what Value says.
LEMMA ValueIs ==
  ASSUME NEW text, NEW b, NEW y, Reads(text, b, 0, y) PROVE Value(text, b)[Len(text)] = y
<1>1. Len(text) \in Nat
  <2>1. IsText(text)
    BY Zenon DEF Reads
  <2> QED BY <2>1, Joined, Zenon
<1>2. PICK v \in [0 .. Len(text) -> Nat] :
        v[0] = 0 /\ v[Len(text)] = y /\ \A k \in 1 .. Len(text) : NextDigit(text, b, v, k)
  BY Zenon DEF Reads
<1> DEFINE Eq(f) == f = [k \in 0 .. Len(text) |->
                           IF k = 0 THEN 0
                           ELSE IF IsDigit(text[k]) THEN f[k - 1] * b + DigitOf(text[k]) ELSE f[k - 1]]
<1>3. \A k \in 0 .. Len(text) : k # 0 => k \in 1 .. Len(text) /\ k - 1 \in 0 .. Len(text)
  BY <1>1
<1>4. Eq(v)
  <2>1. \A k \in 0 .. Len(text) :
          v[k] = IF k = 0 THEN 0 ELSE IF IsDigit(text[k]) THEN v[k - 1] * b + DigitOf(text[k]) ELSE v[k - 1]
    BY <1>2, <1>3, Zenon DEF NextDigit
  <2> QED BY <2>1, Zenon
<1>5. PICK read : Value(text, b) = read /\ Eq(read)
  BY <1>4, Zenon DEF Value
<1>6. \A k \in 0 .. Len(text) :
        read[k] = IF k = 0 THEN 0 ELSE IF IsDigit(text[k]) THEN read[k - 1] * b + DigitOf(text[k]) ELSE read[k - 1]
  BY <1>5, Zenon
<1>7. \A k \in 0 .. Len(text) : read[k] = v[k]
  <2> SUFFICES ASSUME ~(\A k \in 0 .. Len(text) : read[k] = v[k]) PROVE FALSE
    OBVIOUS
  <2> DEFINE S == {k \in 0 .. Len(text) : read[k] # v[k]}
  <2>1. S \in SUBSET Nat /\ S # {}
    BY <1>1
  <2> HIDE DEF S
  <2>2. PICK k \in S : \A m \in S : k <= m
    BY <2>1, LeastNatural, Zenon
  <2>3. k \in 0 .. Len(text) /\ read[k] # v[k]
    BY <2>2, Zenon DEF S
  <2>4. k # 0
    BY <1>2, <1>6, <2>3, Zenon
  <2>5. k \in 1 .. Len(text) /\ k - 1 \in 0 .. Len(text)
    BY <1>3, <2>3, <2>4, Zenon
  <2>6. read[k - 1] = v[k - 1]
    <3>1. ~(k <= k - 1)
      BY <1>1, <2>3
    <3> QED BY <2>2, <2>5, <3>1, Zenon DEF S
  <2> QED BY <1>2, <1>6, <2>3, <2>4, <2>5, <2>6, Zenon DEF NextDigit
<1>8. Len(text) \in 0 .. Len(text)
  BY <1>1
<1> QED BY <1>2, <1>5, <1>7, <1>8, Zenon

\* A part of a field: what it reads as, whether it has a minus, its length.
Part(text, b, x, y, neg, n) == /\ Reads(text, b, x, y) /\ IsText(text) /\ Len(text) = n /\ n \in Nat
                               /\ Negative(text) <=> neg

LEMMA PartJoined ==
  ASSUME NEW s, NEW t, NEW b, NEW x, NEW y, NEW z, NEW ns, NEW nt, NEW m, NEW n,
         Part(s, b, x, y, ns, m), Part(t, b, y, z, nt, n)
  PROVE  Part(s \o t, b, x, z, ns \/ nt, m + n)
<1>1. IsText(s) /\ IsText(t) /\ Len(s) = m /\ Len(t) = n /\ m \in Nat /\ n \in Nat
  BY Zenon DEF Part
<1>2. Reads(s \o t, b, x, z)
  BY ReadsJoined, Zenon DEF Part
<1>3. PICK text : text = s \o t
  OBVIOUS
<1>4. /\ IsText(text) /\ Len(text) = m + n /\ m + n \in Nat
      /\ \A i \in 1 .. m + n : text[i] = IF i <= m THEN s[i] ELSE t[i - m]
  <2>1. /\ IsText(text) /\ Len(text) = Len(s) + Len(t)
        /\ \A i \in 1 .. Len(s) + Len(t) : text[i] = IF i <= Len(s) THEN s[i] ELSE t[i - Len(s)]
    BY <1>1, <1>3, Joined, Zenon
  <2> QED BY <1>1, <2>1
<1>5. ASSUME Negative(text) PROVE Negative(s) \/ Negative(t)
  <2>1. PICK i \in 1 .. m + n : text[i] = "-"
    BY <1>4, <1>5, Zenon DEF Negative
  <2>2. CASE i <= m
    <3>1. i \in 1 .. m
      BY <1>1, <2>2
    <3> QED BY <1>1, <1>4, <2>1, <2>2, <3>1, Zenon DEF Negative
  <2>3. CASE ~(i <= m)
    <3>1. i - m \in 1 .. n
      BY <1>1, <2>3
    <3> QED BY <1>1, <1>4, <2>1, <2>3, <3>1, Zenon DEF Negative
  <2> QED BY <2>2, <2>3
<1>6. ASSUME Negative(s) PROVE Negative(text)
  <2>1. PICK i \in 1 .. m : s[i] = "-"
    BY <1>1, <1>6, Zenon DEF Negative
  <2>2. i \in 1 .. m + n /\ i <= m
    BY <1>1
  <2> QED BY <1>4, <2>1, <2>2, Zenon DEF Negative
<1>7. ASSUME Negative(t) PROVE Negative(text)
  <2>1. PICK i \in 1 .. n : t[i] = "-"
    BY <1>1, <1>7, Zenon DEF Negative
  <2>2. m + i \in 1 .. m + n /\ ~(m + i <= m) /\ (m + i) - m = i
    BY <1>1
  <2> QED BY <1>4, <2>1, <2>2, Zenon DEF Negative
<1>8. Negative(text) <=> ns \/ nt
  <2>1. (Negative(s) <=> ns) /\ (Negative(t) <=> nt)
    BY Zenon DEF Part
  <2> QED BY <1>5, <1>6, <1>7, <2>1, Zenon
<1> QED BY <1>2, <1>3, <1>4, <1>8, Zenon DEF Part

\* A run of n digits, at the end of the text or anywhere.
RunAt(text, a, n) == /\ a \in Nat /\ n \in Nat /\ a + n <= Len(text)
                     /\ \A i \in a + 1 .. a + n : IsDigit(text[i])
EndsInRun(text, n) == \E a \in Nat : RunAt(text, a, n) /\ a + n = Len(text)
HasRun(text, n) == \E a \in Nat : RunAt(text, a, n)

LEMMA RunJoined ==
  ASSUME NEW s, NEW t, IsText(s), IsText(t), NEW n
  PROVE  /\ EndsInRun(s, n) /\ OnlyDigits(t) => EndsInRun(s \o t, n + Len(t))
         /\ HasRun(s, n) => HasRun(s \o t, n)
         /\ HasRun(t, n) => HasRun(s \o t, n)
<1>1. PICK l \in Nat, m \in Nat : l = Len(s) /\ m = Len(t)
  BY Joined, Zenon
<1>2. PICK text : text = s \o t
  OBVIOUS
<1>3. /\ Len(text) = l + m
      /\ \A i \in 1 .. l + m : text[i] = IF i <= l THEN s[i] ELSE t[i - l]
  <2>1. /\ IsText(text) /\ Len(text) = Len(s) + Len(t)
        /\ \A i \in 1 .. Len(s) + Len(t) : text[i] = IF i <= Len(s) THEN s[i] ELSE t[i - Len(s)]
    BY <1>2, Joined, Zenon
  <2> QED BY <1>1, <2>1
<1>4. ASSUME NEW a, RunAt(s, a, n) PROVE RunAt(text, a, n)
  <2>1. a \in Nat /\ n \in Nat /\ a + n <= l /\ \A i \in a + 1 .. a + n : IsDigit(s[i])
    BY <1>1, <1>4, Zenon DEF RunAt
  <2>2. a + n <= l + m /\ \A i \in a + 1 .. a + n : i \in 1 .. l + m /\ i <= l
    BY <1>1, <2>1
  <2>3. \A i \in a + 1 .. a + n : IsDigit(text[i])
    BY <1>3, <2>1, <2>2, Zenon
  <2> QED BY <1>3, <2>1, <2>2, <2>3, Zenon DEF RunAt
<1>5. ASSUME NEW a, RunAt(t, a, n) PROVE RunAt(text, l + a, n)
  <2>1. a \in Nat /\ n \in Nat /\ a + n <= m /\ \A i \in a + 1 .. a + n : IsDigit(t[i])
    BY <1>1, <1>5, Zenon DEF RunAt
  <2>2. /\ l + a \in Nat /\ (l + a) + n <= l + m
        /\ \A i \in (l + a) + 1 .. (l + a) + n : i \in 1 .. l + m /\ ~(i <= l) /\ i - l \in a + 1 .. a + n
    BY <1>1, <2>1
  <2>3. \A i \in (l + a) + 1 .. (l + a) + n : IsDigit(text[i])
    BY <1>3, <2>1, <2>2, Zenon
  <2> QED BY <1>3, <2>1, <2>2, <2>3, Zenon DEF RunAt
<1>6. ASSUME EndsInRun(s, n), OnlyDigits(t) PROVE EndsInRun(text, n + m)
  <2>1. PICK a \in Nat : n \in Nat /\ a + n = l /\ \A i \in a + 1 .. a + n : IsDigit(s[i])
    BY <1>1, <1>6, Zenon DEF EndsInRun, RunAt
  <2>2. n + m \in Nat /\ a + (n + m) = l + m /\ a + (n + m) <= l + m
    BY <2>1
  <2>3. ASSUME NEW i \in a + 1 .. a + (n + m) PROVE IsDigit(text[i])
    <3>1. CASE i <= l
      <4>1. i \in a + 1 .. a + n /\ i \in 1 .. l + m
        BY <2>1, <2>2, <3>1
      <4> QED BY <1>3, <2>1, <3>1, <4>1, Zenon
    <3>2. CASE ~(i <= l)
      <4>1. i - l \in 1 .. m /\ i \in 1 .. l + m
        BY <2>1, <2>2, <3>2
      <4> QED BY <1>1, <1>3, <1>6, <3>2, <4>1, Zenon DEF OnlyDigits
    <3> QED BY <3>1, <3>2
  <2> QED BY <1>3, <2>2, <2>3, Zenon DEF EndsInRun, RunAt
<1>7. \A a \in Nat : l + a \in Nat
  BY <1>1
<1> QED BY <1>1, <1>2, <1>4, <1>5, <1>6, <1>7, Zenon DEF HasRun

\* The digits of a text are at least those of a run of them.
LEMMA RunCounted == ASSUME NEW text, IsText(text), NEW n \in Nat, HasRun(text, n) PROVE DigitsIn(text) \in Nat /\ DigitsIn(text) >= n
<1>1. PICK a \in Nat : a + n <= Len(text) /\ \A i \in a + 1 .. a + n : IsDigit(text[i])
  BY Zenon DEF HasRun, RunAt
<1>2. PICK S : text \in Seq(S)
  BY Zenon DEF IsText
<1>3. DOMAIN text = 1 .. Len(text) /\ Len(text) \in Nat
  BY <1>2
<1>4. PICK D : D = {i \in DOMAIN text : IsDigit(text[i])}
  OBVIOUS
<1>5. a + 1 .. a + n \subseteq D
  <2>1. \A i \in a + 1 .. a + n : i \in DOMAIN text
    BY <1>1, <1>3
  <2> QED BY <1>1, <1>4, <2>1, Zenon
<1>6. IsFiniteSet(D)
  <2>1. D \subseteq 1 .. Len(text)
    BY <1>3, <1>4, Zenon
  <2>2. IsFiniteSet(1 .. Len(text))
    BY <1>3, FS_Interval
  <2> QED BY <2>1, <2>2, FS_Subset, Zenon
<1>7. Cardinality(a + 1 .. a + n) = n
  <2>1. PICK i \in Int, k \in Int : i = a + 1 /\ k = a + n
    OBVIOUS
  <2>2. Cardinality(i .. k) = IF i > k THEN 0 ELSE k - i + 1
    BY FS_Interval
  <2> QED BY <2>1, <2>2
<1>8. Cardinality(D) \in Nat /\ Cardinality(a + 1 .. a + n) <= Cardinality(D)
  BY <1>5, <1>6, FS_Subset, FS_CardinalityType, Zenon
<1>9. DigitsIn(text) = Cardinality(D)
  BY <1>4, Zenon DEF DigitsIn
<1> QED BY <1>7, <1>8, <1>9

\* What a text of one part reads as.
LEMMA PartReadsAs ==
  ASSUME NEW text, NEW b, NEW y \in Nat, NEW neg \in BOOLEAN, NEW n, Part(text, b, 0, y, neg, n)
  PROVE  ReadsAs(text, b) = IF neg THEN -y ELSE y
<1>1. Value(text, b)[Len(text)] = y
  BY ValueIs, Zenon DEF Part
<1>2. ("-" \in Range(text)) <=> neg
  <2>1. PICK S : text \in Seq(S)
    BY Zenon DEF Part, IsText
  <2>2. DOMAIN text = 1 .. Len(text)
    BY <2>1
  <2>3. ("-" \in Range(text)) <=> Negative(text)
    BY <2>2, Zenon DEF Range, Negative
  <2> QED BY <2>3, Zenon DEF Part
<1> QED BY <1>1, <1>2, Zenon DEF ReadsAs

\* The sign, and what stands to the left or to the right.
LEMMA SignPart ==
  ASSUME NEW neg \in BOOLEAN, NEW flags, NEW b
  PROVE  /\ Part(Sign(neg, flags), b, 0, 0, neg, IF neg \/ flags \cap {"+", " "} # {} THEN 1 ELSE 0)
         /\ EndsInRun(Sign(neg, flags), 0)
<1>1. PICK sign : sign = Sign(neg, flags)
  OBVIOUS
<1>2. PICK n \in 0 .. 1 : n = IF neg \/ flags \cap {"+", " "} # {} THEN 1 ELSE 0
  OBVIOUS
<1>3. n \in Nat /\ \A i \in 1 .. n : i = 1 /\ n = 1
  OBVIOUS
<1>4. IsText(sign) /\ Len(sign) = n /\ \A i \in 1 .. n : sign[1] \in {"-", "+", " "} /\ (sign[1] = "-" <=> neg)
  <2>1. CASE neg
    <3>1. sign = <<"-">> /\ n = 1
      BY <1>1, <1>2, <2>1 DEF Sign
    <3> QED BY <2>1, <3>1, OneCharacter, Zenon
  <2>2. CASE ~neg /\ "+" \in flags
    <3>1. sign = <<"+">> /\ n = 1
      BY <1>1, <1>2, <2>2 DEF Sign
    <3>2. "+" # "-"
      OBVIOUS
    <3> QED BY <2>2, <3>1, <3>2, OneCharacter, Zenon
  <2>3. CASE ~neg /\ "+" \notin flags /\ " " \in flags
    <3>1. sign = <<" ">> /\ n = 1
      BY <1>1, <1>2, <2>3 DEF Sign
    <3>2. " " # "-"
      OBVIOUS
    <3> QED BY <2>3, <3>1, <3>2, OneCharacter, Zenon
  <2>4. CASE ~neg /\ "+" \notin flags /\ " " \notin flags
    <3>1. sign = <<>> /\ n = 0
      BY <1>1, <1>2, <2>4 DEF Sign
    <3>2. \A i \in 1 .. n : FALSE
      BY <3>1
    <3> QED BY <3>1, <3>2, NoCharacter, Zenon
  <2> QED BY <2>1, <2>2, <2>3, <2>4
<1>5. \A i \in 1 .. Len(sign) : ~IsDigit(sign[i])
  BY <1>3, <1>4, DigitFacts, Zenon
<1>6. Reads(sign, b, 0, 0)
  BY <1>4, <1>5, NothingRead
<1>7. Negative(sign) <=> neg
  <2>1. ASSUME Negative(sign) PROVE neg
    BY <1>3, <1>4, <2>1, Zenon DEF Negative
  <2>2. ASSUME neg PROVE Negative(sign)
    <3>1. 1 \in 1 .. n
      BY <1>2, <2>2
    <3> QED BY <1>4, <2>2, <3>1, Zenon DEF Negative
  <2> QED BY <2>1, <2>2
<1>8. EndsInRun(sign, 0)
  <2>1. n + 0 = n /\ n + 0 <= n /\ \A i \in n + 1 .. n + 0 : FALSE
    BY <1>3
  <2> QED BY <1>3, <1>4, <2>1, Zenon DEF EndsInRun, RunAt
<1> QED BY <1>1, <1>2, <1>3, <1>4, <1>6, <1>7, <1>8, Zenon DEF Part

LEMMA SpacesPart == ASSUME NEW n \in Int, NEW b, NEW x \in Nat PROVE Part(Copies(" ", n), b, x, x, FALSE, Pos(n))
<1>1. PICK text : text = Copies(" ", n)
  OBVIOUS
<1>2. IsText(text) /\ Len(text) = Pos(n) /\ Pos(n) \in Nat /\ \A i \in 1 .. Pos(n) : text[i] = " "
  BY <1>1, CopiesText, CopiesLen, Zenon
<1>3. " " # "-"
  OBVIOUS
<1>4. ~Negative(text) /\ \A i \in 1 .. Len(text) : ~IsDigit(text[i])
  BY <1>2, <1>3, DigitFacts, Zenon DEF Negative
<1>5. Reads(text, b, x, x)
  BY <1>2, <1>4, NothingRead
<1> QED BY <1>1, <1>2, <1>4, <1>5, Zenon DEF Part

LEMMA ZerosPart ==
  ASSUME NEW n \in Int, NEW b \in Nat
  PROVE  Part(Copies("0", n), b, 0, 0, FALSE, Pos(n)) /\ OnlyDigits(Copies("0", n))
<1>1. PICK text : text = Copies("0", n)
  OBVIOUS
<1>2. IsText(text) /\ Len(text) = Pos(n) /\ Pos(n) \in Nat /\ \A i \in 1 .. Pos(n) : text[i] = "0"
  BY <1>1, CopiesText, CopiesLen, Zenon
<1>3. "0" # "-"
  OBVIOUS
<1>4. ~Negative(text) /\ OnlyDigits(text)
  BY <1>2, <1>3, DigitFacts, Zenon DEF Negative, OnlyDigits
<1>5. Reads(text, b, 0, 0)
  BY <1>1, LeadingZeros, Zenon
<1> QED BY <1>1, <1>2, <1>4, <1>5, Zenon DEF Part

LEMMA JustifiedPart ==
  ASSUME NEW text, NEW b, NEW y \in Nat, NEW neg, NEW n, Part(text, b, 0, y, neg, n),
         NEW padlen \in Int, NEW flags
  PROVE  /\ Part(Justified(text, padlen, flags), b, 0, y, neg, n + Pos(padlen))
         /\ \A m : HasRun(text, m) => HasRun(Justified(text, padlen, flags), m)
<1>1. Part(Copies(" ", padlen), b, 0, 0, FALSE, Pos(padlen)) /\ Part(Copies(" ", padlen), b, y, y, FALSE, Pos(padlen))
  BY SpacesPart
<1>2. Part(text \o Copies(" ", padlen), b, 0, y, neg \/ FALSE, n + Pos(padlen))
  BY <1>1, PartJoined, Zenon
<1>3. Part(Copies(" ", padlen) \o text, b, 0, y, FALSE \/ neg, Pos(padlen) + n)
  BY <1>1, PartJoined, Zenon
<1>4. n \in Nat /\ Pos(padlen) \in Nat
  BY <1>1, Zenon DEF Part
<1>5. Pos(padlen) + n = n + Pos(padlen)
  BY <1>4
<1>6. Part(text \o Copies(" ", padlen), b, 0, y, neg, n + Pos(padlen)) /\ Part(Copies(" ", padlen) \o text, b, 0, y, neg, n + Pos(padlen))
  BY <1>2, <1>3, <1>5, Zenon DEF Part
<1>7. IsText(text) /\ IsText(Copies(" ", padlen))
  BY <1>1, Zenon DEF Part
<1>8. ASSUME NEW m, HasRun(text, m) PROVE HasRun(text \o Copies(" ", padlen), m) /\ HasRun(Copies(" ", padlen) \o text, m)
  BY <1>7, <1>8, RunJoined, Zenon
<1> QED BY <1>6, <1>8, Zenon DEF Justified

\* What fmtint prints: the sign, zeros and the digits, and spaces around them.
Integer(value, b, flags, neg, u, n, signs) ==
    /\ neg \in BOOLEAN /\ (neg <=> "unsigned" \notin flags /\ value < 0)
    /\ u = (IF "unsigned" \notin flags /\ value < 0 THEN -value ELSE value) % LONG
    /\ n = Len(Digits(u, b, FALSE))
    /\ signs = IF neg \/ ("unsigned" \notin flags /\ flags \cap {"+", " "} # {}) THEN 1 ELSE 0

IntegerShown(text, b, min, max, flags, neg, u, n, signs) ==
    \E m : /\ Part(text, b, 0, u, neg, m)
           /\ HasRun(text, MAX(max, n))
           /\ m = MAX(min, signs + MAX(max, n)) \/ ("0" \in flags /\ max > n)

LEMMA IntegerText ==
  ASSUME NEW value \in Int, NEW b \in Bases, NEW min \in Int, NEW max \in Int, NEW flags,
         NEW neg, NEW u \in Nat, u < LONG, NEW n \in Nat, NEW signs \in Nat,
         Integer(value, b, flags, neg, u, n, signs)
  PROVE  IntegerShown(fmtint(value, b, min, max, flags), b, min, max, flags, neg, u, n, signs)
<1> PICK text : text = fmtint(value, b, min, max, flags)
  OBVIOUS
<1> SUFFICES IntegerShown(text, b, min, max, flags, neg, u, n, signs)
  BY Zenon
<1> DEFINE signed == "unsigned" \notin flags
           sign == IF signed THEN Sign(value < 0, flags) ELSE <<>>
           digits == Digits(u, b, "up" \in flags)
           zpadlen == Pos(max - Len(digits))
           spadlen == Pos(min - MAX(Pos(max), Len(digits)) - Len(sign))
<1>1. text = IF "0" \in flags THEN sign \o Copies("0", ZeroPad(zpadlen, spadlen)) \o digits
             ELSE Justified(sign \o Copies("0", zpadlen) \o digits, spadlen, flags)
  BY Zenon DEF fmtint, Integer
<1>2. b \in Nat /\ Part(digits, b, 0, u, FALSE, n) /\ OnlyDigits(digits)
  <2>1. PICK p : PowersOf(b, p) /\ \A k \in 0 .. Top(b) : p[k] = b ^ k
    BY Powers
  <2>2. PICK caps : caps = ("up" \in flags)
    BY Zenon
  <2>3. b \in Nat /\ Top(b) \in 8 .. 11 /\ 0 \in Nat /\ FALSE \in BOOLEAN
    BY <2>1, PowersNumbers
  <2>4. u < p[Top(b)]
    <3>1. LONG \in Nat /\ LONG <= p[Top(b)]
      BY <2>1, LongIs, Zenon DEF PowersOf
    <3>2. PICK q \in Nat : q = p[Top(b)]
      <4>1. Top(b) \in 0 .. Top(b)
        BY <2>3
      <4> QED BY <2>1, <4>1, PowersNumbers, Zenon
    <3> QED BY <3>1, <3>2
  <2>5. n = place(u, b) /\ place(u, b) \in 1 .. Top(b)
    BY <2>4, <2>1, <2>3, DigitsRead, Zenon DEF Integer
  <2>6. /\ Len(digits) = place(u, b) /\ Reads(digits, b, 0, 0 * p[place(u, b)] + u)
        /\ OnlyDigits(digits) /\ ~Negative(digits)
    BY <2>4, <2>1, <2>2, <2>3, DigitsRead, Zenon
  <2>7. 0 * p[place(u, b)] + u = u
    <3>1. PICK q \in Nat : q = p[place(u, b)]
      <4>1. \A k \in 1 .. Top(b) : k \in 0 .. Top(b)
        BY <2>3
      <4> QED BY <2>1, <2>5, <4>1, PowersNumbers, Zenon
    <3>2. 0 * q + u = u
      OBVIOUS
    <3> QED BY <3>1, <3>2, Zenon
  <2>8. IsText(digits)
    BY DigitsText, Zenon
  <2> QED BY <2>3, <2>5, <2>6, <2>7, <2>8, Zenon DEF Part
<1>3. Part(sign, b, 0, 0, neg, signs) /\ EndsInRun(sign, 0)
  <2>1. CASE signed
    <3>1. neg \in BOOLEAN /\ (neg <=> value < 0)
      BY <2>1, Zenon DEF Integer
    <3>2. sign = Sign(neg, flags)
      BY <2>1, <3>1, Zenon DEF Sign
    <3>3. signs = IF neg \/ flags \cap {"+", " "} # {} THEN 1 ELSE 0
      BY <2>1, Zenon DEF Integer
    <3> HIDE DEF sign
    <3>4. /\ Part(sign, b, 0, 0, neg, IF neg \/ flags \cap {"+", " "} # {} THEN 1 ELSE 0)
          /\ EndsInRun(sign, 0)
      BY <3>1, <3>2, SignPart, Zenon
    <3> QED BY <3>3, <3>4, Zenon
  <2>2. CASE ~signed
    <3>1. sign = <<>> /\ signs = 0 /\ ~neg
      BY <2>2, Zenon DEF Integer
    <3>2. Reads(<<>>, b, 0, 0)
      <4>1. \A i \in 1 .. 0 : FALSE
        OBVIOUS
      <4>2. 0 \in Nat
        OBVIOUS
      <4> QED BY <4>1, <4>2, NoCharacter, NothingRead, Zenon
    <3>3. ~Negative(<<>>) /\ EndsInRun(<<>>, 0)
      <4>1. \A i \in 1 .. 0 : FALSE
        OBVIOUS
      <4>2. \A i \in 0 + 1 .. 0 + 0 : FALSE
        OBVIOUS
      <4>3. 0 + 0 <= 0 /\ 0 + 0 = 0 /\ 0 \in Nat
        OBVIOUS
      <4> QED BY <4>1, <4>2, <4>3, NoCharacter, Zenon DEF Negative, EndsInRun, RunAt
    <3> HIDE DEF sign
    <3>4. 0 \in Nat
      OBVIOUS
    <3> QED BY <3>1, <3>2, <3>3, <3>4, NoCharacter, Zenon DEF Part
  <2> QED BY <2>1, <2>2
<1>4. Len(digits) = n /\ Len(sign) = signs
  BY <1>2, <1>3, Zenon DEF Part
<1> HIDE DEF sign, digits
<1>5. ASSUME NEW z \in Nat
      PROVE  /\ Part(sign \o Copies("0", z) \o digits, b, 0, u, neg, (signs + z) + n)
             /\ HasRun(sign \o Copies("0", z) \o digits, (0 + z) + n)
  <2>1. Part(Copies("0", z), b, 0, 0, FALSE, z) /\ OnlyDigits(Copies("0", z))
    <3>1. z \in Int /\ Pos(z) = z
      BY DEF Pos
    <3> QED BY <1>2, <3>1, ZerosPart, Zenon
  <2>2. Part(sign \o Copies("0", z), b, 0, 0, neg \/ FALSE, signs + z)
    BY <1>3, <2>1, PartJoined, Zenon
  <2>3. Part(sign \o Copies("0", z) \o digits, b, 0, u, (neg \/ FALSE) \/ FALSE, (signs + z) + n)
    BY <1>2, <2>2, PartJoined, Zenon
  <2>4. EndsInRun(sign \o Copies("0", z), 0 + z)
    <3>1. IsText(sign) /\ IsText(Copies("0", z)) /\ Len(Copies("0", z)) = z
      BY <1>3, <2>1, Zenon DEF Part
    <3>2. EndsInRun(sign \o Copies("0", z), 0 + Len(Copies("0", z)))
      BY <1>3, <2>1, <3>1, RunJoined, Zenon
    <3> QED BY <3>1, <3>2, Zenon
  <2>5. EndsInRun(sign \o Copies("0", z) \o digits, (0 + z) + n)
    <3>1. IsText(sign \o Copies("0", z)) /\ IsText(digits)
      BY <1>2, <2>2, Zenon DEF Part
    <3>2. EndsInRun(sign \o Copies("0", z) \o digits, (0 + z) + Len(digits))
      BY <1>2, <2>4, <3>1, RunJoined, Zenon
    <3> QED BY <1>4, <3>2, Zenon
  <2> QED BY <2>3, <2>5, Zenon DEF Part, EndsInRun, HasRun
<1>6. zpadlen = Pos(max - n) /\ spadlen = Pos(min - MAX(Pos(max), n) - signs)
  BY <1>4
<1> HIDE DEF zpadlen, spadlen
<1>7. CASE "0" \in flags
  <2>1. PICK z \in Nat : z = ZeroPad(zpadlen, spadlen)
    BY <1>6 DEF ZeroPad, MAX, Pos
  <2>2. text = sign \o Copies("0", z) \o digits
    BY <1>1, <1>7, <2>1, Zenon
  <2>3. Part(text, b, 0, u, neg, (signs + z) + n) /\ HasRun(text, (0 + z) + n)
    BY <1>5, <2>2, Zenon
  <2>4. HasRun(text, MAX(max, n))
    <3>1. MAX(max, n) \in Nat /\ MAX(max, n) <= (0 + z) + n
      BY <1>6, <2>1 DEF ZeroPad, MAX, Pos
    <3>2. PICK a \in Nat : RunAt(text, a, (0 + z) + n)
      BY <2>3, Zenon DEF HasRun, RunAt
    <3>3. PICK k \in Nat, t \in Nat : k = (0 + z) + n /\ t = MAX(max, n) /\ t <= k
      BY <3>1
    <3>4. a + k <= Len(text) /\ Len(text) \in Nat /\ \A i \in a + 1 .. a + k : IsDigit(text[i])
      <4>1. Len(text) \in Nat
        BY <2>3, Zenon DEF Part
      <4> QED BY <3>2, <3>3, <4>1, Zenon DEF RunAt
    <3>5. a + t <= Len(text) /\ \A i \in a + 1 .. a + t : i \in a + 1 .. a + k
      BY <3>3, <3>4
    <3> QED BY <3>3, <3>4, <3>5, Zenon DEF HasRun, RunAt
  <2>5. (signs + z) + n = MAX(min, signs + MAX(max, n)) \/ max > n
    BY <1>6, <2>1 DEF ZeroPad, MAX, Pos
  <2> QED BY <1>7, <2>3, <2>4, <2>5, Zenon DEF IntegerShown
<1>8. CASE "0" \notin flags
  <2>1. PICK z \in Nat, t \in Nat : z = zpadlen /\ t = spadlen /\ t \in Int /\ Pos(t) = t
    BY <1>6 DEF MAX, Pos
  <2>2. PICK body : body = sign \o Copies("0", z) \o digits
    OBVIOUS
  <2>3. text = Justified(body, t, flags)
    BY <1>1, <1>8, <2>1, <2>2, Zenon
  <2>4. Part(body, b, 0, u, neg, (signs + z) + n) /\ HasRun(body, (0 + z) + n)
    BY <1>5, <2>2, Zenon
  <2>5. Part(text, b, 0, u, neg, ((signs + z) + n) + Pos(t)) /\ HasRun(text, (0 + z) + n)
    <3>1. /\ Part(Justified(body, t, flags), b, 0, u, neg, ((signs + z) + n) + Pos(t))
          /\ \A m : HasRun(body, m) => HasRun(Justified(body, t, flags), m)
      <4>1. t \in Int
        OBVIOUS
      <4>2. Part(body, b, 0, u, neg, (signs + z) + n)
        BY <2>4, Zenon
      <4> QED BY <4>1, <4>2, JustifiedPart, Zenon
    <3> QED BY <2>3, <2>4, <3>1, Zenon
  <2>6. (0 + z) + n = MAX(max, n) /\ ((signs + z) + n) + Pos(t) = MAX(min, signs + MAX(max, n))
    BY <1>6, <2>1 DEF MAX, Pos
  <2> QED BY <2>5, <2>6, Zenon DEF IntegerShown
<1> QED BY <1>7, <1>8

\* A field is of an argument its conversion takes.
ArgIs(conv, a) == /\ conv \in IntConv => IsLong(a.long)
                  /\ conv = "f" => IsDouble(a.double)
                  /\ conv = "s" => IsText(StringOf(a))

LongNumbers(n) == n \in Int /\ n < LONG /\ -n < LONG /\ (n >= 0 => n % LONG = n) /\ (n < 0 => (-n) % LONG = -n) /\ n % LONG \in Nat /\ n % LONG < LONG

LEMMA LongNumbersIs == ASSUME NEW n, IsLong(n) PROVE LongNumbers(n)
<1>1. PICK l \in Nat, h \in Nat : l = LONG /\ l > 0 /\ h = LONG \div 2 /\ 2 * h <= l
  BY LongIs
<1>2. n \in Int /\ -h <= n /\ n < h
  BY <1>1 DEF IsLong
<1>3. n < l /\ -n < l
  BY <1>1, <1>2
<1>4. n % l \in Nat /\ n % l < l /\ (n >= 0 => n % l = n) /\ (n < 0 => (-n) % l = -n)
  BY <1>1, <1>2, <1>3
<1> QED BY <1>1, <1>2, <1>3, <1>4 DEF LongNumbers

LEMMA IntegerFields ==
  ASSUME field.conv \in IntConv, IsLong(field.arg.long), field.spec.flags \subseteq Flag,
         field.spec.min \in Int, field.spec.max \in Int,
         field.text = Text(field.conv, field.arg, field.spec)
  PROVE  IntegerIsRight
<1>1. PICK s : s = field.spec
  OBVIOUS
<1>2. PICK conv \in IntConv : conv = field.conv
  OBVIOUS
<1>3. PICK long \in Int : long = field.arg.long /\ LongNumbers(long)
  BY LongNumbersIs DEF LongNumbers
<1>4. PICK b \in Bases : b = Base(conv)
  BY DEF Bases, Base
<1>5. PICK flags : flags = s.flags \cup Added(conv)
  OBVIOUS
<1>6. PICK min \in Int, max \in Int : min = s.min /\ max = s.max
  BY <1>1
<1>7. PICK text : text = field.text
  OBVIOUS
<1>8. text = fmtint(long, b, min, max, flags)
  <2>1. Text(conv, field.arg, s) = fmtint(field.arg.long, Base(conv), s.min, s.max, s.flags \cup Added(conv))
    <3>1. conv \notin {"f", "c", "s"}
      BY DEF IntConv
    <3> QED BY <3>1 DEF Text
  <2> QED BY <1>1, <1>2, <1>3, <1>4, <1>5, <1>6, <1>7, <2>1, Zenon
<1>9. PICK signed \in BOOLEAN : signed <=> conv \in {"d", "i", "p"}
  OBVIOUS
<1>10. ("unsigned" \in flags <=> ~signed) /\ ("+" \in flags <=> "+" \in s.flags) /\ (" " \in flags <=> " " \in s.flags)
       /\ ("0" \in flags <=> "0" \in s.flags)
  <2>1. "unsigned" \notin s.flags
    <3>1. "unsigned" \notin Flag
      BY DEF Flag
    <3> QED BY <1>1, <3>1
  <2>2. Added(conv) \subseteq {"up", "unsigned"} /\ ("unsigned" \in Added(conv) <=> ~signed)
    BY <1>9 DEF IntConv, Added
  <2>3. {"+", " ", "0"} \cap {"up", "unsigned"} = {}
    OBVIOUS
  <2> QED BY <1>5, <2>1, <2>2, <2>3
<1>11. PICK neg \in BOOLEAN : neg <=> signed /\ long < 0
  OBVIOUS
<1>12. PICK value \in Int, u \in Nat :
         /\ value = IF signed THEN long ELSE long % LONG
         /\ u = IF value < 0 THEN -value ELSE value
         /\ u = (IF neg THEN -long ELSE long) % LONG /\ u < LONG /\ (value < 0 <=> neg)
         /\ value = IF neg THEN -u ELSE u
  <2>1. LONG \in Nat
    BY LongIs
  <2>2. CASE signed
    <3>1. CASE long < 0
      BY <1>3, <1>11, <2>1, <2>2, <3>1 DEF LongNumbers
    <3>2. CASE long >= 0
      BY <1>3, <1>11, <2>1, <2>2, <3>2 DEF LongNumbers
    <3> QED BY <3>1, <3>2
  <2>3. CASE ~signed
    BY <1>3, <1>11, <2>1, <2>3 DEF LongNumbers
  <2> QED BY <2>2, <2>3
<1>13. PICK n \in Nat : n = Len(Digits(u, b, FALSE))
  BY DigitsText, Joined, Zenon
<1>14. PICK signs \in Nat : signs = IF value < 0 \/ (signed /\ s.flags \cap {"+", " "} # {}) THEN 1 ELSE 0
  OBVIOUS
<1>15. Integer(long, b, flags, neg, u, n, signs)
  <2>1. s.flags \cap {"+", " "} # {} <=> flags \cap {"+", " "} # {}
    BY <1>10
  <2>2. signs = IF neg \/ ("unsigned" \notin flags /\ flags \cap {"+", " "} # {}) THEN 1 ELSE 0
    BY <1>10, <1>12, <1>14, <2>1, Zenon
  <2>3. neg <=> "unsigned" \notin flags /\ long < 0
    BY <1>10, <1>11, Zenon
  <2>4. u = (IF "unsigned" \notin flags /\ long < 0 THEN -long ELSE long) % LONG
    BY <1>12, <2>3, Zenon
  <2> QED BY <1>13, <2>2, <2>3, <2>4, Zenon DEF Integer
<1>16. PICK m : /\ Part(text, b, 0, u, neg, m) /\ HasRun(text, MAX(max, n))
                /\ m = MAX(min, signs + MAX(max, n)) \/ ("0" \in flags /\ max > n)
  <2>1. u < LONG
    BY <1>12
  <2>2. IntegerShown(fmtint(long, b, min, max, flags), b, min, max, flags, neg, u, n, signs)
    BY <1>15, <2>1, IntegerText, Zenon
  <2> QED BY <1>8, <2>2, Zenon DEF IntegerShown
<1>17. ReadsAs(text, b) = value
  BY <1>12, <1>16, PartReadsAs
<1>18. DigitsIn(text) >= MAX(max, n)
  <2>1. MAX(max, n) \in Nat
    BY DEF MAX
  <2>2. IsText(text)
    BY <1>16, Zenon DEF Part
  <2> QED BY <1>16, <2>1, <2>2, RunCounted, Zenon
<1>19. Len(text) = MAX(min, signs + MAX(max, n)) \/ ("0" \in s.flags /\ max > n)
  BY <1>10, <1>16, Zenon DEF Part
<1> QED BY <1>1, <1>2, <1>3, <1>4, <1>6, <1>7, <1>9, <1>12, <1>13, <1>14, <1>17, <1>18, <1>19, Zenon DEF IntegerIsRight

\* The string, in its padding, as far as the precision allows.
LEMMA StringFields ==
  ASSUME field.conv = "s", IsText(StringOf(field.arg)), field.spec.min \in Int, field.spec.max \in Int,
         call.maxlen \in Nat, field.text = Text(field.conv, field.arg, field.spec)
  PROVE  StringIsRight
<1>1. PICK value, flags : value = StringOf(field.arg) /\ flags = field.spec.flags
  OBVIOUS
<1>2. PICK S : value \in Seq(S)
  BY <1>1, Zenon DEF IsText
<1>3. PICK l \in Nat : l = Len(value) /\ DOMAIN value = 1 .. l
  BY <1>2
<1>4. PICK min \in Int, limit \in Nat : /\ min = field.spec.min
                                       /\ limit = IF field.spec.max < 0 THEN call.maxlen ELSE field.spec.max
  OBVIOUS
<1>5. PICK width \in Nat, pad \in Nat : width = MAX(min, l) /\ pad = Pos(min - l) /\ width = l + pad
  BY DEF MAX, Pos
<1>6. PICK space : space = " "
  OBVIOUS
<1>7. PICK blank : blank = Copies(space, min - l)
  OBVIOUS
<1>8. IsText(value) /\ IsText(blank) /\ Len(blank) = pad /\ \A i \in 1 .. pad : blank[i] = space
  <2>1. min - l \in Int
    OBVIOUS
  <2> QED BY <1>2, <1>5, <1>7, <2>1, CopiesText, CopiesLen, Zenon DEF IsText
<1>9. PICK before \in Nat : before = IF "-" \in flags THEN 0 ELSE width - l
  BY <1>5
<1>10. PICK text : text = Justified(value, min - l, flags)
  OBVIOUS
<1>11. /\ IsText(text) /\ Len(text) = width
       /\ \A i \in 1 .. width : text[i] = IF i - before \in 1 .. l THEN value[i - before] ELSE space
  <2>1. CASE "-" \in flags
    <3>1. text = value \o blank
      BY <1>6, <1>7, <1>10, <2>1, Zenon DEF Justified
    <3>2. /\ IsText(text) /\ Len(text) = Len(value) + Len(blank)
          /\ \A i \in 1 .. Len(value) + Len(blank) : text[i] = IF i <= Len(value) THEN value[i] ELSE blank[i - Len(value)]
      BY <1>8, <3>1, Joined, Zenon
    <3>3. before = 0 /\ Len(text) = width
      BY <1>3, <1>5, <1>8, <1>9, <2>1, <3>2
    <3>4. ASSUME NEW i \in 1 .. width PROVE text[i] = IF i - before \in 1 .. l THEN value[i - before] ELSE space
      <4>1. text[i] = IF i <= l THEN value[i] ELSE blank[i - l]
        BY <1>3, <1>5, <1>8, <3>2
      <4>2. CASE i <= l
        BY <3>3, <4>1, <4>2
      <4>3. CASE i > l
        <5>1. i - l \in 1 .. pad /\ i - before \notin 1 .. l
          BY <1>5, <3>3, <4>3
        <5> QED BY <1>8, <4>1, <4>3, <5>1
      <4> QED BY <4>2, <4>3
    <3> QED BY <3>2, <3>3, <3>4
  <2>2. CASE "-" \notin flags
    <3>1. text = blank \o value
      BY <1>6, <1>7, <1>10, <2>2, Zenon DEF Justified
    <3>2. /\ IsText(text) /\ Len(text) = Len(blank) + Len(value)
          /\ \A i \in 1 .. Len(blank) + Len(value) : text[i] = IF i <= Len(blank) THEN blank[i] ELSE value[i - Len(blank)]
      BY <1>8, <3>1, Joined, Zenon
    <3>3. before = pad /\ Len(text) = width
      BY <1>3, <1>5, <1>8, <1>9, <2>2, <3>2
    <3>4. ASSUME NEW i \in 1 .. width PROVE text[i] = IF i - before \in 1 .. l THEN value[i - before] ELSE space
      <4>1. text[i] = IF i <= pad THEN blank[i] ELSE value[i - pad]
        BY <1>3, <1>5, <1>8, <3>2
      <4>2. CASE i <= pad
        <5>1. i \in 1 .. pad /\ i - before \notin 1 .. l
          BY <3>3, <4>2
        <5> QED BY <1>8, <4>1, <4>2, <5>1
      <4>3. CASE i > pad
        BY <1>5, <3>3, <4>1, <4>3
      <4> QED BY <4>2, <4>3
    <3> QED BY <3>2, <3>3, <3>4
  <2> QED BY <2>1, <2>2
<1>12. PICK k \in Nat : k = (IF width < limit THEN width ELSE limit) /\ k <= width
  OBVIOUS
<1>13. field.text = SubSeq(text, 1, k)
  <2>1. Text(field.conv, field.arg, field.spec) = fmtstr(StringOf(field.arg), field.spec.flags, field.spec.min, IF field.spec.max < 0 THEN call.maxlen ELSE field.spec.max)
    <3>1. "s" \notin IntConv
      BY DEF IntConv
    <3> QED BY <3>1 DEF Text
  <2>2. field.text = fmtstr(value, flags, min, limit)
    BY <1>1, <1>4, <2>1, Zenon
  <2>3. fmtstr(value, flags, min, limit) = SubSeq(text, 1, IF Len(text) < limit THEN Len(text) ELSE limit)
    BY <1>3, <1>10, Zenon DEF fmtstr
  <2> QED BY <1>11, <1>12, <2>2, <2>3, Zenon
<1>14. DOMAIN field.text = 1 .. k /\ Len(field.text) = k /\ \A i \in 1 .. k : field.text[i] = text[i]
  <2>1. PICK T : text \in Seq(T)
    BY <1>11, Zenon DEF IsText
  <2>2. PICK out : out = SubSeq(text, 1, k)
    OBVIOUS
  <2>3. k \in 0 .. Len(text) /\ Len(text) \in Nat
    BY <1>11, <1>12
  <2>4. DOMAIN out = 1 .. k /\ Len(out) = k /\ \A i \in 1 .. k : out[i] = text[i]
    BY <2>1, <2>2, <2>3
  <2> QED BY <1>13, <2>2, <2>4, Zenon
<1>15. \A i \in 1 .. k : i \in 1 .. width
  BY <1>12
<1>16. \A i \in DOMAIN field.text : field.text[i] = IF i - before \in DOMAIN value THEN value[i - before] ELSE " "
  BY <1>6, <1>3, <1>11, <1>14, <1>15, Zenon
<1>17. Len(field.text) = IF width < limit THEN width ELSE limit
  BY <1>12, <1>14, Zenon
<1> QED BY <1>1, <1>3, <1>4, <1>5, <1>9, <1>16, <1>17, Zenon DEF StringIsRight

\* Powers of ten.
LEMMA TenPowers ==
  ASSUME NEW p, PowersOf(10, p), NEW m \in 0 .. 9, NEW k \in 0 .. m
  PROVE  p[m] = p[k] * p[m - k]
<1>1. p[0] = 1 /\ (\A i \in 0 .. 9 : p[i] \in Nat) /\ \A i \in 1 .. 9 : p[i] = 10 * p[i - 1]
  <2>1. Top(10) = 10 /\ 10 \in Bases
    BY DEF Top, Bases
  <2>2. \A i \in 0 .. Top(10) : p[i] \in Nat
    BY <2>1, PowersNumbers, Zenon
  <2>3. \A i \in 1 .. Top(10) : p[i] = 10 * p[i - 1]
    BY <2>1, PowersNumbers, Zenon
  <2>4. p[0] = 1
    BY Zenon DEF PowersOf
  <2> QED BY <2>1, <2>2, <2>3, <2>4
<1>2. \A i \in 1 .. 9 : p[i] = 10 * p[i - 1]
  BY <1>1
<1>3. \A i \in 2 .. 9 : p[i] = 100 * p[i - 2]
  <2>1. ASSUME NEW i \in 2 .. 9 PROVE p[i] = 100 * p[i - 2]
    <3>1. i \in 1 .. 9 /\ i - 1 \in 1 .. 9 /\ (i - 1) - 1 = i - 2
      OBVIOUS
    <3> QED BY <1>1, <1>2, <3>1
  <2> QED BY <2>1
<1>4. \A i \in 3 .. 9 : p[i] = 1000 * p[i - 3]
  <2>1. ASSUME NEW i \in 3 .. 9 PROVE p[i] = 1000 * p[i - 3]
    <3>1. i \in 2 .. 9 /\ i - 2 \in 1 .. 9 /\ (i - 2) - 1 = i - 3
      OBVIOUS
    <3> QED BY <1>1, <1>3, <3>1
  <2> QED BY <2>1
<1>5. \A i \in 4 .. 9 : p[i] = 10000 * p[i - 4]
  <2>1. ASSUME NEW i \in 4 .. 9 PROVE p[i] = 10000 * p[i - 4]
    <3>1. i \in 3 .. 9 /\ i - 3 \in 1 .. 9 /\ (i - 3) - 1 = i - 4
      OBVIOUS
    <3> QED BY <1>1, <1>4, <3>1
  <2> QED BY <2>1
<1>6. \A i \in 5 .. 9 : p[i] = 100000 * p[i - 5]
  <2>1. ASSUME NEW i \in 5 .. 9 PROVE p[i] = 100000 * p[i - 5]
    <3>1. i \in 4 .. 9 /\ i - 4 \in 1 .. 9 /\ (i - 4) - 1 = i - 5
      OBVIOUS
    <3> QED BY <1>1, <1>5, <3>1
  <2> QED BY <2>1
<1>7. \A i \in 6 .. 9 : p[i] = 1000000 * p[i - 6]
  <2>1. ASSUME NEW i \in 6 .. 9 PROVE p[i] = 1000000 * p[i - 6]
    <3>1. i \in 5 .. 9 /\ i - 5 \in 1 .. 9 /\ (i - 5) - 1 = i - 6
      OBVIOUS
    <3> QED BY <1>1, <1>6, <3>1
  <2> QED BY <2>1
<1>8. \A i \in 7 .. 9 : p[i] = 10000000 * p[i - 7]
  <2>1. ASSUME NEW i \in 7 .. 9 PROVE p[i] = 10000000 * p[i - 7]
    <3>1. i \in 6 .. 9 /\ i - 6 \in 1 .. 9 /\ (i - 6) - 1 = i - 7
      OBVIOUS
    <3> QED BY <1>1, <1>7, <3>1
  <2> QED BY <2>1
<1>9. \A i \in 8 .. 9 : p[i] = 100000000 * p[i - 8]
  <2>1. ASSUME NEW i \in 8 .. 9 PROVE p[i] = 100000000 * p[i - 8]
    <3>1. i \in 7 .. 9 /\ i - 7 \in 1 .. 9 /\ (i - 7) - 1 = i - 8
      OBVIOUS
    <3> QED BY <1>1, <1>8, <3>1
  <2> QED BY <2>1
<1>10. \A i \in 9 .. 9 : p[i] = 1000000000 * p[i - 9]
  <2>1. ASSUME NEW i \in 9 .. 9 PROVE p[i] = 1000000000 * p[i - 9]
    <3>1. i \in 8 .. 9 /\ i - 8 \in 1 .. 9 /\ (i - 8) - 1 = i - 9
      OBVIOUS
    <3> QED BY <1>1, <1>9, <3>1
  <2> QED BY <2>1
<1>11. CASE k = 0
  BY <1>1, <1>11
<1>12. CASE k = 1
  BY <1>1, <1>2, <1>12
<1>13. CASE k = 2
  BY <1>1, <1>3, <1>13
<1>14. CASE k = 3
  BY <1>1, <1>4, <1>14
<1>15. CASE k = 4
  BY <1>1, <1>5, <1>15
<1>16. CASE k = 5
  BY <1>1, <1>6, <1>16
<1>17. CASE k = 6
  BY <1>1, <1>7, <1>17
<1>18. CASE k = 7
  BY <1>1, <1>8, <1>18
<1>19. CASE k = 8
  BY <1>1, <1>9, <1>19
<1>20. CASE k = 9
  BY <1>1, <1>10, <1>20
<1> QED BY <1>11, <1>12, <1>13, <1>14, <1>15, <1>16, <1>17, <1>18, <1>19, <1>20

LEMMA RoundedIs ==
  ASSUME NEW q \in Nat, q > 0, NEW d \in Nat, d > 0, NEW part \in 0 .. d - 1
  PROVE  (2 * q * part + d) \div (2 * d) \in 0 .. q
<1>1. PICK n \in Nat, t \in Nat : n = 2 * q * part + d /\ t = 2 * d /\ t > 0
  OBVIOUS
<1>2. 2 * q * part <= 2 * q * (d - 1)
  <2>1. PICK c \in Nat : c = 2 * q
    OBVIOUS
  <2>2. c * part <= c * (d - 1)
    BY <2>1
  <2> QED BY <2>1, <2>2
<1>3. 2 * q * (d - 1) = t * q - 2 * q
  BY <1>1
<1>4. n < t * q + t
  <2>1. PICK x \in Nat : x = t * q
    BY <1>1
  <2> QED BY <1>1, <1>2, <1>3, <2>1
<1>5. PICK a \in Nat, r \in 0 .. t - 1 : a = n \div t /\ n = t * a + r
  BY <1>1
<1>6. a <= q
  <2> SUFFICES ASSUME a >= q + 1 PROVE FALSE
    BY <1>5
  <2>1. t * a >= t * (q + 1)
    BY <1>1
  <2>2. t * (q + 1) = t * q + t
    BY <1>1
  <2>3. PICK x \in Nat, y \in Nat : x = t * a /\ y = t * q
    BY <1>1
  <2> QED BY <1>4, <1>5, <2>1, <2>2, <2>3
<1> QED BY <1>1, <1>5, <1>6

LEMMA DotPart == ASSUME NEW b, NEW x \in Nat PROVE Part(<<".">>, b, x, x, FALSE, 1)
<1>1. PICK text : text = <<".">>
  OBVIOUS
<1>2. IsText(text) /\ Len(text) = 1 /\ text[1] = "."
  BY <1>1, OneCharacter, Zenon
<1>3. "." # "-" /\ 1 \in Nat /\ \A i \in 1 .. 1 : i = 1
  OBVIOUS
<1>4. ~Negative(text) /\ \A i \in 1 .. Len(text) : ~IsDigit(text[i])
  BY <1>2, <1>3, DigitFacts, Zenon DEF Negative
<1>5. Reads(text, b, x, x)
  BY <1>2, <1>4, NothingRead
<1> QED BY <1>1, <1>2, <1>3, <1>4, <1>5, Zenon DEF Part

LEMMA EmptyPart == ASSUME NEW b, NEW x \in Nat PROVE Part(<<>>, b, x, x, FALSE, 0)
<1>1. 0 \in Nat /\ \A i \in 1 .. 0 : FALSE
  OBVIOUS
<1>2. Reads(<<>>, b, x, x)
  BY <1>1, NoCharacter, NothingRead, Zenon
<1> QED BY <1>1, <1>2, NoCharacter, Zenon DEF Part, Negative

\* The digits of u behind a number x.
LEMMA DigitsPart ==
  ASSUME NEW b \in Bases, NEW u \in Nat, NEW p, PowersOf(b, p), u < p[Top(b)],
         \A k \in 0 .. Top(b) : p[k] = b ^ k, NEW x \in Nat
  PROVE  /\ place(u, b) \in 1 .. Top(b)
         /\ Part(Digits(u, b, FALSE), b, x, x * p[place(u, b)] + u, FALSE, place(u, b))
<1>1. /\ place(u, b) \in 1 .. Top(b) /\ Len(Digits(u, b, FALSE)) = place(u, b)
      /\ Reads(Digits(u, b, FALSE), b, x, x * p[place(u, b)] + u) /\ ~Negative(Digits(u, b, FALSE))
  BY DigitsRead, Zenon
<1>2. \A k \in 1 .. Top(b) : k \in Nat
  OBVIOUS
<1> QED BY <1>1, <1>2, DigitsText, Zenon DEF Part

\* The digits of a double: those before the point, and max behind it, the zeros of
\* the fraction last.
NumberOf(whole, fr, max) ==
    Digits(whole, 10, FALSE) \o (IF max > 0 THEN <<".">> \o Digits(fr, 10, FALSE) ELSE <<>>)
                             \o Copies("0", max - Len(Digits(fr, 10, FALSE)))
NumberShown(number, whole, fr, max, power) ==
    \E y \in Nat, m \in Nat :
        /\ Part(number, 10, 0, y, FALSE, m)
        /\ y = whole * power + fr <=> fr = 0 \/ 10 * fr >= power
        /\ max > 0 => m = Len(Digits(whole, 10, FALSE)) + 1 + max

LEMMA NumberPart ==
  ASSUME NEW p, PowersOf(10, p), \A k \in 0 .. Top(10) : p[k] = 10 ^ k,
         NEW max \in 0 .. 9, NEW whole \in Nat, whole < p[10], NEW fr \in Nat, fr < p[max]
  PROVE  NumberShown(NumberOf(whole, fr, max), whole, fr, max, p[max])
<1>1. PICK number : number = NumberOf(whole, fr, max)
  OBVIOUS
<1>2. Top(10) = 10 /\ 10 \in Bases /\ 10 \in Nat /\ 0 \in Nat
  BY DEF Top, Bases
<1>3. p[0] = 1 /\ \A i \in 0 .. 10 : p[i] \in Nat /\ p[i] > 0
  <2>1. p[0] = 1
    BY Zenon DEF PowersOf
  <2> QED BY <1>2, <2>1, PowersNumbers, Zenon
<1>4. PICK q \in Nat : q = p[max] /\ q > 0 /\ fr < q
  BY <1>3
<1>5. p[10] = 10 * p[9] /\ q <= p[9]
  <2>1. p[10] = 10 * p[9]
    <3>1. 10 \in 1 .. 10 /\ 10 - 1 = 9
      OBVIOUS
    <3>2. \A k \in 1 .. Top(10) : p[k] = 10 * p[k - 1]
      BY <1>2, PowersNumbers, Zenon
    <3> QED BY <1>2, <3>1, <3>2, Zenon
  <2>2. p[9] = q * p[9 - max]
    <3>1. 9 \in 0 .. 9
      OBVIOUS
    <3>2. p[9] = p[max] * p[9 - max]
      BY <3>1, TenPowers, Zenon
    <3> QED BY <1>4, <3>2, Zenon
  <2>3. PICK t \in Nat : t = p[9 - max] /\ t > 0
    BY <1>3
  <2>4. q * t >= q
    BY <1>4, <2>3
  <2> QED BY <2>1, <2>2, <2>3, <2>4
<1>6. fr < p[Top(10)] /\ whole < p[Top(10)]
  <2>1. p[9] \in Nat
    BY <1>3
  <2> QED BY <1>2, <1>4, <1>5, <2>1
<1>7. PICK n \in 1 .. 10, f \in 1 .. 10 :
        /\ n = place(whole, 10) /\ f = place(fr, 10)
        /\ Part(Digits(whole, 10, FALSE), 10, 0, 0 * p[n] + whole, FALSE, n)
        /\ Part(Digits(fr, 10, FALSE), 10, whole, whole * p[f] + fr, FALSE, f)
  <2>1. place(whole, 10) \in 1 .. Top(10) /\ Part(Digits(whole, 10, FALSE), 10, 0, 0 * p[place(whole, 10)] + whole, FALSE, place(whole, 10))
    BY <1>2, <1>6, DigitsPart, Zenon
  <2>2. place(fr, 10) \in 1 .. Top(10) /\ Part(Digits(fr, 10, FALSE), 10, whole, whole * p[place(fr, 10)] + fr, FALSE, place(fr, 10))
    BY <1>2, <1>6, DigitsPart, Zenon
  <2> QED BY <1>2, <2>1, <2>2, Zenon
<1>8. Len(Digits(whole, 10, FALSE)) = n /\ Len(Digits(fr, 10, FALSE)) = f
  BY <1>7, Zenon DEF Part
<1>9. Part(Digits(whole, 10, FALSE), 10, 0, whole, FALSE, n)
  <2>1. 0 * p[n] + whole = whole
    <3>1. PICK t \in Nat : t = p[n]
      BY <1>3
    <3> QED BY <3>1
  <2> QED BY <1>7, <2>1, Zenon
<1>10. \A m \in 1 .. f - 1 : ~(fr < p[m])
  BY <1>2, <1>6, <1>7, PlaceFits, Zenon
<1>11. fr < p[f]
  BY <1>2, <1>6, <1>7, PlaceFits, Zenon
<1>12. CASE max = 0
  <2>1. q = 1 /\ fr = 0
    BY <1>3, <1>4, <1>12
  <2>2. Part(Digits(whole, 10, FALSE) \o <<>>, 10, 0, whole, FALSE \/ FALSE, n + 0)
    BY <1>9, EmptyPart, PartJoined, Zenon
  <2>3. Part(Copies("0", max - f), 10, whole, whole, FALSE, 0)
    <3>1. max - f \in Int /\ Pos(max - f) = 0
      BY <1>12 DEF Pos
    <3>2. IsText(Copies("0", max - f)) /\ Len(Copies("0", max - f)) = 0
      BY <3>1, CopiesText, CopiesLen, Zenon
    <3>3. 0 \in Nat /\ \A i \in 1 .. 0 : FALSE
      OBVIOUS
    <3>4. Reads(Copies("0", max - f), 10, whole, whole)
      BY <3>2, <3>3, NothingRead, Zenon
    <3> QED BY <3>2, <3>3, <3>4, Zenon DEF Part, Negative
  <2>4. ~(max > 0)
    BY <1>12
  <2>5. Part(number, 10, 0, whole, (FALSE \/ FALSE) \/ FALSE, (n + 0) + 0)
    <3>1. number = (Digits(whole, 10, FALSE) \o <<>>) \o Copies("0", max - f)
      BY <1>1, <1>8, <2>4, Zenon DEF NumberOf
    <3>2. Part((Digits(whole, 10, FALSE) \o <<>>) \o Copies("0", max - f), 10, 0, whole, (FALSE \/ FALSE) \/ FALSE, (n + 0) + 0)
      BY <2>2, <2>3, PartJoined, Zenon
    <3> QED BY <3>1, <3>2, Zenon
  <2>6. Part(number, 10, 0, whole, FALSE, (n + 0) + 0) /\ (n + 0) + 0 \in Nat
    BY <2>5, Zenon DEF Part
  <2>7. whole = whole * q + fr
    BY <2>1
  <2> QED BY <1>1, <1>4, <2>1, <2>4, <2>6, <2>7, Zenon DEF NumberShown
<1>13. CASE max > 0
  <2>1. f <= max
    <3> SUFFICES ASSUME max \in 1 .. f - 1 PROVE FALSE
      BY <1>13
    <3> QED BY <1>4, <1>10
  <2>2. PICK e \in 0 .. 9 : e = max - f /\ e \in 0 .. Top(10) /\ e \in Int /\ Pos(e) = e
    BY <1>2, <2>1 DEF Pos
  <2>3. PICK t \in Nat, g \in Nat : t = p[f] /\ t > 0 /\ g = p[e] /\ g > 0 /\ q = t * g
    <3>1. f \in 0 .. max /\ f \in 0 .. 10 /\ e \in 0 .. 10
      BY <2>1
    <3>2. p[max] = p[f] * p[max - f]
      BY <3>1, TenPowers
    <3> QED BY <1>3, <1>4, <2>2, <3>1, <3>2
  <2>4. PICK z \in Nat : z = whole * t + fr
    BY <2>3
  <2>5. Part(<<".">> \o Digits(fr, 10, FALSE), 10, whole, z, FALSE \/ FALSE, 1 + f)
    <3>1. Part(Digits(fr, 10, FALSE), 10, whole, z, FALSE, f)
      BY <1>7, <2>3, <2>4, Zenon
    <3> QED BY <3>1, DotPart, PartJoined, Zenon
  <2>6. Part(Digits(whole, 10, FALSE) \o (<<".">> \o Digits(fr, 10, FALSE)), 10, 0, z, FALSE \/ (FALSE \/ FALSE), n + (1 + f))
    BY <1>9, <2>5, PartJoined, Zenon
  <2>7. Part(Copies("0", e), 10, z, z * g, FALSE, e)
    <3>1. Reads(Copies("0", e), 10, z, z * p[e])
      BY <1>2, <2>2, TrailingZeros, Zenon
    <3>2. IsText(Copies("0", e)) /\ Len(Copies("0", e)) = e /\ \A i \in 1 .. e : Copies("0", e)[i] = "0"
      BY <2>2, CopiesText, CopiesLen, Zenon
    <3>3. "0" # "-" /\ e \in Nat
      OBVIOUS
    <3> QED BY <2>3, <3>1, <3>2, <3>3, Zenon DEF Part, Negative
  <2>8. Part(number, 10, 0, z * g, (FALSE \/ (FALSE \/ FALSE)) \/ FALSE, (n + (1 + f)) + e)
    <3>1. number = (Digits(whole, 10, FALSE) \o (<<".">> \o Digits(fr, 10, FALSE))) \o Copies("0", e)
      BY <1>1, <1>8, <1>13, <2>2, Zenon DEF NumberOf
    <3>2. Part((Digits(whole, 10, FALSE) \o (<<".">> \o Digits(fr, 10, FALSE))) \o Copies("0", e), 10, 0, z * g,
               (FALSE \/ (FALSE \/ FALSE)) \/ FALSE, (n + (1 + f)) + e)
      BY <2>6, <2>7, PartJoined, Zenon
    <3> QED BY <3>1, <3>2, Zenon
  <2>9. PICK y \in Nat, m \in Nat : y = z * g /\ m = (n + (1 + f)) + e
    BY <2>3, <2>4
  <2>10. Part(number, 10, 0, y, FALSE, m)
    BY <2>8, <2>9, Zenon DEF Part
  <2>11. m = n + 1 + max
    BY <2>2, <2>9
  <2>12. y = whole * q + fr * g
    <3>1. (whole * t + fr) * g = whole * (t * g) + fr * g
      BY <2>3
    <3> QED BY <2>3, <2>4, <2>9, <3>1
  <2>13. y = whole * q + fr <=> fr * g = fr
    <3>1. PICK a \in Nat, c \in Nat : a = whole * q /\ c = fr * g
      BY <1>4, <2>3
    <3> QED BY <2>12, <3>1
  <2>14. fr * g = fr <=> fr = 0 \/ e = 0
    <3>1. CASE e = 0
      <4>1. g = 1
        BY <1>3, <2>3, <3>1
      <4> QED BY <3>1, <4>1
    <3>2. CASE e > 0
      <4>1. g >= 10
        <5>1. e \in 1 .. 10 /\ e - 1 \in 0 .. 10
          BY <3>2
        <5>2. p[e] = 10 * p[e - 1] /\ p[e - 1] \in Nat /\ p[e - 1] > 0
          BY <1>2, <1>3, <5>1, PowersNumbers, Zenon
        <5> QED BY <2>3, <5>2
      <4>2. fr > 0 => fr * g >= fr * 10
        BY <2>3, <4>1
      <4> QED BY <3>2, <4>2
    <3> QED BY <3>1, <3>2
  <2>15. PICK h \in Nat : h = p[max - 1] /\ q = 10 * h
    <3>1. max \in 1 .. 10 /\ max - 1 \in 0 .. 10
      BY <1>13
    <3>2. p[max] = 10 * p[max - 1] /\ p[max - 1] \in Nat
      BY <1>2, <1>3, <3>1, PowersNumbers, Zenon
    <3> QED BY <1>4, <3>2
  <2>16. fr # 0 => (e = 0 <=> 10 * fr >= q)
    <3>1. ASSUME fr # 0, e = 0 PROVE 10 * fr >= q
      <4>1. CASE max = 1
        BY <1>3, <2>15, <3>1, <4>1
      <4>2. CASE max > 1
        <5>1. max - 1 \in 1 .. f - 1
          BY <2>2, <3>1, <4>2
        <5>2. ~(fr < h)
          BY <1>10, <2>15, <5>1
        <5> QED BY <2>15, <5>2
      <4> QED BY <1>13, <4>1, <4>2
    <3>2. ASSUME e # 0 PROVE 10 * fr < q
      <4>1. f \in 0 .. max - 1 /\ max - 1 \in 0 .. 9
        BY <2>2, <3>2
      <4>2. p[max - 1] = p[f] * p[max - 1 - f]
        BY <4>1, TenPowers
      <4>3. PICK r \in Nat : r = p[max - 1 - f] /\ r > 0
        BY <1>3, <4>1
      <4>4. t * r >= t
        BY <2>3, <4>3
      <4>5. h >= t /\ fr < t
        BY <1>11, <2>3, <2>15, <4>2, <4>3, <4>4
      <4> QED BY <2>3, <2>15, <4>5
    <3> QED BY <3>1, <3>2
  <2>17. y = whole * q + fr <=> fr = 0 \/ 10 * fr >= q
    BY <2>13, <2>14, <2>16
  <2> QED BY <1>1, <1>4, <1>8, <2>10, <2>11, <2>17, Zenon DEF NumberShown
<1> QED BY <1>12, <1>13

\* What fmtfp prints, and a double reads as.
LEMMA DoubleFields ==
  ASSUME field.conv = "f", IsDouble(field.arg.double), field.spec.min \in Int, field.spec.max \in Int,
         field.text = Text(field.conv, field.arg, field.spec)
  PROVE  DoubleIsRight
<1>1. PICK fvalue, flags : fvalue = field.arg.double /\ flags = field.spec.flags
  OBVIOUS
<1>2. PICK min \in Int, max \in 0 .. 9 : min = field.spec.min /\ max = Decimals(field.spec.max)
  BY DEF Decimals
<1>3. PICK p : PowersOf(10, p) /\ \A k \in 0 .. Top(10) : p[k] = 10 ^ k
  <2>1. 10 \in Bases
    BY DEF Bases
  <2> QED BY <2>1, Powers, Zenon
<1>4. Top(10) = 10 /\ 10 \in Bases /\ (\A i \in 0 .. 10 : p[i] \in Nat /\ p[i] > 0) /\ LONG <= p[10]
  <2>1. Top(10) = 10 /\ 10 \in Bases
    BY DEF Top, Bases
  <2> QED BY <1>3, <2>1, PowersNumbers, Zenon DEF PowersOf
<1>5. PICK q \in Nat : q = p[max] /\ q = 10 ^ max /\ q > 0
  <2>1. max \in 0 .. 10
    OBVIOUS
  <2> QED BY <1>3, <1>4, <2>1, Zenon
<1>6. PICK scale \in Nat : scale = SCALE /\ scale > 0
  <2>1. {LONG, SHORT, SCALE} \subseteq Nat \ {0}
    BY FormatAssumption, Zenon
  <2>2. SCALE \in Nat \ {0}
    BY <2>1
  <2> QED BY <2>2
<1>7. PICK abs \in Nat : abs = (IF fvalue < 0 THEN -fvalue ELSE fvalue) /\ fvalue \in Int
  BY <1>1 DEF IsDouble
<1>8. PICK whole \in Nat, part \in 0 .. scale - 1 : whole = abs \div scale /\ part = abs % scale
  BY <1>6
<1>9. PICK frac \in 0 .. q : frac = Rounded(max, part)
  <2>1. (2 * q * part + scale) \div (2 * scale) \in 0 .. q
    BY <1>5, <1>6, RoundedIs
  <2>2. Rounded(max, part) = (2 * q * part + scale) \div (2 * scale)
    BY <1>5, <1>6, Zenon DEF Rounded
  <2> QED BY <2>1, <2>2, Zenon
<1>10. PICK carry \in 0 .. 1 : carry = IF frac >= q THEN 1 ELSE 0
  OBVIOUS
<1>11. PICK fr \in Nat, sum \in Nat : fr = frac - carry * q /\ fr < q /\ sum = whole + carry
  BY <1>5, <1>10
<1>12. sum < p[10]
  <2>1. LONG \in Nat
    BY LongIs
  <2>2. whole + 1 < LONG \div 2
    BY <1>1, <1>6, <1>7, <1>8, Zenon DEF IsDouble
  <2>3. p[10] \in Nat
    BY <1>4
  <2> QED BY <1>4, <1>11, <2>1, <2>2, <2>3
<1>13. PICK total \in Nat : total = whole * q + frac /\ total = sum * q + fr /\ total % q = fr
  <2>1. sum * q + fr = whole * q + frac
    <3>1. (whole + carry) * q = whole * q + carry * q
      BY <1>5
    <3>2. PICK a \in Nat, c \in Nat : a = whole * q /\ c = carry * q
      BY <1>5
    <3> QED BY <1>11, <3>1, <3>2
  <2>2. (sum * q + fr) % q = fr
    <3>1. PICK a \in Nat : a = sum * q + fr /\ a = q * sum + fr
      BY <1>5
    <3>2. a % q = fr
      BY <1>5, <1>11, <3>1
    <3> QED BY <3>1, <3>2
  <2>3. sum * q + fr \in Nat
    BY <1>5
  <2> QED BY <2>1, <2>2, <2>3
<1> DEFINE sign == Sign(fvalue < 0, flags)
           number == NumberOf(sum, fr, max)
           padlen == Pos(min - Len(Digits(sum, 10, FALSE)) - max - 1 - Len(sign))
<1>14. field.text = IF "0" \in flags /\ "-" \notin flags /\ padlen > 0
                    THEN sign \o Copies("0", padlen - Len(sign)) \o number
                    ELSE Justified(sign \o number, padlen, flags)
  <2>1. field.text = fmtfp(fvalue, flags, min, field.spec.max)
    <3>1. "f" \notin IntConv
      BY DEF IntConv
    <3>2. Text(field.conv, field.arg, field.spec) = fmtfp(field.arg.double, field.spec.flags, field.spec.min, field.spec.max)
      BY <3>1 DEF Text
    <3> QED BY <1>1, <1>2, <3>2, Zenon
  <2> DEFINE behind == Decimals(field.spec.max)
             ufvalue == IF fvalue < 0 THEN -fvalue ELSE fvalue
             rounded == Rounded(behind, ufvalue % SCALE)
             over == IF rounded >= 10 ^ behind THEN 1 ELSE 0
             int == Digits((ufvalue \div SCALE) + over, 10, FALSE)
             fraction == Digits(rounded - over * 10 ^ behind, 10, FALSE)
             room == Pos(min - Len(int) - behind - 1 - Len(sign))
             shown == int \o (IF behind > 0 THEN <<".">> \o fraction ELSE <<>>)
                          \o Copies("0", behind - Len(fraction))
  <2>2. fmtfp(fvalue, flags, min, field.spec.max) =
          IF "0" \in flags /\ "-" \notin flags /\ room > 0
          THEN sign \o Copies("0", room - Len(sign)) \o shown
          ELSE Justified(sign \o shown, room, flags)
    BY Zenon DEF fmtfp
  <2>3. behind = max /\ ufvalue = abs
    BY <1>2, <1>7, Zenon
  <2> HIDE DEF behind, ufvalue, sign
  <2>4. rounded = frac
    BY <1>8, <1>9, <1>6, <2>3, Zenon
  <2>5. (ufvalue \div SCALE) + over = sum /\ rounded - over * 10 ^ behind = fr
    <3>1. over = carry
      BY <1>5, <1>10, <2>3, <2>4, Zenon
    <3> HIDE DEF rounded, over
    <3> QED BY <1>5, <1>6, <1>8, <1>11, <2>3, <2>4, <3>1, Zenon
  <2> HIDE DEF rounded, over
  <2>6. int = Digits(sum, 10, FALSE) /\ fraction = Digits(fr, 10, FALSE)
    BY <2>5, Zenon
  <2> HIDE DEF int, fraction
  <2>7. room = padlen /\ shown = number
    BY <2>3, <2>6, Zenon DEF NumberOf
  <2> HIDE DEF room, shown, padlen, number
  <2> QED BY <2>1, <2>2, <2>7, Zenon
<1>15. PICK y \in Nat, m \in Nat :
          /\ Part(number, 10, 0, y, FALSE, m)
          /\ y = total <=> fr = 0 \/ 10 * fr >= q
          /\ max > 0 => m = Len(Digits(sum, 10, FALSE)) + 1 + max
  <2>1. NumberShown(number, sum, fr, max, q)
    BY <1>3, <1>5, <1>11, <1>12, NumberPart, Zenon
  <2> QED BY <1>13, <2>1, Zenon DEF NumberShown
<1>16. PICK neg : neg \in BOOLEAN /\ (neg <=> fvalue < 0)
  <2>1. CASE fvalue < 0
    BY <2>1, Zenon
  <2>2. CASE ~(fvalue < 0)
    BY <2>2, Zenon
  <2> QED BY <2>1, <2>2, Zenon
<1>17. PICK signs \in 0 .. 1 : /\ Part(sign, 10, 0, 0, neg, signs) /\ (signs = 0 \/ sign # <<>>)
  <2>1. sign = Sign(neg, flags)
    BY <1>16, Zenon DEF Sign
  <2>2. PICK signs \in 0 .. 1 : signs = IF neg \/ flags \cap {"+", " "} # {} THEN 1 ELSE 0
    OBVIOUS
  <2>3. Part(sign, 10, 0, 0, neg, signs)
    <3> HIDE DEF sign
    <3> QED BY <1>16, <2>1, <2>2, SignPart, Zenon
  <2>4. signs = 0 \/ sign # <<>>
    <3> HIDE DEF sign
    <3>1. Len(sign) = signs
      BY <2>3, Zenon DEF Part
    <3> QED BY <3>1, NoCharacter, Zenon
  <2> QED BY <2>3, <2>4
<1>18. Len(sign) = signs
  BY <1>17, Zenon DEF Part
<1>19. PICK d \in Nat : d = Len(Digits(sum, 10, FALSE))
  BY DigitsText, Joined, Zenon
<1>20. PICK pad \in Nat : pad = padlen /\ pad = Pos(min - d - max - 1 - signs)
  <2>1. Pos(min - d - max - 1 - signs) \in Nat
    BY DEF Pos
  <2> QED BY <1>18, <1>19, <2>1, Zenon
<1>21. max > 0 => m = d + 1 + max
  BY <1>15, <1>19, Zenon
<1> HIDE DEF sign, number, padlen
<1>22. \E l \in Nat : /\ Part(field.text, 10, 0, y, neg, l)
                      /\ max > 0 => l >= min \/ ("0" \in flags /\ sign # <<>>)
  <2>1. CASE "0" \in flags /\ "-" \notin flags /\ padlen > 0
    <3>1. field.text = sign \o Copies("0", padlen - Len(sign)) \o number
      BY <1>14, <2>1, Zenon
    <3>2. PICK z \in Int : z = padlen - Len(sign) /\ z = pad - signs
      BY <1>18, <1>20
    <3>3. Part(Copies("0", z), 10, 0, 0, FALSE, Pos(z))
      <4>1. 10 \in Nat
        OBVIOUS
      <4> QED BY <4>1, ZerosPart, Zenon
    <3>4. Part((sign \o Copies("0", z)) \o number, 10, 0, y, (neg \/ FALSE) \/ FALSE, (signs + Pos(z)) + m)
      <4>1. Part(sign \o Copies("0", z), 10, 0, 0, neg \/ FALSE, signs + Pos(z))
        BY <1>17, <3>3, PartJoined, Zenon
      <4> QED BY <1>15, <4>1, PartJoined, Zenon
    <3>5. PICK l \in Nat : l = (signs + Pos(z)) + m
      BY DEF Pos
    <3>6. Part(field.text, 10, 0, y, neg, l)
      BY <3>1, <3>2, <3>4, <3>5, Zenon DEF Part
    <3>7. max > 0 => l >= min \/ sign # <<>>
      <4>1. signs = 0 => (max > 0 => l >= min)
        BY <1>20, <1>21, <3>2, <3>5 DEF Pos
      <4> QED BY <1>17, <4>1, Zenon
    <3> QED BY <2>1, <3>6, <3>7, Zenon
  <2>2. CASE ~("0" \in flags /\ "-" \notin flags /\ padlen > 0)
    <3>1. field.text = Justified(sign \o number, pad, flags)
      BY <1>14, <1>20, <2>2, Zenon
    <3>2. Part(sign \o number, 10, 0, y, neg \/ FALSE, signs + m)
      BY <1>15, <1>17, PartJoined, Zenon
    <3>3. Part(Justified(sign \o number, pad, flags), 10, 0, y, neg \/ FALSE, (signs + m) + Pos(pad))
      <4>1. pad \in Int
        OBVIOUS
      <4> QED BY <3>2, <4>1, JustifiedPart, Zenon
    <3>4. PICK l \in Nat : l = (signs + m) + Pos(pad)
      BY DEF Pos
    <3>5. Part(field.text, 10, 0, y, neg, l)
      BY <3>1, <3>3, <3>4, Zenon DEF Part
    <3>6. max > 0 => l >= min
      BY <1>20, <1>21, <3>4 DEF Pos
    <3> QED BY <3>5, <3>6, Zenon
  <2> QED BY <2>1, <2>2
<1>23. PICK l \in Nat : /\ Part(field.text, 10, 0, y, neg, l)
                        /\ max > 0 => l >= min \/ ("0" \in flags /\ sign # <<>>)
  BY <1>22
<1>24. PICK shown \in Int : shown = ReadsAs(field.text, 10) /\ shown = IF neg THEN -y ELSE y
  <2>1. ReadsAs(field.text, 10) = IF neg THEN -y ELSE y
    BY <1>16, <1>23, PartReadsAs, Zenon
  <2>2. (IF neg THEN -y ELSE y) \in Int
    OBVIOUS
  <2> QED BY <2>1, <2>2, Zenon
<1>25. (shown \in {total, -total}) <=> (fr = 0 \/ 10 * fr >= q)
  <2>1. shown \in {total, -total} <=> y = total
    BY <1>24
  <2> QED BY <1>15, <2>1, Zenon
<1>26. shown # 0 => (shown < 0 <=> fvalue < 0)
  <2>1. CASE neg
    BY <1>16, <1>24, <2>1
  <2>2. CASE ~neg
    BY <1>16, <1>24, <2>2
  <2> QED BY <2>1, <2>2
<1>27. Len(field.text) >= min \/ max = 0 \/ ("0" \in flags /\ Sign(fvalue < 0, flags) # <<>>)
  <2>1. Len(field.text) = l
    BY <1>23, Zenon DEF Part
  <2>2. max = 0 \/ max > 0
    OBVIOUS
  <2> QED BY <1>23, <2>1, <2>2, Zenon DEF sign
<1>28. total = (abs \div SCALE) * 10 ^ max + Rounded(max, abs % SCALE) /\ fr = total % 10 ^ max
  BY <1>5, <1>6, <1>8, <1>9, <1>13, Zenon
<1> QED BY <1>1, <1>2, <1>5, <1>7, <1>24, <1>25, <1>26, <1>27, <1>28, Zenon DEF DoubleIsRight

\* What has been printed last is of an argument meant for it.
FieldInv == \/ field = NoField
            \/ /\ field.conv \in Prints /\ ArgIs(field.conv, field.arg) /\ field.spec \in SpecType
               /\ call.maxlen \in Nat /\ field.text = Text(field.conv, field.arg, field.spec)

LEMMA FieldStays == ASSUME FieldInv, UNCHANGED <<call, field>> PROVE FieldInv'
<1>1. ASSUME NEW c, NEW a, NEW s PROVE Text(c, a, s)' = Text(c, a, s)
  BY Zenon DEF Text
<1>2. Text(field.conv, field.arg, field.spec)' = Text(field.conv, field.arg, field.spec)
  BY Zenon DEF Text
<1> QED BY <1>2, Zenon DEF FieldInv

LEMMA FieldPrinted == ASSUME BInv, FieldInv, ArgumentsMatch, Conv PROVE FieldInv'
<1>1. Reading("CONV") /\ "CONV" \in Going
  BY DEF Conv, Going
<1>2. Stored /\ spec \in SpecType /\ state = "CONV"
  BY <1>1, ReadingIs
<1>3. PICK c \in Calls : call.fmt = c.fmt /\ call.args = c.args
  BY <1>1, ReadingIs
<1>4. UNCHANGED call /\ (ch \notin Prints => UNCHANGED field)
  BY DEF Conv
<1>5. CASE ch \notin Prints
  BY <1>4, <1>5, FieldStays
<1>6. CASE ch \in Prints
  <2>1. field' = [conv |-> ch, arg |-> arg, spec |-> spec, text |-> Text(ch, arg, spec)]
    <3>1. "%" \notin Prints
      BY DEF Prints, IntConv
    <3> QED BY <1>6, <3>1 DEF Conv
  <2>2. field'.conv = ch /\ field'.arg = arg /\ field'.spec = spec /\ field'.text = Text(ch, arg, spec)
    BY <2>1
  <2>3. call.maxlen \in Nat
    <3>1. \A n \in Sizes : n \in Nat
      BY CellIs
    <3> QED BY <1>2, <3>1, Zenon DEF Stored
  <2>4. ArgIs(ch, arg)
    <3>1. ASSUME ch \in IntConv PROVE IsLong(arg.long)
      <4>1. ap \in DOMAIN call.args /\ "long" \in DOMAIN arg
        BY <1>2, <3>1 DEF ArgumentsMatch
      <4> QED BY <1>3, <4>1, CallIs, Zenon DEF arg
    <3>2. ASSUME ch = "f" PROVE IsDouble(arg.double)
      <4>1. ap \in DOMAIN call.args /\ "double" \in DOMAIN arg
        BY <1>2, <3>2 DEF ArgumentsMatch
      <4> QED BY <1>3, <4>1, CallIs, Zenon DEF arg
    <3>3. ASSUME ch = "s" PROVE IsText(StringOf(arg))
      <4>1. ap \in DOMAIN call.args /\ ("text" \in DOMAIN arg \/ "null" \in DOMAIN arg)
        BY <1>2, <3>3 DEF ArgumentsMatch
      <4> QED BY <1>3, <4>1, StringText DEF arg
    <3> QED BY <3>1, <3>2, <3>3, Zenon DEF ArgIs
  <2>5. Text(ch, arg, spec) = (Text(field.conv, field.arg, field.spec))'
    BY <1>4, <2>2, Zenon DEF Text
  <2> QED BY <1>2, <1>4, <1>6, <2>2, <2>3, <2>4, <2>5, Zenon DEF FieldInv
<1> QED BY <1>5, <1>6

LEMMA FieldNext == BInv /\ FieldInv /\ ArgumentsMatch /\ [Next]_vars => FieldInv'
<1> SUFFICES ASSUME BInv, FieldInv, ArgumentsMatch, [Next]_vars PROVE FieldInv'
  OBVIOUS
<1>1. ASSUME NEW size \in Sizes, NEW c \in Calls, snprintf(size, c) PROVE FieldInv'
  BY <1>1, Zenon DEF snprintf, vsnprintf, FieldInv
<1>2. ASSUME NEW c \in Printed, printk(c) PROVE FieldInv'
  BY <1>2, Zenon DEF printk, vsnprintf, FieldInv
<1>3. CASE dopr
  <2>1. Default \/ Flags \/ MinWidth \/ Dot \/ MaxWidth \/ Mod \/ Done => UNCHANGED <<call, field>>
    BY Zenon DEF Default, Flags, MinWidth, Dot, MaxWidth, Mod, Done, Number
  <2> QED BY <1>3, <2>1, FieldStays, FieldPrinted, Zenon DEF dopr
<1>4. CASE UNCHANGED fvars
  <2>1. UNCHANGED <<call, field>>
    BY <1>4 DEF fvars
  <2> QED BY <2>1, FieldStays
<1>5. Poll \/ Write \/ Return \/ Interrupt \/ OtherPuts \/ Transmit \/ UNCHANGED vars => UNCHANGED fvars
  BY Zenon DEF Poll, Write, Return, Interrupt, OtherPuts, Transmit, vars
<1> QED BY <1>1, <1>2, <1>3, <1>4, <1>5 DEF Next, TaskStep

LEMMA FieldInvImplies == FieldInv /\ ArgumentsMatch => FieldsAreRight
<1> SUFFICES ASSUME FieldInv, ArgumentsMatch PROVE FieldsAreRight
  OBVIOUS
<1>1. CASE field = NoField
  <2>1. field.conv = ""
    BY <1>1 DEF NoField
  <2>2. field.conv \notin IntConv /\ field.conv # "s" /\ field.conv # "f"
    BY <2>1 DEF IntConv
  <2> QED BY <2>2, Zenon DEF FieldsAreRight
<1>2. CASE field # NoField
  <2>1. /\ field.conv \in Prints /\ ArgIs(field.conv, field.arg) /\ field.spec \in SpecType
        /\ call.maxlen \in Nat /\ field.text = Text(field.conv, field.arg, field.spec)
    BY <1>2, Zenon DEF FieldInv
  <2>2. field.spec.flags \subseteq Flag /\ field.spec.min \in Int /\ field.spec.max \in Int
    BY <2>1 DEF SpecType
  <2>3. field.conv \in IntConv => IntegerIsRight
    BY <2>1, <2>2, IntegerFields, Zenon DEF ArgIs
  <2>4. field.conv = "s" => StringIsRight
    BY <2>1, <2>2, StringFields, Zenon DEF ArgIs
  <2>5. field.conv = "f" => DoubleIsRight
    BY <2>1, <2>2, DoubleFields, Zenon DEF ArgIs
  <2> QED BY <2>3, <2>4, <2>5, Zenon DEF FieldsAreRight
<1> QED BY <1>1, <1>2

\* Whatever dopr prints of a long, of a string or of a double reads back as the
\* argument, in the width it was given, with the exceptions FieldsAreRight names; if
\* the arguments are what the format says they are.
THEOREM FieldsAreRightTheorem == Spec /\ []ArgumentsMatch => []FieldsAreRight
<1>1. Init => BInv /\ FieldInv
  BY DEF Init, FormatInit, BInv, FieldInv
<1>2. BInv /\ FieldInv /\ ArgumentsMatch /\ [Next]_vars => BInv' /\ FieldInv'
  BY BNext, FieldNext, Zenon
<1> QED BY <1>1, <1>2, FieldInvImplies, PTL DEF Spec
-----------------------------------------------------------------------------
(* memcpy, memset and memmove.                                             *)

LEMMA Sizes4 == W = 4 /\ ASIZE \in Nat /\ ASIZE >= 4 /\ ASIZE % 4 = 0 /\ Addr = 0 .. ASIZE - 1
<1>1. W = 4 /\ ASIZE \in Nat /\ ASIZE # 0 /\ ASIZE % 4 = 0 /\ Addr = 0 .. ASIZE - 1
  BY MemAssumption DEF Addr
<1> QED BY <1>1

LEMMA WrapIs ==
  /\ \A x \in Int : Wrap(x) \in Addr
  /\ \A x \in Addr : Wrap(x) = x
  /\ Wrap(ASIZE) = 0
  /\ \A x \in Addr, y \in Addr : x < y => Wrap(x - y) = x - y + ASIZE
<1>0. ASIZE \in Nat /\ ASIZE > 0 /\ Addr = 0 .. ASIZE - 1
  BY Sizes4
<1>1. \A x \in Int : x = ASIZE * (x \div ASIZE) + (x % ASIZE) /\ x % ASIZE \in 0 .. ASIZE - 1 /\ x \div ASIZE \in Int
  BY <1>0
<1>2. \A x \in Int, q \in Int, t \in 0 .. ASIZE - 1 : x = ASIZE * q + t => x % ASIZE = t
  BY <1>0
<1>3. ASSUME NEW x \in Addr PROVE x % ASIZE = x
  <2>1. x \in Int /\ x \in 0 .. ASIZE - 1 /\ x = ASIZE * 0 + x
    BY <1>0
  <2> QED BY <1>2, <2>1
<1>4. ASIZE % ASIZE = 0
  <2>1. ASIZE = ASIZE * 1 + 0 /\ 0 \in 0 .. ASIZE - 1
    BY <1>0
  <2> QED BY <1>0, <1>2, <2>1
<1>5. ASSUME NEW x \in Addr, NEW y \in Addr, x < y PROVE (x - y) % ASIZE = x - y + ASIZE
  <2>1. x - y \in Int /\ x - y + ASIZE \in 0 .. ASIZE - 1 /\ x - y = ASIZE * (-1) + (x - y + ASIZE)
    BY <1>0, <1>5
  <2> QED BY <1>2, <2>1
<1> QED BY <1>0, <1>1, <1>3, <1>4, <1>5 DEF Wrap

\* A block callers pass lies in memory.
LEMMA BlockIs ==
  ASSUME NEW n \in Counts, NEW a \in Dests \cup Srcs
  PROVE  n \in Nat /\ a \in Nat /\ a < ASIZE /\ a + n <= ASIZE /\ a \in Addr
<1>1. n \in Nat /\ a \in Addr /\ Block(a, n) \subseteq Addr
  BY MemAssumption
<1>2. a \in Nat /\ a < ASIZE
  BY <1>1, Sizes4
<1>3. n > 0 => a + n - 1 \in Addr
  BY <1>1, <1>2 DEF Block
<1> QED BY <1>1, <1>2, <1>3, Sizes4

LEMMA BlocksApart ==
  ASSUME NEW n \in Counts, NEW d \in Dests, NEW s \in Srcs
  PROVE  d + n <= s \/ s + n <= d
<1>1. n \in Nat /\ d \in Nat /\ s \in Nat
  BY BlockIs
<1> SUFFICES ASSUME ~(d + n <= s \/ s + n <= d) PROVE FALSE
  OBVIOUS
<1>2. PICK m \in Nat : m = IF d < s THEN s ELSE d
  BY <1>1
<1>3. m \in d .. d + n - 1 /\ m \in s .. s + n - 1
  BY <1>1, <1>2
<1> QED BY <1>3, MemAssumption DEF Block

\* What a step that stores words leaves.
LEMMA StoreWordsIs ==
  ASSUME NEW a \in Nat, NEW ws, Len(ws) \in Nat, a + 4 * Len(ws) <= ASIZE, StoreWords(a, ws)
  PROVE  /\ mem' = [x \in Addr |-> mem'[x]]
         /\ \A x \in Addr : mem'[x] = IF x \in a .. a + 4 * Len(ws) - 1
                                      THEN ws[((x - a) \div 4) + 1][((x - a) % 4) + 1] ELSE mem[x]
<1>1. mem' = [x \in Addr |-> IF Wrap(x - a) < Len(ws) * 4
                             THEN ws[(Wrap(x - a) \div 4) + 1][(Wrap(x - a) % 4) + 1] ELSE mem[x]]
  BY Sizes4 DEF StoreWords
<1>2. mem' = [x \in Addr |-> mem'[x]]
  BY <1>1
<1>3. ASSUME NEW x \in Addr
      PROVE  mem'[x] = IF x \in a .. a + 4 * Len(ws) - 1
                       THEN ws[((x - a) \div 4) + 1][((x - a) % 4) + 1] ELSE mem[x]
  <2>1. PICK n \in Nat : n = Len(ws)
    OBVIOUS
  <2>2. x \in Nat /\ x < ASIZE
    BY Sizes4
  <2>3. mem'[x] = IF Wrap(x - a) < n * 4
                  THEN ws[(Wrap(x - a) \div 4) + 1][(Wrap(x - a) % 4) + 1] ELSE mem[x]
    BY <1>1, <2>1
  <2>4. CASE x >= a
    <3>1. x - a \in Addr
      BY <2>2, <2>4, Sizes4
    <3>2. Wrap(x - a) = x - a
      BY <3>1, WrapIs
    <3>3. (x - a < n * 4) <=> (x \in a .. a + 4 * n - 1)
      BY <2>2, <2>4
    <3> QED BY <2>1, <2>3, <3>2, <3>3
  <2>5. CASE x < a
    <3>1. CASE n = 0
      <4>1. x - a \in Int
        BY <2>2
      <4>2. Wrap(x - a) \in Nat
        BY <4>1, WrapIs, Sizes4
      <4>3. ~(Wrap(x - a) < n * 4) /\ x \notin a .. a + 4 * n - 1
        BY <2>2, <3>1, <4>2
      <4> QED BY <2>1, <2>3, <4>3
    <3>2. CASE n > 0
      <4>1. a \in Addr
        BY <2>1, <3>2, Sizes4
      <4>2. Wrap(x - a) = x - a + ASIZE
        BY <2>5, <4>1, WrapIs
      <4>3. ~(x - a + ASIZE < n * 4) /\ x \notin a .. a + 4 * n - 1
        BY <2>1, <2>2, <2>5, Sizes4
      <4> QED BY <2>1, <2>3, <4>2, <4>3
    <3> QED BY <2>1, <3>1, <3>2
  <2> QED BY <2>2, <2>4, <2>5
<1> QED BY <1>2, <1>3
-----------------------------------------------------------------------------
\* Memory after the first p bytes from d on have become those from s on.
Copied(d, s, p) == mem = [a \in Addr |-> IF a \in d .. d + p - 1 THEN Mem0[s + (a - d)] ELSE Mem0[a]]

\* Where the source of the words is when p bytes have been copied, and what of
\* them COPY_SHIFT has read ahead: srcWord holds the source's bytes from the next
\* one on, and others before it.
SourceAt(s, n, p) ==
    /\ shift \in 0 .. 3 /\ shift = (s + p) % 4
    /\ src = IF shift = 0 THEN Wrap(s + p) ELSE Wrap(s + p - shift + 4)
    /\ \A i \in shift + 1 .. 4 : shift # 0 /\ s + p - shift + i - 1 < s + n
                                 => srcWord[i] = Mem0[s + p - shift + i - 1]

\* A word that has a byte of the call's blocks.
Mine(a, d, s, n) == a \in Addr /\ a % 4 = 0 /\ Block(a, 4) \cap (Block(d, n) \cup Block(s, n)) # {}

LEMMA IsMine ==
  ASSUME NEW a \in Nat, NEW e \in Nat, NEW d \in Nat, NEW s \in Nat, NEW n \in Nat,
         a % 4 = 0, a < ASIZE, a <= e, e < a + 4, e \in d .. d + n - 1 \/ e \in s .. s + n - 1
  PROVE  Mine(a, d, s, n)
<1>1. e \in Block(a, 4) /\ (e \in Block(d, n) \/ e \in Block(s, n))
  BY DEF Block
<1>2. a \in Addr
  BY Sizes4
<1> QED BY <1>1, <1>2 DEF Mine

\* The source is still there, since it is not where the destination is.
LEMMA SourceStays ==
  ASSUME NEW d \in Dests, NEW s \in Srcs, NEW n \in Counts, NEW p \in 0 .. n, Copied(d, s, p),
         NEW e \in s .. s + n - 1
  PROVE  e \in Addr /\ mem[e] = Mem0[e]
<1>1. n \in Nat /\ d \in Nat /\ s \in Nat /\ s + n <= ASIZE
  BY BlockIs
<1>2. e \in Addr
  BY <1>1, Sizes4
<1>3. e \notin d .. d + p - 1
  BY <1>1, BlocksApart
<1> QED BY <1>2, <1>3 DEF Copied

\* CP and CP_SH: n words, whatever shift is.
LEMMA CopyWordsIs ==
  ASSUME NEW d \in Dests, NEW s \in Srcs, NEW len \in Counts, NEW p \in Nat, NEW n \in 1 .. 8,
         p + 4 * n <= len, (d + p) % 4 = 0, Copied(d, s, p), dst = Wrap(d + p), SourceAt(s, len, p),
         srcWord \in [1 .. 4 -> Byte], mem \in [Addr -> Byte], shift' = shift, CopyWords(n)
  PROVE  /\ Copied(d, s, p + 4 * n)' /\ dst' = Wrap(d + (p + 4 * n)) /\ SourceAt(s, len, p + 4 * n)'
         /\ srcWord' \in [1 .. 4 -> Byte]
         /\ \A a \in words' : Mine(a, d, s, len)
<1>1. /\ len \in Nat /\ d \in Nat /\ s \in Nat /\ d + len <= ASIZE /\ s + len <= ASIZE
      /\ d + p < ASIZE /\ s + p < ASIZE /\ n \in Nat /\ p \in 0 .. len
  <2>1. len \in Nat /\ d \in Nat /\ s \in Nat /\ d + len <= ASIZE /\ s + len <= ASIZE /\ ASIZE \in Nat
    BY BlockIs, Sizes4
  <2>2. \A a, x, y, z, m \in Nat : m \in 1 .. 8 /\ x + 4 * m <= y /\ a + y <= z => a + x < z /\ x \in 0 .. y
    OBVIOUS
  <2> QED BY <2>1, <2>2
<1>2. dst = d + p
  <2>1. d + p \in Addr
    BY <1>1, Sizes4
  <2> QED BY <2>1, WrapIs
<1>3. \A e \in s .. s + len - 1 : e \in Addr /\ mem[e] = Mem0[e]
  BY <1>1, SourceStays
<1>4. PICK b \in Nat : b = s + p - shift /\ b % 4 = 0
  <2>1. shift \in 0 .. 3 /\ shift = (s + p) % 4
    BY DEF SourceAt
  <2>2. \A x \in Nat, t \in 0 .. 3 : t = x % 4 => x - t \in Nat /\ (x - t) % 4 = 0
    OBVIOUS
  <2>3. s + p \in Nat
    BY <1>1
  <2>4. PICK x \in Nat, u \in 0 .. 3 : x = s + p /\ u = shift /\ u = x % 4
    BY <2>1, <2>3
  <2>5. x - u \in Nat /\ (x - u) % 4 = 0
    BY <2>2, <2>4
  <2>6. s + p - shift = x - u
    BY <1>1, <2>4
  <2> QED BY <2>5, <2>6, Zenon
<1>5. PICK t \in 0 .. 3 : t = shift
  BY DEF SourceAt
<1>6. PICK c \in Nat : c = (IF t = 0 THEN b ELSE b + 4) /\ c = src /\ c % 4 = 0
  <2>1. CASE t = 0
    <3>1. b = s + p /\ b \in Addr
      BY <1>1, <1>4, <1>5, <2>1, Sizes4
    <3>2. src = Wrap(s + p)
      BY <1>5, <2>1 DEF SourceAt
    <3>3. src = b
      BY <3>1, <3>2, WrapIs
    <3> QED BY <1>4, <2>1, <3>3
  <2>2. CASE t # 0
    <3>1. b + 4 < ASIZE
      <4>1. PICK m \in Nat : m = s + p /\ m + 4 <= ASIZE /\ b = m - t /\ t > 0
        BY <1>1, <1>4, <1>5, <2>2, Sizes4
      <4> QED BY <4>1, Sizes4
    <3>2. b + 4 = s + p - shift + 4 /\ b + 4 \in Addr
      BY <1>1, <1>4, <1>5, <3>1, Sizes4
    <3>3. src = Wrap(s + p - shift + 4)
      BY <1>5, <2>2 DEF SourceAt
    <3>4. src = b + 4
      BY <3>2, <3>3, WrapIs
    <3>5. (b + 4) % 4 = 0
      BY <1>4
    <3> QED BY <1>4, <2>2, <3>4, <3>5
  <2> QED BY <2>1, <2>2
<1>7. ASSUME NEW k \in 1 .. n
      PROVE  /\ c + (k - 1) * 4 \in s + p .. s + len - 1 /\ (c + (k - 1) * 4) % 4 = 0
             /\ c + (k - 1) * 4 + 4 <= ASIZE
  <2>1. PICK e \in Nat : e = c + (k - 1) * 4 /\ e % 4 = 0
    BY <1>1, <1>6
  <2>2. e \in s + p .. s + len - 1
    BY <1>1, <1>4, <1>5, <1>6, <2>1
  <2>3. e < ASIZE
    BY <1>1, <2>2, Sizes4
  <2>4. e + 4 <= ASIZE
    BY <2>1, <2>3, Sizes4
  <2> QED BY <2>1, <2>2, <2>4
<1>8. ASSUME NEW k \in 1 .. n, NEW i \in 1 .. 4
      PROVE  /\ WordAt(c + (k - 1) * 4)[i] \in Byte
             /\ c + (k - 1) * 4 + i - 1 < s + len
                => WordAt(c + (k - 1) * 4)[i] = Mem0[c + (k - 1) * 4 + i - 1]
  <2>1. PICK e \in Nat : e = c + (k - 1) * 4
    BY <1>1, <1>6
  <2>2. e + i - 1 \in Addr /\ e >= s
    BY <1>1, <1>7, <2>1, Sizes4
  <2>3. Wrap(e + i - 1) = e + i - 1
    BY <2>2, WrapIs
  <2>4. WordAt(e)[i] = mem[e + i - 1]
    BY <2>3, Sizes4 DEF WordAt
  <2>5. e + i - 1 < s + len => mem[e + i - 1] = Mem0[e + i - 1]
    BY <1>1, <1>3, <2>2
  <2> QED BY <2>1, <2>2, <2>4, <2>5
<1> DEFINE read == [i \in 0 .. n |-> IF i = 0 THEN srcWord ELSE WordAt(src + (i - 1) * W)]
           stored == [i \in 1 .. n |-> IF shift = 0 THEN read[i]
                                       ELSE OrWords(SHL(read[i - 1], shift), SHR(read[i], W - shift))]
<1>9. /\ StoreWords(dst, stored) /\ words' = WordsFrom(dst, n) \cup WordsFrom(src, n)
      /\ srcWord' = IF shift = 0 THEN srcWord ELSE read[n]
      /\ dst' = Wrap(dst + n * W) /\ src' = Wrap(src + n * W)
  BY Zenon DEF CopyWords
<1>10. read[0] = srcWord /\ \A k \in 1 .. n : read[k] = WordAt(c + (k - 1) * 4)
  BY <1>1, <1>6, Sizes4
<1>11. \A k \in 1 .. n : stored[k] = IF t = 0 THEN read[k] ELSE OrWords(Down(read[k - 1], t), Up(read[k], 4 - t))
  BY <1>5, Sizes4 DEF SHL, SHR
<1>12. Len(stored) = n
  <2>1. PICK R : R = {stored[i] : i \in 1 .. n}
    OBVIOUS
  <2>2. DOMAIN stored = 1 .. n /\ stored = [i \in 1 .. n |-> stored[i]]
    OBVIOUS
  <2> HIDE DEF stored, read
  <2>3. \A i \in 1 .. n : stored[i] \in R
    BY <2>1, Zenon
  <2>4. stored \in [1 .. n -> R]
    BY <2>2, <2>3, Zenon
  <2> QED BY <1>1, <2>3, <2>4
<1> HIDE DEF stored, read
<1>13. ASSUME NEW k \in 1 .. n, NEW i \in 1 .. 4
       PROVE  stored[k][i] = Mem0[s + p + 4 * (k - 1) + i - 1]
  <2>1. CASE t = 0
    <3>1. stored[k][i] = WordAt(c + (k - 1) * 4)[i]
      BY <1>10, <1>11, <2>1
    <3>2. c + (k - 1) * 4 + i - 1 = s + p + 4 * (k - 1) + i - 1 /\ c + (k - 1) * 4 + i - 1 < s + len
      BY <1>1, <1>4, <1>5, <1>6, <2>1
    <3> QED BY <1>8, <3>1, <3>2
  <2>2. CASE t # 0 /\ i + t <= 4
    <3>1. stored[k][i] = read[k - 1][i + t]
      <4>1. Down(read[k - 1], t)[i] = read[k - 1][i + t]
        BY <2>2, Sizes4 DEF Down
      <4>2. Up(read[k], 4 - t)[i] = 0
        BY <2>2, Sizes4 DEF Up
      <4>3. stored[k][i] = OrByte(Down(read[k - 1], t)[i], Up(read[k], 4 - t)[i])
        BY <1>11, <2>2, Sizes4 DEF OrWords
      <4> QED BY <4>1, <4>2, <4>3 DEF OrByte
    <3>2. i + t \in 1 .. 4 /\ i + t \in t + 1 .. 4
      BY <2>2
    <3>3. CASE k = 1
      <4>1. read[k - 1][i + t] = srcWord[i + t]
        BY <1>10, <3>3
      <4>2. s + p - shift + (i + t) - 1 = s + p + 4 * (k - 1) + i - 1 /\ s + p - shift + (i + t) - 1 < s + len
        BY <1>1, <1>5, <3>3
      <4>3. srcWord[i + t] = Mem0[s + p - shift + (i + t) - 1]
        BY <1>5, <2>2, <3>2, <4>2 DEF SourceAt
      <4> QED BY <3>1, <4>1, <4>2, <4>3
    <3>4. CASE k # 1
      <4>1. k - 1 \in 1 .. n
        BY <1>1, <3>4
      <4>2. read[k - 1] = WordAt(c + ((k - 1) - 1) * 4)
        BY <1>10, <4>1
      <4>3. /\ c + ((k - 1) - 1) * 4 + (i + t) - 1 = s + p + 4 * (k - 1) + i - 1
            /\ c + ((k - 1) - 1) * 4 + (i + t) - 1 < s + len
        BY <1>1, <1>4, <1>5, <1>6, <2>2, <4>1
      <4> QED BY <1>8, <3>1, <3>2, <4>1, <4>2, <4>3
    <3> QED BY <3>3, <3>4
  <2>3. CASE t # 0 /\ i + t > 4
    <3>1. stored[k][i] = read[k][i + t - 4]
      <4>1. Down(read[k - 1], t)[i] = 0
        BY <2>3, Sizes4 DEF Down
      <4>2. Up(read[k], 4 - t)[i] = read[k][i - (4 - t)] /\ i - (4 - t) = i + t - 4
        BY <2>3, Sizes4 DEF Up
      <4>3. stored[k][i] = OrByte(Down(read[k - 1], t)[i], Up(read[k], 4 - t)[i])
        BY <1>11, <2>3, Sizes4 DEF OrWords
      <4> QED BY <4>1, <4>2, <4>3 DEF OrByte
    <3>2. i + t - 4 \in 1 .. 4
      BY <2>3
    <3>3. /\ c + (k - 1) * 4 + (i + t - 4) - 1 = s + p + 4 * (k - 1) + i - 1
          /\ c + (k - 1) * 4 + (i + t - 4) - 1 < s + len
      BY <1>1, <1>4, <1>5, <1>6, <2>3
    <3> QED BY <1>8, <1>10, <3>1, <3>2, <3>3
  <2> QED BY <2>1, <2>2, <2>3
<1>14. Copied(d, s, p + 4 * n)'
  <2>1. d + p + 4 * n <= ASIZE /\ d + p \in Nat
    <3>1. PICK m \in Nat : m = p + 4 * n /\ m <= len
      BY <1>1
    <3> QED BY <1>1, <3>1, Sizes4
  <2>2. /\ mem' = [x \in Addr |-> mem'[x]]
        /\ \A x \in Addr : mem'[x] = IF x \in d + p .. d + p + 4 * n - 1
              THEN stored[((x - (d + p)) \div 4) + 1][((x - (d + p)) % 4) + 1] ELSE mem[x]
    <3>1. dst \in Nat /\ Len(stored) \in Nat /\ dst + 4 * Len(stored) <= ASIZE
      BY <1>1, <1>2, <1>12, <2>1
    <3>2. /\ mem' = [x \in Addr |-> mem'[x]]
          /\ \A x \in Addr : mem'[x] = IF x \in dst .. dst + 4 * Len(stored) - 1
                THEN stored[((x - dst) \div 4) + 1][((x - dst) % 4) + 1] ELSE mem[x]
      BY <1>9, <3>1, StoreWordsIs
    <3> QED BY <1>2, <1>12, <3>2
  <2>3. ASSUME NEW x \in Addr
        PROVE  mem'[x] = IF x \in d .. d + (p + 4 * n) - 1 THEN Mem0[s + (x - d)] ELSE Mem0[x]
    <3>1. x \in Nat /\ mem[x] = IF x \in d .. d + p - 1 THEN Mem0[s + (x - d)] ELSE Mem0[x]
      BY Sizes4 DEF Copied
    <3>2. CASE x \in d + p .. d + p + 4 * n - 1
      <4>1. PICK q \in Nat : q = x - (d + p) /\ q < 4 * n
        BY <1>1, <3>1, <3>2
      <4>2. (q \div 4) + 1 \in 1 .. n /\ (q % 4) + 1 \in 1 .. 4 /\ 4 * (q \div 4) + (q % 4) = q
        BY <1>1, <4>1
      <4>3. PICK k \in 1 .. n, i \in 1 .. 4 : k = (q \div 4) + 1 /\ i = (q % 4) + 1 /\ 4 * (k - 1) + i - 1 = q
        BY <4>2
      <4>4. mem'[x] = stored[k][i]
        BY <2>2, <3>2, <4>1, <4>3
      <4>5. s + p + 4 * (k - 1) + i - 1 = s + (x - d) /\ x \in d .. d + (p + 4 * n) - 1
        BY <1>1, <3>1, <3>2, <4>1, <4>3
      <4> QED BY <1>13, <4>4, <4>5
    <3>3. CASE x \notin d + p .. d + p + 4 * n - 1
      <4>1. mem'[x] = mem[x]
        BY <2>2, <3>3
      <4>2. x \in d .. d + (p + 4 * n) - 1 <=> x \in d .. d + p - 1
        BY <1>1, <3>1, <3>3
      <4> QED BY <3>1, <4>1, <4>2
    <3> QED BY <3>2, <3>3
  <2> QED BY <2>2, <2>3 DEF Copied
<1>15. dst' = Wrap(d + (p + 4 * n))
  <2>1. dst + n * 4 = d + (p + 4 * n)
    BY <1>1, <1>2
  <2> QED BY <1>9, <2>1, Sizes4
<1>16. SourceAt(s, len, p + 4 * n)'
  <2>1. t = (s + (p + 4 * n)) % 4
    <3>1. (s + p) % 4 = t
      BY <1>5 DEF SourceAt
    <3>2. \A x \in Nat, k \in Nat : (x + 4 * k) % 4 = x % 4
      OBVIOUS
    <3>3. s + (p + 4 * n) = (s + p) + 4 * n /\ s + p \in Nat
      BY <1>1
    <3> QED BY <1>1, <3>1, <3>2, <3>3
  <2>2. src' = IF t = 0 THEN Wrap(s + (p + 4 * n)) ELSE Wrap(s + (p + 4 * n) - t + 4)
    <3>1. src + n * 4 = IF t = 0 THEN s + (p + 4 * n) ELSE s + (p + 4 * n) - t + 4
      BY <1>1, <1>4, <1>5, <1>6
    <3> QED BY <1>9, <3>1, Sizes4
  <2>3. ASSUME NEW i \in t + 1 .. 4, t # 0, s + (p + 4 * n) - t + i - 1 < s + len
        PROVE  srcWord'[i] = Mem0[s + (p + 4 * n) - t + i - 1]
    <3>1. n \in 1 .. n /\ i \in 1 .. 4
      BY <1>1
    <3>2. srcWord' = WordAt(c + (n - 1) * 4)
      BY <1>5, <1>9, <1>10, <2>3, <3>1
    <3>3. c + (n - 1) * 4 + i - 1 = s + (p + 4 * n) - t + i - 1
      BY <1>1, <1>4, <1>5, <1>6, <2>3
    <3> QED BY <1>8, <2>3, <3>1, <3>2, <3>3
  <2>4. shift' = t
    BY <1>5
  <2> QED BY <2>1, <2>2, <2>3, <2>4 DEF SourceAt
<1>17. srcWord' \in [1 .. 4 -> Byte]
  <2>1. n \in 1 .. n
    BY <1>1
  <2>2. WordAt(c + (n - 1) * 4) = [i \in 1 .. 4 |-> WordAt(c + (n - 1) * 4)[i]]
    BY Sizes4 DEF WordAt
  <2>3. WordAt(c + (n - 1) * 4) \in [1 .. 4 -> Byte]
    BY <1>8, <2>1, <2>2
  <2> QED BY <1>9, <1>10, <2>1, <2>3
<1>18. ASSUME NEW a \in words' PROVE Mine(a, d, s, len)
  <2>1. CASE a \in WordsFrom(dst, n)
    <3>1. PICK i \in 0 .. n - 1 : a = Wrap(dst + i * 4)
      BY <2>1, Sizes4 DEF WordsFrom
    <3>2. PICK e \in Nat : e = d + p + i * 4 /\ e % 4 = 0 /\ e \in d .. d + len - 1 /\ e < ASIZE
      <4>1. \A x, y \in Nat : x % 4 = 0 => (x + y * 4) % 4 = 0
        OBVIOUS
      <4>2. d + p \in Nat /\ i \in Nat /\ i < n
        BY <1>1
      <4>3. (d + p + i * 4) % 4 = 0
        BY <4>1, <4>2
      <4>4. d + p + i * 4 < d + len /\ d + p + i * 4 < ASIZE
        BY <1>1, <4>2, Sizes4
      <4> QED BY <1>1, <4>2, <4>3, <4>4
    <3>3. a = e
      <4>1. e \in Addr /\ dst + i * 4 = e
        BY <1>2, <3>2, Sizes4
      <4> QED BY <3>1, <4>1, WrapIs
    <3>4. a \in Nat /\ a % 4 = 0 /\ a < ASIZE /\ a <= a /\ a < a + 4 /\ a \in d .. d + len - 1
      BY <3>2, <3>3
    <3> QED BY <1>1, <3>4, IsMine
  <2>2. CASE a \in WordsFrom(src, n)
    <3>1. PICK i \in 0 .. n - 1 : a = Wrap(src + i * 4)
      BY <2>2, Sizes4 DEF WordsFrom
    <3>2. i + 1 \in 1 .. n /\ (i + 1) - 1 = i
      BY <1>1
    <3>3. PICK e \in Nat : e = c + i * 4 /\ e % 4 = 0 /\ e \in s .. s + len - 1 /\ e < ASIZE
      <4>1. c + i * 4 \in s + p .. s + len - 1 /\ (c + i * 4) % 4 = 0 /\ c + i * 4 + 4 <= ASIZE
        BY <1>7, <3>2
      <4>2. c + i * 4 \in Nat /\ c + i * 4 \in s .. s + len - 1
        BY <1>1, <4>1
      <4> QED BY <1>1, <4>1, <4>2, Sizes4
    <3>4. a = e
      <4>1. e \in Addr /\ src + i * 4 = e
        BY <1>6, <3>3, Sizes4
      <4> QED BY <3>1, <4>1, WrapIs
    <3>5. a \in Nat /\ a % 4 = 0 /\ a < ASIZE /\ a <= a /\ a < a + 4 /\ a \in s .. s + len - 1
      BY <3>3, <3>4
    <3> QED BY <1>1, <3>5, IsMine
  <2> QED BY <1>9, <1>18, <2>1, <2>2
<1> QED BY <1>14, <1>15, <1>16, <1>17, <1>18
-----------------------------------------------------------------------------
\* Memory after v has been put into the first p bytes from d on.
Filled(d, v, p) == mem = [a \in Addr |-> IF a \in d .. d + p - 1 THEN v ELSE Mem0[a]]
\* Memory while memmove goes down: all but the first m of the n bytes are where they belong.
MovedDown(d, s, n, m) == mem = [a \in Addr |-> IF a \in d + m .. d + n - 1 THEN Mem0[s + (a - d)] ELSE Mem0[a]]

Types == /\ mem \in [Addr -> Byte] /\ dst \in Addr /\ src \in Addr
         /\ shift \in 0 .. 3 /\ srcWord \in [1 .. 4 -> Byte]

\* In every call p is the number of bytes it has done, of n.
CopyAt(d, s, n, p) ==
    \/ pc = "align" /\ n >= 8 /\ (d % 4) + p <= 4 /\ count = n - p /\ src = Wrap(s + p)
    \/ pc = "odd" /\ (d + p) % 4 = 0 /\ n - p = 4 * left + (count % 4) /\ SourceAt(s, n, p)
    \/ pc = "unrolled" /\ (d + p) % 4 = 0 /\ n - p = 32 * left + (count % 4) /\ SourceAt(s, n, p)
    \/ pc = "remaining" /\ left = n - p /\ left <= 7 /\ src = Wrap(s + p)
    \/ pc = "done" /\ p = n
Copy(d, s, n, p) ==
    /\ asked = [op |-> "memcpy", dest |-> d, src |-> s, count |-> n]
    /\ Copied(d, s, p) /\ dst = Wrap(d + p)
    /\ count \in 0 .. n /\ left \in 0 .. n
    /\ \A a \in words : Mine(a, d, s, n)
    /\ CopyAt(d, s, n, p)

FillAt(d, n, p) ==
    \/ pc = "fillAlign" /\ left \in 1 .. 3 /\ (d + p + left) % 4 = 0 /\ n - p = count + left /\ count >= 4
    \/ pc = "fillWords" /\ (d + p) % 4 = 0 /\ n - p = 4 * left + (count % 4) /\ left >= 1
    \/ pc = "fillBytes" /\ left = n - p
    \/ pc = "done" /\ p = n
Fill(d, c0, v, n, p) ==
    /\ asked = [op |-> "memset", dest |-> d, c0 |-> c0, count |-> n]
    /\ v = ByteOf(c0) /\ Filled(d, v, p) /\ dst = Wrap(d + p)
    /\ count \in 0 .. n /\ left \in 0 .. n
    /\ \A a \in words : Mine(a, d, d, n)
    /\ FillAt(d, n, p)

MoveAt(d, s, n, p) ==
    \/ /\ pc = "moveUp" /\ d <= s /\ left = n - p /\ Copied(d, s, p)
       /\ dst = Wrap(d + p) /\ src = Wrap(s + p)
    \/ /\ pc = "moveDown" /\ s < d /\ left = n - p /\ MovedDown(d, s, n, left)
       /\ dst = Wrap(d + left) /\ src = Wrap(s + left)
    \/ pc = "done" /\ Copied(d, s, n) /\ left = 0
Moving(d, s, n, p) ==
    /\ asked = [op |-> "memmove", dest |-> d, src |-> s, count |-> n]
    /\ count = 0 /\ left \in 0 .. n /\ words = {}
    /\ MoveAt(d, s, n, p)

Idle == pc = "idle" /\ asked = NotAsked /\ mem = Mem0 /\ count = 0 /\ left = 0 /\ words = {}

MemInv ==
    /\ Types
    /\ \/ Idle
       \/ \E d \in Dests, s \in Srcs, n \in Counts : \E p \in 0 .. n : Copy(d, s, n, p)
       \/ \E d \in Dests, c0 \in Values, v \in Byte, n \in Counts : \E p \in 0 .. n : Fill(d, c0, v, n, p)
       \/ \E d \in Dests, s \in Dests, n \in Counts : \E p \in 0 .. n : Moving(d, s, n, p)
-----------------------------------------------------------------------------
LEMMA CountIs ==
  ASSUME NEW n \in Counts, NEW d \in Dests, NEW m \in 0 .. n
  PROVE  m \in Nat /\ (m > 0 => Dec(m) = m - 1 /\ m - 1 \in 0 .. n)
<1>1. n \in Nat /\ d \in Nat /\ d + n <= ASIZE
  BY BlockIs
<1>2. m > 0 => m - 1 \in Addr
  BY <1>1, Sizes4
<1> QED BY <1>1, <1>2, WrapIs DEF Dec

\* An address moves on by k, in a block of n bytes of which p have been passed.
LEMMA Advance ==
  ASSUME NEW n \in Counts, NEW a \in Dests \cup Srcs, NEW p \in Nat, NEW k \in 1 .. 8, p + k <= n
  PROVE  /\ Wrap(a + p) = a + p /\ a + p \in Addr
         /\ Wrap(Wrap(a + p) + k) = Wrap(a + (p + k)) /\ Wrap(a + (p + k)) \in Addr
<1>1. n \in Nat /\ a \in Nat /\ a + n <= ASIZE
  BY BlockIs
<1>2. a + p \in Addr
  BY <1>1, Sizes4
<1>3. Wrap(a + p) = a + p
  BY <1>2, WrapIs
<1>4. a + p + k = a + (p + k) /\ a + (p + k) \in Int
  BY <1>1
<1> QED BY <1>2, <1>3, <1>4, WrapIs

LEMMA Within ==
  ASSUME NEW n \in Counts, NEW a \in Dests \cup Srcs, NEW p \in Nat, p < n
  PROVE  Wrap(a + p) = a + p /\ a + p \in Addr
<1>1. n \in Nat /\ a \in Nat /\ 1 \in 1 .. 8 /\ p + 1 <= n
  BY BlockIs
<1> QED BY <1>1, Advance

LEMMA CopyByteIs ==
  ASSUME NEW n \in Counts, NEW d \in Dests, NEW s \in Dests \cup Srcs, NEW p \in 0 .. n, p < n,
         Copied(d, s, p), dst = Wrap(d + p), src = Wrap(s + p), mem[s + p] = Mem0[s + p], Types,
         shift' = shift, srcWord' = srcWord, CopyByte
  PROVE  /\ Copied(d, s, p + 1)' /\ dst' = Wrap(d + (p + 1)) /\ src' = Wrap(s + (p + 1))
         /\ words' = {} /\ Types' /\ p + 1 \in 0 .. n
<1>1. n \in Nat /\ d \in Nat /\ s \in Nat /\ p \in Nat /\ p + 1 <= n /\ p + 1 \in 0 .. n
  BY BlockIs
<1>2. dst = d + p /\ src = s + p /\ d + p \in Addr /\ s + p \in Addr
  BY <1>1, Within
<1>3. dst' = Wrap(d + (p + 1)) /\ src' = Wrap(s + (p + 1)) /\ dst' \in Addr /\ src' \in Addr
  BY <1>1, Advance DEF CopyByte
<1>4. mem' = [mem EXCEPT ![d + p] = Mem0[s + p]] /\ words' = {}
  BY <1>2 DEF CopyByte, StoreByte
<1>5. mem \in [Addr -> Byte] /\ Mem0[s + p] \in Byte
  BY <1>2, MemAssumption DEF Types
<1>6. mem' \in [Addr -> Byte]
  BY <1>4, <1>5
<1>7. ASSUME NEW a \in Addr
      PROVE  mem'[a] = IF a \in d .. d + (p + 1) - 1 THEN Mem0[s + (a - d)] ELSE Mem0[a]
  <2>1. a \in Nat /\ mem[a] = IF a \in d .. d + p - 1 THEN Mem0[s + (a - d)] ELSE Mem0[a]
    BY Sizes4 DEF Copied
  <2>2. CASE a = d + p
    <3>1. s + (a - d) = s + p /\ a \in d .. d + (p + 1) - 1
      BY <1>1, <2>2
    <3> QED BY <1>2, <1>4, <1>5, <2>2, <3>1
  <2>3. CASE a # d + p
    <3>1. a \in d .. d + (p + 1) - 1 <=> a \in d .. d + p - 1
      BY <1>1, <2>1, <2>3
    <3>2. mem'[a] = mem[a]
      BY <1>4, <1>5, <2>3
    <3> QED BY <2>1, <3>1, <3>2
  <2> QED BY <2>2, <2>3
<1>8. Copied(d, s, p + 1)'
  BY <1>6, <1>7 DEF Copied
<1> QED BY <1>1, <1>3, <1>4, <1>6, <1>8 DEF Types

\* A byte that memset stores, or a word of them.
LEMMA FillIs ==
  ASSUME NEW n \in Counts, NEW d \in Dests, NEW v \in Byte, NEW p \in 0 .. n, NEW k \in {1, 4}, p + k <= n,
         Filled(d, v, p), dst = Wrap(d + p), Types, dst' = Wrap(dst + k),
         src' = src, shift' = shift, srcWord' = srcWord, mem' = [a \in Addr |-> mem'[a]],
         \A a \in Addr : mem'[a] = IF a \in d + p .. d + p + k - 1 THEN v ELSE mem[a]
  PROVE  Filled(d, v, p + k)' /\ dst' = Wrap(d + (p + k)) /\ Types' /\ p + k \in 0 .. n
<1>1. n \in Nat /\ d \in Nat /\ p \in Nat /\ k \in 1 .. 8
  BY BlockIs
<1>2. dst' = Wrap(d + (p + k)) /\ dst' \in Addr
  BY <1>1, Advance
<1>3. mem' \in [Addr -> Byte]
  BY DEF Types
<1>4. ASSUME NEW a \in Addr
      PROVE  mem'[a] = IF a \in d .. d + (p + k) - 1 THEN v ELSE Mem0[a]
  <2>1. a \in Nat /\ mem[a] = IF a \in d .. d + p - 1 THEN v ELSE Mem0[a]
    BY Sizes4 DEF Filled
  <2>2. a \in d .. d + (p + k) - 1 <=> a \in d .. d + p - 1 \/ a \in d + p .. d + p + k - 1
    BY <1>1, <2>1
  <2> QED BY <2>1, <2>2
<1>5. Filled(d, v, p + k)'
  BY <1>3, <1>4 DEF Filled
<1> QED BY <1>1, <1>2, <1>3, <1>5 DEF Types
-----------------------------------------------------------------------------
(* A call of memcpy, step by step.                                         *)

LEMMA CopiedNone == ASSUME NEW d \in Nat, NEW s PROVE Copied(d, s, 0) <=> mem = Mem0
<1>1. Mem0 \in [Addr -> Byte] /\ d .. d + 0 - 1 = {}
  BY MemAssumption
<1>2. [a \in Addr |-> IF a \in d .. d + 0 - 1 THEN Mem0[s + (a - d)] ELSE Mem0[a]] = Mem0
  BY <1>1
<1> QED BY <1>2 DEF Copied

LEMMA MemcpyStep ==
  ASSUME NEW d \in Dests, NEW s \in Srcs, NEW n \in Counts, Types, Idle, memcpy(d, s, n)
  PROVE  Types' /\ Copy(d, s, n, 0)'
<1>1. n \in Nat /\ d \in Nat /\ s \in Nat /\ d \in Addr /\ s \in Addr /\ 0 \in 0 .. n
  BY BlockIs
<1>2. Copied(d, s, 0)'
  <2>1. Copied(d, s, 0) /\ mem' = mem
    BY <1>1, CopiedNone DEF Idle, memcpy
  <2> QED BY <2>1 DEF Copied
<1>3. Types'
  BY <1>1 DEF Types, memcpy
<1>4. dst' = Wrap(d + 0) /\ src' = Wrap(s + 0)
  <2>1. d + 0 = d /\ s + 0 = s
    BY <1>1
  <2> QED BY <1>1, <2>1, WrapIs DEF memcpy
<1>5. count' \in 0 .. n /\ left' \in 0 .. n /\ words' = {}
  BY <1>1 DEF Idle, memcpy
<1>6. CopyAt(d, s, n, 0)'
  <2>1. CASE n < 8
    <3>1. pc' = "remaining" /\ left' = n - 0 /\ left' <= 7 /\ src' = Wrap(s + 0)
      BY <1>1, <1>4, <2>1 DEF memcpy
    <3> QED BY <3>1 DEF CopyAt
  <2>2. CASE ~(n < 8)
    <3>1. pc' = "align" /\ n >= 8 /\ (d % 4) + 0 <= 4 /\ count' = n - 0 /\ src' = Wrap(s + 0)
      BY <1>1, <1>4, <2>2 DEF memcpy
    <3> QED BY <3>1 DEF CopyAt
  <2> QED BY <2>1, <2>2
<1> QED BY <1>2, <1>3, <1>4, <1>5, <1>6 DEF Copy, memcpy

LEMMA AlignStep ==
  ASSUME NEW d \in Dests, NEW s \in Srcs, NEW n \in Counts, NEW p \in 0 .. n,
         Types, Copy(d, s, n, p), Align
  PROVE  Types' /\ \E q \in 0 .. n : Copy(d, s, n, q)'
<1>1. n \in Nat /\ d \in Nat /\ s \in Nat /\ p \in Nat
  BY BlockIs
<1>2. pc = "align" /\ n >= 8 /\ (d % 4) + p <= 4 /\ count = n - p /\ src = Wrap(s + p) /\ p < n
  BY <1>1 DEF Copy, CopyAt, Align
<1>3. dst = d + p
  BY <1>1, <1>2, Within DEF Copy
<1>4. (d % 4) + (p + 1) <= 4
  <2>1. (d + p) % 4 # 0
    BY <1>3, Sizes4 DEF Align
  <2> QED BY <1>1, <1>2, <2>1
<1>5. mem[s + p] = Mem0[s + p]
  <2>1. s + p \in s .. s + n - 1
    BY <1>1, <1>2
  <2> QED BY <2>1, SourceStays DEF Copy
<1>6. /\ Copied(d, s, p + 1)' /\ dst' = Wrap(d + (p + 1)) /\ src' = Wrap(s + (p + 1))
      /\ words' = {} /\ Types' /\ p + 1 \in 0 .. n
  BY <1>2, <1>5, CopyByteIs DEF Copy, Align
<1>7. count' = n - (p + 1) /\ count' \in 0 .. n
  <2>1. count \in 0 .. n /\ count > 0
    BY <1>1, <1>2
  <2>2. count' = count - 1
    BY <2>1, CountIs DEF Align
  <2> QED BY <1>1, <1>2, <2>2
<1>8. pc' = "align" /\ left' \in 0 .. n /\ asked' = asked
  BY <1>2 DEF Align, Copy
<1>9. CopyAt(d, s, n, p + 1)'
  BY <1>2, <1>4, <1>6, <1>7, <1>8 DEF CopyAt
<1> QED BY <1>6, <1>7, <1>8, <1>9 DEF Copy

\* The word the source begins in.
LEMMA DispatchStep ==
  ASSUME NEW d \in Dests, NEW s \in Srcs, NEW n \in Counts, NEW p \in 0 .. n,
         Types, Copy(d, s, n, p), Dispatch
  PROVE  Types' /\ Copy(d, s, n, p)'
<1>1. n \in Nat /\ d \in Nat /\ s \in Nat /\ p \in Nat /\ s + n <= ASIZE
  BY BlockIs
<1>2. pc = "align" /\ n >= 8 /\ (d % 4) + p <= 4 /\ count = n - p /\ src = Wrap(s + p) /\ p < n
  BY <1>1 DEF Copy, CopyAt, Dispatch
<1>3. dst = d + p /\ src = s + p /\ s + p \in Addr
  BY <1>1, <1>2, Within DEF Copy
<1>4. (d + p) % 4 = 0
  BY <1>3, Sizes4 DEF Dispatch
<1>5. n - p = 4 * left' + (count' % 4) /\ left' \in 0 .. n /\ count' \in 0 .. n
  <2>1. left' = count \div 4 /\ count' = count /\ count \in Nat /\ count <= n
    BY <1>1, <1>2, Sizes4 DEF Dispatch
  <2>2. \A x \in Nat : x = 4 * (x \div 4) + (x % 4) /\ x \div 4 \in 0 .. x
    OBVIOUS
  <2> QED BY <1>1, <1>2, <2>1, <2>2
<1>6. PICK t \in 0 .. 3 : t = (s + p) % 4 /\ t = shift'
  BY <1>1, <1>3, Sizes4 DEF Dispatch
<1>7. PICK b \in Nat : b = s + p - t /\ b % 4 = 0 /\ b = Masked(src) /\ b + 4 <= ASIZE
  <2>1. PICK x \in Nat : x = s + p /\ x < ASIZE /\ t = x % 4
    BY <1>1, <1>2, <1>6, Sizes4
  <2>2. x - t \in Nat /\ (x - t) % 4 = 0
    BY <2>1
  <2>3. Masked(src) = x - t
    BY <1>3, <2>1, Sizes4 DEF Masked
  <2>4. x - t + 4 <= ASIZE
    <3>1. PICK y \in Nat : y = x - t /\ y % 4 = 0 /\ y < ASIZE
      BY <2>1, <2>2, Sizes4
    <3>2. y + 4 <= ASIZE
      BY <3>1, Sizes4
    <3> QED BY <3>1, <3>2
  <2>5. x - t = s + p - t
    BY <1>1, <2>1
  <2> QED BY <2>2, <2>3, <2>4, <2>5, Zenon
<1>8. Wrap(b + 4) \in Addr
  BY WrapIs
<1>9. ASSUME NEW i \in 1 .. 4
      PROVE  WordAt(b)[i] \in Byte /\ (i > t /\ b + i - 1 < s + n => WordAt(b)[i] = Mem0[b + i - 1])
  <2>1. b + i - 1 \in Addr
    BY <1>7, Sizes4
  <2>2. WordAt(b)[i] = mem[b + i - 1]
    BY <2>1, WrapIs, Sizes4 DEF WordAt
  <2>3. ASSUME i > t, b + i - 1 < s + n PROVE mem[b + i - 1] = Mem0[b + i - 1]
    <3>1. b + i - 1 \in s .. s + n - 1
      BY <1>1, <1>7, <2>3
    <3> QED BY <3>1, SourceStays DEF Copy
  <2> QED BY <2>1, <2>2, <2>3 DEF Types
<1>10. /\ Types' /\ SourceAt(s, n, p)' /\ \A a \in words' : Mine(a, d, s, n)
  <2>1. mem' = mem /\ dst' = dst
    BY DEF Dispatch
  <2>2. CASE t = 0
    <3>1. src' = src /\ srcWord' = srcWord /\ words' = words
      BY <1>3, <1>6, <2>2, Sizes4 DEF Dispatch
    <3>2. SourceAt(s, n, p)'
      BY <1>2, <1>6, <2>2, <3>1 DEF SourceAt
    <3> QED BY <1>6, <2>1, <3>1, <3>2 DEF Types, Copy
  <2>3. CASE t # 0
    <3>1. srcWord' = WordAt(b) /\ words' = {b} /\ src' = Wrap(b + 4)
      BY <1>3, <1>6, <1>7, <2>3, Sizes4 DEF Dispatch
    <3>2. b + 4 = s + p - t + 4
      BY <1>7
    <3>3. ASSUME NEW i \in t + 1 .. 4, s + p - t + i - 1 < s + n
          PROVE  srcWord'[i] = Mem0[s + p - t + i - 1]
      <4>1. i \in 1 .. 4 /\ i > t /\ b + i - 1 = s + p - t + i - 1
        BY <1>7
      <4> QED BY <1>9, <3>1, <3>3, <4>1
    <3>4. SourceAt(s, n, p)'
      BY <1>6, <2>3, <3>1, <3>2, <3>3 DEF SourceAt
    <3>5. srcWord' \in [1 .. 4 -> Byte]
      <4>1. WordAt(b) = [i \in 1 .. 4 |-> WordAt(b)[i]]
        BY Sizes4 DEF WordAt
      <4> QED BY <1>9, <3>1, <4>1
    <3>6. Mine(b, d, s, n)
      <4>1. PICK e \in Nat : e = s + p
        BY <1>1
      <4>2. b < ASIZE /\ b <= e /\ e < b + 4 /\ e \in s .. s + n - 1
        BY <1>1, <1>2, <1>7, <4>1, Sizes4
      <4> QED BY <1>1, <1>7, <4>2, IsMine
    <3> QED BY <1>6, <1>8, <2>1, <3>1, <3>4, <3>5, <3>6 DEF Types
  <2> QED BY <2>2, <2>3
<1>11. Copied(d, s, p)' /\ dst' = Wrap(d + p) /\ asked' = asked /\ pc' = "odd"
  BY DEF Copy, Copied, Dispatch
<1>12. CopyAt(d, s, n, p)'
  BY <1>4, <1>5, <1>10, <1>11 DEF CopyAt
<1> QED BY <1>5, <1>10, <1>11, <1>12 DEF Copy

\* Words: one of the odd ones, or the eight of the unrolled loop.
LEMMA WordsStep ==
  ASSUME NEW d \in Dests, NEW s \in Srcs, NEW n \in Counts, NEW p \in 0 .. n, NEW k \in {1, 8},
         p + 4 * k <= n, (d + p) % 4 = 0, Types, Copy(d, s, n, p), SourceAt(s, n, p),
         CopyWords(k), shift' = shift
  PROVE  /\ Types' /\ p + 4 * k \in 0 .. n /\ (d + (p + 4 * k)) % 4 = 0 /\ SourceAt(s, n, p + 4 * k)'
         /\ Copied(d, s, p + 4 * k)' /\ dst' = Wrap(d + (p + 4 * k)) /\ \A a \in words' : Mine(a, d, s, n)
<1>1. n \in Nat /\ d \in Nat /\ s \in Nat /\ p \in Nat /\ k \in 1 .. 8 /\ p + 4 * k \in 0 .. n
  BY BlockIs
<1>2. Copied(d, s, p) /\ dst = Wrap(d + p) /\ srcWord \in [1 .. 4 -> Byte] /\ mem \in [Addr -> Byte]
  BY DEF Copy, Types
<1>3. /\ Copied(d, s, p + 4 * k)' /\ dst' = Wrap(d + (p + 4 * k)) /\ SourceAt(s, n, p + 4 * k)'
      /\ srcWord' \in [1 .. 4 -> Byte] /\ \A a \in words' : Mine(a, d, s, n)
  BY <1>1, <1>2, CopyWordsIs
<1>4. (d + (p + 4 * k)) % 4 = 0
  <2>1. PICK x \in Nat : x = d + p /\ x % 4 = 0
    BY <1>1
  <2>2. (x + 4 * k) % 4 = 0
    BY <1>1, <2>1
  <2>3. d + (p + 4 * k) = x + 4 * k
    BY <1>1, <2>1
  <2> QED BY <2>2, <2>3
<1>5. dst' \in Addr /\ src' \in Addr
  <2>1. dst + k * 4 \in Int /\ src + k * 4 \in Int
    BY <1>1, Sizes4 DEF Types
  <2>2. dst' = Wrap(dst + k * 4) /\ src' = Wrap(src + k * 4)
    BY Sizes4 DEF CopyWords
  <2> QED BY <2>1, <2>2, WrapIs
<1>6. mem' \in [Addr -> Byte]
  <2>1. ASSUME NEW a \in Addr
        PROVE  (IF a \in d .. d + (p + 4 * k) - 1 THEN Mem0[s + (a - d)] ELSE Mem0[a]) \in Byte
    <3>1. a \in d .. d + (p + 4 * k) - 1 => s + (a - d) \in s .. s + n - 1
      BY <1>1
    <3>2. \A e \in s .. s + n - 1 : e \in Addr
      BY <1>2, SourceStays
    <3> QED BY <3>1, <3>2, MemAssumption
  <2> QED BY <1>3, <2>1 DEF Copied
<1> QED BY <1>1, <1>3, <1>4, <1>5, <1>6 DEF Types

LEMMA OddWordsStep ==
  ASSUME NEW d \in Dests, NEW s \in Srcs, NEW n \in Counts, NEW p \in 0 .. n,
         Types, Copy(d, s, n, p), OddWords
  PROVE  Types' /\ \E q \in 0 .. n : Copy(d, s, n, q)'
<1>1. n \in Nat /\ d \in Nat /\ p \in Nat /\ count \in Nat /\ left \in Nat /\ left <= n
  BY BlockIs DEF Copy
<1>2. pc = "odd" /\ (d + p) % 4 = 0 /\ n - p = 4 * left + (count % 4) /\ SourceAt(s, n, p)
  BY DEF Copy, CopyAt, OddWords
<1>3. asked' = asked /\ count' = count /\ shift' = shift
  BY DEF OddWords
<1>4. CASE left % 8 # 0
  <2>1. CopyWords(1) /\ left' = Dec(left) /\ pc' = "odd"
    BY <1>2, <1>4 DEF OddWords
  <2>2. left > 0 /\ p + 4 * 1 <= n
    BY <1>1, <1>2, <1>4
  <2>3. left' = left - 1 /\ left' \in 0 .. n
    BY <1>1, <2>1, <2>2, CountIs
  <2>4. /\ Types' /\ p + 4 * 1 \in 0 .. n /\ (d + (p + 4 * 1)) % 4 = 0 /\ SourceAt(s, n, p + 4 * 1)'
        /\ Copied(d, s, p + 4 * 1)' /\ dst' = Wrap(d + (p + 4 * 1)) /\ \A a \in words' : Mine(a, d, s, n)
    BY <1>2, <1>3, <2>1, <2>2, WordsStep
  <2>5. n - (p + 4 * 1) = 4 * left' + (count' % 4)
    BY <1>1, <1>2, <1>3, <2>3
  <2>6. CopyAt(d, s, n, p + 4 * 1)'
    BY <2>1, <2>4, <2>5 DEF CopyAt
  <2>7. Copy(d, s, n, p + 4 * 1)'
    BY <1>3, <2>3, <2>4, <2>6 DEF Copy
  <2> QED BY <2>4, <2>7
<1>5. CASE left % 8 = 0
  <2>1. pc' = "unrolled" /\ left' = left \div 8 /\ UNCHANGED <<mem, dst, src, srcWord, words>>
    BY <1>5 DEF OddWords
  <2>2. left = 8 * left' /\ left' \in 0 .. n
    BY <1>1, <1>5, <2>1
  <2>3. n - p = 32 * left' + (count' % 4)
    <3>1. PICK c \in 0 .. 3, m \in Nat : c = count % 4 /\ m = left'
      BY <1>1, <2>2
    <3>2. n - p = 4 * (8 * m) + c
      BY <1>2, <2>2, <3>1
    <3>3. 4 * (8 * m) + c = 32 * m + c
      BY <3>1
    <3> QED BY <1>3, <3>1, <3>2, <3>3
  <2>4. SourceAt(s, n, p)'
    BY <1>2, <1>3, <2>1 DEF SourceAt
  <2>5. CopyAt(d, s, n, p)'
    BY <1>2, <2>1, <2>3, <2>4 DEF CopyAt
  <2>6. Copy(d, s, n, p)' /\ Types'
    BY <1>3, <2>1, <2>2, <2>5 DEF Copy, Copied, Types
  <2> QED BY <2>6
<1> QED BY <1>4, <1>5

\* After the last word src goes back to the next byte, over the top of memory too.
LEMMA BehindIs ==
  ASSUME NEW s \in Srcs, NEW n \in Counts, NEW p \in 0 .. n, SourceAt(s, n, p)
  PROVE  Behind(src) = Wrap(s + p)
<1>1. n \in Nat /\ s \in Nat /\ p \in Nat /\ s + p <= ASIZE /\ ASIZE \in Nat /\ ASIZE % 4 = 0
  BY BlockIs, Sizes4
<1>2. PICK t \in 0 .. 3 : t = shift /\ t = (s + p) % 4
  BY DEF SourceAt
<1>3. CASE t = 0
  BY <1>2, <1>3 DEF SourceAt, Behind
<1>4. CASE t # 0
  <2>1. src = Wrap(s + p - t + 4) /\ Behind(src) = Wrap(src + t - 4)
    BY <1>2, <1>4, Sizes4 DEF SourceAt, Behind
  <2>2. PICK x \in Nat : x = s + p /\ t = x % 4 /\ x <= ASIZE
    BY <1>1, <1>2
  <2>3. x - t + 4 <= ASIZE /\ x < ASIZE
    <3>1. x # ASIZE
      BY <1>1, <1>4, <2>2
    <3>2. PICK y \in Nat : y = x - t /\ y % 4 = 0 /\ y < ASIZE
      BY <2>2, <3>1, <1>1
    <3>3. y + 4 <= ASIZE
      BY <1>1, <3>2
    <3> QED BY <1>1, <2>2, <3>1, <3>2, <3>3
  <2>4. s + p - t + 4 = x - t + 4 /\ x \in Addr
    BY <1>1, <2>2, <2>3, Sizes4
  <2>5. CASE x - t + 4 < ASIZE
    <3>1. x - t + 4 \in Addr
      BY <2>2, <2>5, Sizes4
    <3>2. src = x - t + 4
      BY <2>1, <2>4, <3>1, WrapIs
    <3>3. src + t - 4 = s + p
      BY <2>2, <3>2
    <3> QED BY <2>1, <3>3
  <2>6. CASE x - t + 4 = ASIZE
    <3>1. src = 0
      BY <2>1, <2>4, <2>6, WrapIs
    <3>2. t \in Addr /\ 4 - t \in 1 .. 3
      BY <1>4, Sizes4
    <3>3. CASE ASIZE = 4
      <4>1. x = t /\ 0 + t - 4 = t - 4
        <5>1. x - t + 4 = 4 /\ x \in Nat /\ t \in 0 .. 3
          BY <2>6, <3>3
        <5> QED BY <5>1
      <4>2. Wrap(t - 4) = t
        BY <1>1, <3>3 DEF Wrap
      <4> QED BY <2>1, <2>2, <2>4, <3>1, <4>1, <4>2, WrapIs
    <3>4. CASE ASIZE # 4
      <4>1. 0 \in Addr /\ 4 - t \in Addr /\ 0 < 4 - t
        BY <3>2, <3>4, <1>1, Sizes4
      <4>2. Wrap(0 - (4 - t)) = 0 - (4 - t) + ASIZE
        BY <4>1, WrapIs
      <4>3. src + t - 4 = 0 - (4 - t) /\ 0 - (4 - t) + ASIZE = x
        BY <1>1, <2>2, <2>6, <3>1
      <4> QED BY <2>1, <2>2, <2>4, <4>2, <4>3, WrapIs
    <3> QED BY <3>3, <3>4
  <2> QED BY <2>2, <2>3, <2>5, <2>6, <1>1
<1> QED BY <1>3, <1>4

LEMMA UnrolledStep ==
  ASSUME NEW d \in Dests, NEW s \in Srcs, NEW n \in Counts, NEW p \in 0 .. n,
         Types, Copy(d, s, n, p), Unrolled
  PROVE  Types' /\ \E q \in 0 .. n : Copy(d, s, n, q)'
<1>1. n \in Nat /\ d \in Nat /\ s \in Nat /\ p \in Nat /\ count \in Nat /\ left \in Nat /\ left <= n
  BY BlockIs DEF Copy
<1>2. pc = "unrolled" /\ (d + p) % 4 = 0 /\ n - p = 32 * left + (count % 4) /\ SourceAt(s, n, p)
  BY DEF Copy, CopyAt, Unrolled
<1>3. asked' = asked /\ count' = count /\ shift' = shift
  BY DEF Unrolled
<1>4. CASE left # 0
  <2>1. CopyWords(8) /\ left' = Dec(left) /\ pc' = "unrolled"
    BY <1>2, <1>4 DEF Unrolled
  <2>2. left > 0 /\ p + 4 * 8 <= n
    BY <1>1, <1>2, <1>4
  <2>3. left' = left - 1 /\ left' \in 0 .. n
    BY <1>1, <2>1, <2>2, CountIs
  <2>4. /\ Types' /\ p + 4 * 8 \in 0 .. n /\ (d + (p + 4 * 8)) % 4 = 0 /\ SourceAt(s, n, p + 4 * 8)'
        /\ Copied(d, s, p + 4 * 8)' /\ dst' = Wrap(d + (p + 4 * 8)) /\ \A a \in words' : Mine(a, d, s, n)
    BY <1>2, <1>3, <2>1, <2>2, WordsStep
  <2>5. n - (p + 4 * 8) = 32 * left' + (count' % 4)
    BY <1>1, <1>2, <1>3, <2>3
  <2>6. CopyAt(d, s, n, p + 4 * 8)'
    BY <2>1, <2>4, <2>5 DEF CopyAt
  <2>7. Copy(d, s, n, p + 4 * 8)'
    BY <1>3, <2>3, <2>4, <2>6 DEF Copy
  <2> QED BY <2>4, <2>7
<1>5. CASE left = 0
  <2>1. pc' = "remaining" /\ left' = count % 4 /\ src' = Behind(src) /\ UNCHANGED <<mem, dst, srcWord, words>>
    BY <1>5, Sizes4 DEF Unrolled
  <2>2. left' = n - p /\ left' <= 7 /\ left' \in 0 .. n
    BY <1>1, <1>2, <1>5, <2>1
  <2>3. src' = Wrap(s + p) /\ src' \in Addr
    <3>1. s + p \in Int
      BY <1>1
    <3> QED BY <1>2, <2>1, <3>1, BehindIs, WrapIs
  <2>4. CopyAt(d, s, n, p)'
    BY <2>1, <2>2, <2>3 DEF CopyAt
  <2>5. Copy(d, s, n, p)' /\ Types'
    BY <1>3, <2>1, <2>2, <2>3, <2>4 DEF Copy, Copied, Types
  <2> QED BY <2>5
<1> QED BY <1>4, <1>5

LEMMA RemainingStep ==
  ASSUME NEW d \in Dests, NEW s \in Srcs, NEW n \in Counts, NEW p \in 0 .. n,
         Types, Copy(d, s, n, p), Remaining
  PROVE  Types' /\ \E q \in 0 .. n : Copy(d, s, n, q)'
<1>1. n \in Nat /\ s \in Nat /\ p \in Nat /\ left \in 0 .. n
  BY BlockIs DEF Copy
<1>2. pc = "remaining" /\ left = n - p /\ left <= 7 /\ src = Wrap(s + p)
  BY DEF Copy, CopyAt, Remaining
<1>3. asked' = asked /\ count' = count /\ shift' = shift /\ srcWord' = srcWord
  BY DEF Remaining
<1>4. CASE left \in 1 .. 7
  <2>1. CopyByte /\ left' = Dec(left) /\ pc' = "remaining"
    BY <1>2, <1>4 DEF Remaining
  <2>2. p < n /\ s + p \in s .. s + n - 1 /\ left > 0
    BY <1>1, <1>2, <1>4
  <2>3. mem[s + p] = Mem0[s + p]
    BY <2>2, SourceStays DEF Copy
  <2>4. /\ Copied(d, s, p + 1)' /\ dst' = Wrap(d + (p + 1)) /\ src' = Wrap(s + (p + 1))
        /\ words' = {} /\ Types' /\ p + 1 \in 0 .. n
    BY <1>2, <1>3, <2>1, <2>2, <2>3, CopyByteIs DEF Copy
  <2>5. left' = n - (p + 1) /\ left' <= 7 /\ left' \in 0 .. n
    <3>1. left' = left - 1
      BY <1>1, <2>1, <2>2, CountIs
    <3> QED BY <1>1, <1>2, <2>2, <3>1
  <2>6. CopyAt(d, s, n, p + 1)'
    BY <2>1, <2>4, <2>5 DEF CopyAt
  <2>7. Copy(d, s, n, p + 1)'
    BY <1>3, <2>4, <2>5, <2>6 DEF Copy
  <2> QED BY <2>4, <2>7
<1>5. CASE left \notin 1 .. 7
  <2>1. pc' = "done" /\ UNCHANGED <<mem, words, dst, src, left>> /\ p = n
    BY <1>1, <1>2, <1>5 DEF Remaining
  <2>2. CopyAt(d, s, n, p)'
    BY <2>1 DEF CopyAt
  <2>3. Copy(d, s, n, p)' /\ Types'
    BY <1>3, <2>1, <2>2 DEF Copy, Copied, Types
  <2> QED BY <2>3
<1> QED BY <1>4, <1>5
-----------------------------------------------------------------------------
(* A call of memset, step by step.                                         *)

LEMMA OrZero == ASSUME NEW x PROVE OrByte(x, 0) = x /\ OrByte(0, x) = x
BY Zenon DEF OrByte

\* Every byte of the widened value is the byte.
LEMMA WidevalIs == ASSUME NEW c0, NEW i \in 1 .. 4 PROVE WIDEVAL(c0)[i] = ByteOf(c0)
<1> DEFINE c == [Zero EXCEPT ![1] = ByteOf(c0)]
           cc == OrWords(Up(c, 1), c)
<1>1. WIDEVAL(c0) = OrWords(Up(cc, 2), cc)
  BY DEF WIDEVAL
<1>2. \A m \in 1 .. 4 : c[m] = IF m = 1 THEN ByteOf(c0) ELSE 0
  BY Sizes4 DEF Zero
<1> HIDE DEF c
<1>3. \A m \in 1 .. 4 : Up(c, 1)[m] = (IF m > 1 THEN c[m - 1] ELSE 0) /\ cc[m] = OrByte(Up(c, 1)[m], c[m])
  BY Sizes4 DEF Up, OrWords
<1>4. cc[1] = ByteOf(c0) /\ cc[2] = ByteOf(c0) /\ cc[3] = 0 /\ cc[4] = 0
  <2>1. Up(c, 1)[1] = 0 /\ Up(c, 1)[2] = c[1] /\ Up(c, 1)[3] = c[2] /\ Up(c, 1)[4] = c[3]
    BY <1>3
  <2>2. c[1] = ByteOf(c0) /\ c[2] = 0 /\ c[3] = 0 /\ c[4] = 0
    BY <1>2
  <2>3. \A m \in 1 .. 4 : cc[m] = OrByte(Up(c, 1)[m], c[m])
    BY <1>3
  <2>4. /\ cc[1] = OrByte(0, ByteOf(c0)) /\ cc[2] = OrByte(ByteOf(c0), 0)
        /\ cc[3] = OrByte(0, 0) /\ cc[4] = OrByte(0, 0)
    BY <2>1, <2>2, <2>3
  <2> QED BY <2>4, OrZero
<1> HIDE DEF cc
<1>5. WIDEVAL(c0)[i] = OrByte(IF i > 2 THEN cc[i - 2] ELSE 0, cc[i])
  BY <1>1, Sizes4 DEF Up, OrWords
<1>6. i = 1 \/ i = 2 \/ i = 3 \/ i = 4
  OBVIOUS
<1>7. CASE i = 1 \/ i = 2
  <2>1. WIDEVAL(c0)[i] = OrByte(0, ByteOf(c0))
    BY <1>4, <1>5, <1>7
  <2> QED BY <2>1, OrZero
<1>8. CASE i = 3 \/ i = 4
  <2>1. WIDEVAL(c0)[i] = OrByte(ByteOf(c0), 0)
    BY <1>4, <1>5, <1>8
  <2> QED BY <2>1, OrZero
<1> QED BY <1>6, <1>7, <1>8

LEMMA MemsetStep ==
  ASSUME NEW d \in Dests, NEW c0 \in Values, NEW n \in Counts, Types, Idle, memset(d, c0, n)
  PROVE  Types' /\ ByteOf(c0) \in Byte /\ Fill(d, c0, ByteOf(c0), n, 0)'
<1>1. n \in Nat /\ d \in Nat /\ d \in Addr /\ 0 \in 0 .. n /\ c0 \in Nat
  BY BlockIs, MemAssumption
<1>2. ByteOf(c0) \in Byte
  BY <1>1 DEF ByteOf, Byte
<1>3. Filled(d, ByteOf(c0), 0)'
  <2>1. mem' = Mem0 /\ Mem0 \in [Addr -> Byte] /\ d .. d + 0 - 1 = {}
    BY <1>1, MemAssumption DEF Idle, memset
  <2>2. [a \in Addr |-> IF a \in d .. d + 0 - 1 THEN ByteOf(c0) ELSE Mem0[a]] = Mem0
    BY <2>1
  <2> QED BY <2>1, <2>2 DEF Filled
<1>4. dst' = Wrap(d + 0) /\ Types'
  <2>1. d + 0 = d /\ dst' = d
    BY <1>1 DEF memset
  <2> QED BY <1>1, <2>1, WrapIs DEF Types, memset
<1>5. PICK t \in 1 .. 4 : t = 4 - (d % 4) /\ (d + t) % 4 = 0
  <2>1. 4 - (d % 4) \in 1 .. 4 /\ (d + (4 - (d % 4))) % 4 = 0
    BY <1>1
  <2> QED BY <2>1
<1>6. FillAt(d, n, 0)' /\ count' \in 0 .. n /\ left' \in 0 .. n
  <2>1. CASE ShortFill(n) /\ pc' = "fillBytes" /\ left' = n /\ count' = n
    BY <1>1, <2>1 DEF FillAt
  <2>2. CASE ~ShortFill(n) /\ t # 4 /\ pc' = "fillAlign" /\ left' = t /\ count' = n - t
    <3>1. n >= 12 /\ left' \in 1 .. 3 /\ count' >= 4 /\ count' \in 0 .. n /\ n - 0 = count' + left'
      BY <1>1, <2>2, Sizes4 DEF ShortFill
    <3>2. (d + 0 + left') % 4 = 0
      BY <1>1, <1>5, <2>2
    <3> QED BY <1>1, <2>2, <3>1, <3>2 DEF FillAt
  <2>3. CASE ~ShortFill(n) /\ t = 4 /\ pc' = "fillWords" /\ left' = n \div 4 /\ count' = n
    <3>1. n >= 12 /\ left' \in 0 .. n /\ left' >= 1 /\ n - 0 = 4 * left' + (count' % 4)
      BY <1>1, <2>3, Sizes4 DEF ShortFill
    <3>2. (d + 0) % 4 = 0
      BY <1>1, <1>5, <2>3
    <3> QED BY <1>1, <2>3, <3>1, <3>2 DEF FillAt
  <2>4. \/ ShortFill(n) /\ pc' = "fillBytes" /\ left' = n /\ count' = n
        \/ ~ShortFill(n) /\ t # 4 /\ pc' = "fillAlign" /\ left' = t /\ count' = n - t
        \/ ~ShortFill(n) /\ t = 4 /\ pc' = "fillWords" /\ left' = n \div 4 /\ count' = n
    BY <1>5, Sizes4 DEF memset
  <2> QED BY <2>1, <2>2, <2>3, <2>4
<1>7. words' = {} /\ asked' = [op |-> "memset", dest |-> d, c0 |-> c0, count |-> n]
  BY DEF Idle, memset
<1> QED BY <1>2, <1>3, <1>4, <1>6, <1>7 DEF Fill

LEMMA FillByteIs ==
  ASSUME NEW d \in Dests, NEW c0 \in Values, NEW v \in Byte, NEW n \in Counts, NEW p \in 0 .. n, p < n,
         Types, Fill(d, c0, v, n, p), FillByte, UNCHANGED <<src, shift, srcWord>>
  PROVE  Filled(d, v, p + 1)' /\ dst' = Wrap(d + (p + 1)) /\ Types' /\ p + 1 \in 0 .. n /\ words' = {}
<1>1. n \in Nat /\ d \in Nat /\ p \in Nat /\ p + 1 <= n
  BY BlockIs
<1>2. dst = d + p /\ d + p \in Addr /\ dst = Wrap(d + p)
  BY <1>1, Within DEF Fill
<1>3. mem' = [mem EXCEPT ![d + p] = v] /\ words' = {} /\ dst' = Wrap(dst + 1)
  BY <1>2 DEF Fill, FillByte, StoreByte
<1>4. mem' = [a \in Addr |-> mem'[a]]
  BY <1>3 DEF Types
<1>5. PICK k \in {1, 4} : k = 1
  OBVIOUS
<1>6. \A a \in Addr : mem'[a] = IF a \in d + p .. d + p + k - 1 THEN v ELSE mem[a]
  BY <1>1, <1>2, <1>3, <1>5, Sizes4 DEF Types
<1>7. p + k <= n /\ dst' = Wrap(dst + k) /\ Filled(d, v, p)
  BY <1>1, <1>3, <1>5 DEF Fill
<1>8. Filled(d, v, p + k)' /\ dst' = Wrap(d + (p + k)) /\ Types' /\ p + k \in 0 .. n
  BY <1>2, <1>4, <1>6, <1>7, FillIs
<1> QED BY <1>3, <1>5, <1>8

LEMMA FillAlignStep ==
  ASSUME NEW d \in Dests, NEW c0 \in Values, NEW v \in Byte, NEW n \in Counts, NEW p \in 0 .. n,
         Types, Fill(d, c0, v, n, p), FillAlign
  PROVE  Types' /\ \E q \in 0 .. n : Fill(d, c0, v, n, q)'
<1>1. n \in Nat /\ d \in Nat /\ p \in Nat /\ count \in Nat /\ count <= n
  BY BlockIs DEF Fill
<1>2. /\ pc = "fillAlign" /\ left \in 1 .. 3 /\ left <= n /\ (d + p + left) % 4 = 0
      /\ n - p = count + left /\ count >= 4 /\ p < n
  BY <1>1 DEF Fill, FillAt, FillAlign
<1>3. /\ Filled(d, v, p + 1)' /\ dst' = Wrap(d + (p + 1)) /\ Types' /\ p + 1 \in 0 .. n /\ words' = {}
      /\ asked' = asked /\ count' = count
  BY <1>2, FillByteIs DEF FillAlign
<1>4. Dec(left) = left - 1
  BY <1>1, <1>2, CountIs
<1>5. FillAt(d, n, p + 1)' /\ left' \in 0 .. n
  <2>1. CASE left > 1
    <3>1. left' = left - 1 /\ pc' = "fillAlign"
      BY <1>2, <1>4, <2>1 DEF FillAlign
    <3>2. /\ left' \in 1 .. 3 /\ left' \in 0 .. n /\ d + (p + 1) + left' = d + p + left
          /\ n - (p + 1) = count' + left' /\ count' >= 4
      BY <1>1, <1>2, <1>3, <2>1, <3>1
    <3> QED BY <1>2, <3>1, <3>2 DEF FillAt
  <2>2. CASE left = 1
    <3>1. left' = count \div 4 /\ pc' = "fillWords"
      BY <1>4, <2>2, Sizes4 DEF FillAlign
    <3>2. left' \in 0 .. n /\ left' >= 1 /\ n - (p + 1) = 4 * left' + (count' % 4)
      BY <1>1, <1>2, <1>3, <2>2, <3>1
    <3>3. (d + (p + 1)) % 4 = 0
      <4>1. d + (p + 1) = d + p + left
        BY <1>1, <2>2
      <4> QED BY <1>2, <4>1
    <3> QED BY <3>1, <3>2, <3>3 DEF FillAt
  <2> QED BY <1>2, <2>1, <2>2
<1> QED BY <1>3, <1>5 DEF Fill

LEMMA FillWordsStep ==
  ASSUME NEW d \in Dests, NEW c0 \in Values, NEW v \in Byte, NEW n \in Counts, NEW p \in 0 .. n,
         Types, Fill(d, c0, v, n, p), FillWords
  PROVE  Types' /\ \E q \in 0 .. n : Fill(d, c0, v, n, q)'
<1>1. n \in Nat /\ d \in Nat /\ p \in Nat /\ count \in Nat /\ count <= n /\ left \in 0 .. n /\ d + n <= ASIZE
  BY BlockIs DEF Fill
<1>2. /\ pc = "fillWords" /\ (d + p) % 4 = 0 /\ n - p = 4 * left + (count % 4) /\ left >= 1
      /\ p + 4 <= n /\ asked.c0 = c0 /\ v = ByteOf(c0)
  BY <1>1 DEF Fill, FillAt, FillWords
<1>3. dst = d + p /\ d + p \in Addr /\ dst = Wrap(d + p)
  BY <1>1, <1>2, Within DEF Fill
<1>4. StoreWords(d + p, <<WIDEVAL(c0)>>) /\ words' = {d + p} /\ dst' = Wrap(dst + 4)
  BY <1>2, <1>3, Sizes4 DEF FillWords
<1>5. /\ mem' = [a \in Addr |-> mem'[a]]
      /\ \A a \in Addr : mem'[a] = IF a \in d + p .. d + p + 4 - 1 THEN v ELSE mem[a]
  <2>1. PICK ws : ws = <<WIDEVAL(c0)>>
    OBVIOUS
  <2>2. Len(ws) = 1 /\ ws[1] = WIDEVAL(c0)
    BY <2>1
  <2>3. d + p \in Nat /\ Len(ws) \in Nat /\ d + p + 4 * Len(ws) <= ASIZE
    BY <1>1, <1>2, <2>2, Sizes4
  <2>4. /\ mem' = [x \in Addr |-> mem'[x]]
        /\ \A x \in Addr : mem'[x] = IF x \in d + p .. d + p + 4 * Len(ws) - 1
                THEN ws[((x - (d + p)) \div 4) + 1][((x - (d + p)) % 4) + 1] ELSE mem[x]
    BY <1>4, <2>1, <2>3, StoreWordsIs
  <2>5. ASSUME NEW a \in Addr PROVE mem'[a] = IF a \in d + p .. d + p + 4 - 1 THEN v ELSE mem[a]
    <3>1. a \in Nat
      BY Sizes4
    <3>2. CASE a \in d + p .. d + p + 4 - 1
      <4>1. PICK q \in 0 .. 3 : q = a - (d + p)
        BY <1>1, <3>1, <3>2
      <4>2. (q \div 4) + 1 = 1 /\ (q % 4) + 1 \in 1 .. 4
        BY <4>1
      <4>3. mem'[a] = WIDEVAL(c0)[(q % 4) + 1]
        BY <2>2, <2>4, <3>2, <4>1, <4>2
      <4> QED BY <1>2, <3>2, <4>2, <4>3, WidevalIs
    <3>3. CASE a \notin d + p .. d + p + 4 - 1
      BY <2>2, <2>4, <3>3
    <3> QED BY <3>2, <3>3
  <2> QED BY <2>4, <2>5
<1>6. Filled(d, v, p + 4)' /\ dst' = Wrap(d + (p + 4)) /\ Types' /\ p + 4 \in 0 .. n
  <2>1. Filled(d, v, p) /\ src' = src /\ shift' = shift /\ srcWord' = srcWord
    BY DEF Fill, FillWords
  <2> QED BY <1>1, <1>2, <1>3, <1>4, <1>5, <2>1, FillIs
<1>7. Mine(d + p, d, d, n)
  <2>1. PICK e \in Nat : e = d + p /\ e % 4 = 0 /\ e < ASIZE /\ e \in d .. d + n - 1
    BY <1>1, <1>2, <1>3, Sizes4
  <2> QED BY <1>1, <2>1, IsMine
<1>8. Dec(left) = left - 1 /\ count' = count /\ asked' = asked
  BY <1>1, <1>2, CountIs DEF FillWords
<1>9. FillAt(d, n, p + 4)' /\ left' \in 0 .. n
  <2>1. CASE left > 1
    <3>1. left' = left - 1 /\ pc' = "fillWords"
      BY <1>1, <1>2, <1>8, <2>1 DEF FillWords
    <3>2. left' \in 0 .. n /\ left' >= 1 /\ n - (p + 4) = 4 * left' + (count' % 4)
      BY <1>1, <1>2, <1>8, <2>1, <3>1
    <3>3. (d + (p + 4)) % 4 = 0
      BY <1>1, <1>2
    <3> QED BY <3>1, <3>2, <3>3 DEF FillAt
  <2>2. CASE left = 1
    <3>1. left' = count % 4 /\ pc' = "fillBytes"
      BY <1>8, <2>2, Sizes4 DEF FillWords
    <3>2. left' = n - (p + 4) /\ left' \in 0 .. n
      BY <1>1, <1>2, <2>2, <3>1
    <3> QED BY <3>1, <3>2 DEF FillAt
  <2> QED BY <1>1, <1>2, <2>1, <2>2
<1> QED BY <1>4, <1>6, <1>7, <1>8, <1>9 DEF Fill

LEMMA FillBytesStep ==
  ASSUME NEW d \in Dests, NEW c0 \in Values, NEW v \in Byte, NEW n \in Counts, NEW p \in 0 .. n,
         Types, Fill(d, c0, v, n, p), FillBytes
  PROVE  Types' /\ \E q \in 0 .. n : Fill(d, c0, v, n, q)'
<1>1. n \in Nat /\ p \in Nat /\ left \in 0 .. n
  BY BlockIs DEF Fill
<1>2. pc = "fillBytes" /\ left = n - p
  BY DEF Fill, FillAt, FillBytes
<1>3. asked' = asked /\ count' = count
  BY DEF FillBytes
<1>4. CASE left # 0
  <2>1. FillByte /\ left' = Dec(left) /\ pc' = "fillBytes" /\ UNCHANGED <<src, shift, srcWord>>
    BY <1>2, <1>4 DEF FillBytes
  <2>2. p < n /\ left > 0
    BY <1>1, <1>2, <1>4
  <2>3. Filled(d, v, p + 1)' /\ dst' = Wrap(d + (p + 1)) /\ Types' /\ p + 1 \in 0 .. n /\ words' = {}
    BY <2>1, <2>2, FillByteIs
  <2>4. left' = n - (p + 1) /\ left' \in 0 .. n
    <3>1. left' = left - 1
      BY <1>1, <2>1, <2>2, CountIs
    <3> QED BY <1>1, <1>2, <2>2, <3>1
  <2>5. FillAt(d, n, p + 1)'
    BY <2>1, <2>4 DEF FillAt
  <2> QED BY <1>3, <2>3, <2>4, <2>5 DEF Fill
<1>5. CASE left = 0
  <2>1. pc' = "done" /\ UNCHANGED <<mem, words, dst, left, src, shift, srcWord>> /\ p = n
    BY <1>1, <1>2, <1>5 DEF FillBytes
  <2>2. FillAt(d, n, p)'
    BY <2>1 DEF FillAt
  <2>3. Fill(d, c0, v, n, p)' /\ Types'
    BY <1>3, <2>1, <2>2 DEF Fill, Filled, Types
  <2> QED BY <2>3
<1> QED BY <1>4, <1>5
-----------------------------------------------------------------------------
(* A call of memmove, step by step.                                        *)

LEMMA MovedAll ==
  ASSUME NEW d \in Nat, NEW s, NEW n \in Nat
  PROVE  (MovedDown(d, s, n, n) <=> mem = Mem0) /\ (MovedDown(d, s, n, 0) <=> Copied(d, s, n))
<1>1. Mem0 \in [Addr -> Byte] /\ d + n .. d + n - 1 = {} /\ d + 0 .. d + n - 1 = d .. d + n - 1
  BY MemAssumption
<1>2. [a \in Addr |-> IF a \in d + n .. d + n - 1 THEN Mem0[s + (a - d)] ELSE Mem0[a]] = Mem0
  BY <1>1
<1>3. MovedDown(d, s, n, n) <=> mem = Mem0
  BY <1>2 DEF MovedDown
<1>4. MovedDown(d, s, n, 0) <=> Copied(d, s, n)
  BY <1>1 DEF MovedDown, Copied
<1> QED BY <1>3, <1>4

LEMMA MemmoveStep ==
  ASSUME NEW d \in Dests, NEW s \in Dests, NEW n \in Counts, Types, Idle, memmove(d, s, n)
  PROVE  Types' /\ Moving(d, s, n, 0)'
<1>1. n \in Nat /\ d \in Nat /\ s \in Nat /\ d \in Addr /\ s \in Addr
  BY BlockIs
<1>2. Wrap(d + n) \in Addr /\ Wrap(s + n) \in Addr /\ d + 0 = d /\ s + 0 = s /\ Wrap(d) = d /\ Wrap(s) = s
  <2>1. d + n \in Int /\ s + n \in Int
    BY <1>1
  <2> QED BY <1>1, <2>1, WrapIs
<1>3. Types'
  BY <1>1, <1>2 DEF Types, memmove
<1>4. left' = n - 0 /\ left' = n /\ left' \in 0 .. n /\ count' = 0 /\ words' = {} /\ mem' = Mem0
  BY <1>1 DEF Idle, memmove
<1>5. MoveAt(d, s, n, 0)'
  <2>1. CASE d <= s
    <3>1. pc' = "moveUp" /\ dst' = Wrap(d + 0) /\ src' = Wrap(s + 0)
      BY <1>2, <2>1 DEF memmove, UpFirst
    <3>2. Copied(d, s, 0)'
      <4>1. Copied(d, s, 0)
        BY <1>1, CopiedNone DEF Idle
      <4> QED BY <1>4, <4>1 DEF Copied, Idle
    <3> QED BY <1>4, <2>1, <3>1, <3>2 DEF MoveAt
  <2>2. CASE s < d
    <3>1. pc' = "moveDown" /\ dst' = Wrap(d + left') /\ src' = Wrap(s + left')
      BY <1>1, <1>4, <2>2 DEF memmove, UpFirst
    <3>2. MovedDown(d, s, n, left)'
      <4>1. MovedDown(d, s, n, n)
        BY <1>1, MovedAll DEF Idle
      <4> QED BY <1>4, <4>1 DEF MovedDown, Idle
    <3> QED BY <1>4, <2>2, <3>1, <3>2 DEF MoveAt
  <2> QED BY <1>1, <2>1, <2>2
<1> QED BY <1>3, <1>4, <1>5 DEF Moving, memmove

\* From the front nothing still to be moved has been overwritten: it is ahead of
\* the destination.
LEMMA MoveUpStep ==
  ASSUME NEW d \in Dests, NEW s \in Dests, NEW n \in Counts, NEW p \in 0 .. n, left # 0, pc = "moveUp",
         Types, Moving(d, s, n, p), Move
  PROVE  Types' /\ \E q \in 0 .. n : Moving(d, s, n, q)'
<1>1. n \in Nat /\ d \in Nat /\ s \in Nat /\ p \in Nat /\ left \in 0 .. n
  BY BlockIs DEF Moving
<1>2. d <= s /\ left = n - p /\ Copied(d, s, p) /\ dst = Wrap(d + p) /\ src = Wrap(s + p) /\ p < n /\ left > 0
  BY <1>1 DEF Moving, MoveAt
<1>3. CopyByte /\ left' = Dec(left) /\ pc' = pc /\ UNCHANGED <<asked, count, shift, srcWord>>
  BY DEF Move
<1>4. mem[s + p] = Mem0[s + p]
  <2>1. s + p \in Addr /\ s + p \notin d .. d + p - 1
    BY <1>1, <1>2, Within
  <2> QED BY <1>2, <2>1 DEF Copied
<1>5. /\ Copied(d, s, p + 1)' /\ dst' = Wrap(d + (p + 1)) /\ src' = Wrap(s + (p + 1))
      /\ words' = {} /\ Types' /\ p + 1 \in 0 .. n
  BY <1>2, <1>3, <1>4, CopyByteIs
<1>6. left' = n - (p + 1) /\ left' \in 0 .. n
  <2>1. left' = left - 1
    BY <1>1, <1>2, <1>3, CountIs
  <2> QED BY <1>1, <1>2, <2>1
<1>7. MoveAt(d, s, n, p + 1)'
  BY <1>2, <1>3, <1>5, <1>6 DEF MoveAt
<1> QED BY <1>3, <1>5, <1>6, <1>7 DEF Moving

\* From the back it is behind it.
LEMMA MoveDownStep ==
  ASSUME NEW d \in Dests, NEW s \in Dests, NEW n \in Counts, NEW p \in 0 .. n, left # 0, pc = "moveDown",
         Types, Moving(d, s, n, p), Move
  PROVE  Types' /\ \E q \in 0 .. n : Moving(d, s, n, q)'
<1>1. n \in Nat /\ d \in Nat /\ s \in Nat /\ p \in Nat /\ left \in 0 .. n /\ d + n <= ASIZE /\ s + n <= ASIZE
  BY BlockIs DEF Moving
<1>2. s < d /\ left = n - p /\ MovedDown(d, s, n, left) /\ dst = Wrap(d + left) /\ src = Wrap(s + left)
  BY DEF Moving, MoveAt
<1>3. PICK m \in Nat : m = left - 1 /\ m + 1 = left /\ m < n /\ p + 1 \in 0 .. n /\ m = n - (p + 1)
  BY <1>1, <1>2
<1>4. left' = m
  <2>1. left \in 0 .. n /\ left > 0 /\ left' = Dec(left)
    BY <1>1 DEF Move
  <2> QED BY <1>3, <2>1, CountIs
<1>5. d + m \in Addr /\ s + m \in Addr /\ Wrap(d + m) = d + m /\ Wrap(s + m) = s + m
  BY <1>3, Within
<1>6. Wrap(dst - 1) = d + m /\ Wrap(src - 1) = s + m
  <2>1. ASSUME NEW a \in Dests PROVE Wrap(Wrap(a + (m + 1)) - 1) = a + m
    <3>1. a \in Nat /\ a + n <= ASIZE /\ a + m \in Addr
      BY <1>3, Within, BlockIs
    <3>2. CASE a + (m + 1) < ASIZE
      <4>1. a + (m + 1) \in Addr /\ a + (m + 1) - 1 = a + m
        BY <1>3, <3>1, <3>2, Sizes4
      <4> QED BY <3>1, <4>1, WrapIs
    <3>3. CASE a + (m + 1) = ASIZE
      <4>1. 0 \in Addr /\ 1 \in Addr /\ 0 < 1 /\ 0 - 1 + ASIZE = a + m
        BY <1>3, <3>1, <3>3, Sizes4
      <4>2. Wrap(a + (m + 1)) = 0 /\ Wrap(0 - 1) = 0 - 1 + ASIZE
        BY <3>3, <4>1, WrapIs
      <4> QED BY <4>1, <4>2
    <3> QED BY <1>1, <1>3, <3>1, <3>2, <3>3, Sizes4
  <2> QED BY <1>2, <1>3, <2>1
<1>7. /\ mem' = [mem EXCEPT ![d + m] = mem[s + m]] /\ words' = {} /\ dst' = d + m /\ src' = s + m
      /\ pc' = pc /\ UNCHANGED <<asked, count, shift, srcWord>>
  BY <1>6 DEF Move, StoreByte
<1>8. mem[s + m] = Mem0[s + m]
  <2>1. s + m \notin d + left .. d + n - 1
    BY <1>1, <1>2, <1>3
  <2> QED BY <1>2, <1>5, <2>1 DEF MovedDown
<1>9. Types'
  <2>1. Mem0[s + m] \in Byte /\ mem' \in [Addr -> Byte]
    BY <1>5, <1>7, <1>8, MemAssumption DEF Types
  <2> QED BY <1>5, <1>7, <2>1 DEF Types
<1>10. MovedDown(d, s, n, m)'
  <2>1. ASSUME NEW a \in Addr
        PROVE  mem'[a] = IF a \in d + m .. d + n - 1 THEN Mem0[s + (a - d)] ELSE Mem0[a]
    <3>1. a \in Nat /\ mem[a] = IF a \in d + left .. d + n - 1 THEN Mem0[s + (a - d)] ELSE Mem0[a]
      BY <1>2, Sizes4 DEF MovedDown
    <3>2. CASE a = d + m
      <4>1. s + (a - d) = s + m /\ a \in d + m .. d + n - 1
        BY <1>1, <1>3, <3>2
      <4> QED BY <1>5, <1>7, <1>8, <3>2, <4>1 DEF Types
    <3>3. CASE a # d + m
      <4>1. a \in d + m .. d + n - 1 <=> a \in d + left .. d + n - 1
        BY <1>1, <1>3, <3>1, <3>3
      <4>2. mem'[a] = mem[a]
        BY <1>7, <3>3 DEF Types
      <4> QED BY <3>1, <4>1, <4>2
    <3> QED BY <3>2, <3>3
  <2>2. mem' = [a \in Addr |-> mem'[a]]
    BY <1>9 DEF Types
  <2> QED BY <2>1, <2>2 DEF MovedDown
<1>11. MoveAt(d, s, n, p + 1)'
  <2>1. left' = n - (p + 1) /\ MovedDown(d, s, n, left)' /\ dst' = Wrap(d + left') /\ src' = Wrap(s + left')
    BY <1>3, <1>4, <1>5, <1>7, <1>10 DEF MovedDown
  <2> QED BY <1>2, <1>7, <2>1 DEF MoveAt
<1>12. left' \in 0 .. n /\ p + 1 \in 0 .. n
  BY <1>1, <1>3, <1>4
<1>13. Moving(d, s, n, p + 1)'
  BY <1>7, <1>11, <1>12 DEF Moving
<1> QED BY <1>9, <1>12, <1>13

LEMMA MoveStep ==
  ASSUME NEW d \in Dests, NEW s \in Dests, NEW n \in Counts, NEW p \in 0 .. n,
         Types, Moving(d, s, n, p), Move
  PROVE  Types' /\ \E q \in 0 .. n : Moving(d, s, n, q)'
<1>1. n \in Nat /\ d \in Nat /\ p \in Nat /\ pc \in {"moveUp", "moveDown"}
  BY BlockIs DEF Move
<1>2. CASE left = 0
  <2>1. pc' = "done" /\ UNCHANGED <<mem, words, dst, src, left, asked, count, shift, srcWord>>
    BY <1>2 DEF Move
  <2>2. Copied(d, s, n)
    <3>1. CASE pc = "moveUp"
      <4>1. Copied(d, s, p) /\ left = n - p
        BY <3>1 DEF Moving, MoveAt
      <4>2. p = n
        BY <1>1, <1>2, <4>1
      <4> QED BY <4>1, <4>2
    <3>2. CASE pc = "moveDown"
      <4>1. MovedDown(d, s, n, 0)
        BY <1>2, <3>2 DEF Moving, MoveAt
      <4> QED BY <1>1, <4>1, MovedAll
    <3> QED BY <1>1, <3>1, <3>2
  <2>3. MoveAt(d, s, n, p)'
    BY <1>2, <2>1, <2>2 DEF MoveAt, Copied
  <2>4. Moving(d, s, n, p)' /\ Types'
    BY <2>1, <2>3 DEF Moving, Types
  <2> QED BY <2>4
<1>3. CASE left # 0
  BY <1>1, <1>3, MoveUpStep, MoveDownStep
<1> QED BY <1>2, <1>3
-----------------------------------------------------------------------------
\* MemInv holds, whatever the call.
LEMMA MemInvInit == MemInit => MemInv
<1> SUFFICES ASSUME MemInit PROVE MemInv
  OBVIOUS
<1>1. Zero \in [1 .. 4 -> Byte]
  BY Sizes4 DEF Zero, Byte
<1>2. Types
  BY <1>1, Sizes4, MemAssumption DEF MemInit, Types
<1> QED BY <1>2 DEF MemInit, Idle, MemInv

LEMMA CopyStep ==
  ASSUME NEW d \in Dests, NEW s \in Srcs, NEW n \in Counts, NEW p \in 0 .. n,
         Types, Copy(d, s, n, p), MemNext
  PROVE  MemInv'
<1>1. pc \in {"align", "odd", "unrolled", "remaining", "done"}
  BY DEF Copy, CopyAt
<1>2. Align \/ Dispatch \/ OddWords \/ Unrolled \/ Remaining
  BY <1>1 DEF MemNext, MemStep, memcpy, memset, memmove, FillAlign, FillWords, FillBytes, Move
<1>3. Types' /\ \E q \in 0 .. n : Copy(d, s, n, q)'
  BY <1>2, AlignStep, DispatchStep, OddWordsStep, UnrolledStep, RemainingStep
<1> QED BY <1>3 DEF MemInv

LEMMA FillStep ==
  ASSUME NEW d \in Dests, NEW c0 \in Values, NEW v \in Byte, NEW n \in Counts, NEW p \in 0 .. n,
         Types, Fill(d, c0, v, n, p), MemNext
  PROVE  MemInv'
<1>1. pc \in {"fillAlign", "fillWords", "fillBytes", "done"}
  BY DEF Fill, FillAt
<1>2. FillAlign \/ FillWords \/ FillBytes
  BY <1>1 DEF MemNext, MemStep, memcpy, memset, memmove, Align, Dispatch, OddWords, Unrolled, Remaining, Move
<1>3. Types' /\ \E q \in 0 .. n : Fill(d, c0, v, n, q)'
  BY <1>2, FillAlignStep, FillWordsStep, FillBytesStep
<1> QED BY <1>3 DEF MemInv

LEMMA MovingStep ==
  ASSUME NEW d \in Dests, NEW s \in Dests, NEW n \in Counts, NEW p \in 0 .. n,
         Types, Moving(d, s, n, p), MemNext
  PROVE  MemInv'
<1>1. pc \in {"moveUp", "moveDown", "done"}
  BY DEF Moving, MoveAt
<1>2. Move
  BY <1>1 DEF MemNext, MemStep, memcpy, memset, memmove, Align, Dispatch, OddWords, Unrolled, Remaining,
        FillAlign, FillWords, FillBytes
<1>3. Types' /\ \E q \in 0 .. n : Moving(d, s, n, q)'
  BY <1>2, MoveStep
<1> QED BY <1>3 DEF MemInv

LEMMA CallStepIs == ASSUME Types, Idle, MemNext PROVE MemInv'
<1>1. /\ pc = "idle"
      /\ \E d \in Dests, n \in Counts : \/ \E s \in Srcs : memcpy(d, s, n)
                                        \/ \E c0 \in Values : memset(d, c0, n)
                                        \/ \E s \in Dests : memmove(d, s, n)
  BY DEF Idle, MemNext, MemStep, Align, Dispatch, OddWords, Unrolled, Remaining,
         FillAlign, FillWords, FillBytes, Move
<1>2. PICK d \in Dests, n \in Counts : \/ \E s \in Srcs : memcpy(d, s, n)
                                       \/ \E c0 \in Values : memset(d, c0, n)
                                       \/ \E s \in Dests : memmove(d, s, n)
  BY <1>1
<1>3. 0 \in 0 .. n
  BY BlockIs
<1>4. CASE \E s \in Srcs : memcpy(d, s, n)
  BY <1>3, <1>4, MemcpyStep DEF MemInv
<1>5. CASE \E c0 \in Values : memset(d, c0, n)
  BY <1>3, <1>5, MemsetStep DEF MemInv
<1>6. CASE \E s \in Dests : memmove(d, s, n)
  BY <1>3, <1>6, MemmoveStep DEF MemInv
<1> QED BY <1>2, <1>4, <1>5, <1>6

LEMMA MemInvStutters == MemInv /\ UNCHANGED memvars => MemInv'
<1> SUFFICES ASSUME MemInv, UNCHANGED memvars PROVE MemInv'
  OBVIOUS
<1>1. /\ mem' = mem /\ asked' = asked /\ pc' = pc /\ dst' = dst /\ src' = src /\ count' = count
      /\ left' = left /\ shift' = shift /\ srcWord' = srcWord /\ words' = words
  BY DEF memvars
<1>2. Types'
  BY <1>1 DEF MemInv, Types
<1>3. CASE Idle
  BY <1>1, <1>2, <1>3 DEF Idle, MemInv
<1>4. ASSUME NEW d \in Dests, NEW s \in Srcs, NEW n \in Counts, NEW p \in 0 .. n, Copy(d, s, n, p)
      PROVE  MemInv'
  <2>1. CopyAt(d, s, n, p)' /\ Copied(d, s, p)'
    BY <1>1, <1>4 DEF Copy, CopyAt, Copied, SourceAt
  <2>2. Copy(d, s, n, p)'
    BY <1>1, <1>4, <2>1 DEF Copy
  <2> QED BY <1>2, <2>2 DEF MemInv
<1>5. ASSUME NEW d \in Dests, NEW c0 \in Values, NEW v \in Byte, NEW n \in Counts, NEW p \in 0 .. n,
             Fill(d, c0, v, n, p)
      PROVE  MemInv'
  <2>1. Fill(d, c0, v, n, p)'
    BY <1>1, <1>5 DEF Fill, FillAt, Filled
  <2> QED BY <1>2, <2>1 DEF MemInv
<1>6. ASSUME NEW d \in Dests, NEW s \in Dests, NEW n \in Counts, NEW p \in 0 .. n, Moving(d, s, n, p)
      PROVE  MemInv'
  <2>1. Moving(d, s, n, p)'
    BY <1>1, <1>6 DEF Moving, MoveAt, MovedDown, Copied
  <2> QED BY <1>2, <2>1 DEF MemInv
<1> QED BY <1>3, <1>4, <1>5, <1>6 DEF MemInv

LEMMA MemInvStep == MemInv /\ [MemNext]_memvars => MemInv'
<1> SUFFICES ASSUME MemInv, MemNext PROVE MemInv'
  BY MemInvStutters
<1> QED BY CallStepIs, CopyStep, FillStep, MovingStep DEF MemInv

\* What a byte is, of the first p of a call's n bytes, of the others, and outside.
LEMMA ExactFromInv == MemInv => ExactBytes
<1> SUFFICES ASSUME MemInv, asked # NotAsked, NEW a \in Addr
             PROVE  mem[a] = Reference(a) \/ (pc # "done" /\ mem[a] = Mem0[a])
  BY DEF ExactBytes
<1>1. a \in Nat
  BY Sizes4
<1>2. ASSUME NEW d \in Dests, NEW s \in Srcs, NEW n \in Counts, NEW p \in 0 .. n, Copy(d, s, n, p)
      PROVE  mem[a] = Reference(a) \/ (pc # "done" /\ mem[a] = Mem0[a])
  <2>1. n \in Nat /\ d \in Nat /\ p \in Nat /\ p <= n
    BY BlockIs
  <2>2. Reference(a) = IF a \notin d .. d + n - 1 THEN Mem0[a] ELSE Mem0[s + (a - d)]
    BY <1>2 DEF Copy, Reference, Block
  <2>3. mem[a] = IF a \in d .. d + p - 1 THEN Mem0[s + (a - d)] ELSE Mem0[a]
    BY <1>2 DEF Copy, Copied
  <2>4. a \in d .. d + p - 1 => a \in d .. d + n - 1
    BY <1>1, <2>1
  <2>5. pc = "done" => p = n
    BY <1>2 DEF Copy, CopyAt
  <2> QED BY <2>2, <2>3, <2>4, <2>5
<1>3. ASSUME NEW d \in Dests, NEW c0 \in Values, NEW v \in Byte, NEW n \in Counts, NEW p \in 0 .. n,
             Fill(d, c0, v, n, p)
      PROVE  mem[a] = Reference(a) \/ (pc # "done" /\ mem[a] = Mem0[a])
  <2>1. n \in Nat /\ d \in Nat /\ p \in Nat /\ p <= n
    BY BlockIs
  <2>2. Reference(a) = IF a \notin d .. d + n - 1 THEN Mem0[a] ELSE v
    BY <1>3 DEF Fill, Reference, Block
  <2>3. mem[a] = IF a \in d .. d + p - 1 THEN v ELSE Mem0[a]
    BY <1>3 DEF Fill, Filled
  <2>4. a \in d .. d + p - 1 => a \in d .. d + n - 1
    BY <1>1, <2>1
  <2>5. pc = "done" => p = n
    BY <1>3 DEF Fill, FillAt
  <2> QED BY <2>2, <2>3, <2>4, <2>5
<1>4. ASSUME NEW d \in Dests, NEW s \in Dests, NEW n \in Counts, NEW p \in 0 .. n, Moving(d, s, n, p)
      PROVE  mem[a] = Reference(a) \/ (pc # "done" /\ mem[a] = Mem0[a])
  <2>1. n \in Nat /\ d \in Nat /\ p \in Nat /\ p <= n /\ left \in 0 .. n
    BY <1>4, BlockIs DEF Moving
  <2>2. Reference(a) = IF a \notin d .. d + n - 1 THEN Mem0[a] ELSE Mem0[s + (a - d)]
    BY <1>4 DEF Moving, Reference, Block
  <2>3. CASE pc = "moveUp"
    <3>1. mem[a] = IF a \in d .. d + p - 1 THEN Mem0[s + (a - d)] ELSE Mem0[a]
      BY <1>4, <2>3 DEF Moving, MoveAt, Copied
    <3>2. a \in d .. d + p - 1 => a \in d .. d + n - 1
      BY <1>1, <2>1
    <3> QED BY <2>2, <2>3, <3>1, <3>2
  <2>4. CASE pc = "moveDown"
    <3>1. mem[a] = IF a \in d + left .. d + n - 1 THEN Mem0[s + (a - d)] ELSE Mem0[a]
      BY <1>4, <2>4 DEF Moving, MoveAt, MovedDown
    <3>2. a \in d + left .. d + n - 1 => a \in d .. d + n - 1
      BY <1>1, <2>1
    <3> QED BY <2>2, <2>4, <3>1, <3>2
  <2>5. CASE pc = "done"
    BY <1>4, <2>2, <2>5 DEF Moving, MoveAt, Copied
  <2> QED BY <1>4, <2>3, <2>4, <2>5 DEF Moving, MoveAt
<1> QED BY <1>2, <1>3, <1>4 DEF MemInv, Idle

LEMMA MineFromInv == MemInv => WordsAreMine
<1> SUFFICES ASSUME MemInv PROVE WordsAreMine
  OBVIOUS
<1> DEFINE Good == /\ pc \in {"idle", "align", "odd", "unrolled", "remaining", "fillAlign", "fillWords",
                             "fillBytes", "moveUp", "moveDown", "done"}
                   /\ \A m \in {count, left} : m = 0 \/ \E c \in Counts : m <= c
                   /\ \A a \in words :
                        /\ a \in Addr /\ a % 4 = 0
                        /\ Block(a, 4) \cap (Block(asked.dest, asked.count)
                              \cup (IF asked.op = "memcpy" THEN Block(asked.src, asked.count) ELSE {})) # {}
<1>1. ASSUME Idle PROVE Good
  <2>1. pc = "idle" /\ count = 0 /\ left = 0 /\ words = {}
    BY <1>1 DEF Idle
  <2> QED BY <2>1
<1>2. ASSUME NEW d \in Dests, NEW s \in Srcs, NEW n \in Counts, NEW p \in 0 .. n, Copy(d, s, n, p)
      PROVE  Good
  <2>1. pc \in {"align", "odd", "unrolled", "remaining", "done"} /\ count <= n /\ left <= n
    BY <1>2, BlockIs DEF Copy, CopyAt
  <2>2. asked.op = "memcpy" /\ asked.dest = d /\ asked.src = s /\ asked.count = n
    BY <1>2 DEF Copy
  <2> QED BY <1>2, <2>1, <2>2 DEF Copy, Mine
<1>3. ASSUME NEW d \in Dests, NEW c0 \in Values, NEW v \in Byte, NEW n \in Counts, NEW p \in 0 .. n,
             Fill(d, c0, v, n, p)
      PROVE  Good
  <2>1. pc \in {"fillAlign", "fillWords", "fillBytes", "done"} /\ count <= n /\ left <= n
    BY <1>3, BlockIs DEF Fill, FillAt
  <2>2. asked.op = "memset" /\ asked.dest = d /\ asked.count = n
    BY <1>3 DEF Fill
  <2> QED BY <1>3, <2>1, <2>2 DEF Fill, Mine
<1>4. ASSUME NEW d \in Dests, NEW s \in Dests, NEW n \in Counts, NEW p \in 0 .. n, Moving(d, s, n, p)
      PROVE  Good
  <2>1. pc \in {"moveUp", "moveDown", "done"} /\ count = 0 /\ left <= n /\ words = {}
    BY <1>4, BlockIs DEF Moving, MoveAt
  <2> QED BY <2>1
<1>5. Good
  <2> HIDE DEF Good
  <2> QED BY <1>1, <1>2, <1>3, <1>4 DEF MemInv
<1>6. words \subseteq Addr /\ Types
  BY <1>5 DEF MemInv
<1>7. MemTypeOK
  BY <1>5, <1>6, Sizes4 DEF MemTypeOK, Types
<1> QED BY <1>5, <1>7, Sizes4 DEF WordsAreMine

\* Memory after memcpy, memset and memmove, and at every step of them, is what a
\* byte-wise implementation leaves or has not got to yet: for every pair of
\* alignments, every length, every contents of memory and every value, and for
\* memmove however the two blocks overlap.
THEOREM ExactBytesTheorem == MemSpec => []ExactBytes
<1>1. MemInit => MemInv
  BY MemInvInit
<1>2. MemInv /\ [MemNext]_memvars => MemInv'
  BY MemInvStep
<1>3. MemInv => ExactBytes
  BY ExactFromInv
<1> QED BY <1>1, <1>2, <1>3, PTL DEF MemSpec

\* Every access of memcpy, memset and memmove as a word is aligned, and to a word
\* that has a byte of the caller's, the words memcpy reads ahead included.
THEOREM WordsAreMineTheorem == MemSpec => []WordsAreMine
<1>1. MemInit => MemInv
  BY MemInvInit
<1>2. MemInv /\ [MemNext]_memvars => MemInv'
  BY MemInvStep
<1>3. MemInv => WordsAreMine
  BY MineFromInv
<1> QED BY <1>1, <1>2, <1>3, PTL DEF MemSpec
-----------------------------------------------------------------------------
(* How much a call has left to do.                                         *)

\* Which loop of a call of memcpy, memset or memmove is under way, counted from
\* the last one, and what its counter holds.
LoopsLeft == CASE pc = "align" -> 4
               [] pc \in {"odd", "fillAlign"} -> 3
               [] pc \in {"unrolled", "fillWords"} -> 2
               [] pc \in {"remaining", "fillBytes", "moveUp", "moveDown"} -> 1
               [] OTHER -> 0
Counter == IF pc = "align" THEN count ELSE left
MemWork == LoopsLeft * (ASIZE + 1) + Counter

LEMMA FewerLoops ==
  ASSUME NEW u \in Nat, NEW i \in 0 .. 4, NEW k \in 0 .. 4, NEW a \in 0 .. u, NEW b \in 0 .. u,
         k < i \/ (k = i /\ b < a)
  PROVE  k * (u + 1) + b \in Nat /\ k * (u + 1) + b < i * (u + 1) + a
<1>1. /\ 0 * (u + 1) = 0 /\ 1 * (u + 1) = u + 1 /\ 2 * (u + 1) = 2 * u + 2
      /\ 3 * (u + 1) = 3 * u + 3 /\ 4 * (u + 1) = 4 * u + 4
  OBVIOUS
<1>2. (i = 0 \/ i = 1 \/ i = 2 \/ i = 3 \/ i = 4) /\ (k = 0 \/ k = 1 \/ k = 2 \/ k = 3 \/ k = 4)
  OBVIOUS
<1> QED BY <1>1, <1>2

LEMMA WorkFalls ==
  ASSUME Counter \in 0 .. ASIZE, Counter' \in 0 .. ASIZE, LoopsLeft \in 0 .. 4, LoopsLeft' \in 0 .. 4,
         LoopsLeft' < LoopsLeft \/ (LoopsLeft' = LoopsLeft /\ Counter' < Counter)
  PROVE  MemWork' \in Nat /\ MemWork' < MemWork
BY FewerLoops, Sizes4 DEF MemWork

\* While a call is under way no counter is larger than its length, and one that
\* is decremented before it is tested is not 0.
LEMMA CountersAre ==
  ASSUME MemInv, asked # NotAsked
  PROVE  /\ pc # "idle" /\ count \in 0 .. ASIZE /\ left \in 0 .. ASIZE /\ ASIZE \in Nat
         /\ pc = "align" => count > 0
         /\ pc \in {"fillAlign", "fillWords"} => left > 0
         /\ left > 0 => Dec(left) = left - 1
         /\ count > 0 => Dec(count) = count - 1
<1>1. ASSUME NEW n \in Counts, NEW d \in Dests, count \in 0 .. n, left \in 0 .. n
      PROVE  /\ count \in 0 .. ASIZE /\ left \in 0 .. ASIZE
             /\ left > 0 => Dec(left) = left - 1
             /\ count > 0 => Dec(count) = count - 1
  <2>1. n \in Nat /\ d \in Nat /\ d + n <= ASIZE
    BY BlockIs
  <2> QED BY <1>1, <2>1, CountIs, Sizes4
<1>2. ASIZE \in Nat /\ ~Idle
  BY Sizes4 DEF Idle
<1>3. ASSUME NEW d \in Dests, NEW s \in Srcs, NEW n \in Counts, NEW p \in 0 .. n, Copy(d, s, n, p)
      PROVE  /\ count \in 0 .. n /\ left \in 0 .. n
             /\ pc \in {"align", "odd", "unrolled", "remaining", "done"} /\ (pc = "align" => count > 0)
  <2>1. n \in Nat /\ d \in Nat /\ p \in Nat
    BY BlockIs
  <2>4. d % 4 \in 0 .. 3
    BY <2>1
  <2>2. pc = "align" => n >= 8 /\ (d % 4) + p <= 4 /\ count = n - p
    BY <1>3 DEF Copy, CopyAt
  <2>3. pc = "align" => count > 0
    BY <2>1, <2>2, <2>4
  <2> QED BY <1>3, <2>3 DEF Copy, CopyAt
<1>4. ASSUME NEW d \in Dests, NEW c0 \in Values, NEW v \in Byte, NEW n \in Counts, NEW p \in 0 .. n,
             Fill(d, c0, v, n, p)
      PROVE  /\ count \in 0 .. n /\ left \in 0 .. n
             /\ pc \in {"fillAlign", "fillWords", "fillBytes", "done"}
             /\ (pc \in {"fillAlign", "fillWords"} => left > 0)
  <2>1. left \in 1 .. 3 \/ left >= 1 => left > 0
    BY <1>4 DEF Fill
  <2> QED BY <1>4, <2>1 DEF Fill, FillAt
<1>5. ASSUME NEW d \in Dests, NEW s \in Dests, NEW n \in Counts, NEW p \in 0 .. n, Moving(d, s, n, p)
      PROVE  count \in 0 .. n /\ left \in 0 .. n /\ pc \in {"moveUp", "moveDown", "done"}
  <2>1. n \in Nat
    BY BlockIs
  <2> QED BY <1>5, <2>1 DEF Moving, MoveAt
<1>6. CASE \E d \in Dests, s \in Srcs, n \in Counts : \E p \in 0 .. n : Copy(d, s, n, p)
  BY <1>1, <1>2, <1>3, <1>6
<1>7. CASE \E d \in Dests, c0 \in Values, v \in Byte, n \in Counts : \E p \in 0 .. n : Fill(d, c0, v, n, p)
  BY <1>1, <1>2, <1>4, <1>7
<1>8. CASE \E d \in Dests, s \in Dests, n \in Counts : \E p \in 0 .. n : Moving(d, s, n, p)
  BY <1>1, <1>2, <1>5, <1>8
<1> QED BY <1>2, <1>6, <1>7, <1>8 DEF MemInv

LEMMA MemStepWorks == ASSUME MemInv, asked # NotAsked, MemStep PROVE MemWork' \in Nat /\ MemWork' < MemWork
<1>1. /\ count \in Nat /\ left \in Nat /\ count <= ASIZE /\ left <= ASIZE /\ ASIZE \in Nat /\ W = 4
      /\ pc = "align" => count > 0
      /\ pc \in {"fillAlign", "fillWords"} => left > 0
      /\ left > 0 => Dec(left) = left - 1
      /\ count > 0 => Dec(count) = count - 1
  BY CountersAre, Sizes4
<1>2. LoopsLeft \in 0 .. 4 /\ LoopsLeft' \in 0 .. 4 /\ Counter \in 0 .. ASIZE
  BY <1>1 DEF LoopsLeft, Counter
<1>3. ASSUME NEW x \in Nat, x <= ASIZE
      PROVE  x \div 4 \in 0 .. ASIZE /\ x % 4 \in 0 .. ASIZE /\ x \div 8 \in 0 .. ASIZE
  BY <1>1, <1>3
<1>4. CASE Align
  <2>1. pc = "align" /\ pc' = "align" /\ count' = count - 1
    BY <1>1, <1>4 DEF Align
  <2>2. LoopsLeft' = LoopsLeft /\ Counter = count /\ Counter' = count - 1
    BY <2>1 DEF LoopsLeft, Counter
  <2> QED BY <1>1, <1>2, <2>1, <2>2, WorkFalls
<1>5. CASE Dispatch
  <2>1. pc = "align" /\ pc' = "odd" /\ left' = count \div 4
    BY <1>1, <1>5 DEF Dispatch
  <2>2. LoopsLeft = 4 /\ LoopsLeft' = 3 /\ Counter' = left'
    BY <2>1 DEF LoopsLeft, Counter
  <2> QED BY <1>1, <1>2, <1>3, <2>1, <2>2, WorkFalls
<1>6. CASE OddWords
  <2>1. CASE left % 8 # 0
    <3>1. pc = "odd" /\ pc' = "odd" /\ left' = Dec(left) /\ left > 0
      BY <1>1, <1>6, <2>1 DEF OddWords
    <3>2. LoopsLeft' = LoopsLeft /\ Counter = left /\ Counter' = left - 1
      BY <1>1, <3>1 DEF LoopsLeft, Counter
    <3> QED BY <1>1, <1>2, <3>1, <3>2, WorkFalls
  <2>2. CASE left % 8 = 0
    <3>1. pc = "odd" /\ pc' = "unrolled" /\ left' = left \div 8
      BY <1>6, <2>2 DEF OddWords
    <3>2. LoopsLeft = 3 /\ LoopsLeft' = 2 /\ Counter' = left'
      BY <3>1 DEF LoopsLeft, Counter
    <3> QED BY <1>1, <1>2, <1>3, <3>1, <3>2, WorkFalls
  <2> QED BY <2>1, <2>2
<1>7. CASE Unrolled
  <2>1. CASE left # 0
    <3>1. pc = "unrolled" /\ pc' = "unrolled" /\ left' = Dec(left) /\ left > 0
      BY <1>1, <1>7, <2>1 DEF Unrolled
    <3>2. LoopsLeft' = LoopsLeft /\ Counter = left /\ Counter' = left - 1
      BY <1>1, <3>1 DEF LoopsLeft, Counter
    <3> QED BY <1>1, <1>2, <3>1, <3>2, WorkFalls
  <2>2. CASE left = 0
    <3>1. pc = "unrolled" /\ pc' = "remaining" /\ left' = count % 4
      BY <1>1, <1>7, <2>2 DEF Unrolled
    <3>2. LoopsLeft = 2 /\ LoopsLeft' = 1 /\ Counter' = left'
      BY <3>1 DEF LoopsLeft, Counter
    <3> QED BY <1>1, <1>2, <1>3, <3>1, <3>2, WorkFalls
  <2> QED BY <2>1, <2>2
<1>8. CASE Remaining
  <2>1. CASE left \in 1 .. 7
    <3>1. pc = "remaining" /\ pc' = "remaining" /\ left' = Dec(left) /\ left > 0
      BY <1>1, <1>8, <2>1 DEF Remaining
    <3>2. LoopsLeft' = LoopsLeft /\ Counter = left /\ Counter' = left - 1
      BY <1>1, <3>1 DEF LoopsLeft, Counter
    <3> QED BY <1>1, <1>2, <3>1, <3>2, WorkFalls
  <2>2. CASE left \notin 1 .. 7
    <3>1. pc = "remaining" /\ pc' = "done" /\ left' = left
      BY <1>8, <2>2 DEF Remaining
    <3>2. LoopsLeft = 1 /\ LoopsLeft' = 0 /\ Counter' = left
      BY <3>1 DEF LoopsLeft, Counter
    <3> QED BY <1>1, <1>2, <3>2, WorkFalls
  <2> QED BY <2>1, <2>2
<1>9. CASE FillAlign
  <2>1. CASE Dec(left) # 0
    <3>1. pc = "fillAlign" /\ pc' = "fillAlign" /\ left' = Dec(left) /\ left > 0
      BY <1>1, <1>9, <2>1 DEF FillAlign
    <3>2. LoopsLeft' = LoopsLeft /\ Counter = left /\ Counter' = left - 1
      BY <1>1, <3>1 DEF LoopsLeft, Counter
    <3> QED BY <1>1, <1>2, <3>1, <3>2, WorkFalls
  <2>2. CASE Dec(left) = 0
    <3>1. pc = "fillAlign" /\ pc' = "fillWords" /\ left' = count \div 4
      BY <1>1, <1>9, <2>2 DEF FillAlign
    <3>2. LoopsLeft = 3 /\ LoopsLeft' = 2 /\ Counter' = left'
      BY <3>1 DEF LoopsLeft, Counter
    <3> QED BY <1>1, <1>2, <1>3, <3>1, <3>2, WorkFalls
  <2> QED BY <2>1, <2>2
<1>10. CASE FillWords
  <2>1. CASE Dec(left) # 0
    <3>1. pc = "fillWords" /\ pc' = "fillWords" /\ left' = Dec(left) /\ left > 0
      BY <1>1, <1>10, <2>1 DEF FillWords
    <3>2. LoopsLeft' = LoopsLeft /\ Counter = left /\ Counter' = left - 1
      BY <1>1, <3>1 DEF LoopsLeft, Counter
    <3> QED BY <1>1, <1>2, <3>1, <3>2, WorkFalls
  <2>2. CASE Dec(left) = 0
    <3>1. pc = "fillWords" /\ pc' = "fillBytes" /\ left' = count % 4
      BY <1>1, <1>10, <2>2 DEF FillWords
    <3>2. LoopsLeft = 2 /\ LoopsLeft' = 1 /\ Counter' = left'
      BY <3>1 DEF LoopsLeft, Counter
    <3> QED BY <1>1, <1>2, <1>3, <3>1, <3>2, WorkFalls
  <2> QED BY <2>1, <2>2
<1>11. CASE FillBytes
  <2>1. CASE left # 0
    <3>1. pc = "fillBytes" /\ pc' = "fillBytes" /\ left' = Dec(left) /\ left > 0
      BY <1>1, <1>11, <2>1 DEF FillBytes
    <3>2. LoopsLeft' = LoopsLeft /\ Counter = left /\ Counter' = left - 1
      BY <1>1, <3>1 DEF LoopsLeft, Counter
    <3> QED BY <1>1, <1>2, <3>1, <3>2, WorkFalls
  <2>2. CASE left = 0
    <3>1. pc = "fillBytes" /\ pc' = "done" /\ left' = left
      BY <1>11, <2>2 DEF FillBytes
    <3>2. LoopsLeft = 1 /\ LoopsLeft' = 0 /\ Counter' = left
      BY <3>1 DEF LoopsLeft, Counter
    <3> QED BY <1>1, <1>2, <3>2, WorkFalls
  <2> QED BY <2>1, <2>2
<1>12. CASE Move
  <2>1. CASE left # 0
    <3>1. pc \in {"moveUp", "moveDown"} /\ pc' = pc /\ left' = Dec(left) /\ left > 0
      BY <1>1, <1>12, <2>1 DEF Move
    <3>2. LoopsLeft' = LoopsLeft /\ Counter = left /\ Counter' = left - 1
      BY <1>1, <3>1 DEF LoopsLeft, Counter
    <3> QED BY <1>1, <1>2, <3>1, <3>2, WorkFalls
  <2>2. CASE left = 0
    <3>1. pc \in {"moveUp", "moveDown"} /\ pc' = "done" /\ left' = left
      BY <1>12, <2>2 DEF Move
    <3>2. LoopsLeft = 1 /\ LoopsLeft' = 0 /\ Counter' = left
      BY <3>1 DEF LoopsLeft, Counter
    <3> QED BY <1>1, <1>2, <3>2, WorkFalls
  <2> QED BY <2>1, <2>2
<1> QED BY <1>4, <1>5, <1>6, <1>7, <1>8, <1>9, <1>10, <1>11, <1>12 DEF MemStep

\* No call takes more than a bounded number of steps: every one lowers a natural
\* number.  The loops that decrement an unsigned counter before they test it are
\* never entered with 0.
THEOREM MemCallsAreBounded == MemSpec => [][asked # NotAsked => MemWork' \in Nat /\ MemWork' < MemWork]_memvars
<1>1. MemInv /\ [MemNext]_memvars => [asked # NotAsked => MemWork' \in Nat /\ MemWork' < MemWork]_memvars
  <2> SUFFICES ASSUME MemInv, MemNext, asked # NotAsked PROVE MemWork' \in Nat /\ MemWork' < MemWork
    OBVIOUS
  <2>1. pc # "idle"
    BY CountersAre
  <2>2. MemStep
    BY <2>1 DEF MemNext, memcpy, memset, memmove
  <2> QED BY <2>2, MemStepWorks
<1> QED BY <1>1, MemInvInit, MemInvStep, PTL DEF MemSpec
=============================================================================
