------------------------------- MODULE Memops -------------------------------
(***************************************************************************)
(* memcpy (lib/memcpy.c), memset (lib/memset.c) and memmove (lib/string.c), *)
(* as configured for this kernel: little endian, words of W bytes, indexed *)
(* copying.  One call, in steps of a byte, a word, or the eight words of   *)
(* the unrolled loop; a task can be preempted between any two of them.     *)
(*                                                                         *)
(* A word is the sequence of its bytes from the least significant one on,  *)
(* so that shifting it by a multiple of 8 moves bytes.  Addresses and      *)
(* counters wrap at ASIZE.                                                 *)
(***************************************************************************)
EXTENDS Integers, Sequences

CONSTANTS
    ASIZE,              \* 2^32
    W,                  \* TYPE_WIDTH, wsize
    Dests, Srcs,        \* addresses callers pass
    Counts,             \* lengths callers pass
    Values,             \* values of c0
    Mem0                \* what memory holds before the call

Addr == 0 .. ASIZE - 1
Byte == 0 .. 255
Block(a, n) == a .. a + n - 1

ASSUME MemAssumption ==
    /\ W = 4 /\ ASIZE \in Nat \ {0} /\ ASIZE % W = 0
    /\ Mem0 \in [Addr -> Byte]
    /\ Dests \cup Srcs \subseteq Addr /\ Values \subseteq Nat /\ Counts \subseteq Nat
    /\ \A n \in Counts :
          /\ \A a \in Dests \cup Srcs : Block(a, n) \subseteq Addr
          /\ \A d \in Dests, s \in Srcs : Block(d, n) \cap Block(s, n) = {}      \* "No overlap check is performed."

VARIABLES
    mem,         \* what every byte of memory holds
    asked,       \* the call: what was asked for
    pc,          \* the loop the call is in
    dst, src,    \* dst8 and src8, or dstN and srcN
    count,       \* memcpy's count, memset's length
    left,        \* what is left of the loop: length, t, or the count of a switch
    shift,       \* which COPY_SHIFT, 0 for COPY_NO_SHIFT
    srcWord,     \* the source word read last
    words        \* the addresses the last step accessed as words

memvars == <<mem, asked, pc, dst, src, count, left, shift, srcWord, words>>

Zero == [i \in 1 .. W |-> 0]
NotAsked == [op |-> "none"]

MemTypeOK ==
    /\ mem \in [Addr -> Byte]
    /\ pc \in {"idle", "align", "odd", "unrolled", "remaining", "fillAlign", "fillWords", "fillBytes",
              "moveUp", "moveDown", "done"}
    /\ dst \in Addr /\ src \in Addr /\ words \subseteq Addr
    /\ \A n \in {count, left} : n = 0 \/ \E c \in Counts : n <= c
    /\ shift \in 0 .. W - 1 /\ srcWord \in [1 .. W -> Byte]

MemInit == /\ mem = Mem0 /\ asked = NotAsked /\ pc = "idle"
           /\ dst = 0 /\ src = 0 /\ count = 0 /\ left = 0
           /\ shift = 0 /\ srcWord = Zero /\ words = {}
-----------------------------------------------------------------------------
(* Bytes and words.                                                        *)

Wrap(x) == x % ASIZE
Unmasked(a) == a
Masked(a) == a - (a % W)             \* a & ~(TYPE_WIDTH - 1)
ByteOf(c) == c % 256

WordAt(a) == [i \in 1 .. W |-> mem[Wrap(a + i - 1)]]

\* w >> 8*k and w << 8*k.
Down(w, k) == [i \in 1 .. W |-> IF i + k <= W THEN w[i + k] ELSE 0]
Up(w, k) == [i \in 1 .. W |-> IF i > k THEN w[i - k] ELSE 0]
SHL(w, k) == Down(w, k)
SHR(w, k) == Up(w, k)
\* x | y, of two bytes.
OrByte(x, y) ==
    LET bit(n, k) == (n \div 2 ^ k) % 2
        or[k \in 0 .. 8] == IF k = 0 THEN 0
                            ELSE or[k - 1] + 2 ^ (k - 1) * (IF bit(x, k - 1) + bit(y, k - 1) = 0 THEN 0 ELSE 1)
    IN  IF x = 0 THEN y ELSE IF y = 0 THEN x ELSE or[8]
OrWords(v, w) == [i \in 1 .. W |-> OrByte(v[i], w[i])]

StoreByte(a, b) == mem' = [mem EXCEPT ![a] = b] /\ words' = {}
\* The words ws, one behind the other, from a on.
StoreWords(a, ws) ==
    mem' = [x \in Addr |-> IF Wrap(x - a) < Len(ws) * W
                           THEN ws[(Wrap(x - a) \div W) + 1][(Wrap(x - a) % W) + 1] ELSE mem[x]]
WordsFrom(a, n) == {Wrap(a + i * W) : i \in 0 .. n - 1}

Same(n) == n
Dec(n) == Wrap(n - 1)
-----------------------------------------------------------------------------
(* memcpy.                                                                 *)

memcpy(dest, s, n) ==
    /\ pc = "idle"
    /\ asked' = [op |-> "memcpy", dest |-> dest, src |-> s, count |-> n]
    /\ dst' = dest /\ src' = s /\ count' = n
    /\ IF n < 8 THEN pc' = "remaining" /\ left' = n
                ELSE pc' = "align" /\ UNCHANGED left
    /\ UNCHANGED <<mem, shift, srcWord, words>>

CopyByte == /\ StoreByte(dst, mem[src])
            /\ dst' = Wrap(dst + 1) /\ src' = Wrap(src + 1)

Align == /\ pc = "align" /\ dst % W # 0
         /\ CopyByte
         /\ count' = Dec(count)
         /\ UNCHANGED <<asked, pc, left, shift, srcWord>>

\* The switch on the alignment of the source, and the first lines of the
\* macro it selects: COPY_SHIFT reads the word the source begins in.
Dispatch ==
    /\ pc = "align" /\ dst % W = 0
    /\ pc' = "odd" /\ left' = count \div W /\ shift' = src % W
    /\ IF src % W = 0
       THEN UNCHANGED <<src, srcWord, words>>
       ELSE /\ srcWord' = WordAt(Masked(src)) /\ words' = {Masked(src)}
            /\ src' = Wrap(Masked(src) + W)
    /\ UNCHANGED <<mem, asked, dst, count>>

\* CP and CP_SH, n times.
CopyWords(n) ==
    LET in == [i \in 0 .. n |-> IF i = 0 THEN srcWord ELSE WordAt(src + (i - 1) * W)]
        out == [i \in 1 .. n |-> IF shift = 0 THEN in[i]
                                 ELSE OrWords(SHL(in[i - 1], shift), SHR(in[i], W - shift))]
    IN  /\ StoreWords(dst, out)
        /\ words' = WordsFrom(dst, n) \cup WordsFrom(src, n)
        /\ srcWord' = IF shift = 0 THEN srcWord ELSE in[n]
        /\ dst' = Wrap(dst + n * W) /\ src' = Wrap(src + n * W)

OddWords == /\ pc = "odd"
            /\ IF left % 8 # 0
               THEN CopyWords(1) /\ left' = Dec(left) /\ UNCHANGED pc
               ELSE pc' = "unrolled" /\ left' = left \div 8 /\ UNCHANGED <<mem, dst, src, srcWord, words>>
            /\ UNCHANGED <<asked, count, shift>>

\* After the last word srcN is one word past the one the next byte is in.
Behind(s) == IF shift = 0 THEN s ELSE Wrap(s + shift - W)

Unrolled == /\ pc = "unrolled"
            /\ IF left # 0
               THEN CopyWords(8) /\ left' = Dec(left) /\ UNCHANGED pc
               ELSE /\ pc' = "remaining" /\ left' = count % W /\ src' = Behind(src)
                    /\ UNCHANGED <<mem, dst, srcWord, words>>
            /\ UNCHANGED <<asked, count, shift>>

\* COPY_REMAINING: the cases fall through from 7 down to 1.
Remaining == /\ pc = "remaining"
             /\ IF left \in 1 .. 7
                THEN CopyByte /\ left' = Dec(left) /\ UNCHANGED pc
                ELSE pc' = "done" /\ UNCHANGED <<mem, words, dst, src, left>>
             /\ UNCHANGED <<asked, count, shift, srcWord>>
-----------------------------------------------------------------------------
(* memset.                                                                 *)

ShortFill(n) == n < 3 * W

memset(dst0, c0, n) ==
    LET t == W - (dst0 % W)
    IN  /\ pc = "idle"
        /\ asked' = [op |-> "memset", dest |-> dst0, c0 |-> c0, count |-> n]
        /\ dst' = dst0
        /\ \/ ShortFill(n) /\ pc' = "fillBytes" /\ left' = n /\ count' = n
           \/ ~ShortFill(n) /\ t # W /\ pc' = "fillAlign" /\ left' = t /\ count' = n - t
           \/ ~ShortFill(n) /\ t = W /\ pc' = "fillWords" /\ left' = n \div W /\ count' = n
        /\ UNCHANGED <<mem, src, shift, srcWord, words>>

\* The byte in every byte of a word: (c << 8) | c, then (c << 16) | c.
WIDEVAL(c0) == LET c == [Zero EXCEPT ![1] = ByteOf(c0)]
                   cc == OrWords(Up(c, 1), c)
               IN  OrWords(Up(cc, 2), cc)

FillByte == StoreByte(dst, ByteOf(asked.c0)) /\ dst' = Wrap(dst + 1)

FillAlign == /\ pc = "fillAlign"
             /\ FillByte
             /\ IF Dec(left) # 0 THEN left' = Dec(left) /\ UNCHANGED pc
                                 ELSE left' = count \div W /\ pc' = "fillWords"
             /\ UNCHANGED <<asked, src, count, shift, srcWord>>

FillWords == /\ pc = "fillWords"
             /\ StoreWords(dst, <<WIDEVAL(asked.c0)>>) /\ words' = {dst} /\ dst' = Wrap(dst + W)
             /\ IF Dec(left) # 0 THEN left' = Dec(left) /\ UNCHANGED pc
                                 ELSE left' = count % W /\ pc' = "fillBytes"
             /\ UNCHANGED <<asked, src, count, shift, srcWord>>

\* A short fill, or the trailing bytes.
FillBytes == /\ pc = "fillBytes"
             /\ IF left # 0 THEN FillByte /\ left' = Dec(left) /\ UNCHANGED pc
                            ELSE pc' = "done" /\ UNCHANGED <<mem, words, dst, left>>
             /\ UNCHANGED <<asked, src, count, shift, srcWord>>

-----------------------------------------------------------------------------
(* memmove.                                                                *)

\* From the front if the destination is not behind the source, if not from the
\* back; tmp and s are dst and src.
UpFirst(dest, s) == dest <= s

memmove(dest, s, n) ==
    /\ pc = "idle"
    /\ asked' = [op |-> "memmove", dest |-> dest, src |-> s, count |-> n]
    /\ IF UpFirst(dest, s)
       THEN pc' = "moveUp" /\ dst' = dest /\ src' = s
       ELSE pc' = "moveDown" /\ dst' = Wrap(dest + n) /\ src' = Wrap(s + n)
    /\ left' = n
    /\ UNCHANGED <<mem, count, shift, srcWord, words>>

\* while (count--)
Move == /\ pc \in {"moveUp", "moveDown"}
        /\ IF left = 0 THEN pc' = "done" /\ UNCHANGED <<mem, words, dst, src, left>>
           ELSE /\ \/ pc = "moveUp" /\ CopyByte
                   \/ /\ pc = "moveDown"
                      /\ StoreByte(Wrap(dst - 1), mem[Wrap(src - 1)])
                      /\ dst' = Wrap(dst - 1) /\ src' = Wrap(src - 1)
                /\ left' = Dec(left) /\ UNCHANGED pc
        /\ UNCHANGED <<asked, count, shift, srcWord>>

MemStep == \/ Align \/ Dispatch \/ OddWords \/ Unrolled \/ Remaining
           \/ FillAlign \/ FillWords \/ FillBytes
           \/ Move

MemNext == \/ \E d \in Dests, n \in Counts :
                 \/ \E s \in Srcs : memcpy(d, s, n)
                 \/ \E c0 \in Values : memset(d, c0, n)
                 \/ \E s \in Dests : memmove(d, s, n)      \* they overlap
           \/ MemStep

MemSpec == MemInit /\ [][MemNext]_memvars /\ WF_memvars(MemStep)
-----------------------------------------------------------------------------
\* What a byte-wise implementation leaves.
Reference(a) == IF a \notin Block(asked.dest, asked.count) THEN Mem0[a]
                ELSE IF asked.op \in {"memcpy", "memmove"} THEN Mem0[asked.src + (a - asked.dest)]
                ELSE ByteOf(asked.c0)

\* When memcpy, memset and memmove return, the destination holds exactly the
\* bytes asked for, whatever the alignment of either end, and for memmove however
\* the two overlap.  Whoever preempts the call finds every byte either as it was
\* or as it will be, and none outside changed.
ExactBytes ==
    asked # NotAsked =>
        \A a \in Addr : mem[a] = Reference(a) \/ (pc # "done" /\ mem[a] = Mem0[a])

\* Every access as a word is aligned, and to a word that has a byte of the
\* source or of the destination: the words memcpy reads ahead never reach into
\* a page the caller has no byte in.
WordsAreMine ==
    /\ MemTypeOK
    /\ \A a \in words :
          /\ a % W = 0
          /\ Block(a, W) \cap (Block(asked.dest, asked.count)
                 \cup (IF asked.op = "memcpy" THEN Block(asked.src, asked.count) ELSE {})) # {}

\* Every call returns: the counters of the do loops, which are unsigned, never
\* pass zero.
Returns == (asked # NotAsked) ~> (pc = "done")
=============================================================================
