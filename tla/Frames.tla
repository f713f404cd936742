------------------------------- MODULE Frames -------------------------------
(***************************************************************************)
(* The frames of physical memory: kernel/frame.c over the bitmaps of       *)
(* kernel/bitmap.c.                                                        *)
(*                                                                         *)
(* The instructions of bitmap_mark and bitmap_reset are commented out, so  *)
(* that the bits keep what memory held when the bitmap was laid over it:   *)
(* any value.  ASSERT is empty, and bits past bit_cnt are read like the    *)
(* others.                                                                 *)
(***************************************************************************)
EXTENDS Integers, Sequences, FiniteSetsExt

CONSTANTS
    PAGE_SIZE,
    ROUND,            \* what PAGE_ROUNDUP rounds to
    BITMAP_HDR,       \* sizeof(struct bitmap)
    ELEM_SIZE,        \* sizeof(elem_type)
    ELEM_BITS,
    RamMaps,          \* values of g_ram_zone: sequences of <<from, to>>
    Counts,           \* values of nframes
    Callers           \* those who hold frames

ASSUME FrameAssumption ==
    /\ {PAGE_SIZE, ROUND, BITMAP_HDR, ELEM_SIZE, ELEM_BITS} \subseteq Nat \ {0}
    /\ ROUND % PAGE_SIZE = 0
    /\ \A ram \in RamMaps : ram \in Seq(Nat \X Nat)
    /\ Counts \subseteq Nat \ {0} /\ Counts # {} /\ IsFiniteSet(Counts)

BITMAP_ERROR == -1

VARIABLES
    pmzone,   \* the zones: base, limit, bit_cnt, and the set of the bits that are 1
    held      \* caller -> the frames it was given

fvars == <<pmzone, held>>
-----------------------------------------------------------------------------
PAGE_ROUNDUP(x) == x + ROUND - (x % ROUND)     \* a multiple of ROUND grows, too
DIV_ROUND_UP(x, step) == (x + step - 1) \div step
bitmap_buf_size(bit_cnt) == BITMAP_HDR + ELEM_SIZE * DIV_ROUND_UP(bit_cnt, ELEM_BITS)

\* What init_frame makes of one entry of g_ram_zone: the bitmap takes the first
\* pages, and has a bit for each page the zone had before that.
ZoneOf(z) ==
    LET bit_cnt == (z[2] - z[1]) \div PAGE_SIZE
        size == PAGE_ROUNDUP(bitmap_buf_size(bit_cnt))
    IN  [base |-> z[1] + size, limit |-> z[2] - z[1] - size, bit_cnt |-> bit_cnt]

\* No entry ends before it begins or is smaller than its bitmap, where limit
\* would wrap.
ASSUME RamAssumption ==
    \A ram \in RamMaps : \A i \in DOMAIN ram :
        /\ ram[i][1] <= ram[i][2]
        /\ ram[i][1] = ram[i][2] \/ ZoneOf(ram[i]).limit >= 0

\* The entries before the first empty one, without those that are all bitmap; a
\* zone keeps the index of its entry, where the code packs the zones.
ZonesOf(ram) ==
    LET empty == {i \in DOMAIN ram : ram[i][2] = ram[i][1]}
        upto == IF empty = {} THEN Len(ram) ELSE Min(empty) - 1
    IN  [i \in {j \in 1 .. upto : ZoneOf(ram[j]).limit # 0} |-> ZoneOf(ram[i])]

\* The bits a call can read: a run of frames may begin with the last one.
Readable(z) == 0 .. z.bit_cnt + Max(Counts) - 1

init_frame(ram) ==
    LET zones == ZonesOf(ram)
    IN  {[i \in DOMAIN zones |-> [base |-> zones[i].base, limit |-> zones[i].limit,
                                  bit_cnt |-> zones[i].bit_cnt, bits |-> f[i]]] :
           f \in {g \in [DOMAIN zones -> UNION {SUBSET Readable(zones[i]) : i \in DOMAIN zones}] :
                    \A i \in DOMAIN zones : g[i] \subseteq Readable(zones[i])}}
-----------------------------------------------------------------------------
(* The bitmap.                                                             *)

SetMark(bits, i) == bits \cup {i}
bitmap_mark(bits, i) == bits
bitmap_reset(bits, i) == bits
bitmap_set_multiple(bits, start, cnt, value) ==
    LET after[k \in 0 .. cnt] ==
            IF k = 0 THEN bits
            ELSE IF value THEN bitmap_mark(after[k - 1], start + k - 1)
            ELSE bitmap_reset(after[k - 1], start + k - 1)
    IN  after[cnt]

bitmap_none(bits, start, cnt) == \A i \in start .. start + cnt - 1 : i \notin bits

\* The first run of cnt clear bits.
ScanPastEnd(b, cnt) == {i \in 0 .. b.bit_cnt - cnt + 1 : bitmap_none(b.bits, i, cnt)}
Runs(b, cnt) == {i \in 0 .. b.bit_cnt - cnt : bitmap_none(b.bits, i, cnt)}
bitmap_scan(b, cnt) == IF Runs(b, cnt) = {} THEN BITMAP_ERROR ELSE Min(Runs(b, cnt))
-----------------------------------------------------------------------------
(* The frames.                                                             *)

SetBits(z, idx, n, value) ==
    [pmzone EXCEPT ![z].bits = bitmap_set_multiple(@, idx, n, value)]
Frame(z, idx) == pmzone[z].base + idx * PAGE_SIZE
IndexOf(z, pa) == (pa - pmzone[z].base) \div PAGE_SIZE
FramesAt(pa, n) == {pa + i * PAGE_SIZE : i \in 0 .. n - 1}
InZone(z, pa) == pa >= pmzone[z].base /\ pa < pmzone[z].base + pmzone[z].limit

\* The zone and index frame_alloc takes, the zone being 0 if it fails.
Choice(n) ==
    LET zs == {z \in DOMAIN pmzone : bitmap_scan(pmzone[z], n) # BITMAP_ERROR}
    IN  IF zs = {} THEN [zone |-> 0, idx |-> 0]
        ELSE [zone |-> Min(zs), idx |-> bitmap_scan(pmzone[Min(zs)], n)]
Answer(n) == LET c == Choice(n) IN IF c.zone = 0 THEN BITMAP_ERROR ELSE Frame(c.zone, c.idx)

\* frame_alloc as a function: the zones after it.
Taken(n) == LET c == Choice(n) IN IF c.zone = 0 THEN pmzone ELSE SetBits(c.zone, c.idx, n, TRUE)

Got(c, pa, n) == held' = [held EXCEPT ![c] = @ \cup FramesAt(pa, n)]

frame_alloc(c, n) ==
    /\ pmzone' = Taken(n)
    /\ IF Answer(n) = BITMAP_ERROR THEN UNCHANGED held ELSE Got(c, Answer(n), n)

frame_alloc_in_addr(c, pa, n) ==
    LET zs == {z \in DOMAIN pmzone : InZone(z, pa) /\ bitmap_none(pmzone[z].bits, IndexOf(z, pa), n)}
        z == Min(zs)
    IN  IF zs = {} THEN UNCHANGED fvars
        ELSE pmzone' = SetBits(z, IndexOf(z, pa), n, TRUE) /\ Got(c, pa, n)

frame_free(c, pa, n) ==
    LET zs == {z \in DOMAIN pmzone : InZone(z, pa)}
        z == Min(zs)
    IN  /\ pmzone' = IF zs = {} THEN pmzone ELSE SetBits(z, IndexOf(z, pa), n, FALSE)
        /\ held' = [held EXCEPT ![c] = @ \ FramesAt(pa, n)]

\* Frames callers can name: those they could be given, by address.
FrameAddrs == UNION {{Frame(z, i) : i \in 0 .. pmzone[z].bit_cnt - 1} : z \in DOMAIN pmzone}

FrameNext ==
    \E c \in Callers, n \in Counts :
        \/ frame_alloc(c, n)
        \/ \E pa \in FrameAddrs : frame_alloc_in_addr(c, pa, n)
        \/ \E pa \in held[c] : FramesAt(pa, n) \subseteq held[c] /\ frame_free(c, pa, n)

FrameInit == /\ \E ram \in RamMaps : pmzone \in init_frame(ram)
             /\ held = [c \in Callers |-> {}]
=============================================================================
