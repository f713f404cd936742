------------------------------ MODULE MCMemops ------------------------------
\* Every byte of memory begins with a value of its own, and none with 0, so that
\* a byte that comes from the wrong place shows.
EXTENDS Memops

MCMem0 == [a \in Addr |-> a + 1]
=============================================================================
