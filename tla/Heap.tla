-------------------------------- MODULE Heap --------------------------------
(***************************************************************************)
(* What a heap promises: a caller gets addresses that nobody else has, at   *)
(* least as many as it asked for, and keeps them until it gives them back. *)
(* The abstract counterpart of Tlsf (lib/tlsf/tlsf.c), used as a property. *)
(***************************************************************************)
EXTENDS Integers

CONSTANT Area        \* the addresses the heap may give out

VARIABLE held        \* start address -> [len: how many follow, asked: for how many]

Init == held = [p \in {} |-> {}]

Cells(h, p) == p .. p + h[p].len - 1

\* What a held block may look like next to the others.
Sound(h, p) == /\ h[p].asked <= h[p].len
               /\ Cells(h, p) \subseteq Area
               /\ \A q \in DOMAIN h \ {p} : Cells(h, p) \cap Cells(h, q) = {}

Others(h, S) == [q \in DOMAIN h \ S |-> h[q]]

\* One block comes, one goes, or one is resized and perhaps moves; every other
\* block stays where and as it is.
Alloc == \E p \in DOMAIN held' \ DOMAIN held :
            Sound(held', p) /\ Others(held', {p}) = held
Free == \E p \in DOMAIN held \ DOMAIN held' : held' = Others(held, {p})
Resize == \E p \in DOMAIN held, q \in DOMAIN held' :
            Sound(held', q) /\ Others(held', {q}) = Others(held, {p})

Spec == Init /\ [][Alloc \/ Free \/ Resize]_held
=============================================================================
