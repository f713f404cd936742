------------------------------ MODULE AddrSpace ------------------------------
(***************************************************************************)
(* What an address space promises: an address belongs to at most one       *)
(* allocation, which gives it its protection; addresses the kernel image   *)
(* occupies are taken from the start and are never given back.  A failed   *)
(* allocation may cost its half of the space everything from an address on.*)
(* The abstract counterpart of Vmspace (kernel/page.c), used only as a     *)
(* property: the steps are stated by what changes.                         *)
(***************************************************************************)
EXTENDS Integers

CONSTANTS Addr,        \* the addresses
          Reserved,    \* those of the kernel image
          ReservedProt,
          Prot,        \* protections an allocation can ask for
          Halves       \* user space and kernel space

NoProt == -1           \* what an address that is not allocated has

VARIABLE prot

Init == prot = [a \in Addr |-> IF a \in Reserved THEN ReservedProt ELSE NoProt]

Changed == {a \in Addr : prot'[a] # prot[a]}
Consecutive(S) == \A a, b \in S : a .. b \subseteq S

\* Consecutive addresses nobody has are given to one caller.
Alloc(S) == /\ \A a \in S : prot[a] = NoProt
            /\ \E p \in Prot : \A a \in S : prot'[a] = p

\* Consecutive addresses of one caller are given back; the image's never are.
Free(S) == /\ S \cap Reserved = {}
           /\ \E p \in Prot : \A a \in S : prot[a] = p
           /\ \A a \in S : prot'[a] = NoProt

\* Everything a half has from some address on is gone, except the image.
Lose(S) == /\ S \cap Reserved = {}
           /\ \A a \in S : prot'[a] = NoProt
           /\ \E H \in Halves : \E low \in H :
                 S = {a \in H : a >= low /\ prot[a] # NoProt}

Next == \E S \in {Changed} : \/ Consecutive(S) /\ (Alloc(S) \/ Free(S))
                             \/ Lose(S)

Spec == Init /\ [][Next]_prot
=============================================================================
