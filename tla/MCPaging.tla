------------------------------ MODULE MCPaging ------------------------------
(* Paging with 32 pages, two kernel page tables and small RAM.              *)
EXTENDS Paging

\* One zone that ends inside a page; a zone that is all bitmap, then another,
\* the end of the list, and an entry that is not looked at.
MCRamMaps == {<< <<16, 35>> >>, << <<16, 20>>, <<24, 39>>, <<0, 0>>, <<40, 80>> >>}

\* Before init_vmspace; and after it, with pages of every protection allocated.
MCProtections ==
    {[p \in Page |-> -1],
     [p \in Page |-> IF p \in 12 .. 19 THEN VM_PROT_ALL
                     ELSE CASE p = 8 -> 3 [] p = 9 -> 1 [] p = 10 -> 0 [] OTHER -> -1]}
=============================================================================
