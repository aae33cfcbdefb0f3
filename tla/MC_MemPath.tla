----------------------------- MODULE MC_MemPath -----------------------------
(* Instances of MemPath for TLC: two pages and one page table, and what the  *)
(* PMP entry forbids.                                                        *)
EXTENDS MemPath

CONSTANTS v1, v2, r1

Pages  == {v1, v2}
Tables == {r1}

(* The leaf translation of a page.  The PMP entry, one entry with one set of  *)
(* permissions, matches page v2, by physical address and through a            *)
(* translation.                                                              *)
Leaf(v)  == <<r1, v, v, v, v>>
Nothing  == {}
PageTwo  == {<<v2>>, Leaf(v2)}
=============================================================================
