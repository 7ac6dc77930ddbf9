------------------------------ MODULE FlatMap ------------------------------
(***************************************************************************)
(* What a page table promises its callers: a function from the pages of    *)
(* user space to the physical pages they translate to, 0 where there is no *)
(* translation.  Mapping a range gives its pages consecutive physical      *)
(* pages; when memory for the tables runs out only a first part of the     *)
(* range is mapped.  Unmapping a range clears its pages and no other.      *)
(***************************************************************************)
EXTENDS Naturals

CONSTANTS
  Pages,    \* page numbers of user space
  Bases,    \* physical pages a range may be mapped to
  Lengths   \* lengths of ranges, in pages

VARIABLE m

Range(va, n) == {p \in Pages : va <= p /\ p < va + n}

\* the first k pages of the range are mapped, from pa on
Map(va, pa, k) ==
  /\ \A p \in Pages \ Range(va, k) : m'[p] = m[p]
  /\ \A p \in Range(va, k) : m'[p] = pa + (p - va)

Unmap(va, n) ==
  /\ \A p \in Pages \ Range(va, n) : m'[p] = m[p]
  /\ \A p \in Range(va, n) : m'[p] = 0

Init == m = [p \in Pages |-> 0]

Next ==
  /\ m' \in [Pages -> Nat]
  /\ \E va \in Pages, n \in Lengths :
       \/ \E pa \in Bases, k \in 0 .. n : Map(va, pa, k)
       \/ Unmap(va, n)

Spec == Init /\ [][Next]_m
=============================================================================
