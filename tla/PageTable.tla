----------------------------- MODULE PageTable -----------------------------
(***************************************************************************)
(* The page table of a guest process as the tree of tables it is: walk,    *)
(* map_region and its allocation of inner tables (rekernel/arch/*/vm.d),   *)
(* under the calls the kernel makes: mmap and its failures, munmap         *)
(* (unmap_vma), brk and the page fault handler.  FlatMap is what these     *)
(* calls rely on.                                                          *)
(*                                                                         *)
(* Data abstraction.  Addresses are page numbers; a table has Fan entries. *)
(* An entry is 0 when its valid bit is clear (the address it still holds   *)
(* is never read), else the number of the table or of the physical page it *)
(* points to.  The permission bits other than READ, which is the valid     *)
(* bit, and the large pages of the kernel's half are left out.             *)
(***************************************************************************)
EXTENDS Integers, FiniteSets

CONSTANTS
  Archs,         \* the machines: subset of {"amd64", "arm64"}
  LEVEL_MAX,     \* level of the root table; the leaf tables are at level 0
  Fan,           \* entries in a table
  Bases,         \* physical pages the allocator hands out
  Lengths,       \* lengths of the ranges, in pages
  Rooms,         \* tables the allocator may have room for when a call is made
  HeapEnd,       \* pages below it are the heap's, the others the mmap area's
  FailSpan,      \* areas that may be left without memory: "leaf" or "any"
  MaxCalls       \* bound: calls in a behaviour

Levels == 0 .. LEVEL_MAX
\* the pages below one entry of a table at level k: the shift of pageindex
Span[k \in 0 .. (LEVEL_MAX + 1)] == IF k = 0 THEN 1 ELSE Fan * Span[k - 1]
Pages == 0 .. (Span[LEVEL_MAX + 1] - 1)
Entries == 0 .. (Fan - 1)
Root == 1
\* a tree in which every inner entry is used
TableIds == 1 .. Cardinality({n \in Levels \X Pages : n[2] < Span[n[1]]})

ASSUME ConstantsOK ==
  /\ Archs \subseteq {"amd64", "arm64"}
  /\ LEVEL_MAX \in Nat /\ Fan \in Nat \ {0}
  /\ Bases \subseteq Nat \ {0} /\ Lengths \subseteq Nat
  /\ Rooms \subseteq Nat /\ HeapEnd \in Pages
  /\ FailSpan \in {"leaf", "any"}
  /\ MaxCalls \in Nat

VARIABLES
  arch,     \* the machine
  tables,   \* the tables allocated so far: the entries of each
  areas,    \* Proc.vmas: the ranges mmap recorded
  calls,    \* calls so far
  state     \* "run", "exited" or "panic"

vars == <<arch, tables, areas, calls, state>>
-----------------------------------------------------------------------------
\* mutant: the shift forgets the index bits of the levels below
pageindex_NoShift(va, level) == va % Fan

pageindex(va, level) == (va \div Span[level]) % Fan

EmptyTable == [e \in Entries |-> 0]

(* Pagetable.walk.  endlevel is an in-out parameter: the result has the    *)
(* level and table of the entry (tab 0 is a null pointer), what the entry  *)
(* holds, and the value endlevel has afterwards.                           *)
walk_amd64(t, va, endlevel) ==
  LET loop[i \in endlevel .. LEVEL_MAX] ==
        [pt \in DOMAIN t |->
           LET pte == t[pt][pageindex(va, i)]
           IN  IF pte = 0 \/ i = 0 THEN [level |-> i, tab |-> pt, to |-> pte, end |-> i]
               ELSE IF i = endlevel THEN [level |-> i, tab |-> pt, to |-> pte, end |-> i - 1]
               ELSE loop[i - 1][pte]]
  IN  loop[LEVEL_MAX][Root]

walk_arm64(t, va, endlevel) ==
  LET loop[level \in endlevel .. LEVEL_MAX] ==
        [pt \in DOMAIN t |->
           LET pte == t[pt][pageindex(va, level)]
           IN  IF level = endlevel THEN [level |-> level, tab |-> pt, to |-> pte, end |-> level]
               ELSE IF pte = 0 THEN [level |-> level, tab |-> 0, to |-> 0, end |-> level]
               ELSE loop[level - 1][pte]]
  IN  loop[LEVEL_MAX][Root]

walk(t, va, endlevel) ==
  IF arch = "amd64" THEN walk_amd64(t, va, endlevel) ELSE walk_arm64(t, va, endlevel)

(* vm_lookup: the physical page va translates to, 0 when there is none.    *)
vm_lookup(t, va) == walk(t, va, 0).to

SetPte(t, tab, e, to) == [t EXCEPT ![tab][e] = to]

(* The tables after a new one, number n, is entered at e of table tab.     *)
\* mutant: the new table is not entered in its parent
Enter_Detached(t, tab, e, n) == [x \in 1 .. n |-> IF x = n THEN EmptyTable ELSE t[x]]

Enter(t, tab, e, n) ==
  [x \in 1 .. n |-> IF x = n THEN EmptyTable ELSE SetPte(t, tab, e, n)[x]]

(* One level of lookup_l4pagetable, and of the walk that allocates on      *)
(* arm64: d.l4 is the table at level l; next is the table its entry for va *)
(* points to, allocated and entered if it is missing and there is room.    *)
(* l4 is 0 from a failed allocation on.                                    *)
NextTable(d, va, l) ==
  LET e == pageindex(va, l)
      n == Cardinality(DOMAIN d.t) + 1
  IN  IF d.l4 = 0 THEN d
      ELSE IF d.t[d.l4][e] # 0 THEN [t |-> d.t, room |-> d.room, l4 |-> d.t[d.l4][e]]
      ELSE IF d.room = 0 THEN [t |-> d.t, room |-> 0, l4 |-> 0]
      ELSE [t |-> Enter(d.t, d.l4, e, n), room |-> d.room - 1, l4 |-> n]

lookup_l4pagetable(s, va) ==
  LET down[l \in Levels] ==
        IF l = LEVEL_MAX THEN [t |-> s.t, room |-> s.room, l4 |-> Root]
        ELSE NextTable(down[l + 1], va, l + 1)
  IN  down[0]

(* The page loop of map_region.  amd64 looks the leaf table up only when   *)
(* the index above it changes; arm64 looks it up for every page.           *)
\* mutant: the leaf table is looked up once for the whole range
NewLeaf_Once(va, i) == i = 1

NewLeaf(va, i) == arch = "arm64" \/ i = 1 \/ (va + i - 1) % Fan = 0

MapPage(s, va, pa, i, read) ==
  LET p == va + i - 1
      d == IF NewLeaf(va, i) THEN lookup_l4pagetable(s, p) ELSE s
  IN  IF ~ s.ok THEN s
      ELSE IF d.l4 = 0 THEN [t |-> d.t, room |-> d.room, l4 |-> 0, ok |-> FALSE]
      ELSE [t    |-> SetPte(d.t, d.l4, pageindex(p, 0), IF read THEN pa + i - 1 ELSE 0),
            room |-> d.room, l4 |-> d.l4, ok |-> TRUE]

MapRegion(va, pa, n, read, room) ==
  LET loop[i \in 0 .. n] ==
        IF i = 0 THEN [t |-> tables, room |-> room, l4 |-> 0, ok |-> TRUE]
        ELSE MapPage(loop[i - 1], va, pa, i, read)
  IN  loop[n]

(* The loop of unmap_vma.  lvl is declared once, outside the loop, and     *)
(* every walk starts from the value the previous one left in it.           *)
ClearPage(s, p) ==
  LET w == walk(s.t, p, s.lvl)
  IN  [t   |-> IF w.tab = 0 \/ w.to = 0 THEN s.t
               ELSE SetPte(s.t, w.tab, pageindex(p, w.level), 0),
       lvl |-> w.end]

ClearRange(va, n) ==
  LET loop[i \in 0 .. n] ==
        IF i = 0 THEN [t |-> tables, lvl |-> walk(tables, va, 0).end]
        ELSE ClearPage(loop[i - 1], va + i - 1)
  IN  loop[n].t
-----------------------------------------------------------------------------
(* The kernel's calls.  room is how many tables the allocator can still    *)
(* provide; each call may find a different amount of memory.               *)

Covers(a, p) == a.start <= p /\ p < a.start + a.size

Leaf(p) == p \div Fan

Call == state = "run" /\ calls < MaxCalls /\ calls' = calls + 1 /\ UNCHANGED arch

Stop(s) == state' = s /\ UNCHANGED <<tables, areas>>

(* map_vma_no_overlap from vmas.add on: the area is recorded, then kzalloc *)
(* fails, or map_region does and ensure panics, or the pages are mapped.   *)
sys_mmap(va, n, pa, room) ==
  LET a == [start |-> va, size |-> n]
      r == MapRegion(va, pa, n, TRUE, room)
  IN  /\ Call
      /\ HeapEnd <= va /\ va + n - 1 \in Pages
      /\ \A b \in areas, p \in Pages : ~ (Covers(a, p) /\ Covers(b, p))
      /\ \/ /\ FailSpan = "any" \/ Leaf(va) = Leaf(va + n - 1)
            /\ areas' = areas \cup {a}
            /\ UNCHANGED <<tables, state>>
         \/ ~ r.ok /\ Stop("panic")
         \/ /\ r.ok
            /\ areas' = areas \cup {a}
            /\ tables' = r.t
            /\ UNCHANGED state

(* sys_munmap, unmap_vma of an area that was recorded.                     *)
sys_munmap(a) ==
  /\ Call
  /\ areas' = areas \ {a}
  /\ tables' = ClearRange(a.start, a.size)
  /\ UNCHANGED state

(* sys_brk where it extends the heap: a failed map_region is reported, and *)
(* the pages mapped before it failed stay mapped.                          *)
sys_brk(va, n, pa, room) ==
  /\ Call
  /\ va + n <= HeapEnd
  /\ tables' = MapRegion(va, pa, n, TRUE, room).t
  /\ UNCHANGED <<areas, state>>

(* User code touches a page without translation: amd64 panics, arm64 maps  *)
(* a page if an area covers it (read: the area's prot has PROT_READ) and   *)
(* else, or without memory, the process exits.                             *)
pagefault(va, pa, read, room) ==
  LET r == MapRegion(va, pa, 1, read, room)
  IN  /\ Call
      /\ vm_lookup(tables, va) = 0
      /\ \/ arch = "amd64" /\ Stop("panic")
         \/ /\ arch = "arm64"
            /\ ~ r.ok \/ \A a \in areas : ~ Covers(a, va)
            /\ Stop("exited")
         \/ /\ arch = "arm64"
            /\ r.ok /\ \E a \in areas : Covers(a, va)
            /\ tables' = r.t
            /\ UNCHANGED <<areas, state>>
-----------------------------------------------------------------------------
Init ==
  /\ arch \in Archs
  /\ tables = [x \in {Root} |-> EmptyTable]
  /\ areas = {}
  /\ calls = 0
  /\ state = "run"

Next ==
  \/ \E va \in Pages, n \in Lengths, pa \in Bases, room \in Rooms :
       sys_mmap(va, n, pa, room) \/ sys_brk(va, n, pa, room)
  \/ \E a \in areas : sys_munmap(a)
  \/ \E va \in Pages, pa \in Bases, read \in BOOLEAN, room \in Rooms :
       pagefault(va, pa, read, room)

Spec == Init /\ [][Next]_vars
-----------------------------------------------------------------------------
(* The type invariant.  There are never more tables than the tree has      *)
(* nodes, and no area reaches into the heap.                               *)
TypeOK ==
  /\ arch \in Archs
  /\ DOMAIN tables \subseteq TableIds
  /\ \A x \in DOMAIN tables : tables[x] \in [Entries -> Nat]
  /\ areas \subseteq [start : Pages, size : Lengths]
  /\ \A a \in areas : HeapEnd <= a.start
  /\ calls \in 0 .. MaxCalls
  /\ state \in {"run", "exited", "panic"}

(* The tables form a tree: every table that lookup_l4pagetable allocated   *)
(* hangs below the root in exactly one place, also after an allocation     *)
(* failed half way down or a range was unmapped.  No table is lost, and no *)
(* two ranges share one.                                                   *)
TablesFormTree ==
  \A x \in DOMAIN tables \ {Root} :
    Cardinality({n \in (Levels \ {0}) \X Pages :
                   LET w == walk(tables, n[2], n[1])
                   IN  n[2] % Span[n[1]] = 0 /\ w.level = n[1] /\ w.to = x}) = 1

(* The tree implements the flat map its callers rely on: map_region        *)
(* changes the translations of its own range (of a first part of it when   *)
(* it fails), unmap_vma clears its own range, and nothing else changes     *)
(* what vm_lookup returns.                                                 *)
Flat == INSTANCE FlatMap WITH m <- [p \in Pages |-> vm_lookup(tables, p)],
                              Lengths <- Lengths \cup {1}

ImplementsFlatMap == Flat!Spec

(* munmap does not change the translation of a page outside the area it    *)
(* removes.                                                                *)
MunmapOnlyItsRange ==
  [][\A a \in areas \ areas', p \in Pages :
       ~ Covers(a, p) => vm_lookup(tables, p)' = vm_lookup(tables, p)]_vars
=============================================================================
