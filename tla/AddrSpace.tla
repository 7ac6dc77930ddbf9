----------------------------- MODULE AddrSpace -----------------------------
(***************************************************************************)
(* The mmap area of a guest process: the list of mapped areas (vmas), the  *)
(* list of free areas (free_vmas), the page table entries of the area and  *)
(* the TLB, as sys_mmap, sys_munmap and the page fault handler of the      *)
(* guest kernel change them (rekernel/proc.d, syscall.d, trap.d).          *)
(*                                                                         *)
(* The kernel runs with interrupts off and a process gives up the CPU only *)
(* in block(), so a system call is one step.                               *)
(*                                                                         *)
(* Data abstraction.  The two IntervalTrees are vectors searched from the  *)
(* front; here they are sets, and a search may return any element that     *)
(* matches (two equal free intervals, which only empty intervals can be,   *)
(* collapse to one).  Memory is the number of the allocation that made it: *)
(* a vma records the number of its mmap call, a page table entry the       *)
(* number of the block it points to, 0 when it is not valid.  Addresses    *)
(* are machine words of a small width.                                     *)
(***************************************************************************)
EXTENDS Integers

CONSTANTS
  PAGESIZE,      \* bytes in a page
  WORD,          \* machine arithmetic is modulo WORD
  MMAP_START,    \* first address of the mmap area
  MMAP_SIZE,     \* its size: at most the span of one leaf page table
  MEMORY,        \* no allocation larger than this succeeds
  Addrs,         \* the addresses user code passes to mmap and munmap
  Lengths,       \* the lengths it passes
  HintClass,     \* "fit", "inside" or "any": see Admissible
  AllocMayFail,  \* whether the kernel's allocator may return null
  Arch,          \* "amd64" or "arm64"
  MaxBlocks      \* bound: allocations of user memory in a behaviour

Word == 0 .. (WORD - 1)

ASSUME ConstantsOK ==
  /\ PAGESIZE \in Nat \ {0}
  /\ WORD \in Nat
  /\ MMAP_START \in Nat \ {0}
  /\ MMAP_SIZE \in Nat \ {0}
  /\ MMAP_START + MMAP_SIZE < WORD
  /\ MEMORY \in Nat
  /\ Addrs \subseteq Word
  /\ Lengths \subseteq Word
  /\ HintClass \in {"fit", "inside", "any"}
  /\ AllocMayFail \in BOOLEAN
  /\ Arch \in {"amd64", "arm64"}
  /\ MaxBlocks \in Nat

MMAP_END == MMAP_START + MMAP_SIZE
Pages == {a \in MMAP_START .. (MMAP_END - 1) : a % PAGESIZE = 0}
Blocks == 1 .. MaxBlocks

VARIABLES
  vmas,       \* Proc.vmas
  free_vmas,  \* Proc.free_vmas
  pt,         \* Proc.pt restricted to the area: the block of each page, or 0
  tlb,        \* the translations the CPU has cached, 0 where it has none
  nblk,       \* blocks allocated so far
  state,      \* "run", "exited" (sys_exit) or "panic" (failed assert/ensure)
  ret         \* the outcome of the last system call

vars == <<vmas, free_vmas, pt, tlb, nblk, state, ret>>
-----------------------------------------------------------------------------
(* Machine arithmetic: unsigned words wrap around.                         *)

Wrap(x) == IF x \in Word THEN x ELSE x % WORD

truncpg(a) == a - (a % PAGESIZE)

ceilpg(n) == truncpg(Wrap(n + PAGESIZE - 1))

(* core/interval.d *)

End(i) == Wrap(i.start + i.size)

\* mutant: misses an interval that begins inside the range
Overlaps_StartInside(i, start, size) == i.start <= start /\ start < End(i)

Overlaps(i, start, size) == i.start < Wrap(start + size) /\ End(i) > start

(* The pages of [start, start + size). *)
PagesIn(start, size) == {p \in Pages : start <= p /\ p < start + size}

\* mutant: the loop stops one page early
MapRegion_OneShort(start, size, blk) ==
  [p \in Pages |-> IF p \in PagesIn(start, size - PAGESIZE) THEN blk ELSE pt[p]]

MapRegion(start, size, blk) ==
  [p \in Pages |-> IF p \in PagesIn(start, size) THEN blk ELSE pt[p]]

NoTranslation == [p \in Pages |-> 0]
-----------------------------------------------------------------------------
(* The ways a system call ends; usertrapret flushes the TLB on the way out. *)

\* mutant: usertrapret without its flush
Return_NoFlush(r) == ret' = r /\ UNCHANGED <<tlb, state>>

Return(r) == ret' = r /\ tlb' = NoTranslation /\ UNCHANGED state

Stop(s) == state' = s /\ UNCHANGED <<vmas, free_vmas, pt, tlb, nblk, ret>>

(* The loop of map_vma: every vma that meets the range is removed, and its *)
(* parts to the left and to the right of the range are put back.  A part   *)
(* does not meet the range, so the loop handles each vma once.             *)
Hit(start, size) == {v \in vmas : Overlaps(v, start, size)}

LeftPart(v, start) == [start |-> v.start, size |-> Wrap(start - v.start), blk |-> v.blk]

RightPart(v, start, size) ==
  [start |-> Wrap(start + size), size |-> Wrap(End(v) - Wrap(start + size)), blk |-> v.blk]

HasLeft(v, start) == v.start < start
HasRight(v, start, size) == End(v) > Wrap(start + size)

\* mutant: the part right of the range is not put back
Carve_DropsRight(start, size) ==
  (vmas \ Hit(start, size))
    \cup {LeftPart(v, start) : v \in {w \in Hit(start, size) : HasLeft(w, start)}}

Carve(start, size) ==
  LET hit == Hit(start, size)
  IN  (vmas \ hit)
        \cup {LeftPart(v, start) : v \in {w \in hit : HasLeft(w, start)}}
        \cup {RightPart(v, start, size) : v \in {w \in hit : HasRight(w, start, size)}}

(* The free interval map_vma_no_overlap splits: the first that meets the   *)
(* range, or the zero-initialised one when none does.                      *)
FreeHit(start, size) ==
  LET hits == {i \in free_vmas : Overlaps(i, start, size)}
  IN  IF hits = {} THEN {[start |-> 0, size |-> 0]} ELSE hits

FreeLeft(i, start) ==
  IF Wrap(start - i.start) # 0
  THEN {[start |-> i.start, size |-> Wrap(start - i.start)]}
  ELSE {}

\* mutant: the right part's size forgets the left part
FreeRight_ForgetsLeft(i, start, size) ==
  IF Wrap(i.size - size) # 0
  THEN {[start |-> Wrap(start + size), size |-> Wrap(i.size - size)]}
  ELSE {}

FreeRight(i, start, size) ==
  IF Wrap(i.size - size) # 0
  THEN {[start |-> Wrap(start + size), size |-> Wrap(i.size - (start - i.start) - size)]}
  ELSE {}

\* mutant: the split interval is not removed
Split_KeepsWhole(i, start, size) ==
  free_vmas \cup FreeLeft(i, start) \cup FreeRight(i, start, size)

Split(i, start, size) ==
  IF i \in free_vmas
  THEN (free_vmas \ {i}) \cup FreeLeft(i, start) \cup FreeRight(i, start, size)
  ELSE free_vmas
-----------------------------------------------------------------------------
(* map_vma_no_overlap, after map_vma carved the range out of vmas.  file   *)
(* is "anon" (fd < 0), "file" (an open seekable file) or "badfd".          *)

\* the test that opens map_vma_no_overlap
NoOverlap(start, size) == \A v \in Carve(start, size) : ~ Overlaps(v, start, size)

\* something still overlaps, or vmas.add could not grow the vector
VmaAddFails(start, size) ==
  /\ AllocMayFail \/ ~ NoOverlap(start, size)
  /\ vmas' = Carve(start, size)
  /\ UNCHANGED <<free_vmas, pt, nblk>>
  /\ Return("NOMEM")

AddVma(start, size) ==
  /\ NoOverlap(start, size)
  /\ vmas' = Carve(start, size) \cup {[start |-> start, size |-> size, blk |-> nblk + 1]}

\* free_vmas.add of the right part could not grow: only after a left part
\* took the slot that the remove left
RightAddFails(start, size) ==
  /\ AllocMayFail
  /\ AddVma(start, size)
  /\ \E i \in FreeHit(start, size) \cap free_vmas :
       /\ FreeLeft(i, start) # {} /\ FreeRight(i, start, size) # {}
       /\ free_vmas' = (free_vmas \ {i}) \cup FreeLeft(i, start)
  /\ nblk' = nblk + 1
  /\ UNCHANGED pt
  /\ Return("NOMEM")

\* kzalloc returned null
KzallocFails(start, size) ==
  /\ AllocMayFail \/ size > MEMORY
  /\ AddVma(start, size)
  /\ \E i \in FreeHit(start, size) : free_vmas' = Split(i, start, size)
  /\ nblk' = nblk + 1
  /\ UNCHANGED pt
  /\ Return("NOMEM")

\* the pages are mapped; then the file is read into them
Maps(start, size, length, file) ==
  /\ size <= MEMORY
  /\ ~ (file = "file" /\ length > size)
  /\ AddVma(start, size)
  /\ \E i \in FreeHit(start, size) : free_vmas' = Split(i, start, size)
  /\ nblk' = nblk + 1
  /\ pt' = MapRegion(start, size, nblk + 1)
  /\ Return(IF file = "badfd" THEN "NOMEM" ELSE "OK")

\* ensure(vmas.add(...)) of a right part in map_vma, ensure(map_region) and
\* assert(length <= ka.length); what the call had done by then is lost with
\* the machine
MapPanics(start, size, length, file) ==
  /\ \/ AllocMayFail /\ \E v \in Hit(start, size) : HasLeft(v, start) /\ HasRight(v, start, size)
     \/ AllocMayFail /\ size <= MEMORY
     \/ file = "file" /\ length > size
  /\ Stop("panic")

\* mutant: only the end of the range is compared
map_vma_bounds_EndOnly(start, size) == Wrap(start + size) < MMAP_END

map_vma_bounds(start, size) == MMAP_START <= start /\ Wrap(start + size) < MMAP_END

map_vma(start, length, file) ==
  LET size == ceilpg(length)
  IN  \/ /\ ~ map_vma_bounds(start, size)
         /\ UNCHANGED <<vmas, free_vmas, pt, nblk>>
         /\ Return("NOMEM")
      \/ /\ map_vma_bounds(start, size)
         /\ \/ VmaAddFails(start, size)
            \/ RightAddFails(start, size)
            \/ KzallocFails(start, size)
            \/ Maps(start, size, length, file)
            \/ MapPanics(start, size, length, file)

map_vma_any(length, file) ==
  LET found == {i \in free_vmas : i.size >= ceilpg(length)}
  IN  \/ /\ found = {}
         /\ UNCHANGED <<vmas, free_vmas, pt, nblk>>
         /\ Return("NOMEM")
      \/ \E i \in found : map_vma(i.start, length, file)

(* The hints the user code of a run is assumed to pass: any page; ranges   *)
(* that lie inside one free interval or meet no free interval, counting    *)
(* empty free intervals ("fit") or not ("inside").                         *)
Admissible(start, size) ==
  \/ HintClass = "any"
  \/ \A i \in free_vmas :
       \/ HintClass = "inside" /\ i.size = 0
       \/ Overlaps(i, start, size) => i.start <= start /\ start + size <= i.start + i.size

sys_mmap(addr, length, file) ==
  /\ state = "run"
  /\ nblk < MaxBlocks
  /\ IF truncpg(addr) = 0
     THEN map_vma_any(length, file)
     ELSE /\ Admissible(truncpg(addr), ceilpg(length))
          /\ map_vma(truncpg(addr), length, file)

\* mutant: the valid bits are not cleared
sys_munmap_KeepsPtes(addr, length) ==
  LET exact == {v \in vmas : v.start = truncpg(addr) /\ v.size = ceilpg(length)}
  IN  /\ state = "run"
      /\ \E v \in exact :
           /\ vmas' = vmas \ {v}
           /\ free_vmas' = free_vmas \cup {[start |-> v.start, size |-> v.size]}
      /\ UNCHANGED <<pt, nblk>>
      /\ Return("OK")

(* sys_munmap and unmap_vma: only a vma that matches exactly is removed.   *)
sys_munmap(addr, length) ==
  LET start == truncpg(addr)
      size  == ceilpg(length)
      exact == {v \in vmas : v.start = start /\ v.size = size}
  IN  /\ state = "run"
      /\ UNCHANGED nblk
      /\ \/ /\ exact = {}
            /\ UNCHANGED <<vmas, free_vmas, pt>>
            /\ Return("NOMEM")
         \/ \E v \in exact :
              /\ vmas' = vmas \ {v}
              /\ \/ /\ AllocMayFail   \* free_vmas.add could not grow
                    /\ UNCHANGED <<free_vmas, pt>>
                    /\ Return("NOMEM")
                 \/ /\ free_vmas' = free_vmas \cup {[start |-> start, size |-> size]}
                    /\ pt' = MapRegion(start, size, 0)
                    /\ Return("OK")

(* User code touches a page: through the TLB, or by a walk that fills it.  *)
UserAccess(p) ==
  /\ state = "run"
  /\ pt[p] # 0 /\ tlb[p] = 0
  /\ tlb' = [tlb EXCEPT ![p] = pt[p]]
  /\ UNCHANGED <<vmas, free_vmas, pt, nblk, state, ret>>

(* A page without a valid entry faults.  amd64 panics.  On arm64 pagefault *)
(* maps a fresh page if a vma covers the address, else the process exits;  *)
(* with a prot that lacks PROT_READ the new entry is not valid.            *)
PageFault(p) ==
  /\ state = "run"
  /\ pt[p] = 0 /\ tlb[p] = 0
  /\ \/ Arch = "amd64" /\ Stop("panic")
     \/ /\ Arch = "arm64"
        /\ AllocMayFail \/ ~ \E v \in vmas : Overlaps(v, p, 1)
        /\ Stop("exited")
     \/ /\ Arch = "arm64"
        /\ nblk < MaxBlocks
        /\ \E v \in vmas : Overlaps(v, p, 1)
        /\ UNCHANGED pt \/ pt' = [pt EXCEPT ![p] = nblk + 1]
        /\ nblk' = nblk + 1
        /\ tlb' = NoTranslation
        /\ UNCHANGED <<vmas, free_vmas, state, ret>>
-----------------------------------------------------------------------------
Init ==
  /\ vmas = {}
  /\ free_vmas = {[start |-> MMAP_START, size |-> MMAP_SIZE]}
  /\ pt = NoTranslation
  /\ tlb = NoTranslation
  /\ nblk = 0
  /\ state = "run"
  /\ ret = "none"

Next ==
  \/ \E a \in Addrs, n \in Lengths, f \in {"anon", "file", "badfd"} : sys_mmap(a, n, f)
  \/ \E a \in Addrs, n \in Lengths : sys_munmap(a, n)
  \/ \E p \in Pages : UserAccess(p) \/ PageFault(p)

Spec == Init /\ [][Next]_vars
-----------------------------------------------------------------------------
Disjoint(i, j) == i.start + i.size <= j.start \/ j.start + j.size <= i.start

InArea(i) == MMAP_START <= i.start /\ i.start + i.size <= MMAP_END

Covers(i, p) == i.start <= p /\ p < i.start + i.size

(* Every variable has its type: addresses and sizes in the two lists are   *)
(* machine words, the parts that map_vma puts back lie in the mmap area    *)
(* like the whole vmas, and pages map blocks that were allocated.          *)
TypeOK ==
  /\ vmas \subseteq [start : Word, size : Word, blk : Blocks]
  /\ \A v \in vmas : InArea(v)
  /\ free_vmas \subseteq [start : Word, size : Word]
  /\ pt \in [Pages -> 0 .. MaxBlocks]
  /\ tlb \in [Pages -> 0 .. MaxBlocks]
  /\ nblk \in 0 .. MaxBlocks
  /\ state \in {"run", "exited", "panic"}
  /\ ret \in {"none", "OK", "NOMEM"}

(* The carving in map_vma keeps the vmas of a process disjoint from one    *)
(* another, over any sequence of requests and also when allocations fail   *)
(* half way through one.                                                   *)
VmasDisjoint == \A v, w \in vmas : v # w => Disjoint(v, w)

(* free_vmas never offers an address that is in use: its intervals are     *)
(* disjoint from one another and from every vma.                           *)
FreeDisjoint ==
  /\ \A i \in free_vmas : InArea(i)
  /\ \A i, j \in free_vmas : i # j => Disjoint(i, j)
  /\ \A i \in free_vmas, v \in vmas : Disjoint(i, v)

(* mmap and munmap lose no address: as long as no allocation fails, every  *)
(* page of the area is in a vma or in a free interval.                     *)
NothingLost ==
  \A p \in Pages : \E i \in vmas \cup free_vmas : Covers(i, p)

(* The page table agrees with the vmas: a page of a vma maps the block     *)
(* that the mmap call of this vma allocated, also after other calls mapped *)
(* over parts of it, and a page outside every vma is not mapped.           *)
PagesMatchVmas ==
  \A p \in Pages :
    /\ \A v \in vmas : Covers(v, p) => pt[p] = v.blk
    /\ pt[p] # 0 => \E v \in vmas : Covers(v, p)

(* No page of a free interval is accessible, even if allocations failed    *)
(* half way through a call.                                                *)
FreeUnmapped ==
  \A i \in free_vmas, p \in Pages : Covers(i, p) => pt[p] = 0

(* mmap(0, ...) takes its region from free_vmas and never replaces a page  *)
(* that is mapped.                                                         *)
NoClobber ==
  [][\A n \in Lengths, f \in {"anon", "file", "badfd"} :
       sys_mmap(0, n, f) => \A p \in Pages : pt[p] # 0 => pt'[p] = pt[p]]_vars

(* usertrapret flushes: when user code runs, a cached translation is the   *)
(* one in the page table, although munmap and mmap flush nothing.          *)
TlbCoherent == \A p \in Pages : tlb[p] # 0 => tlb[p] = pt[p]
=============================================================================
