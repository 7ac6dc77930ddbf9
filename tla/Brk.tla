-------------------------------- MODULE Brk --------------------------------
(***************************************************************************)
(* The heap of a guest process: sys_brk (rekernel/syscall.d) and the pages *)
(* it maps, beside the other regions of the address space: the stack and   *)
(* the program below BRK_BASE, and the mmap area above the heap, where     *)
(* other calls map and unmap pages at any time.  A page table entry is the *)
(* number of the kzalloc block sys_brk mapped there, ELSEWHERE for a page  *)
(* of another region, 0 when it is not valid.  All have Perm.USER: the     *)
(* branch of sys_brk for a page without it is never taken, because every   *)
(* address below USER_END is mapped by user mappings only.                 *)
(***************************************************************************)
EXTENDS Integers

CONSTANTS
  PAGESIZE,      \* bytes in a page
  WORD,          \* machine arithmetic is modulo WORD
  BRK_BASE,      \* the initial break, page aligned
  MMAP_START,    \* first address of the mmap area, page aligned
  MMAP_SIZE,     \* its size
  USER_END,      \* first address that user code cannot name, page aligned
  OtherPages,    \* the pages of the stack and the program
  MEMORY,        \* no allocation larger than this succeeds
  Addrs,         \* the arguments user code passes
  AllocMayFail,  \* whether any allocation may fail
  MaxBlocks      \* bound: allocations in a behaviour

Pages == {p \in 0 .. (USER_END - 1) : p % PAGESIZE = 0}

(* The addresses between the initial break and the mmap area.              *)
InHeap(p) == BRK_BASE <= p /\ p < MMAP_START

ASSUME BrkConstants ==
  /\ PAGESIZE \in Nat \ {0}
  /\ {BRK_BASE, MMAP_START, MMAP_SIZE, USER_END, WORD, MEMORY, MaxBlocks} \subseteq Nat
  /\ \A a \in {BRK_BASE, MMAP_START, USER_END} : a % PAGESIZE = 0
  /\ 0 < BRK_BASE /\ BRK_BASE < MMAP_START /\ MMAP_START + MMAP_SIZE <= USER_END
  /\ USER_END + PAGESIZE <= WORD /\ USER_END + MEMORY < WORD
  /\ OtherPages \subseteq {p \in Pages : ~ InHeap(p)}
  /\ Addrs \subseteq 0 .. (WORD - 1)
  /\ AllocMayFail \in BOOLEAN

VARIABLES
  brk,    \* Proc.brk
  pt,     \* the block each page maps, ELSEWHERE, or 0
  nblk,   \* blocks allocated so far
  ret,    \* what the last call returned: a break, or an error
  failed  \* history: whether a call has returned NOMEM

vars == <<brk, pt, nblk, ret, failed>>

ELSEWHERE == -1

NOMEM == -12
FAULT == -14

trunc(a) == a - (a % PAGESIZE)
ceilpg(a) == trunc((a + PAGESIZE - 1) % WORD)

(* map_region for the pages of [from, from + len) *)
Mapped(from, len, blk) ==
  [p \in Pages |-> IF from <= p /\ p < from + len THEN blk ELSE pt[p]]
-----------------------------------------------------------------------------
\* mutant: maps from the base of the heap, not from the old break
BrkGrows_Remaps(addr) ==
  LET diff == (ceilpg(addr) - BRK_BASE) % WORD
  IN  /\ pt[trunc(addr)] = 0
      /\ diff <= MEMORY
      /\ nblk < MaxBlocks
      /\ nblk' = nblk + 1
      /\ pt' = Mapped(BRK_BASE, diff, nblk + 1)
      /\ ret' = addr

\* mutant: the size is not rounded up to the page of the new break
BrkGrows_RoundsDown(addr) ==
  LET diff == (trunc(addr) - ceilpg(brk)) % WORD
  IN  /\ pt[trunc(addr)] = 0
      /\ diff <= MEMORY
      /\ nblk < MaxBlocks
      /\ nblk' = nblk + 1
      /\ pt' = Mapped(ceilpg(brk), diff, nblk + 1)
      /\ ret' = addr

(* The page of addr is not mapped: memory for all pages from the old break *)
(* to the new one.  A break that moved down gives a size that wraps around *)
(* and that no memory has.                                                 *)
BrkGrows(addr) ==
  LET diff == (ceilpg(addr) - ceilpg(brk)) % WORD
  IN  /\ pt[trunc(addr)] = 0
      /\ diff <= MEMORY
      /\ nblk < MaxBlocks
      /\ nblk' = nblk + 1
      /\ pt' = Mapped(ceilpg(brk), diff, nblk + 1)
      /\ ret' = addr

(* kzalloc returns null: the break has moved all the same. *)
BrkNoMemory(addr) ==
  /\ pt[trunc(addr)] = 0
  /\ AllocMayFail \/ (ceilpg(addr) - ceilpg(brk)) % WORD > MEMORY
  /\ ret' = NOMEM
  /\ UNCHANGED <<pt, nblk>>

(* map_region runs out of page tables after it has mapped some pages: the  *)
(* block is freed, and the pages mapped so far stay.                       *)
BrkMapFails(addr) ==
  LET diff == (ceilpg(addr) - ceilpg(brk)) % WORD
  IN  /\ AllocMayFail
      /\ pt[trunc(addr)] = 0
      /\ 0 < diff /\ diff <= MEMORY
      /\ nblk < MaxBlocks
      /\ nblk' = nblk + 1
      /\ \E p \in Pages :
           /\ ceilpg(brk) <= p /\ p < ceilpg(brk) + diff
           /\ pt' = Mapped(ceilpg(brk), p - ceilpg(brk), nblk + 1)
      /\ ret' = NOMEM

(* The page of addr is mapped, by sys_brk or by another region: only the   *)
(* break moves.                                                            *)
BrkMoves(addr) ==
  /\ pt[trunc(addr)] # 0
  /\ ret' = addr
  /\ UNCHANGED <<pt, nblk>>

\* mutant: the break is assigned before the pointer is checked
sys_brk_AssignsFirst(addr) ==
  \/ addr >= USER_END /\ ret' = FAULT /\ brk' = addr /\ UNCHANGED <<pt, nblk>>
  \/ addr = 0 /\ ret' = brk /\ UNCHANGED <<brk, pt, nblk>>
  \/ /\ 0 < addr /\ addr < USER_END
     /\ brk' = addr
     /\ BrkGrows(addr) \/ BrkNoMemory(addr) \/ BrkMapFails(addr) \/ BrkMoves(addr)

sys_brk(addr) ==
  \/ addr >= USER_END /\ ret' = FAULT /\ UNCHANGED <<brk, pt, nblk>>
  \/ addr = 0 /\ ret' = brk /\ UNCHANGED <<brk, pt, nblk>>
  \/ /\ 0 < addr /\ addr < USER_END
     /\ brk' = addr
     /\ BrkGrows(addr) \/ BrkNoMemory(addr) \/ BrkMapFails(addr) \/ BrkMoves(addr)

(* What the other calls do to the page table, which AddrSpace has in full: *)
(* sys_mmap, or the page fault handler on arm64, maps a range inside the   *)
(* mmap area, over whatever was there, and sys_munmap clears one.          *)
mmap_range(start, size) ==
  MMAP_START <= start /\ 0 < size /\ start + size < MMAP_START + MMAP_SIZE

sys_mmap(start, size) ==
  /\ mmap_range(start, size)
  /\ pt' = Mapped(start, size, ELSEWHERE)
  /\ UNCHANGED <<brk, nblk, ret, failed>>

sys_munmap(start, size) ==
  /\ mmap_range(start, size)
  /\ pt' = Mapped(start, size, 0)
  /\ UNCHANGED <<brk, nblk, ret, failed>>

Init ==
  /\ brk = BRK_BASE
  /\ pt = [p \in Pages |-> IF p \in OtherPages THEN ELSEWHERE ELSE 0]
  /\ nblk = 0
  /\ ret = BRK_BASE
  /\ failed = FALSE

Next ==
  \/ /\ \E a \in Addrs : sys_brk(a)
     /\ failed' = (failed \/ ret' = NOMEM)
  \/ \E p, q \in Pages : sys_mmap(p, q - p) \/ sys_munmap(p, q - p)

Spec == Init /\ [][Next]_vars
-----------------------------------------------------------------------------
(* Every variable has its type; the break never leaves user space, and a   *)
(* call that fails never returns a break.                                  *)
TypeOK ==
  /\ brk \in 1 .. (USER_END - 1)
  /\ pt \in [Pages -> {ELSEWHERE} \cup (0 .. MaxBlocks)]
  /\ nblk \in 0 .. MaxBlocks
  /\ ret \in {NOMEM, FAULT} \cup (1 .. (USER_END - 1))
  /\ failed \in BOOLEAN

(* Whatever sequence of calls led here, every page from BRK_BASE up to the *)
(* break is mapped, as long as no call has failed and the break is a page  *)
(* or more below the mmap area: also after user code put the break into    *)
(* another region, where sys_brk only sees that the one page of its        *)
(* argument is mapped, and took it back.  (From the first address of the   *)
(* area it comes back by less than a page without asking for memory.)      *)
HeapMapped ==
  ~ failed /\ brk + PAGESIZE <= MMAP_START =>
    \A p \in Pages : BRK_BASE <= p /\ p < brk => pt[p] # 0

(* No call loses the contents of the heap: a mapped page below the break   *)
(* keeps its block, although growing maps zeroed memory over pages that an *)
(* earlier shrink left mapped.  And as long as the break stays between     *)
(* BRK_BASE and the mmap area, sys_brk maps over no page of another        *)
(* region.                                                                 *)
HeapKept ==
  [][\A p \in Pages :
       /\ InHeap(p) /\ p < brk /\ pt[p] # 0 => pt'[p] = pt[p]
       /\ /\ {brk, brk'} \subseteq BRK_BASE .. MMAP_START
          /\ pt[p] = ELSEWHERE
          => pt'[p] \in {ELSEWHERE, 0}]_vars
=============================================================================
