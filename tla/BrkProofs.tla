----------------------------- MODULE BrkProofs -----------------------------
(***************************************************************************)
(* Proofs about Brk, for any page size, heap, memory and sequence of       *)
(* calls.                                                                  *)
(***************************************************************************)
EXTENDS Brk, TLAPS

USE SMTT(60)

(* While no call has failed the mapped part of the heap has no holes: that *)
(* is what lets sys_brk look at one page only, the one of its argument.    *)
NoHoles ==
  ~ failed => \A p, q \in Pages :
                BRK_BASE <= p /\ p < q /\ q < MMAP_START /\ pt[q] # 0 => pt[p] # 0

(* The other regions stay out of the heap.                                 *)
HeapIsBrks == \A p \in Pages : InHeap(p) => pt[p] # ELSEWHERE

BInv ==
  /\ brk \in 1 .. (USER_END - 1)
  /\ pt \in [Pages -> Int]
  /\ nblk \in Nat
  /\ failed \in BOOLEAN
  /\ HeapMapped
  /\ NoHoles
  /\ HeapIsBrks
-----------------------------------------------------------------------------
LEMMA MultipleOf ==
  ASSUME NEW n \in Nat \ {0}, NEW a \in Nat, a % n = 0
  PROVE  \E q \in Int : a = n * q
  OBVIOUS

LEMMA RoundedDown ==
  ASSUME NEW n \in Nat \ {0}, NEW a \in Nat
  PROVE  (a - (a % n)) % n = 0
<1>1. (n * (a \div n)) % n = 0
  OBVIOUS
<1>2. a - (a % n) = n * (a \div n)
  OBVIOUS
<1> QED
  BY <1>1, <1>2

(* Two multiples of the page size less than a page apart.                  *)
LEMMA Multiples ==
  ASSUME NEW n \in Nat \ {0}, NEW c \in Nat, NEW p \in Nat,
         c % n = 0, p % n = 0, c < p + n
  PROVE  c <= p
<1>1. PICK q \in Int : c = n * q
  BY MultipleOf, Zenon
<1>2. PICK r \in Int : p = n * r
  BY MultipleOf
<1>3. ASSUME r < q PROVE n * r + n <= n * q
  BY <1>3
<1>4. q <= r => n * q <= n * r
  OBVIOUS
<1> QED
  BY <1>1, <1>2, <1>3, <1>4

LEMMA TruncIsPage ==
  ASSUME NEW a \in Nat, a < USER_END
  PROVE  trunc(a) \in Pages /\ trunc(a) <= a /\ a < trunc(a) + PAGESIZE
<1>1. a % PAGESIZE \in 0 .. (PAGESIZE - 1) /\ a % PAGESIZE <= a
  BY BrkConstants
<1>2. (a - (a % PAGESIZE)) % PAGESIZE = 0
  BY BrkConstants, RoundedDown
<1> QED
  BY <1>1, <1>2, BrkConstants DEF trunc, Pages

(* ceilpg rounds up to the next page, and does not wrap in user space.     *)
LEMMA CeilAbove ==
  ASSUME NEW a \in Nat, a < USER_END
  PROVE  /\ ceilpg(a) \in Nat /\ a <= ceilpg(a) /\ ceilpg(a) < WORD
         /\ \A p \in Nat : a <= p /\ p % PAGESIZE = 0 => ceilpg(a) <= p
<1> DEFINE s == a + PAGESIZE - 1
<1>1. s \in Nat /\ s < WORD /\ s % WORD = s
  <2>1. {PAGESIZE, USER_END, WORD} \subseteq Nat /\ 0 < PAGESIZE /\ USER_END + PAGESIZE <= WORD
    BY BrkConstants
  <2>2. s \in Nat /\ s < WORD
    BY <2>1
  <2> HIDE DEF s
  <2> QED
    BY <2>1, <2>2
<1>2. s % PAGESIZE \in 0 .. (PAGESIZE - 1) /\ s % PAGESIZE <= s
  BY <1>1, BrkConstants
<1>3. ceilpg(a) = s - (s % PAGESIZE)
  BY <1>1 DEF ceilpg, trunc
<1>4. (s - (s % PAGESIZE)) % PAGESIZE = 0
  BY <1>1, BrkConstants, RoundedDown, Zenon
<1>5. ceilpg(a) \in Nat /\ a <= ceilpg(a) /\ ceilpg(a) <= s
  <2> HIDE DEF s
  <2>1. s = a + PAGESIZE - 1
    BY DEF s
  <2> QED
    BY <1>1, <1>2, <1>3, <2>1, BrkConstants
<1>6. ASSUME NEW p \in Nat, a <= p, p % PAGESIZE = 0 PROVE ceilpg(a) <= p
  <2>1. p \in Nat /\ p % PAGESIZE = 0
    BY <1>6
  <2>2. ceilpg(a) < p + PAGESIZE
    BY <1>5, <1>6, <2>1, BrkConstants
  <2>3. ceilpg(a) % PAGESIZE = 0
    BY <1>3, <1>4
  <2> QED
    BY <1>5, <2>1, <2>2, <2>3, BrkConstants, Multiples
<1> QED
  BY <1>1, <1>5, <1>6, BrkConstants
-----------------------------------------------------------------------------
(* What the three ways to change the page table have in common: pages      *)
(* below the old break keep their entries, and no page loses its entry.    *)
LEMMA MappedKeeps ==
  ASSUME BInv, NEW len \in Int
  PROVE  LET new == Mapped(ceilpg(brk), len, nblk + 1)
         IN  /\ new \in [Pages -> Int]
             /\ \A p \in Pages : p < brk => new[p] = pt[p]
             /\ \A p \in Pages : pt[p] # 0 => new[p] # 0
             /\ \A p \in Pages : pt[p] # ELSEWHERE => new[p] # ELSEWHERE
             /\ \A p \in Pages : ceilpg(brk) <= p /\ p < ceilpg(brk) + len => new[p] # 0
<1>1. brk \in Nat /\ brk < USER_END /\ nblk \in Nat /\ pt \in [Pages -> Int]
  BY BrkConstants DEF BInv
<1>2. ceilpg(brk) \in Nat /\ brk <= ceilpg(brk)
  BY <1>1, CeilAbove
<1>3. \A p \in Pages : p \in Nat
  BY DEF Pages
<1> QED
  BY <1>1, <1>2, <1>3 DEF Mapped, ELSEWHERE

(* The last page below the mmap area.                                      *)
LEMMA LastHeapPage ==
  /\ MMAP_START - PAGESIZE \in Nat
  /\ \A p \in Pages : p < MMAP_START => p <= MMAP_START - PAGESIZE
  /\ \A a \in Nat : a + PAGESIZE <= MMAP_START => ceilpg(a) + PAGESIZE <= MMAP_START
<1>1. MMAP_START \in Nat /\ MMAP_START % PAGESIZE = 0 /\ 0 < MMAP_START
      /\ PAGESIZE \in Nat \ {0} /\ USER_END \in Nat /\ MMAP_START <= USER_END
  BY BrkConstants
<1>2. PICK q \in Int : MMAP_START = PAGESIZE * q
  BY <1>1, MultipleOf
<1>3. 1 <= q
  BY <1>1, <1>2
<1>4. MMAP_START - PAGESIZE = PAGESIZE * (q - 1) /\ (PAGESIZE * (q - 1)) % PAGESIZE = 0
  BY <1>1, <1>2
<1>5. PAGESIZE * (q - 1) >= 0
  BY <1>1, <1>3
<1> DEFINE top == MMAP_START - PAGESIZE
<1>6. top \in Nat /\ top % PAGESIZE = 0 /\ top + PAGESIZE = MMAP_START
  BY <1>1, <1>4, <1>5
<1>7. ASSUME NEW p \in Pages, p < MMAP_START PROVE p <= top
  <2> HIDE DEF top
  <2>1. p \in Nat /\ p % PAGESIZE = 0
    BY DEF Pages
  <2>2. p < top + PAGESIZE /\ top \in Nat /\ top % PAGESIZE = 0 /\ PAGESIZE \in Nat \ {0}
    BY <1>1, <1>6, <1>7, Zenon
  <2> QED
    BY <2>1, <2>2, Multiples, Zenon
<1>8. ASSUME NEW a \in Nat, a + PAGESIZE <= MMAP_START PROVE ceilpg(a) + PAGESIZE <= MMAP_START
  <2>0. {MMAP_START, PAGESIZE, USER_END} \subseteq Nat /\ 0 < PAGESIZE /\ MMAP_START <= USER_END
    BY <1>1
  <2>1. a < USER_END /\ a <= top
    BY <1>8, <2>0
  <2> HIDE DEF top
  <2>2. ceilpg(a) \in Nat /\ \A p \in Nat : a <= p /\ p % PAGESIZE = 0 => ceilpg(a) <= p
    BY <2>1, CeilAbove
  <2>3. ceilpg(a) <= top
    BY <1>6, <2>1, <2>2, Zenon
  <2> QED
    BY <1>1, <1>6, <2>2, <2>3
<1> QED
  BY <1>6, <1>7, <1>8

(* The size sys_brk asks for did not wrap around if there is memory for it.*)
LEMMA GrowDiff ==
  ASSUME NEW addr \in Nat, addr < USER_END, brk \in Nat, brk < USER_END,
         (ceilpg(addr) - ceilpg(brk)) % WORD <= MEMORY
  PROVE  /\ ceilpg(brk) <= ceilpg(addr)
         /\ (ceilpg(addr) - ceilpg(brk)) % WORD = ceilpg(addr) - ceilpg(brk)
<1> DEFINE c == ceilpg(addr)
           b == ceilpg(brk)
<1>1. c \in Nat /\ b \in Nat /\ c < WORD /\ b < WORD
  BY CeilAbove
<1>2. b <= USER_END
  BY CeilAbove, BrkConstants
<1>3. (c - b) % WORD <= MEMORY /\ WORD \in Nat /\ MEMORY \in Nat /\ USER_END \in Nat
      /\ USER_END + MEMORY < WORD
  BY BrkConstants
<1> HIDE DEF c, b
<1>4. c < b => (c - b) % WORD = c - b + WORD
  BY <1>1, <1>3
<1>5. b <= c => (c - b) % WORD = c - b
  BY <1>1, <1>3
<1>6. b <= c /\ (c - b) % WORD = c - b
  BY <1>1, <1>2, <1>3, <1>4, <1>5
<1> QED
  BY <1>6 DEF c, b

(* Growing maps every page from the old break to the new one.              *)
LEMMA GrowsInv ==
  ASSUME BInv, NEW addr \in Nat, 0 < addr, addr < USER_END, brk' = addr,
         BrkGrows(addr), failed' = (failed \/ ret' = NOMEM)
  PROVE  BInv'
<1> DEFINE diff == (ceilpg(addr) - ceilpg(brk)) % WORD
<1>1. /\ brk \in Nat /\ brk < USER_END /\ failed \in BOOLEAN /\ nblk \in Nat
      /\ {PAGESIZE, MMAP_START, BRK_BASE} \subseteq Nat
  BY BrkConstants DEF BInv
<1>2. /\ ceilpg(brk) \in Nat /\ brk <= ceilpg(brk)
      /\ ceilpg(addr) \in Nat /\ addr <= ceilpg(addr)
  BY <1>1, CeilAbove
<1>3. ceilpg(brk) <= ceilpg(addr) /\ diff = ceilpg(addr) - ceilpg(brk)
  BY <1>1, GrowDiff DEF BrkGrows
<1>4. pt' = Mapped(ceilpg(brk), diff, nblk + 1) /\ nblk' = nblk + 1
  BY DEF BrkGrows
<1>5. failed' = failed
  BY <1>1 DEF BrkGrows, NOMEM
<1>6. /\ pt' \in [Pages -> Int]
      /\ \A p \in Pages : pt[p] # 0 => pt'[p] # 0
      /\ \A p \in Pages : pt[p] # ELSEWHERE => pt'[p] # ELSEWHERE
      /\ \A p \in Pages : ceilpg(brk) <= p /\ p < ceilpg(brk) + diff => pt'[p] # 0
  <2>1. diff \in Int
    BY <1>2, <1>3
  <2> QED
    BY <1>4, <2>1, MappedKeeps
<1> HIDE DEF diff
<1>7. ASSUME ~ failed, addr + PAGESIZE <= MMAP_START,
             NEW p \in Pages, BRK_BASE <= p, p < addr
      PROVE  pt'[p] # 0
  <2>0. p \in Nat /\ p % PAGESIZE = 0
    BY DEF Pages
  <2>1. CASE p < brk
    <3>1. ceilpg(addr) + PAGESIZE <= MMAP_START
      BY <1>7, LastHeapPage
    <3>2. brk + PAGESIZE <= MMAP_START
      BY <1>1, <1>2, <1>3, <3>1
    <3> QED
      BY <1>6, <1>7, <2>1, <3>2 DEF BInv, HeapMapped
  <2>2. CASE brk <= p
    <3>1. ceilpg(brk) <= p
      BY <1>1, <2>0, <2>2, CeilAbove
    <3>2. p < ceilpg(brk) + diff
      BY <1>2, <1>3, <1>7, <2>0
    <3> QED
      BY <1>6, <3>1, <3>2
  <2> QED
    BY <1>1, <2>0, <2>1, <2>2
<1>8. ASSUME ~ failed, NEW p \in Pages, NEW q \in Pages,
             BRK_BASE <= p, p < q, q < MMAP_START, pt'[q] # 0
      PROVE  pt'[p] # 0
  <2>0. p \in Nat /\ q \in Nat /\ p % PAGESIZE = 0
    BY DEF Pages
  <2>1. CASE pt[q] # 0
    BY <1>6, <1>8, <2>1 DEF BInv, NoHoles
  <2>2. CASE pt[q] = 0
    <3>1. ceilpg(brk) <= q /\ q < ceilpg(brk) + diff
      BY <1>4, <1>8, <2>2 DEF Mapped
    <3>2. CASE p < brk
      <4>1. brk + PAGESIZE <= MMAP_START
        BY <1>1, <1>2, <1>8, <2>0, <3>1, LastHeapPage
      <4> QED
        BY <1>6, <1>8, <3>2, <4>1 DEF BInv, HeapMapped
    <3>3. CASE brk <= p
      <4>1. ceilpg(brk) <= p
        BY <1>1, <2>0, <3>3, CeilAbove
      <4>2. p < ceilpg(brk) + diff
        BY <1>2, <1>3, <1>8, <2>0, <3>1
      <4> QED
        BY <1>6, <4>1, <4>2
    <3> QED
      BY <1>1, <2>0, <3>2, <3>3
  <2> QED
    BY <2>1, <2>2
<1>9. HeapMapped'
  BY <1>5, <1>7 DEF HeapMapped
<1>10. NoHoles'
  BY <1>5, <1>8 DEF NoHoles
<1>11. HeapIsBrks'
  BY <1>6 DEF BInv, HeapIsBrks
<1> QED
  BY <1>1, <1>4, <1>5, <1>6, <1>9, <1>10, <1>11, BrkConstants DEF BInv

(* Moving the break to a page that is mapped needs NoHoles.                *)
LEMMA MovesInv ==
  ASSUME BInv, NEW addr \in Nat, 0 < addr, addr < USER_END, brk' = addr,
         BrkMoves(addr), failed' = (failed \/ ret' = NOMEM)
  PROVE  BInv'
<1>1. failed \in BOOLEAN /\ UNCHANGED <<pt, nblk>> /\ pt[trunc(addr)] # 0 /\ ret' = addr
  BY DEF BInv, BrkMoves
<1>2. failed' = failed
  BY <1>1 DEF NOMEM
<1>3. ASSUME ~ failed, addr + PAGESIZE <= MMAP_START,
             NEW p \in Pages, BRK_BASE <= p, p < addr
      PROVE  pt[p] # 0
  <2>1. trunc(addr) \in Pages /\ trunc(addr) <= addr /\ addr < trunc(addr) + PAGESIZE
    BY TruncIsPage
  <2>2. p \in Nat /\ p % PAGESIZE = 0 /\ trunc(addr) \in Nat /\ trunc(addr) % PAGESIZE = 0
    BY <2>1 DEF Pages
  <2>3. p < trunc(addr) + PAGESIZE /\ trunc(addr) < MMAP_START
    BY <1>3, <2>1, <2>2, BrkConstants
  <2>4. p <= trunc(addr)
    BY <2>2, <2>3, BrkConstants, Multiples
  <2>5. CASE p = trunc(addr)
    BY <1>1, <2>5
  <2>6. CASE p < trunc(addr)
    BY <1>1, <1>3, <2>1, <2>3, <2>6 DEF BInv, NoHoles
  <2> QED
    BY <2>2, <2>4, <2>5, <2>6
<1>4. HeapMapped'
  BY <1>1, <1>2, <1>3 DEF HeapMapped
<1> QED
  BY <1>1, <1>2, <1>4, BrkConstants DEF BInv, NoHoles, HeapIsBrks

(* A call that fails ends what the invariant says of holes.                *)
LEMMA FailsInv ==
  ASSUME BInv, NEW addr \in Nat, 0 < addr, addr < USER_END, brk' = addr,
         BrkNoMemory(addr) \/ BrkMapFails(addr), failed' = (failed \/ ret' = NOMEM)
  PROVE  BInv'
<1>1. failed' = TRUE
  BY Zenon DEF BrkNoMemory, BrkMapFails
<1>2. brk \in Nat /\ brk < USER_END /\ nblk \in Nat /\ ceilpg(brk) \in Nat
  BY BrkConstants, CeilAbove DEF BInv
<1>3. pt' \in [Pages -> Int] /\ nblk' \in Nat /\ HeapIsBrks'
  <2>1. CASE BrkNoMemory(addr)
    BY <2>1 DEF BrkNoMemory, BInv, HeapIsBrks
  <2>2. CASE BrkMapFails(addr)
    <3>1. PICK p \in Pages : pt' = Mapped(ceilpg(brk), p - ceilpg(brk), nblk + 1)
      BY <2>2 DEF BrkMapFails
    <3>2. p - ceilpg(brk) \in Int
      BY <1>2 DEF Pages
    <3>3. pt' \in [Pages -> Int] /\ \A r \in Pages : pt[r] # ELSEWHERE => pt'[r] # ELSEWHERE
      BY <3>1, <3>2, MappedKeeps
    <3> QED
      BY <1>2, <2>2, <3>3 DEF BrkMapFails, BInv, HeapIsBrks
  <2> QED
    BY <2>1, <2>2
<1> QED
  BY <1>1, <1>3, BrkConstants DEF BInv, HeapMapped, NoHoles

(* The other calls leave the heap alone.                                   *)
LEMMA AreaInv ==
  ASSUME BInv, NEW start \in Pages, NEW size \in Int,
         sys_mmap(start, size) \/ sys_munmap(start, size)
  PROVE  BInv'
<1>1. PICK entry \in Int : pt' = Mapped(start, size, entry)
  BY DEF sys_mmap, sys_munmap, ELSEWHERE
<1>2. MMAP_START <= start /\ UNCHANGED <<brk, nblk, failed>> /\ start \in Nat
  BY DEF sys_mmap, sys_munmap, mmap_range, Pages
<1>3. pt' \in [Pages -> Int] /\ \A p \in Pages : p < MMAP_START => pt'[p] = pt[p]
  <2>1. \A p \in Pages : p \in Nat
    BY DEF Pages
  <2> QED
    BY <1>1, <1>2, <2>1, BrkConstants DEF Mapped, BInv
<1>4. \A p \in Pages : p \in Nat
  BY DEF Pages
<1>5. brk \in Nat /\ {PAGESIZE, MMAP_START} \subseteq Nat
  BY BrkConstants DEF BInv
<1>6. HeapMapped'
  BY <1>2, <1>3, <1>4, <1>5 DEF BInv, HeapMapped
<1>7. NoHoles'
  BY <1>2, <1>3, <1>4, <1>5 DEF BInv, NoHoles
<1>8. HeapIsBrks'
  BY <1>3 DEF BInv, HeapIsBrks, InHeap
<1> QED
  BY <1>2, <1>3, <1>6, <1>7, <1>8 DEF BInv

(* A step is a call of sys_brk that changes nothing or moves the break, or *)
(* one of the other calls.                                                 *)
LEMMA BNextInv == BInv /\ [Next]_vars => BInv'
<1> SUFFICES ASSUME BInv, [Next]_vars PROVE BInv'
  OBVIOUS
<1>1. ASSUME NEW a \in Addrs, sys_brk(a), failed' = (failed \/ ret' = NOMEM) PROVE BInv'
  <2>1. a \in Nat
    BY BrkConstants
  <2>2. CASE UNCHANGED <<brk, pt, nblk>>
    BY <1>1, <2>2 DEF BInv, HeapMapped, NoHoles, HeapIsBrks
  <2>3. CASE /\ 0 < a /\ a < USER_END /\ brk' = a
             /\ BrkGrows(a) \/ BrkNoMemory(a) \/ BrkMapFails(a) \/ BrkMoves(a)
    BY <1>1, <2>1, <2>3, GrowsInv, MovesInv, FailsInv
  <2> QED
    BY <1>1, <2>2, <2>3 DEF sys_brk
<1>2. ASSUME NEW p \in Pages, NEW q \in Pages, sys_mmap(p, q - p) \/ sys_munmap(p, q - p)
      PROVE  BInv'
  <2>1. q - p \in Int
    BY DEF Pages
  <2> QED
    BY <1>2, <2>1, AreaInv
<1>3. CASE UNCHANGED vars
  BY <1>3 DEF vars, BInv, HeapMapped, NoHoles, HeapIsBrks
<1> QED
  BY <1>1, <1>2, <1>3 DEF Next

LEMMA BInitInv == Init => BInv
<1> SUFFICES ASSUME Init PROVE BInv
  OBVIOUS
<1>1. \A p \in Pages : p \in Nat /\ (InHeap(p) => pt[p] = 0)
  BY BrkConstants DEF Init, Pages
<1>2. pt \in [Pages -> Int] /\ brk \in 1 .. (USER_END - 1) /\ nblk \in Nat /\ brk = BRK_BASE
  BY BrkConstants DEF Init, ELSEWHERE
<1>3. HeapMapped
  BY <1>1, <1>2, BrkConstants DEF HeapMapped
<1>4. NoHoles
  <2> SUFFICES ASSUME NEW p \in Pages, NEW q \in Pages,
                      BRK_BASE <= p, p < q, q < MMAP_START, pt[q] # 0
               PROVE  FALSE
    BY DEF NoHoles
  <2> QED
    BY <1>1, BrkConstants DEF InHeap
<1>5. HeapIsBrks
  BY <1>1 DEF HeapIsBrks, ELSEWHERE
<1> QED
  BY <1>2, <1>3, <1>4, <1>5, Zenon DEF Init, BInv

(* Whatever calls sys_brk and the other calls were made, every page of the *)
(* heap up to a break below the mmap area is mapped as long as no sys_brk  *)
(* has failed, for every size of page, heap and area.                      *)
THEOREM HeapAlwaysMapped == Spec => []HeapMapped
<1>1. BInv => HeapMapped
  BY DEF BInv
<1> QED
  BY <1>1, BInitInv, BNextInv, PTL DEF Spec

(* No call loses the contents of the heap, even after calls that failed or *)
(* put the break elsewhere, and sys_brk maps over no page of another       *)
(* region while the break stays between BRK_BASE and the mmap area.        *)
THEOREM HeapAlwaysKept == Spec => HeapKept
<1> DEFINE Kept == \A p \in Pages :
                     /\ InHeap(p) /\ p < brk /\ pt[p] # 0 => pt'[p] = pt[p]
                     /\ /\ {brk, brk'} \subseteq BRK_BASE .. MMAP_START
                        /\ pt[p] = ELSEWHERE
                        => pt'[p] \in {ELSEWHERE, 0}
<1>1. BInv /\ [Next]_vars => [Kept]_vars
  <2> SUFFICES ASSUME BInv, Next, NEW p \in Pages
               PROVE  /\ InHeap(p) /\ p < brk /\ pt[p] # 0 => pt'[p] = pt[p]
                      /\ /\ {brk, brk'} \subseteq BRK_BASE .. MMAP_START
                         /\ pt[p] = ELSEWHERE
                         => pt'[p] \in {ELSEWHERE, 0}
    OBVIOUS
  <2>1. p \in Nat /\ brk \in Nat /\ brk < USER_END /\ {BRK_BASE, MMAP_START} \subseteq Nat
    BY BrkConstants DEF Pages, BInv
  <2>2. ceilpg(brk) \in Nat /\ brk <= ceilpg(brk)
    BY <2>1, CeilAbove
  <2>3. ASSUME NEW a \in Addrs, sys_brk(a), ~ UNCHANGED pt
        PROVE  /\ p < brk => pt'[p] = pt[p]
               /\ brk >= BRK_BASE /\ brk' <= MMAP_START /\ ~ InHeap(p) => pt'[p] = pt[p]
    <3>1. a \in Nat /\ a < USER_END /\ brk' = a /\ (BrkGrows(a) \/ BrkMapFails(a))
      BY <2>3, BrkConstants DEF sys_brk, BrkNoMemory, BrkMoves
    <3>2. PICK len \in Int : /\ pt' = Mapped(ceilpg(brk), len, nblk + 1)
                             /\ len <= (ceilpg(a) - ceilpg(brk)) % WORD
                             /\ (ceilpg(a) - ceilpg(brk)) % WORD <= MEMORY
      <4> DEFINE diff == (ceilpg(a) - ceilpg(brk)) % WORD
      <4>1. diff \in Int
        BY <2>2, <3>1, CeilAbove, BrkConstants
      <4>2. CASE BrkGrows(a)
        BY <4>1, <4>2 DEF BrkGrows
      <4>3. CASE BrkMapFails(a)
        <5>1. diff <= MEMORY
          BY <4>3 DEF BrkMapFails
        <5>2. PICK q \in Pages : /\ ceilpg(brk) <= q /\ q < ceilpg(brk) + diff
                                 /\ pt' = Mapped(ceilpg(brk), q - ceilpg(brk), nblk + 1)
          BY <4>3 DEF BrkMapFails
        <5> HIDE DEF diff
        <5>3. q - ceilpg(brk) \in Int /\ q - ceilpg(brk) <= diff
          BY <2>2, <4>1, <5>2 DEF Pages
        <5> QED
          BY <5>1, <5>2, <5>3 DEF diff
      <4> QED
        BY <3>1, <4>2, <4>3
    <3>3. ceilpg(brk) + len <= ceilpg(a) /\ ceilpg(a) \in Nat
      BY <2>1, <2>2, <3>1, <3>2, GrowDiff, CeilAbove
    <3>4. brk' <= MMAP_START => ceilpg(a) <= MMAP_START
      BY <2>1, <3>1, CeilAbove, BrkConstants
    <3>5. ~ (ceilpg(brk) <= p /\ p < ceilpg(brk) + len) => pt'[p] = pt[p]
      BY <3>2 DEF Mapped
    <3> QED
      BY <2>1, <2>2, <3>3, <3>4, <3>5 DEF InHeap
  <2>4. ASSUME NEW start \in Pages, NEW q \in Pages,
               sys_mmap(start, q - start) \/ sys_munmap(start, q - start)
        PROVE  pt'[p] \in {pt[p], ELSEWHERE, 0} /\ (p < MMAP_START => pt'[p] = pt[p])
    <3>1. start \in Nat /\ MMAP_START <= start
      BY <2>4 DEF Pages, sys_mmap, sys_munmap, mmap_range
    <3> QED
      BY <2>1, <2>4, <3>1 DEF sys_mmap, sys_munmap, Mapped
  <2>5. CASE \E a \in Addrs : sys_brk(a)
    BY <2>1, <2>3, <2>5 DEF BInv, HeapIsBrks
  <2>6. CASE \E start, q \in Pages : sys_mmap(start, q - start) \/ sys_munmap(start, q - start)
    BY <2>4, <2>6 DEF InHeap
  <2> QED
    BY <2>5, <2>6 DEF Next
<1> QED
  BY <1>1, BInitInv, BNextInv, PTL DEF Spec, HeapKept

(* The break stays in user space and the page table total, whatever        *)
(* sys_brk is asked for: a pointer that checkptr refuses moves nothing,    *)
(* and an error is never taken for a break.                                *)
THEOREM BrkTypes == Spec => []TypeOK
<1> DEFINE Entries == {ELSEWHERE} \cup (0 .. MaxBlocks)
<1>1. Init => TypeOK
  <2> SUFFICES ASSUME Init PROVE TypeOK
    OBVIOUS
  <2>1. pt \in [Pages -> Entries]
    BY BrkConstants DEF Init
  <2>2. BRK_BASE \in 1 .. (USER_END - 1) /\ 0 \in 0 .. MaxBlocks
    BY BrkConstants
  <2> QED
    BY <2>1, <2>2, Zenon DEF Init, TypeOK
<1>2. BInv /\ TypeOK /\ [Next]_vars => TypeOK'
  <2> SUFFICES ASSUME BInv, TypeOK, [Next]_vars PROVE TypeOK'
    OBVIOUS
  <2>0. ASSUME NEW from, NEW len, NEW entry \in Entries, pt' = Mapped(from, len, entry)
        PROVE  pt' \in [Pages -> Entries]
    BY <2>0 DEF Mapped, TypeOK
  <2>1. ASSUME NEW a \in Addrs, sys_brk(a), failed' = (failed \/ ret' = NOMEM)
        PROVE  TypeOK'
    <3>1. a \in Nat /\ brk' \in {brk, a} /\ (brk' = brk \/ (0 < a /\ a < USER_END))
      BY <2>1, BrkConstants DEF sys_brk
    <3>2. brk' \in 1 .. (USER_END - 1)
      BY <3>1, BrkConstants DEF TypeOK
    <3>3. ret' \in {NOMEM, FAULT} \cup (1 .. (USER_END - 1))
      <4>1. ret' \in {NOMEM, FAULT, brk} \/ (ret' = a /\ 0 < a /\ a < USER_END)
        BY <2>1 DEF sys_brk, BrkGrows, BrkNoMemory, BrkMapFails, BrkMoves
      <4> QED
        BY <3>1, <4>1, BrkConstants DEF TypeOK
    <3>4. pt' \in [Pages -> Entries] /\ nblk' \in 0 .. MaxBlocks
      <4>1. CASE UNCHANGED <<pt, nblk>>
        BY <4>1 DEF TypeOK
      <4>2. CASE ~ UNCHANGED <<pt, nblk>>
        <5>1. /\ nblk < MaxBlocks /\ nblk' = nblk + 1
              /\ \E from, len : pt' = Mapped(from, len, nblk + 1)
          BY <2>1, <4>2 DEF sys_brk, BrkGrows, BrkNoMemory, BrkMapFails, BrkMoves
        <5>2. nblk + 1 \in Entries /\ nblk' \in 0 .. MaxBlocks
          BY <5>1, BrkConstants DEF TypeOK
        <5> QED
          BY <2>0, <5>1, <5>2
      <4> QED
        BY <4>1, <4>2
    <3>5. failed' \in BOOLEAN
      BY <2>1
    <3> QED
      BY <3>2, <3>3, <3>4, <3>5 DEF TypeOK
  <2>2. ASSUME NEW p \in Pages, NEW q \in Pages, sys_mmap(p, q - p) \/ sys_munmap(p, q - p)
        PROVE  TypeOK'
    <3>1. ELSEWHERE \in Entries /\ 0 \in Entries
      BY BrkConstants
    <3>2. /\ UNCHANGED <<brk, nblk, ret, failed>>
          /\ pt' = Mapped(p, q - p, ELSEWHERE) \/ pt' = Mapped(p, q - p, 0)
      BY <2>2 DEF sys_mmap, sys_munmap
    <3>3. pt' \in [Pages -> Entries]
      BY <2>0, <3>1, <3>2
    <3> QED
      BY <3>2, <3>3 DEF TypeOK
  <2>3. CASE UNCHANGED vars
    BY <2>3 DEF vars, TypeOK
  <2> QED
    BY <2>1, <2>2, <2>3 DEF Next
<1> QED
  BY <1>1, <1>2, BInitInv, BNextInv, PTL DEF Spec
=============================================================================
