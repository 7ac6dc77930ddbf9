-------------------------- MODULE AddrSpaceProofs --------------------------
(* Theorems about AddrSpace, for every size of page, word and area, every   *)
(* set of arguments and both architectures.                                 *)
EXTENDS AddrSpace, TLAPS

USE SMTT(60)

(* No request is so long that its end leaves the machine word.              *)
NoWrap ==
  \A n \in Lengths :
    /\ MMAP_END + n + PAGESIZE < WORD
    /\ \A a \in Addrs : a + n + PAGESIZE < WORD
-----------------------------------------------------------------------------
(* Machine arithmetic *)

LEMMA WrapType == ASSUME NEW x \in Int PROVE Wrap(x) \in Word
BY ConstantsOK DEF Wrap, Word

LEMMA WrapId == ASSUME NEW x \in Word PROVE Wrap(x) = x
BY DEF Wrap

LEMMA TruncBound == ASSUME NEW a \in Nat PROVE truncpg(a) \in Nat /\ truncpg(a) <= a
<1>1. PAGESIZE \in Nat /\ PAGESIZE > 0
  BY ConstantsOK
<1>2. a % PAGESIZE \in Nat /\ a % PAGESIZE <= a
  BY <1>1
<1> QED BY <1>2 DEF truncpg

LEMMA CeilType == ASSUME NEW n \in Word PROVE ceilpg(n) \in Word
<1>1. Wrap(n + PAGESIZE - 1) \in Word
  BY ConstantsOK, WrapType DEF Word
<1> QED BY <1>1, TruncBound, ConstantsOK DEF ceilpg, Word

LEMMA CeilBound ==
  ASSUME NEW n \in Word, n + PAGESIZE < WORD
  PROVE  ceilpg(n) \in Nat /\ ceilpg(n) < n + PAGESIZE
<1>1. n + PAGESIZE - 1 \in Word
  BY ConstantsOK DEF Word
<1>2. Wrap(n + PAGESIZE - 1) = n + PAGESIZE - 1
  BY <1>1, WrapId
<1> QED BY <1>1, <1>2, TruncBound, ConstantsOK DEF ceilpg, Word

LEMMA TruncType == ASSUME NEW a \in Word PROVE truncpg(a) \in Word
BY TruncBound, ConstantsOK DEF Word
-----------------------------------------------------------------------------
(* Type correctness *)

VmaType == [start : Word, size : Word, blk : Blocks]
FreeType == [start : Word, size : Word]

(* What TypeOK says without the bounds of the area, which hold only        *)
(* together with AreaVmas below.                                           *)
Types ==
  /\ vmas \subseteq [start : Word, size : Word, blk : Blocks]
  /\ free_vmas \subseteq [start : Word, size : Word]
  /\ pt \in [Pages -> 0 .. MaxBlocks]
  /\ tlb \in [Pages -> 0 .. MaxBlocks]
  /\ nblk \in 0 .. MaxBlocks
  /\ state \in {"run", "exited", "panic"}
  /\ ret \in {"none", "OK", "NOMEM"}

LEMMA EndType == ASSUME NEW i, i.start \in Word, i.size \in Word PROVE End(i) \in Word
BY WrapType DEF End, Word

LEMMA CarveType ==
  ASSUME vmas \subseteq VmaType, NEW start \in Word, NEW size \in Word
  PROVE  Carve(start, size) \subseteq VmaType
<1>1. ASSUME NEW v \in vmas PROVE LeftPart(v, start) \in VmaType
  <2>1. v \in VmaType /\ Wrap(start - v.start) \in Word
    BY WrapType DEF VmaType, Word
  <2> QED BY <2>1 DEF LeftPart, VmaType
<1>2. ASSUME NEW v \in vmas PROVE RightPart(v, start, size) \in VmaType
  <2>1. v \in VmaType
    OBVIOUS
  <2>2. Wrap(start + size) \in Word
    BY WrapType DEF Word
  <2>3. End(v) \in Word
    BY <2>1, EndType DEF VmaType
  <2>4. Wrap(End(v) - Wrap(start + size)) \in Word
    BY <2>2, <2>3, WrapType DEF Word
  <2> QED BY <2>1, <2>2, <2>4 DEF RightPart, VmaType
<1> QED BY <1>1, <1>2 DEF Carve, Hit

LEMMA SplitType ==
  ASSUME free_vmas \subseteq FreeType, NEW start \in Word, NEW size \in Word,
         NEW i \in free_vmas
  PROVE  /\ FreeLeft(i, start) \subseteq FreeType
         /\ FreeRight(i, start, size) \subseteq FreeType
<1>1. i \in FreeType
  OBVIOUS
<1>2. /\ Wrap(start - i.start) \in Word
      /\ Wrap(start + size) \in Word
      /\ Wrap(i.size - (start - i.start) - size) \in Word
  BY <1>1, WrapType DEF FreeType, Word
<1> QED BY <1>1, <1>2 DEF FreeLeft, FreeRight, FreeType

LEMMA MapType ==
  ASSUME Types, nblk < MaxBlocks, NEW start \in Word, NEW length \in Word, NEW file,
         map_vma(start, length, file)
  PROVE  Types'
<1> DEFINE size == ceilpg(length)
<1>1. size \in Word
  BY CeilType
<1>2. vmas \subseteq VmaType /\ free_vmas \subseteq FreeType
  BY DEF Types, VmaType, FreeType
<1>3. nblk + 1 \in Blocks /\ nblk + 1 \in 0 .. MaxBlocks
  BY ConstantsOK DEF Types, Blocks
<1>4. Carve(start, size) \subseteq VmaType
  BY <1>1, <1>2, CarveType
<1>5. ASSUME AddVma(start, size) PROVE vmas' \subseteq VmaType
  BY <1>1, <1>3, <1>4, <1>5 DEF AddVma, VmaType
<1>6. ASSUME NEW i PROVE Split(i, start, size) \subseteq FreeType
  BY <1>1, <1>2, SplitType DEF Split
<1>7. NoTranslation \in [Pages -> 0 .. MaxBlocks]
  BY ConstantsOK DEF NoTranslation
<1>8. MapRegion(start, size, nblk + 1) \in [Pages -> 0 .. MaxBlocks]
  BY <1>3 DEF MapRegion, Types
<1> HIDE DEF size
<1> USE DEF VmaType, FreeType
<1>a. CASE ~ map_vma_bounds(start, size) /\ UNCHANGED <<vmas, free_vmas, pt, nblk>> /\ Return("NOMEM")
  BY <1>a, <1>7 DEF Types, Return
<1>b. CASE VmaAddFails(start, size)
  BY <1>b, <1>4, <1>7 DEF Types, Return, VmaAddFails
<1>c. CASE RightAddFails(start, size)
  <2>1. free_vmas' \subseteq FreeType
    BY <1>c, <1>1, <1>2, SplitType DEF RightAddFails
  <2>2. vmas' \subseteq VmaType
    BY <1>c, <1>5 DEF RightAddFails
  <2> QED BY <1>c, <2>1, <2>2, <1>3, <1>7 DEF Types, Return, RightAddFails
<1>d. CASE KzallocFails(start, size)
  <2>1. free_vmas' \subseteq FreeType
    BY <1>d, <1>6 DEF KzallocFails
  <2>2. vmas' \subseteq VmaType
    BY <1>d, <1>5 DEF KzallocFails
  <2> QED BY <1>d, <2>1, <2>2, <1>3, <1>7 DEF Types, Return, KzallocFails
<1>e. CASE Maps(start, size, length, file)
  <2>1. free_vmas' \subseteq FreeType
    BY <1>e, <1>6 DEF Maps
  <2>2. vmas' \subseteq VmaType
    BY <1>e, <1>5 DEF Maps
  <2> QED BY <1>e, <2>1, <2>2, <1>3, <1>7, <1>8 DEF Types, Return, Maps
<1>f. CASE MapPanics(start, size, length, file)
  BY <1>f DEF MapPanics, Stop, Types
<1> QED BY <1>a, <1>b, <1>c, <1>d, <1>e, <1>f DEF map_vma, size

LEMMA MunmapType ==
  ASSUME Types, NEW addr \in Word, NEW length \in Word, sys_munmap(addr, length)
  PROVE  Types'
<1> DEFINE start == truncpg(addr)
           size == ceilpg(length)
<1>1. start \in Word /\ size \in Word
  BY TruncType, CeilType
<1>2. NoTranslation \in [Pages -> 0 .. MaxBlocks]
  BY ConstantsOK DEF NoTranslation
<1>3. MapRegion(start, size, 0) \in [Pages -> 0 .. MaxBlocks]
  BY ConstantsOK DEF MapRegion, Types
<1>4. [start |-> start, size |-> size] \in [start : Word, size : Word]
  BY <1>1
<1> HIDE DEF start, size
<1>5. /\ vmas' \subseteq vmas
      /\ free_vmas' \subseteq free_vmas \cup {[start |-> start, size |-> size]}
      /\ pt' \in {pt, MapRegion(start, size, 0)}
      /\ nblk' = nblk /\ state' = state /\ tlb' = NoTranslation
      /\ ret' \in {"OK", "NOMEM"}
  BY DEF sys_munmap, Return, start, size
<1> QED BY <1>2, <1>3, <1>4, <1>5 DEF Types

LEMMA NextType == Types /\ [Next]_vars => Types'
<1> SUFFICES ASSUME Types, [Next]_vars PROVE Types'
  OBVIOUS
<1>1. CASE UNCHANGED vars
  BY <1>1 DEF Types, vars
<1>2. ASSUME NEW a \in Addrs, NEW n \in Lengths, NEW f, sys_mmap(a, n, f)
      PROVE  Types'
  <2>1. a \in Word /\ n \in Word /\ nblk < MaxBlocks
    BY <1>2, ConstantsOK DEF sys_mmap
  <2>2. CASE map_vma(truncpg(a), n, f)
    BY <2>1, <2>2, TruncType, MapType
  <2>3. CASE map_vma_any(n, f)
    <3>1. CASE UNCHANGED <<vmas, free_vmas, pt, nblk>> /\ Return("NOMEM")
      <4>1. NoTranslation \in [Pages -> 0 .. MaxBlocks]
        BY ConstantsOK DEF NoTranslation
      <4> QED BY <3>1, <4>1 DEF Types, Return
    <3>2. ASSUME NEW i \in free_vmas, map_vma(i.start, n, f) PROVE Types'
      <4>1. i.start \in Word
        BY DEF Types
      <4> QED BY <4>1, <3>2, <2>1, MapType
    <3> QED BY <2>3, <3>1, <3>2 DEF map_vma_any
  <2> QED BY <1>2, <2>2, <2>3 DEF sys_mmap
<1>3. ASSUME NEW a \in Addrs, NEW n \in Lengths, sys_munmap(a, n)
      PROVE  Types'
  BY <1>3, ConstantsOK, MunmapType
<1>4. ASSUME NEW p \in Pages, UserAccess(p) PROVE Types'
  BY <1>4 DEF UserAccess, Types
<1>5. ASSUME NEW p \in Pages, PageFault(p) PROVE Types'
  <2>1. CASE \E s \in {"panic", "exited"} : Stop(s)
    BY <2>1 DEF Stop, Types
  <2>2. CASE /\ nblk < MaxBlocks
             /\ UNCHANGED pt \/ pt' = [pt EXCEPT ![p] = nblk + 1]
             /\ nblk' = nblk + 1
             /\ tlb' = NoTranslation
             /\ UNCHANGED <<vmas, free_vmas, state, ret>>
    <3>1. NoTranslation \in [Pages -> 0 .. MaxBlocks]
      BY ConstantsOK DEF NoTranslation
    <3>2. nblk + 1 \in 0 .. MaxBlocks
      BY <2>2, ConstantsOK DEF Types
    <3> QED BY <2>2, <3>1, <3>2 DEF Types
  <2> QED BY <1>5, <2>1, <2>2 DEF PageFault
<1> QED BY <1>1, <1>2, <1>3, <1>4, <1>5 DEF Next

LEMMA InitType == Init => Types
<1>1. MMAP_START \in Word /\ MMAP_SIZE \in Word
  BY ConstantsOK DEF Word
<1> QED BY <1>1, ConstantsOK DEF Init, Types, NoTranslation
-----------------------------------------------------------------------------
(* The vmas stay disjoint, whatever the hints *)

(* What map_vma_bounds leaves of the requests. *)
Request(start, size) ==
  /\ start \in Nat /\ size \in Nat
  /\ MMAP_START <= start /\ start + size < MMAP_END

Range(start, size) == [start |-> start, size |-> size]

AreaVmas ==
  /\ \A v \in vmas : InArea(v)
  /\ \A v, w \in vmas : v # w => Disjoint(v, w)

Within(c, v) == v.start <= c.start /\ c.start + c.size <= v.start + v.size

LEMMA EndInArea ==
  ASSUME NEW i, i.start \in Word, i.size \in Word, InArea(i)
  PROVE  End(i) = i.start + i.size
<1>1. i.start + i.size \in Word
  BY ConstantsOK DEF InArea, MMAP_END, Word
<1> QED BY <1>1, WrapId DEF End

LEMMA RequestEnd ==
  ASSUME NEW start, NEW size, Request(start, size)
  PROVE  Wrap(start + size) = start + size
<1>1. start + size \in Word
  BY ConstantsOK DEF Request, MMAP_END, Word
<1> QED BY <1>1, WrapId

LEMMA Parts ==
  ASSUME Types, AreaVmas, NEW start, NEW size, Request(start, size), NEW v \in vmas
  PROVE  /\ End(v) = v.start + v.size
         /\ Overlaps(v, start, size) <=> v.start < start + size /\ v.start + v.size > start
         /\ HasLeft(v, start) =>
              LeftPart(v, start) = [start |-> v.start, size |-> start - v.start, blk |-> v.blk]
         /\ HasRight(v, start, size) =>
              /\ v.start + v.size > start + size
              /\ RightPart(v, start, size) =
                   [start |-> start + size,
                    size |-> (v.start + v.size) - (start + size), blk |-> v.blk]
<1>1. v.start \in Word /\ v.size \in Word
  BY DEF Types
<1>2. End(v) = v.start + v.size
  BY <1>1, EndInArea DEF AreaVmas
<1>3. Wrap(start + size) = start + size
  BY RequestEnd
<1>4. HasLeft(v, start) => Wrap(start - v.start) = start - v.start
  <2>1. HasLeft(v, start) => start - v.start \in Word
    BY <1>1, ConstantsOK DEF HasLeft, Request, Word, MMAP_END
  <2> QED BY <2>1, WrapId
<1>5. HasRight(v, start, size) =>
        Wrap((v.start + v.size) - (start + size)) = (v.start + v.size) - (start + size)
  <2>1. v.start + v.size \in Word
    BY <1>1, <1>2, EndType
  <2>2. HasRight(v, start, size) => (v.start + v.size) - (start + size) \in Word
    BY <1>1, <1>2, <1>3, <2>1, ConstantsOK DEF HasRight, Request, Word
  <2> QED BY <2>2, WrapId
<1> QED BY <1>2, <1>3, <1>4, <1>5 DEF Overlaps, LeftPart, RightPart, HasRight

(* An element of Carve is a vma that misses the range, or a part of a vma.  *)
LEMMA CarveElement ==
  ASSUME Types, AreaVmas, NEW start, NEW size, Request(start, size),
         NEW c \in Carve(start, size)
  PROVE  \E v \in vmas :
           /\ Within(c, v)
           /\ Disjoint(c, Range(start, size))
           /\ c.blk = v.blk
           /\ c \in {v, LeftPart(v, start), RightPart(v, start, size)}
           /\ c = v => ~ Overlaps(v, start, size)
           /\ c # v => /\ Overlaps(v, start, size)
                       /\ \/ c = LeftPart(v, start) /\ HasLeft(v, start)
                          \/ c = RightPart(v, start, size) /\ HasRight(v, start, size)
<1>1. CASE c \in vmas \ Hit(start, size)
  <2>1. ~ Overlaps(c, start, size) /\ c \in vmas /\ c.start \in Word /\ c.size \in Word
    BY <1>1 DEF Hit, Types
  <2>2. ~ (c.start < start + size /\ c.start + c.size > start)
    BY <2>1, Parts
  <2> QED BY <2>1, <2>2, ConstantsOK DEF Word, Within, Disjoint, Range, Request
<1>2. ASSUME NEW v \in Hit(start, size), HasLeft(v, start), c = LeftPart(v, start)
      PROVE  /\ v \in vmas /\ Overlaps(v, start, size) /\ Within(c, v) /\ c # v
             /\ Disjoint(c, Range(start, size)) /\ c.blk = v.blk
  <2>1. v \in vmas /\ Overlaps(v, start, size) /\ v.start \in Word /\ v.size \in Word
    BY <1>2 DEF Hit, Types
  <2>2. v.start + v.size > start
    BY <2>1, Parts
  <2>3. c = [start |-> v.start, size |-> start - v.start, blk |-> v.blk]
    BY <1>2, <2>1, Parts
  <2> QED BY <2>1, <2>2, <2>3, ConstantsOK DEF Word, Within, Disjoint, Range, Request
<1>3. ASSUME NEW v \in Hit(start, size), HasRight(v, start, size), c = RightPart(v, start, size)
      PROVE  /\ v \in vmas /\ Overlaps(v, start, size) /\ Within(c, v) /\ c # v
             /\ Disjoint(c, Range(start, size)) /\ c.blk = v.blk
  <2>1. v \in vmas /\ Overlaps(v, start, size) /\ v.start \in Word /\ v.size \in Word
    BY <1>3 DEF Hit, Types
  <2>2. v.start < start + size
    BY <2>1, Parts
  <2>3. HasRight(v, start, size) => RightPart(v, start, size) =
          [start |-> start + size,
           size |-> (v.start + v.size) - (start + size), blk |-> v.blk]
    BY <2>1, Parts
  <2>4. c = [start |-> start + size,
             size |-> (v.start + v.size) - (start + size), blk |-> v.blk]
    BY <1>3, <2>3, Zenon
  <2> QED BY <2>1, <2>2, <2>4, ConstantsOK DEF Word, Within, Disjoint, Range, Request
<1> QED BY <1>1, <1>2, <1>3 DEF Carve, Hit

LEMMA CarveDisjoint ==
  ASSUME Types, AreaVmas, NEW start, NEW size, Request(start, size)
  PROVE  /\ \A c \in Carve(start, size) : InArea(c) /\ Disjoint(c, Range(start, size))
         /\ \A c, d \in Carve(start, size) : c # d => Disjoint(c, d)
<1>0. start \in Word /\ size \in Word
  BY ConstantsOK DEF Request, Word, MMAP_END
<1>1. Carve(start, size) \subseteq VmaType
  BY <1>0, CarveType DEF Types, VmaType
<1>2. ASSUME NEW c \in Carve(start, size)
      PROVE  InArea(c) /\ Disjoint(c, Range(start, size))
  <2>1. PICK v \in vmas : Within(c, v) /\ Disjoint(c, Range(start, size))
    BY CarveElement
  <2>2. InArea(v) /\ v \in VmaType /\ c \in VmaType
    BY <1>1 DEF AreaVmas, Types, VmaType
  <2> QED BY <2>1, <2>2, ConstantsOK DEF InArea, Within, VmaType, Word, MMAP_END
<1>3. ASSUME NEW c \in Carve(start, size), NEW d \in Carve(start, size), c # d
      PROVE  Disjoint(c, d)
  <2>1. PICK v \in vmas :
           /\ Within(c, v)
           /\ c = v => ~ Overlaps(v, start, size)
           /\ c # v => /\ Overlaps(v, start, size)
                       /\ \/ c = LeftPart(v, start) /\ HasLeft(v, start)
                          \/ c = RightPart(v, start, size) /\ HasRight(v, start, size)
    BY CarveElement
  <2>2. PICK w \in vmas :
           /\ Within(d, w)
           /\ d = w => ~ Overlaps(w, start, size)
           /\ d # w => /\ Overlaps(w, start, size)
                       /\ \/ d = LeftPart(w, start) /\ HasLeft(w, start)
                          \/ d = RightPart(w, start, size) /\ HasRight(w, start, size)
    BY CarveElement
  <2>3. /\ c \in VmaType /\ d \in VmaType /\ v \in VmaType /\ w \in VmaType
    BY <1>1 DEF Types, VmaType
  <2>4. CASE v # w
    <3>1. Disjoint(v, w)
      BY <2>4 DEF AreaVmas
    <3> QED BY <3>1, <2>1, <2>2, <2>3 DEF Disjoint, Within, VmaType, Word
  <2>5. CASE v = w
    <3>1. c # v /\ d # v
      BY <2>1, <2>2, <2>5, <1>3
    <3>2. /\ HasLeft(v, start) => LeftPart(v, start) =
               [start |-> v.start, size |-> start - v.start, blk |-> v.blk]
          /\ HasRight(v, start, size) => RightPart(v, start, size) =
               [start |-> start + size,
                size |-> (v.start + v.size) - (start + size), blk |-> v.blk]
      BY Parts
    <3>3. \/ /\ c = [start |-> v.start, size |-> start - v.start, blk |-> v.blk]
             /\ d = [start |-> start + size,
                     size |-> (v.start + v.size) - (start + size), blk |-> v.blk]
          \/ /\ d = [start |-> v.start, size |-> start - v.start, blk |-> v.blk]
             /\ c = [start |-> start + size,
                     size |-> (v.start + v.size) - (start + size), blk |-> v.blk]
      BY <2>1, <2>2, <2>5, <3>1, <3>2, <1>3, Zenon
    <3> QED BY <3>3, <2>3 DEF Disjoint, VmaType, Word, Request
  <2> QED BY <2>4, <2>5
<1> QED BY <1>2, <1>3

(* The new list of a call that carves, with or without the new vma.         *)
LEMMA MapDisjoint ==
  ASSUME Types, AreaVmas, NEW start, NEW size, Request(start, size),
         \/ vmas' = vmas
         \/ vmas' = Carve(start, size)
         \/ AddVma(start, size)
  PROVE  AreaVmas'
<1> DEFINE new == [start |-> start, size |-> size, blk |-> nblk + 1]
<1>1. vmas' = vmas \/ vmas' \subseteq Carve(start, size) \cup {new}
  BY DEF AddVma
<1>2. InArea(new)
  BY ConstantsOK DEF InArea, Request, MMAP_END
<1>3. \A c \in Carve(start, size) : Disjoint(c, new) /\ Disjoint(new, c)
  BY CarveDisjoint DEF Disjoint, Range
<1> HIDE DEF new
<1> QED BY <1>1, <1>2, <1>3, CarveDisjoint DEF AreaVmas, InArea, Disjoint, MMAP_END

(* Under NoWrap every request that passes map_vma_bounds ends in the area.  *)
LEMMA BoundsRequest ==
  ASSUME NoWrap, NEW n \in Lengths, NEW start \in Nat,
         start <= MMAP_END \/ \E a \in Addrs : start <= a,
         map_vma_bounds(start, ceilpg(n))
  PROVE  Request(start, ceilpg(n))
<1>1. n \in Word /\ n + PAGESIZE < WORD
  BY ConstantsOK DEF NoWrap, Word, MMAP_END
<1>2. ceilpg(n) \in Nat /\ ceilpg(n) < n + PAGESIZE
  BY <1>1, CeilBound
<1>3. start + ceilpg(n) \in Word
  <2>1. CASE start <= MMAP_END
    BY <2>1, <1>1, <1>2, ConstantsOK DEF NoWrap, Word, MMAP_END
  <2>2. ASSUME NEW a \in Addrs, start <= a PROVE start + ceilpg(n) \in Word
    <3>1. a + n + PAGESIZE < WORD /\ a \in Word
      BY ConstantsOK DEF NoWrap
    <3> QED BY <3>1, <2>2, <1>1, <1>2, ConstantsOK DEF Word
  <2> QED BY <2>1, <2>2
<1>4. Wrap(start + ceilpg(n)) = start + ceilpg(n)
  BY <1>3, WrapId
<1> QED BY <1>2, <1>4 DEF map_vma_bounds, Request

(* The new free_vmas of a call that splits the interval i, with or without  *)
(* the right part.                                                          *)
Splits(i, start, size) ==
  \/ free_vmas' = Split(i, start, size)
  \/ i \in free_vmas /\ free_vmas' = (free_vmas \ {i}) \cup FreeLeft(i, start)

(* The start of a free interval is an address of the area, or its end; true *)
(* even of the intervals a split with wrong sizes leaves behind.            *)
FreeStarts == \A i \in free_vmas : MMAP_START <= i.start /\ i.start <= MMAP_END

LEMMA MapFreeStarts ==
  ASSUME Types, FreeStarts, NEW start, NEW size, Request(start, size),
         NEW i, Splits(i, start, size)
  PROVE  FreeStarts'
<1>1. Wrap(start + size) = start + size
  BY RequestEnd
<1>2. \A j \in FreeRight(i, start, size) : MMAP_START <= j.start /\ j.start <= MMAP_END
  BY <1>1, ConstantsOK DEF FreeRight, Request, MMAP_END
<1>3. i \in free_vmas => \A j \in FreeLeft(i, start) : MMAP_START <= j.start /\ j.start <= MMAP_END
  BY DEF FreeLeft, FreeStarts
<1> QED BY <1>2, <1>3 DEF Splits, Split, FreeStarts, MMAP_END

(* One call of map_vma, seen from vmas, free_vmas and the page table.       *)
LEMMA MapEffect ==
  ASSUME NEW start, NEW length, NEW file, map_vma(start, length, file)
  PROVE  \/ UNCHANGED <<vmas, free_vmas, pt>>
         \/ /\ map_vma_bounds(start, ceilpg(length))
            /\ vmas' = Carve(start, ceilpg(length)) /\ UNCHANGED <<free_vmas, pt>>
         \/ /\ map_vma_bounds(start, ceilpg(length))
            /\ AddVma(start, ceilpg(length))
            /\ \E i \in FreeHit(start, ceilpg(length)) : Splits(i, start, ceilpg(length))
            /\ pt' \in {pt, MapRegion(start, ceilpg(length), nblk + 1)}
<1> DEFINE size == ceilpg(length)
<1>1. CASE UNCHANGED <<vmas, free_vmas, pt>>
  BY <1>1
<1>2. CASE map_vma_bounds(start, size) /\ VmaAddFails(start, size)
  BY <1>2 DEF VmaAddFails
<1>3. CASE map_vma_bounds(start, size) /\ RightAddFails(start, size)
  BY <1>3 DEF RightAddFails, Splits
<1>4. CASE map_vma_bounds(start, size) /\ KzallocFails(start, size)
  BY <1>4 DEF KzallocFails, Splits
<1>5. CASE map_vma_bounds(start, size) /\ Maps(start, size, length, file)
  BY <1>5 DEF Maps, Splits
<1>6. CASE MapPanics(start, size, length, file)
  BY <1>6 DEF MapPanics, Stop
<1> QED BY <1>1, <1>2, <1>3, <1>4, <1>5, <1>6, Zenon DEF map_vma

VmaInv == Types /\ AreaVmas /\ FreeStarts

LEMMA MapVmaInv ==
  ASSUME NoWrap, VmaInv, NEW n \in Lengths, NEW start \in Nat, NEW f,
         start <= MMAP_END \/ \E a \in Addrs : start <= a,
         map_vma(start, n, f)
  PROVE  AreaVmas' /\ FreeStarts'
<1> DEFINE size == ceilpg(n)
<1>1. CASE UNCHANGED <<vmas, free_vmas, pt>>
  BY <1>1 DEF VmaInv, AreaVmas, FreeStarts, InArea, Disjoint, MMAP_END
<1>2. CASE map_vma_bounds(start, size)
  <2>1. Request(start, size)
    BY <1>2, BoundsRequest
  <2>2. ASSUME vmas' = Carve(start, size) \/ AddVma(start, size)
        PROVE  AreaVmas'
    BY <2>1, <2>2, MapDisjoint DEF VmaInv
  <2>3. ASSUME free_vmas' = free_vmas
        PROVE  FreeStarts'
    BY <2>3 DEF VmaInv, FreeStarts, MMAP_END
  <2>4. ASSUME NEW i, Splits(i, start, size) PROVE FreeStarts'
    BY <2>1, <2>4, MapFreeStarts DEF VmaInv
  <2> HIDE DEF size
  <2>5. \/ UNCHANGED <<vmas, free_vmas, pt>>
        \/ /\ vmas' = Carve(start, size) \/ AddVma(start, size)
           /\ \/ UNCHANGED <<free_vmas, pt>>
              \/ \E i \in FreeHit(start, size) : Splits(i, start, size)
    BY MapEffect DEF size
  <2> QED BY <1>1, <2>2, <2>3, <2>4, <2>5
<1> QED BY <1>1, <1>2, MapEffect

LEMMA MunmapEffect ==
  ASSUME NEW addr, NEW length, sys_munmap(addr, length)
  PROVE  \/ UNCHANGED <<vmas, free_vmas, pt>>
         \/ \E v \in vmas :
              /\ v.start = truncpg(addr) /\ v.size = ceilpg(length)
              /\ vmas' = vmas \ {v}
              /\ \/ UNCHANGED <<free_vmas, pt>>
                 \/ /\ free_vmas' = free_vmas \cup {Range(v.start, v.size)}
                    /\ pt' = MapRegion(v.start, v.size, 0)
BY DEF sys_munmap, Range

LEMMA MunmapVmaInv ==
  ASSUME VmaInv, NEW addr, NEW length, sys_munmap(addr, length)
  PROVE  AreaVmas' /\ FreeStarts'
<1>1. CASE UNCHANGED <<vmas, free_vmas, pt>>
  BY <1>1 DEF VmaInv, AreaVmas, FreeStarts, InArea, Disjoint, MMAP_END
<1>2. ASSUME NEW v \in vmas, vmas' = vmas \ {v},
             free_vmas' = free_vmas \/ free_vmas' = free_vmas \cup {Range(v.start, v.size)}
      PROVE  AreaVmas' /\ FreeStarts'
  <2>1. AreaVmas'
    BY <1>2 DEF VmaInv, AreaVmas, InArea, Disjoint, MMAP_END
  <2>2. MMAP_START <= v.start /\ v.start <= MMAP_END
    BY ConstantsOK DEF VmaInv, AreaVmas, InArea, Types, MMAP_END, Word
  <2>3. FreeStarts'
    BY <1>2, <2>2 DEF VmaInv, FreeStarts, Range, MMAP_END
  <2> QED BY <2>1, <2>3
<1> QED BY <1>1, <1>2, MunmapEffect

LEMMA NextVmaInv == NoWrap /\ VmaInv /\ [Next]_vars => VmaInv'
<1> SUFFICES ASSUME NoWrap, VmaInv, [Next]_vars PROVE AreaVmas' /\ FreeStarts'
  BY NextType DEF VmaInv
<1>1. CASE UNCHANGED <<vmas, free_vmas>>
  BY <1>1 DEF VmaInv, AreaVmas, FreeStarts, InArea, Disjoint, MMAP_END
<1>2. ASSUME NEW a \in Addrs, NEW n \in Lengths, NEW f, sys_mmap(a, n, f)
      PROVE  AreaVmas' /\ FreeStarts'
  <2>1. CASE map_vma(truncpg(a), n, f)
    <3>1. a \in Nat
      BY ConstantsOK DEF Word
    <3> QED BY <2>1, <3>1, TruncBound, MapVmaInv
  <2>2. ASSUME NEW i \in free_vmas, map_vma(i.start, n, f)
        PROVE  AreaVmas' /\ FreeStarts'
    <3>1. i.start \in Nat /\ i.start <= MMAP_END
      BY DEF VmaInv, FreeStarts, Types, Word
    <3> QED BY <2>2, <3>1, MapVmaInv
  <2> QED BY <1>1, <1>2, <2>1, <2>2 DEF sys_mmap, map_vma_any
<1>3. ASSUME NEW a \in Addrs, NEW n \in Lengths, sys_munmap(a, n)
      PROVE  AreaVmas' /\ FreeStarts'
  BY <1>3, MunmapVmaInv
<1>4. ASSUME NEW p \in Pages, UserAccess(p) \/ PageFault(p)
      PROVE  UNCHANGED <<vmas, free_vmas>>
  BY <1>4 DEF UserAccess, PageFault, Stop
<1> QED BY <1>1, <1>2, <1>3, <1>4 DEF Next, vars

LEMMA InitVmaInv == Init => VmaInv
BY InitType, ConstantsOK DEF Init, VmaInv, AreaVmas, FreeStarts, MMAP_END

(* For every hint, length, file and allocation failure, and both            *)
(* architectures, map_vma keeps the vmas of the process disjoint, as long   *)
(* as no request wraps around the machine word.                             *)
THEOREM VmasDisjointAlways == NoWrap => (Spec => []VmasDisjoint)
<1> SUFFICES ASSUME NoWrap PROVE Spec => []VmasDisjoint
  OBVIOUS
<1>1. VmaInv => VmasDisjoint
  BY DEF VmaInv, AreaVmas, VmasDisjoint
<1>2. VmaInv /\ [Next]_vars => VmaInv'
  BY NextVmaInv
<1> QED BY <1>1, <1>2, InitVmaInv, PTL DEF Spec

(* Under the same condition every state is well typed: in particular every  *)
(* vma, and every part of one that map_vma puts back, stays in the area.    *)
THEOREM TypeCorrect == NoWrap => (Spec => []TypeOK)
<1> SUFFICES ASSUME NoWrap PROVE Spec => []TypeOK
  OBVIOUS
<1>1. VmaInv => TypeOK
  BY DEF VmaInv, AreaVmas, Types, TypeOK
<1>2. VmaInv /\ [Next]_vars => VmaInv'
  BY NextVmaInv
<1> QED BY <1>1, <1>2, InitVmaInv, PTL DEF Spec
-----------------------------------------------------------------------------
(* free_vmas never offers what is in use, if the hints fit *)

Fits(start, size) ==
  \A i \in free_vmas : Overlaps(i, start, size) => Within(Range(start, size), i)

LEMMA FreeOverlap ==
  ASSUME Types, FreeDisjoint, NEW start, NEW size, Request(start, size), NEW i \in free_vmas
  PROVE  Overlaps(i, start, size) <=> ~ Disjoint(i, Range(start, size))
<1>1. i.start \in Word /\ i.size \in Word
  BY DEF Types
<1>2. End(i) = i.start + i.size
  BY <1>1, EndInArea DEF FreeDisjoint
<1>3. Wrap(start + size) = start + size
  BY RequestEnd
<1> QED BY <1>1, <1>2, <1>3 DEF Overlaps, Disjoint, Range, Request, Word

LEMMA FreeParts ==
  ASSUME Types, FreeDisjoint, NEW start, NEW size, Request(start, size), 
         NEW i \in free_vmas, Within(Range(start, size), i)
  PROVE  /\ \A j \in FreeLeft(i, start) :
              /\ j = [start |-> i.start, size |-> start - i.start]
              /\ start - i.start \in Nat
         /\ \A j \in FreeRight(i, start, size) :
              /\ j = [start |-> start + size, size |-> (i.start + i.size) - (start + size)]
              /\ (i.start + i.size) - (start + size) \in Nat
<1>1. i.start \in Word /\ i.size \in Word /\ InArea(i)
  BY Zenon DEF Types, FreeDisjoint
<1>2. Wrap(start + size) = start + size
  BY RequestEnd
<1>3. Wrap(start - i.start) = start - i.start /\ start - i.start \in Nat
  <2>1. start - i.start \in Word
    BY <1>1, ConstantsOK DEF Within, Range, Word, Request, MMAP_END
  <2> QED BY <2>1, WrapId DEF Word
<1>4. /\ Wrap(i.size - (start - i.start) - size) = (i.start + i.size) - (start + size)
      /\ (i.start + i.size) - (start + size) \in Nat
  <2>1. i.size - (start - i.start) - size = (i.start + i.size) - (start + size)
    BY <1>1 DEF Word, Request
  <2>2. i.size - (start - i.start) - size \in Word
    BY <1>1, ConstantsOK DEF Within, Range, Word, Request
  <2> QED BY <2>1, <2>2, WrapId DEF Word
<1> QED BY <1>2, <1>3, <1>4 DEF FreeLeft, FreeRight

(* Every interval of the new list lies in an old one and misses the range.  *)
LEMMA SplitElement ==
  ASSUME Types, FreeDisjoint, NEW start, NEW size, Request(start, size), Fits(start, size),
         NEW i \in FreeHit(start, size), Splits(i, start, size)
  PROVE  /\ \A j \in free_vmas' : \E k \in free_vmas :
              Within(j, k) /\ Disjoint(j, Range(start, size)) /\ j \in FreeType
         /\ \A j, k \in free_vmas' : j # k => Disjoint(j, k)
<1>t. free_vmas \subseteq FreeType /\ start \in Nat /\ size \in Nat
  BY DEF Types, FreeType, Request
<1>1. CASE i \notin free_vmas
  <2>1. free_vmas' = free_vmas
    BY <1>1 DEF Splits, Split
  <2>2. \A j \in free_vmas : ~ Overlaps(j, start, size)
    BY <1>1 DEF FreeHit
  <2>3. \A j \in free_vmas : Disjoint(j, Range(start, size))
    BY <2>2, FreeOverlap
  <2>4. \A j \in free_vmas : Within(j, j) /\ j \in FreeType
    BY <1>t DEF Within, FreeType, Word
  <2> QED BY <2>1, <2>3, <2>4 DEF FreeDisjoint
<1>2. CASE i \in free_vmas
  <2>1. Overlaps(i, start, size)
    <3>1. {j \in free_vmas : Overlaps(j, start, size)} # {} \/ i = [start |-> 0, size |-> 0]
      BY DEF FreeHit
    <3>2. i # [start |-> 0, size |-> 0]
      <4>1. MMAP_START <= i.start
        BY <1>2 DEF FreeDisjoint, InArea
      <4>2. i = [start |-> 0, size |-> 0] => i.start = 0
        OBVIOUS
      <4>3. MMAP_START \in Nat \ {0}
        BY ConstantsOK
      <4> QED BY <4>1, <4>2, <4>3
    <3> QED BY <3>1, <3>2 DEF FreeHit
  <2>2. Within(Range(start, size), i)
    BY <1>2, <2>1 DEF Fits
  <2>3. ASSUME NEW j \in FreeLeft(i, start) \cup FreeRight(i, start, size)
        PROVE  j \in FreeType /\ Within(j, i) /\ Disjoint(j, Range(start, size))
    <3>1. j \in FreeType
      <4>1. start \in Word /\ size \in Word
        BY ConstantsOK DEF Request, Word, MMAP_END
      <4> QED BY <4>1, <1>t, <1>2, SplitType
    <3>2. i \in FreeType
      BY <1>2, <1>t
    <3>3. \/ j.start = i.start /\ j.size = start - i.start
          \/ j.start = start + size /\ j.size = (i.start + i.size) - (start + size)
      BY <1>2, <2>2, FreeParts
    <3> QED BY <3>1, <3>2, <3>3, <2>2, <1>t DEF Within, Disjoint, Range, FreeType, Word
  <2>4. ASSUME NEW j \in free_vmas \ {i}
        PROVE  j \in FreeType /\ Within(j, j) /\ Disjoint(j, Range(start, size)) /\ Disjoint(j, i)
    <3>1. j \in FreeType /\ i \in FreeType /\ Disjoint(j, i)
      BY <1>2, <1>t DEF FreeDisjoint
    <3> QED BY <3>1, <2>2, <1>t DEF Within, Disjoint, Range, FreeType, Word
  <2>5. free_vmas' \subseteq (free_vmas \ {i}) \cup (FreeLeft(i, start) \cup FreeRight(i, start, size))
    BY <1>2 DEF Splits, Split
  <2>6. ASSUME NEW j \in free_vmas', NEW k \in free_vmas', j # k
        PROVE  Disjoint(j, k)
    <3> DEFINE parts == FreeLeft(i, start) \cup FreeRight(i, start, size)
    <3>i. i \in FreeType
      BY <1>2, <1>t
    <3>1. CASE j \in free_vmas \ {i} /\ k \in free_vmas \ {i}
      BY <3>1, <2>6 DEF FreeDisjoint
    <3>2. CASE j \in free_vmas \ {i} /\ k \in parts
      BY <3>2, <3>i, <2>3, <2>4 DEF Disjoint, Within, FreeType, Word
    <3>3. CASE j \in parts /\ k \in free_vmas \ {i}
      BY <3>3, <3>i, <2>3, <2>4 DEF Disjoint, Within, FreeType, Word
    <3>4. CASE j \in parts /\ k \in parts
      <4> DEFINE l == [start |-> i.start, size |-> start - i.start]
                 r == [start |-> start + size, size |-> (i.start + i.size) - (start + size)]
      <4>1. (j = l /\ k = r) \/ (j = r /\ k = l)
        BY <3>4, <2>6, <2>2, <1>2, FreeParts
      <4>2. i.start + (start - i.start) <= start + size
        BY <3>i, <1>t DEF FreeType, Word
      <4>3. Disjoint(l, r) /\ Disjoint(r, l)
        BY <4>2 DEF Disjoint
      <4> QED BY <4>1, <4>3, Zenon
    <3> QED BY <2>5, <2>6, <3>1, <3>2, <3>3, <3>4
  <2> QED BY <1>2, <2>3, <2>4, <2>5, <2>6
<1> QED BY <1>1, <1>2

FreeInv == VmaInv /\ FreeDisjoint /\ FreeUnmapped

LEMMA PagesInArea == \A p \in Pages : p \in Nat
BY ConstantsOK DEF Pages, MMAP_END

(* What a call that carves and splits leaves of the three invariants.       *)
LEMMA SplitFreeInv ==
  ASSUME FreeInv, NEW start, NEW size, Request(start, size), Fits(start, size),
         NEW i \in FreeHit(start, size), Splits(i, start, size),
         AddVma(start, size),
         pt' \in {pt, MapRegion(start, size, nblk + 1)}
  PROVE  FreeDisjoint' /\ FreeUnmapped'
<1>t. /\ Types /\ AreaVmas /\ FreeDisjoint /\ FreeUnmapped
      /\ free_vmas \subseteq FreeType /\ vmas \subseteq VmaType
      /\ start \in Nat /\ size \in Nat /\ start \in Word /\ size \in Word
  BY ConstantsOK DEF FreeInv, VmaInv, Types, VmaType, FreeType, Request, Word, MMAP_END
<1>1. /\ \A j \in free_vmas' : \E k \in free_vmas :
            Within(j, k) /\ Disjoint(j, Range(start, size)) /\ j \in FreeType
      /\ \A j, k \in free_vmas' : j # k => Disjoint(j, k)
  BY <1>t, SplitElement
<1>2. \A j \in free_vmas' : InArea(j)
  <2> SUFFICES ASSUME NEW j \in free_vmas' PROVE InArea(j)
    OBVIOUS
  <2>1. PICK k \in free_vmas : Within(j, k) /\ j \in FreeType
    BY <1>1
  <2>2. InArea(k) /\ k \in FreeType
    BY <1>t DEF FreeDisjoint
  <2> QED BY <2>1, <2>2, ConstantsOK DEF InArea, Within, FreeType, Word, MMAP_END
<1>3. ASSUME NEW j \in free_vmas', NEW w \in vmas' PROVE Disjoint(j, w)
  <2>1. PICK k \in free_vmas : Within(j, k) /\ Disjoint(j, Range(start, size)) /\ j \in FreeType
    BY <1>1
  <2>2. CASE w \in Carve(start, size)
    <3>1. PICK v \in vmas : Within(w, v)
      BY <1>t, <2>2, CarveElement
    <3>2. w \in VmaType
      BY <1>t, <2>2, CarveType
    <3>3. Disjoint(k, v) /\ k \in FreeType /\ v \in VmaType
      BY <1>t DEF FreeDisjoint
    <3> QED BY <2>1, <3>1, <3>2, <3>3 DEF Disjoint, Within, FreeType, VmaType, Word
  <2>3. CASE w = [start |-> start, size |-> size, blk |-> nblk + 1]
    BY <2>1, <2>3 DEF Disjoint, Range
  <2> QED BY <2>2, <2>3 DEF AddVma
<1>4. FreeUnmapped'
  <2> SUFFICES ASSUME NEW j \in free_vmas', NEW p \in Pages, Covers(j, p) PROVE pt'[p] = 0
    BY DEF FreeUnmapped, Covers, Pages, MMAP_END
  <2>1. PICK k \in free_vmas : Within(j, k) /\ Disjoint(j, Range(start, size)) /\ j \in FreeType
    BY <1>1
  <2>2. k \in FreeType /\ p \in Nat
    BY <1>t, PagesInArea
  <2>3. Covers(k, p)
    BY <2>1, <2>2 DEF Covers, Within, FreeType, Word
  <2>4. pt[p] = 0
    BY <1>t, <2>3 DEF FreeUnmapped
  <2>5. p \notin PagesIn(start, size)
    BY <1>t, <2>1, <2>2 DEF PagesIn, Covers, Disjoint, Range, FreeType, Word
  <2> QED BY <2>4, <2>5 DEF MapRegion
<1> QED BY <1>1, <1>2, <1>3, <1>4 DEF FreeDisjoint, InArea, Disjoint, MMAP_END

LEMMA SameFreeInv ==
  ASSUME FreeInv, free_vmas' = free_vmas, pt' = pt, 
         \A w \in vmas' : \/ w \in vmas
                          \/ w \in VmaType /\ \E v \in vmas : Within(w, v)
  PROVE  FreeDisjoint' /\ FreeUnmapped'
<1>1. ASSUME NEW j \in free_vmas, NEW w \in vmas' PROVE Disjoint(j, w)
  <2>1. CASE w \in vmas
    BY <2>1 DEF FreeInv, FreeDisjoint
  <2>2. ASSUME NEW v \in vmas, Within(w, v), w \in VmaType PROVE Disjoint(j, w)
    <3>1. Disjoint(j, v) /\ j \in FreeType /\ v \in VmaType
      BY DEF FreeInv, FreeDisjoint, VmaInv, Types, VmaType, FreeType
    <3> QED BY <2>2, <3>1 DEF Disjoint, Within, FreeType, VmaType, Word
  <2> QED BY <2>1, <2>2
<1> QED BY <1>1 DEF FreeInv, FreeDisjoint, FreeUnmapped, InArea, Disjoint, Covers, Pages, MMAP_END

LEMMA MapFreeInv ==
  ASSUME NoWrap, FreeInv, NEW n \in Lengths, NEW start \in Nat, NEW f,
         start <= MMAP_END \/ \E a \in Addrs : start <= a,
         Request(start, ceilpg(n)) => Fits(start, ceilpg(n)),
         map_vma(start, n, f)
  PROVE  FreeDisjoint' /\ FreeUnmapped'
<1> DEFINE size == ceilpg(n)
<1>1. CASE UNCHANGED <<vmas, free_vmas, pt>>
  BY <1>1, SameFreeInv
<1>2. CASE map_vma_bounds(start, size)
  <2>1. Request(start, size) /\ Fits(start, size)
    BY <1>2, BoundsRequest
  <2>t. Types /\ AreaVmas /\ vmas \subseteq VmaType /\ start \in Word /\ size \in Word
    BY <2>1, ConstantsOK DEF FreeInv, VmaInv, Types, VmaType, Request, Word, MMAP_END
  <2> HIDE DEF size
  <2>2. CASE vmas' = Carve(start, size) /\ UNCHANGED <<free_vmas, pt>>
    <3>1. \A w \in Carve(start, size) : w \in VmaType /\ \E v \in vmas : Within(w, v)
      BY <2>1, <2>t, CarveElement, CarveType
    <3> QED BY <2>2, <3>1, SameFreeInv
  <2>3. ASSUME AddVma(start, size), NEW i \in FreeHit(start, size), Splits(i, start, size),
               pt' \in {pt, MapRegion(start, size, nblk + 1)}
        PROVE  FreeDisjoint' /\ FreeUnmapped'
    BY <2>1, <2>3, SplitFreeInv
  <2>4. \/ UNCHANGED <<vmas, free_vmas, pt>>
        \/ vmas' = Carve(start, size) /\ UNCHANGED <<free_vmas, pt>>
        \/ /\ AddVma(start, size)
           /\ \E i \in FreeHit(start, size) :
                Splits(i, start, size) /\ pt' \in {pt, MapRegion(start, size, nblk + 1)}
    BY MapEffect DEF size
  <2> QED BY <1>1, <2>2, <2>3, <2>4
<1> QED BY <1>1, <1>2, MapEffect

LEMMA MunmapFreeInv ==
  ASSUME FreeInv, NEW addr, NEW length, sys_munmap(addr, length)
  PROVE  FreeDisjoint' /\ FreeUnmapped'
<1>1. CASE UNCHANGED <<free_vmas, pt>> /\ vmas' \subseteq vmas
  BY <1>1, SameFreeInv
<1>2. ASSUME NEW v \in vmas, vmas' = vmas \ {v},
             free_vmas' = free_vmas \cup {Range(v.start, v.size)},
             pt' = MapRegion(v.start, v.size, 0)
      PROVE  FreeDisjoint' /\ FreeUnmapped'
  <2> DEFINE new == Range(v.start, v.size)
  <2>t. /\ v.start \in Word /\ v.size \in Word /\ InArea(v)
        /\ new.start = v.start /\ new.size = v.size
    BY DEF FreeInv, VmaInv, Types, AreaVmas, Range
  <2>1. \A i \in free_vmas : Disjoint(i, new) /\ Disjoint(new, i)
    BY <2>t DEF FreeInv, FreeDisjoint, Disjoint
  <2>2. \A w \in vmas' : Disjoint(new, w)
    BY <1>2, <2>t DEF FreeInv, VmaInv, AreaVmas, Disjoint
  <2>3. InArea(new)
    BY <2>t DEF InArea
  <2>4. \A p \in Pages : Covers(new, p) => p \in PagesIn(v.start, v.size)
    BY <2>t DEF Covers, PagesIn
  <2> HIDE DEF new
  <2>5. FreeDisjoint'
    BY <1>2, <2>1, <2>2, <2>3, Zenon DEF FreeInv, FreeDisjoint, InArea, Disjoint, MMAP_END, new
  <2>6. FreeUnmapped'
    <3> SUFFICES ASSUME NEW i \in free_vmas', NEW p \in Pages, Covers(i, p) PROVE pt'[p] = 0
      BY DEF FreeUnmapped, Covers, Pages, MMAP_END
    <3>1. CASE i = new
      BY <1>2, <2>4, <3>1 DEF MapRegion
    <3>2. CASE i \in free_vmas
      BY <1>2, <3>2 DEF MapRegion, FreeInv, FreeUnmapped
    <3> QED BY <1>2, <3>1, <3>2 DEF new
  <2> QED BY <2>5, <2>6
<1> QED BY <1>1, <1>2, MunmapEffect

LEMMA FaultFreeInv ==
  ASSUME FreeInv, NEW p \in Pages, PageFault(p)
  PROVE  FreeDisjoint' /\ FreeUnmapped'
<1>1. CASE UNCHANGED <<vmas, free_vmas, pt>>
  BY <1>1, SameFreeInv
<1>2. CASE /\ UNCHANGED <<vmas, free_vmas>>
           /\ \E v \in vmas : Overlaps(v, p, 1)
           /\ pt' = [pt EXCEPT ![p] = nblk + 1]
  <2>1. FreeDisjoint'
    BY <1>2 DEF FreeInv, FreeDisjoint, InArea, Disjoint, MMAP_END
  <2>2. PICK v \in vmas : Overlaps(v, p, 1)
    BY <1>2
  <2>3. v \in VmaType /\ InArea(v) /\ p \in Nat /\ p < MMAP_END
    BY ConstantsOK DEF FreeInv, VmaInv, Types, VmaType, AreaVmas, Pages, MMAP_END
  <2>4. End(v) = v.start + v.size /\ Wrap(p + 1) = p + 1
    <3>1. p + 1 \in Word
      BY <2>3, ConstantsOK DEF Word, MMAP_END
    <3> QED BY <3>1, <2>3, EndInArea, WrapId DEF VmaType
  <2>5. Covers(v, p)
    BY <2>2, <2>3, <2>4 DEF Overlaps, Covers, VmaType, Word
  <2>6. \A i \in free_vmas : ~ Covers(i, p)
    <3> SUFFICES ASSUME NEW i \in free_vmas PROVE ~ Covers(i, p)
      OBVIOUS
    <3>1. Disjoint(i, v) /\ i \in FreeType
      BY DEF FreeInv, FreeDisjoint, VmaInv, Types, FreeType
    <3> QED BY <3>1, <2>3, <2>5 DEF Disjoint, Covers, FreeType, VmaType, Word
  <2>7. FreeUnmapped'
    <3> SUFFICES ASSUME NEW i \in free_vmas, NEW q \in Pages, Covers(i, q) PROVE pt'[q] = 0
      BY <1>2 DEF FreeUnmapped, Covers, Pages, MMAP_END
    <3>1. q # p
      BY <2>6
    <3> QED BY <1>2, <3>1 DEF FreeInv, FreeUnmapped, VmaInv, Types
  <2> QED BY <2>1, <2>7
<1> QED BY <1>1, <1>2 DEF PageFault, Stop

LEMMA AnyFits ==
  ASSUME FreeInv, NEW i \in free_vmas, NEW size, size <= i.size, Request(i.start, size)
  PROVE  Fits(i.start, size) /\ Within(Range(i.start, size), i)
<1>1. i \in FreeType /\ size \in Nat
  BY DEF FreeInv, VmaInv, Types, FreeType, Request
<1>2. Within(Range(i.start, size), i)
  BY <1>1 DEF Within, Range, FreeType, Word
<1>3. ASSUME NEW j \in free_vmas, Overlaps(j, i.start, size), j # i PROVE FALSE
  <2>1. j \in FreeType /\ Disjoint(j, i)
    BY <1>3 DEF FreeInv, VmaInv, Types, FreeType, FreeDisjoint
  <2>2. ~ Disjoint(j, Range(i.start, size))
    BY <1>3, FreeOverlap DEF FreeInv, VmaInv
  <2> QED BY <1>1, <2>1, <2>2 DEF Disjoint, Range, FreeType, Word
<1> QED BY <1>2, <1>3 DEF Fits

LEMMA NextFreeInv == NoWrap /\ HintClass = "fit" /\ FreeInv /\ [Next]_vars => FreeInv'
<1> SUFFICES ASSUME NoWrap, HintClass = "fit", FreeInv, [Next]_vars
             PROVE  FreeDisjoint' /\ FreeUnmapped'
  BY NextVmaInv DEF FreeInv
<1>1. CASE UNCHANGED <<vmas, free_vmas, pt>>
  BY <1>1, SameFreeInv
<1>2. ASSUME NEW a \in Addrs, NEW n \in Lengths, NEW f, sys_mmap(a, n, f)
      PROVE  FreeDisjoint' /\ FreeUnmapped'
  <2>1. CASE Admissible(truncpg(a), ceilpg(n)) /\ map_vma(truncpg(a), n, f)
    <3>1. a \in Nat /\ truncpg(a) \in Nat /\ truncpg(a) <= a
      BY ConstantsOK, TruncBound DEF Word
    <3>2. Fits(truncpg(a), ceilpg(n))
      BY <2>1 DEF Admissible, Fits, Within, Range
    <3> QED BY <2>1, <3>1, <3>2, MapFreeInv
  <2>2. ASSUME NEW i \in free_vmas, i.size >= ceilpg(n), map_vma(i.start, n, f)
        PROVE  FreeDisjoint' /\ FreeUnmapped'
    <3>1. i.start \in Nat /\ i.start <= MMAP_END /\ i.size \in Nat /\ ceilpg(n) \in Nat
      BY ConstantsOK, CeilType DEF FreeInv, VmaInv, FreeStarts, Types, Word
    <3>2. Request(i.start, ceilpg(n)) => Fits(i.start, ceilpg(n))
      BY <2>2, <3>1, AnyFits
    <3> QED BY <2>2, <3>1, <3>2, MapFreeInv
  <2> QED BY <1>1, <1>2, <2>1, <2>2 DEF sys_mmap, map_vma_any
<1>3. ASSUME NEW a \in Addrs, NEW n \in Lengths, sys_munmap(a, n)
      PROVE  FreeDisjoint' /\ FreeUnmapped'
  BY <1>3, MunmapFreeInv
<1>4. ASSUME NEW p \in Pages, UserAccess(p)
      PROVE  FreeDisjoint' /\ FreeUnmapped'
  BY <1>1, <1>4 DEF UserAccess
<1>5. ASSUME NEW p \in Pages, PageFault(p)
      PROVE  FreeDisjoint' /\ FreeUnmapped'
  BY <1>5, FaultFreeInv
<1> QED BY <1>1, <1>2, <1>3, <1>4, <1>5 DEF Next, vars

LEMMA InitFreeInv == Init => FreeInv
<1> SUFFICES ASSUME Init PROVE FreeInv
  OBVIOUS
<1>1. MMAP_START \in Word /\ MMAP_SIZE \in Word
  BY ConstantsOK DEF Word
<1>2. Types
  BY <1>1, ConstantsOK DEF Init, Types, NoTranslation
<1> QED BY <1>2, ConstantsOK
        DEF Init, FreeInv, VmaInv, AreaVmas, FreeStarts, FreeDisjoint, FreeUnmapped,
            InArea, NoTranslation, MMAP_END

(* When the hints fit the free list, no interval of free_vmas ever meets a  *)
(* vma or another free interval, even if allocations fail inside a call.    *)
THEOREM FreeDisjointAlways == NoWrap /\ HintClass = "fit" => (Spec => []FreeDisjoint)
<1> SUFFICES ASSUME NoWrap, HintClass = "fit" PROVE Spec => []FreeDisjoint
  OBVIOUS
<1>1. FreeInv /\ [Next]_vars => FreeInv'
  BY NextFreeInv
<1>2. FreeInv => FreeDisjoint
  BY DEF FreeInv
<1> QED BY <1>1, <1>2, InitFreeInv, PTL DEF Spec

(* Under the same hints a page of a free interval has no valid entry.       *)
THEOREM FreeUnmappedAlways == NoWrap /\ HintClass = "fit" => (Spec => []FreeUnmapped)
<1> SUFFICES ASSUME NoWrap, HintClass = "fit" PROVE Spec => []FreeUnmapped
  OBVIOUS
<1>1. FreeInv /\ [Next]_vars => FreeInv'
  BY NextFreeInv
<1>2. FreeInv => FreeUnmapped
  BY DEF FreeInv
<1> QED BY <1>1, <1>2, InitFreeInv, PTL DEF Spec

(* Under the same hints mmap(0, ...) never replaces a mapped page.          *)
THEOREM MmapAnyKeepsPages == NoWrap /\ HintClass = "fit" => (Spec => NoClobber)
<1> SUFFICES ASSUME NoWrap, HintClass = "fit" PROVE Spec => NoClobber
  OBVIOUS
<1> DEFINE Keeps == \A n \in Lengths, f \in {"anon", "file", "badfd"} :
              sys_mmap(0, n, f) => \A p \in Pages : pt[p] # 0 => pt'[p] = pt[p]
<1>1. FreeInv /\ [Next]_vars => FreeInv'
  BY NextFreeInv
<1>2. FreeInv => Keeps
  <2> SUFFICES ASSUME FreeInv, NEW n \in Lengths, NEW f, sys_mmap(0, n, f),
                      NEW p \in Pages, pt[p] # 0
               PROVE  pt'[p] = pt[p]
    OBVIOUS
  <2>1. truncpg(0) = 0
    BY TruncBound
  <2>2. CASE pt' = pt
    BY <2>2
  <2>3. ASSUME NEW i \in free_vmas, i.size >= ceilpg(n), map_vma(i.start, n, f), pt' # pt
        PROVE  pt'[p] = pt[p]
    <3>1. i.start \in Nat /\ i.start <= MMAP_END /\ i.size \in Nat /\ ceilpg(n) \in Nat
      BY ConstantsOK, CeilType DEF FreeInv, VmaInv, FreeStarts, Types, Word
    <3>2. map_vma_bounds(i.start, ceilpg(n)) /\ pt' = MapRegion(i.start, ceilpg(n), nblk + 1)
      BY <2>3, MapEffect
    <3>3. Request(i.start, ceilpg(n))
      BY <3>1, <3>2, BoundsRequest
    <3>4. ~ Covers(i, p)
      BY DEF FreeInv, FreeUnmapped
    <3>5. p \notin PagesIn(i.start, ceilpg(n))
      BY <2>3, <3>1, <3>4, PagesInArea DEF PagesIn, Covers
    <3> QED BY <3>2, <3>5 DEF MapRegion
  <2> QED BY <2>1, <2>2, <2>3 DEF sys_mmap, map_vma_any
<1> HIDE DEF Keeps
<1>3. Spec => [][Keeps]_vars
  BY <1>1, <1>2, InitFreeInv, PTL DEF Spec
<1> QED BY <1>3, PTL DEF NoClobber, Keeps
-----------------------------------------------------------------------------
(* While allocations succeed, no page is lost and the page table agrees     *)
(* with the vmas                                                            *)

(* The allocator has room for every length that is requested.               *)
Roomy == \A n \in Lengths : ceilpg(n) <= MEMORY

(* Carving leaves every page outside the range in a vma of the same block.  *)
LEMMA CarveKeeps ==
  ASSUME VmaInv, NEW start, NEW size, Request(start, size),
         NEW p \in Pages, p \notin PagesIn(start, size), NEW v \in vmas, Covers(v, p)
  PROVE  \E c \in Carve(start, size) : Covers(c, p) /\ c.blk = v.blk
<1>t. /\ Types /\ AreaVmas /\ v.start \in Nat /\ v.size \in Nat
      /\ start \in Nat /\ size \in Nat /\ p \in Nat
  BY PagesInArea DEF VmaInv, Types, Word, Request
<1>1. /\ Overlaps(v, start, size) <=> v.start < start + size /\ v.start + v.size > start
      /\ End(v) = v.start + v.size
  BY <1>t, Parts
<1>2. p < start \/ start + size <= p
  BY <1>t DEF PagesIn
<1>3. CASE ~ Overlaps(v, start, size)
  BY <1>3 DEF Carve, Hit
<1>4. CASE Overlaps(v, start, size) /\ p < start
  <2>1. HasLeft(v, start)
    BY <1>4, <1>t DEF HasLeft, Covers
  <2>2. LeftPart(v, start) = [start |-> v.start, size |-> start - v.start, blk |-> v.blk]
    BY <1>t, <2>1, Parts
  <2>3. Covers(LeftPart(v, start), p) /\ LeftPart(v, start).blk = v.blk
    BY <1>4, <1>t, <2>2 DEF Covers
  <2>4. LeftPart(v, start) \in Carve(start, size)
    BY <1>4, <2>1 DEF Carve, Hit
  <2> QED BY <2>3, <2>4
<1>5. CASE Overlaps(v, start, size) /\ start + size <= p
  <2>1. HasRight(v, start, size)
    BY <1>5, <1>t, <1>1, RequestEnd DEF HasRight, Covers
  <2>2. RightPart(v, start, size) =
          [start |-> start + size, size |-> (v.start + v.size) - (start + size), blk |-> v.blk]
    BY <1>t, <2>1, Parts
  <2>3. Covers(RightPart(v, start, size), p) /\ RightPart(v, start, size).blk = v.blk
    BY <1>5, <1>t, <2>2 DEF Covers
  <2>4. RightPart(v, start, size) \in Carve(start, size)
    BY <1>5, <2>1 DEF Carve, Hit
  <2> QED BY <2>3, <2>4
<1> QED BY <1>2, <1>3, <1>4, <1>5

(* Carving leaves no vma that meets the range, so the test that opens       *)
(* map_vma_no_overlap always succeeds.                                      *)
LEMMA CarveClears ==
  ASSUME VmaInv, NEW start, NEW size, Request(start, size)
  PROVE  NoOverlap(start, size)
<1> SUFFICES ASSUME NEW c \in Carve(start, size) PROVE ~ Overlaps(c, start, size)
  BY DEF NoOverlap
<1>1. Types /\ AreaVmas /\ vmas \subseteq VmaType /\ start \in Word /\ size \in Word
  BY ConstantsOK DEF VmaInv, Types, VmaType, Request, Word, MMAP_END
<1>2. InArea(c) /\ Disjoint(c, Range(start, size)) /\ c \in VmaType
  BY <1>1, CarveDisjoint, CarveType
<1>3. End(c) = c.start + c.size /\ Wrap(start + size) = start + size
  BY <1>2, EndInArea, RequestEnd DEF VmaType
<1> QED BY <1>1, <1>2, <1>3 DEF Overlaps, Disjoint, Range, VmaType, Word

(* Splitting leaves every free page outside the range in a free interval.   *)
LEMMA SplitKeeps ==
  ASSUME FreeInv, NEW start, NEW size, Request(start, size), Fits(start, size),
         NEW i \in FreeHit(start, size),
         NEW p \in Pages, p \notin PagesIn(start, size), NEW j \in free_vmas, Covers(j, p)
  PROVE  \E k \in Split(i, start, size) : Covers(k, p)
<1>t. /\ Types /\ FreeDisjoint /\ j.start \in Word /\ j.size \in Word
      /\ start \in Nat /\ size \in Nat /\ p \in Nat
  BY PagesInArea DEF FreeInv, VmaInv, Types, Request
<1>1. CASE i \notin free_vmas \/ j # i
  BY <1>1 DEF Split
<1>2. CASE i \in free_vmas /\ j = i
  <2>1. InArea(i) /\ MMAP_START \in Nat \ {0}
    BY <1>2, ConstantsOK DEF FreeInv, FreeDisjoint
  <2>2. i # [start |-> 0, size |-> 0]
    <3>1. i = [start |-> 0, size |-> 0] => i.start = 0
      OBVIOUS
    <3> QED BY <2>1, <3>1 DEF InArea
  <2>3. Overlaps(i, start, size)
    BY <1>2, <2>2 DEF FreeHit
  <2>4. i.start <= start /\ start + size <= i.start + i.size
    BY <1>2, <2>3 DEF Fits, Within, Range
  <2>5. p < start \/ start + size <= p
    BY <1>t DEF PagesIn
  <2>6. CASE p < start
    <3>1. start - i.start \in Word /\ start - i.start # 0
      BY <1>2, <1>t, <2>4, <2>6, ConstantsOK DEF Covers, Word, Request, MMAP_END
    <3>2. [start |-> i.start, size |-> start - i.start] \in FreeLeft(i, start)
      BY <3>1, WrapId DEF FreeLeft
    <3>3. Covers([start |-> i.start, size |-> start - i.start], p)
      BY <1>2, <1>t, <2>6 DEF Covers, Word
    <3> QED BY <1>2, <3>2, <3>3 DEF Split
  <2>7. CASE start + size <= p
    <3> DEFINE rest == i.size - (start - i.start) - size
    <3>1. i.size - size \in Word /\ i.size - size # 0 /\ rest \in Word
      BY <1>2, <1>t, <2>4, <2>7, ConstantsOK DEF Covers, Word
    <3>2. [start |-> start + size, size |-> rest] \in FreeRight(i, start, size)
      BY <3>1, WrapId, RequestEnd DEF FreeRight
    <3>3. Covers([start |-> start + size, size |-> rest], p)
      BY <1>2, <1>t, <2>7 DEF Covers, Word
    <3> QED BY <1>2, <3>2, <3>3 DEF Split
  <2> QED BY <2>5, <2>6, <2>7
<1> QED BY <1>1, <1>2

(* One call of map_vma that gets the small allocations it asks for.         *)
LEMMA MapSucceeds ==
  ASSUME ~ AllocMayFail, VmaInv, NEW start, NEW length, NEW f,
         map_vma_bounds(start, ceilpg(length)) => Request(start, ceilpg(length)),
         map_vma(start, length, f)
  PROVE  \/ UNCHANGED <<vmas, free_vmas, pt>>
         \/ /\ Request(start, ceilpg(length))
            /\ AddVma(start, ceilpg(length))
            /\ \E i \in FreeHit(start, ceilpg(length)) :
                 free_vmas' = Split(i, start, ceilpg(length))
            /\ \/ pt' = MapRegion(start, ceilpg(length), nblk + 1)
               \/ ceilpg(length) > MEMORY
<1> DEFINE size == ceilpg(length)
<1>1. CASE ~ map_vma_bounds(start, size)
  BY <1>1 DEF map_vma
<1>2. CASE map_vma_bounds(start, size)
  <2>1. Request(start, size)
    BY <1>2
  <2>2. ~ VmaAddFails(start, size)
    BY <2>1, CarveClears DEF VmaAddFails
  <2>3. ~ RightAddFails(start, size)
    BY DEF RightAddFails
  <2>4. CASE KzallocFails(start, size)
    BY <2>1, <2>4 DEF KzallocFails
  <2>5. CASE Maps(start, size, length, f)
    BY <2>1, <2>5 DEF Maps
  <2>6. CASE MapPanics(start, size, length, f)
    BY <2>6 DEF MapPanics, Stop
  <2> QED BY <1>2, <2>2, <2>3, <2>4, <2>5, <2>6, Zenon DEF map_vma
<1> QED BY <1>1, <1>2

LEMMA AddLosesNothing ==
  ASSUME FreeInv, NothingLost, NEW start, NEW size, Request(start, size), Fits(start, size),
         AddVma(start, size), NEW i \in FreeHit(start, size),
         free_vmas' = Split(i, start, size)
  PROVE  NothingLost'
<1> DEFINE new == [start |-> start, size |-> size, blk |-> nblk + 1]
<1> SUFFICES ASSUME NEW p \in Pages PROVE \E k \in vmas' \cup free_vmas' : Covers(k, p)
  BY DEF NothingLost, Covers, Pages, MMAP_END
<1>1. vmas' = Carve(start, size) \cup {new}
  BY DEF AddVma
<1>2. CASE p \in PagesIn(start, size)
  <2>1. Covers(new, p)
    BY <1>2 DEF PagesIn, Covers
  <2> QED BY <1>1, <2>1
<1>3. CASE p \notin PagesIn(start, size)
  <2>1. PICK k \in vmas \cup free_vmas : Covers(k, p)
    BY DEF NothingLost
  <2>2. CASE k \in vmas
    BY <1>1, <1>3, <2>1, <2>2, CarveKeeps DEF FreeInv
  <2>3. CASE k \in free_vmas
    BY <1>3, <2>1, <2>3, SplitKeeps
  <2> QED BY <2>2, <2>3
<1> QED BY <1>2, <1>3

LEMMA AddMatches ==
  ASSUME FreeInv, PagesMatchVmas, NEW start, NEW size, Request(start, size),
         AddVma(start, size), pt' = MapRegion(start, size, nblk + 1)
  PROVE  PagesMatchVmas'
<1> DEFINE new == [start |-> start, size |-> size, blk |-> nblk + 1]
<1>t. /\ Types /\ AreaVmas /\ vmas \subseteq VmaType
      /\ start \in Word /\ size \in Word /\ VmaInv
  BY ConstantsOK DEF FreeInv, VmaInv, Types, VmaType, Request, Word, MMAP_END
<1>1. vmas' = Carve(start, size) \cup {new}
  BY DEF AddVma
<1>2. ASSUME NEW p \in Pages, NEW v \in vmas', Covers(v, p) PROVE pt'[p] = v.blk
  <2>p. p \in Nat
    BY PagesInArea
  <2>1. CASE v = new
    <3>1. p \in PagesIn(start, size)
      BY <1>2, <2>1 DEF Covers, PagesIn
    <3> QED BY <2>1, <3>1 DEF MapRegion
  <2>2. CASE v \in Carve(start, size)
    <3>1. PICK w \in vmas : Within(v, w) /\ Disjoint(v, Range(start, size)) /\ v.blk = w.blk
      BY <1>t, <2>2, CarveElement
    <3>2. v \in VmaType /\ w \in VmaType
      BY <1>t, <2>2, CarveType
    <3>3. p \notin PagesIn(start, size)
      BY <1>t, <1>2, <2>p, <3>1, <3>2 DEF PagesIn, Covers, Disjoint, Range, VmaType, Word
    <3>4. Covers(w, p)
      BY <1>2, <2>p, <3>1, <3>2 DEF Covers, Within, VmaType, Word
    <3>5. pt[p] = w.blk
      BY <3>4 DEF PagesMatchVmas
    <3> QED BY <3>1, <3>3, <3>5 DEF MapRegion
  <2> QED BY <1>1, <2>1, <2>2
<1>3. ASSUME NEW p \in Pages, pt'[p] # 0 PROVE \E v \in vmas' : Covers(v, p)
  <2>1. CASE p \in PagesIn(start, size)
    <3>1. Covers(new, p)
      BY <2>1 DEF PagesIn, Covers
    <3> QED BY <1>1, <3>1
  <2>2. CASE p \notin PagesIn(start, size)
    <3>1. pt[p] # 0
      BY <1>3, <2>2 DEF MapRegion
    <3>2. PICK v \in vmas : Covers(v, p)
      BY <3>1 DEF PagesMatchVmas
    <3> QED BY <1>1, <1>t, <2>2, <3>2, CarveKeeps
  <2> QED BY <2>1, <2>2
<1> QED BY <1>2, <1>3 DEF PagesMatchVmas, Covers, Pages, MMAP_END

LEMMA MunmapKeepsAll ==
  ASSUME ~ AllocMayFail, FreeInv, NEW addr, NEW length, sys_munmap(addr, length)
  PROVE  /\ NothingLost => NothingLost'
         /\ PagesMatchVmas => PagesMatchVmas'
<1>1. CASE UNCHANGED <<vmas, free_vmas, pt>>
  BY <1>1 DEF NothingLost, PagesMatchVmas, Covers, Pages, MMAP_END
<1>2. ASSUME NEW v \in vmas, vmas' = vmas \ {v},
             free_vmas' = free_vmas \cup {Range(v.start, v.size)},
             pt' = MapRegion(v.start, v.size, 0)
      PROVE  /\ NothingLost => NothingLost'
             /\ PagesMatchVmas => PagesMatchVmas'
  <2>1. \A p \in Pages : Covers(Range(v.start, v.size), p) <=> Covers(v, p)
    BY DEF Covers, Range
  <2>2. \A p \in Pages : p \in PagesIn(v.start, v.size) <=> Covers(v, p)
    BY DEF Covers, PagesIn
  <2>3. \A p \in Pages : pt'[p] = IF Covers(v, p) THEN 0 ELSE pt[p]
    BY <1>2, <2>2 DEF MapRegion
  <2>4. \A p \in Pages, w \in vmas' : Covers(w, p) => ~ Covers(v, p)
    <3> SUFFICES ASSUME NEW p \in Pages, NEW w \in vmas, w # v, Covers(w, p) PROVE ~ Covers(v, p)
      BY <1>2
    <3>1. Disjoint(v, w) /\ v \in VmaType /\ w \in VmaType /\ p \in Nat
      BY PagesInArea DEF FreeInv, VmaInv, AreaVmas, Types, VmaType
    <3> QED BY <3>1 DEF Disjoint, Covers, VmaType, Word
  <2>5. NothingLost => NothingLost'
    <3> SUFFICES ASSUME NothingLost, NEW p \in Pages
                 PROVE  \E k \in vmas' \cup free_vmas' : Covers(k, p)
      BY DEF NothingLost, Covers, Pages, MMAP_END
    <3>1. PICK k \in vmas \cup free_vmas : Covers(k, p)
      BY DEF NothingLost
    <3> QED BY <1>2, <2>1, <3>1, Zenon
  <2>6. PagesMatchVmas => PagesMatchVmas'
    <3> SUFFICES ASSUME PagesMatchVmas, NEW p \in Pages
                 PROVE  /\ \A w \in vmas' : Covers(w, p) => pt'[p] = w.blk
                        /\ pt'[p] # 0 => \E w \in vmas' : Covers(w, p)
      BY DEF PagesMatchVmas, Covers, Pages, MMAP_END
    <3> QED BY <1>2, <2>3, <2>4, Zenon DEF PagesMatchVmas
  <2> QED BY <2>5, <2>6
<1> QED BY <1>1, <1>2 DEF sys_munmap, Range

(* A page of a vma has its block already, so the fault handler is only      *)
(* reached where no vma is, and ends the process.                           *)
LEMMA FaultEnds ==
  ASSUME FreeInv, PagesMatchVmas, NEW p \in Pages, PageFault(p)
  PROVE  UNCHANGED <<vmas, free_vmas, pt>>
<1>1. ASSUME NEW v \in vmas, Overlaps(v, p, 1) PROVE FALSE
  <2>1. v \in VmaType /\ InArea(v) /\ p \in Nat /\ p < MMAP_END
    BY ConstantsOK DEF FreeInv, VmaInv, Types, VmaType, AreaVmas, Pages, MMAP_END
  <2>2. End(v) = v.start + v.size /\ Wrap(p + 1) = p + 1
    <3>1. p + 1 \in Word
      BY <2>1, ConstantsOK DEF Word, MMAP_END
    <3> QED BY <3>1, <2>1, EndInArea, WrapId DEF VmaType
  <2>3. Covers(v, p)
    BY <1>1, <2>1, <2>2 DEF Overlaps, Covers, VmaType, Word
  <2>4. pt[p] = v.blk /\ v.blk # 0
    BY <2>1, <2>3 DEF PagesMatchVmas, VmaType, Blocks
  <2> QED BY <2>4 DEF PageFault
<1> QED BY <1>1 DEF PageFault, Stop

(* What one step does to the two lists and the page table, when hints fit   *)
(* and allocations succeed.                                                 *)
LEMMA StepKinds ==
  ASSUME NoWrap, HintClass = "fit", ~ AllocMayFail, FreeInv, [Next]_vars
  PROVE  \/ UNCHANGED <<vmas, free_vmas, pt>>
         \/ \E n \in Lengths : \E start \in Nat :
              /\ Request(start, ceilpg(n)) /\ Fits(start, ceilpg(n)) /\ AddVma(start, ceilpg(n))
              /\ \E i \in FreeHit(start, ceilpg(n)) : free_vmas' = Split(i, start, ceilpg(n))
              /\ pt' = MapRegion(start, ceilpg(n), nblk + 1) \/ ceilpg(n) > MEMORY
         \/ \E a \in Addrs, n \in Lengths : sys_munmap(a, n)
         \/ UNCHANGED <<vmas, free_vmas>> /\ \E p \in Pages : PageFault(p)
<1>1. ASSUME NEW n \in Lengths, NEW start \in Nat, NEW f, map_vma(start, n, f),
             start <= MMAP_END \/ \E a \in Addrs : start <= a,
             Request(start, ceilpg(n)) => Fits(start, ceilpg(n))
      PROVE  \/ UNCHANGED <<vmas, free_vmas, pt>>
             \/ /\ Request(start, ceilpg(n)) /\ Fits(start, ceilpg(n)) /\ AddVma(start, ceilpg(n))
                /\ \E i \in FreeHit(start, ceilpg(n)) : free_vmas' = Split(i, start, ceilpg(n))
                /\ pt' = MapRegion(start, ceilpg(n), nblk + 1) \/ ceilpg(n) > MEMORY
  <2>1. map_vma_bounds(start, ceilpg(n)) => Request(start, ceilpg(n))
    BY <1>1, BoundsRequest
  <2> QED BY <1>1, <2>1, MapSucceeds DEF FreeInv
<1>2. ASSUME NEW a \in Addrs, NEW n \in Lengths, NEW f, sys_mmap(a, n, f)
      PROVE  \/ UNCHANGED <<vmas, free_vmas, pt>>
             \/ \E start \in Nat :
                  /\ Request(start, ceilpg(n)) /\ Fits(start, ceilpg(n)) /\ AddVma(start, ceilpg(n))
                  /\ \E i \in FreeHit(start, ceilpg(n)) : free_vmas' = Split(i, start, ceilpg(n))
                  /\ pt' = MapRegion(start, ceilpg(n), nblk + 1) \/ ceilpg(n) > MEMORY
  <2>1. CASE Admissible(truncpg(a), ceilpg(n)) /\ map_vma(truncpg(a), n, f)
    <3>1. a \in Nat /\ truncpg(a) \in Nat /\ truncpg(a) <= a
      BY ConstantsOK, TruncBound DEF Word
    <3>2. Fits(truncpg(a), ceilpg(n))
      BY <2>1 DEF Admissible, Fits, Within, Range
    <3> QED BY <1>1, <2>1, <3>1, <3>2
  <2>2. ASSUME NEW i \in free_vmas, i.size >= ceilpg(n), map_vma(i.start, n, f)
        PROVE  \/ UNCHANGED <<vmas, free_vmas, pt>>
               \/ /\ Request(i.start, ceilpg(n)) /\ Fits(i.start, ceilpg(n)) /\ i.start \in Nat
                  /\ AddVma(i.start, ceilpg(n))
                  /\ \E j \in FreeHit(i.start, ceilpg(n)) :
                       free_vmas' = Split(j, i.start, ceilpg(n))
                  /\ pt' = MapRegion(i.start, ceilpg(n), nblk + 1) \/ ceilpg(n) > MEMORY
    <3>1. i.start \in Nat /\ i.start <= MMAP_END /\ i.size \in Nat /\ ceilpg(n) \in Nat
      BY ConstantsOK, CeilType DEF FreeInv, VmaInv, FreeStarts, Types, Word
    <3>2. Request(i.start, ceilpg(n)) => Fits(i.start, ceilpg(n))
      BY <2>2, <3>1, AnyFits
    <3> QED BY <1>1, <2>2, <3>1, <3>2
  <2> QED BY <1>2, <2>1, <2>2, Zenon DEF sys_mmap, map_vma_any
<1>3. ASSUME NEW p \in Pages, UserAccess(p) PROVE UNCHANGED <<vmas, free_vmas, pt>>
  BY <1>3 DEF UserAccess
<1>4. ASSUME NEW p \in Pages, PageFault(p) PROVE UNCHANGED <<vmas, free_vmas>>
  BY <1>4 DEF PageFault, Stop
<1> QED BY <1>2, <1>3, <1>4 DEF Next, vars

(* mmap and munmap lose no address while the small allocations of the two   *)
(* lists succeed, even if the memory for the pages runs out: the inductive  *)
(* invariant adds the disjointness of the lists.                            *)
THEOREM NothingLostAlways ==
  NoWrap /\ HintClass = "fit" /\ ~ AllocMayFail => (Spec => []NothingLost)
<1> SUFFICES ASSUME NoWrap, HintClass = "fit", ~ AllocMayFail PROVE Spec => []NothingLost
  OBVIOUS
<1>1. Init => NothingLost
  BY ConstantsOK DEF Init, NothingLost, Covers, Pages, MMAP_END
<1>2. FreeInv /\ NothingLost /\ [Next]_vars => NothingLost'
  <2> SUFFICES ASSUME FreeInv, NothingLost, [Next]_vars PROVE NothingLost'
    OBVIOUS
  <2>1. CASE UNCHANGED <<vmas, free_vmas>>
    BY <2>1 DEF NothingLost, Covers, Pages, MMAP_END
  <2>2. ASSUME NEW n \in Lengths, NEW start \in Nat,
               Request(start, ceilpg(n)), Fits(start, ceilpg(n)), AddVma(start, ceilpg(n)),
               NEW i \in FreeHit(start, ceilpg(n)), free_vmas' = Split(i, start, ceilpg(n))
        PROVE  NothingLost'
    BY <2>2, AddLosesNothing
  <2>3. ASSUME NEW a \in Addrs, NEW n \in Lengths, sys_munmap(a, n) PROVE NothingLost'
    BY <2>3, MunmapKeepsAll
  <2> QED BY <2>1, <2>2, <2>3, StepKinds
<1>3. FreeInv /\ [Next]_vars => FreeInv'
  BY NextFreeInv
<1> QED BY <1>1, <1>2, <1>3, InitFreeInv, PTL DEF Spec

(* If the memory for the pages does not run out either, a page of a vma     *)
(* maps the block of its own mmap call, whatever was mapped over parts of   *)
(* it, and a page outside every vma is not mapped.                          *)
THEOREM PagesMatchAlways ==
  NoWrap /\ HintClass = "fit" /\ ~ AllocMayFail /\ Roomy => (Spec => []PagesMatchVmas)
<1> SUFFICES ASSUME NoWrap, HintClass = "fit", ~ AllocMayFail, Roomy
             PROVE  Spec => []PagesMatchVmas
  OBVIOUS
<1>1. Init => PagesMatchVmas
  BY DEF Init, PagesMatchVmas, NoTranslation
<1>2. FreeInv /\ PagesMatchVmas /\ [Next]_vars => PagesMatchVmas'
  <2> SUFFICES ASSUME FreeInv, PagesMatchVmas, [Next]_vars PROVE PagesMatchVmas'
    OBVIOUS
  <2>1. CASE UNCHANGED <<vmas, free_vmas, pt>>
    BY <2>1 DEF PagesMatchVmas, Covers, Pages, MMAP_END
  <2>2. ASSUME NEW n \in Lengths, NEW start \in Nat,
               Request(start, ceilpg(n)), AddVma(start, ceilpg(n)),
               pt' = MapRegion(start, ceilpg(n), nblk + 1)
        PROVE  PagesMatchVmas'
    BY <2>2, AddMatches
  <2>3. ASSUME NEW n \in Lengths PROVE ~ (ceilpg(n) > MEMORY)
    <3>1. ceilpg(n) \in Nat /\ MEMORY \in Nat
      BY ConstantsOK, CeilType DEF Word
    <3> QED BY <3>1 DEF Roomy
  <2>4. ASSUME NEW a \in Addrs, NEW n \in Lengths, sys_munmap(a, n) PROVE PagesMatchVmas'
    BY <2>4, MunmapKeepsAll
  <2>5. ASSUME NEW p \in Pages, PageFault(p) PROVE PagesMatchVmas'
    BY <2>1, <2>5, FaultEnds
  <2> QED BY <2>1, <2>2, <2>3, <2>4, <2>5, StepKinds
<1>3. FreeInv /\ [Next]_vars => FreeInv'
  BY NextFreeInv
<1> QED BY <1>1, <1>2, <1>3, InitFreeInv, PTL DEF Spec
-----------------------------------------------------------------------------
(* The TLB *)

LEMMA MapTlb ==
  ASSUME NEW start, NEW length, NEW f, map_vma(start, length, f)
  PROVE  tlb' = NoTranslation \/ UNCHANGED <<tlb, pt>>
BY Zenon DEF map_vma, VmaAddFails, RightAddFails, KzallocFails, Maps, MapPanics, Return, Stop

(* The flush in usertrapret is enough: no cached translation outlives a     *)
(* change of the page table, although mmap and munmap flush nothing.        *)
THEOREM TlbCoherentAlways == Spec => []TlbCoherent
<1>1. Init => TlbCoherent
  BY DEF Init, TlbCoherent, NoTranslation
<1>2. Types /\ TlbCoherent /\ [Next]_vars => TlbCoherent'
  <2> SUFFICES ASSUME Types, TlbCoherent, [Next]_vars PROVE TlbCoherent'
    OBVIOUS
  <2>1. CASE tlb' = NoTranslation
    BY <2>1 DEF TlbCoherent, NoTranslation, Pages, MMAP_END
  <2>2. CASE UNCHANGED <<tlb, pt>>
    BY <2>2 DEF TlbCoherent, Pages, MMAP_END
  <2>3. ASSUME NEW a \in Addrs, NEW n \in Lengths, NEW f, sys_mmap(a, n, f)
        PROVE  TlbCoherent'
    BY <2>1, <2>2, <2>3, MapTlb DEF sys_mmap, map_vma_any, Return
  <2>4. ASSUME NEW a \in Addrs, NEW n \in Lengths, sys_munmap(a, n)
        PROVE  TlbCoherent'
    BY <2>1, <2>4 DEF sys_munmap, Return
  <2>5. ASSUME NEW p \in Pages, UserAccess(p) PROVE TlbCoherent'
    BY <2>5 DEF UserAccess, TlbCoherent, Types, Pages, MMAP_END
  <2>6. ASSUME NEW p \in Pages, PageFault(p) PROVE TlbCoherent'
    BY <2>1, <2>2, <2>6 DEF PageFault, Stop
  <2> QED BY <2>2, <2>3, <2>4, <2>5, <2>6 DEF Next, vars
<1> QED BY <1>1, <1>2, InitType, NextType, PTL DEF Spec
=============================================================================
