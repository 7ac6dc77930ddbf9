----------------------------- MODULE GuestImage -----------------------------
(***************************************************************************)
(* What LoadKernel puts into guest memory: the segments of the kernel and  *)
(* the arguments of the program (kvm/machine.go, kvm/argv.go), and how the *)
(* guest finds the arguments again.                                        *)
(*                                                                         *)
(* Memory is a sequence of cells, cell i + 1 being the byte at physical    *)
(* address ramBase + i.  A cell holds the byte of a file, the character of *)
(* an argument, a byte of a pointer, or zero.  A segment is [load, vaddr,  *)
(* filesz, memsz, present], present being the bytes the file really has;   *)
(* args is the sequence of the lengths of the arguments.                   *)
(***************************************************************************)
EXTENDS Integers, Sequences

CONSTANTS
  ramBase,       \* physRamBase
  kernSpace,     \* physKernBase - physRamBase
  ptrSize,       \* bytes of a pointer
  kernBase,      \* where the kernel sees physical address 0
  kernTextBase   \* amd64: where its text sees physical address 0

ASSUME ImageConstants ==
  /\ {ramBase, kernSpace, ptrSize, kernBase, kernTextBase} \subseteq Nat
  /\ ptrSize > 0 /\ ramBase + kernSpace < kernBase
  /\ kernBase < kernTextBase

Segments == [load : BOOLEAN, vaddr : Nat, filesz : Nat, memsz : Nat, present : Nat]

Cell(tag, of, at) == <<tag, of, at>>
Zero == Cell("zero", 0, 0)
Smaller(a, b) == IF a <= b THEN a ELSE b

ka2pa(arch, ka) ==
  IF arch = "amd64" /\ ka >= kernTextBase THEN ka - kernTextBase
  ELSE IF ka >= kernBase THEN ka - kernBase
  ELSE ka

pa2ka(pa) == pa + kernBase

(* copy(mem[off:], b), which stops at the end of the memory.               *)
Copy(mem, off, b) ==
  [i \in 1 .. Len(mem) |-> IF i - off \in 1 .. Len(b) THEN b[i - off] ELSE mem[i]]

Panic(s) == [s EXCEPT !.status = "panic"]
Error(s) == [s EXCEPT !.status = "error"]
-----------------------------------------------------------------------------
(* One PT_LOAD segment.  The reader of a segment answers io.EOF only when  *)
(* there is more room than bytes, so a segment whose bytes would fill the  *)
(* memory to its end is refused like one that does not fit or is cut off.  *)
LoadSegment(arch, s, p, k) ==
  LET start == ka2pa(arch, p.vaddr) - ramBase
      room == Len(s.mem) - start
      n == IF p.filesz = 0 THEN 0 ELSE Smaller(p.present, Smaller(p.filesz, room))
      file == [i \in 1 .. n |-> Cell("file", k, i)]
      bss == [i \in 1 .. (p.memsz - p.filesz) |-> Zero]
  IN  IF start \notin 0 .. Len(s.mem) THEN Panic(s)
      ELSE IF p.filesz > 0 /\ (room <= p.filesz \/ n # p.filesz) THEN Error(s)
      ELSE IF start + p.memsz > Len(s.mem) THEN Panic(s)
      ELSE [s EXCEPT !.mem = Copy(Copy(s.mem, start, file), start + p.filesz, bss),
                     !.kernSize = @ + n]

LoadProg(arch, s, progs, k) ==
  IF s.status # "ok" \/ ~ progs[k].load THEN s ELSE LoadSegment(arch, s, progs[k], k)

(* argv.WriteAt: the strings, then the pointers to them and a null.        *)
Text(i, len) == [j \in 1 .. len |-> Cell("arg", i, j)] \o <<Zero>>

\* mutant: the terminating zero is not copied
WriteArg_NoNul(s, i, len) ==
  IF s.off > Len(s.mem) THEN Panic(s)
  ELSE [s EXCEPT !.mem = Copy(s.mem, s.off, SubSeq(Text(i, len), 1, len)),
                 !.argp = Append(@, pa2ka(ramBase + s.off)),
                 !.off = @ + len]

WriteArg(s, i, len) ==
  IF s.off > Len(s.mem) THEN Panic(s)
  ELSE [s EXCEPT !.mem = Copy(s.mem, s.off, Text(i, len)),
                 !.argp = Append(@, pa2ka(ramBase + s.off)),
                 !.off = @ + len + 1]

PutUint64(s, p) ==
  IF s.off + ptrSize > Len(s.mem) THEN Panic(s)
  ELSE [s EXCEPT !.mem = Copy(s.mem, s.off, [j \in 1 .. ptrSize |->
                           IF p = 0 THEN Zero ELSE Cell("ptr", p, j)]),
                 !.off = @ + ptrSize]

\* mutant: the strings are checked, the pointers behind them are not
TooLarge_StringsOnly(off, argv) == argv > kernSpace

TooLarge(off, argv) == off > kernSpace

(* What the loops of WriteAt have done after the first i strings, and      *)
(* after the first i pointers.                                             *)
Strings(s, args) ==
  LET done[i \in 0 .. Len(args)] ==
        IF i = 0 THEN s
        ELSE IF done[i - 1].status # "ok" THEN done[i - 1]
        ELSE WriteArg(done[i - 1], i, args[i])
  IN  done[Len(args)]

Pointers(s, ptrs) ==
  LET done[i \in 0 .. Len(ptrs)] ==
        IF i = 0 THEN s
        ELSE IF done[i - 1].status # "ok" THEN done[i - 1]
        ELSE PutUint64(done[i - 1], ptrs[i])
  IN  done[Len(ptrs)]

WriteAt(s, args) ==
  LET strings == Strings(s, args)
      written == Pointers(strings, Append(strings.argp, 0))
  IN  IF written.status # "ok" THEN written
      ELSE IF TooLarge(written.off, strings.off) THEN Error(written)
      ELSE [written EXCEPT !.argv = pa2ka(ramBase + strings.off)]

(* The loop over the segments, and the memory and where the arguments are, *)
(* up to the call of SetupRegs.                                            *)
LoadProgs(arch, s, progs) ==
  LET done[k \in 0 .. Len(progs)] ==
        IF k = 0 THEN s ELSE LoadProg(arch, done[k - 1], progs, k)
  IN  done[Len(progs)]

LoadKernel(arch, mem, progs, args) ==
  LET new == [mem |-> mem, status |-> "ok", kernSize |-> 0, off |-> 0, argp |-> << >>, argv |-> 0]
      kern == LoadProgs(arch, new, progs)
      full == IF kern.status = "ok" THEN WriteAt(kern, args) ELSE kern
  IN  IF full.status = "ok" /\ full.kernSize = 0 THEN Error(full) ELSE full
-----------------------------------------------------------------------------
(* The guest's side: kmain(argc, argv) follows the pointers through the    *)
(* mapping of physical memory at kernBase.                                 *)
At(mem, va) ==
  LET i == va - kernBase - ramBase + 1
  IN  IF i \in DOMAIN mem THEN mem[i] ELSE Cell("fault", 0, 0)

Pointer(mem, va) ==
  LET c == At(mem, va)
  IN  IF \A j \in 1 .. ptrSize : At(mem, va + j - 1) = Cell("ptr", c[2], j) THEN c[2] ELSE 0

ReadsString(mem, va, i, len) ==
  /\ \A j \in 1 .. len : At(mem, va + j - 1) = Cell("arg", i, j)
  /\ At(mem, va + len) = Zero

(* argv[0 .. argc-1] are the arguments, and argv[argc] is null.            *)
ReadsArgs(mem, argc, argv, args) ==
  /\ argc = Len(args)
  /\ \A i \in 1 .. argc :
       ReadsString(mem, Pointer(mem, argv + (i - 1) * ptrSize), i, args[i])
  /\ \A j \in 0 .. (ptrSize - 1) : At(mem, argv + argc * ptrSize + j) = Zero

(* Segment k is in memory as the file has it, followed by zeroes.          *)
SegmentIntact(arch, mem, p, k) ==
  LET start == ka2pa(arch, p.vaddr) - ramBase
  IN  \A i \in 1 .. p.memsz :
        mem[start + i] = IF i <= p.filesz THEN Cell("file", k, i) ELSE Zero

(* Linked as link/kernel.ld does: from physKernBase up, without overlap.   *)
WellLinked(arch, progs) ==
  \A k \in DOMAIN progs : progs[k].load =>
    LET start == ka2pa(arch, progs[k].vaddr) - ramBase
    IN  /\ start >= kernSpace
        /\ \A l \in 1 .. (k - 1) : progs[l].load =>
             ka2pa(arch, progs[l].vaddr) - ramBase + progs[l].memsz <= start
=============================================================================
