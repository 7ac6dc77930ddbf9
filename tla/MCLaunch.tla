------------------------------ MODULE MCLaunch ------------------------------
(***************************************************************************)
(* The commands, kernels and hosts that Launch is checked with.            *)
(***************************************************************************)
EXTENDS Launch

Text0(a) == IF a = "amd64" THEN kernTextBase ELSE kernBase
Seg(load, vaddr, filesz, memsz, present) ==
  [load |-> load, vaddr |-> vaddr, filesz |-> filesz, memsz |-> memsz, present |-> present]
Kernel(progs) == [entry |-> ramBase + kernSpace, progs |-> progs]
Low(off) == ramBase + off

(* As link/kernel.ld lays it out: boot code at its physical address, text  *)
(* and bss above it at the kernel's, and a note that is not loaded.        *)
Rekernel(a) ==
  Kernel(<<Seg(TRUE, Low(kernSpace), 2, 2, 2), Seg(FALSE, 0, 9, 9, 9),
           Seg(TRUE, Text0(a) + Low(kernSpace + 4), 2, 5, 2)>>)

(* Kernels of -kernel: without segments; cut off; starting beyond memory   *)
(* or below it; with bytes or a bss that fill a memory of 12 pages.        *)
OtherKernels(a) ==
  {Kernel(<< >>), Kernel(<<Seg(TRUE, Low(kernSpace), 3, 3, 2)>>),
   Kernel(<<Seg(TRUE, Low(25), 1, 1, 1)>>), Kernel(<<Seg(TRUE, 5, 1, 1, 1)>>),
   Kernel(<<Seg(TRUE, Low(20), 4, 4, 4)>>), Kernel(<<Seg(TRUE, Low(20), 3, 4, 3)>>),
   Kernel(<<Seg(TRUE, Low(20), 3, 5, 3)>>),
   Kernel(<<Seg(TRUE, Low(kernSpace), 1, 2, 1), Seg(TRUE, kernBase + Low(kernSpace + 2), 2, 3, 2)>>)}

Mem(num, mod) == [num |-> num, mod |-> mod]
Command(a, n, mem, kernel, file, args, trace) ==
  [arch |-> a, ncpus |-> n, mem |-> mem, kernel |-> kernel, file |-> file,
   args |-> args, trace |-> trace]

MCCommands ==
  UNION {
    {Command(a, n, Mem(2, "G"), Rekernel(a), FALSE, args, trace) :
       n \in 1 .. 2, args \in {<< >>, <<3, 0>>}, trace \in BOOLEAN}
    \cup {Command(a, 1, Mem(2, "G"), Rekernel(a), FALSE, args, FALSE) :
            args \in {<<1>>, <<9, 0>>, <<8, 0>>, <<15>>, <<30, 30>>, <<0, 0, 0, 0, 0>>}}
    \cup {Command(a, 1, mem, Rekernel(a), FALSE, <<1, 2>>, FALSE) :
            mem \in {Mem(-1, "B"), Mem(3, "T"), Mem(0, "G"), Mem(5000, "B"), Mem(6, "K"),
                     Mem(4, "K"), Mem(36, "K"), Mem(48, "K"), Mem(40960, "B"), Mem(1, "M"),
                     Mem(3052, "M")}}
    \cup {Command(a, 1, Mem(48, "K"), k, TRUE, <<1, 2>>, FALSE) : k \in OtherKernels(a)}
    : a \in Archs}

(* revisor -mem 3G.                                                        *)
MCThreeGigabytes == {Command(a, 1, Mem(3, "G"), Rekernel(a), FALSE, <<1>>, FALSE) : a \in Archs}

Entry(fn, val) == [fn |-> fn, val |-> val]
MCHostTables ==
  {<<Entry(1, 7), Entry(CPUIDSignature, 8)>>,
   <<Entry(CPUIDFuncPerMon, 7), Entry(1, 8), Entry(CPUIDFuncPerMon, 9)>>,
   <<Entry(1, 7), Entry(2, 7), Entry(3, 7), Entry(4, 7)>>}
=============================================================================
