# Revisor in TLA+

Revisor runs one program in a virtual machine: a hypervisor in Go (`src/*.go`,
`src/kvm`, `src/cmd`) creates the machine with KVM and serves its hypercalls,
and a small guest kernel in D (`src/rekernel`) gives the program a subset of the
Linux system calls on amd64 or arm64.  This directory models the parts of it
that keep state, model-checks them with TLC on small instances and proves their
safety properties with TLAPS for every value of their constants.
`PROJECT.json` lists runs, properties, theorems, hazards and, for every
definition, the source lines it models.

## The system and its parts

    main: parseMem -> NewMachine (KVM) -> LoadKernel -> SetupRegs -> StartVCPU
       |  guest memory: hypercall page, devices, argv, kernel
    user program
       |  system calls, page faults, timer and signal interrupts
    guest kernel: traps -> syscall_handler -> Proc (vmas, free_vmas, pt, brk,
       |                                      fdtable) -> streams (picolibc)
       |  hypercalls: a store to a device page; KVM_RUN returns
    vCPU goroutine: RunInfiniteLoop -> RunOnce -> Container.Hypercall -> host files
    signal goroutine: signal.Notify -> Container.Signal -> InjectIrq -> irq line

Facts the models rest on:

* The kernel has one CPU and runs with interrupts off; user mode is the only
  place where an interrupt is taken.  A system call therefore is one step.
* There is one process: `make_from_parent` is a stub that returns null, so
  `fork` always fails.
* The vCPU's goroutine serves a hypercall to its end before the guest goes on.
  Only the signal goroutine runs beside it.
* A failed `assert` or `ensure` prints and ends the machine (`panic`).
* `usertrapret` writes the page table base, which flushes the TLB.
* `main` is one goroutine up to the start of the vCPUs.  Beside it runs the garbage
  collector: `NewMachine` keeps the number of `/dev/kvm` and drops the `os.File`, and
  an `os.File` that is dropped is closed by its finalizer.
* `main` asks for one vCPU; `NewMachine` takes their number, and the models have it as
  a parameter.
* picolibc, an external submodule, supplies malloc and the streams.  The kernel
  never calls `fflush`, and `exit` is the hypercall alone.

## Modules

| module | models | state and actions |
|---|---|---|
| `AddrSpace` | the mmap area (`proc.d`, `core/interval.d`, `trap.d`, `syscall.d`) | `vmas`, `free_vmas`, `pt`, `tlb`; `sys_mmap`, `sys_munmap`, `UserAccess`, `PageFault` |
| `Brk` | the heap (`sys_brk`) below the mmap area | `brk`, `pt`, and whether a call has failed; `sys_brk` by its branches, `sys_mmap` and `sys_munmap` as far as they change `pt` |
| `FlatMap` | what a page table promises | a function from pages to physical pages |
| `PageTable` | the tree of tables on both machines (`arch/*/vm.d`, `vm.d`) under the calls that change it | `tables`, `areas`; `sys_mmap`, `sys_munmap`, `sys_brk`, `pagefault` |
| `Hypercalls` | the host's file table as operators (`hypercall.go`, `container.go`) | one operator per hypercall, from a host to its outcomes |
| `Container` | the host facing an arbitrary guest | `container`, whether the run `loop` goes on, the numbers closed so far; one action per hypercall |
| `FileStack` | descriptors, streams and host table together (`file.d`, `syscall.d`) | one action per system call on files, composed from the operators of `Hypercalls` |
| `SignalPath` | a host signal's way to the end of the guest | the two goroutines, the line, the interrupt controller, the guest, the vCPU loop |
| `Machine` | `NewMachine` and what it calls, `Boot` and the sequence of `main`, on both machines (`kvm/machine*.go`, `vm.go`, `irq_*.go`, `cpuid_amd64.go`, `regs_*.go`) | operators: the sequence of calls of each function, the layout of guest-physical memory, the CPUID table, the registers |
| `GuestImage` | what `LoadKernel` and `argv.go` put into guest memory, and how `kmain` reads it | operators on a sequence of cells |
| `Launch` | `main` from the command line to the running vCPUs | `todo` (the calls still to make), `fds`, `m` (the numbers `Machine` keeps), `kvm` (what KVM holds), `image`; one action per kind of call, `Fail`, and `Collect` for the finalizer |
| `AddrSpaceProofs`, `BrkProofs`, `FileStackProofs` (with those of `Container`), `GuestImageProofs`, `LaunchProofs`, `LaunchGuestProofs`, `PageTableProofs`, `SignalPathProofs` | | the theorems |
| `MC*` | | constants for TLC |

Names are the source's: `map_vma_no_overlap` is split into the ways it ends
(`VmaAddFails`, `RightAddFails`, `KzallocFails`, `Maps`, `MapPanics`), each a
disjunct of `map_vma`.  An operator `X_Something` before `X` is a mutated form of
it that `PROJECT.json` uses to show that a property can fail.

### Abstractions

* Addresses are words of a small width, and arithmetic wraps (`AddrSpace`,
  `Brk`).  Memory is the number of the allocation it came from, so "this page
  still has its contents" is "this page maps the same number".
* The interval lists are sets; a search may return any element that matches.
* `AddrSpace` has one leaf table; that the tree behaves as the flat function used
  there is the refinement of `FlatMap` by `PageTable`.  Entries of `PageTable` keep only
  whether they are valid and what they point to: with `Perm.READ` missing (a page fault
  in an area without `PROT_READ`) the new entry is not valid.
* File sizes and offsets count units of one page, the unit in which `sys_read` and
  `sys_write` walk the user's buffer.  A file's data are its size, and whether it exists:
  an open may create it (`O_CREAT`) or truncate it (`O_TRUNC`).
* `CanAccess` is the code's test, a prefix of the path's characters.  What the host's
  file system makes of a path (links, the directory a name lies in) is outside the
  model, and no property says where the files of a guest are.
* A stream may read ahead and hold writes back, up to `BUFSIZ` units, as a C
  library may.  The standard streams cannot seek and hold nothing back.
* `sys_writev` is a sequence of `sys_write`.
* An edge-triggered IOAPIC pin (amd64) makes a request on a rising edge that it
  sees unmasked; the arm64 line is level-triggered.
* Any allocation of the kernel may return null.  `sbrk` in `hyper.d` has no limit
  and never fails, so today only the C library itself could return null; the runs
  with failures ask what the error paths of the kernel do when they are taken.

* In `Launch` a function of the program is the sequence of calls it makes on the host,
  and an error ends the launch at once, as every caller returns it up to `log.Fatal`;
  only `SingleStep` and the question for the PMU are allowed to fail.  Descriptors are
  numbers of a table in which the lowest free one is handed out, so that a number that
  was closed may come to name another object.  What KVM requires of a call (the object,
  the order, sizes) is `Ioctl`, `InOrder` and `GoodInput`, from its documentation and
  the way the code uses it.
* Guest-physical addresses are in pages and have the values of the code.  The contents
  of memory are scaled: a page has two cells, a pointer two, and 16 cells lie between
  `physRamBase` and `physKernBase`; `SegmentIntact` and `ReadsArgs` compare cells.
* `KVM_SET_IDENTITY_MAP_ADDR` reads eight bytes at the address of a `uint32`; the upper
  half is a choice (`HighHalves`).
* `-mem` is its digits and the character after them.  The product wraps at 64 bits in
  the code, which only sizes beyond any host reach; the model's sizes stay below.

## Runs

Passing runs:

| run | question | bounds |
|---|---|---|
| `mmap_fit` | Does any sequence of mmap, overlapping mmap and munmap lose a page, leave a page with the wrong block, or leave a stale translation? | 5 pages, 4 mappings, lengths of 1 to 3 pages, aligned and unaligned hints |
| `mmap_oom` | What if any allocation fails half way (arm64, with demand paging)? | 4 pages, 3 mappings |
| `brk` | Do growth, shrinking and failures keep the heap and the other regions, whatever is mapped above the heap and wherever the break is put? | 8 pages: 3 of the heap, 3 of the mmap area, one of the program; 3 allocations |
| `page_table` | Do the tables stay a tree and does the tree act as a flat map? | 3 levels of 2 entries, 4 calls, ranges of 1, 3 and 4 pages, room for 0, 1 or 5 tables |
| `container_any` | Can a guest, whatever it does, pass the limit of the table, reach a file through a stale number, or change the host by a failed call? | 5 numbers, so that the table fills up; a path that exists, one that does not, one that is blocked |
| `files` | Do descriptors lead to their own files, and positions stay independent and restored? | 5 slots, 6 host numbers, a file of up to 2 units that is created and truncated, buffers of 1 |
| `launch` | Whatever the host refuses and whenever `/dev/kvm` is closed: does a vCPU only start on a complete machine, with its kernel and arguments in memory? | both machines, 1 and 2 vCPUs, 10 descriptors, CPUID tables of 2 to 4 entries for 3, kernels and arguments below, at and above the sizes that fit |
| `signals` | Does every signal end the guest that is not waiting for input for ever? | both machines, 3 signals, single-stepping on |

The bounds are chosen so that the tables fill up, slots are reused, an area is
carved in the middle, a range crosses a leaf table, and a second signal meets the
handler of the first.  `CHECK_DEADLOCK FALSE` is set in the models that stop at their
bound or when the machine has ended; `launch` checks deadlock, so that no call of the
launch is left without a step.

Runs that show a disagreement (each has an entry under "findings"):

* `mmap_straddle`: a hint that begins in used memory and ends in a free interval
  makes the split of the free interval wrap around (`proc.d:362`, `367`); a later
  mmap without hint then maps over a live mapping.
* `page_table_stale`: `unmap_vma` reuses the in-out level of `walk`; if an area
  without pages (left by an mmap that ran out of memory) crosses a leaf table, an entry
  above the leaf tables is cleared, with the pages of other areas below it.
* `signal_early`: on amd64 a signal that comes before the guest has unmasked its
  interrupt raises the line for ever, and no later signal makes an interrupt.
* `launch_devices`: RAM starts at 0x40000000 and is as large as `-mem` says; above 3052M
  it overlaps the I/O APIC and the local APIC of amd64, and nothing refuses it.

Other behaviour seen while modelling, in the models but without a run: a brk that
returns NOMEM has moved the break (`syscall.d:300`); a brk whose page is mapped, by
mmap or by the program, moves the break there (`syscall.d:303`), a growth from a break in
the mmap area or below the heap maps over what is there, and a break that comes back
from the first address of the area by less than a page asks for no memory; an open at
the full table creates or truncates the file before it fails (`hypercall.go:171`, `175`);
`SingleStep` may have failed for a vCPU that then starts (`machine.go:141`); close
releases the slot only, and stream and host number stay (`syscall.d:181`); a launch
fails with a bad descriptor if the finalizer closes `/dev/kvm` before its last use, and
on arm64 the question for the PMU may then reach a vCPU (`machine.go:34`); a segment
that ends exactly at the end of memory is refused (`machine.go:111`); the PSCI and the
PMU feature of arm64 are the same bit (`kvm_arm64.go:15`); the comment at `kvm.go:94`
puts the identity map after the TSS, and the code puts it before; an empty free interval
is put back when a range ends its free interval (`proc.d:366`), and splitting it later
wraps around, so the class of hints of the passing mmap runs, "fit", leaves such splits
out and no run shows them; a range that ends exactly at the end of the area is refused
(`proc.d:324`); a length near the end of the word rounds to 0 (`proc.d:389`); a host
write that fails is reported as done (`hypercall.go:140`); buffered data are lost at
exit; a read that faults at a later page has consumed the file before it.

### Fairness

Only `SignalPath` has liveness.  Weak fairness of the signal goroutine, of the vCPU
goroutine outside KVM_RUN and of main is the Go scheduler's.  A read of the host has no
fairness: the input may never come, and `SignalEndsGuest` says that a guest that waits
for it is the only one that a signal does not end.  Strong fairness of the kernel's
steps and of taking an interrupt is needed because KVM_RUN may return at any moment: a
guest that is entered again and again makes progress, and an interrupt that stays
pending is taken when user mode is reached again and again.  User code itself has no
fairness: it may loop for ever without a system call.

## Proofs

`AddrSpaceProofs` (every page size, word, area, set of hints and lengths):

* `VmaInv` = type, vmas in the area and disjoint, and `FreeStarts` (a free interval
  starts in the area or at its end, even one with a wrong size) is inductive for any
  hints; the last is needed for mmap without hint, which starts where a free interval
  does.  `VmasDisjointAlways` and `TypeCorrect` follow.  The core lemma
  is that the parts carved out of a vma lie in it and outside the new range.
* `FreeInv` = `VmaInv`, `FreeDisjoint` and `FreeUnmapped` is inductive under
  `HintClass = "fit"`.  Neither of the last two is inductive alone: that a free
  interval is unmapped needs that the new range meets one free interval only, which
  is `FreeDisjoint`.  `MmapAnyKeepsPages` follows.
* `NothingLostAlways` adds to `FreeInv` that the small allocations of the lists succeed
  (`~ AllocMayFail`): when one fails half way, addresses do get lost.
  `PagesMatchAlways` needs in addition that the memory for the pages does not run out
  (`Roomy`), since an mmap without memory leaves its vma without pages.
* `TlbCoherentAlways` follows from the flush at each return.
* `TlbCoherentAlways` needs no assumption beyond `ConstantsOK`; the others assume
  `NoWrap`, that no request is so long that its end leaves the word.

`FileStackProofs` (tables, buffers, paths and booted files of any number, any sequence of
system calls): the core is `Only`: a seek, read, write or positioned read changes
nothing but its own stream and the offset of that stream's host descriptor.  One lemma
per operation of a stream says so, and they chain.  `FdsBacked` alone is not inductive,
since a released slot keeps its stream: `FInv` says of every stream ever opened that its
host number is open, below `nextfd` and its own.  `FdsAlwaysBacked`,
`FailedOpenAlwaysKeepsSlots` and `PositionsAlwaysIndependent` follow.  `FitInv` says of
the buffers that a stream has not read ahead more than its offset, does not hold reads
and writes at once, and that the standard streams hold nothing.  It is what the
arithmetic of a positioned read needs: `PositionAlwaysRestored` and `FileTypes` follow.

The last part of `FileStackProofs` is about `Container` (every set of paths and
directories, every `fdMax`): `CInv` adds to the two invariants that no number from
`nextfd` on is open and that closed numbers lie below `nextfd`; without it
`NeverReused` is not inductive.  One lemma per hypercall says that its outcomes keep the
table sound and that one that fails changes no descriptor; the theorems follow from them.

`BrkProofs` (every page size, heap, mmap area, memory and set of arguments): `HeapMapped`
is not inductive.  `sys_brk` looks at the page of its argument only, so `BInv` adds
`NoHoles`: below a mapped page of the heap every page of the heap is mapped, as long as no
call has failed.  It also adds that the pages of the heap are `sys_brk`'s own, which mmap
and munmap leave alone.  The lemmas about `trunc` and `ceilpg` (a multiple of the page
size less than a page above another is not above it) carry the arithmetic, wrapped
around where a break comes back from above.  `HeapMapped` stops a page short of the area:
a break at its first address may come back by less than a page without memory for that
page.  `HeapAlwaysKept` assumes nothing; what it says of other regions it says of steps
with both breaks between `BRK_BASE` and the area, since from outside a growth does map
over other regions.  `BrkTypes` is a consequence of `BInv`.

`SignalPathProofs` (any number of signals, with and without `-trace`): `SInv` says of the
edge-triggered line that it is never raised before it is unmasked, and that a line that
is high without a request belongs to a handler that has not begun or is at the hypercall
that lowers it.  It assumes that on amd64 no signal comes early, which is what
`signal_early` is about.  `SignalTypes` rests on `TInv`, which lists what can be left of
a handler, and assumes nothing.

`LaunchProofs` (any commands, number of vCPUs, host tables and descriptors):

* `MainPiece`: the calls of `main` go through eighteen phases in order, with every call
  that a machine cannot do without.  Each function of `Machine` is a piece of a few
  phases; pieces put together are a piece.
* `HInv` gives the descriptors their objects and says that the finalizer has run once at
  most, and that until it has, the number it will close still names `/dev/kvm`; so it
  frees none that the machine keeps.  `HandlesStayValid` follows.
* `RInv` says which regions the calls may ever add, whatever their order.  Under
  `LayoutFits` (RAM ends below the I/O APIC, the redistributors below RAM) they are
  disjoint: `LayoutDisjoint` and `AllMemoryAvailable`.  `launch_devices` shows that the
  bound on `-mem` is needed, and the code does not check it.
* `PointersRoundTrip`: `ka2pa` undoes `pa2ka` on both machines, on amd64 for memory that
  ends before `kernTextBase - kernBase` (just under 128 TiB).
* `OInv` says where `main` is in its program (`Track`), that every call made has its
  effect (`Achieved`: the CPUID table, the registers, the regions and the chips), and
  that what only a call can bring about is not there before it (`Effects`).  No property
  of the order is inductive without the last: that the interrupt controller exists
  before the vCPUs is a fact about the calls not yet made.  With `MainPiece` it gives
  `OrderAlwaysRespected`, `LaunchTypes` and, with `HInv`, `StartsOnlyReady`.

`GuestImageProofs` (every kernel, memory and list of arguments):
`LoadKernelDoes` says that if `LoadKernel` returns without an error, the guest reads its
arguments through the pointers, and each segment of a kernel linked from
`physKernBase` up is as the file has it.  The loops over segments, strings and
pointers are recursive functions; each has an invariant of its own, and the induction
is over the set of steps for which it holds (`Induction`, from the well-foundedness
of the natural numbers).

`LaunchGuestProofs` (the launch and its memory together):
`GInv` says that from `LoadKernel` on memory is as it left it, and that each call that
sets a register has given the guest what it stands for.  With `OInv` and the lemma
`LoadKernelDoes` it gives `ArgsReachGuest` and `KernelStaysIntact`, for every kernel,
memory and list of arguments.  `LaunchConstants` only gives the commands their types.

`PageTableProofs` (any number of levels, any table size, any sequence of calls, both
machines): `At(t, va, k)` is what the tree holds for a page at level k.  `TreeInv` says
that the tables are numbered without gaps, an entry points to a table or nowhere, every
table is reached, and no table is entered in two places; and of a recorded area that it
has all its leaf tables or lies within one.  Without the last, munmap is not
harmless: `unmap_vma` carries the level of one walk to the next.  One lemma says what the
write of an entry does to every page's way through the tree; the loops of
`lookup_l4pagetable`, `map_region`, `walk` and `unmap_vma` follow by induction over
levels and pages.  `Types`, `FormTree`, `Refinement` (every step is a step of `FlatMap`
or changes no translation) and `MunmapKeepsOthers` follow.  All assume
`FailSpan = "leaf"`: an area that got no memory lies within one leaf table.
`page_table_stale` shows that without it `MunmapOnlyItsRange` fails.

Every invariant and action property of the passing runs is proved.  Only model-checked
is the liveness of `SignalPath` (`SignalEndsGuest`), which is out of the prover's reach.
The four runs that show a disagreement check what the theorems exclude by assumption:
`HintClass`, `FailSpan`, `EarlySignals` and `LayoutFits`.

## Not modelled

* The program loader of the kernel (`make_from_file`, `load`, `setup`): its result is the
  stack and auxv that a C library outside the repository reads; the mappings it makes
  go through `map_vma`, which `AddrSpace` models.
* Scheduler and queues: with one process there is nothing to schedule; `fork` and `wait4`
  have no second process to act on.
* Registers saved and restored by the assembly of trap entry and exit, descriptor tables,
  and the registers of APIC, GIC and timer: straight-line code without state of its own.
* The translation of guest addresses by the host (`VtoP`), and so which memory a hypercall
  reads or writes; a buffer outside guest memory is a panic.
* Permission bits, the contents of files and directories, the clock's value, printing and
  disassembly, tables of constants, functions without a caller (`GetCPUID2`,
  `GetEmulatedCPUID`, `vm_amd64.go`, `PtIter`, `Pagetable.free`), and vendored code.

The components in `PROJECT.json` say this part by part.
