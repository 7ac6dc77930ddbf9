------------------------------- MODULE Launch -------------------------------
(***************************************************************************)
(* revisor's main, from the command line to the running guest              *)
(* (cmd/revisor/revisor.go, boot.go, kvm/): the -mem option is parsed, the *)
(* machine made with KVM, the kernel and its arguments loaded, the         *)
(* registers set and the vCPUs started.                                    *)
(*                                                                         *)
(* main is one goroutine, so its program is the sequence of the calls it   *)
(* has still to make.  Beside it runs the garbage collector, which closes  *)
(* /dev/kvm once NewMachine has no use for the os.File any more, while the *)
(* number of the descriptor is still used: descriptors are therefore       *)
(* numbers of the process's table, and a number may come to name another   *)
(* object.  The host may refuse any call.                                  *)
(***************************************************************************)
EXTENDS Machine, GuestImage

CONSTANTS
  Commands,      \* [arch, ncpus, mem, kernel, file, args, trace]: how revisor is called
  HostTables,    \* the CPUID tables a host may have
  HighHalves,    \* what may lie behind the uint32 of SetIdentityMapAddr
  CellsPerPage,  \* scale of guest memory: cells of a page
  Window,        \* bound: cells of memory that are followed
  MaxFd          \* bound: descriptors of the process

ASSUME LaunchConstants ==
  /\ \A c \in Commands :
       /\ c.arch \in Archs /\ c.ncpus \in 0 .. MaxCpus /\ c.mem.num \in Int
       /\ c.kernel.progs \in Seq(Segments) /\ c.args \in Seq(Nat)
  /\ HostTables \subseteq Seq([fn : Nat, val : Nat])
  /\ HighHalves \subseteq Nat /\ CellsPerPage \in Nat \ {0}
  /\ Window \in Nat /\ MaxFd \in Nat

VARIABLES
  cmd,     \* the command, which never changes
  host,    \* the host's CPUID table, which never changes
  todo,    \* the calls main has still to make
  state,   \* "boot", "failed" (log.Fatal), "panic", or "run": all vCPUs started
  err,     \* why the launch failed
  fds,     \* the process's descriptor table
  gc,      \* the os.File of /dev/kvm: "none", "open" or "closed" by its finalizer
  m,       \* the numbers in Machine and vm: kvmfd, vmfd, irqfd and vcpus
  kvm,     \* what KVM holds of the machine
  image    \* guest memory: its size, its cells and the address of argv

vars == <<cmd, host, todo, state, err, fds, gc, m, kvm, image>>

arch == cmd.arch
ncpus == cmd.ncpus
FdNumbers == 0 .. MaxFd
NoFd == -1
-----------------------------------------------------------------------------
(* Sizes are [pages, rest], rest being the bytes beyond whole pages.       *)
Size(pages, rest) == [pages |-> pages, rest |-> rest]
NoSize == Size(0, 0)

(* -mem: [num, mod] for the digits (-1: none) and the character after them. *)
parseMem(o) ==
  CASE o.mod = "G" -> Size(o.num * 262144, 0)
    [] o.mod = "M" -> Size(o.num * 256, 0)
    [] o.mod = "K" -> Size(o.num \div 4, (o.num % 4) * 1024)
    [] o.mod = "B" -> Size(o.num \div 4096, o.num % 4096)

CanParse(o) == o.num >= 0 /\ o.mod \in {"G", "M", "K", "B"}

Cells(size) == Smaller(size.pages * CellsPerPage, Window)
-----------------------------------------------------------------------------
Init ==
  /\ cmd \in Commands
  /\ host \in HostTables
  /\ todo = Main(cmd)
  /\ state = "boot" /\ err = "none"
  /\ fds = [n \in FdNumbers |-> IF n < 3 THEN Obj("std", 0) ELSE NoObj]
  /\ gc = "none"
  /\ m = [kvmfd |-> NoFd, vmfd |-> NoFd, irqfd |-> NoFd, vcpus |-> << >>]
  /\ kvm = [regions |-> {}, chips |-> {}, inited |-> {}, cpuid |-> [c \in Cpus |-> << >>],
            regs |-> [c \in Cpus |-> ResetRegs], debug |-> {}, running |-> {}]
  /\ image = [size |-> NoSize, mem |-> << >>, argv |-> 0]

(* The lowest free number, as the kernel hands them out.                   *)
FirstFree(n) == fds[n] = NoObj /\ \A k \in FdNumbers : k < n => fds[k] # NoObj
SomeFree == \E n \in FdNumbers : FirstFree(n)
NextFd == CHOOSE n \in FdNumbers : FirstFree(n)
-----------------------------------------------------------------------------
(* What KVM and the host ask of a call.                                    *)

(* The object that the descriptor of a call must name.                     *)
OnKvm == {"GET_API_VERSION", "CHECK_EXTENSION", "CREATE_VM", "GET_VCPU_MMAP_SIZE",
          "GET_SUPPORTED_CPUID"}
OnGic == {"SET_DIST_ADDR", "SET_REDIST_ADDR", "VGIC_INIT"}
OnVm == {"SET_IDENTITY_MAP_ADDR", "SET_TSS_ADDR", "CREATE_IRQCHIP", "CREATE_PIT2",
         "CREATE_DEVICE", "CREATE_VCPU", "PREFERRED_TARGET", "SET_RAM", "SET_SYS"}
OnVcpu == {"mmap", "SET_CPUID2", "VCPU_INIT", "GET_REGS", "SET_REGS", "GET_SREGS", "SET_SREGS",
           "SET_GUEST_DEBUG"} \cup OneReg

Names(fd, obj) == fd \in FdNumbers /\ fds[fd] = obj

Ioctl(c) ==
  /\ c.op \in OnKvm => Names(m.kvmfd, Obj("kvm", 0))
  /\ c.op \in OnVm => Names(m.vmfd, Obj("vm", 0))
  /\ c.op \in OnGic => Names(m.irqfd, Obj("gic", 0))
  /\ c.op \in OnVcpu => c.cpu \in DOMAIN m.vcpus /\ Names(m.vcpus[c.cpu], Obj("vcpu", c.cpu))

(* What must have been done before.                                        *)
InOrder(c) ==
  /\ c.op \in {"SET_IDENTITY_MAP_ADDR", "CREATE_IRQCHIP"} => m.vcpus = << >>
  /\ c.op = "CREATE_PIT2" => "irqchip" \in kvm.chips
  /\ c.op = "CREATE_VCPU" => "vgic" \notin kvm.chips
  /\ c.op \in OneReg => c.cpu \in kvm.inited

Overlap(r, s) == r.base < s.base + s.size /\ s.base < r.base + r.size

RamRegion == Region("ram", physRamBase, image.size.pages)
Slots == {r \in kvm.regions : r.name \in {"identity", "tss", "ram", "sys"}}

(* Sizes and tables that are acceptable.                                   *)
GoodInput(c) ==
  /\ c.op = "parseMem" => CanParse(cmd.mem)
  /\ c.op = "mmap_ram" => image.size # NoSize
  /\ c.op = "GET_SUPPORTED_CPUID" => Fits(host)
  /\ c.op = "SET_RAM" => image.size.rest = 0 /\ \A s \in Slots : ~ Overlap(RamRegion, s)

(* main is at one of these calls, and it succeeds.                         *)
Call == Head(todo)
Calling(ops) == state = "boot" /\ todo # << >> /\ Call.op \in ops
Proceed == todo' = Tail(todo) /\ UNCHANGED <<cmd, host, state, err>>

Succeeds(ops) ==
  /\ Calling(ops)
  /\ Ioctl(Call) /\ InOrder(Call) /\ GoodInput(Call)
  /\ Proceed
-----------------------------------------------------------------------------
(* The calls.                                                              *)

ParseMem ==
  /\ Succeeds({"parseMem"})
  /\ image' = [image EXCEPT !.size = parseMem(cmd.mem)]
  /\ UNCHANGED <<fds, gc, m, kvm>>

MmapRam ==
  /\ Succeeds({"mmap_ram"})
  /\ image' = [image EXCEPT !.mem = [i \in 1 .. Cells(image.size) |-> Zero]]
  /\ UNCHANGED <<fds, gc, m, kvm>>

(* Calls that only ask, and mappings of the host.                          *)
Ask ==
  /\ Succeeds({"GET_API_VERSION", "CHECK_EXTENSION", "mmap_sys", "GET_VCPU_MMAP_SIZE", "mmap",
               "GET_SUPPORTED_CPUID", "PREFERRED_TARGET", "GET_REGS", "GET_SREGS"})
  /\ UNCHANGED <<fds, gc, m, kvm, image>>

(* CheckExtension for the PMU: its error is ignored.                       *)
AskPMU ==
  /\ Calling({"CHECK_PMU"}) /\ Proceed
  /\ UNCHANGED <<fds, gc, m, kvm, image>>

(* A call that makes a descriptor for obj.                                 *)
Makes(op, obj) ==
  /\ Succeeds({op}) /\ SomeFree
  /\ fds' = [fds EXCEPT ![NextFd] = obj]
  /\ UNCHANGED <<kvm, image>>

OpenKvm == Makes("open", Obj("kvm", 0)) /\ m' = [m EXCEPT !.kvmfd = NextFd] /\ gc' = "open"
CreateVM == Makes("CREATE_VM", Obj("vm", 0)) /\ m' = [m EXCEPT !.vmfd = NextFd] /\ UNCHANGED gc
CreateDevice ==
  Makes("CREATE_DEVICE", Obj("gic", 0)) /\ m' = [m EXCEPT !.irqfd = NextFd] /\ UNCHANGED gc
OpenKernel == Makes("open_kernel", Obj("file", 0)) /\ UNCHANGED <<m, gc>>

CreateVCPU ==
  /\ Makes("CREATE_VCPU", Obj("vcpu", Len(m.vcpus) + 1))
  /\ m' = [m EXCEPT !.vcpus = Append(@, NextFd)]
  /\ UNCHANGED gc

(* KVM reads eight bytes at the address of a uint32.                       *)
SetIdentityMapAddr ==
  /\ Succeeds({"SET_IDENTITY_MAP_ADDR"})
  /\ \E high \in HighHalves : kvm' = [kvm EXCEPT !.regions =
       @ \cup {Region("identity", kvmIdentityMapStart + high * 1048576, 1)}]
  /\ UNCHANGED <<fds, gc, m, image>>

Regions(op) ==
  CASE op = "SET_TSS_ADDR" -> {Region("tss", kvmTSSStart, TssPages)}
    [] op = "CREATE_IRQCHIP" -> ApicRegions
    [] op = "SET_DIST_ADDR" -> {Region("dist", GIC_DIST_BASE, GIC_DIST_SIZE)}
    [] op = "SET_REDIST_ADDR" ->
         {Region("redist", GIC_REDIST_CPUI_BASE, GIC_REDIST_CPUI_SIZE * ncpus)}
    [] op = "SET_RAM" -> {RamRegion}
    [] op = "SET_SYS" -> {Region("sys", physSysBase, 1)}
    [] OTHER -> {}

Chips(op) ==
  CASE op = "CREATE_IRQCHIP" -> {"irqchip"}
    [] op = "CREATE_PIT2" -> {"pit"}
    [] op = "VGIC_INIT" -> {"vgic"}
    [] OTHER -> {}

SetupVM ==
  /\ Succeeds({"SET_TSS_ADDR", "CREATE_IRQCHIP", "CREATE_PIT2", "SET_DIST_ADDR",
               "SET_REDIST_ADDR", "VGIC_INIT", "SET_RAM", "SET_SYS"})
  /\ kvm' = [kvm EXCEPT !.regions = @ \cup Regions(Call.op), !.chips = @ \cup Chips(Call.op)]
  /\ UNCHANGED <<fds, gc, m, image>>

SetCPUID2 ==
  /\ Succeeds({"SET_CPUID2"})
  /\ kvm' = [kvm EXCEPT !.cpuid = [@ EXCEPT ![Call.cpu] =
                            initCPUID(GetSupportedCPUID(host)).entries]]
  /\ UNCHANGED <<fds, gc, m, image>>

VcpuInit ==
  /\ Succeeds({"VCPU_INIT"})
  /\ kvm' = [kvm EXCEPT !.inited = @ \cup {Call.cpu}]
  /\ UNCHANGED <<fds, gc, m, image>>

(* elf.NewFile and the rest of LoadKernel before SetupRegs.                *)
Load ==
  /\ Calling({"LoadKernel"})
  /\ LET l == LoadKernel(arch, image.mem, cmd.kernel.progs, cmd.args)
     IN  /\ image' = [image EXCEPT !.mem = l.mem, !.argv = l.argv]
         /\ \/ l.status = "ok" /\ Proceed
            \/ /\ l.status # "ok"
               /\ state' = (IF l.status = "error" THEN "failed" ELSE "panic") /\ err' = "input"
               /\ UNCHANGED <<cmd, host, todo>>
  /\ UNCHANGED <<fds, gc, m, kvm>>

SetReg(regs) ==
  LET entry == cmd.kernel.entry  mem == image.size.pages  argc == Len(cmd.args)
  IN  CASE Call.op = "SET_REGS" -> initRegs(regs, entry, mem, argc, image.argv)
        [] Call.op = "SET_SREGS" -> initSregs(regs)
        [] Call.op = "SET_PC" -> [regs EXCEPT !.pc = entry]
        [] Call.op = "SET_X0" -> [regs EXCEPT !.mem = mem]
        [] Call.op = "SET_X1" -> [regs EXCEPT !.argc = argc]
        [] Call.op = "SET_X2" -> [regs EXCEPT !.argv = image.argv]

SetRegs ==
  /\ Succeeds({"SET_REGS", "SET_SREGS"} \cup OneReg)
  /\ kvm' = [kvm EXCEPT !.regs = [@ EXCEPT ![Call.cpu] = SetReg(kvm.regs[Call.cpu])]]
  /\ UNCHANGED <<fds, gc, m, image>>

(* vcpu.SingleStep; when it fails Machine.SingleStep returns, and StartVCPU *)
(* goes on with its goroutine.                                             *)
NextGo(i) == todo[i].op = "go" /\ \A j \in 1 .. (i - 1) : todo[j].op # "go"

SingleStep ==
  /\ \/ /\ Succeeds({"SET_GUEST_DEBUG"})
        /\ kvm' = [kvm EXCEPT !.debug = IF cmd.trace THEN @ \cup {Call.cpu} ELSE @ \ {Call.cpu}]
     \/ /\ Calling({"SET_GUEST_DEBUG"})
        /\ \E i \in DOMAIN todo : NextGo(i) /\ todo' = SubSeq(todo, i, Len(todo))
        /\ UNCHANGED <<cmd, host, state, err, kvm>>
  /\ UNCHANGED <<fds, gc, m, image>>

(* The goroutine of a vCPU; Boot waits for them once all are started.      *)
Go ==
  /\ Calling({"go"})
  /\ kvm' = [kvm EXCEPT !.running = @ \cup {Call.cpu}]
  /\ todo' = Tail(todo)
  /\ state' = IF todo' = << >> THEN "run" ELSE "boot"
  /\ UNCHANGED <<cmd, host, err, fds, gc, m, image>>

(* Any other call that fails ends the process: the error is returned at    *)
(* once, up to main's log.Fatal.                                           *)
Fail ==
  /\ state = "boot" /\ todo # << >> /\ Call.op \notin {"CHECK_PMU", "SET_GUEST_DEBUG", "go"}
  /\ err' = CASE ~ Ioctl(Call) -> "stale"
              [] Ioctl(Call) /\ ~ InOrder(Call) -> "order"
              [] Ioctl(Call) /\ InOrder(Call) /\ ~ GoodInput(Call) -> "input"
              [] OTHER -> "host"
  /\ state' = "failed"
  /\ UNCHANGED <<cmd, host, todo, fds, gc, m, kvm, image>>

\* mutant: the number is closed once more
Collect_Twice ==
  /\ state \in {"boot", "run"} /\ gc # "none"
  /\ fds' = [fds EXCEPT ![m.kvmfd] = NoObj]
  /\ gc' = "closed"
  /\ UNCHANGED <<cmd, host, todo, state, err, m, kvm, image>>

(* The finalizer of the os.File that NewMachine drops after devkvm.Fd().   *)
Collect ==
  /\ state \in {"boot", "run"} /\ gc = "open"
  /\ fds' = [fds EXCEPT ![m.kvmfd] = NoObj]
  /\ gc' = "closed"
  /\ UNCHANGED <<cmd, host, todo, state, err, m, kvm, image>>

Ended == state # "boot" /\ UNCHANGED vars

Next ==
  \/ ParseMem \/ MmapRam \/ Ask \/ AskPMU
  \/ OpenKvm \/ CreateVM \/ CreateDevice \/ OpenKernel \/ CreateVCPU
  \/ SetIdentityMapAddr \/ SetupVM \/ SetCPUID2 \/ VcpuInit
  \/ Load \/ SetRegs \/ SingleStep \/ Go
  \/ Fail \/ Collect \/ Ended

Spec == Init /\ [][Next]_vars
-----------------------------------------------------------------------------
(* Every variable has its type; a failed launch has a reason.              *)
TypeOK ==
  /\ cmd \in Commands /\ host \in HostTables
  /\ state \in {"boot", "failed", "panic", "run"}
  /\ err \in {"none", "host", "stale", "order", "input"}
  /\ (err = "none") = (state \in {"boot", "run"})
  /\ fds \in [FdNumbers -> Objs]
  /\ gc \in {"none", "open", "closed"}
  /\ {m.kvmfd, m.vmfd, m.irqfd} \subseteq FdNumbers \cup {NoFd}
  /\ Len(m.vcpus) <= ncpus /\ \A i \in DOMAIN m.vcpus : m.vcpus[i] \in FdNumbers
  /\ kvm.inited \cup kvm.debug \cup kvm.running \subseteq 1 .. ncpus

(* KVM never refuses a call of NewMachine, SetupRegs or StartVCPU because  *)
(* another had to come before it or after it, on either machine.           *)
OrderRespected == err # "order"

(* The numbers that Machine and vm keep always name the VM, the interrupt  *)
(* controller and the vCPUs they were made for: the finalizer of /dev/kvm, *)
(* whenever it runs, closes none of them, though its number may be reused. *)
HandlesValid ==
  /\ m.vmfd # NoFd => fds[m.vmfd] = Obj("vm", 0)
  /\ m.irqfd # NoFd => fds[m.irqfd] = Obj("gic", 0)
  /\ \A i \in DOMAIN m.vcpus : fds[m.vcpus[i]] = Obj("vcpu", i)

(* The CPUID table of a vCPU is the host's, all of it, without performance *)
(* monitoring and with KVM's signature.                                    *)
Tailored(table) ==
  /\ Len(table) = Len(host)
  /\ \A i \in DOMAIN table :
       /\ table[i].fn = host[i].fn
       /\ table[i].val = CASE table[i].fn = CPUIDFuncPerMon -> Disabled
                           [] table[i].fn = CPUIDSignature -> KvmSignature
                           [] OTHER -> host[i].val

Mapped(names) == names \subseteq {r.name : r \in kvm.regions}

(* No vCPU starts on a machine that is not completely set up, whatever the *)
(* host refused and whenever /dev/kvm was closed: memory and hypercall     *)
(* page are mapped, the interrupt controller works, and the vCPU has its   *)
(* entry point, the size of memory, and on amd64 its CPUID table and       *)
(* 32-bit protected mode without paging, with SSE, which entry.S expects.  *)
StartedReady ==
  \A c \in kvm.running :
    /\ Len(m.vcpus) = ncpus
    /\ Mapped({"ram", "sys"})
    /\ kvm.regs[c].pc = cmd.kernel.entry
    /\ \E r \in kvm.regions : r.name = "ram" /\ r.size = kvm.regs[c].mem
    /\ arch = "amd64" =>
         /\ kvm.chips = {"irqchip", "pit"} /\ Mapped({"identity", "tss", "ioapic", "lapic"})
         /\ Tailored(kvm.cpuid[c])
         /\ 0 \in kvm.regs[c].cr0 /\ {2, 31} \cap kvm.regs[c].cr0 = {}
         /\ 9 \in kvm.regs[c].cr4
    /\ arch = "arm64" =>
         /\ kvm.chips = {"vgic"} /\ Mapped({"dist", "redist"})
         /\ c \in kvm.inited

(* No two things share guest-physical addresses.                           *)
RegionsDisjoint ==
  \A r \in kvm.regions, s \in kvm.regions : r # s => ~ Overlap(r, s)

(* The memory that -mem asks for is available to the guest: nothing else   *)
(* answers at an address of RAM.                                           *)
MemoryAvailable ==
  \A r \in kvm.regions, s \in kvm.regions :
    r.name = "ram" /\ s.name # "ram" => ~ Overlap(r, s)

(* kmain gets the arguments of the command line: a vCPU that runs finds    *)
(* them through its registers and the kernel's mapping of memory.          *)
GuestGetsArgs ==
  \A c \in kvm.running :
    ReadsArgs(image.mem, kvm.regs[c].argc, kvm.regs[c].argv, cmd.args)

(* Loading segment after segment and then the arguments below them leaves  *)
(* every segment as the file has it, for a kernel linked from physKernBase *)
(* up: neither the zeroes of a bss nor the pointers of argv run into it.   *)
KernelIntact ==
  kvm.running # {} /\ WellLinked(arch, cmd.kernel.progs) =>
    \A k \in DOMAIN cmd.kernel.progs : cmd.kernel.progs[k].load =>
      SegmentIntact(arch, image.mem, cmd.kernel.progs[k], k)
=============================================================================
