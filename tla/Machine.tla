------------------------------ MODULE Machine ------------------------------
(***************************************************************************)
(* The calls on the host with which the hypervisor makes a virtual machine *)
(* and starts it, on amd64 and arm64 (kvm/machine.go, kvm/vm.go and the    *)
(* files per machine, boot.go and cmd/revisor/revisor.go).                 *)
(*                                                                         *)
(* Each function of the program is the sequence of the calls it makes, and *)
(* a function that calls others, up to main, is their concatenation; a     *)
(* call that fails ends it, as the code returns the error at once.  What   *)
(* KVM does with a call is external.  Guest-physical addresses and sizes   *)
(* are counted in pages of 4096 bytes and have the values of the code.     *)
(***************************************************************************)
EXTENDS Integers, Sequences, FiniteSets

CONSTANTS
  MaxCpus,   \* bound: vCPUs of a machine
  Nent       \* entries of the CPUID table that initCPUID makes room for

ASSUME MachineConstants == MaxCpus \in Nat \ {0} /\ Nent \in Nat

Archs == {"amd64", "arm64"}
Cpus == 1 .. MaxCpus
Region(name, base, size) == [name |-> name, base |-> base, size |-> size]

(* The objects behind the descriptors of the process.                      *)
Obj(kind, cpu) == [kind |-> kind, cpu |-> cpu]
NoObj == Obj("none", 0)
Kinds == {"none", "std", "kvm", "vm", "gic", "vcpu", "file"}
Objs == [kind : Kinds, cpu : 0 .. MaxCpus]

(* A call, and the vCPU it is for.                                         *)
Op(name, cpu) == [op |-> name, cpu |-> cpu]
Calls(names, cpu) == [i \in 1 .. Len(names) |-> Op(names[i], cpu)]

(* A loop over the vCPUs of a machine with n of them.                      *)
PerCpu(names, n) ==
  [i \in 1 .. n * Len(names) |->
     Op(names[((i - 1) % Len(names)) + 1], ((i - 1) \div Len(names)) + 1)]
-----------------------------------------------------------------------------
(* The layout of guest-physical memory.                                    *)
physSysBase == 4            \* 0x0000_4000
physRamBase == 262144       \* 0x4000_0000
kvmIdentityMapStart == 16   \* 0x10000

\* mutant: the page of the identity map is not left out
kvmTSSStart_Same == kvmIdentityMapStart

kvmTSSStart == kvmIdentityMapStart + 1
GIC_DIST_BASE == 256        \* 0x100000
GIC_DIST_SIZE == 16
GIC_REDIST_CPUI_BASE == GIC_DIST_BASE + GIC_DIST_SIZE
GIC_REDIST_CPUI_SIZE == 32  \* for each vCPU

(* Fixed by KVM: the TSS has three pages, and CREATE_IRQCHIP brings the    *)
(* I/O APIC to 0xFEC00000 and the local APIC to 0xFEE00000.                *)
TssPages == 3
ApicRegions == {Region("ioapic", 1043456, 1), Region("lapic", 1043968, 1)}
-----------------------------------------------------------------------------
(* What the functions call, in order.                                      *)

getAPIVersion == <<"GET_API_VERSION">>
getVCPUMMmapSize == <<"GET_VCPU_MMAP_SIZE">>

createVM_amd64 == <<"CREATE_VM">>
createVM_arm64 == <<"CHECK_EXTENSION", "CREATE_VM">>
createVM(arch) == IF arch = "amd64" THEN createVM_amd64 ELSE createVM_arm64

NewVM(arch) == getAPIVersion \o createVM(arch) \o <<"mmap_ram", "mmap_sys">>

vm_init(arch) == IF arch = "amd64" THEN <<"SET_IDENTITY_MAP_ADDR", "SET_TSS_ADDR">> ELSE << >>

createIrqController_amd64 == <<"CREATE_IRQCHIP", "CREATE_PIT2">>
createDevice == <<"CREATE_DEVICE", "SET_DIST_ADDR", "SET_REDIST_ADDR">>
createIrqController(arch) == IF arch = "amd64" THEN createIrqController_amd64 ELSE createDevice

\* mutant: one vCPU too many
addVCPU_Twice == <<"CREATE_VCPU", "CREATE_VCPU">>

addVCPU == <<"CREATE_VCPU">>

initCPUIDs(n) == PerCpu(<<"GET_SUPPORTED_CPUID", "SET_CPUID2">>, n)
initVcpus(n) == Calls(<<"PREFERRED_TARGET", "CHECK_PMU">>, 0) \o PerCpu(<<"VCPU_INIT">>, n)
m_init(arch, n) == IF arch = "amd64" THEN initCPUIDs(n) ELSE initVcpus(n)

initMemory == <<"SET_RAM", "SET_SYS">>

\* mutant: the arm64 controller is not initialised
finalizeIrqController_Skipped(arch) == << >>

finalizeIrqController(arch) == IF arch = "amd64" THEN << >> ELSE <<"VGIC_INIT">>

\* mutant: the vCPUs are created before the interrupt controller
NewMachine_VcpusFirst(arch, n) ==
  Calls(<<"open">> \o NewVM(arch) \o vm_init(arch) \o getVCPUMMmapSize, 0)
    \o PerCpu(addVCPU \o <<"mmap">>, n)
    \o Calls(createIrqController(arch), 0)
    \o m_init(arch, n)
    \o Calls(initMemory \o finalizeIrqController(arch), 0)

NewMachine(arch, n) ==
  Calls(<<"open">> \o NewVM(arch) \o vm_init(arch)
          \o getVCPUMMmapSize \o createIrqController(arch), 0)
    \o PerCpu(addVCPU \o <<"mmap">>, n)
    \o m_init(arch, n)
    \o Calls(initMemory \o finalizeIrqController(arch), 0)

OneReg == {"SET_PC", "SET_X0", "SET_X1", "SET_X2"}

SetupRegs(arch, n) ==
  PerCpu(IF arch = "amd64" THEN <<"GET_REGS", "SET_REGS", "GET_SREGS", "SET_SREGS">>
                           ELSE <<"SET_PC", "SET_X0", "SET_X1", "SET_X2">>, n)

(* SingleStep on every vCPU, and then the goroutine of vCPU i, for each i. *)
StartVCPU(i, n) == PerCpu(<<"SET_GUEST_DEBUG">>, n) \o <<Op("go", i)>>
Boots(n) ==
  [k \in 1 .. n * (n + 1) |-> StartVCPU(((k - 1) \div (n + 1)) + 1, n)[((k - 1) % (n + 1)) + 1]]

(* main, for the command c.                                                *)
Main(c) ==
  Calls(<<"parseMem">>, 0)
    \o NewMachine(c.arch, c.ncpus)
    \o Calls((IF c.file THEN <<"open_kernel">> ELSE << >>) \o <<"LoadKernel">>, 0)
    \o SetupRegs(c.arch, c.ncpus)
    \o Boots(c.ncpus)
-----------------------------------------------------------------------------
(* CPUID tables: [nent, entries], an entry being [fn, val].                *)

(* KVM_GET_SUPPORTED_CPUID fills the buffer from the host's table, or      *)
(* refuses with E2BIG.                                                     *)
Fits(table) == Len(table) <= Nent

Filled(table) ==
  [nent |-> Len(table),
   entries |-> [i \in 1 .. Nent |-> IF i <= Len(table) THEN table[i] ELSE [fn |-> 0, val |-> 0]]]

NewCPUID(data) == [nent |-> data.nent, entries |-> SubSeq(data.entries, 1, data.nent)]

GetSupportedCPUID(table) == NewCPUID(Filled(table))

CPUIDFuncPerMon == 10
CPUIDSignature == 20   \* 0x40000000
Disabled == 0
KvmSignature == 1

initCPUID(c) ==
  [c EXCEPT !.entries = [i \in DOMAIN @ |->
     CASE @[i].fn = CPUIDFuncPerMon -> [@[i] EXCEPT !.val = Disabled]
       [] @[i].fn = CPUIDSignature -> [@[i] EXCEPT !.val = KvmSignature]
       [] OTHER -> @[i]]]
-----------------------------------------------------------------------------
(* The registers of a vCPU; cr0 and cr4 are the sets of their one bits.    *)
ResetRegs == [pc |-> 0, mem |-> 0, argc |-> 0, argv |-> 0, cr0 |-> {4, 29, 30}, cr4 |-> {}]

initRegs(regs, pc, mem, argc, argv) ==
  [regs EXCEPT !.pc = pc, !.mem = mem, !.argc = argc, !.argv = argv]

initSregs(regs) ==
  [regs EXCEPT !.cr0 = (((@ \cup {0}) \ {2}) \cap (0 .. 15)) \cup {1},
               !.cr4 = {9, 10}]
=============================================================================
