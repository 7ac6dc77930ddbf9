------------------------- MODULE LaunchGuestProofs --------------------------
(***************************************************************************)
(* Proofs about what a launch gives to its guest: the arguments and the    *)
(* kernel, for every command, and whatever the host refuses.               *)
(***************************************************************************)
EXTENDS LaunchProofs, GuestImageProofs, TLAPS

USE SMTT(60)

(* The guest's view of a launch.  LoadKernel has filled memory before any  *)
(* register is set, and nothing writes to memory after it: the image that  *)
(* LoadKernelDoes speaks of is the one that the registers point into.      *)
Loaded(c, i) == Given(c.arch, i.mem, i.argv, c.kernel.progs, c.args)

(* What the call x has given to the guest.                                 *)
Passed(x, c, i, k) ==
  /\ Phase(x.op) > 15 => Loaded(c, i)
  /\ x.op \in {"SET_REGS", "SET_X1"} => k.regs[x.cpu].argc = Len(c.args)
  /\ x.op \in {"SET_REGS", "SET_X2"} => k.regs[x.cpu].argv = i.argv

GInv ==
  /\ image.size.pages \in Nat
  /\ state = "boot" => Memory(image.mem, Len(image.mem))
  /\ Made("LoadKernel") /\ state \in {"boot", "run"} => Loaded(cmd, image)
  /\ \A i \in 1 .. Pos : Passed(Prog[i], cmd, image, kvm)

LEMMA LoadPhase ==
  /\ Phase("LoadKernel") = 15 /\ Phase("mmap_ram") < 15 /\ Phase("SET_GUEST_DEBUG") = 17
  /\ Phase("go") = 17 /\ Phase("mmap_ram") \in Nat
  /\ \A op \in {"SET_REGS", "SET_SREGS"} \cup OneReg : Phase(op) = 16
BY DEF Phase, OneReg

(* Up to LoadKernel nothing is given to the guest.                         *)
LEMMA EarlyPassed ==
  ASSUME NEW x, Phase(x.op) \in Nat, Phase(x.op) <= 15, NEW c, NEW i, NEW k
  PROVE  Passed(x, c, i, k)
<1>1. ~ (Phase(x.op) > 15)
  OBVIOUS
<1>2. x.op \notin {"SET_REGS", "SET_X1", "SET_X2"}
  BY LoadPhase DEF OneReg
<1> QED BY <1>1, <1>2, Zenon DEF Passed

(* The calls up to the next one are of no later phase.                     *)
LEMMA UpToCall ==
  ASSUME Shape, Track, todo # << >>, NEW i \in 1 .. Pos + 1
  PROVE  Phase(Prog[i].op) \in Nat /\ Phase(Prog[i].op) <= Phase(Call.op)
<1>1. /\ Pos + 1 \in 1 .. Len(Prog) /\ Call = Prog[Pos + 1] /\ Pos \in 0 .. Len(Prog)
      /\ Len(Prog) \in Nat
  BY PosFacts, ProgFacts, Zenon DEF Shape
<1>2. i \in 1 .. Len(Prog) /\ (i = Pos + 1 \/ i < Pos + 1)
  BY <1>1
<1>3. Phase(Prog[i].op) \in Nat /\ Phase(Prog[Pos + 1].op) \in Nat
  BY <1>1, <1>2, ProgFacts, Zenon DEF Shape
<1>4. i < Pos + 1 => Phase(Prog[i].op) <= Phase(Prog[Pos + 1].op)
  BY <1>1, <1>2, ProgFacts, Zenon DEF Shape
<1>5. i = Pos + 1 => Phase(Prog[i].op) <= Phase(Prog[Pos + 1].op)
  BY <1>3
<1> QED BY <1>1, <1>2, <1>3, <1>4, <1>5, Zenon

(* A call after LoadKernel finds memory loaded.                            *)
LEMMA LoadedBefore ==
  ASSUME Shape, Track, GInv, state = "boot", todo # << >>, Phase(Call.op) > 15
  PROVE  Loaded(cmd, image)
<1> DEFINE x == Op("LoadKernel", 0)
<1>1. x \in Needed(arch, ncpus) /\ x.op = "LoadKernel"
  BY DEF Needed, Op
<1> HIDE DEF x
<1>2. Pos + 1 \in 1 .. Len(Prog) /\ Call = Prog[Pos + 1] /\ Pos \in 0 .. Len(Prog)
  BY PosFacts, Zenon
<1>3. Phase(x.op) < Phase(Prog[Pos + 1].op)
  BY <1>1, <1>2, LoadPhase
<1>4. PICK j \in 1 .. Len(Prog) : j < Pos + 1 /\ Prog[j] = x
  BY <1>1, <1>2, <1>3, Earlier, Zenon DEF Shape
<1>5. j \in 1 .. Pos
  BY <1>2, <1>4, ProgFacts DEF Shape
<1> QED BY <1>1, <1>4, <1>5, Zenon DEF GInv, Made

(* The registers argc and argv after a call that sets registers.           *)
LEMMA SetRegGives ==
  ASSUME NEW r, RegsShape(r), Call.op \in {"SET_REGS", "SET_SREGS"} \cup OneReg,
         NEW s, s = SetReg(r)
  PROVE  /\ s.argc = IF Call.op \in {"SET_REGS", "SET_X1"} THEN Len(cmd.args) ELSE r.argc
         /\ s.argv = IF Call.op \in {"SET_REGS", "SET_X2"} THEN image.argv ELSE r.argv
<1>1. PICK entry, pages, argc, argv :
        entry = cmd.kernel.entry /\ pages = image.size.pages /\ argc = Len(cmd.args)
        /\ argv = image.argv
  BY Zenon
<1>2. CASE Call.op = "SET_REGS"
  <2>1. s = [r EXCEPT !.pc = entry, !.mem = pages, !.argc = argc, !.argv = argv]
    BY <1>1, <1>2 DEF SetReg, initRegs
  <2>2. s.argc = argc /\ s.argv = argv
    BY <2>1, Zenon DEF RegsShape
  <2> QED BY <1>1, <1>2, <2>2, Zenon
<1>3. CASE Call.op = "SET_SREGS"
  <2> DEFINE z == (((r.cr0 \cup {0}) \ {2}) \cap (0 .. 15)) \cup {1}
  <2>1. s = [r EXCEPT !.cr0 = z, !.cr4 = {9, 10}]
    BY <1>3 DEF SetReg, initSregs
  <2> HIDE DEF z
  <2>2. s.argc = r.argc /\ s.argv = r.argv
    BY <2>1, ZenonT(30) DEF RegsShape
  <2> QED BY <1>3, <2>2, Zenon
<1>4. CASE Call.op \in {"SET_PC", "SET_X0"}
  <2>1. s = [r EXCEPT !.pc = entry] \/ s = [r EXCEPT !.mem = pages]
    BY <1>1, <1>4 DEF SetReg
  <2>2. s.argc = r.argc /\ s.argv = r.argv
    BY <2>1 DEF RegsShape
  <2> QED BY <1>4, <2>2, Zenon
<1>5. CASE Call.op = "SET_X1"
  <2>1. s = [r EXCEPT !.argc = argc]
    BY <1>1, <1>5 DEF SetReg
  <2>2. s.argc = argc /\ s.argv = r.argv
    BY <2>1 DEF RegsShape
  <2> QED BY <1>1, <1>5, <2>2, Zenon
<1>6. CASE Call.op = "SET_X2"
  <2>1. s = [r EXCEPT !.argv = argv]
    BY <1>1, <1>6 DEF SetReg
  <2>2. s.argc = r.argc /\ s.argv = argv
    BY <2>1 DEF RegsShape
  <2> QED BY <1>1, <1>6, <2>2, Zenon
<1> QED BY <1>2, <1>3, <1>4, <1>5, <1>6, Zenon DEF OneReg

(* The steps by what they do to memory and registers.                      *)
LEMMA MemoryStep ==
  ASSUME Shape, [Next]_vars
  PROVE  /\ cmd' = cmd
         /\ MmapRam \/ Load \/ (image'.mem = image.mem /\ image'.argv = image.argv)
         /\ ParseMem \/ image'.size = image.size
<1>1. ImageShape(image)
  BY DEF Shape
<1>2. CASE ParseMem
  <2>1. PICK z : z = parseMem(cmd.mem)
    OBVIOUS
  <2>2. image' = [image EXCEPT !.size = z] /\ cmd' = cmd
    BY <1>2, <2>1 DEF ParseMem, Succeeds, Proceed
  <2> QED BY <1>1, <1>2, <2>2, Zenon DEF ImageShape
<1>3. CASE MmapRam
  <2>1. PICK z : z = [i \in 1 .. Cells(image.size) |-> Zero]
    BY Zenon
  <2>2. image' = [image EXCEPT !.mem = z] /\ cmd' = cmd
    BY <1>3, <2>1 DEF MmapRam, Succeeds, Proceed
  <2> QED BY <1>1, <1>3, <2>2, Zenon DEF ImageShape
<1>4. CASE Load
  <2>1. PICK z, y : image' = [image EXCEPT !.mem = z, !.argv = y]
    BY <1>4, Zenon DEF Load
  <2>2. cmd' = cmd
    BY <1>4 DEF Load, Proceed
  <2> QED BY <1>1, <1>4, <2>1, <2>2, Zenon DEF ImageShape
<1>5. CASE \/ Ask \/ AskPMU \/ OpenKvm \/ CreateVM \/ CreateDevice \/ OpenKernel \/ CreateVCPU
           \/ Fail \/ Collect \/ Ended \/ UNCHANGED vars
  <2>1. cmd' = cmd /\ image' = image
    BY <1>5, Zenon DEF OpenKvm, CreateVM, CreateDevice, CreateVCPU, Makes, Succeeds, Proceed,
           Ask, AskPMU, OpenKernel, Fail, Collect, Ended, vars
  <2> QED BY <2>1, Zenon
<1>6. CASE SetIdentityMapAddr \/ SetupVM \/ SetCPUID2 \/ VcpuInit \/ SetRegs \/ SingleStep \/ Go
  <2>1. cmd' = cmd /\ image' = image
    BY <1>6 DEF SetIdentityMapAddr, SetupVM, SetCPUID2, VcpuInit, SetRegs, SingleStep, Go,
                Succeeds, Proceed
  <2> QED BY <2>1, Zenon
<1> QED BY <1>2, <1>3, <1>4, <1>5, <1>6, Zenon DEF Next

(* main moves on only while it boots, and never boots again.               *)
LEMMA BootStep ==
  ASSUME [Next]_vars
  PROVE  /\ todo' = todo \/ state = "boot"
         /\ state' = "boot" => state = "boot"
         /\ state' \in {"boot", "run"} => state \in {"boot", "run"}
<1>1. ASSUME NEW ops, Calling(ops) PROVE state = "boot"
  BY <1>1 DEF Calling
<1>2. ASSUME NEW ops, Succeeds(ops) PROVE state = "boot"
  BY <1>2 DEF Succeeds, Calling
<1>3. CASE ParseMem \/ MmapRam \/ Ask \/ SetIdentityMapAddr \/ SetupVM \/ SetCPUID2 \/ VcpuInit \/ SetRegs
  <2>1. state = "boot"
    BY <1>2, <1>3 DEF ParseMem, MmapRam, Ask, SetIdentityMapAddr, SetupVM, SetCPUID2, VcpuInit, SetRegs
  <2> QED BY <2>1
<1>4. CASE OpenKvm \/ CreateVM \/ CreateDevice \/ OpenKernel \/ CreateVCPU
  <2>1. state = "boot"
    BY <1>2, <1>4 DEF OpenKvm, CreateVM, CreateDevice, OpenKernel, CreateVCPU, Makes
  <2> QED BY <2>1
<1>5. CASE AskPMU \/ Load \/ SingleStep \/ Go
  <2>1. state = "boot"
    BY <1>1, <1>2, <1>5 DEF AskPMU, Load, SingleStep, Go
  <2> QED BY <2>1
<1>6. CASE Fail
  BY <1>6 DEF Fail
<1>7. CASE Collect \/ Ended \/ UNCHANGED vars
  <2>1. todo' = todo /\ state' = state
    BY <1>7, Zenon DEF Collect, Ended, vars
  <2> QED BY <2>1
<1> QED BY <1>3, <1>4, <1>5, <1>6, <1>7, Zenon DEF Next

(* A call that loads or sets registers is made by its own step.            *)
LEMMA WhichStep ==
  ASSUME Progress
  PROVE  /\ Call.op = "LoadKernel" => Load
         /\ Call.op \in {"SET_REGS", "SET_X1", "SET_X2"} => SetRegs
<1> DEFINE Mine == {"LoadKernel", "SET_REGS", "SET_X1", "SET_X2"}
<1>1. ASSUME NEW ops, Calling(ops) PROVE Call.op \in ops
  BY <1>1, Zenon DEF Calling
<1>2. ASSUME NEW ops, Succeeds(ops) PROVE Call.op \in ops
  BY <1>2, Zenon DEF Succeeds, Calling
<1>3. CASE ParseMem \/ MmapRam \/ Ask \/ SetIdentityMapAddr \/ SetupVM \/ SetCPUID2 \/ VcpuInit
  <2>1. Call.op \notin Mine
    BY <1>2, <1>3 DEF ParseMem, MmapRam, Ask, SetIdentityMapAddr, SetupVM, SetCPUID2, VcpuInit
  <2> QED BY <2>1
<1>4. CASE OpenKvm \/ CreateVM \/ CreateDevice \/ OpenKernel \/ CreateVCPU
  <2>1. Call.op \notin Mine
    BY <1>2, <1>4 DEF OpenKvm, CreateVM, CreateDevice, OpenKernel, CreateVCPU, Makes
  <2> QED BY <2>1
<1>5. CASE AskPMU \/ SingleStep \/ Go
  <2>1. Call.op \in {"CHECK_PMU", "SET_GUEST_DEBUG", "go"}
    BY <1>1, <1>2, <1>5 DEF AskPMU, SingleStep, Go
  <2> QED BY <2>1
<1>6. CASE Load
  <2>1. Call.op = "LoadKernel"
    BY <1>1, <1>6 DEF Load
  <2> QED BY <1>6, <2>1
<1>7. CASE SetRegs
  <2>1. Call.op # "LoadKernel"
    BY <1>2, <1>7 DEF SetRegs, OneReg
  <2> QED BY <1>7, <2>1
<1> QED BY <1>3, <1>4, <1>5, <1>6, <1>7, Zenon DEF Progress

(* What the guest was given stays, and the registers are set.              *)
Keeps ==
  /\ image'.mem = image.mem /\ image'.argv = image.argv
  /\ \A c \in Cpus :
       /\ kvm'.regs[c].argc = kvm.regs[c].argc \/ kvm'.regs[c].argc = Len(cmd.args)
       /\ kvm'.regs[c].argv = kvm.regs[c].argv \/ kvm'.regs[c].argv = image.argv

LEMMA RegsStep ==
  ASSUME Shape, Track, SetRegs
  PROVE  /\ Keeps
         /\ Call.op \in {"SET_REGS", "SET_X1"} => kvm'.regs[Call.cpu].argc = Len(cmd.args)
         /\ Call.op \in {"SET_REGS", "SET_X2"} => kvm'.regs[Call.cpu].argv = image.argv
<1>1. PICK s : s = SetReg(kvm.regs[Call.cpu])
  OBVIOUS
<1> DEFINE f == [kvm.regs EXCEPT ![Call.cpu] = s]
<1>2. /\ kvm' = [kvm EXCEPT !.regs = f] /\ image' = image /\ todo # << >>
      /\ Call.op \in {"SET_REGS", "SET_SREGS"} \cup OneReg
  BY <1>1 DEF SetRegs, Succeeds, Calling
<1>3. Call.cpu \in Cpus
  BY <1>2, PosFacts, ProgFacts DEF ForOne, Cpus, Shape
<1>4. PICK r : r = kvm.regs[Call.cpu] /\ RegsShape(r)
  BY <1>3, Zenon DEF Shape, KvmShape
<1>5. /\ s.argc = IF Call.op \in {"SET_REGS", "SET_X1"} THEN Len(cmd.args) ELSE r.argc
      /\ s.argv = IF Call.op \in {"SET_REGS", "SET_X2"} THEN image.argv ELSE r.argv
  BY <1>1, <1>2, <1>4, SetRegGives, Zenon
<1>6. f[Call.cpu] = s /\ \A c \in Cpus : c # Call.cpu => f[c] = kvm.regs[c]
  <2>1. kvm.regs = [c \in Cpus |-> kvm.regs[c]]
    BY Zenon DEF Shape, KvmShape
  <2> QED BY <1>3, <2>1, Zenon
<1> HIDE DEF f
<1>7. kvm'.regs = f
  BY <1>2 DEF Shape, KvmShape
<1>8. ASSUME NEW c \in Cpus
      PROVE  /\ kvm'.regs[c].argc = kvm.regs[c].argc \/ kvm'.regs[c].argc = Len(cmd.args)
             /\ kvm'.regs[c].argv = kvm.regs[c].argv \/ kvm'.regs[c].argv = image.argv
  <2>1. CASE c = Call.cpu
    BY <1>4, <1>5, <1>6, <1>7, <2>1, Zenon
  <2>2. CASE c # Call.cpu
    BY <1>6, <1>7, <2>2, Zenon
  <2> QED BY <2>1, <2>2, Zenon
<1>9. /\ Call.op \in {"SET_REGS", "SET_X1"} => kvm'.regs[Call.cpu].argc = Len(cmd.args)
      /\ Call.op \in {"SET_REGS", "SET_X2"} => kvm'.regs[Call.cpu].argv = image.argv
  BY <1>5, <1>6, <1>7, Zenon
<1> QED BY <1>2, <1>8, <1>9, Zenon DEF Keeps

LEMMA KeepsStep ==
  ASSUME Shape, Track, [Next]_vars, ~ MmapRam, ~ Load
  PROVE  Keeps
<1>1. CASE SetRegs
  BY <1>1, RegsStep, Zenon
<1>2. CASE ~ SetRegs
  BY <1>2, FieldsStep, MemoryStep, Zenon DEF Keeps
<1> QED BY <1>1, <1>2

LEMMA PassedStays ==
  ASSUME Shape, Keeps, cmd' = cmd, NEW x \in CallsOf(arch, ncpus), Passed(x, cmd, image, kvm)
  PROVE  Passed(x, cmd', image', kvm')
<1>1. x.op \in {"SET_REGS", "SET_X1", "SET_X2"} => x.cpu \in Cpus
  BY ProgFacts DEF Shape, CallsOf, Cpus, ForOne, OneReg
<1>2. Loaded(cmd, image) => Loaded(cmd', image')
  BY Zenon DEF Loaded, Keeps
<1>3. Phase(x.op) > 15 => Loaded(cmd', image')
  BY <1>2, Zenon DEF Passed
<1>4. x.op \in {"SET_REGS", "SET_X1"} => kvm'.regs[x.cpu].argc = Len(cmd'.args)
  BY <1>1, Zenon DEF Passed, Keeps
<1>5. x.op \in {"SET_REGS", "SET_X2"} => kvm'.regs[x.cpu].argv = image'.argv
  BY <1>1, Zenon DEF Passed, Keeps
<1> QED BY <1>3, <1>4, <1>5, Zenon DEF Passed

(* The calls of a step that leaves memory alone have given what they give. *)
LEMMA PassedAgain ==
  ASSUME Shape, Track, GInv, [Next]_vars, ~ MmapRam, ~ Load
  PROVE  /\ \A i \in 1 .. Pos' : Passed(Prog'[i], cmd', image', kvm')
         /\ (\E i \in 1 .. Pos' : Prog'[i].op = "LoadKernel") => Made("LoadKernel")
<1> SUFFICES ASSUME NEW i \in 1 .. Pos'
             PROVE  /\ Passed(Prog'[i], cmd', image', kvm')
                    /\ Prog'[i].op = "LoadKernel" => Made("LoadKernel")
  BY Zenon
<1>1. /\ Prog' = Prog /\ Pos \in 0 .. Len(Prog) /\ Pos' \in 0 .. Len(Prog) /\ Pos <= Pos'
      /\ \/ Pos' = Pos
         \/ Progress /\ todo # << >> /\ Pos' = Pos + 1
         \/ /\ todo # << >>
            /\ \A j \in Pos + 1 .. Pos' : Prog[j].op = "SET_GUEST_DEBUG"
  BY Moves, Zenon
<1>2. Len(Prog) \in Nat /\ i \in 1 .. Len(Prog) /\ Prog[i] \in CallsOf(arch, ncpus)
  BY <1>1, ProgFacts DEF Shape
<1>3. Keeps /\ cmd' = cmd
  BY KeepsStep, MemoryStep, Zenon
<1>4. CASE i \in 1 .. Pos
  <2>1. Passed(Prog[i], cmd, image, kvm)
    BY <1>4, Zenon DEF GInv
  <2>2. Passed(Prog[i], cmd', image', kvm')
    BY <1>2, <1>3, <2>1, PassedStays, Zenon
  <2> QED BY <1>1, <1>4, <2>2, Zenon DEF Made
<1>5. CASE i \notin 1 .. Pos
  <2>1. i \in Pos + 1 .. Pos' /\ Pos' # Pos /\ (Pos' = Pos + 1 => i = Pos + 1)
        /\ Pos + 1 \in Pos + 1 .. Pos'
    BY <1>1, <1>2, <1>5
  <2>2. state = "boot" /\ todo # << >>
    <3>1. todo' # todo
      BY <1>1, <2>1, Zenon DEF Pos
    <3> QED BY <1>1, <2>1, <3>1, BootStep, Zenon
  <2>3. Call = Prog[Pos + 1] /\ Phase(Call.op) \in Nat
    <3>1. Pos + 1 \in 1 .. Len(Prog) /\ Call = Prog[Pos + 1]
      BY <2>2, PosFacts, Zenon
    <3> QED BY <3>1, ProgFacts, Zenon DEF Shape
  <2>4. Phase(Call.op) > 15 => Loaded(cmd', image')
    <3>1. Phase(Call.op) > 15 => Loaded(cmd, image)
      BY <2>2, LoadedBefore, Zenon
    <3> QED BY <1>3, <3>1, Zenon DEF Loaded, Keeps
  <2>5. CASE Progress /\ Pos' = Pos + 1
    <3>1. Prog'[i] = Call
      BY <1>1, <2>1, <2>3, <2>5, Zenon
    <3>2. Call.op # "LoadKernel"
      BY <2>5, WhichStep, Zenon
    <3>3. /\ Call.op \in {"SET_REGS", "SET_X1"} => kvm'.regs[Call.cpu].argc = Len(cmd'.args)
          /\ Call.op \in {"SET_REGS", "SET_X2"} => kvm'.regs[Call.cpu].argv = image'.argv
      <4>1. CASE Call.op \in {"SET_REGS", "SET_X1", "SET_X2"}
        <5>1. SetRegs
          BY <2>5, <4>1, WhichStep, Zenon
        <5> QED BY <1>3, <5>1, RegsStep, Zenon DEF Keeps
      <4>2. CASE Call.op \notin {"SET_REGS", "SET_X1", "SET_X2"}
        BY <4>2, Zenon
      <4> QED BY <4>1, <4>2, Zenon
    <3>4. Passed(Call, cmd', image', kvm')
      BY <2>4, <3>3, Zenon DEF Passed
    <3> QED BY <3>1, <3>2, <3>4, Zenon
  <2>6. CASE \A j \in Pos + 1 .. Pos' : Prog[j].op = "SET_GUEST_DEBUG"
    <3>1. Prog'[i].op = "SET_GUEST_DEBUG" /\ Call.op = "SET_GUEST_DEBUG"
      BY <1>1, <2>1, <2>3, <2>6, Zenon
    <3>2. Loaded(cmd', image')
      BY <2>4, <3>1, LoadPhase
    <3>3. Passed(Prog'[i], cmd', image', kvm')
      BY <3>1, <3>2, Zenon DEF Passed
    <3> QED BY <3>1, <3>3, Zenon
  <2> QED BY <1>1, <2>1, <2>5, <2>6, Zenon
<1> QED BY <1>4, <1>5

(* Up to LoadKernel a step may change memory as it likes.                  *)
LEMMA EarlyStep ==
  ASSUME Shape, Track, [Next]_vars, todo # << >>, Phase(Call.op) <= 15, Pos' \in Pos .. Pos + 1
  PROVE  /\ \A i \in 1 .. Pos' : Passed(Prog'[i], cmd', image', kvm')
         /\ Phase(Call.op) < 15 => ~ \E i \in 1 .. Pos' : Prog'[i].op = "LoadKernel"
<1> SUFFICES ASSUME NEW i \in 1 .. Pos'
             PROVE  /\ Passed(Prog'[i], cmd', image', kvm')
                    /\ Phase(Call.op) < 15 => Prog'[i].op # "LoadKernel"
  BY Zenon
<1>1. Prog' = Prog /\ Pos \in Nat
  BY Moves, ProgFacts DEF Shape
<1>2. i \in 1 .. Pos + 1
  BY <1>1
<1>3. Phase(Prog[i].op) \in Nat /\ Phase(Prog[i].op) <= Phase(Call.op) /\ Phase(Call.op) \in Nat
  <2>1. Pos + 1 \in 1 .. Pos + 1 /\ Call = Prog[Pos + 1]
    BY <1>1, PosFacts
  <2> QED BY <1>2, <2>1, UpToCall, Zenon
<1>4. Phase(Prog[i].op) <= 15
  BY <1>3
<1>5. Phase(Call.op) < 15 => Prog[i].op # "LoadKernel"
  BY <1>3, LoadPhase
<1> QED BY <1>1, <1>3, <1>4, <1>5, EarlyPassed, Zenon

LEMMA ParsedPages ==
  ASSUME NEW c \in Commands, CanParse(c.mem)
  PROVE  parseMem(c.mem).pages \in Nat
<1>1. c.mem.num \in Nat /\ c.mem.mod \in {"G", "M", "K", "B"}
  BY LaunchConstants DEF CanParse
<1>2. PICK n \in Nat : n = c.mem.num
  BY <1>1
<1>3. n * 262144 \in Nat /\ n * 256 \in Nat /\ n \div 4 \in Nat /\ n \div 4096 \in Nat
  OBVIOUS
<1>4. \A p, r : Size(p, r).pages = p
  BY Zenon DEF Size
<1> QED BY <1>1, <1>2, <1>3, <1>4 DEF parseMem

LEMMA MmapMemory ==
  ASSUME Shape, image.size.pages \in Nat, MmapRam
  PROVE  Memory(image'.mem, Len(image'.mem))
<1>1. PICK n \in Nat : n = Cells(image.size)
  <2>1. image.size.pages * CellsPerPage \in Nat /\ Window \in Nat
    BY LaunchConstants
  <2> QED BY <2>1 DEF Cells, Smaller
<1>2. PICK z : z = [i \in 1 .. n |-> Zero]
  BY Zenon
<1>3. image' = [image EXCEPT !.mem = z]
  BY <1>1, <1>2, Zenon DEF MmapRam
<1>4. image'.mem = z
  BY <1>3 DEF Shape, ImageShape
<1>5. z = [i \in 1 .. n |-> z[i]]
  BY <1>2, Zenon
<1>6. Len(z) = n
  BY <1>5, FunctionLen
<1> QED BY <1>4, <1>5, <1>6, Zenon DEF Memory

LEMMA LoadMemory ==
  ASSUME Shape, Memory(image.mem, Len(image.mem)), Load
  PROVE  /\ Memory(image'.mem, Len(image'.mem))
         /\ state' \in {"boot", "run"} => Loaded(cmd', image')
<1>1. PICK l : l = LoadKernel(arch, image.mem, cmd.kernel.progs, cmd.args)
  OBVIOUS
<1>2. /\ image' = [image EXCEPT !.mem = l.mem, !.argv = l.argv] /\ cmd' = cmd
      /\ l.status # "ok" => state' \in {"failed", "panic"}
  BY <1>1 DEF Load, Proceed
<1>3. cmd \in Commands /\ cmd.kernel.progs \in Seq(Segments) /\ cmd.args \in Seq(Nat)
  BY LaunchConstants, Zenon DEF Shape
<1>4. PICK n : n = Len(image.mem) /\ Memory(image.mem, n)
  BY Zenon
<1>5. /\ Memory(l.mem, n)
      /\ l.status = "ok" => Given(arch, l.mem, l.argv, cmd.kernel.progs, cmd.args)
  BY <1>1, <1>3, <1>4, LoadKernelDoes, Zenon
<1>6. image'.mem = l.mem /\ image'.argv = l.argv
  BY <1>2, Zenon DEF Shape, ImageShape
<1>7. Memory(image'.mem, Len(image'.mem))
  BY <1>5, <1>6, Zenon DEF Memory
<1>8. l.status = "ok" => Loaded(cmd', image')
  BY <1>2, <1>5, <1>6, Zenon DEF Loaded, arch
<1> QED BY <1>2, <1>7, <1>8

LEMMA GInvStep == OInv /\ GInv /\ [Next]_vars => GInv'
<1> SUFFICES ASSUME OInv, GInv, [Next]_vars PROVE GInv'
  OBVIOUS
<1>1. Shape /\ Track
  BY Zenon DEF OInv
<1>2. image'.size.pages \in Nat
  <2>1. CASE ParseMem
    <3>1. PICK z : z = parseMem(cmd.mem)
      OBVIOUS
    <3>2. image' = [image EXCEPT !.size = z] /\ Call.op = "parseMem" /\ GoodInput(Call)
      BY <2>1, <3>1 DEF ParseMem, Succeeds, Calling
    <3>3. z.pages \in Nat
      BY <1>1, <3>1, <3>2, ParsedPages, Zenon DEF Shape, GoodInput
    <3>4. image'.size = z
      BY <1>1, <3>2, Zenon DEF Shape, ImageShape
    <3> QED BY <3>3, <3>4, Zenon
  <2>2. CASE image'.size = image.size
    BY <2>2, Zenon DEF GInv
  <2> QED BY <1>1, <2>1, <2>2, MemoryStep, Zenon
<1> SUFFICES /\ state' = "boot" => Memory(image'.mem, Len(image'.mem))
             /\ (\E i \in 1 .. Pos' : Prog'[i].op = "LoadKernel") /\ state' \in {"boot", "run"} =>
                  Loaded(cmd', image')
             /\ \A i \in 1 .. Pos' : Passed(Prog'[i], cmd', image', kvm')
  BY <1>2, Zenon DEF GInv, Made
<1>3. CASE MmapRam
  <2>1. todo # << >> /\ Call.op = "mmap_ram" /\ todo' = Tail(todo) /\ cmd' = cmd
    BY <1>3 DEF MmapRam, Succeeds, Calling, Proceed
  <2>2. Pos' \in Pos .. Pos + 1
    BY <1>1, <2>1, Advance, PosFacts
  <2>3. Phase(Call.op) < 15 /\ Phase(Call.op) <= 15
    BY <2>1, LoadPhase
  <2>4. /\ \A i \in 1 .. Pos' : Passed(Prog'[i], cmd', image', kvm')
        /\ ~ \E i \in 1 .. Pos' : Prog'[i].op = "LoadKernel"
    BY <1>1, <2>1, <2>2, <2>3, EarlyStep, Zenon
  <2>5. Memory(image'.mem, Len(image'.mem))
    BY <1>1, <1>3, MmapMemory, Zenon DEF GInv
  <2> QED BY <2>4, <2>5, Zenon
<1>4. CASE Load
  <2>1. todo # << >> /\ Call.op = "LoadKernel" /\ state = "boot" /\ cmd' = cmd
        /\ (todo' = Tail(todo) \/ todo' = todo)
    BY <1>4 DEF Load, Calling, Proceed
  <2>2. Pos' \in Pos .. Pos + 1
    BY <1>1, <2>1, Advance, Stays, PosFacts
  <2>3. Phase(Call.op) <= 15
    BY <2>1, LoadPhase
  <2>4. \A i \in 1 .. Pos' : Passed(Prog'[i], cmd', image', kvm')
    BY <1>1, <2>1, <2>2, <2>3, EarlyStep, Zenon
  <2>5. /\ Memory(image'.mem, Len(image'.mem))
        /\ state' \in {"boot", "run"} => Loaded(cmd', image')
    BY <1>1, <1>4, <2>1, LoadMemory, Zenon DEF GInv
  <2> QED BY <2>4, <2>5, Zenon
<1>5. CASE ~ MmapRam /\ ~ Load
  <2>1. /\ \A i \in 1 .. Pos' : Passed(Prog'[i], cmd', image', kvm')
        /\ (\E i \in 1 .. Pos' : Prog'[i].op = "LoadKernel") => Made("LoadKernel")
    BY <1>1, <1>5, PassedAgain, Zenon
  <2>2. Keeps /\ cmd' = cmd
    BY <1>1, <1>5, KeepsStep, MemoryStep, Zenon
  <2>3. Loaded(cmd, image) => Loaded(cmd', image')
    BY <2>2, Zenon DEF Loaded, Keeps
  <2>4. Made("LoadKernel") /\ state' \in {"boot", "run"} => Loaded(cmd', image')
    BY <2>3, BootStep, Zenon DEF GInv
  <2>5. state' = "boot" => Memory(image'.mem, Len(image'.mem))
    BY <2>2, BootStep, Zenon DEF GInv, Keeps
  <2> QED BY <2>1, <2>4, <2>5, Zenon
<1> QED BY <1>3, <1>4, <1>5, Zenon

LEMMA GInvInit == Init => GInv
<1> SUFFICES ASSUME Init PROVE GInv
  OBVIOUS
<1>1. image.size.pages = 0 /\ image.mem = << >>
  BY DEF Init, NoSize, Size
<1>2. Memory(image.mem, Len(image.mem))
  BY <1>1 DEF Memory
<1>3. todo = Prog /\ Len(Prog) \in Nat
  BY OInvInit, ProgFacts, Zenon DEF OInv, Shape, Init, Prog
<1>4. Pos = 0
  BY <1>3 DEF Pos
<1>5. ~ \E i \in 1 .. Pos : TRUE
  BY <1>4
<1>6. image.size.pages \in Nat
  BY <1>1
<1> QED BY <1>2, <1>5, <1>6, Zenon DEF GInv, Made

(* A vCPU that runs has its registers from calls that came after LoadKernel. *)
LEMMA RunsLoaded ==
  ASSUME OInv, GInv, NEW c \in kvm.running
  PROVE  /\ Loaded(cmd, image)
         /\ kvm.regs[c].argc = Len(cmd.args) /\ kvm.regs[c].argv = image.argv
<1>1. PICK i \in 1 .. Pos : Prog[i].op = "go"
  BY Zenon DEF OInv, Effects, Made
<1>2. /\ cmd \in Commands /\ Pos \in 0 .. Len(Prog) /\ Len(Prog) \in Nat
      /\ arch \in Archs /\ c \in 1 .. ncpus
  <2>1. Shape /\ Track /\ cmd \in Commands
    BY Zenon DEF OInv, Shape
  <2> QED BY <2>1, PosFacts, ProgFacts, Zenon DEF OInv, Outcome
<1>3. i \in 1 .. Len(Prog)
  BY <1>1, <1>2
<1>4. Loaded(cmd, image)
  <2>1. Passed(Prog[i], cmd, image, kvm)
    BY <1>1, Zenon DEF GInv
  <2>2. Phase(Prog[i].op) > 15
    BY <1>1, LoadPhase
  <2> QED BY <2>1, <2>2, Zenon DEF Passed
<1>5. ASSUME NEW y \in {"SET_REGS", "SET_X1", "SET_X2"}, Op(y, c) \in Needed(arch, ncpus)
      PROVE  /\ y \in {"SET_REGS", "SET_X1"} => kvm.regs[c].argc = Len(cmd.args)
             /\ y \in {"SET_REGS", "SET_X2"} => kvm.regs[c].argv = image.argv
  <2>1. PICK x \in Needed(arch, ncpus) : x = Op(y, c)
    BY <1>5
  <2>2. x.op = y /\ x.cpu = c
    BY <2>1, Zenon DEF Op
  <2>3. Phase(x.op) < Phase(Prog[i].op)
    BY <1>1, <2>2, LoadPhase DEF OneReg
  <2>4. PICK j \in 1 .. Len(Prog) : j < i /\ Prog[j] = x
    BY <1>2, <1>3, <2>3, Earlier, Zenon
  <2>5. j \in 1 .. Pos
    BY <1>1, <1>2, <2>4
  <2>6. Passed(x, cmd, image, kvm)
    BY <2>4, <2>5, Zenon DEF GInv
  <2> QED BY <2>2, <2>6, Zenon DEF Passed
<1>6. CASE arch = "amd64"
  <2>1. Op("SET_REGS", c) \in Needed(arch, ncpus)
    BY <1>2, <1>6 DEF Needed
  <2> QED BY <1>4, <1>5, <2>1, Zenon
<1>7. CASE arch = "arm64"
  <2>1. Op("SET_X1", c) \in Needed(arch, ncpus) /\ Op("SET_X2", c) \in Needed(arch, ncpus)
    BY <1>2, <1>7 DEF Needed
  <2> QED BY <1>4, <1>5, <2>1, Zenon
<1> QED BY <1>2, <1>6, <1>7 DEF Archs

(* For every kernel, command line, size of memory and number of vCPUs, a   *)
(* vCPU that runs finds the arguments of the command line, in order and    *)
(* each with its zero byte, through the argc and argv in its registers:    *)
(* WriteAt, SetupRegs and the kernel's mapping of memory agree.            *)
THEOREM ArgsReachGuest == Spec => []GuestGetsArgs
<1>1. OInv /\ GInv => GuestGetsArgs
  <2> SUFFICES ASSUME OInv, GInv, NEW c \in kvm.running
               PROVE  ReadsArgs(image.mem, kvm.regs[c].argc, kvm.regs[c].argv, cmd.args)
    BY Zenon DEF GuestGetsArgs
  <2> QED BY RunsLoaded, Zenon DEF Loaded, Given
<1> QED BY <1>1, HInitInv, HNextInv, OInvInit, OInvStep, GInvInit, GInvStep, PTL DEF Spec

(* For every kernel that is linked from physKernBase upwards, whatever its *)
(* segments, LoadKernel leaves every one as the file has it: neither the   *)
(* bss of another segment nor the arguments below the kernel run into it,  *)
(* and nothing writes to memory before the vCPUs start.                    *)
THEOREM KernelStaysIntact == Spec => []KernelIntact
<1>1. OInv /\ GInv => KernelIntact
  <2> SUFFICES ASSUME OInv, GInv, NEW c \in kvm.running PROVE KernelIntact
    BY Zenon DEF KernelIntact
  <2> QED BY RunsLoaded, Zenon DEF Loaded, Given, KernelIntact, arch
<1> QED BY <1>1, HInitInv, HNextInv, OInvInit, OInvStep, GInvInit, GInvStep, PTL DEF Spec
=============================================================================
