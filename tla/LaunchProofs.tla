---------------------------- MODULE LaunchProofs ----------------------------
(***************************************************************************)
(* Proofs about Launch, for every set of commands, kernels and hosts, and  *)
(* whenever the garbage collector runs.  The first part is about main's    *)
(* program alone, the sequence of calls Main(c): it goes through phases,   *)
(* and has every call that a machine cannot do without.                    *)
(***************************************************************************)
EXTENDS Launch, TLAPS

USE SMTT(60)

(* Sequences.                                                              *)
LEMMA SeqOfFunction ==
  ASSUME NEW S, NEW n \in Nat, NEW f \in [1 .. n -> S]
  PROVE  f \in Seq(S) /\ Len(f) = n
OBVIOUS

LEMMA SeqWiden == ASSUME NEW S, NEW T, S \subseteq T, NEW s \in Seq(S) PROVE s \in Seq(T)
OBVIOUS

LEMMA SeqElement == ASSUME NEW S, NEW s \in Seq(S), NEW i \in 1 .. Len(s) PROVE s[i] \in S
OBVIOUS

LEMMA SeqLen ==
  ASSUME NEW S, NEW s \in Seq(S)
  PROVE  Len(s) \in Nat /\ DOMAIN s = 1 .. Len(s) /\ s \in [1 .. Len(s) -> S]
OBVIOUS

LEMMA SeqEmpty ==
  ASSUME NEW S
  PROVE  << >> \in Seq(S) /\ Len(<< >>) = 0 /\ \A s \in Seq(S) : s # << >> => Len(s) \in Nat \ {0}
OBVIOUS

LEMMA SeqSame ==
  ASSUME NEW S, NEW s \in Seq(S), NEW t \in Seq(S), Len(t) = Len(s),
         \A i \in 1 .. Len(s) : t[i] = s[i]
  PROVE  s = t
OBVIOUS

LEMMA SeqConcat ==
  ASSUME NEW S, NEW s \in Seq(S), NEW t \in Seq(S)
  PROVE  /\ s \o t \in Seq(S) /\ Len(s \o t) = Len(s) + Len(t)
         /\ \A i \in 1 .. Len(s) + Len(t) :
              (s \o t)[i] = IF i <= Len(s) THEN s[i] ELSE t[i - Len(s)]
OBVIOUS

LEMMA SeqAppend ==
  ASSUME NEW S, NEW s \in Seq(S), NEW e \in S
  PROVE  /\ Append(s, e) \in Seq(S) /\ Len(Append(s, e)) = Len(s) + 1
         /\ Append(s, e)[Len(s) + 1] = e
         /\ \A i \in 1 .. Len(s) : Append(s, e)[i] = s[i]
OBVIOUS

LEMMA SeqHeadTail ==
  ASSUME NEW S, NEW s \in Seq(S), s # << >>
  PROVE  /\ Head(s) \in S /\ Tail(s) \in Seq(S) /\ Len(Tail(s)) = Len(s) - 1
         /\ \A i \in 1 .. Len(Tail(s)) : Tail(s)[i] = s[i + 1]
OBVIOUS

LEMMA SeqSub ==
  ASSUME NEW S, NEW s, NEW k \in Int, NEW n \in Int, \A i \in k .. n : s[i] \in S
  PROVE  /\ SubSeq(s, k, n) \in Seq(S)
         /\ Len(SubSeq(s, k, n)) = IF k <= n THEN n - k + 1 ELSE 0
         /\ \A i \in 1 .. n - k + 1 : SubSeq(s, k, n)[i] = s[k + i - 1]
OBVIOUS
-----------------------------------------------------------------------------
(* The phase of a call.                                                    *)
Phase(op) ==
  CASE op = "parseMem" -> 0
    [] op = "open" -> 1
    [] op = "GET_API_VERSION" -> 2
    [] op \in {"CHECK_EXTENSION", "CREATE_VM"} -> 3
    [] op \in {"mmap_ram", "mmap_sys"} -> 4
    [] op \in {"SET_IDENTITY_MAP_ADDR", "SET_TSS_ADDR"} -> 5
    [] op = "GET_VCPU_MMAP_SIZE" -> 6
    [] op \in {"CREATE_IRQCHIP", "CREATE_DEVICE", "SET_DIST_ADDR", "SET_REDIST_ADDR"} -> 7
    [] op = "CREATE_PIT2" -> 8
    [] op \in {"CREATE_VCPU", "mmap"} -> 9
    [] op \in {"PREFERRED_TARGET", "CHECK_PMU"} -> 10
    [] op \in {"GET_SUPPORTED_CPUID", "SET_CPUID2", "VCPU_INIT"} -> 11
    [] op \in {"SET_RAM", "SET_SYS"} -> 12
    [] op = "VGIC_INIT" -> 13
    [] op = "open_kernel" -> 14
    [] op = "LoadKernel" -> 15
    [] op \in {"GET_REGS", "SET_REGS", "GET_SREGS", "SET_SREGS"} \cup OneReg -> 16
    [] op \in {"SET_GUEST_DEBUG", "go"} -> 17

(* The calls of each machine, and those that are for one vCPU.             *)
OnAmd64 == {"SET_IDENTITY_MAP_ADDR", "SET_TSS_ADDR", "CREATE_IRQCHIP", "CREATE_PIT2",
            "GET_SUPPORTED_CPUID", "SET_CPUID2", "GET_REGS", "SET_REGS", "GET_SREGS", "SET_SREGS"}
OnArm64 == {"CHECK_EXTENSION", "CREATE_DEVICE", "SET_DIST_ADDR", "SET_REDIST_ADDR",
            "PREFERRED_TARGET", "CHECK_PMU", "VCPU_INIT", "VGIC_INIT"} \cup OneReg
OnBoth == {"parseMem", "open", "GET_API_VERSION", "CREATE_VM", "mmap_ram", "mmap_sys",
           "GET_VCPU_MMAP_SIZE", "CREATE_VCPU", "mmap", "SET_RAM", "SET_SYS", "open_kernel",
           "LoadKernel", "SET_GUEST_DEBUG", "go"}
ForOne == {"CREATE_VCPU", "mmap", "GET_SUPPORTED_CPUID", "SET_CPUID2", "VCPU_INIT", "GET_REGS",
           "SET_REGS", "GET_SREGS", "SET_SREGS", "SET_GUEST_DEBUG", "go"} \cup OneReg

OpsOf(a) == OnBoth \cup (IF a = "amd64" THEN OnAmd64 ELSE OnArm64)

CallsOf(a, n) == {x \in [op : OpsOf(a), cpu : 0 .. n] : x.op \in ForOne => x.cpu # 0}

(* A piece of program of the phases lo to hi: phases and the numbers of    *)
(* new vCPUs only grow, a CPUID table is asked for before it is set, and a *)
(* goroutine is started after single-stepping is switched.                 *)
Piece(s, a, n, lo, hi) ==
  /\ s \in Seq(CallsOf(a, n))
  /\ \A i \in 1 .. Len(s) : lo <= Phase(s[i].op) /\ Phase(s[i].op) <= hi
  /\ \A i, j \in 1 .. Len(s) : i < j =>
       /\ Phase(s[i].op) <= Phase(s[j].op)
       /\ s[i].op = "CREATE_VCPU" /\ s[j].op = "CREATE_VCPU" => s[i].cpu < s[j].cpu
  /\ \A i \in 1 .. Len(s) : s[i].op = "SET_CPUID2" =>
       \E j \in 1 .. Len(s) : j < i /\ s[j].op = "GET_SUPPORTED_CPUID"
  /\ \A i \in 1 .. Len(s) : s[i].op = "SET_GUEST_DEBUG" =>
       \E j \in 1 .. Len(s) : i < j /\ s[j].op = "go"

Has(s, x) == \E i \in 1 .. Len(s) : s[i] = x
-----------------------------------------------------------------------------
LEMMA PhaseType == \A a \in Archs : \A op \in OpsOf(a) : Phase(op) \in 0 .. 17
BY DEF Phase, Archs, OpsOf, OnBoth, OnAmd64, OnArm64, OneReg

LEMMA Joined ==
  ASSUME NEW a \in Archs, NEW n \in Nat, NEW s, NEW t,
         NEW l1 \in Nat, NEW h1 \in Nat, NEW l2 \in Nat, NEW h2 \in Nat,
         Piece(s, a, n, l1, h1), Piece(t, a, n, l2, h2), l1 <= h1, h1 < l2, l2 <= h2
  PROVE  /\ Piece(s \o t, a, n, l1, h2)
         /\ \A x : Has(s \o t, x) <=> Has(s, x) \/ Has(t, x)
<1> DEFINE S == CallsOf(a, n)
           u == s \o t
<1>1. s \in Seq(S) /\ t \in Seq(S) /\ Len(s) \in Nat /\ Len(t) \in Nat
  BY SeqLen DEF Piece
<1>2. /\ u \in Seq(S) /\ Len(u) = Len(s) + Len(t)
      /\ \A i \in 1 .. Len(s) : u[i] = s[i]
      /\ \A i \in 1 .. Len(t) : u[Len(s) + i] = t[i]
      /\ \A i \in 1 .. Len(u) :
           \/ i \in 1 .. Len(s) /\ u[i] = s[i]
           \/ i > Len(s) /\ i - Len(s) \in 1 .. Len(t) /\ u[i] = t[i - Len(s)]
  BY <1>1, SeqConcat
<1>3. \A x \in S : Phase(x.op) \in Nat
  BY PhaseType DEF CallsOf
<1> HIDE DEF S, u
<1>4. /\ \A i \in 1 .. Len(s) : s[i] \in S
      /\ \A i \in 1 .. Len(t) : t[i] \in S
  BY <1>1, SeqElement
<1>5. \A x : Has(u, x) <=> Has(s, x) \/ Has(t, x)
  <2> TAKE x
  <2>1. ASSUME NEW i \in 1 .. Len(u), u[i] = x PROVE Has(s, x) \/ Has(t, x)
    BY <1>2, <2>1, Zenon DEF Has
  <2>2. ASSUME NEW i \in 1 .. Len(s), s[i] = x PROVE Has(u, x)
    <3>1. i \in 1 .. Len(u)
      BY <1>1, <1>2
    <3> QED BY <1>2, <2>2, <3>1 DEF Has
  <2>3. ASSUME NEW i \in 1 .. Len(t), t[i] = x PROVE Has(u, x)
    <3>1. Len(s) + i \in 1 .. Len(u)
      BY <1>1, <1>2
    <3> QED BY <1>2, <2>3, <3>1, Zenon DEF Has
  <2> QED BY <2>1, <2>2, <2>3 DEF Has
<1>b. /\ \A i \in 1 .. Len(s) :
           l1 <= Phase(s[i].op) /\ Phase(s[i].op) <= h1 /\ Phase(s[i].op) \in Nat
      /\ \A i \in 1 .. Len(t) :
           l2 <= Phase(t[i].op) /\ Phase(t[i].op) <= h2 /\ Phase(t[i].op) \in Nat
  BY <1>3, <1>4 DEF Piece
<1>c. Len(u) = Len(s) + Len(t)
  BY <1>2
<1>d. \A i \in 1 .. Len(u) :
        \/ i \in 1 .. Len(s) /\ u[i] = s[i]
        \/ i > Len(s) /\ i - Len(s) \in 1 .. Len(t) /\ u[i] = t[i - Len(s)]
  BY <1>2, Zenon
<1>e. \A i \in 1 .. Len(s) : i \in 1 .. Len(u) /\ u[i] = s[i]
  <2>1. 1 .. Len(s) \subseteq 1 .. Len(u)
    BY <1>1, <1>c
  <2> QED BY <1>2, <2>1, Zenon
<1>f. \A i \in 1 .. Len(t) : Len(s) + i \in 1 .. Len(u) /\ u[Len(s) + i] = t[i]
  <2>1. \A i \in 1 .. Len(t) : Len(s) + i \in 1 .. Len(u)
    BY <1>1, <1>c
  <2> QED BY <1>2, <2>1, Zenon
<1>g. \A i \in 1 .. Len(u) : i \in 1 .. Len(s) \/ i > Len(s)
  BY <1>1, <1>c
<1>6. ASSUME NEW i \in 1 .. Len(u)
      PROVE  l1 <= Phase(u[i].op) /\ Phase(u[i].op) <= h2
  <2>1. CASE i \in 1 .. Len(s) /\ u[i] = s[i]
    <3>1. l1 <= Phase(s[i].op) /\ Phase(s[i].op) <= h1 /\ Phase(s[i].op) \in Nat
      BY <1>b, <2>1, Zenon
    <3>2. l1 <= Phase(s[i].op) /\ Phase(s[i].op) <= h2
      BY <3>1
    <3> QED BY <2>1, <3>2, Zenon
  <2>2. CASE i - Len(s) \in 1 .. Len(t) /\ u[i] = t[i - Len(s)]
    <3> DEFINE k == i - Len(s)
    <3>1. k \in 1 .. Len(t) /\ u[i] = t[k]
      BY <2>2, Zenon
    <3> HIDE DEF k
    <3>2. l2 <= Phase(t[k].op) /\ Phase(t[k].op) <= h2 /\ Phase(t[k].op) \in Nat
      BY <1>b, <3>1, Zenon
    <3>3. l1 <= Phase(t[k].op) /\ Phase(t[k].op) <= h2
      BY <3>2
    <3> QED BY <3>1, <3>3, Zenon
  <2> QED BY <1>d, <2>1, <2>2, Zenon
<1>7. ASSUME NEW i \in 1 .. Len(u), NEW j \in 1 .. Len(u), i < j
      PROVE  /\ Phase(u[i].op) <= Phase(u[j].op)
             /\ u[i].op = "CREATE_VCPU" /\ u[j].op = "CREATE_VCPU" => u[i].cpu < u[j].cpu
  <2>0. /\ \/ i \in 1 .. Len(s) /\ u[i] = s[i]
           \/ i > Len(s) /\ i - Len(s) \in 1 .. Len(t) /\ u[i] = t[i - Len(s)]
        /\ \/ j \in 1 .. Len(s) /\ u[j] = s[j]
           \/ j > Len(s) /\ j - Len(s) \in 1 .. Len(t) /\ u[j] = t[j - Len(s)]
    BY <1>d, Zenon
  <2>1. CASE i \in 1 .. Len(s) /\ j \in 1 .. Len(s)
    <3>1. u[i] = s[i] /\ u[j] = s[j]
      BY <1>e, <2>1, Zenon
    <3> QED BY <1>7, <2>1, <3>1, Zenon DEF Piece
  <2>2. CASE i \in 1 .. Len(s) /\ j > Len(s)
    <3> DEFINE k == j - Len(s)
    <3>1. u[i] = s[i]
      BY <1>e, <2>2, Zenon
    <3>2. k \in 1 .. Len(t) /\ u[j] = t[k]
      BY <1>1, <2>0, <2>2
    <3> HIDE DEF k
    <3>3. Phase(s[i].op) \in Nat /\ Phase(s[i].op) <= h1
      BY <1>b, <2>2, Zenon
    <3>4. Phase(t[k].op) \in Nat /\ l2 <= Phase(t[k].op)
      BY <1>b, <3>2, Zenon
    <3>5. Phase(s[i].op) <= Phase(t[k].op) /\ Phase(s[i].op) # Phase(t[k].op)
      BY <3>3, <3>4
    <3>6. s[i].op # t[k].op
      BY <3>5, Zenon
    <3> QED BY <3>1, <3>2, <3>5, <3>6, Zenon
  <2>3. CASE i > Len(s) /\ j > Len(s)
    <3> DEFINE k == i - Len(s)
               l == j - Len(s)
    <3>1. k \in 1 .. Len(t) /\ u[i] = t[k] /\ l \in 1 .. Len(t) /\ u[j] = t[l]
      BY <1>1, <2>0, <2>3
    <3>2. k < l
      BY <1>1, <1>7
    <3> HIDE DEF k, l
    <3>3. /\ Phase(t[k].op) <= Phase(t[l].op)
          /\ t[k].op = "CREATE_VCPU" /\ t[l].op = "CREATE_VCPU" => t[k].cpu < t[l].cpu
      BY <3>1, <3>2 DEF Piece
    <3> QED BY <3>1, <3>3, Zenon
  <2>4. CASE i > Len(s) /\ j \in 1 .. Len(s)
    BY <1>1, <1>7, <2>4
  <2> QED BY <2>0, <2>1, <2>2, <2>3, <2>4, Zenon
<1>8. ASSUME NEW i \in 1 .. Len(u), u[i].op = "SET_CPUID2"
      PROVE  \E j \in 1 .. Len(u) : j < i /\ u[j].op = "GET_SUPPORTED_CPUID"
  <2>1. CASE i \in 1 .. Len(s)
    <3>1. PICK j \in 1 .. Len(s) : j < i /\ s[j].op = "GET_SUPPORTED_CPUID"
      BY <1>2, <1>8, <2>1, Zenon DEF Piece
    <3> QED BY <1>e, <3>1, Zenon
  <2>2. CASE i > Len(s)
    <3> DEFINE k == i - Len(s)
    <3>0. k \in 1 .. Len(t) /\ u[i] = t[k]
      BY <1>1, <1>d, <2>2
    <3> HIDE DEF k
    <3>1. PICK j \in 1 .. Len(t) : j < k /\ t[j].op = "GET_SUPPORTED_CPUID"
      BY <1>8, <3>0, Zenon DEF Piece
    <3>2. Len(s) + j < i
      BY <1>1, <3>1 DEF k
    <3> QED BY <1>f, <3>1, <3>2, Zenon
  <2> QED BY <1>g, <2>1, <2>2, Zenon
<1>9. ASSUME NEW i \in 1 .. Len(u), u[i].op = "SET_GUEST_DEBUG"
      PROVE  \E j \in 1 .. Len(u) : i < j /\ u[j].op = "go"
  <2>1. CASE i \in 1 .. Len(s)
    <3>1. PICK j \in 1 .. Len(s) : i < j /\ s[j].op = "go"
      BY <1>2, <1>9, <2>1, Zenon DEF Piece
    <3> QED BY <1>e, <3>1, Zenon
  <2>2. CASE i > Len(s)
    <3> DEFINE k == i - Len(s)
    <3>0. k \in 1 .. Len(t) /\ u[i] = t[k]
      BY <1>1, <1>d, <2>2
    <3> HIDE DEF k
    <3>1. PICK j \in 1 .. Len(t) : k < j /\ t[j].op = "go"
      BY <1>9, <3>0, Zenon DEF Piece
    <3>2. i < Len(s) + j
      BY <1>1, <3>1 DEF k
    <3> QED BY <1>f, <3>1, <3>2, Zenon
  <2> QED BY <1>g, <2>1, <2>2, Zenon
<1> QED BY <1>2, <1>5, <1>6, <1>7, <1>8, <1>9, Zenon DEF Piece, u, S

LEMMA EmptyPiece ==
  ASSUME NEW a \in Archs, NEW n \in Nat, NEW lo, NEW hi
  PROVE  Piece(<< >>, a, n, lo, hi) /\ \A x : ~ Has(<< >>, x)
<1>1. << >> \in Seq(CallsOf(a, n)) /\ Len(<< >>) = 0
  BY SeqEmpty
<1> QED BY <1>1 DEF Piece, Has

LEMMA CallsSeq ==
  ASSUME NEW S, NEW names \in Seq(S), NEW c
  PROVE  /\ Calls(names, c) \in Seq({Op(x, c) : x \in S})
         /\ Len(Calls(names, c)) = Len(names)
         /\ \A i \in 1 .. Len(names) : Calls(names, c)[i] = Op(names[i], c)
<1>1. Len(names) \in Nat /\ \A i \in 1 .. Len(names) : names[i] \in S
  BY SeqLen, SeqElement
<1>2. Calls(names, c) \in [1 .. Len(names) -> {Op(x, c) : x \in S}]
  BY <1>1 DEF Calls
<1>3. Calls(names, c) \in Seq({Op(x, c) : x \in S})
  BY <1>1, <1>2, SeqOfFunction
<1>4. DOMAIN Calls(names, c) = 1 .. Len(names)
  BY DEF Calls
<1>5. DOMAIN Calls(names, c) = 1 .. Len(Calls(names, c)) /\ Len(Calls(names, c)) \in Nat
  BY <1>3, SeqLen
<1>6. Len(Calls(names, c)) = Len(names)
  BY <1>1, <1>4, <1>5
<1> QED BY <1>3, <1>6 DEF Calls

LEMMA CallsConcat ==
  ASSUME NEW S, NEW s \in Seq(S), NEW t \in Seq(S), NEW c
  PROVE  Calls(s \o t, c) = Calls(s, c) \o Calls(t, c)
<1> DEFINE O == {Op(x, c) : x \in S}
<1>1. /\ s \o t \in Seq(S) /\ Len(s \o t) = Len(s) + Len(t)
      /\ Len(s) \in Nat /\ Len(t) \in Nat
      /\ \A i \in 1 .. Len(s) + Len(t) : (s \o t)[i] =
           IF i <= Len(s) THEN s[i] ELSE t[i - Len(s)]
  BY SeqConcat, SeqLen
<1>2. /\ Calls(s, c) \in Seq(O) /\ Len(Calls(s, c)) = Len(s)
      /\ \A i \in 1 .. Len(s) : Calls(s, c)[i] = Op(s[i], c)
  BY CallsSeq, Zenon
<1>3. /\ Calls(t, c) \in Seq(O) /\ Len(Calls(t, c)) = Len(t)
      /\ \A i \in 1 .. Len(t) : Calls(t, c)[i] = Op(t[i], c)
  BY CallsSeq, Zenon
<1>4. /\ Calls(s \o t, c) \in Seq(O) /\ Len(Calls(s \o t, c)) = Len(s \o t)
      /\ \A i \in 1 .. Len(s \o t) : Calls(s \o t, c)[i] = Op((s \o t)[i], c)
  BY <1>1, CallsSeq, Zenon
<1> HIDE DEF O
<1>5. /\ Calls(s, c) \o Calls(t, c) \in Seq(O)
      /\ Len(Calls(s, c) \o Calls(t, c)) = Len(s) + Len(t)
      /\ \A i \in 1 .. Len(s) + Len(t) : (Calls(s, c) \o Calls(t, c))[i] =
           IF i <= Len(s) THEN Calls(s, c)[i] ELSE Calls(t, c)[i - Len(s)]
  <2> DEFINE f == Calls(s, c)
             g == Calls(t, c)
  <2>1. f \in Seq(O) /\ g \in Seq(O) /\ Len(f) = Len(s) /\ Len(g) = Len(t)
    BY <1>2, <1>3
  <2> HIDE DEF f, g
  <2>2. /\ f \o g \in Seq(O) /\ Len(f \o g) = Len(f) + Len(g)
        /\ \A i \in 1 .. Len(f) + Len(g) : (f \o g)[i] =
             IF i <= Len(f) THEN f[i] ELSE g[i - Len(f)]
    BY <2>1, SeqConcat, Zenon
  <2> QED BY <2>1, <2>2 DEF f, g
<1>6. ASSUME NEW i \in 1 .. Len(s) + Len(t)
      PROVE  Calls(s \o t, c)[i] = (Calls(s, c) \o Calls(t, c))[i]
  <2>1. CASE i <= Len(s)
    <3>1. i \in 1 .. Len(s)
      BY <1>1, <2>1
    <3> QED BY <1>1, <1>2, <1>4, <1>5, <2>1, <3>1
  <2>2. CASE ~ (i <= Len(s))
    <3>1. i - Len(s) \in 1 .. Len(t)
      BY <1>1, <2>2
    <3> QED BY <1>1, <1>3, <1>4, <1>5, <2>2, <3>1, Zenon
  <2> QED BY <2>1, <2>2, Zenon
<1> QED BY <1>1, <1>4, <1>5, <1>6, SeqSame, Zenon

(* Calls that are not for one vCPU, and all of one phase or in order.      *)
LEMMA CallsPiece ==
  ASSUME NEW a \in Archs, NEW n \in Nat, NEW lo \in Nat, NEW hi \in Nat,
         NEW names \in Seq(OpsOf(a) \ ForOne),
         \A i \in 1 .. Len(names) : lo <= Phase(names[i]) /\ Phase(names[i]) <= hi,
         \A i, j \in 1 .. Len(names) : i < j => Phase(names[i]) <= Phase(names[j])
  PROVE  /\ Piece(Calls(names, 0), a, n, lo, hi)
         /\ \A i \in 1 .. Len(names) : Has(Calls(names, 0), Op(names[i], 0))
<1> DEFINE S == OpsOf(a) \ ForOne
           s == Calls(names, 0)
<1>1. /\ s \in Seq({Op(x, 0) : x \in S}) /\ Len(s) = Len(names)
      /\ \A i \in 1 .. Len(names) : s[i] = Op(names[i], 0)
  BY CallsSeq, Zenon
<1>2. {Op(x, 0) : x \in S} \subseteq CallsOf(a, n)
  BY DEF CallsOf, Op
<1>3. s \in Seq(CallsOf(a, n))
  BY <1>1, <1>2, SeqWiden
<1>4. \A i \in 1 .. Len(names) : s[i].op = names[i] /\ names[i] \notin ForOne
  <2>1. \A i \in 1 .. Len(names) : names[i] \in OpsOf(a) \ ForOne
    BY SeqElement
  <2>2. \A x : Op(x, 0).op = x
    BY DEF Op
  <2> HIDE DEF s, S
  <2> QED BY <1>1, <2>1, <2>2
<1>5. {"CREATE_VCPU", "SET_CPUID2", "SET_GUEST_DEBUG"} \subseteq ForOne
  BY DEF ForOne
<1> HIDE DEF s, S
<1>6. Piece(s, a, n, lo, hi)
  BY <1>1, <1>3, <1>4, <1>5 DEF Piece
<1> QED BY <1>1, <1>6 DEF Has, s

(* A literal of one or two names of one phase.                             *)
LEMMA OnePiece ==
  ASSUME NEW a \in Archs, NEW n \in Nat, NEW x \in OpsOf(a) \ ForOne
  PROVE  /\ <<x>> \in Seq(OpsOf(a) \ ForOne)
         /\ Piece(Calls(<<x>>, 0), a, n, Phase(x), Phase(x))
         /\ Has(Calls(<<x>>, 0), Op(x, 0))
<1> DEFINE s == <<x>>
<1>1. s \in Seq(OpsOf(a) \ ForOne) /\ Len(s) = 1 /\ s[1] = x
  OBVIOUS
<1>2. Phase(x) \in Nat
  BY PhaseType
<1> HIDE DEF s
<1>3. \A i \in 1 .. Len(s) : i = 1
  BY <1>1
<1>4. /\ \A i \in 1 .. Len(s) : Phase(x) <= Phase(s[i]) /\ Phase(s[i]) <= Phase(x)
      /\ \A i, j \in 1 .. Len(s) : i < j => Phase(s[i]) <= Phase(s[j])
  BY <1>1, <1>2, <1>3
<1>5. /\ Piece(Calls(s, 0), a, n, Phase(x), Phase(x))
      /\ \A i \in 1 .. Len(s) : Has(Calls(s, 0), Op(s[i], 0))
  BY <1>1, <1>2, <1>4, CallsPiece, Zenon
<1>6. 1 \in 1 .. Len(s)
  BY <1>1
<1> QED BY <1>1, <1>5, <1>6 DEF s

LEMMA TwoPiece ==
  ASSUME NEW a \in Archs, NEW n \in Nat, NEW x \in OpsOf(a) \ ForOne, NEW y \in OpsOf(a) \ ForOne,
         Phase(x) <= Phase(y)
  PROVE  /\ <<x, y>> \in Seq(OpsOf(a) \ ForOne)
         /\ Piece(Calls(<<x, y>>, 0), a, n, Phase(x), Phase(y))
         /\ Has(Calls(<<x, y>>, 0), Op(x, 0)) /\ Has(Calls(<<x, y>>, 0), Op(y, 0))
<1> DEFINE s == <<x, y>>
<1>1. s \in Seq(OpsOf(a) \ ForOne) /\ Len(s) = 2 /\ s[1] = x /\ s[2] = y
  OBVIOUS
<1>2. Phase(x) \in Nat /\ Phase(y) \in Nat
  BY PhaseType
<1> HIDE DEF s
<1>3. \A i \in 1 .. Len(s) : i = 1 \/ i = 2
  BY <1>1
<1>4. /\ \A i \in 1 .. Len(s) : Phase(x) <= Phase(s[i]) /\ Phase(s[i]) <= Phase(y)
      /\ \A i, j \in 1 .. Len(s) : i < j => Phase(s[i]) <= Phase(s[j])
  BY <1>1, <1>2, <1>3
<1>5. /\ Piece(Calls(s, 0), a, n, Phase(x), Phase(y))
      /\ \A i \in 1 .. Len(s) : Has(Calls(s, 0), Op(s[i], 0))
  BY <1>1, <1>2, <1>4, CallsPiece, Zenon
<1>6. 1 \in 1 .. Len(s) /\ 2 \in 1 .. Len(s)
  BY <1>1
<1> QED BY <1>1, <1>5, <1>6 DEF s

(* The calls of a loop over the vCPUs.                                     *)
LEMMA PerCpuSeq ==
  ASSUME NEW S, NEW names \in Seq(S), Len(names) \in {1, 2, 4}, NEW n \in Nat
  PROVE  LET L == Len(names)
         IN  /\ PerCpu(names, n) \in Seq([op : S, cpu : 1 .. n])
             /\ Len(PerCpu(names, n)) = n * L
             /\ \A i \in 1 .. n * L :
                  /\ PerCpu(names, n)[i] = Op(names[((i - 1) % L) + 1], ((i - 1) \div L) + 1)
                  /\ ((i - 1) % L) + 1 \in 1 .. L /\ ((i - 1) \div L) + 1 \in 1 .. n
             /\ \A k \in 1 .. L, c \in 1 .. n : Has(PerCpu(names, n), Op(names[k], c))
<1> DEFINE L == Len(names)
           s == PerCpu(names, n)
<1>1. L \in {1, 2, 4} /\ n * L \in Nat
  OBVIOUS
<1>2. s = [i \in 1 .. n * L |-> Op(names[((i - 1) % L) + 1], ((i - 1) \div L) + 1)]
  BY DEF PerCpu
<1>3. \A k \in 1 .. L : names[k] \in S
  BY SeqElement
<1> HIDE DEF L, s
<1>4. \A i \in 1 .. n * L : ((i - 1) % L) + 1 \in 1 .. L /\ ((i - 1) \div L) + 1 \in 1 .. n
  <2>1. CASE L = 1
    BY <2>1
  <2>2. CASE L = 2
    BY <2>2
  <2>3. CASE L = 4
    BY <2>3
  <2> QED BY <1>1, <2>1, <2>2, <2>3
<1>5. s \in [1 .. n * L -> [op : S, cpu : 1 .. n]]
  <2> SUFFICES ASSUME NEW i \in 1 .. n * L
               PROVE  Op(names[((i - 1) % L) + 1], ((i - 1) \div L) + 1) \in [op : S, cpu : 1 .. n]
    BY <1>2
  <2> DEFINE k == ((i - 1) % L) + 1
             c == ((i - 1) \div L) + 1
  <2>1. k \in 1 .. L /\ c \in 1 .. n
    BY <1>4
  <2> HIDE DEF k, c
  <2>2. Op(names[k], c) \in [op : S, cpu : 1 .. n]
    BY <1>3, <2>1 DEF Op
  <2> QED BY <2>2 DEF k, c
<1>6. s \in Seq([op : S, cpu : 1 .. n])
  <2> DEFINE N == n * L
             T == [op : S, cpu : 1 .. n]
  <2>1. N \in Nat /\ s \in [1 .. N -> T]
    BY <1>1, <1>5
  <2> HIDE DEF N, T
  <2>2. s \in Seq(T)
    BY <2>1, SeqOfFunction
  <2> QED BY <2>2 DEF T
<1>7. DOMAIN s = 1 .. n * L /\ DOMAIN s = 1 .. Len(s) /\ Len(s) \in Nat
  BY <1>2, <1>6, SeqLen, Zenon
<1>8. Len(s) = n * L
  BY <1>1, <1>7
<1>9. ASSUME NEW k \in 1 .. L, NEW c \in 1 .. n PROVE Has(s, Op(names[k], c))
  <2> DEFINE i == (c - 1) * L + k
  <2>1. i \in 1 .. n * L /\ ((i - 1) % L) + 1 = k /\ ((i - 1) \div L) + 1 = c
    <3>1. CASE L = 1
      BY <3>1
    <3>2. CASE L = 2
      BY <3>2
    <3>3. CASE L = 4
      BY <3>3
    <3> QED BY <1>1, <3>1, <3>2, <3>3
  <2> HIDE DEF i
  <2>2. s[i] = Op(names[k], c)
    BY <1>2, <2>1
  <2> QED BY <1>8, <2>1, <2>2 DEF Has
<1>10. \A i \in 1 .. n * L : s[i] = Op(names[((i - 1) % L) + 1], ((i - 1) \div L) + 1)
  BY <1>2
<1> QED BY <1>4, <1>6, <1>8, <1>9, <1>10 DEF s, L

LEMMA PerCpuPiece ==
  ASSUME NEW a \in Archs, NEW n \in Nat, NEW p \in Nat,
         NEW names \in Seq(OpsOf(a) \ {"CREATE_VCPU", "SET_CPUID2", "SET_GUEST_DEBUG"}),
         Len(names) \in {1, 2, 4}, \A i \in 1 .. Len(names) : Phase(names[i]) = p
  PROVE  Piece(PerCpu(names, n), a, n, p, p)
<1> DEFINE L == Len(names)
           s == PerCpu(names, n)
           S == OpsOf(a) \ {"CREATE_VCPU", "SET_CPUID2", "SET_GUEST_DEBUG"}
<1>1. /\ s \in Seq([op : S, cpu : 1 .. n]) /\ Len(s) = n * L
      /\ \A i \in 1 .. n * L :
           /\ s[i] = Op(names[((i - 1) % L) + 1], ((i - 1) \div L) + 1)
           /\ ((i - 1) % L) + 1 \in 1 .. L
  BY PerCpuSeq, Zenon
<1>2. [op : S, cpu : 1 .. n] \subseteq CallsOf(a, n)
  BY DEF CallsOf
<1>3. s \in Seq(CallsOf(a, n))
  BY <1>1, <1>2, SeqWiden, Zenon
<1> HIDE DEF s, L
<1>4. \A i \in 1 .. Len(s) : s[i] \in [op : S, cpu : 1 .. n]
  BY <1>1, SeqElement, Zenon
<1>5. ASSUME NEW i \in 1 .. Len(s) PROVE \E k \in 1 .. L : s[i].op = names[k]
  <2> DEFINE k == ((i - 1) % L) + 1
  <2>1. k \in 1 .. L /\ s[i] = Op(names[k], ((i - 1) \div L) + 1)
    BY <1>1
  <2> HIDE DEF k
  <2> QED BY <2>1 DEF Op
<1>6. \A i \in 1 .. Len(s) : Phase(s[i].op) = p
  BY <1>5 DEF L
<1> QED BY <1>3, <1>4, <1>6 DEF Piece, s

(* vCPUs are made in the order of their numbers.                           *)
LEMMA VcpuPiece ==
  ASSUME NEW a \in Archs, NEW n \in Nat
  PROVE  /\ Piece(PerCpu(addVCPU \o <<"mmap">>, n), a, n, 9, 9)
         /\ \A c \in 1 .. n : Has(PerCpu(addVCPU \o <<"mmap">>, n), Op("CREATE_VCPU", c))
<1> DEFINE names == addVCPU \o <<"mmap">>
           s == PerCpu(names, n)
           S == {"CREATE_VCPU", "mmap"}
<1>1. names \in Seq(S) /\ Len(names) = 2 /\ names[1] = "CREATE_VCPU" /\ names[2] = "mmap"
  BY DEF addVCPU
<1> HIDE DEF names
<1>2. /\ s \in Seq([op : S, cpu : 1 .. n]) /\ Len(s) = n * 2
      /\ \A i \in 1 .. n * 2 :
           /\ s[i] = Op(names[((i - 1) % 2) + 1], ((i - 1) \div 2) + 1)
           /\ ((i - 1) % 2) + 1 \in 1 .. 2
      /\ \A k \in 1 .. 2, c \in 1 .. n : Has(s, Op(names[k], c))
  BY <1>1, PerCpuSeq, ZenonT(40)
<1> HIDE DEF s
<1>3. S \subseteq OpsOf(a) /\ Phase("CREATE_VCPU") = 9 /\ Phase("mmap") = 9
  BY DEF OpsOf, OnBoth, Phase, OneReg
<1>4. [op : S, cpu : 1 .. n] \subseteq CallsOf(a, n)
  BY <1>3 DEF CallsOf
<1>5. s \in Seq(CallsOf(a, n))
  BY <1>2, <1>4, SeqWiden, Zenon
<1>6. \A i \in 1 .. Len(s) : s[i].op \in S
  <2>1. \A i \in 1 .. Len(s) : s[i] \in [op : S, cpu : 1 .. n]
    BY <1>2, SeqElement, Zenon
  <2> QED BY <2>1
<1>7. ASSUME NEW i \in 1 .. Len(s), s[i].op = "CREATE_VCPU"
      PROVE  (i - 1) % 2 = 0 /\ s[i].cpu = ((i - 1) \div 2) + 1
  <2> DEFINE k == ((i - 1) % 2) + 1
             c == ((i - 1) \div 2) + 1
  <2>1. k \in 1 .. 2 /\ s[i] = Op(names[k], c)
    BY <1>2, Zenon
  <2> HIDE DEF k, c
  <2>2. s[i].op = names[k] /\ s[i].cpu = c
    BY <2>1 DEF Op
  <2>3. k = 1
    BY <1>1, <1>7, <2>1, <2>2
  <2> QED BY <2>2, <2>3 DEF k, c
<1>8. \A i, j \in 1 .. Len(s) : i < j /\ s[i].op = "CREATE_VCPU" /\ s[j].op = "CREATE_VCPU" =>
        s[i].cpu < s[j].cpu
  <2> SUFFICES ASSUME NEW i \in 1 .. Len(s), NEW j \in 1 .. Len(s), i < j,
                      s[i].op = "CREATE_VCPU", s[j].op = "CREATE_VCPU"
               PROVE  s[i].cpu < s[j].cpu
    OBVIOUS
  <2>1. i \in Nat /\ j \in Nat /\ 1 <= i /\ i < j
    BY <1>2
  <2>2. (i - 1) % 2 = 0 /\ (j - 1) % 2 = 0
    BY <1>7
  <2>3. ((i - 1) \div 2) + 1 < ((j - 1) \div 2) + 1
    BY <2>1, <2>2
  <2> QED BY <1>7, <2>3
<1>9. Piece(s, a, n, 9, 9)
  BY <1>3, <1>5, <1>6, <1>8 DEF Piece
<1>10. \A c \in 1 .. n : Has(s, Op("CREATE_VCPU", c))
  <2>1. 1 \in 1 .. 2
    OBVIOUS
  <2> QED BY <1>1, <1>2, <2>1
<1> QED BY <1>9, <1>10 DEF s, names

(* Every CPUID table is set after one was asked for.                       *)
LEMMA CpuidPiece ==
  ASSUME NEW n \in Nat
  PROVE  /\ Piece(initCPUIDs(n), "amd64", n, 11, 11)
         /\ \A c \in 1 .. n : Has(initCPUIDs(n), Op("SET_CPUID2", c))
<1> DEFINE names == <<"GET_SUPPORTED_CPUID", "SET_CPUID2">>
           s == PerCpu(names, n)
           S == {"GET_SUPPORTED_CPUID", "SET_CPUID2"}
<1>1. /\ names \in Seq(S) /\ Len(names) = 2
      /\ names[1] = "GET_SUPPORTED_CPUID" /\ names[2] = "SET_CPUID2"
  OBVIOUS
<1>0. initCPUIDs(n) = s
  BY DEF initCPUIDs
<1> HIDE DEF names
<1>2. /\ s \in Seq([op : S, cpu : 1 .. n]) /\ Len(s) = n * 2
      /\ \A i \in 1 .. n * 2 :
           /\ s[i] = Op(names[((i - 1) % 2) + 1], ((i - 1) \div 2) + 1)
           /\ ((i - 1) % 2) + 1 \in 1 .. 2
      /\ \A k \in 1 .. 2, c \in 1 .. n : Has(s, Op(names[k], c))
  BY <1>1, PerCpuSeq, ZenonT(40)
<1> HIDE DEF s
<1>3. S \subseteq OpsOf("amd64") /\ Phase("GET_SUPPORTED_CPUID") = 11 /\ Phase("SET_CPUID2") = 11
  BY DEF OpsOf, OnAmd64, Phase, OneReg
<1>4. [op : S, cpu : 1 .. n] \subseteq CallsOf("amd64", n)
  BY <1>3 DEF CallsOf
<1>5. s \in Seq(CallsOf("amd64", n))
  BY <1>2, <1>4, SeqWiden, Zenon
<1>6. \A i \in 1 .. Len(s) : s[i].op \in S
  <2>1. \A i \in 1 .. Len(s) : s[i] \in [op : S, cpu : 1 .. n]
    BY <1>2, SeqElement, Zenon
  <2> QED BY <2>1
<1>7. ASSUME NEW i \in 1 .. Len(s), s[i].op = "SET_CPUID2"
      PROVE  \E j \in 1 .. Len(s) : j < i /\ s[j].op = "GET_SUPPORTED_CPUID"
  <2> DEFINE k == ((i - 1) % 2) + 1
             c == ((i - 1) \div 2) + 1
             j == i - 1
             d == ((j - 1) \div 2) + 1
  <2>1. k \in 1 .. 2 /\ s[i] = Op(names[k], c)
    BY <1>2, Zenon
  <2>2. k # 1
    <3> HIDE DEF k, c
    <3>1. s[i].op = names[k]
      BY <2>1 DEF Op
    <3> QED BY <1>1, <1>7, <3>1
  <2>3. (i - 1) % 2 = 1 /\ i \in Nat /\ i <= n * 2
    BY <1>2, <2>1, <2>2
  <2>4. j \in 1 .. n * 2 /\ j < i /\ ((j - 1) % 2) + 1 = 1
    BY <2>3
  <2> HIDE DEF j
  <2>5. s[j] = Op(names[1], d)
    BY <1>2, <2>4, Zenon
  <2>6. s[j].op = "GET_SUPPORTED_CPUID"
    BY <1>1, <2>5 DEF Op
  <2> QED BY <1>2, <2>4, <2>6, Zenon
<1>8. Piece(s, "amd64", n, 11, 11)
  BY <1>3, <1>5, <1>6, <1>7 DEF Piece
<1>9. \A c \in 1 .. n : Has(s, Op("SET_CPUID2", c))
  <2>1. 2 \in 1 .. 2
    OBVIOUS
  <2> QED BY <1>1, <1>2, <2>1
<1> QED BY <1>0, <1>8, <1>9

LEMMA VcpuInitPiece ==
  ASSUME NEW n \in Nat
  PROVE  /\ Piece(initVcpus(n), "arm64", n, 10, 11)
         /\ \A c \in 1 .. n : Has(initVcpus(n), Op("VCPU_INIT", c))
<1> DEFINE a == "arm64"
           s == Calls(<<"PREFERRED_TARGET", "CHECK_PMU">>, 0)
           names == <<"VCPU_INIT">>
           t == PerCpu(names, n)
<1>1. /\ {"PREFERRED_TARGET", "CHECK_PMU"} \subseteq OpsOf(a) \ ForOne
      /\ Phase("PREFERRED_TARGET") = 10 /\ Phase("CHECK_PMU") = 10 /\ Phase("VCPU_INIT") = 11
      /\ "VCPU_INIT" \in OpsOf(a) \ {"CREATE_VCPU", "SET_CPUID2", "SET_GUEST_DEBUG"}
      /\ a \in Archs
  BY DEF OpsOf, OnArm64, ForOne, Phase, OneReg, Archs
<1> HIDE DEF a
<1>2. Piece(s, a, n, 10, 10)
  BY <1>1, TwoPiece
<1>3. /\ names \in Seq(OpsOf(a) \ {"CREATE_VCPU", "SET_CPUID2", "SET_GUEST_DEBUG"})
      /\ Len(names) = 1 /\ names[1] = "VCPU_INIT"
  BY <1>1
<1> HIDE DEF s, names
<1>4. \A i \in 1 .. Len(names) : Phase(names[i]) = 11
  BY <1>1, <1>3
<1>5. Piece(t, a, n, 11, 11)
  BY <1>1, <1>3, <1>4, PerCpuPiece
<1>6. \A c \in 1 .. n : Has(t, Op("VCPU_INIT", c))
  <2>1. \A k \in 1 .. Len(names), c \in 1 .. n : Has(t, Op(names[k], c))
    BY <1>3, PerCpuSeq, Zenon
  <2>2. 1 \in 1 .. Len(names)
    BY <1>3
  <2> QED BY <1>3, <2>1, <2>2
<1> HIDE DEF t
<1>7. Piece(s \o t, a, n, 10, 11) /\ \A x : Has(s \o t, x) <=> Has(s, x) \/ Has(t, x)
  BY <1>1, <1>2, <1>5, Joined
<1>8. initVcpus(n) = s \o t
  BY DEF initVcpus, s, t, names
<1> QED BY <1>6, <1>7, <1>8 DEF a

(* The registers that matter are set for every vCPU.                       *)
LEMMA RegsPiece ==
  ASSUME NEW a \in Archs, NEW n \in Nat
  PROVE  /\ Piece(SetupRegs(a, n), a, n, 16, 16)
         /\ \A c \in 1 .. n :
              /\ a = "amd64" => /\ Has(SetupRegs(a, n), Op("SET_REGS", c))
                                /\ Has(SetupRegs(a, n), Op("SET_SREGS", c))
              /\ a = "arm64" => /\ Has(SetupRegs(a, n), Op("SET_PC", c))
                                /\ Has(SetupRegs(a, n), Op("SET_X0", c))
                                /\ Has(SetupRegs(a, n), Op("SET_X1", c))
                                /\ Has(SetupRegs(a, n), Op("SET_X2", c))
<1> DEFINE names == IF a = "amd64" THEN <<"GET_REGS", "SET_REGS", "GET_SREGS", "SET_SREGS">>
                                   ELSE <<"SET_PC", "SET_X0", "SET_X1", "SET_X2">>
           S == OpsOf(a) \ {"CREATE_VCPU", "SET_CPUID2", "SET_GUEST_DEBUG"}
           R == IF a = "amd64" THEN {"GET_REGS", "SET_REGS", "GET_SREGS", "SET_SREGS"} ELSE OneReg
<1>1. R \subseteq S
  BY DEF OpsOf, OnAmd64, OnArm64, OneReg
<1>2. \A x \in R : Phase(x) = 16
  BY DEF Phase, OneReg
<1>3. /\ names \in Seq(R) /\ Len(names) = 4
      /\ a = "amd64" => names[2] = "SET_REGS" /\ names[4] = "SET_SREGS"
      /\ a = "arm64" => /\ names[1] = "SET_PC" /\ names[2] = "SET_X0"
                        /\ names[3] = "SET_X1" /\ names[4] = "SET_X2"
  <2>1. CASE a = "amd64"
    <3> DEFINE t == <<"GET_REGS", "SET_REGS", "GET_SREGS", "SET_SREGS">>
    <3>1. /\ t \in Seq({"GET_REGS", "SET_REGS", "GET_SREGS", "SET_SREGS"}) /\ Len(t) = 4
          /\ t[2] = "SET_REGS" /\ t[4] = "SET_SREGS"
      OBVIOUS
    <3> QED BY <2>1, <3>1
  <2>2. CASE a = "arm64"
    <3> DEFINE t == <<"SET_PC", "SET_X0", "SET_X1", "SET_X2">>
    <3>1. /\ t \in Seq(OneReg) /\ Len(t) = 4
          /\ t[1] = "SET_PC" /\ t[2] = "SET_X0" /\ t[3] = "SET_X1" /\ t[4] = "SET_X2"
      BY DEF OneReg
    <3> QED BY <2>2, <3>1
  <2> QED BY <2>1, <2>2 DEF Archs
<1>4. SetupRegs(a, n) = PerCpu(names, n)
  BY DEF SetupRegs
<1> HIDE DEF names, S, R
<1>5. names \in Seq(S) /\ \A i \in 1 .. Len(names) : Phase(names[i]) = 16
  <2>1. \A i \in 1 .. Len(names) : names[i] \in R
    BY <1>3, SeqElement, Zenon
  <2> QED BY <1>1, <1>2, <1>3, <2>1, SeqWiden
<1>6. Piece(PerCpu(names, n), a, n, 16, 16)
  BY <1>3, <1>5, PerCpuPiece, Zenon DEF S
<1>7. \A k \in 1 .. 4, c \in 1 .. n : Has(PerCpu(names, n), Op(names[k], c))
  BY <1>3, PerCpuSeq, Zenon
<1>8. {1, 2, 3, 4} \subseteq 1 .. 4
  OBVIOUS
<1> QED BY <1>3, <1>4, <1>6, <1>7, <1>8

(* The loops of Boot: call k is one of a StartVCPU, and the last one is    *)
(* the goroutine of the last vCPU.                                         *)
LEMMA Division ==
  ASSUME NEW d \in Nat \ {0}, NEW q \in Nat, NEW k \in Nat, k < q * d
  PROVE  k \div d \in 0 .. (q - 1) /\ k % d \in 0 .. (d - 1)
<1>1. PICK e \in Int : e = k \div d
  OBVIOUS
<1>2. PICK r \in Int : r = k % d
  OBVIOUS
<1>3. k = e * d + r /\ 0 <= r /\ r < d
  BY <1>1, <1>2
<1>4. 0 <= e
  <2> SUFFICES ASSUME e <= -1 PROVE FALSE
    OBVIOUS
  <2>1. e * d <= -d
    BY <1>1
  <2> QED BY <1>3, <2>1
<1>5. e < q
  <2> SUFFICES ASSUME q <= e PROVE FALSE
    OBVIOUS
  <2>1. q * d <= e * d
    BY <1>1
  <2> QED BY <1>3, <2>1
<1> QED BY <1>1, <1>2, <1>3, <1>4, <1>5

LEMMA LastOfLoop ==
  ASSUME NEW n \in Nat \ {0}
  PROVE  /\ n * (n + 1) \in Nat \ {0}
         /\ (n * (n + 1) - 1) % (n + 1) = n
<1>1. PICK d \in Nat : d = n + 1
  OBVIOUS
<1>2. PICK k \in Nat : k = n * d - 1
  <2>1. n * d \in Nat /\ n * d >= d
    BY <1>1
  <2> QED BY <1>1, <2>1
<1>3. PICK e \in Int : e = k \div d
  BY <1>1
<1>4. PICK r \in Int : r = k % d
  BY <1>1
<1>5. k = e * d + r /\ 0 <= r /\ r < d
  BY <1>1, <1>3, <1>4
<1>6. k < n * d /\ d \in Nat \ {0}
  BY <1>1, <1>2
<1>7. e \in 0 .. (n - 1)
  BY <1>3, <1>6, Division, Zenon
<1>8. e * d >= (n - 1) * d
  <2> SUFFICES ASSUME e <= n - 2 PROVE FALSE
    BY <1>7
  <2>1. e * d <= (n - 2) * d /\ (n - 2) * d = n * d - d - d
    BY <1>1, <1>7
  <2>2. n * d \in Int /\ e * d \in Int
    BY <1>7
  <2> QED BY <1>1, <1>2, <1>5, <2>1, <2>2
<1>9. e * d = n * d - d
  <2>1. e = n - 1 \/ e <= n - 2
    BY <1>7
  <2>2. CASE e = n - 1
    BY <1>1, <2>2
  <2>3. CASE e <= n - 2
    <3>1. e * d <= (n - 2) * d /\ (n - 2) * d = n * d - d - d /\ (n - 1) * d = n * d - d
      BY <1>1, <1>7, <2>3
    <3>2. n * d \in Int /\ e * d \in Int
      BY <1>7
    <3> QED BY <1>1, <1>8, <3>1, <3>2
  <2> QED BY <2>1, <2>2, <2>3
<1>10. r = n
  <2>1. n * d \in Int
    OBVIOUS
  <2> QED BY <1>1, <1>2, <1>5, <1>9, <2>1
<1> QED BY <1>1, <1>2, <1>4, <1>10

LEMMA BootsPiece == ASSUME NEW a \in Archs, NEW n \in Nat PROVE Piece(Boots(n), a, n, 17, 17)
<1> DEFINE S == {x \in CallsOf(a, n) : x.op \in {"SET_GUEST_DEBUG", "go"}}
           N == n * (n + 1)
           b == Boots(n)
<1>1. ASSUME NEW i \in 1 .. n
      PROVE  /\ \A k \in 1 .. (n + 1) : StartVCPU(i, n)[k] \in S
             /\ StartVCPU(i, n)[n + 1].op = "go"
  <2> DEFINE names == <<"SET_GUEST_DEBUG">>
             s == PerCpu(names, n)
             t == <<Op("go", i)>>
  <2>1. names \in Seq({"SET_GUEST_DEBUG"}) /\ Len(names) = 1
    OBVIOUS
  <2> HIDE DEF names
  <2>2. s \in Seq([op : {"SET_GUEST_DEBUG"}, cpu : 1 .. n]) /\ Len(s) = n * Len(names)
    BY <2>1, PerCpuSeq, Zenon
  <2>3. [op : {"SET_GUEST_DEBUG"}, cpu : 1 .. n] \subseteq S /\ Op("go", i) \in S
    BY DEF CallsOf, OpsOf, OnBoth, ForOne, Op
  <2> HIDE DEF S, s
  <2>4. s \in Seq(S) /\ Len(s) = n
    <3>1. s \in Seq(S)
      BY <2>2, <2>3, SeqWiden, Zenon
    <3> QED BY <2>1, <2>2, <3>1
  <2>5. t \in Seq(S) /\ Len(t) = 1 /\ t[1] = Op("go", i)
    BY <2>3
  <2> HIDE DEF t
  <2>6. /\ Len(s \o t) = n + 1 /\ s \o t \in Seq(S)
        /\ \A k \in 1 .. Len(s) + Len(t) : (s \o t)[k] =
             IF k <= Len(s) THEN s[k] ELSE t[k - Len(s)]
    <3>1. /\ s \o t \in Seq(S) /\ Len(s \o t) = Len(s) + Len(t)
          /\ \A k \in 1 .. Len(s) + Len(t) : (s \o t)[k] =
               IF k <= Len(s) THEN s[k] ELSE t[k - Len(s)]
      BY <2>4, <2>5, SeqConcat, Zenon
    <3>2. Len(s \o t) = n + 1
      BY <2>4, <2>5, <3>1
    <3> QED BY <3>1, <3>2
  <2>7. (s \o t)[n + 1] = Op("go", i)
    BY <2>4, <2>5, <2>6
  <2>8. \A k \in 1 .. (n + 1) : (s \o t)[k] \in S
    BY <2>6, SeqElement
  <2>9. StartVCPU(i, n) = s \o t
    BY DEF StartVCPU, s, t, names
  <2>10. Op("go", i).op = "go"
    BY DEF Op
  <2> QED BY <2>7, <2>8, <2>9, <2>10, Zenon
<1>2. N \in Nat
  OBVIOUS
<1>3. b = [k \in 1 .. N |->
             StartVCPU(((k - 1) \div (n + 1)) + 1, n)[((k - 1) % (n + 1)) + 1]]
  BY DEF Boots
<1> HIDE DEF S, b
<1>4. ASSUME NEW k \in 1 .. N
      PROVE  ((k - 1) \div (n + 1)) + 1 \in 1 .. n /\ ((k - 1) % (n + 1)) + 1 \in 1 .. (n + 1)
  <2>1. n + 1 \in Nat \ {0} /\ k - 1 \in Nat /\ k - 1 < n * (n + 1)
    BY <1>2
  <2>2. (k - 1) \div (n + 1) \in 0 .. (n - 1) /\ (k - 1) % (n + 1) \in 0 .. ((n + 1) - 1)
    BY <2>1, Division, Zenon
  <2> QED BY <2>2
<1> HIDE DEF N
<1>5. b \in [1 .. N -> S]
  BY <1>1, <1>3, <1>4
<1>6. b \in Seq(S) /\ Len(b) = N
  <2>1. b \in Seq(S)
    BY <1>2, <1>5, SeqOfFunction
  <2>2. DOMAIN b = 1 .. N /\ DOMAIN b = 1 .. Len(b) /\ Len(b) \in Nat
    BY <1>5, <2>1, SeqLen
  <2> QED BY <1>2, <2>1, <2>2
<1>7. \A i \in 1 .. Len(b) : b[i] \in S
  BY <1>6, SeqElement
<1>8. b \in Seq(CallsOf(a, n))
  <2>1. S \subseteq CallsOf(a, n)
    BY DEF S
  <2> QED BY <1>6, <2>1, SeqWiden
<1>9. \A i \in 1 .. Len(b) : b[i].op \in {"SET_GUEST_DEBUG", "go"}
  BY <1>7 DEF S
<1>10. Phase("SET_GUEST_DEBUG") = 17 /\ Phase("go") = 17
  BY DEF Phase, OneReg
<1>11. ASSUME NEW i \in 1 .. Len(b), b[i].op = "SET_GUEST_DEBUG"
       PROVE  \E j \in 1 .. Len(b) : i < j /\ b[j].op = "go"
  <2>1. N # 0
    BY <1>6, <1>11
  <2>2. n \in Nat \ {0} /\ n \in 1 .. n
    BY <2>1 DEF N
  <2>3. N \in 1 .. N /\ (N - 1) % (n + 1) = n
    BY <2>2, LastOfLoop DEF N
  <2>4. PICK c \in 1 .. n : c = ((N - 1) \div (n + 1)) + 1
    BY <1>4, <2>3
  <2>5. b[N] = StartVCPU(c, n)[n + 1]
    BY <1>3, <2>3, <2>4, Zenon
  <2>6. b[N].op = "go"
    BY <1>1, <2>5
  <2>7. i < N
    BY <1>6, <1>11, <2>6
  <2> QED BY <1>6, <2>3, <2>6, <2>7
<1> QED BY <1>8, <1>9, <1>10, <1>11 DEF Piece, b

(* A piece whose calls are not for one vCPU, by its names.                 *)
Named(s, a, n, lo, hi) ==
  s \in Seq(OpsOf(a) \ ForOne) /\ Piece(Calls(s, 0), a, n, lo, hi)

HasName(s, x) == Has(Calls(s, 0), Op(x, 0))

LEMMA NamesJoined ==
  ASSUME NEW a \in Archs, NEW n \in Nat, NEW s, NEW t,
         NEW l1 \in Nat, NEW h1 \in Nat, NEW l2 \in Nat, NEW h2 \in Nat,
         Named(s, a, n, l1, h1), Named(t, a, n, l2, h2), l1 <= h1, h1 < l2, l2 <= h2
  PROVE  /\ Named(s \o t, a, n, l1, h2)
         /\ \A x : HasName(s \o t, x) <=> HasName(s, x) \/ HasName(t, x)
<1>1. Calls(s \o t, 0) = Calls(s, 0) \o Calls(t, 0)
  BY CallsConcat DEF Named
<1>2. s \o t \in Seq(OpsOf(a) \ ForOne)
  BY SeqConcat DEF Named
<1>3. /\ Piece(Calls(s, 0) \o Calls(t, 0), a, n, l1, h2)
      /\ \A x : Has(Calls(s, 0) \o Calls(t, 0), x) <=> Has(Calls(s, 0), x) \/ Has(Calls(t, 0), x)
  BY Joined, Zenon DEF Named
<1> QED BY <1>1, <1>2, <1>3, Zenon DEF Named, HasName

LEMMA NoNames ==
  ASSUME NEW a \in Archs, NEW n \in Nat, NEW lo, NEW hi
  PROVE  Named(<< >>, a, n, lo, hi)
<1> DEFINE e == << >>
           S == OpsOf(a) \ ForOne
<1>1. e \in Seq(S) /\ Len(e) = 0
  BY SeqEmpty
<1> HIDE DEF e, S
<1>2. ASSUME NEW k PROVE Calls(e, k) = << >>
  <2>1. Calls(e, k) \in Seq({Op(x, k) : x \in S}) /\ Len(Calls(e, k)) = Len(e)
    BY <1>1, CallsSeq, Zenon
  <2> QED BY <1>1, <2>1, SeqEmpty
<1>3. Calls(e, 0) = << >>
  BY <1>2
<1> USE DEF e, S
<1> QED BY <1>1, <1>3, EmptyPiece DEF Named

LEMMA OneName ==
  ASSUME NEW a \in Archs, NEW n \in Nat, NEW x \in OpsOf(a) \ ForOne
  PROVE  Named(<<x>>, a, n, Phase(x), Phase(x)) /\ HasName(<<x>>, x)
BY OnePiece DEF Named, HasName

LEMMA TwoNames ==
  ASSUME NEW a \in Archs, NEW n \in Nat, NEW x \in OpsOf(a) \ ForOne, NEW y \in OpsOf(a) \ ForOne,
         Phase(x) <= Phase(y)
  PROVE  /\ Named(<<x, y>>, a, n, Phase(x), Phase(y))
         /\ HasName(<<x, y>>, x) /\ HasName(<<x, y>>, y)
BY TwoPiece DEF Named, HasName

LEMMA CommonOps ==
  ASSUME NEW a \in Archs
  PROVE  /\ {"parseMem", "open", "GET_API_VERSION", "CREATE_VM", "mmap_ram", "mmap_sys",
             "GET_VCPU_MMAP_SIZE", "SET_RAM", "SET_SYS", "open_kernel", "LoadKernel"}
              \subseteq OpsOf(a) \ ForOne
         /\ a = "amd64" => {"SET_IDENTITY_MAP_ADDR", "SET_TSS_ADDR", "CREATE_IRQCHIP",
                            "CREATE_PIT2"} \subseteq OpsOf(a) \ ForOne
         /\ a = "arm64" => {"CHECK_EXTENSION", "CREATE_DEVICE", "SET_DIST_ADDR",
                            "SET_REDIST_ADDR", "VGIC_INIT"} \subseteq OpsOf(a) \ ForOne
BY DEF OpsOf, OnBoth, OnAmd64, OnArm64, ForOne, OneReg

LEMMA CommonPhases ==
  /\ Phase("parseMem") = 0 /\ Phase("open") = 1 /\ Phase("GET_API_VERSION") = 2
  /\ Phase("CHECK_EXTENSION") = 3 /\ Phase("CREATE_VM") = 3
  /\ Phase("mmap_ram") = 4 /\ Phase("mmap_sys") = 4
  /\ Phase("SET_IDENTITY_MAP_ADDR") = 5 /\ Phase("SET_TSS_ADDR") = 5
  /\ Phase("GET_VCPU_MMAP_SIZE") = 6
  /\ Phase("CREATE_IRQCHIP") = 7 /\ Phase("CREATE_DEVICE") = 7
  /\ Phase("SET_DIST_ADDR") = 7 /\ Phase("SET_REDIST_ADDR") = 7 /\ Phase("CREATE_PIT2") = 8
  /\ Phase("SET_RAM") = 12 /\ Phase("SET_SYS") = 12 /\ Phase("VGIC_INIT") = 13
  /\ Phase("open_kernel") = 14 /\ Phase("LoadKernel") = 15
BY DEF Phase, OneReg

(* NewVM, vm.init, createIrqController: everything before the vCPUs.       *)
LEMMA NewVMNames ==
  ASSUME NEW a \in Archs, NEW n \in Nat
  PROVE  LET s == <<"open">> \o NewVM(a) \o vm_init(a) \o getVCPUMMmapSize \o createIrqController(a)
         IN  /\ Named(s, a, n, 1, 8)
             /\ a = "amd64" => \A x \in {"SET_IDENTITY_MAP_ADDR", "SET_TSS_ADDR", "CREATE_IRQCHIP",
                                         "CREATE_PIT2"} : HasName(s, x)
             /\ a = "arm64" => \A x \in {"SET_DIST_ADDR", "SET_REDIST_ADDR"} : HasName(s, x)
<1>1. Named(createVM(a), a, n, 3, 3)
  <2>1. CASE a = "amd64"
    <3>1. createVM(a) = <<"CREATE_VM">>
      BY <2>1 DEF createVM, createVM_amd64
    <3> QED BY <3>1, OneName, CommonPhases, CommonOps
  <2>2. CASE a = "arm64"
    <3>1. createVM(a) = <<"CHECK_EXTENSION", "CREATE_VM">>
      BY <2>2 DEF createVM, createVM_arm64
    <3> QED BY <2>2, <3>1, TwoNames, CommonPhases, CommonOps
  <2> QED BY <2>1, <2>2 DEF Archs
<1>2. Named(getAPIVersion \o createVM(a), a, n, 2, 3)
  <2>1. Named(<<"GET_API_VERSION">>, a, n, 2, 2)
    BY OneName, CommonPhases, CommonOps
  <2> QED BY <1>1, <2>1, NamesJoined DEF getAPIVersion
<1>3. Named(NewVM(a), a, n, 2, 4)
  <2>1. Named(<<"mmap_ram", "mmap_sys">>, a, n, 4, 4)
    BY TwoNames, CommonPhases, CommonOps
  <2> QED BY <1>2, <2>1, NamesJoined DEF NewVM
<1>4. Named(<<"open">> \o NewVM(a), a, n, 1, 4)
  <2>1. Named(<<"open">>, a, n, 1, 1)
    BY OneName, CommonPhases, CommonOps
  <2> QED BY <1>3, <2>1, NamesJoined
<1>5. /\ Named(vm_init(a), a, n, 5, 5)
      /\ a = "amd64" => /\ HasName(vm_init(a), "SET_IDENTITY_MAP_ADDR")
                        /\ HasName(vm_init(a), "SET_TSS_ADDR")
  <2>1. CASE a = "amd64"
    <3>1. vm_init(a) = <<"SET_IDENTITY_MAP_ADDR", "SET_TSS_ADDR">>
      BY <2>1 DEF vm_init
    <3> QED BY <2>1, <3>1, TwoNames, CommonPhases, CommonOps
  <2>2. CASE a = "arm64"
    <3>1. vm_init(a) = << >>
      BY <2>2 DEF vm_init
    <3> QED BY <2>2, <3>1, NoNames
  <2> QED BY <2>1, <2>2 DEF Archs
<1> DEFINE s1 == <<"open">> \o NewVM(a) \o vm_init(a)
           s2 == s1 \o getVCPUMMmapSize
           s3 == s2 \o createIrqController(a)
<1>6. Named(s1, a, n, 1, 5) /\ \A x : HasName(vm_init(a), x) => HasName(s1, x)
  BY <1>4, <1>5, NamesJoined
<1> HIDE DEF s1
<1>7. Named(s2, a, n, 1, 6) /\ \A x : HasName(s1, x) => HasName(s2, x)
  <2>1. Named(<<"GET_VCPU_MMAP_SIZE">>, a, n, 6, 6)
    BY OneName, CommonPhases, CommonOps
  <2> QED BY <1>6, <2>1, NamesJoined DEF getVCPUMMmapSize
<1> HIDE DEF s2
<1>8. /\ Named(createIrqController(a), a, n, 7, 8)
      /\ a = "amd64" => /\ HasName(createIrqController(a), "CREATE_IRQCHIP")
                        /\ HasName(createIrqController(a), "CREATE_PIT2")
      /\ a = "arm64" => /\ HasName(createIrqController(a), "SET_DIST_ADDR")
                        /\ HasName(createIrqController(a), "SET_REDIST_ADDR")
  <2>1. CASE a = "amd64"
    <3>1. createIrqController(a) = <<"CREATE_IRQCHIP", "CREATE_PIT2">>
      BY <2>1 DEF createIrqController, createIrqController_amd64
    <3> QED BY <2>1, <3>1, TwoNames, CommonPhases, CommonOps
  <2>2. CASE a = "arm64"
    <3> DEFINE t == <<"CREATE_DEVICE", "SET_DIST_ADDR", "SET_REDIST_ADDR">>
    <3>1. createIrqController(a) = t
      BY <2>2 DEF createIrqController, createDevice
    <3>2. /\ t \in Seq(OpsOf(a) \ ForOne) /\ Len(t) = 3
          /\ t[1] = "CREATE_DEVICE" /\ t[2] = "SET_DIST_ADDR" /\ t[3] = "SET_REDIST_ADDR"
      BY <2>2, CommonOps
    <3> HIDE DEF t
    <3>3. \A i \in 1 .. Len(t) : i = 1 \/ i = 2 \/ i = 3
      BY <3>2
    <3>4. \A i \in 1 .. Len(t) : Phase(t[i]) = 7
      BY <3>2, <3>3, CommonPhases
    <3>5. Piece(Calls(t, 0), a, n, 7, 8) /\ \A i \in 1 .. Len(t) : Has(Calls(t, 0), Op(t[i], 0))
      <4>1. \A i \in 1 .. Len(t) : 7 <= Phase(t[i]) /\ Phase(t[i]) <= 8
        BY <3>4
      <4>2. \A i, j \in 1 .. Len(t) : i < j => Phase(t[i]) <= Phase(t[j])
        BY <3>4
      <4>3. 7 \in Nat /\ 8 \in Nat /\ t \in Seq(OpsOf(a) \ ForOne)
        BY <3>2
      <4> QED BY <4>1, <4>2, <4>3, CallsPiece
    <3>6. 2 \in 1 .. Len(t) /\ 3 \in 1 .. Len(t)
      BY <3>2
    <3> QED BY <2>2, <3>1, <3>2, <3>5, <3>6 DEF Named, HasName
  <2> QED BY <2>1, <2>2 DEF Archs
<1>9. /\ Named(s3, a, n, 1, 8)
      /\ \A x : HasName(s2, x) \/ HasName(createIrqController(a), x) => HasName(s3, x)
  BY <1>7, <1>8, NamesJoined
<1> QED BY <1>5, <1>6, <1>7, <1>8, <1>9 DEF s1, s2


LEMMA MachineInitPiece ==
  ASSUME NEW a \in Archs, NEW n \in Nat
  PROVE  /\ Piece(m_init(a, n), a, n, 10, 11)
         /\ \A c \in 1 .. n :
              /\ a = "amd64" => Has(m_init(a, n), Op("SET_CPUID2", c))
              /\ a = "arm64" => Has(m_init(a, n), Op("VCPU_INIT", c))
<1>1. CASE a = "amd64"
  <2> DEFINE s == initCPUIDs(n)
  <2>1. m_init(a, n) = s
    BY <1>1 DEF m_init
  <2>2. Piece(s, a, n, 11, 11) /\ \A c \in 1 .. n : Has(s, Op("SET_CPUID2", c))
    BY <1>1, CpuidPiece
  <2> HIDE DEF s
  <2>3. ASSUME NEW i \in 1 .. Len(s) PROVE 10 <= Phase(s[i].op) /\ Phase(s[i].op) <= 11
    <3>1. 11 <= Phase(s[i].op) /\ Phase(s[i].op) <= 11 /\ s[i] \in CallsOf(a, n)
      BY <2>2, SeqElement DEF Piece
    <3>2. Phase(s[i].op) \in Nat
      BY <3>1, PhaseType DEF CallsOf
    <3> QED BY <3>1, <3>2
  <2>4. Piece(s, a, n, 10, 11)
    BY <2>2, <2>3 DEF Piece
  <2> QED BY <1>1, <2>1, <2>2, <2>4
<1>2. CASE a = "arm64"
  <2>1. m_init(a, n) = initVcpus(n)
    BY <1>2 DEF m_init
  <2> QED BY <1>2, <2>1, VcpuInitPiece
<1> QED BY <1>1, <1>2 DEF Archs

LEMMA MemoryNames ==
  ASSUME NEW a \in Archs, NEW n \in Nat
  PROVE  LET s == initMemory \o finalizeIrqController(a)
         IN  /\ Named(s, a, n, 12, 13)
             /\ HasName(s, "SET_RAM") /\ HasName(s, "SET_SYS")
             /\ a = "arm64" => HasName(s, "VGIC_INIT")
<1> DEFINE t == finalizeIrqController(a)
<1>1. /\ Named(initMemory, a, n, 12, 12)
      /\ HasName(initMemory, "SET_RAM") /\ HasName(initMemory, "SET_SYS")
  BY TwoNames, CommonPhases, CommonOps DEF initMemory
<1>2. Named(t, a, n, 13, 13) /\ (a = "arm64" => HasName(t, "VGIC_INIT"))
  <2>1. CASE a = "amd64"
    BY <2>1, NoNames DEF finalizeIrqController
  <2>2. CASE a = "arm64"
    BY <2>2, OneName, CommonPhases, CommonOps DEF finalizeIrqController
  <2> QED BY <2>1, <2>2 DEF Archs
<1> HIDE DEF t
<1>3. /\ Named(initMemory \o t, a, n, 12, 13)
      /\ \A x : HasName(initMemory, x) \/ HasName(t, x) => HasName(initMemory \o t, x)
  BY <1>1, <1>2, NamesJoined
<1> QED BY <1>1, <1>2, <1>3 DEF t

LEMMA KernelNames ==
  ASSUME NEW a \in Archs, NEW n \in Nat, NEW file
  PROVE  /\ Named((IF file THEN <<"open_kernel">> ELSE << >>) \o <<"LoadKernel">>, a, n, 14, 15)
         /\ HasName((IF file THEN <<"open_kernel">> ELSE << >>) \o <<"LoadKernel">>, "LoadKernel")
<1> DEFINE s == IF file THEN <<"open_kernel">> ELSE << >>
           t == <<"LoadKernel">>
<1>1. Named(s, a, n, 14, 14)
  <2>1. CASE file
    BY <2>1, OneName, CommonPhases, CommonOps
  <2>2. CASE ~ file
    BY <2>2, NoNames
  <2> QED BY <2>1, <2>2
<1>2. Named(t, a, n, 15, 15) /\ HasName(t, "LoadKernel")
  BY OneName, CommonPhases, CommonOps
<1> HIDE DEF s, t
<1>3. Named(s \o t, a, n, 14, 15) /\ HasName(s \o t, "LoadKernel")
  BY <1>1, <1>2, NamesJoined
<1> QED BY <1>3 DEF s, t

(* The calls that the program of a machine with n vCPUs cannot do without. *)
Needed(a, n) ==
  {Op("parseMem", 0), Op("SET_RAM", 0), Op("SET_SYS", 0), Op("LoadKernel", 0)}
    \cup {Op("CREATE_VCPU", c) : c \in 1 .. n}
    \cup (IF a = "amd64"
          THEN {Op(x, 0) : x \in {"SET_IDENTITY_MAP_ADDR", "SET_TSS_ADDR", "CREATE_IRQCHIP",
                                  "CREATE_PIT2"}}
                 \cup {Op(x, c) : x \in {"SET_CPUID2", "SET_REGS", "SET_SREGS"}, c \in 1 .. n}
          ELSE {Op(x, 0) : x \in {"SET_DIST_ADDR", "SET_REDIST_ADDR", "VGIC_INIT"}}
                 \cup {Op(x, c) : x \in {"VCPU_INIT", "SET_PC", "SET_X0", "SET_X1", "SET_X2"},
                                   c \in 1 .. n})

(* main's program goes through its phases in order, with every call that   *)
(* is needed.                                                              *)
THEOREM MainPiece ==
  ASSUME NEW c, c.arch \in Archs, c.ncpus \in Nat
  PROVE  /\ Piece(Main(c), c.arch, c.ncpus, 0, 17)
         /\ \A x \in Needed(c.arch, c.ncpus) : Has(Main(c), x)
<1> DEFINE a == c.arch
           n == c.ncpus
           p0 == Calls(<<"parseMem">>, 0)
           p1 == Calls(<<"open">> \o NewVM(a) \o vm_init(a)
                         \o getVCPUMMmapSize \o createIrqController(a), 0)
           p2 == PerCpu(addVCPU \o <<"mmap">>, n)
           p3 == m_init(a, n)
           p4 == Calls(initMemory \o finalizeIrqController(a), 0)
           p5 == Calls((IF c.file THEN <<"open_kernel">> ELSE << >>) \o <<"LoadKernel">>, 0)
           p6 == SetupRegs(a, n)
           p7 == Boots(n)
<1>a. a \in Archs /\ n \in Nat
  OBVIOUS
<1>0. Main(c) = p0 \o (p1 \o p2 \o p3 \o p4) \o p5 \o p6 \o p7
  BY DEF Main, NewMachine
<1>1. Piece(p0, a, n, 0, 0) /\ Has(p0, Op("parseMem", 0))
  BY <1>a, OneName, CommonPhases, CommonOps DEF Named, HasName
<1>2. /\ Piece(p1, a, n, 1, 8)
      /\ a = "amd64" => \A x \in {"SET_IDENTITY_MAP_ADDR", "SET_TSS_ADDR", "CREATE_IRQCHIP",
                                  "CREATE_PIT2"} : Has(p1, Op(x, 0))
      /\ a = "arm64" => \A x \in {"SET_DIST_ADDR", "SET_REDIST_ADDR"} : Has(p1, Op(x, 0))
  BY <1>a, NewVMNames, Zenon DEF Named, HasName
<1>3. Piece(p2, a, n, 9, 9) /\ \A k \in 1 .. n : Has(p2, Op("CREATE_VCPU", k))
  BY <1>a, VcpuPiece
<1>4. /\ Piece(p3, a, n, 10, 11)
      /\ \A k \in 1 .. n : /\ a = "amd64" => Has(p3, Op("SET_CPUID2", k))
                           /\ a = "arm64" => Has(p3, Op("VCPU_INIT", k))
  BY <1>a, MachineInitPiece
<1>5. /\ Piece(p4, a, n, 12, 13)
      /\ Has(p4, Op("SET_RAM", 0)) /\ Has(p4, Op("SET_SYS", 0))
      /\ a = "arm64" => Has(p4, Op("VGIC_INIT", 0))
  BY <1>a, MemoryNames, Zenon DEF Named, HasName
<1>6. Piece(p5, a, n, 14, 15) /\ Has(p5, Op("LoadKernel", 0))
  BY <1>a, KernelNames, Zenon DEF Named, HasName
<1>7. /\ Piece(p6, a, n, 16, 16)
      /\ \A k \in 1 .. n :
           /\ a = "amd64" => Has(p6, Op("SET_REGS", k)) /\ Has(p6, Op("SET_SREGS", k))
           /\ a = "arm64" => /\ Has(p6, Op("SET_PC", k)) /\ Has(p6, Op("SET_X0", k))
                             /\ Has(p6, Op("SET_X1", k)) /\ Has(p6, Op("SET_X2", k))
  BY <1>a, RegsPiece
<1>8. Piece(p7, a, n, 17, 17)
  BY <1>a, BootsPiece
<1> HIDE DEF p0, p1, p2, p3, p4, p5, p6, p7
<1> DEFINE q2 == p1 \o p2
           q3 == q2 \o p3
           q4 == q3 \o p4
           r4 == p0 \o q4
           r5 == r4 \o p5
           r6 == r5 \o p6
           r7 == r6 \o p7
<1>9. Piece(q2, a, n, 1, 9) /\ \A x : Has(q2, x) <=> Has(p1, x) \/ Has(p2, x)
  BY <1>a, <1>2, <1>3, Joined
<1>10. Piece(q3, a, n, 1, 11) /\ \A x : Has(q3, x) <=> Has(q2, x) \/ Has(p3, x)
  <2> HIDE DEF q2
  <2> QED BY <1>a, <1>9, <1>4, Joined
<1>11. Piece(q4, a, n, 1, 13) /\ \A x : Has(q4, x) <=> Has(q3, x) \/ Has(p4, x)
  <2> HIDE DEF q3
  <2> QED BY <1>a, <1>10, <1>5, Joined
<1>12. Piece(r4, a, n, 0, 13) /\ \A x : Has(r4, x) <=> Has(p0, x) \/ Has(q4, x)
  <2> HIDE DEF q4
  <2> QED BY <1>a, <1>1, <1>11, Joined
<1>13. Piece(r5, a, n, 0, 15) /\ \A x : Has(r5, x) <=> Has(r4, x) \/ Has(p5, x)
  <2> HIDE DEF r4
  <2> QED BY <1>a, <1>12, <1>6, Joined
<1>14. Piece(r6, a, n, 0, 16) /\ \A x : Has(r6, x) <=> Has(r5, x) \/ Has(p6, x)
  <2> HIDE DEF r5
  <2> QED BY <1>a, <1>13, <1>7, Joined
<1>15. Piece(r7, a, n, 0, 17) /\ \A x : Has(r7, x) <=> Has(r6, x) \/ Has(p7, x)
  <2> HIDE DEF r6
  <2> QED BY <1>a, <1>14, <1>8, Joined
<1>16. Main(c) = r7
  BY <1>0
<1> HIDE DEF q2, q3, q4, r4, r5, r6, r7
<1> DEFINE H(x) == \/ Has(p0, x) \/ Has(p1, x) \/ Has(p2, x) \/ Has(p3, x) \/ Has(p4, x)
                   \/ Has(p5, x) \/ Has(p6, x)
<1>17. \A x : H(x) => Has(r7, x)
  BY <1>9, <1>10, <1>11, <1>12, <1>13, <1>14, <1>15
<1>18. ASSUME NEW x \in Needed(a, n) PROVE H(x)
  <2>1. CASE x \in {Op("parseMem", 0), Op("SET_RAM", 0), Op("SET_SYS", 0), Op("LoadKernel", 0)}
    BY <1>1, <1>5, <1>6, <2>1
  <2>2. CASE x \in {Op("CREATE_VCPU", k) : k \in 1 .. n}
    BY <1>3, <2>2
  <2>3. CASE /\ a = "amd64"
             /\ x \in {Op(y, 0) : y \in {"SET_IDENTITY_MAP_ADDR", "SET_TSS_ADDR", "CREATE_IRQCHIP",
                                         "CREATE_PIT2"}}
    BY <1>2, <2>3
  <2>4. CASE /\ a = "amd64"
             /\ x \in {Op(y, k) : y \in {"SET_CPUID2", "SET_REGS", "SET_SREGS"}, k \in 1 .. n}
    BY <1>4, <1>7, <2>4
  <2>5. CASE /\ a = "arm64"
             /\ x \in {Op(y, 0) : y \in {"SET_DIST_ADDR", "SET_REDIST_ADDR", "VGIC_INIT"}}
    BY <1>2, <1>5, <2>5
  <2>6. CASE /\ a = "arm64"
             /\ x \in {Op(y, k) : y \in {"VCPU_INIT", "SET_PC", "SET_X0", "SET_X1", "SET_X2"},
                                  k \in 1 .. n}
    BY <1>4, <1>7, <2>6
  <2>7. a = "amd64" \/ (a = "arm64" /\ a # "amd64")
    BY <1>a DEF Archs
  <2> HIDE DEF H
  <2> QED BY <2>1, <2>2, <2>3, <2>4, <2>5, <2>6, <2>7 DEF Needed
<1> QED BY <1>15, <1>16, <1>17, <1>18
-----------------------------------------------------------------------------
(* The descriptors.                                                        *)
AnyObjs == [kind : Kinds, cpu : Nat]
Handles == [kvmfd : FdNumbers \cup {NoFd}, vmfd : FdNumbers \cup {NoFd},
            irqfd : FdNumbers \cup {NoFd}, vcpus : Seq(FdNumbers)]

(* The inductive invariant of the descriptors.  While the finalizer has    *)
(* not run, the number it will close is still /dev/kvm, hence none of the  *)
(* others; once it has run, it never runs again.                           *)
HInv ==
  /\ fds \in [FdNumbers -> AnyObjs]
  /\ m \in Handles
  /\ gc = "open" => m.kvmfd \in FdNumbers /\ fds[m.kvmfd] = Obj("kvm", 0)
  /\ HandlesValid

(* The number that the kernel hands out is free.                           *)
LEMMA NextFdFree == ASSUME SomeFree PROVE NextFd \in FdNumbers /\ fds[NextFd] = NoObj
<1>1. NextFd \in FdNumbers /\ FirstFree(NextFd)
  BY Zenon DEF SomeFree, NextFd
<1> QED
  BY <1>1, Zenon DEF FirstFree

LEMMA ObjTypes ==
  /\ \A k \in Kinds, c \in Nat : Obj(k, c) \in AnyObjs
  /\ {"none", "std", "kvm", "vm", "gic", "vcpu", "file"} \subseteq Kinds
  BY DEF Obj, AnyObjs, Kinds

LEMMA HInitInv == Init => HInv
<1> SUFFICES ASSUME Init PROVE HInv
  OBVIOUS
<1>1. fds \in [FdNumbers -> AnyObjs]
  BY ObjTypes DEF Init, NoObj
<1>2. m \in Handles /\ m.vmfd = NoFd /\ m.irqfd = NoFd /\ m.vcpus = << >>
  BY DEF Init, Handles
<1> QED
  BY <1>1, <1>2 DEF Init, HInv, HandlesValid

(* A new descriptor disturbs none of the numbers in use.                   *)
LEMMA MakesKeeps ==
  ASSUME HInv, NEW op, NEW obj \in AnyObjs, Makes(op, obj)
  PROVE  /\ fds' \in [FdNumbers -> AnyObjs]
         /\ NextFd \in FdNumbers /\ fds'[NextFd] = obj
         /\ \A n \in FdNumbers : fds[n] # NoObj => fds'[n] = fds[n]
<1>1. NextFd \in FdNumbers /\ fds[NextFd] = NoObj
  BY NextFdFree DEF Makes
<1>2. fds \in [FdNumbers -> AnyObjs] /\ fds' = [fds EXCEPT ![NextFd] = obj]
  BY DEF HInv, Makes
<1> QED
  BY <1>1, <1>2

(* The numbers of Machine and vm name something, so their objects stay.    *)
LEMMA HandlesKept ==
  ASSUME HInv, \A n \in FdNumbers : fds[n] # NoObj => fds'[n] = fds[n]
  PROVE  /\ m.vmfd # NoFd => fds'[m.vmfd] = Obj("vm", 0)
         /\ m.irqfd # NoFd => fds'[m.irqfd] = Obj("gic", 0)
         /\ \A i \in DOMAIN m.vcpus : fds'[m.vcpus[i]] = Obj("vcpu", i)
         /\ gc = "open" => fds'[m.kvmfd] = Obj("kvm", 0)
<1>1. \A k, c : k # "none" => Obj(k, c) # NoObj
  BY DEF Obj, NoObj
<1>2. \A i \in DOMAIN m.vcpus : m.vcpus[i] \in FdNumbers
  BY DEF HInv, Handles
<1>3. m.vmfd \in FdNumbers \cup {NoFd} /\ m.irqfd \in FdNumbers \cup {NoFd}
  BY DEF HInv, Handles
<1> QED
  BY <1>1, <1>2, <1>3 DEF HInv, HandlesValid

LEMMA HNextInv == HInv /\ [Next]_vars => HInv'
<1> SUFFICES ASSUME HInv, [Next]_vars PROVE HInv'
  OBVIOUS
<1> USE ObjTypes
<1>1. CASE OpenKvm
  <2>1. Obj("kvm", 0) \in AnyObjs
    OBVIOUS
  <2>2. m' = [m EXCEPT !.kvmfd = NextFd] /\ gc' = "open"
    BY <1>1 DEF OpenKvm
  <2>3. /\ fds' \in [FdNumbers -> AnyObjs]
        /\ NextFd \in FdNumbers /\ fds'[NextFd] = Obj("kvm", 0)
        /\ \A n \in FdNumbers : fds[n] # NoObj => fds'[n] = fds[n]
    BY <1>1, <2>1, MakesKeeps DEF OpenKvm
  <2>4. /\ m' \in Handles /\ m'.kvmfd = NextFd
        /\ m'.vmfd = m.vmfd /\ m'.irqfd = m.irqfd /\ m'.vcpus = m.vcpus
    BY <2>2, <2>3 DEF HInv, Handles
  <2> QED
    BY <2>2, <2>3, <2>4, HandlesKept DEF HInv, HandlesValid
<1>2. CASE CreateVM
  <2>1. Obj("vm", 0) \in AnyObjs
    OBVIOUS
  <2>2. m' = [m EXCEPT !.vmfd = NextFd] /\ gc' = gc
    BY <1>2 DEF CreateVM
  <2>3. /\ fds' \in [FdNumbers -> AnyObjs]
        /\ NextFd \in FdNumbers /\ fds'[NextFd] = Obj("vm", 0)
        /\ \A n \in FdNumbers : fds[n] # NoObj => fds'[n] = fds[n]
    BY <1>2, <2>1, MakesKeeps DEF CreateVM
  <2>4. /\ m' \in Handles /\ m'.vmfd = NextFd
        /\ m'.kvmfd = m.kvmfd /\ m'.irqfd = m.irqfd /\ m'.vcpus = m.vcpus
    BY <2>2, <2>3 DEF HInv, Handles
  <2> QED
    BY <2>2, <2>3, <2>4, HandlesKept DEF HInv, HandlesValid
<1>3. CASE CreateDevice
  <2>1. Obj("gic", 0) \in AnyObjs
    OBVIOUS
  <2>2. m' = [m EXCEPT !.irqfd = NextFd] /\ gc' = gc
    BY <1>3 DEF CreateDevice
  <2>3. /\ fds' \in [FdNumbers -> AnyObjs]
        /\ NextFd \in FdNumbers /\ fds'[NextFd] = Obj("gic", 0)
        /\ \A n \in FdNumbers : fds[n] # NoObj => fds'[n] = fds[n]
    BY <1>3, <2>1, MakesKeeps DEF CreateDevice
  <2>4. /\ m' \in Handles /\ m'.irqfd = NextFd
        /\ m'.kvmfd = m.kvmfd /\ m'.vmfd = m.vmfd /\ m'.vcpus = m.vcpus
    BY <2>2, <2>3 DEF HInv, Handles
  <2> QED
    BY <2>2, <2>3, <2>4, HandlesKept DEF HInv, HandlesValid
<1>4. CASE OpenKernel
  <2>1. Obj("file", 0) \in AnyObjs
    OBVIOUS
  <2>2. /\ fds' \in [FdNumbers -> AnyObjs]
        /\ \A n \in FdNumbers : fds[n] # NoObj => fds'[n] = fds[n]
    BY <1>4, <2>1, MakesKeeps DEF OpenKernel
  <2> QED
    BY <1>4, <2>2, HandlesKept DEF OpenKernel, HInv, HandlesValid
<1>5. CASE CreateVCPU
  <2> DEFINE n == Len(m.vcpus) + 1
  <2>1. m.vcpus \in Seq(FdNumbers)
    BY DEF HInv, Handles
  <2>2. n \in Nat /\ Obj("vcpu", n) \in AnyObjs
    BY <2>1
  <2>3. m' = [m EXCEPT !.vcpus = Append(m.vcpus, NextFd)] /\ gc' = gc
    BY <1>5 DEF CreateVCPU
  <2>4. Makes("CREATE_VCPU", Obj("vcpu", n))
    BY <1>5 DEF CreateVCPU
  <2> HIDE DEF n
  <2>5. /\ fds' \in [FdNumbers -> AnyObjs]
        /\ NextFd \in FdNumbers /\ fds'[NextFd] = Obj("vcpu", n)
        /\ \A k \in FdNumbers : fds[k] # NoObj => fds'[k] = fds[k]
    BY <2>2, <2>4, MakesKeeps
  <2>6. /\ m'.vcpus = Append(m.vcpus, NextFd)
        /\ m'.kvmfd = m.kvmfd /\ m'.vmfd = m.vmfd /\ m'.irqfd = m.irqfd
    BY <2>3 DEF HInv, Handles
  <2>7. m' \in Handles
    <3>1. Append(m.vcpus, NextFd) \in Seq(FdNumbers)
      BY <2>1, <2>5
    <3> QED
      BY <2>3, <3>1, Zenon DEF HInv, Handles
  <2>8. \A i \in DOMAIN m'.vcpus : fds'[m'.vcpus[i]] = Obj("vcpu", i)
    <3> SUFFICES ASSUME NEW i \in DOMAIN m'.vcpus PROVE fds'[m'.vcpus[i]] = Obj("vcpu", i)
      OBVIOUS
    <3>1. \/ i = n /\ m'.vcpus[i] = NextFd
          \/ i \in DOMAIN m.vcpus /\ m'.vcpus[i] = m.vcpus[i]
      BY <2>1, <2>5, <2>6 DEF n
    <3> QED
      BY <2>5, <3>1, HandlesKept
  <2> QED
    BY <2>3, <2>5, <2>6, <2>7, <2>8, HandlesKept DEF HInv, HandlesValid
<1>6. CASE Collect
  <2>1. /\ fds' = [fds EXCEPT ![m.kvmfd] = NoObj]
        /\ gc = "open" /\ gc' = "closed" /\ m' = m
    BY <1>6 DEF Collect
  <2>2. m.kvmfd \in FdNumbers /\ fds[m.kvmfd] = Obj("kvm", 0) /\ NoObj \in AnyObjs
    BY <2>1 DEF HInv, NoObj
  <2>3. /\ fds' \in [FdNumbers -> AnyObjs]
        /\ \A k \in FdNumbers \ {m.kvmfd} : fds'[k] = fds[k]
    BY <2>1, <2>2 DEF HInv
  <2>4. \A k, c : k # "kvm" => Obj(k, c) # Obj("kvm", 0)
    BY DEF Obj
  <2>5. /\ \A i \in DOMAIN m.vcpus : m.vcpus[i] \in FdNumbers
        /\ m.vmfd \in FdNumbers \cup {NoFd} /\ m.irqfd \in FdNumbers \cup {NoFd}
    BY DEF HInv, Handles
  <2>6. HandlesValid'
    BY <2>1, <2>2, <2>3, <2>4, <2>5 DEF HInv, HandlesValid
  <2> QED
    BY <2>1, <2>3, <2>6 DEF HInv
<1>7. CASE UNCHANGED <<fds, gc, m>>
  BY <1>7 DEF HInv, HandlesValid
<1>8. ASSUME \/ ParseMem \/ MmapRam \/ Ask \/ AskPMU \/ SetIdentityMapAddr \/ SetupVM
             \/ SetCPUID2 \/ VcpuInit \/ Load \/ SetRegs \/ SingleStep \/ Go \/ Fail
             \/ Ended \/ UNCHANGED vars
      PROVE  UNCHANGED <<fds, gc, m>>
  BY <1>8 DEF ParseMem, MmapRam, Ask, AskPMU, SetIdentityMapAddr, SetupVM, SetCPUID2, VcpuInit,
              Load, SetRegs, SingleStep, Go, Fail, Ended, vars
<1> QED
  BY <1>1, <1>2, <1>3, <1>4, <1>5, <1>6, <1>7, <1>8 DEF Next

(* The numbers that the hypervisor keeps for the VM, the interrupt         *)
(* controller and every vCPU name them for ever: for any program of calls  *)
(* and any number of vCPUs, whenever the finalizer of /dev/kvm runs and    *)
(* whichever descriptor gets its number.                                   *)
THEOREM HandlesStayValid == Spec => []HandlesValid
<1>1. HInv => HandlesValid
  BY DEF HInv
<1> QED
  BY <1>1, HInitInv, HNextInv, PTL DEF Spec
-----------------------------------------------------------------------------
(* RAM ends below the I/O APIC, and the redistributors below RAM.          *)
LayoutFits ==
  \A c \in Commands :
    /\ c.ncpus \in Nat /\ GIC_REDIST_CPUI_BASE + GIC_REDIST_CPUI_SIZE * c.ncpus <= physRamBase
    /\ CanParse(c.mem) => /\ parseMem(c.mem).pages \in Nat
                          /\ physRamBase + parseMem(c.mem).pages <= 1043456

Asked == {0} \cup (IF CanParse(cmd.mem) THEN {parseMem(cmd.mem).pages} ELSE {})

(* The regions that the calls may ever add.                                *)
Possible ==
  {Region("identity", kvmIdentityMapStart + high * 1048576, 1) : high \in HighHalves}
    \cup {Region("tss", kvmTSSStart, TssPages), Region("sys", physSysBase, 1),
          Region("dist", GIC_DIST_BASE, GIC_DIST_SIZE),
          Region("redist", GIC_REDIST_CPUI_BASE, GIC_REDIST_CPUI_SIZE * ncpus)}
    \cup ApicRegions
    \cup {Region("ram", physRamBase, pages) : pages \in Asked}

(* The inductive invariant of the layout: it says which regions there may  *)
(* be, not in which order they came.                                       *)
RInv ==
  /\ cmd \in Commands
  /\ "size" \in DOMAIN image /\ image.size.pages \in Asked
  /\ "regions" \in DOMAIN kvm /\ kvm.regions \subseteq Possible

(* Where a region lies, by its name.                                       *)
Placed(x) ==
  /\ x.name \in {"sys", "identity", "tss", "dist", "redist", "ram", "ioapic", "lapic"}
  /\ x.base \in Nat /\ x.size \in Nat
  /\ x.name = "sys" => x.base = 4 /\ x.size = 1
  /\ x.name = "identity" => x.size = 1 /\ \E h \in Nat : x.base = 16 + h * 1048576
  /\ x.name = "tss" => x.base = 17 /\ x.size = 3
  /\ x.name = "dist" => x.base = 256 /\ x.size = 16
  /\ x.name = "redist" => x.base = 272 /\ x.base + x.size <= 262144
  /\ x.name = "ram" => x.base = 262144 /\ x.base + x.size <= 1043456
  /\ x.name = "ioapic" => x.base = 1043456 /\ x.size = 1
  /\ x.name = "lapic" => x.base = 1043968 /\ x.size = 1

LEMMA PossiblePlaced ==
  ASSUME LayoutFits, cmd \in Commands, NEW x \in Possible
  PROVE  Placed(x)
<1>1. CASE \E high \in HighHalves :
             x = Region("identity", kvmIdentityMapStart + high * 1048576, 1)
  <2>1. PICK high \in HighHalves : x = Region("identity", 16 + high * 1048576, 1)
    BY <1>1 DEF kvmIdentityMapStart
  <2>2. high \in Nat
    BY LaunchConstants, Zenon
  <2> QED
    BY <2>1, <2>2 DEF Placed, Region
<1>2. CASE x \in {Region("tss", kvmTSSStart, TssPages), Region("sys", physSysBase, 1)}
  BY <1>2 DEF Placed, Region, kvmTSSStart, kvmIdentityMapStart, TssPages, physSysBase
<1>3. CASE x = Region("dist", GIC_DIST_BASE, GIC_DIST_SIZE)
  BY <1>3 DEF Placed, Region, GIC_DIST_BASE, GIC_DIST_SIZE
<1>4. CASE x = Region("redist", GIC_REDIST_CPUI_BASE, GIC_REDIST_CPUI_SIZE * ncpus)
  <2>1. ncpus \in Nat /\ 272 + 32 * ncpus <= 262144
    BY DEF LayoutFits, ncpus, physRamBase, GIC_REDIST_CPUI_BASE, GIC_REDIST_CPUI_SIZE,
           GIC_DIST_BASE, GIC_DIST_SIZE
  <2>2. x = Region("redist", 272, 32 * ncpus)
    BY <1>4 DEF GIC_REDIST_CPUI_BASE, GIC_REDIST_CPUI_SIZE, GIC_DIST_BASE, GIC_DIST_SIZE
  <2> QED
    BY <2>1, <2>2 DEF Placed, Region
<1>5. CASE x \in ApicRegions
  BY <1>5 DEF Placed, Region, ApicRegions
<1>6. CASE \E pages \in Asked : x = Region("ram", physRamBase, pages)
  <2>1. PICK pages \in Asked : x = Region("ram", physRamBase, pages)
    BY <1>6
  <2>2. pages \in Nat /\ 262144 + pages <= 1043456
    BY DEF Asked, LayoutFits, physRamBase
  <2> QED
    BY <2>1, <2>2 DEF Placed, Region, physRamBase
<1> QED
  BY <1>1, <1>2, <1>3, <1>4, <1>5, <1>6 DEF Possible

LEMMA RamAsked ==
  ASSUME NEW x \in Possible, x.name = "ram"
  PROVE  \E p \in Asked : x = Region("ram", physRamBase, p)
BY DEF Possible, Region, ApicRegions

LEMMA IdentityPlace ==
  ASSUME NEW x \in Possible, x.name = "identity"
  PROVE  \E g \in Nat : x = Region("identity", 16 + g * 1048576, 1)
BY LaunchConstants DEF Possible, Region, ApicRegions, kvmIdentityMapStart

(* Two regions of the same name are one, or one of them is empty, or they  *)
(* are two identity maps.                                                  *)
LEMMA SameName ==
  ASSUME LayoutFits, cmd \in Commands, NEW r \in Possible, NEW s \in Possible,
         r # s, r.name = s.name
  PROVE  ~ Overlap(r, s)
<1> USE DEF Overlap
<1>1. Placed(r) /\ Placed(s)
  BY PossiblePlaced
<1>2. CASE r.name = "identity"
  <2>1. PICK g \in Nat : r = Region("identity", 16 + g * 1048576, 1)
    BY <1>2, IdentityPlace
  <2>2. s.name = "identity"
    BY <1>2, Zenon
  <2>3. PICK h \in Nat : s = Region("identity", 16 + h * 1048576, 1)
    BY <2>2, IdentityPlace
  <2>4. r.base = 16 + g * 1048576 /\ r.size = 1 /\ s.base = 16 + h * 1048576 /\ s.size = 1
    BY <2>1, <2>3 DEF Region
  <2>5. g < h \/ h < g
    BY <2>1, <2>3
  <2> QED
    BY <2>4, <2>5
<1>3. CASE r.name = "ram"
  <2>1. PICK p \in Asked : r = Region("ram", physRamBase, p)
    BY <1>3, RamAsked
  <2>2. s.name = "ram"
    BY <1>3, Zenon
  <2>3. PICK q \in Asked : s = Region("ram", physRamBase, q)
    BY <2>2, RamAsked
  <2>4. p = 0 \/ q = 0
    BY <2>1, <2>3 DEF Asked
  <2> QED
    BY <1>1, <2>1, <2>3, <2>4 DEF Placed, Region, physRamBase
<1>4. CASE r.name \notin {"identity", "ram"}
  BY <1>4 DEF Possible, Region, ApicRegions
<1> QED
  BY <1>2, <1>3, <1>4

(* The constants of the layout keep the regions apart.                     *)
LEMMA PossibleDisjoint ==
  ASSUME LayoutFits, cmd \in Commands, NEW r \in Possible, NEW s \in Possible, r # s
  PROVE  ~ Overlap(r, s)
<1>1. Placed(r) /\ Placed(s)
  BY PossiblePlaced
<1>2. CASE r.name = s.name
  BY <1>2, SameName
<1> USE DEF Placed, Overlap
<1>3. CASE r.name # s.name /\ r.name \in {"sys", "identity", "tss"}
  BY <1>1, <1>3
<1>4. CASE r.name # s.name /\ r.name \in {"dist", "redist", "ram"}
  BY <1>1, <1>4
<1>5. CASE r.name # s.name /\ r.name \in {"ioapic", "lapic"}
  BY <1>1, <1>5
<1> QED
  BY <1>1, <1>2, <1>3, <1>4, <1>5

LEMMA RInitInv == Init => RInv
  BY DEF Init, RInv, Asked, NoSize, Size

LEMMA RNextInv == RInv /\ [Next]_vars => RInv'
<1> SUFFICES ASSUME RInv, [Next]_vars PROVE RInv'
  OBVIOUS
<1>1. cmd' = cmd
  <2>1. ASSUME NEW ops, Succeeds(ops) PROVE cmd' = cmd
    BY <2>1 DEF Succeeds, Proceed
  <2>2. CASE ParseMem \/ MmapRam \/ Ask \/ SetIdentityMapAddr \/ SetupVM \/ SetCPUID2
             \/ VcpuInit \/ SetRegs
    BY <2>1, <2>2 DEF ParseMem, MmapRam, Ask, SetIdentityMapAddr, SetupVM, SetCPUID2, VcpuInit,
                      SetRegs
  <2>3. CASE OpenKvm \/ CreateVM \/ CreateDevice \/ OpenKernel \/ CreateVCPU
    BY <2>1, <2>3 DEF OpenKvm, CreateVM, CreateDevice, OpenKernel, CreateVCPU, Makes
  <2>4. CASE AskPMU \/ Load
    BY <2>4 DEF AskPMU, Load, Proceed
  <2>5. CASE SingleStep
    BY <2>1, <2>5 DEF SingleStep
  <2>6. CASE Go \/ Fail \/ Collect \/ Ended \/ UNCHANGED vars
    BY <2>6 DEF Go, Fail, Collect, Ended, vars
  <2> QED
    BY <2>2, <2>3, <2>4, <2>5, <2>6 DEF Next
<1>2. Asked' = Asked /\ Possible' = Possible
  BY <1>1 DEF Asked, Possible, ncpus
<1>3. CASE ParseMem
  <2>1. CanParse(cmd.mem)
    BY <1>3 DEF ParseMem, Succeeds, Calling, GoodInput
  <2>2. image'.size = parseMem(cmd.mem) /\ "size" \in DOMAIN image' /\ kvm' = kvm
    BY <1>3 DEF ParseMem, RInv
  <2> QED
    BY <1>1, <1>2, <2>1, <2>2 DEF RInv, Asked
<1>4. CASE SetIdentityMapAddr
  <2>1. PICK high \in HighHalves : kvm' = [kvm EXCEPT !.regions = kvm.regions \cup
          {Region("identity", kvmIdentityMapStart + high * 1048576, 1)}]
    BY <1>4 DEF SetIdentityMapAddr
  <2>2. Region("identity", kvmIdentityMapStart + high * 1048576, 1) \in Possible
    BY DEF Possible
  <2>3. kvm'.regions \subseteq Possible /\ "regions" \in DOMAIN kvm' /\ image' = image
    BY <1>4, <2>1, <2>2 DEF SetIdentityMapAddr, RInv
  <2> QED
    BY <1>1, <1>2, <2>3 DEF RInv
<1>5. CASE SetupVM
  <2>1. Regions(Call.op) \subseteq Possible
    BY DEF Regions, RamRegion, Possible, RInv
  <2>2. /\ kvm'.regions = kvm.regions \cup Regions(Call.op)
        /\ "regions" \in DOMAIN kvm' /\ image' = image
    BY <1>5 DEF SetupVM, RInv
  <2> QED
    BY <1>1, <1>2, <2>1, <2>2 DEF RInv
<1>6. CASE MmapRam \/ Load
  <2>1. image'.size = image.size /\ "size" \in DOMAIN image' /\ kvm' = kvm
    BY <1>6, Zenon DEF MmapRam, Load, RInv
  <2> QED
    BY <1>1, <1>2, <2>1 DEF RInv
<1>7. CASE SetCPUID2 \/ VcpuInit \/ SetRegs \/ SingleStep \/ Go
  <2>1. kvm'.regions = kvm.regions /\ "regions" \in DOMAIN kvm' /\ image' = image
    BY <1>7 DEF SetCPUID2, VcpuInit, SetRegs, SingleStep, Go, RInv
  <2> QED
    BY <1>1, <1>2, <2>1 DEF RInv
<1>8. CASE \/ Ask \/ AskPMU \/ OpenKvm \/ CreateVM \/ CreateDevice \/ OpenKernel
           \/ CreateVCPU \/ Fail \/ Collect \/ Ended \/ UNCHANGED vars
  <2>1. kvm' = kvm /\ image' = image
    BY <1>8 DEF Ask, AskPMU, OpenKvm, CreateVM, CreateDevice, OpenKernel, CreateVCPU, Makes,
                Fail, Collect, Ended, vars
  <2> QED
    BY <1>1, <1>2, <2>1 DEF RInv
<1> QED
  BY <1>3, <1>4, <1>5, <1>6, <1>7, <1>8 DEF Next

(* When RAM ends below the I/O APIC, no two regions of guest-physical      *)
(* memory meet, wherever the uninitialised half of the address put the     *)
(* identity map and in whatever order the regions come.                    *)
THEOREM LayoutDisjoint == ASSUME LayoutFits PROVE Spec => []RegionsDisjoint
<1>1. RInv => RegionsDisjoint
  BY PossibleDisjoint DEF RInv, RegionsDisjoint
<1> QED
  BY <1>1, RInitInv, RNextInv, PTL DEF Spec

(* And then all the memory that -mem asked for is memory.                  *)
THEOREM AllMemoryAvailable == ASSUME LayoutFits PROVE Spec => []MemoryAvailable
<1>1. RInv => MemoryAvailable
  BY PossibleDisjoint DEF RInv, MemoryAvailable
<1> QED
  BY <1>1, RInitInv, RNextInv, PTL DEF Spec

(* A pointer that argv.WriteAt stores is one that ka2pa takes back to the  *)
(* cell it was made from, on both machines.  On amd64 this needs memory to *)
(* end where the kernel's text begins, kernTextBase - kernBase: a pointer  *)
(* beyond is taken for one into the text.                                  *)
THEOREM PointersRoundTrip ==
  ASSUME NEW a \in Archs, NEW pa \in Nat, pa < kernBase, pa < kernTextBase - kernBase \/ a # "amd64"
  PROVE  ka2pa(a, pa2ka(pa)) = pa /\ ka2pa(a, pa) = pa
  BY ImageConstants DEF ka2pa, pa2ka
-----------------------------------------------------------------------------
(* The execution.                                                          *)

Prog == Main(cmd)
Pos == Len(Prog) - Len(todo)
Table(h) == initCPUID(GetSupportedCPUID(h)).entries

(* Where main is in its program.                                           *)
Track ==
  /\ todo \in Seq(CallsOf(arch, ncpus)) /\ Len(todo) <= Len(Prog)
  /\ \A i \in 1 .. Len(todo) : todo[i] = Prog[Pos + i]

(* The registers that entry.S expects on amd64.                            *)
ProtectedMode(regs) == 0 \in regs.cr0 /\ {2, 31} \cap regs.cr0 = {} /\ 9 \in regs.cr4

NamesOf(op) ==
  CASE op = "SET_IDENTITY_MAP_ADDR" -> {"identity"}
    [] op = "SET_TSS_ADDR" -> {"tss"}
    [] op = "CREATE_IRQCHIP" -> {"ioapic", "lapic"}
    [] op = "SET_DIST_ADDR" -> {"dist"}
    [] op = "SET_REDIST_ADDR" -> {"redist"}
    [] op = "SET_RAM" -> {"ram"}
    [] op = "SET_SYS" -> {"sys"}
    [] OTHER -> {}

(* What a call has achieved, for the command c, the host h, the memory i,  *)
(* what KVM holds k and the handles hs.                                    *)
Achieved(x, c, h, i, k, hs) ==
  /\ x.op \in {"parseMem", "SET_RAM", "SET_REGS", "SET_X0"} => i.size = parseMem(c.mem)
  /\ x.op = "GET_SUPPORTED_CPUID" => Fits(h)
  /\ NamesOf(x.op) \subseteq {r.name : r \in k.regions}
  /\ Chips(x.op) \subseteq k.chips
  /\ x.op = "SET_RAM" => \E r \in k.regions : r.name = "ram" /\ r.size = i.size.pages
  /\ x.op = "CREATE_VCPU" => x.cpu <= Len(hs.vcpus)
  /\ x.op = "SET_CPUID2" => k.cpuid[x.cpu] = Table(h)
  /\ x.op = "VCPU_INIT" => x.cpu \in k.inited
  /\ x.op \in {"SET_REGS", "SET_PC"} => k.regs[x.cpu].pc = c.kernel.entry
  /\ x.op \in {"SET_REGS", "SET_X0"} => k.regs[x.cpu].mem = i.size.pages
  /\ x.op = "SET_SREGS" => ProtectedMode(k.regs[x.cpu])

(* The shape of the records; what their fields hold is left open.          *)
RegsShape(r) ==
  r = [pc |-> r.pc, mem |-> r.mem, argc |-> r.argc, argv |-> r.argv, cr0 |-> r.cr0, cr4 |-> r.cr4]

KvmShape(k) ==
  /\ k = [regions |-> k.regions, chips |-> k.chips, inited |-> k.inited, cpuid |-> k.cpuid,
          regs |-> k.regs, debug |-> k.debug, running |-> k.running]
  /\ k.cpuid = [c \in Cpus |-> k.cpuid[c]]
  /\ k.regs = [c \in Cpus |-> k.regs[c]] /\ \A c \in Cpus : RegsShape(k.regs[c])

ImageShape(i) == i = [size |-> i.size, mem |-> i.mem, argv |-> i.argv]

Shape ==
  /\ cmd \in Commands /\ host \in HostTables
  /\ ImageShape(image) /\ KvmShape(kvm)

(* A call of this name has been made.                                      *)
Made(op) == \E i \in 1 .. Pos : Prog[i].op = op

(* The calls made have their effect, and what only a call can bring about  *)
(* is not there before it.                                                 *)
Effects ==
  /\ \A i \in 1 .. Pos : Achieved(Prog[i], cmd, host, image, kvm, m)
  /\ Len(m.vcpus) <= ncpus
  /\ \A i \in Pos + 1 .. Len(Prog) : Prog[i].op = "CREATE_VCPU" => Len(m.vcpus) < Prog[i].cpu
  /\ m.vcpus # << >> => Made("CREATE_VCPU")
  /\ kvm.chips \subseteq (IF arch = "amd64" THEN {"irqchip", "pit"} ELSE {"vgic"})
  /\ "vgic" \in kvm.chips => Made("VGIC_INIT")
  /\ kvm.running # {} => Made("go")

Outcome ==
  /\ state \in {"boot", "failed", "panic", "run"}
  /\ err \in {"none", "host", "stale", "input"}
  /\ (err = "none") = (state \in {"boot", "run"})
  /\ gc \in {"none", "open", "closed"}
  /\ fds \in [FdNumbers -> Objs]
  /\ kvm.inited \cup kvm.debug \cup kvm.running \subseteq 1 .. ncpus

OInv == Shape /\ Track /\ Effects /\ Outcome

-----------------------------------------------------------------------------
LEMMA CommandPiece ==
  ASSUME NEW c \in Commands
  PROVE  /\ Piece(Main(c), c.arch, c.ncpus, 0, 17)
         /\ \A x \in Needed(c.arch, c.ncpus) : Has(Main(c), x)
BY LaunchConstants, MachineConstants, MainPiece

LEMMA ProgFacts ==
  ASSUME cmd \in Commands
  PROVE  /\ arch \in Archs /\ ncpus \in Nat /\ ncpus <= MaxCpus /\ MaxCpus \in Nat
         /\ Prog \in Seq(CallsOf(arch, ncpus)) /\ Len(Prog) \in Nat
         /\ \A i \in 1 .. Len(Prog) : Prog[i] \in CallsOf(arch, ncpus) /\ Phase(Prog[i].op) \in Nat
         /\ \A i, j \in 1 .. Len(Prog) : i < j => Phase(Prog[i].op) <= Phase(Prog[j].op)
<1>1. arch \in Archs /\ ncpus \in Nat /\ ncpus <= MaxCpus /\ MaxCpus \in Nat
  BY LaunchConstants, MachineConstants DEF arch, ncpus
<1>2. Piece(Prog, arch, ncpus, 0, 17)
  BY CommandPiece DEF Prog, arch, ncpus
<1>3. Prog \in Seq(CallsOf(arch, ncpus))
  BY <1>2 DEF Piece
<1>4. Len(Prog) \in Nat /\ \A i \in 1 .. Len(Prog) : Prog[i] \in CallsOf(arch, ncpus)
  BY <1>3, SeqLen, SeqElement
<1>5. \A x \in CallsOf(arch, ncpus) : Phase(x.op) \in Nat
  BY <1>1, PhaseType DEF CallsOf
<1>6. \A i, j \in 1 .. Len(Prog) : i < j => Phase(Prog[i].op) <= Phase(Prog[j].op)
  BY <1>2 DEF Piece
<1> QED BY <1>1, <1>3, <1>4, <1>5, <1>6

(* A needed call of an earlier phase comes earlier.                        *)
LEMMA Earlier ==
  ASSUME cmd \in Commands, NEW i \in 1 .. Len(Prog), NEW x \in Needed(arch, ncpus),
         Phase(x.op) < Phase(Prog[i].op)
  PROVE  \E j \in 1 .. Len(Prog) : j < i /\ Prog[j] = x
<1>1. PICK j \in 1 .. Len(Prog) : Prog[j] = x
  BY CommandPiece, Zenon DEF Prog, arch, ncpus, Has
<1>2. Phase(Prog[i].op) \in Nat /\ Phase(Prog[j].op) \in Nat
  BY ProgFacts
<1>3. ~ (Phase(Prog[i].op) <= Phase(Prog[j].op))
  BY <1>1, <1>2
<1>4. j # i /\ ~ (i < j)
  BY <1>1, <1>2, <1>3, ProgFacts
<1>5. j < i
  BY <1>4, ProgFacts
<1> QED BY <1>1, <1>5

LEMMA PosFacts ==
  ASSUME Shape, Track
  PROVE  /\ Len(todo) \in Nat /\ Pos \in 0 .. Len(Prog) /\ Len(todo) = Len(Prog) - Pos
         /\ todo # << >> => /\ Pos + 1 \in 1 .. Len(Prog) /\ Call = Prog[Pos + 1]
                            /\ Call \in CallsOf(arch, ncpus) /\ Call.op \in OpsOf(arch)
                            /\ Call.op \in ForOne => Call.cpu \in 1 .. ncpus
<1>1. /\ todo \in Seq(CallsOf(arch, ncpus)) /\ Len(todo) \in Nat /\ Len(Prog) \in Nat
      /\ Len(todo) <= Len(Prog)
  BY ProgFacts, SeqLen DEF Track, Shape
<1>2. Pos \in 0 .. Len(Prog) /\ Len(todo) = Len(Prog) - Pos
  BY <1>1 DEF Pos
<1>3. ASSUME todo # << >>
      PROVE  /\ Pos + 1 \in 1 .. Len(Prog) /\ Call = Prog[Pos + 1]
             /\ Call \in CallsOf(arch, ncpus)
  <2>1. Len(todo) # 0 /\ Call = todo[1]
    BY <1>1, <1>3, SeqEmpty, SeqHeadTail DEF Call
  <2>2. Pos + 1 \in 1 .. Len(Prog) /\ 1 \in 1 .. Len(todo)
    BY <1>1, <1>2, <2>1
  <2>3. todo[1] = Prog[Pos + 1]
    BY <2>2 DEF Track
  <2> QED BY <2>1, <2>2, <2>3, ProgFacts DEF Shape
<1>4. ASSUME NEW x \in CallsOf(arch, ncpus)
      PROVE  x.op \in OpsOf(arch) /\ (x.op \in ForOne => x.cpu \in 1 .. ncpus)
  BY ProgFacts DEF CallsOf, Shape
<1> QED BY <1>1, <1>2, <1>3, <1>4

LEMMA Advance ==
  ASSUME Shape, Track, todo # << >>, todo' = Tail(todo), cmd' = cmd
  PROVE  Track' /\ Prog' = Prog /\ Pos' = Pos + 1 /\ arch' = arch /\ ncpus' = ncpus
<1> DEFINE S == CallsOf(arch, ncpus)
<1>1. arch' = arch /\ ncpus' = ncpus /\ Prog' = Prog
  BY DEF arch, ncpus, Prog
<1>2. todo \in Seq(S) /\ Len(todo) \in Nat /\ Pos \in Nat /\ Len(Prog) \in Nat
  BY PosFacts, ProgFacts DEF Track, Shape
<1>3. todo' \in Seq(S) /\ Len(todo') = Len(todo) - 1 /\ Len(todo') \in Nat
      /\ \A i \in 1 .. Len(todo') : todo'[i] = todo[i + 1]
  BY <1>2, SeqHeadTail
<1>4. Pos' = Pos + 1
  BY <1>1, <1>2, <1>3 DEF Pos
<1>5. ASSUME NEW i \in 1 .. Len(todo') PROVE todo'[i] = Prog[Pos' + i]
  <2>1. i + 1 \in 1 .. Len(todo) /\ Pos + (i + 1) = Pos' + i
    BY <1>2, <1>3, <1>4
  <2>2. todo[i + 1] = Prog[Pos + (i + 1)]
    BY <2>1 DEF Track
  <2> QED BY <1>3, <2>1, <2>2
<1>6. Len(todo') <= Len(Prog)
  BY <1>2, <1>3 DEF Track
<1> QED BY <1>1, <1>3, <1>4, <1>5, <1>6 DEF Track

LEMMA Stays ==
  ASSUME Track, todo' = todo, cmd' = cmd
  PROVE  Track' /\ Prog' = Prog /\ Pos' = Pos /\ arch' = arch /\ ncpus' = ncpus
BY DEF Track, Prog, Pos, arch, ncpus


(* A vCPU that is not single-stepped goes on with its goroutine.           *)
LEMMA Skips ==
  ASSUME Shape, Track, todo # << >>, Call.op = "SET_GUEST_DEBUG", cmd' = cmd,
         NEW k \in DOMAIN todo, NextGo(k), todo' = SubSeq(todo, k, Len(todo))
  PROVE  /\ Track' /\ Prog' = Prog /\ arch' = arch /\ ncpus' = ncpus
         /\ Pos < Pos' /\ Pos' \in 0 .. Len(Prog)
         /\ \A i \in Pos + 1 .. Pos' : Prog[i].op = "SET_GUEST_DEBUG"
<1> DEFINE S == CallsOf(arch, ncpus)
<1>1. arch' = arch /\ ncpus' = ncpus /\ Prog' = Prog
  BY DEF arch, ncpus, Prog
<1>2. /\ todo \in Seq(S) /\ Len(todo) \in Nat /\ Pos \in Nat /\ Len(Prog) \in Nat
      /\ Len(Prog) = Pos + Len(todo)
  <2>1. todo \in Seq(S) /\ cmd \in Commands
    BY Zenon DEF Track, Shape
  <2> QED BY <2>1, PosFacts, ProgFacts, SeqLen
<1>3. k \in 2 .. Len(todo) /\ \A i \in 1 .. Len(todo) : i < k => todo[i].op # "go"
  <2>1. k \in 1 .. Len(todo)
    BY <1>2, SeqLen
  <2>2. Call = todo[1]
    BY <1>2, SeqHeadTail DEF Call
  <2>3. todo[k].op = "go" /\ \A j \in 1 .. (k - 1) : todo[j].op # "go"
    BY Zenon DEF NextGo
  <2> QED BY <1>2, <2>1, <2>2, <2>3
<1> HIDE DEF S
<1>5. /\ todo' \in Seq(S) /\ Len(todo') = Len(todo) - k + 1 /\ Len(todo') \in Nat
      /\ \A i \in 1 .. Len(todo') : todo'[i] = todo[k + i - 1]
  <2>1. k \in Int /\ Len(todo) \in Int /\ \A i \in k .. Len(todo) : todo[i] \in S
    BY <1>2, <1>3, SeqElement
  <2>2. /\ SubSeq(todo, k, Len(todo)) \in Seq(S)
        /\ Len(SubSeq(todo, k, Len(todo))) = IF k <= Len(todo) THEN Len(todo) - k + 1 ELSE 0
        /\ \A i \in 1 .. Len(todo) - k + 1 : SubSeq(todo, k, Len(todo))[i] = todo[k + i - 1]
    BY <2>1, SeqSub
  <2> QED BY <1>3, <1>2, <2>2
<1>6. Pos' = Pos + k - 1 /\ Pos' \in 0 .. Len(Prog) /\ Pos < Pos'
  <2>1. Pos' = Len(Prog) - Len(todo')
    BY <1>1, Zenon DEF Pos
  <2>2. PICK a \in Nat, b \in Nat, p \in Nat, q \in Nat :
          a = Len(todo) /\ b = Len(todo') /\ p = Pos /\ q = Len(Prog)
    BY <1>2, <1>5, Zenon
  <2>3. q = p + a /\ b = a - k + 1 /\ Pos' = q - b /\ k \in 2 .. a
    BY <1>2, <1>3, <1>5, <2>1, <2>2, Zenon
  <2>4. q - b = p + k - 1 /\ q - b \in 0 .. q /\ p < q - b
    BY <2>3
  <2> QED BY <2>2, <2>3, <2>4, Zenon
<1>7. ASSUME NEW i \in 1 .. Len(todo') PROVE todo'[i] = Prog[Pos' + i]
  <2>1. k + i - 1 \in 1 .. Len(todo) /\ Pos + (k + i - 1) = Pos' + i
    BY <1>2, <1>3, <1>5, <1>6
  <2>2. todo[k + i - 1] = Prog[Pos + (k + i - 1)]
    BY <2>1, Zenon DEF Track
  <2> QED BY <1>5, <2>1, <2>2, Zenon
<1>8. Track'
  BY <1>1, <1>2, <1>3, <1>5, <1>7 DEF Track, S
<1>9. ASSUME NEW i \in Pos + 1 .. Pos' PROVE Prog[i].op = "SET_GUEST_DEBUG"
  <2>1. i - Pos \in 1 .. Len(todo) /\ i - Pos < k /\ Pos + (i - Pos) = i
    BY <1>2, <1>3, <1>6
  <2>2. todo[i - Pos] = Prog[i] /\ todo[i - Pos].op # "go"
    BY <1>3, <2>1, Zenon DEF Track
  <2>3. i \in 1 .. Len(Prog) /\ Pos + 1 \in 1 .. Len(Prog) /\ (i = Pos + 1 \/ Pos + 1 < i)
    BY <1>2, <1>6
  <2>4. Prog[Pos + 1].op = "SET_GUEST_DEBUG" /\ Phase("SET_GUEST_DEBUG") = 17
    BY PosFacts, Zenon DEF Phase, OneReg
  <2>5. 17 <= Phase(Prog[i].op)
    BY <2>3, <2>4, ProgFacts DEF Shape
  <2>6. Prog[i].op \in OpsOf(arch) /\ arch \in Archs
    BY <2>3, ProgFacts, Zenon DEF Shape, CallsOf
  <2>7. \A x \in OpsOf(arch) : 17 <= Phase(x) => x \in {"SET_GUEST_DEBUG", "go"}
    BY <2>6 DEF Phase, Archs, OpsOf, OnBoth, OnAmd64, OnArm64, OneReg
  <2> QED BY <2>2, <2>5, <2>6, <2>7
<1> QED BY <1>1, <1>6, <1>8, <1>9

-----------------------------------------------------------------------------
(* What no step ever undoes.                                               *)
Grows ==
  /\ UNCHANGED <<cmd, host>>
  /\ image'.size = image.size \/ image'.size = parseMem(cmd.mem)
  /\ kvm.regions \subseteq kvm'.regions /\ kvm.chips \subseteq kvm'.chips
  /\ kvm.inited \subseteq kvm'.inited
  /\ Len(m.vcpus) <= Len(m'.vcpus)
  /\ \A c \in Cpus :
       /\ kvm'.cpuid[c] = kvm.cpuid[c] \/ kvm'.cpuid[c] = Table(host)
       /\ kvm'.regs[c].pc = kvm.regs[c].pc \/ kvm'.regs[c].pc = cmd.kernel.entry
       /\ kvm'.regs[c].mem = kvm.regs[c].mem \/ kvm'.regs[c].mem = image.size.pages
       /\ ProtectedMode(kvm.regs[c]) => ProtectedMode(kvm'.regs[c])

LEMMA ShapeParts ==
  /\ Shape <=> cmd \in Commands /\ host \in HostTables /\ ImageShape(image) /\ KvmShape(kvm)
  /\ Shape' <=> cmd' \in Commands /\ host' \in HostTables /\ ImageShape(image') /\ KvmShape(kvm')
BY DEF Shape

(* The steps that change memory.                                           *)
LEMMA ImageSteps ==
  ASSUME Shape, m \in Handles, ParseMem \/ MmapRam \/ Load
  PROVE  Shape' /\ Grows
<1>1. ImageShape(image) /\ cmd' = cmd /\ host' = host /\ kvm' = kvm /\ m' = m
  BY ShapeParts DEF ParseMem, MmapRam, Load, Succeeds, Proceed
<1>2. CASE ParseMem
  <2>1. image' = [image EXCEPT !.size = parseMem(cmd.mem)]
    BY <1>2 DEF ParseMem
  <2>2. image'.size = parseMem(cmd.mem) /\ ImageShape(image')
    BY <1>1, <2>1 DEF ImageShape
  <2>3. Len(m.vcpus) \in Nat
    BY SeqLen DEF Handles
  <2> QED BY <1>1, <2>2, <2>3, ShapeParts DEF Grows
<1>3. CASE MmapRam
  <2> DEFINE z == [i \in 1 .. Cells(image.size) |-> Zero]
  <2>1. image' = [image EXCEPT !.mem = z]
    BY <1>3 DEF MmapRam
  <2> HIDE DEF z
  <2>2. image'.size = image.size /\ ImageShape(image')
    BY <1>1, <2>1 DEF ImageShape
  <2>3. Len(m.vcpus) \in Nat
    BY SeqLen DEF Handles
  <2> QED BY <1>1, <2>2, <2>3, ShapeParts DEF Grows
<1>4. CASE Load
  <2> DEFINE l == LoadKernel(arch, image.mem, cmd.kernel.progs, cmd.args)
  <2>1. image' = [image EXCEPT !.mem = l.mem, !.argv = l.argv]
    BY <1>4 DEF Load
  <2> HIDE DEF l
  <2>2. image'.size = image.size /\ ImageShape(image')
    BY <1>1, <2>1, Zenon DEF ImageShape
  <2>3. Len(m.vcpus) \in Nat
    BY SeqLen DEF Handles
  <2> QED BY <1>1, <2>2, <2>3, ShapeParts DEF Grows
<1> QED BY <1>2, <1>3, <1>4

(* The steps that change the handles, or none of it.                       *)
LEMMA HandleSteps ==
  ASSUME Shape, m \in Handles,
         \/ OpenKvm \/ CreateVM \/ CreateDevice \/ CreateVCPU
         \/ Ask \/ AskPMU \/ OpenKernel \/ Fail \/ Collect \/ Ended \/ UNCHANGED vars
  PROVE  Shape' /\ Grows
<1>1. cmd' = cmd /\ host' = host /\ kvm' = kvm /\ image' = image
  BY Zenon DEF OpenKvm, CreateVM, CreateDevice, CreateVCPU, Makes, Succeeds, Proceed,
         Ask, AskPMU, OpenKernel, Fail, Collect, Ended, vars
<1>2. m.vcpus \in Seq(FdNumbers) /\ Len(m.vcpus) \in Nat
  BY SeqLen DEF Handles
<1>3. Len(m.vcpus) <= Len(m'.vcpus)
  <2>1. CASE CreateVCPU
    <3>1. m'.vcpus = Append(m.vcpus, NextFd) /\ SomeFree
      BY <2>1 DEF CreateVCPU, Handles, Makes
    <3>2. Len(Append(m.vcpus, NextFd)) = Len(m.vcpus) + 1
      BY <1>2, <3>1, NextFdFree, SeqAppend
    <3> QED BY <1>2, <3>1, <3>2
  <2>2. CASE OpenKvm \/ CreateVM \/ CreateDevice
    <3>1. m'.vcpus = m.vcpus
      BY <2>2 DEF OpenKvm, CreateVM, CreateDevice, Handles
    <3> QED BY <1>2, <3>1
  <2>3. CASE Ask \/ AskPMU \/ OpenKernel \/ Fail \/ Collect \/ Ended \/ UNCHANGED vars
    <3>1. m' = m
      BY <2>3, Zenon DEF Ask, AskPMU, OpenKernel, Fail, Collect, Ended, vars
    <3> QED BY <1>2, <3>1
  <2> QED BY <2>1, <2>2, <2>3
<1> QED BY <1>1, <1>3, ShapeParts, Zenon DEF Grows


(* The registers after a call that sets them.                              *)
LEMMA SetRegGrows ==
  ASSUME NEW r, RegsShape(r), Call.op \in {"SET_REGS", "SET_SREGS"} \cup OneReg
  PROVE  LET s == SetReg(r)
         IN  /\ RegsShape(s)
             /\ s.pc = IF Call.op \in {"SET_REGS", "SET_PC"} THEN cmd.kernel.entry ELSE r.pc
             /\ s.mem = IF Call.op \in {"SET_REGS", "SET_X0"} THEN image.size.pages ELSE r.mem
             /\ ProtectedMode(r) => ProtectedMode(s)
             /\ Call.op = "SET_SREGS" => ProtectedMode(s)
<1> DEFINE s == SetReg(r)
           entry == cmd.kernel.entry
           pages == image.size.pages
           argc == Len(cmd.args)
<1> HIDE DEF entry, pages, argc
<1>1. CASE Call.op = "SET_REGS"
  <2>1. s = [r EXCEPT !.pc = entry, !.mem = pages, !.argc = argc, !.argv = image.argv]
    BY <1>1 DEF SetReg, initRegs, entry, pages, argc
  <2> HIDE DEF s
  <2>2. /\ RegsShape(s) /\ s.pc = entry /\ s.mem = pages /\ s.cr0 = r.cr0 /\ s.cr4 = r.cr4
    BY <2>1, Zenon DEF RegsShape
  <2> QED BY <1>1, <2>2, Zenon DEF ProtectedMode, entry, pages, s
<1>2. CASE Call.op = "SET_SREGS"
  <2> DEFINE z == (((r.cr0 \cup {0}) \ {2}) \cap (0 .. 15)) \cup {1}
  <2>1. s = [r EXCEPT !.cr0 = z, !.cr4 = {9, 10}]
    BY <1>2 DEF SetReg, initSregs
  <2>2. 0 \in z /\ 2 \notin z /\ 31 \notin z
    OBVIOUS
  <2> HIDE DEF s, z
  <2>3. RegsShape(s) /\ s.pc = r.pc /\ s.mem = r.mem /\ s.cr0 = z /\ s.cr4 = {9, 10}
    BY <2>1, ZenonT(30) DEF RegsShape
  <2> QED BY <1>2, <2>2, <2>3, Zenon DEF ProtectedMode, s
<1>3. CASE Call.op = "SET_PC"
  <2>1. s = [r EXCEPT !.pc = entry]
    BY <1>3 DEF SetReg, entry
  <2> HIDE DEF s
  <2>2. /\ RegsShape(s) /\ s.pc = entry /\ s.mem = r.mem /\ s.cr0 = r.cr0 /\ s.cr4 = r.cr4
    BY <2>1 DEF RegsShape
  <2> QED BY <1>3, <2>2, Zenon DEF ProtectedMode, entry, s
<1>4. CASE Call.op = "SET_X0"
  <2>1. s = [r EXCEPT !.mem = pages]
    BY <1>4 DEF SetReg, pages
  <2> HIDE DEF s
  <2>2. /\ RegsShape(s) /\ s.pc = r.pc /\ s.mem = pages /\ s.cr0 = r.cr0 /\ s.cr4 = r.cr4
    BY <2>1 DEF RegsShape
  <2> QED BY <1>4, <2>2, Zenon DEF ProtectedMode, pages, s
<1>5. CASE Call.op \in {"SET_X1", "SET_X2"}
  <2>1. s = [r EXCEPT !.argc = argc] \/ s = [r EXCEPT !.argv = image.argv]
    BY <1>5 DEF SetReg, argc
  <2> HIDE DEF s
  <2>2. /\ RegsShape(s) /\ s.pc = r.pc /\ s.mem = r.mem /\ s.cr0 = r.cr0 /\ s.cr4 = r.cr4
    BY <2>1 DEF RegsShape
  <2> QED BY <1>5, <2>2, Zenon DEF ProtectedMode, s
<1> QED BY <1>1, <1>2, <1>3, <1>4, <1>5, Zenon DEF OneReg

LEMMA IdentityStep ==
  ASSUME KvmShape(kvm), SetIdentityMapAddr
  PROVE  /\ KvmShape(kvm')
         /\ kvm.regions \subseteq kvm'.regions /\ kvm'.chips = kvm.chips
         /\ kvm'.inited = kvm.inited /\ kvm'.cpuid = kvm.cpuid /\ kvm'.regs = kvm.regs
         /\ kvm'.debug = kvm.debug /\ kvm'.running = kvm.running
         /\ "identity" \in {r.name : r \in kvm'.regions}
<1>1. PICK high \in HighHalves : kvm' = [kvm EXCEPT !.regions = kvm.regions \cup
        {Region("identity", kvmIdentityMapStart + high * 1048576, 1)}]
  BY DEF SetIdentityMapAddr
<1> DEFINE r0 == Region("identity", kvmIdentityMapStart + high * 1048576, 1)
<1>2. kvm' = [kvm EXCEPT !.regions = kvm.regions \cup {r0}] /\ r0.name = "identity"
  BY <1>1 DEF Region
<1> HIDE DEF r0
<1>3. /\ KvmShape(kvm') /\ kvm'.regions = kvm.regions \cup {r0} /\ kvm'.chips = kvm.chips
      /\ kvm'.inited = kvm.inited /\ kvm'.cpuid = kvm.cpuid /\ kvm'.regs = kvm.regs
      /\ kvm'.debug = kvm.debug /\ kvm'.running = kvm.running
  BY <1>2, Zenon DEF KvmShape
<1> QED BY <1>2, <1>3

(* The steps that change what KVM holds, field by field.                   *)
LEMMA KvmSteps ==
  ASSUME Shape, Track, m \in Handles,
         SetIdentityMapAddr \/ SetupVM \/ SetCPUID2 \/ VcpuInit \/ SetRegs \/ SingleStep \/ Go
  PROVE  Shape' /\ Grows
<1>1. KvmShape(kvm) /\ cmd' = cmd /\ host' = host /\ image' = image /\ m' = m
  BY ShapeParts DEF SetIdentityMapAddr, SetupVM, SetCPUID2, VcpuInit, SetRegs, SingleStep, Go,
                    Succeeds, Proceed
<1>2. Len(m.vcpus) \in Nat /\ Len(m.vcpus) <= Len(m'.vcpus)
  <2>1. Len(m.vcpus) \in Nat
    BY SeqLen DEF Handles
  <2> QED BY <1>1, <2>1
<1> SUFFICES /\ KvmShape(kvm')
             /\ kvm.regions \subseteq kvm'.regions /\ kvm.chips \subseteq kvm'.chips
             /\ kvm.inited \subseteq kvm'.inited
             /\ \A c \in Cpus :
                  /\ kvm'.cpuid[c] = kvm.cpuid[c] \/ kvm'.cpuid[c] = Table(host)
                  /\ kvm'.regs[c].pc = kvm.regs[c].pc \/ kvm'.regs[c].pc = cmd.kernel.entry
                  /\ kvm'.regs[c].mem = kvm.regs[c].mem \/ kvm'.regs[c].mem = image.size.pages
                  /\ ProtectedMode(kvm.regs[c]) => ProtectedMode(kvm'.regs[c])
  BY <1>1, <1>2, ShapeParts, Zenon DEF Grows
<1>3. CASE SetIdentityMapAddr \/ SetupVM
  <2>1. /\ kvm.regions \subseteq kvm'.regions /\ kvm.chips \subseteq kvm'.chips
        /\ kvm'.inited = kvm.inited /\ kvm'.cpuid = kvm.cpuid /\ kvm'.regs = kvm.regs
        /\ KvmShape(kvm')
    <3>1. CASE SetupVM
      <4> DEFINE R == Regions(Call.op)
                 C == Chips(Call.op)
      <4>1. kvm' = [kvm EXCEPT !.regions = @ \cup R, !.chips = @ \cup C]
        BY <3>1 DEF SetupVM
      <4> HIDE DEF R, C
      <4> QED BY <1>1, <4>1, Zenon DEF KvmShape
    <3>2. CASE SetIdentityMapAddr
      BY <1>1, <3>2, IdentityStep
    <3> QED BY <1>3, <3>1, <3>2
  <2> QED BY <2>1, Zenon
<1>4. CASE SetCPUID2
  <2>1. kvm' = [kvm EXCEPT !.cpuid = [kvm.cpuid EXCEPT ![Call.cpu] = Table(host)]]
    BY <1>4 DEF SetCPUID2, Table
  <2> DEFINE f == [kvm.cpuid EXCEPT ![Call.cpu] = Table(host)]
  <2>2. f = [c \in Cpus |-> f[c]] /\ \A c \in Cpus : f[c] = kvm.cpuid[c] \/ f[c] = Table(host)
    BY <1>1, Zenon DEF KvmShape
  <2>3. kvm' = [kvm EXCEPT !.cpuid = f]
    BY <2>1
  <2> HIDE DEF f
  <2>4. /\ kvm'.regions = kvm.regions /\ kvm'.chips = kvm.chips
        /\ kvm'.inited = kvm.inited /\ kvm'.cpuid = f /\ kvm'.regs = kvm.regs
        /\ KvmShape(kvm')
    BY <1>1, <2>2, <2>3 DEF KvmShape
  <2> QED BY <2>2, <2>4
<1>5. CASE VcpuInit
  <2>1. kvm' = [kvm EXCEPT !.inited = @ \cup {Call.cpu}]
    BY <1>5 DEF VcpuInit
  <2>2. /\ kvm'.regions = kvm.regions /\ kvm'.chips = kvm.chips
        /\ kvm'.inited = kvm.inited \cup {Call.cpu}
        /\ kvm'.cpuid = kvm.cpuid /\ kvm'.regs = kvm.regs
        /\ KvmShape(kvm')
    BY <1>1, <2>1 DEF KvmShape
  <2> QED BY <2>2, Zenon
<1>6. CASE SetRegs
  <2> DEFINE f == [kvm.regs EXCEPT ![Call.cpu] = SetReg(kvm.regs[Call.cpu])]
  <2>1. /\ kvm' = [kvm EXCEPT !.regs = f]
        /\ Call.op \in {"SET_REGS", "SET_SREGS"} \cup OneReg
    BY <1>6 DEF SetRegs, Succeeds, Calling
  <2>2. \A c \in Cpus : f[c] = kvm.regs[c] \/ f[c] = SetReg(kvm.regs[c])
    <3> DEFINE s == SetReg(kvm.regs[Call.cpu])
    <3>1. f = [kvm.regs EXCEPT ![Call.cpu] = s] /\ DOMAIN kvm.regs = Cpus
      BY <1>1, Zenon DEF KvmShape
    <3> HIDE DEF s, f
    <3>2. \A c \in Cpus : IF c = Call.cpu THEN f[c] = s ELSE f[c] = kvm.regs[c]
      BY <3>1
    <3> QED BY <3>2, Zenon DEF s
  <2>3. f = [c \in Cpus |-> f[c]]
    BY <1>1, Zenon DEF KvmShape
  <2>4. \A c \in Cpus : RegsShape(kvm.regs[c])
    BY <1>1, Zenon DEF KvmShape
  <2> HIDE DEF f
  <2>5. ASSUME NEW c \in Cpus
        PROVE  /\ RegsShape(f[c])
               /\ f[c].pc = kvm.regs[c].pc \/ f[c].pc = cmd.kernel.entry
               /\ f[c].mem = kvm.regs[c].mem \/ f[c].mem = image.size.pages
               /\ ProtectedMode(kvm.regs[c]) => ProtectedMode(f[c])
    BY <2>1, <2>2, <2>4, SetRegGrows
  <2>6. /\ kvm'.regions = kvm.regions /\ kvm'.chips = kvm.chips
        /\ kvm'.inited = kvm.inited /\ kvm'.cpuid = kvm.cpuid /\ kvm'.regs = f
        /\ KvmShape(kvm')
    BY <1>1, <2>1, <2>3, <2>5 DEF KvmShape
  <2> QED BY <2>5, <2>6, Zenon
<1>7. CASE SingleStep \/ Go
  <2>1. /\ kvm'.regions = kvm.regions /\ kvm'.chips = kvm.chips
        /\ kvm'.inited = kvm.inited /\ kvm'.cpuid = kvm.cpuid /\ kvm'.regs = kvm.regs
        /\ KvmShape(kvm')
    <3>1. CASE Go
      <4>1. kvm' = [kvm EXCEPT !.running = @ \cup {Call.cpu}]
        BY <3>1 DEF Go
      <4> QED BY <1>1, <4>1, Zenon DEF KvmShape
    <3>2. CASE SingleStep /\ kvm' = kvm
      BY <1>1, <3>2
    <3>3. CASE SingleStep /\ kvm' # kvm
      <4> DEFINE D == IF cmd.trace THEN kvm.debug \cup {Call.cpu} ELSE kvm.debug \ {Call.cpu}
      <4>1. kvm' = [kvm EXCEPT !.debug = D]
        BY <3>3 DEF SingleStep
      <4> HIDE DEF D
      <4> QED BY <1>1, <4>1 DEF KvmShape
    <3> QED BY <1>7, <3>1, <3>2, <3>3
  <2> QED BY <2>1, Zenon
<1> QED BY <1>3, <1>4, <1>5, <1>6, <1>7, Zenon

-----------------------------------------------------------------------------
(* What a call has achieved stays.                                         *)
LEMMA AchievedStays ==
  ASSUME Shape, m \in Handles, m' \in Handles, Grows, NEW x \in CallsOf(arch, ncpus),
         Achieved(x, cmd, host, image, kvm, m)
  PROVE  Achieved(x, cmd', host', image', kvm', m')
<1>1. x.op \in ForOne => x.cpu \in Cpus
  BY ProgFacts DEF Shape, CallsOf, Cpus
<1>2. x.op \in {"parseMem", "SET_RAM", "SET_REGS", "SET_X0"} => image'.size = parseMem(cmd'.mem)
  BY ZenonT(30) DEF Grows, Achieved
<1>3. x.op \in {"SET_RAM", "SET_REGS", "SET_X0"} => image'.size = image.size
  BY Zenon DEF Grows, Achieved
<1>4. x.op = "GET_SUPPORTED_CPUID" => Fits(host')
  BY Zenon DEF Grows, Achieved
<1>5. NamesOf(x.op) \subseteq {r.name : r \in kvm'.regions} /\ Chips(x.op) \subseteq kvm'.chips
  BY Zenon DEF Grows, Achieved
<1>6. x.op = "SET_RAM" => \E r \in kvm'.regions : r.name = "ram" /\ r.size = image'.size.pages
  BY <1>3, Zenon DEF Grows, Achieved
<1>7. x.op = "CREATE_VCPU" => x.cpu <= Len(m'.vcpus)
  <2>1. Len(m.vcpus) \in Nat /\ Len(m'.vcpus) \in Nat
    BY SeqLen DEF Handles
  <2>2. x.op = "CREATE_VCPU" => x.cpu \in Nat
    BY <1>1, MachineConstants DEF Cpus, ForOne
  <2> QED BY <2>1, <2>2 DEF Grows, Achieved
<1>8. x.op = "SET_CPUID2" => kvm'.cpuid[x.cpu] = Table(host')
  <2>1. x.op = "SET_CPUID2" => x.cpu \in Cpus
    BY <1>1 DEF ForOne
  <2> QED BY <2>1, Zenon DEF Grows, Achieved
<1>9. x.op = "VCPU_INIT" => x.cpu \in kvm'.inited
  BY Zenon DEF Grows, Achieved
<1>10. x.op \in {"SET_REGS", "SET_PC", "SET_X0", "SET_SREGS"} => x.cpu \in Cpus
  BY <1>1 DEF ForOne, OneReg
<1>11. x.op \in {"SET_REGS", "SET_PC"} => kvm'.regs[x.cpu].pc = cmd'.kernel.entry
  BY <1>10, Zenon DEF Grows, Achieved
<1>12. x.op \in {"SET_REGS", "SET_X0"} => kvm'.regs[x.cpu].mem = image'.size.pages
  BY <1>3, <1>10, Zenon DEF Grows, Achieved
<1>13. x.op = "SET_SREGS" => ProtectedMode(kvm'.regs[x.cpu])
  BY <1>10, Zenon DEF Grows, Achieved
<1> QED BY <1>2, <1>4, <1>5, <1>6, <1>7, <1>8, <1>9, <1>11, <1>12, <1>13, Zenon DEF Achieved

(* Most calls have nothing to achieve here.                                *)
Quiet == {"open", "GET_API_VERSION", "CREATE_VM", "mmap_ram", "mmap_sys", "GET_VCPU_MMAP_SIZE",
          "mmap", "open_kernel", "LoadKernel", "SET_GUEST_DEBUG", "go", "CHECK_EXTENSION",
          "CREATE_DEVICE", "PREFERRED_TARGET", "CHECK_PMU", "GET_REGS", "GET_SREGS",
          "SET_X1", "SET_X2"}

LEMMA QuietAchieves ==
  ASSUME NEW x, x.op \in Quiet, NEW c, NEW h, NEW i, NEW k, NEW hs
  PROVE  Achieved(x, c, h, i, k, hs)
BY DEF Achieved, Quiet, NamesOf, Chips

(* The size of memory is known to every later call.                        *)
LEMMA SizeKnown ==
  ASSUME Shape, Track, Effects, todo # << >>,
         Call.op \in {"SET_RAM", "SET_REGS", "SET_X0"}
  PROVE  image.size = parseMem(cmd.mem)
<1>1. Pos + 1 \in 1 .. Len(Prog) /\ Call = Prog[Pos + 1] /\ Pos \in 0 .. Len(Prog)
  BY PosFacts
<1>2. Op("parseMem", 0) \in Needed(arch, ncpus) /\ Op("parseMem", 0).op = "parseMem"
  BY DEF Needed, Op
<1>3. Phase("parseMem") = 0 /\ Phase(Call.op) \in {12, 16}
  BY Zenon DEF Phase, OneReg
<1>4. PICK j \in 1 .. Len(Prog) : j < Pos + 1 /\ Prog[j] = Op("parseMem", 0)
  BY <1>1, <1>2, <1>3, Earlier DEF Shape
<1>5. j \in 1 .. Pos
  BY <1>1, <1>4, ProgFacts DEF Shape
<1>6. Achieved(Prog[j], cmd, host, image, kvm, m)
  BY <1>5, Zenon DEF Effects
<1> QED BY <1>2, <1>4, <1>6, Zenon DEF Achieved


(* The vCPUs are created in the order of their numbers.                    *)
LEMMA NextVcpu ==
  ASSUME Shape, Track, Effects, m \in Handles, todo # << >>, Call.op = "CREATE_VCPU"
  PROVE  Call.cpu = Len(m.vcpus) + 1 /\ Call.cpu \in 1 .. ncpus
<1>1. /\ Pos + 1 \in 1 .. Len(Prog) /\ Call = Prog[Pos + 1] /\ Pos \in 0 .. Len(Prog)
      /\ Call.cpu \in 1 .. ncpus
  BY PosFacts, Zenon DEF ForOne
<1>2. Len(m.vcpus) \in Nat /\ ncpus \in Nat
  BY ProgFacts, SeqLen, Zenon DEF Handles, Shape
<1>3. Len(m.vcpus) < Call.cpu
  <2>1. Pos + 1 \in Pos + 1 .. Len(Prog)
    BY <1>1
  <2> QED BY <1>1, <2>1, Zenon DEF Effects
<1>4. CASE Call.cpu = 1
  BY <1>1, <1>2, <1>3, <1>4
<1>5. CASE Call.cpu # 1
  <2> DEFINE k == Call.cpu - 1
             x == Op("CREATE_VCPU", k)
  <2>1. k \in 1 .. ncpus /\ Call.cpu = k + 1
    BY <1>1, <1>2, <1>5
  <2> HIDE DEF k
  <2>2. x \in Needed(arch, ncpus) /\ x.op = "CREATE_VCPU" /\ x.cpu = k
    BY <2>1 DEF Needed, Op
  <2>3. PICK j \in 1 .. Len(Prog) : Prog[j] = x
    BY <2>2, CommandPiece, Zenon DEF Shape, Prog, arch, ncpus, Has
  <2>4. ~ (Pos + 1 < j)
    <3> SUFFICES ASSUME Pos + 1 < j PROVE FALSE
      OBVIOUS
    <3>1. Prog[Pos + 1].cpu < Prog[j].cpu
      BY <1>1, <2>2, <2>3, CommandPiece, Zenon DEF Shape, Prog, Piece
    <3> QED BY <1>1, <1>2, <2>1, <2>2, <2>3, <3>1
  <2>5. j # Pos + 1
    BY <1>1, <1>2, <2>1, <2>2, <2>3
  <2>6. j \in 1 .. Pos
    BY <1>1, <2>3, <2>4, <2>5, ProgFacts DEF Shape
  <2>7. Achieved(Prog[j], cmd, host, image, kvm, m)
    BY <2>6, Zenon DEF Effects
  <2>8. k <= Len(m.vcpus)
    BY <2>2, <2>3, <2>7, Zenon DEF Achieved
  <2> QED BY <1>1, <1>2, <1>3, <2>1, <2>8
<1> QED BY <1>4, <1>5

Progress ==
  \/ ParseMem \/ MmapRam \/ Ask \/ AskPMU
  \/ OpenKvm \/ CreateVM \/ CreateDevice \/ OpenKernel \/ CreateVCPU
  \/ SetIdentityMapAddr \/ SetupVM \/ SetCPUID2 \/ VcpuInit
  \/ Load \/ SetRegs \/ SingleStep \/ Go

LEMMA NamesAdded ==
  ASSUME NEW op
  PROVE  /\ op # "SET_IDENTITY_MAP_ADDR" => NamesOf(op) \subseteq {r.name : r \in Regions(op)}
         /\ op = "SET_RAM" => \E r \in Regions(op) : r.name = "ram" /\ r.size = image.size.pages
<1>1. \A n, b, s : Region(n, b, s).name = n /\ Region(n, b, s).size = s
  BY DEF Region
<1>2. CASE op = "CREATE_IRQCHIP"
  <2>1. Regions(op) = ApicRegions /\ NamesOf(op) = {"ioapic", "lapic"}
    BY <1>2 DEF Regions, NamesOf
  <2> QED BY <1>1, <1>2, <2>1 DEF ApicRegions
<1>3. CASE op = "SET_RAM"
  <2>1. Regions(op) = {RamRegion} /\ NamesOf(op) = {"ram"}
    BY <1>3 DEF Regions, NamesOf
  <2>2. RamRegion.name = "ram" /\ RamRegion.size = image.size.pages
    BY <1>1 DEF RamRegion
  <2> QED BY <1>3, <2>1, <2>2
<1>4. ASSUME NEW n, NEW b, NEW s, op # "SET_RAM", Regions(op) = {Region(n, b, s)}, NamesOf(op) = {n}
      PROVE  NamesOf(op) \subseteq {r.name : r \in Regions(op)}
  BY <1>1, <1>4
<1>5. CASE op = "SET_TSS_ADDR"
  <2>1. Regions(op) = {Region("tss", kvmTSSStart, TssPages)} /\ NamesOf(op) = {"tss"}
    BY <1>5 DEF Regions, NamesOf
  <2> QED BY <1>4, <1>5, <2>1, Zenon
<1>6. CASE op = "SET_DIST_ADDR"
  <2>1. Regions(op) = {Region("dist", GIC_DIST_BASE, GIC_DIST_SIZE)} /\ NamesOf(op) = {"dist"}
    BY <1>6 DEF Regions, NamesOf
  <2> QED BY <1>4, <1>6, <2>1, Zenon
<1>7. CASE op = "SET_REDIST_ADDR"
  <2> DEFINE z == GIC_REDIST_CPUI_SIZE * ncpus
  <2>1. Regions(op) = {Region("redist", GIC_REDIST_CPUI_BASE, z)} /\ NamesOf(op) = {"redist"}
    BY <1>7 DEF Regions, NamesOf
  <2> HIDE DEF z
  <2> QED BY <1>4, <1>7, <2>1, Zenon
<1>8. CASE op = "SET_SYS"
  <2>1. Regions(op) = {Region("sys", physSysBase, 1)} /\ NamesOf(op) = {"sys"}
    BY <1>8 DEF Regions, NamesOf
  <2> QED BY <1>4, <1>8, <2>1, Zenon
<1>9. CASE op \notin {"SET_IDENTITY_MAP_ADDR", "SET_TSS_ADDR", "CREATE_IRQCHIP", "SET_DIST_ADDR",
                      "SET_REDIST_ADDR", "SET_RAM", "SET_SYS"}
  <2>1. NamesOf(op) = {}
    BY <1>9 DEF NamesOf
  <2> QED BY <1>9, <2>1
<1> QED BY <1>2, <1>3, <1>5, <1>6, <1>7, <1>8, <1>9, Zenon

(* A call that succeeds achieves what it is for.                           *)
LEMMA CallAchieves ==
  ASSUME Shape, Track, Effects, m \in Handles, todo # << >>, Progress
  PROVE  Achieved(Call, cmd', host', image', kvm', m')
<1>1. CASE \/ MmapRam \/ AskPMU \/ OpenKvm \/ CreateVM \/ CreateDevice \/ OpenKernel
           \/ Load \/ SingleStep \/ Go
  <2>1. Call.op \in Quiet
    BY <1>1, Zenon DEF MmapRam, AskPMU, OpenKvm, CreateVM, CreateDevice, OpenKernel, Load, SingleStep, Go,
                Makes, Succeeds, Calling, Quiet
  <2> QED BY <2>1, QuietAchieves
<1>2. CASE Ask
  <2>1. Call.op \in Quiet \/ Call.op = "GET_SUPPORTED_CPUID"
    BY <1>2 DEF Ask, Succeeds, Calling, Quiet
  <2>2. CASE Call.op = "GET_SUPPORTED_CPUID"
    <3>1. Fits(host')
      BY <1>2, <2>2, Zenon DEF Ask, Succeeds, Proceed, GoodInput
    <3> QED BY <2>2, <3>1 DEF Achieved, NamesOf, Chips
  <2> QED BY <2>1, <2>2, QuietAchieves
<1>3. CASE ParseMem
  <2>1. Call.op = "parseMem" /\ cmd' = cmd /\ image' = [image EXCEPT !.size = parseMem(cmd.mem)]
    BY <1>3 DEF ParseMem, Succeeds, Calling, Proceed
  <2>2. image'.size = parseMem(cmd'.mem)
    BY <2>1 DEF Shape, ImageShape
  <2> QED BY <2>1, <2>2 DEF Achieved, NamesOf, Chips
<1>4. CASE CreateVCPU
  <2>1. /\ Call.op = "CREATE_VCPU" /\ SomeFree /\ m.vcpus \in Seq(FdNumbers)
        /\ m' = [m EXCEPT !.vcpus = Append(m.vcpus, NextFd)]
    BY <1>4 DEF CreateVCPU, Makes, Succeeds, Calling, Handles
  <2>2. m'.vcpus = Append(m.vcpus, NextFd) /\ NextFd \in FdNumbers
    BY <2>1, NextFdFree DEF Handles
  <2>3. Len(m'.vcpus) = Len(m.vcpus) + 1 /\ Len(m.vcpus) \in Nat
    BY <2>1, <2>2, SeqAppend, SeqLen
  <2>4. Call.cpu <= Len(m'.vcpus)
    BY <2>1, <2>3, NextVcpu
  <2> QED BY <2>1, <2>4 DEF Achieved, NamesOf, Chips
<1>5. CASE SetIdentityMapAddr
  <2>1. Call.op = "SET_IDENTITY_MAP_ADDR"
    BY <1>5 DEF SetIdentityMapAddr, Succeeds, Calling
  <2>2. "identity" \in {r.name : r \in kvm'.regions}
    BY <1>5, IdentityStep, Zenon DEF Shape
  <2> QED BY <2>1, <2>2 DEF Achieved, NamesOf, Chips
<1>6. CASE SetCPUID2
  <2>1. Call.op = "SET_CPUID2" /\ kvm' = [kvm EXCEPT !.cpuid =
          [kvm.cpuid EXCEPT ![Call.cpu] = Table(host)]] /\ host' = host
    BY <1>6 DEF SetCPUID2, Succeeds, Calling, Proceed, Table
  <2>2. Call.cpu \in Cpus
    BY <2>1, PosFacts, ProgFacts DEF ForOne, Cpus, Shape
  <2>3. kvm'.cpuid[Call.cpu] = Table(host')
    BY <2>1, <2>2 DEF Shape, KvmShape
  <2> QED BY <2>1, <2>3 DEF Achieved, NamesOf, Chips
<1>7. CASE VcpuInit
  <2>1. Call.op = "VCPU_INIT" /\ kvm' = [kvm EXCEPT !.inited = @ \cup {Call.cpu}]
    BY <1>7 DEF VcpuInit, Succeeds, Calling
  <2>2. Call.cpu \in kvm'.inited
    BY <2>1 DEF Shape, KvmShape
  <2> QED BY <2>1, <2>2 DEF Achieved, NamesOf, Chips
<1>8. CASE SetupVM
  <2> DEFINE R == Regions(Call.op)
             C == Chips(Call.op)
  <2>1. /\ Call.op \in {"SET_TSS_ADDR", "CREATE_IRQCHIP", "CREATE_PIT2", "SET_DIST_ADDR",
                        "SET_REDIST_ADDR", "VGIC_INIT", "SET_RAM", "SET_SYS"}
        /\ cmd' = cmd /\ image' = image
        /\ kvm' = [kvm EXCEPT !.regions = @ \cup R, !.chips = @ \cup C]
    BY <1>8 DEF SetupVM, Succeeds, Calling, Proceed
  <2>2. NamesOf(Call.op) \subseteq {r.name : r \in R}
    BY <2>1, NamesAdded
  <2>3. Call.op = "SET_RAM" => \E r \in R : r.name = "ram" /\ r.size = image.size.pages
    BY NamesAdded
  <2>4. kvm'.regions = kvm.regions \cup R /\ kvm'.chips = kvm.chips \cup C
    <3> HIDE DEF R, C
    <3> QED BY <2>1 DEF Shape, KvmShape
  <2>5. Call.op = "SET_RAM" => image'.size = parseMem(cmd'.mem)
    BY <2>1, SizeKnown
  <2>6. NamesOf(Call.op) \subseteq {r.name : r \in kvm'.regions} /\ Chips(Call.op) \subseteq kvm'.chips
    BY <2>2, <2>4, Zenon
  <2>7. Call.op = "SET_RAM" => \E r \in kvm'.regions : r.name = "ram" /\ r.size = image'.size.pages
    BY <2>1, <2>3, <2>4
  <2> QED BY <2>1, <2>5, <2>6, <2>7 DEF Achieved
<1>9. CASE SetRegs
  <2> DEFINE f == [kvm.regs EXCEPT ![Call.cpu] = SetReg(kvm.regs[Call.cpu])]
             s == SetReg(kvm.regs[Call.cpu])
  <2>1. /\ kvm' = [kvm EXCEPT !.regs = f] /\ cmd' = cmd /\ image' = image
        /\ Call.op \in {"SET_REGS", "SET_SREGS"} \cup OneReg
    BY <1>9 DEF SetRegs, Succeeds, Calling, Proceed
  <2>2. Call.cpu \in Cpus
    BY <2>1, PosFacts, ProgFacts DEF ForOne, Cpus, Shape
  <2>3. RegsShape(kvm.regs[Call.cpu]) /\ kvm.regs = [c \in Cpus |-> kvm.regs[c]]
    BY <2>2, Zenon DEF Shape, KvmShape
  <2>4. /\ Call.op \in {"SET_REGS", "SET_PC"} => s.pc = cmd.kernel.entry
        /\ Call.op \in {"SET_REGS", "SET_X0"} => s.mem = image.size.pages
        /\ Call.op = "SET_SREGS" => ProtectedMode(s)
    BY <2>1, <2>3, SetRegGrows
  <2>5. f = [kvm.regs EXCEPT ![Call.cpu] = s]
    OBVIOUS
  <2> HIDE DEF s
  <2>6. f[Call.cpu] = s
    BY <2>2, <2>3, <2>5, Zenon
  <2> HIDE DEF f
  <2>7. kvm'.regs = f
    BY <2>1 DEF Shape, KvmShape
  <2>8. Call.op \in {"SET_REGS", "SET_X0"} => image'.size = parseMem(cmd'.mem)
    BY <2>1, SizeKnown
  <2>9. NamesOf(Call.op) = {} /\ Chips(Call.op) = {}
    BY <2>1 DEF NamesOf, Chips, OneReg
  <2> QED BY <2>1, <2>4, <2>6, <2>7, <2>8, <2>9 DEF Achieved, OneReg
<1> QED BY <1>1, <1>2, <1>3, <1>4, <1>5, <1>6, <1>7, <1>8, <1>9, Zenon DEF Progress

-----------------------------------------------------------------------------
(* Where main gets to in a step.                                           *)
LEMMA Moves ==
  ASSUME Shape, Track, [Next]_vars
  PROVE  /\ Track' /\ Prog' = Prog /\ arch' = arch /\ ncpus' = ncpus
         /\ Pos \in 0 .. Len(Prog) /\ Pos' \in 0 .. Len(Prog) /\ Pos <= Pos'
         /\ \/ Pos' = Pos
            \/ Progress /\ todo # << >> /\ Pos' = Pos + 1
            \/ /\ todo # << >>
               /\ \A i \in Pos + 1 .. Pos' : Prog[i].op = "SET_GUEST_DEBUG"
<1>1. Pos \in 0 .. Len(Prog) /\ Len(Prog) \in Nat
  BY PosFacts, ProgFacts, Zenon DEF Shape
<1>2. CASE todo' = todo /\ cmd' = cmd
  BY <1>1, <1>2, Stays
<1>3. CASE Progress /\ todo # << >> /\ todo' = Tail(todo) /\ cmd' = cmd
  <2>1. Pos + 1 \in 0 .. Len(Prog)
    BY <1>1, <1>3, PosFacts
  <2> QED BY <1>1, <1>3, <2>1, Advance
<1>4. CASE /\ todo # << >> /\ Call.op = "SET_GUEST_DEBUG" /\ cmd' = cmd
           /\ \E k \in DOMAIN todo : NextGo(k) /\ todo' = SubSeq(todo, k, Len(todo))
  <2>1. /\ Track' /\ Prog' = Prog /\ arch' = arch /\ ncpus' = ncpus
        /\ Pos < Pos' /\ Pos' \in 0 .. Len(Prog)
        /\ \A i \in Pos + 1 .. Pos' : Prog[i].op = "SET_GUEST_DEBUG"
    BY <1>4, Skips, Zenon
  <2> QED BY <1>1, <1>4, <2>1
<1>5. ASSUME NEW ops, Succeeds(ops)
      PROVE  todo # << >> /\ todo' = Tail(todo) /\ cmd' = cmd
  BY <1>5 DEF Succeeds, Calling, Proceed
<1>6. CASE ParseMem \/ MmapRam \/ Ask \/ SetIdentityMapAddr \/ SetupVM \/ SetCPUID2 \/ VcpuInit \/ SetRegs
  <2>1. todo # << >> /\ todo' = Tail(todo) /\ cmd' = cmd
    BY <1>5, <1>6 DEF ParseMem, MmapRam, Ask, SetIdentityMapAddr, SetupVM, SetCPUID2, VcpuInit, SetRegs
  <2> QED BY <1>3, <1>6, <2>1, Zenon DEF Progress
<1>7. CASE OpenKvm \/ CreateVM \/ CreateDevice \/ OpenKernel \/ CreateVCPU
  <2>1. todo # << >> /\ todo' = Tail(todo) /\ cmd' = cmd
    BY <1>5, <1>7 DEF OpenKvm, CreateVM, CreateDevice, OpenKernel, CreateVCPU, Makes
  <2> QED BY <1>3, <1>7, <2>1, Zenon DEF Progress
<1>8. CASE AskPMU \/ Go
  <2>1. todo # << >> /\ todo' = Tail(todo) /\ cmd' = cmd
    BY <1>8 DEF AskPMU, Go, Calling, Proceed
  <2> QED BY <1>3, <1>8, <2>1, Zenon DEF Progress
<1>9. CASE Load
  <2>1. todo # << >> /\ (todo' = Tail(todo) \/ todo' = todo) /\ cmd' = cmd
    BY <1>9 DEF Load, Calling, Proceed
  <2> QED BY <1>2, <1>3, <1>9, <2>1, Zenon DEF Progress
<1>10. CASE SingleStep
  <2>1. \/ todo # << >> /\ todo' = Tail(todo) /\ cmd' = cmd
        \/ /\ todo # << >> /\ Call.op = "SET_GUEST_DEBUG" /\ cmd' = cmd
           /\ \E k \in DOMAIN todo : NextGo(k) /\ todo' = SubSeq(todo, k, Len(todo))
    BY <1>5, <1>10, ZenonT(30) DEF SingleStep, Calling
  <2> QED BY <1>3, <1>4, <1>10, <2>1, Zenon DEF Progress
<1>11. CASE Fail \/ Collect \/ Ended \/ UNCHANGED vars
  <2>1. todo' = todo /\ cmd' = cmd
    BY <1>11 DEF Fail, Collect, Ended, vars
  <2> QED BY <1>2, <2>1, Zenon
<1> QED BY <1>6, <1>7, <1>8, <1>9, <1>10, <1>11, Zenon DEF Next

LEMMA StepGrows ==
  ASSUME Shape, Track, m \in Handles, [Next]_vars
  PROVE  Shape' /\ Grows
BY ImageSteps, HandleSteps, KvmSteps DEF Next

(* Everything achieved so far stays, and the calls made are achieved.      *)
LEMMA AchievedAgain ==
  ASSUME Shape, Track, Effects, m \in Handles, m' \in Handles, [Next]_vars
  PROVE  \A i \in 1 .. Pos' : Achieved(Prog'[i], cmd', host', image', kvm', m')
<1> SUFFICES ASSUME NEW i \in 1 .. Pos'
             PROVE  Achieved(Prog'[i], cmd', host', image', kvm', m')
  OBVIOUS
<1>1. /\ Prog' = Prog /\ Pos \in 0 .. Len(Prog) /\ Pos' \in 0 .. Len(Prog) /\ Pos <= Pos'
      /\ \/ Pos' = Pos
         \/ Progress /\ todo # << >> /\ Pos' = Pos + 1
         \/ /\ todo # << >>
            /\ \A j \in Pos + 1 .. Pos' : Prog[j].op = "SET_GUEST_DEBUG"
  BY Moves, Zenon
<1>2. Len(Prog) \in Nat /\ i \in 1 .. Len(Prog) /\ Prog[i] \in CallsOf(arch, ncpus)
  BY <1>1, ProgFacts DEF Shape
<1>3. CASE i \in 1 .. Pos
  <2>1. Achieved(Prog[i], cmd, host, image, kvm, m)
    BY <1>3, Zenon DEF Effects
  <2>2. Grows
    BY StepGrows
  <2> QED BY <1>1, <1>2, <2>1, <2>2, AchievedStays, Zenon
<1>4. CASE Progress /\ todo # << >> /\ i = Pos + 1
  <2>1. Call = Prog[i]
    BY <1>4, PosFacts, Zenon
  <2>2. Achieved(Call, cmd', host', image', kvm', m')
    BY <1>4, CallAchieves
  <2> QED BY <1>1, <2>1, <2>2, Zenon
<1>5. CASE Prog[i].op = "SET_GUEST_DEBUG"
  <2>1. Prog[i].op \in Quiet
    BY <1>5, Zenon DEF Quiet
  <2> QED BY <1>1, <2>1, QuietAchieves, Zenon
<1>7. i \notin 1 .. Pos /\ Pos' = Pos + 1 => i = Pos + 1
  BY <1>1, <1>2
<1>8. i \notin 1 .. Pos => i \in Pos + 1 .. Pos' /\ Pos' # Pos
  BY <1>1, <1>2
<1> QED BY <1>1, <1>3, <1>4, <1>5, <1>7, <1>8, Zenon


(* A call that was made was not of a later phase than the next one.        *)
LEMMA MadeBefore ==
  ASSUME Shape, Track, todo # << >>, NEW op, Made(op)
  PROVE  Phase(op) <= Phase(Call.op) /\ Phase(op) \in Nat
<1>1. PICK i \in 1 .. Pos : Prog[i].op = op
  BY DEF Made
<1>2. Pos + 1 \in 1 .. Len(Prog) /\ Call = Prog[Pos + 1] /\ Pos \in 0 .. Len(Prog)
  BY PosFacts, Zenon
<1>3. i \in 1 .. Len(Prog) /\ i < Pos + 1
  BY <1>1, <1>2, ProgFacts DEF Shape
<1> QED BY <1>1, <1>2, <1>3, ProgFacts, Zenon DEF Shape

LEMMA NeededMade ==
  ASSUME Shape, Track, Effects, todo # << >>, NEW x \in Needed(arch, ncpus),
         Phase(x.op) < Phase(Call.op)
  PROVE  Achieved(x, cmd, host, image, kvm, m)
<1>1. Pos + 1 \in 1 .. Len(Prog) /\ Call = Prog[Pos + 1] /\ Pos \in 0 .. Len(Prog)
  BY PosFacts, Zenon
<1>2. PICK j \in 1 .. Len(Prog) : j < Pos + 1 /\ Prog[j] = x
  BY <1>1, Earlier DEF Shape
<1>3. j \in 1 .. Pos
  BY <1>1, <1>2, ProgFacts DEF Shape
<1> QED BY <1>2, <1>3, Zenon DEF Effects

(* The next call never comes too early or too late.                        *)
LEMMA NextInOrder ==
  ASSUME Shape, Track, Effects, m \in Handles, todo # << >>
  PROVE  InOrder(Call)
<1>1. Call.op \in {"SET_IDENTITY_MAP_ADDR", "CREATE_IRQCHIP"} => m.vcpus = << >>
  <2> SUFFICES ASSUME Call.op \in {"SET_IDENTITY_MAP_ADDR", "CREATE_IRQCHIP"}, m.vcpus # << >>
               PROVE  FALSE
    BY Zenon
  <2>1. Made("CREATE_VCPU")
    BY Zenon DEF Effects
  <2>2. Phase("CREATE_VCPU") <= Phase(Call.op)
    BY <2>1, MadeBefore, Zenon
  <2>3. Phase("CREATE_VCPU") = 9 /\ Phase(Call.op) \in {5, 7}
    BY Zenon DEF Phase, OneReg
  <2> QED BY <2>2, <2>3
<1>2. Call.op = "CREATE_PIT2" => "irqchip" \in kvm.chips
  <2> SUFFICES ASSUME Call.op = "CREATE_PIT2" PROVE "irqchip" \in kvm.chips
    OBVIOUS
  <2> DEFINE x == Op("CREATE_IRQCHIP", 0)
  <2>1. arch = "amd64"
    BY PosFacts, Zenon DEF OpsOf, OnBoth, OnArm64, OneReg
  <2>2. x \in Needed(arch, ncpus) /\ x.op = "CREATE_IRQCHIP"
    BY <2>1 DEF Needed, Op
  <2>3. Phase("CREATE_IRQCHIP") < Phase("CREATE_PIT2")
    BY DEF Phase, OneReg
  <2> HIDE DEF x
  <2>4. Achieved(x, cmd, host, image, kvm, m)
    BY <2>2, <2>3, NeededMade
  <2> QED BY <2>2, <2>4 DEF Achieved, Chips
<1>3. Call.op = "CREATE_VCPU" => "vgic" \notin kvm.chips
  <2> SUFFICES ASSUME Call.op = "CREATE_VCPU", "vgic" \in kvm.chips PROVE FALSE
    BY Zenon
  <2>1. Made("VGIC_INIT")
    BY Zenon DEF Effects
  <2>2. Phase("VGIC_INIT") <= Phase(Call.op)
    BY <2>1, MadeBefore
  <2>3. Phase("VGIC_INIT") = 13 /\ Phase(Call.op) = 9
    BY DEF Phase, OneReg
  <2> QED BY <2>2, <2>3
<1>4. Call.op \in OneReg => Call.cpu \in kvm.inited
  <2> SUFFICES ASSUME Call.op \in OneReg PROVE Call.cpu \in kvm.inited
    OBVIOUS
  <2> DEFINE x == Op("VCPU_INIT", Call.cpu)
  <2>1. arch # "amd64" /\ Call.cpu \in 1 .. ncpus
    BY PosFacts, Zenon DEF OpsOf, OnBoth, OnAmd64, OneReg, ForOne
  <2>2. x \in Needed(arch, ncpus) /\ x.op = "VCPU_INIT" /\ x.cpu = Call.cpu
    BY <2>1 DEF Needed, Op
  <2>3. Phase("VCPU_INIT") = 11 /\ Phase(Call.op) = 16
    BY Zenon DEF Phase, OneReg
  <2> HIDE DEF x
  <2>4. Achieved(x, cmd, host, image, kvm, m)
    BY <2>2, <2>3, NeededMade
  <2> QED BY <2>2, <2>4, Zenon DEF Achieved
<1> QED BY <1>1, <1>2, <1>3, <1>4, Zenon DEF InOrder

LEMMA MadeStays ==
  ASSUME Shape, Track, [Next]_vars, NEW op, Made(op)
  PROVE  \E i \in 1 .. Pos' : Prog'[i].op = op
<1>1. Prog' = Prog /\ Pos \in Int /\ Pos' \in Int /\ Pos <= Pos'
  BY Moves, ProgFacts DEF Shape
<1>2. PICK i \in 1 .. Pos : Prog[i].op = op
  BY DEF Made
<1>3. i \in 1 .. Pos'
  BY <1>1
<1> QED BY <1>1, <1>2, <1>3

(* A call that succeeds has been made.                                     *)
LEMMA MadeNow ==
  ASSUME Shape, Track, todo # << >>, todo' = Tail(todo), cmd' = cmd
  PROVE  \E i \in 1 .. Pos' : Prog'[i].op = Call.op
<1>1. Prog' = Prog /\ Pos' = Pos + 1
  BY Advance, Zenon
<1>2. Pos + 1 \in 1 .. Len(Prog) /\ Call = Prog[Pos + 1] /\ Pos \in 0 .. Len(Prog)
  BY PosFacts, Zenon
<1>3. Pos + 1 \in 1 .. Pos'
  BY <1>1, <1>2, ProgFacts DEF Shape
<1> QED BY <1>1, <1>2, <1>3, Zenon


(* What only a call can bring about: the vCPUs.                            *)
LEMMA VcpusStep ==
  ASSUME Shape, Track, Effects, m \in Handles, m' \in Handles, [Next]_vars
  PROVE  /\ Len(m'.vcpus) <= ncpus'
         /\ \A i \in Pos' + 1 .. Len(Prog') :
              Prog'[i].op = "CREATE_VCPU" => Len(m'.vcpus) < Prog'[i].cpu
         /\ m'.vcpus # << >> => \E i \in 1 .. Pos' : Prog'[i].op = "CREATE_VCPU"
<1>1. /\ Prog' = Prog /\ ncpus' = ncpus /\ Pos \in 0 .. Len(Prog) /\ Pos' \in 0 .. Len(Prog)
      /\ Pos <= Pos' /\ Len(Prog) \in Nat /\ ncpus \in Nat
  BY Moves, ProgFacts, Zenon DEF Shape
<1>2. Len(m.vcpus) \in Nat
  BY SeqLen DEF Handles
<1>3. CASE m'.vcpus = m.vcpus
  <2>1. m'.vcpus # << >> => Made("CREATE_VCPU")
    BY <1>3, Zenon DEF Effects
  <2>2. \A i \in Pos' + 1 .. Len(Prog) : i \in Pos + 1 .. Len(Prog)
    <3>1. Pos \in Int /\ Pos' \in Int /\ Pos <= Pos' /\ Len(Prog) \in Int
      BY <1>1
    <3> DEFINE p == Pos
               q == Pos'
               n == Len(Prog)
    <3> SUFFICES \A i \in q + 1 .. n : i \in p + 1 .. n
      OBVIOUS
    <3>2. p \in Int /\ q \in Int /\ p <= q /\ n \in Int
      BY <3>1
    <3> HIDE DEF p, q, n
    <3> QED BY <3>2
  <2> QED BY <1>1, <1>3, <2>1, <2>2, MadeStays, Zenon DEF Effects
<1>4. CASE CreateVCPU
  <2>1. /\ Call.op = "CREATE_VCPU" /\ SomeFree /\ m.vcpus \in Seq(FdNumbers)
        /\ m' = [m EXCEPT !.vcpus = Append(m.vcpus, NextFd)]
        /\ todo # << >> /\ todo' = Tail(todo) /\ cmd' = cmd
    BY <1>4 DEF CreateVCPU, Makes, Succeeds, Calling, Proceed, Handles
  <2>2. m'.vcpus = Append(m.vcpus, NextFd) /\ NextFd \in FdNumbers
    BY <2>1, NextFdFree DEF Handles
  <2>3. Len(m'.vcpus) = Len(m.vcpus) + 1
    BY <2>1, <2>2, SeqAppend
  <2>4. Call.cpu = Len(m'.vcpus) /\ Call.cpu \in 1 .. ncpus
    BY <2>1, <2>3, NextVcpu
  <2>5. Pos' = Pos + 1 /\ Pos + 1 \in 1 .. Len(Prog) /\ Call = Prog[Pos + 1]
    BY <2>1, Advance, PosFacts
  <2>6. ASSUME NEW i \in Pos' + 1 .. Len(Prog), Prog[i].op = "CREATE_VCPU"
        PROVE  Len(m'.vcpus) < Prog[i].cpu
    <3>1. i \in 1 .. Len(Prog) /\ Pos + 1 < i
      <4>1. Pos \in Nat /\ i \in Pos + 1 + 1 .. Len(Prog) /\ Len(Prog) \in Nat
        BY <1>1, <2>5
      <4> QED BY <4>1
    <3>2. Prog[Pos + 1].cpu < Prog[i].cpu
      BY <2>1, <2>5, <2>6, <3>1, CommandPiece, Zenon DEF Shape, Prog, Piece
    <3> QED BY <2>4, <2>5, <3>2, Zenon
  <2>7. \E i \in 1 .. Pos' : Prog'[i].op = "CREATE_VCPU"
    BY <2>1, MadeNow
  <2>8. Len(m'.vcpus) <= ncpus
    BY <1>1, <2>4
  <2> QED BY <1>1, <2>6, <2>7, <2>8, Zenon
<1>5. CASE OpenKvm \/ CreateVM \/ CreateDevice
  <2>1. m'.vcpus = m.vcpus
    BY <1>5 DEF OpenKvm, CreateVM, CreateDevice, Handles
  <2> QED BY <1>3, <2>1, Zenon
<1>6. CASE \/ ParseMem \/ MmapRam \/ Ask \/ AskPMU \/ OpenKernel \/ SetIdentityMapAddr \/ SetupVM
           \/ SetCPUID2 \/ VcpuInit \/ Load \/ SetRegs \/ SingleStep \/ Go \/ Fail \/ Collect
           \/ Ended \/ UNCHANGED vars
  <2>1. CASE \/ ParseMem \/ MmapRam \/ Ask \/ AskPMU \/ OpenKernel \/ SetIdentityMapAddr \/ SetupVM
             \/ SetCPUID2
    <3>1. m' = m
      BY <2>1 DEF ParseMem, MmapRam, Ask, AskPMU, OpenKernel, SetIdentityMapAddr, SetupVM, SetCPUID2
    <3> QED BY <1>3, <3>1, Zenon
  <2>2. CASE \/ VcpuInit \/ Load \/ SetRegs \/ SingleStep \/ Go \/ Fail \/ Collect
             \/ Ended \/ UNCHANGED vars
    <3>1. m' = m
      BY <2>2 DEF VcpuInit, Load, SetRegs, SingleStep, Go, Fail, Collect, Ended, vars
    <3> QED BY <1>3, <3>1, Zenon
  <2> QED BY <1>6, <2>1, <2>2, Zenon
<1> QED BY <1>4, <1>5, <1>6, Zenon DEF Next

(* The fields of what KVM holds that only one kind of step changes.        *)
LEMMA FieldsStep ==
  ASSUME Shape, [Next]_vars
  PROVE  /\ SetupVM \/ kvm'.chips = kvm.chips
         /\ VcpuInit \/ kvm'.inited = kvm.inited
         /\ SingleStep \/ kvm'.debug = kvm.debug
         /\ Go \/ kvm'.running = kvm.running
         /\ SetRegs \/ kvm'.regs = kvm.regs
<1>1. KvmShape(kvm)
  BY DEF Shape
<1>2. CASE \/ ParseMem \/ MmapRam \/ Ask \/ AskPMU \/ OpenKvm \/ CreateVM \/ CreateDevice
           \/ OpenKernel \/ CreateVCPU \/ Load \/ Fail \/ Collect \/ Ended \/ UNCHANGED vars
  <2>1. kvm' = kvm
    BY <1>2, Zenon DEF ParseMem, MmapRam, Ask, AskPMU, OpenKvm, CreateVM, CreateDevice, OpenKernel,
                CreateVCPU, Makes, Load, Fail, Collect, Ended, vars
  <2> QED BY <2>1
<1>3. CASE SetIdentityMapAddr
  BY <1>1, <1>3, IdentityStep, Zenon
<1>4. CASE SetupVM
  <2> DEFINE R == Regions(Call.op)
             C == Chips(Call.op)
  <2>1. kvm' = [kvm EXCEPT !.regions = @ \cup R, !.chips = @ \cup C]
    BY <1>4 DEF SetupVM
  <2> HIDE DEF R, C
  <2>2. /\ kvm'.inited = kvm.inited /\ kvm'.debug = kvm.debug /\ kvm'.running = kvm.running
        /\ kvm'.regs = kvm.regs
    BY <1>1, <2>1 DEF KvmShape
  <2> QED BY <1>4, <2>2, Zenon
<1>5. CASE SetCPUID2
  <2> DEFINE f == [kvm.cpuid EXCEPT ![Call.cpu] = Table(host)]
  <2>1. kvm' = [kvm EXCEPT !.cpuid = f]
    BY <1>5 DEF SetCPUID2, Table
  <2> HIDE DEF f
  <2> QED BY <1>1, <2>1 DEF KvmShape
<1>6. CASE VcpuInit
  <2>1. kvm' = [kvm EXCEPT !.inited = @ \cup {Call.cpu}]
    BY <1>6 DEF VcpuInit
  <2> QED BY <1>1, <1>6, <2>1 DEF KvmShape
<1>7. CASE SetRegs
  <2> DEFINE f == [kvm.regs EXCEPT ![Call.cpu] = SetReg(kvm.regs[Call.cpu])]
  <2>1. kvm' = [kvm EXCEPT !.regs = f]
    BY <1>7 DEF SetRegs
  <2> HIDE DEF f
  <2> QED BY <1>1, <1>7, <2>1 DEF KvmShape
<1>8. CASE SingleStep /\ kvm' = kvm
  BY <1>8
<1>9. CASE SingleStep /\ kvm' # kvm
  <2> DEFINE D == IF cmd.trace THEN kvm.debug \cup {Call.cpu} ELSE kvm.debug \ {Call.cpu}
  <2>1. kvm' = [kvm EXCEPT !.debug = D]
    BY <1>9 DEF SingleStep
  <2> HIDE DEF D
  <2> QED BY <1>1, <1>9, <2>1 DEF KvmShape
<1>10. CASE Go
  <2>1. kvm' = [kvm EXCEPT !.running = @ \cup {Call.cpu}]
    BY <1>10 DEF Go
  <2> QED BY <1>1, <1>10, <2>1 DEF KvmShape
<1> QED BY <1>2, <1>3, <1>4, <1>5, <1>6, <1>7, <1>8, <1>9, <1>10, Zenon DEF Next


ChipsOf(a) == IF a = "amd64" THEN {"irqchip", "pit"} ELSE {"vgic"}

LEMMA ChipsStep ==
  ASSUME Shape, Track, Effects, [Next]_vars
  PROVE  /\ kvm'.chips \subseteq ChipsOf(arch')
         /\ "vgic" \in kvm'.chips => \E i \in 1 .. Pos' : Prog'[i].op = "VGIC_INIT"
<1>1. arch' = arch /\ kvm.chips \subseteq ChipsOf(arch)
  BY Moves, Zenon DEF Effects, ChipsOf
<1>2. CASE kvm'.chips = kvm.chips
  <2>1. "vgic" \in kvm'.chips => Made("VGIC_INIT")
    BY <1>2, Zenon DEF Effects
  <2> QED BY <1>1, <1>2, <2>1, MadeStays, Zenon
<1>3. CASE SetupVM
  <2> DEFINE R == Regions(Call.op)
             C == Chips(Call.op)
  <2>1. /\ kvm' = [kvm EXCEPT !.regions = @ \cup R, !.chips = @ \cup C]
        /\ todo # << >> /\ todo' = Tail(todo) /\ cmd' = cmd
    BY <1>3 DEF SetupVM, Succeeds, Calling, Proceed
  <2>2. C \subseteq ChipsOf(arch)
    <3>1. arch \in Archs /\ Call.op \in OpsOf(arch)
      BY <2>1, PosFacts, ProgFacts DEF Shape
    <3> QED BY <3>1 DEF Chips, ChipsOf, OpsOf, OnBoth, OnAmd64, OnArm64, OneReg, Archs
  <2>3. "vgic" \in C => Call.op = "VGIC_INIT"
    BY DEF Chips
  <2> HIDE DEF R, C
  <2>4. kvm'.chips = kvm.chips \cup C
    BY <2>1 DEF Shape, KvmShape
  <2>5. "vgic" \in kvm.chips => Made("VGIC_INIT")
    BY Zenon DEF Effects
  <2>6. Call.op = "VGIC_INIT" => \E i \in 1 .. Pos' : Prog'[i].op = "VGIC_INIT"
    BY <2>1, MadeNow
  <2> QED BY <1>1, <2>2, <2>3, <2>4, <2>5, <2>6, MadeStays, Zenon
<1> QED BY <1>2, <1>3, FieldsStep, Zenon

LEMMA RunningStep ==
  ASSUME Shape, Track, Effects, [Next]_vars
  PROVE  kvm'.running # {} => \E i \in 1 .. Pos' : Prog'[i].op = "go"
<1>1. CASE kvm'.running = kvm.running
  BY <1>1, MadeStays, Zenon DEF Effects
<1>2. CASE Go
  <2>1. todo # << >> /\ todo' = Tail(todo) /\ cmd' = cmd /\ Call.op = "go"
    BY <1>2 DEF Go, Calling
  <2> QED BY <2>1, MadeNow
<1> QED BY <1>1, <1>2, FieldsStep, Zenon

LEMMA EffectsStep ==
  ASSUME Shape, Track, Effects, m \in Handles, m' \in Handles, [Next]_vars
  PROVE  Effects'
<1>1. \A i \in 1 .. Pos' : Achieved(Prog'[i], cmd', host', image', kvm', m')
  BY AchievedAgain
<1> QED BY <1>1, VcpusStep, ChipsStep, RunningStep, Zenon DEF Effects, Made, ChipsOf

(* Which vCPUs a call may name.                                            *)
LEMMA CpusStep ==
  ASSUME Shape, Track, [Next]_vars, kvm.inited \cup kvm.debug \cup kvm.running \subseteq 1 .. ncpus
  PROVE  kvm'.inited \cup kvm'.debug \cup kvm'.running \subseteq 1 .. ncpus'
<1>1. ncpus' = ncpus
  BY Moves, Zenon
<1>2. ASSUME VcpuInit PROVE kvm'.inited \subseteq 1 .. ncpus
  <2>1. /\ kvm' = [kvm EXCEPT !.inited = @ \cup {Call.cpu}] /\ todo # << >>
        /\ Call.op = "VCPU_INIT"
    BY <1>2 DEF VcpuInit, Succeeds, Calling
  <2>2. kvm'.inited = kvm.inited \cup {Call.cpu}
    BY <2>1 DEF Shape, KvmShape
  <2>3. Call.cpu \in 1 .. ncpus
    BY <2>1, PosFacts DEF ForOne
  <2> QED BY <2>2, <2>3
<1>3. ASSUME SingleStep PROVE kvm'.debug \subseteq 1 .. ncpus
  <2> DEFINE D == IF cmd.trace THEN kvm.debug \cup {Call.cpu} ELSE kvm.debug \ {Call.cpu}
  <2>1. /\ kvm' = [kvm EXCEPT !.debug = D] \/ kvm' = kvm
        /\ todo # << >> /\ Call.op = "SET_GUEST_DEBUG"
    BY <1>3 DEF SingleStep, Succeeds, Calling
  <2>2. Call.cpu \in 1 .. ncpus
    BY <2>1, PosFacts DEF ForOne
  <2>3. D \subseteq 1 .. ncpus
    BY <2>2, Zenon
  <2> HIDE DEF D
  <2>4. kvm'.debug = D \/ kvm'.debug = kvm.debug
    BY <2>1 DEF Shape, KvmShape
  <2> QED BY <2>3, <2>4, Zenon
<1>4. ASSUME Go PROVE kvm'.running \subseteq 1 .. ncpus
  <2>1. /\ kvm' = [kvm EXCEPT !.running = @ \cup {Call.cpu}] /\ todo # << >> /\ Call.op = "go"
    BY <1>4 DEF Go, Calling
  <2>2. kvm'.running = kvm.running \cup {Call.cpu}
    BY <2>1 DEF Shape, KvmShape
  <2>3. Call.cpu \in 1 .. ncpus
    BY <2>1, PosFacts DEF ForOne
  <2> QED BY <2>2, <2>3, Zenon
<1> QED BY <1>1, <1>2, <1>3, <1>4, FieldsStep, Zenon

(* The descriptor table.                                                   *)
LEMMA FdsStep ==
  ASSUME HInv, Shape, Track, Effects, [Next]_vars, fds \in [FdNumbers -> Objs]
  PROVE  fds' \in [FdNumbers -> Objs]
<1>1. \A k \in Kinds : \A n \in 0 .. MaxCpus : Obj(k, n) \in Objs
  BY Zenon DEF Obj, Objs
<1>2. {"none", "kvm", "vm", "gic", "vcpu", "file"} \subseteq Kinds /\ 0 \in 0 .. MaxCpus
  BY MachineConstants DEF Kinds
<1>3. ASSUME NEW op, NEW obj \in Objs, Makes(op, obj)
      PROVE  fds' \in [FdNumbers -> Objs]
  <2>1. NextFd \in FdNumbers /\ fds' = [fds EXCEPT ![NextFd] = obj]
    BY <1>3, NextFdFree DEF Makes
  <2> QED BY <2>1
<1>4. CASE OpenKvm
  BY <1>1, <1>2, <1>3, <1>4 DEF OpenKvm
<1>5. CASE CreateVM
  BY <1>1, <1>2, <1>3, <1>5 DEF CreateVM
<1>6. CASE CreateDevice
  BY <1>1, <1>2, <1>3, <1>6 DEF CreateDevice
<1>7. CASE OpenKernel
  BY <1>1, <1>2, <1>3, <1>7 DEF OpenKernel
<1>8. CASE CreateVCPU
  <2> DEFINE n == Len(m.vcpus) + 1
  <2>1. Makes("CREATE_VCPU", Obj("vcpu", n)) /\ todo # << >> /\ Call.op = "CREATE_VCPU"
    BY <1>8 DEF CreateVCPU, Makes, Succeeds, Calling
  <2>2. m \in Handles
    BY DEF HInv
  <2>3. n \in 1 .. ncpus
    BY <2>1, <2>2, NextVcpu
  <2> HIDE DEF n
  <2>4. n \in 0 .. MaxCpus
    BY <2>3, ProgFacts DEF Shape
  <2> QED BY <1>1, <1>2, <1>3, <2>1, <2>4
<1>9. CASE Collect
  <2>1. fds' = [fds EXCEPT ![m.kvmfd] = NoObj] /\ NoObj \in Objs
    BY <1>1, <1>2, <1>9, Zenon DEF Collect, NoObj
  <2> QED BY <2>1, Zenon
<1>10. CASE \/ ParseMem \/ MmapRam \/ Ask \/ AskPMU \/ SetIdentityMapAddr \/ SetupVM
            \/ SetCPUID2 \/ VcpuInit \/ Load \/ SetRegs \/ SingleStep \/ Go \/ Fail
            \/ Ended \/ UNCHANGED vars
  <2>1. CASE \/ ParseMem \/ MmapRam \/ Ask \/ AskPMU \/ SetIdentityMapAddr \/ SetupVM \/ SetCPUID2
    <3>1. fds' = fds
      BY <2>1 DEF ParseMem, MmapRam, Ask, AskPMU, SetIdentityMapAddr, SetupVM, SetCPUID2
    <3> QED BY <3>1, Zenon
  <2>2. CASE \/ VcpuInit \/ Load \/ SetRegs \/ SingleStep \/ Go \/ Fail \/ Ended \/ UNCHANGED vars
    <3>1. fds' = fds
      BY <2>2 DEF VcpuInit, Load, SetRegs, SingleStep, Go, Fail, Ended, vars
    <3> QED BY <3>1, Zenon
  <2> QED BY <1>10, <2>1, <2>2, Zenon
<1> QED BY <1>4, <1>5, <1>6, <1>7, <1>8, <1>9, <1>10, Zenon DEF Next


Result(st, er, g) ==
  /\ st \in {"boot", "failed", "panic", "run"}
  /\ er \in {"none", "host", "stale", "input"}
  /\ er = "none" <=> st \in {"boot", "run"}
  /\ g \in {"none", "open", "closed"}

LEMMA ResultStep ==
  ASSUME Shape, Track, Effects, m \in Handles, [Next]_vars, Result(state, err, gc)
  PROVE  Result(state', err', gc')
<1>1. ASSUME NEW ops, Succeeds(ops) PROVE state' = state /\ err' = err
  BY <1>1 DEF Succeeds, Proceed
<1>2. CASE \/ ParseMem \/ MmapRam \/ Ask \/ SetIdentityMapAddr \/ SetupVM \/ SetCPUID2
           \/ VcpuInit \/ SetRegs
  <2>1. state' = state /\ err' = err /\ gc' = gc
    BY <1>1, <1>2 DEF ParseMem, MmapRam, Ask, SetIdentityMapAddr, SetupVM, SetCPUID2, VcpuInit, SetRegs
  <2> QED BY <2>1
<1>3. CASE OpenKvm \/ CreateVM \/ CreateDevice \/ OpenKernel \/ CreateVCPU
  <2>1. state' = state /\ err' = err
    BY <1>1, <1>3 DEF OpenKvm, CreateVM, CreateDevice, OpenKernel, CreateVCPU, Makes
  <2>2. gc' = gc \/ gc' = "open"
    BY <1>3 DEF OpenKvm, CreateVM, CreateDevice, OpenKernel, CreateVCPU
  <2> QED BY <2>1, <2>2 DEF Result
<1>4. CASE AskPMU \/ SingleStep
  <2>1. state' = state /\ err' = err /\ gc' = gc
    BY <1>1, <1>4 DEF AskPMU, Proceed, SingleStep
  <2> QED BY <2>1
<1>5. CASE Load
  <2>1. gc' = gc /\ \/ state' = state /\ err' = err
                    \/ state' \in {"failed", "panic"} /\ err' = "input"
    BY <1>5 DEF Load, Proceed
  <2> QED BY <2>1 DEF Result
<1>6. CASE Go
  <2>1. state = "boot" /\ state' \in {"run", "boot"} /\ err' = err /\ gc' = gc
    BY <1>6 DEF Go, Calling
  <2> QED BY <2>1 DEF Result
<1>7. CASE Fail
  <2>1. InOrder(Call)
    BY <1>7, NextInOrder DEF Fail
  <2>2. state' = "failed" /\ err' \in {"stale", "input", "host"} /\ gc' = gc
    BY <1>7, <2>1 DEF Fail
  <2> QED BY <2>2, Zenon DEF Result
<1>8. CASE Collect \/ Ended \/ UNCHANGED vars
  <2>1. state' = state /\ err' = err /\ (gc' = gc \/ gc' = "closed")
    BY <1>8, Zenon DEF Collect, Ended, vars
  <2> QED BY <2>1 DEF Result
<1> QED BY <1>2, <1>3, <1>4, <1>5, <1>6, <1>7, <1>8, Zenon DEF Next

LEMMA OInvStep == HInv /\ HInv' /\ OInv /\ [Next]_vars => OInv'
<1> SUFFICES ASSUME HInv, HInv', OInv, [Next]_vars PROVE OInv'
  OBVIOUS
<1>1. m \in Handles /\ m' \in Handles
  BY Zenon DEF HInv, Handles, FdNumbers, NoFd
<1>2. Shape /\ Track /\ Effects /\ Outcome
  BY DEF OInv
<1>3. Result(state, err, gc)
  BY <1>2, Zenon DEF Outcome, Result
<1>4. Shape' /\ Track' /\ Effects'
  BY <1>1, <1>2, StepGrows, Moves, EffectsStep, Zenon
<1>5. Result(state', err', gc')
  BY <1>1, <1>2, <1>3, ResultStep
<1>6. fds' \in [FdNumbers -> Objs]
  BY <1>2, FdsStep, Zenon DEF Outcome
<1>7. kvm'.inited \cup kvm'.debug \cup kvm'.running \subseteq 1 .. ncpus'
  BY <1>2, CpusStep, Zenon DEF Outcome
<1>8. Outcome'
  <2>1. (err' = "none") = (state' \in {"boot", "run"})
    BY <1>5 DEF Result
  <2> QED BY <1>5, <1>6, <1>7, <2>1, Zenon DEF Outcome, Result, FdNumbers, Objs
<1> QED BY <1>4, <1>8 DEF OInv

LEMMA OInvInit == Init => OInv
<1> SUFFICES ASSUME Init PROVE OInv
  OBVIOUS
<1>1. Shape
  <2>1. /\ kvm.cpuid = [c \in Cpus |-> << >>] /\ kvm.regs = [c \in Cpus |-> ResetRegs]
        /\ kvm.regions = {} /\ kvm.chips = {} /\ kvm.inited = {} /\ kvm.debug = {}
        /\ kvm.running = {}
    BY Zenon DEF Init
  <2>2. KvmShape(kvm)
    <3>1. RegsShape(ResetRegs)
      BY Zenon DEF RegsShape, ResetRegs
    <3>2. kvm = [regions |-> kvm.regions, chips |-> kvm.chips, inited |-> kvm.inited,
                 cpuid |-> kvm.cpuid, regs |-> kvm.regs, debug |-> kvm.debug,
                 running |-> kvm.running]
      BY Zenon DEF Init
    <3> QED BY <2>1, <3>1, <3>2, Zenon DEF KvmShape
  <2>3. ImageShape(image)
    BY Zenon DEF Init, ImageShape
  <2> QED BY <2>2, <2>3, Zenon DEF Shape, Init
<1>2. todo = Prog /\ Len(Prog) \in Nat /\ todo \in Seq(CallsOf(arch, ncpus))
  BY <1>1, ProgFacts, Zenon DEF Init, Prog, Shape
<1>3. Pos = 0
  BY <1>2 DEF Pos
<1>4. Track
  BY <1>2, <1>3 DEF Track
<1>5. m.vcpus = << >> /\ kvm.chips = {} /\ kvm.running = {} /\ kvm.inited = {} /\ kvm.debug = {}
  BY Zenon DEF Init
<1>6. Effects
  <2>1. Len(m.vcpus) = 0 /\ ncpus \in Nat
    <3>1. ncpus \in Nat
      BY <1>1, ProgFacts, Zenon DEF Shape
    <3> QED BY <1>5, <3>1
  <2>2. ASSUME NEW i \in 1 .. Len(Prog), Prog[i].op = "CREATE_VCPU" PROVE 0 < Prog[i].cpu
    <3>1. Prog[i] \in CallsOf(arch, ncpus) /\ ncpus \in Nat
      BY <1>1, ProgFacts, Zenon DEF Shape
    <3> QED BY <2>2, <3>1 DEF CallsOf, ForOne
  <2>3. \A i \in 1 .. Pos : FALSE
    BY <1>3
  <2>4. \A i \in Pos + 1 .. Len(Prog) : Prog[i].op = "CREATE_VCPU" => Len(m.vcpus) < Prog[i].cpu
    BY <1>2, <1>3, <2>1, <2>2
  <2>5. Len(m.vcpus) <= ncpus
    BY <2>1
  <2>6. kvm.chips \subseteq (IF arch = "amd64" THEN {"irqchip", "pit"} ELSE {"vgic"})
    BY <1>5
  <2>7. "vgic" \notin kvm.chips
    BY <1>5
  <2> QED BY <1>5, <2>3, <2>4, <2>5, <2>6, <2>7, Zenon DEF Effects
<1>7. Outcome
  <2>1. \A n \in FdNumbers : (IF n < 3 THEN Obj("std", 0) ELSE NoObj) \in Objs
    BY MachineConstants DEF Obj, NoObj, Objs, Kinds
  <2>2. fds \in [FdNumbers -> Objs]
    BY <2>1, Zenon DEF Init
  <2> QED BY <1>5, <2>2, Zenon DEF Outcome, Init
<1> QED BY <1>1, <1>4, <1>6, <1>7 DEF OInv

(* Neither KVM nor the host ever sees the calls of a launch in an order    *)
(* that KVM refuses: for every command and any number of vCPUs, whatever   *)
(* call the host refuses and whenever the garbage collector runs.          *)
THEOREM OrderAlwaysRespected == Spec => []OrderRespected
<1>1. OInv => OrderRespected
  BY DEF OInv, Outcome, OrderRespected
<1> QED BY <1>1, HInitInv, HNextInv, OInvInit, OInvStep, PTL DEF Spec

(* The variables of a launch keep their types, and exactly a launch that   *)
(* failed has a reason.                                                    *)
THEOREM LaunchTypes == Spec => []TypeOK
<1>1. HInv /\ OInv => TypeOK
  <2> SUFFICES ASSUME HInv, OInv PROVE TypeOK
    OBVIOUS
  <2>1. {m.kvmfd, m.vmfd, m.irqfd} \subseteq FdNumbers \cup {NoFd}
    BY DEF HInv, Handles
  <2>2. \A i \in DOMAIN m.vcpus : m.vcpus[i] \in FdNumbers
    BY DEF HInv, Handles
  <2>3. /\ cmd \in Commands /\ host \in HostTables /\ Len(m.vcpus) <= ncpus
        /\ Outcome
    BY Zenon DEF OInv, Shape, Effects
  <2>4. err \in {"none", "host", "stale", "order", "input"}
    BY <2>3, Zenon DEF Outcome
  <2> QED BY <2>1, <2>2, <2>3, <2>4, Zenon DEF Outcome, TypeOK
<1> QED BY <1>1, HInitInv, HNextInv, OInvInit, OInvStep, PTL DEF Spec

-----------------------------------------------------------------------------
(* What initCPUID makes of a table that fits.                              *)
LEMMA TableTailored ==
  ASSUME host \in HostTables, Fits(host)
  PROVE  Tailored(Table(host))
<1> DEFINE E == [fn : Nat, val : Nat]
           n == Len(host)
           f == [i \in 1 .. Nent |-> IF i <= n THEN host[i] ELSE [fn |-> 0, val |-> 0]]
           g == SubSeq(f, 1, n)
<1>1. host \in Seq(E) /\ n \in Nat /\ n <= Nent /\ Nent \in Nat
  BY LaunchConstants, MachineConstants, SeqLen DEF Fits
<1>2. \A i \in 1 .. n : host[i] \in E /\ i \in 1 .. Nent /\ f[i] = host[i]
  <2>1. \A i \in 1 .. n : host[i] \in E
    BY <1>1, SeqElement, Zenon
  <2> HIDE DEF n, E
  <2>2. \A i \in 1 .. n : i \in 1 .. Nent /\ f[i] = host[i]
    BY <1>1
  <2> QED BY <2>1, <2>2, Zenon
<1> HIDE DEF n, f, E
<1>3. /\ g \in Seq(E) /\ Len(g) = n /\ \A i \in 1 .. n : g[i] = host[i]
  <2>1. \A i \in 1 .. n : f[i] \in E
    BY <1>2
  <2>2. /\ SubSeq(f, 1, n) \in Seq(E) /\ Len(SubSeq(f, 1, n)) = (IF 1 <= n THEN n - 1 + 1 ELSE 0)
        /\ \A i \in 1 .. n - 1 + 1 : SubSeq(f, 1, n)[i] = f[1 + i - 1]
    BY <1>1, <2>1, SeqSub
  <2>3. \A i \in 1 .. n : SubSeq(f, 1, n)[i] = f[i]
    <3> TAKE i \in 1 .. n
    <3>1. i \in 1 .. n - 1 + 1 /\ 1 + i - 1 = i
      BY <1>1
    <3> QED BY <2>2, <3>1
  <2>4. Len(SubSeq(f, 1, n)) = n
    BY <1>1, <2>2
  <2> QED BY <1>2, <2>2, <2>3, <2>4, Zenon
<1>4. GetSupportedCPUID(host) = [nent |-> n, entries |-> g]
  BY Zenon DEF GetSupportedCPUID, NewCPUID, Filled, f, n
<1> DEFINE T == [i \in DOMAIN g |->
             CASE g[i].fn = CPUIDFuncPerMon -> [g[i] EXCEPT !.val = Disabled]
               [] g[i].fn = CPUIDSignature -> [g[i] EXCEPT !.val = KvmSignature]
               [] OTHER -> g[i]]
<1> HIDE DEF g
<1>5. Table(host) = T
  BY <1>4 DEF Table, initCPUID
<1>6. DOMAIN g = 1 .. n
  BY <1>3, SeqLen, Zenon
<1>7. ASSUME NEW i \in 1 .. n
      PROVE  /\ T[i].fn = host[i].fn
             /\ T[i].val = CASE T[i].fn = CPUIDFuncPerMon -> Disabled
                             [] T[i].fn = CPUIDSignature -> KvmSignature
                             [] OTHER -> host[i].val
  <2> DEFINE e == host[i]
  <2>1. e \in [fn : Nat, val : Nat] /\ g[i] = e
    BY <1>2, <1>3, Zenon DEF E
  <2>2. T[i] = CASE e.fn = CPUIDFuncPerMon -> [e EXCEPT !.val = Disabled]
                 [] e.fn = CPUIDSignature -> [e EXCEPT !.val = KvmSignature]
                 [] OTHER -> e
    BY <1>6, <2>1
  <2> HIDE DEF T, e
  <2>3. CPUIDFuncPerMon # CPUIDSignature
    BY DEF CPUIDFuncPerMon, CPUIDSignature
  <2>4. CASE e.fn = CPUIDFuncPerMon
    BY <2>1, <2>2, <2>3, <2>4 DEF e
  <2>5. CASE e.fn = CPUIDSignature
    BY <2>1, <2>2, <2>3, <2>5 DEF e
  <2>6. CASE e.fn # CPUIDFuncPerMon /\ e.fn # CPUIDSignature
    BY <2>1, <2>2, <2>6 DEF e
  <2> QED BY <2>4, <2>5, <2>6
<1>8. DOMAIN T = 1 .. n /\ Len(T) = n
  BY <1>1, <1>6
<1> HIDE DEF T
<1> QED BY <1>5, <1>7, <1>8 DEF Tailored, n

(* Once a goroutine is started, all that is needed has been done.          *)
LEMMA AllDone ==
  ASSUME OInv, kvm.running # {}, NEW x \in Needed(arch, ncpus)
  PROVE  /\ Achieved(x, cmd, host, image, kvm, m)
         /\ x.op = "SET_CPUID2" => Fits(host)
<1>1. PICK i \in 1 .. Pos : Prog[i].op = "go"
  BY Zenon DEF OInv, Effects, Made
<1>2. cmd \in Commands /\ Pos \in 0 .. Len(Prog) /\ Len(Prog) \in Nat
  <2>1. Shape /\ Track /\ cmd \in Commands
    BY Zenon DEF OInv, Shape
  <2> QED BY <2>1, PosFacts, ProgFacts, Zenon
<1>3. i \in 1 .. Len(Prog)
  BY <1>1, <1>2
<1>4. Phase("go") = 17
  BY DEF Phase, OneReg
<1>5. x.op \in {"parseMem", "SET_RAM", "SET_SYS", "CREATE_VCPU", "SET_IDENTITY_MAP_ADDR",
                "SET_TSS_ADDR", "CREATE_IRQCHIP", "CREATE_PIT2", "SET_CPUID2", "SET_REGS",
                "SET_SREGS", "SET_DIST_ADDR", "SET_REDIST_ADDR", "VGIC_INIT", "VCPU_INIT",
                "SET_PC", "SET_X0", "SET_X1", "SET_X2", "LoadKernel"}
  BY DEF Needed, Op
<1>6. Phase(x.op) < 17
  BY <1>5 DEF Phase, OneReg
<1>7. PICK j \in 1 .. Len(Prog) : j < i /\ Prog[j] = x
  BY <1>1, <1>2, <1>3, <1>4, <1>6, Earlier
<1>8. j \in 1 .. Pos
  BY <1>1, <1>2, <1>7
<1>9. ASSUME x.op = "SET_CPUID2" PROVE Fits(host)
  <2>1. PICK k \in 1 .. Len(Prog) : k < j /\ Prog[k].op = "GET_SUPPORTED_CPUID"
    BY <1>2, <1>7, <1>9, CommandPiece, Zenon DEF Prog, Piece
  <2>2. k \in 1 .. Pos
    BY <1>2, <1>8, <2>1
  <2>3. Achieved(Prog[k], cmd, host, image, kvm, m)
    BY <2>2, Zenon DEF OInv, Effects
  <2> QED BY <2>1, <2>3, Zenon DEF Achieved
<1> QED BY <1>7, <1>8, <1>9, Zenon DEF OInv, Effects

LEMMA Ready == ASSUME HInv, OInv PROVE StartedReady
<1> SUFFICES ASSUME NEW c \in kvm.running
             PROVE  /\ Len(m.vcpus) = ncpus
                    /\ Mapped({"ram", "sys"})
                    /\ kvm.regs[c].pc = cmd.kernel.entry
                    /\ \E r \in kvm.regions : r.name = "ram" /\ r.size = kvm.regs[c].mem
                    /\ arch = "amd64" =>
                         /\ kvm.chips = {"irqchip", "pit"}
                         /\ Mapped({"identity", "tss", "ioapic", "lapic"})
                         /\ Tailored(kvm.cpuid[c])
                         /\ 0 \in kvm.regs[c].cr0 /\ {2, 31} \cap kvm.regs[c].cr0 = {}
                         /\ 9 \in kvm.regs[c].cr4
                    /\ arch = "arm64" =>
                         /\ kvm.chips = {"vgic"} /\ Mapped({"dist", "redist"})
                         /\ c \in kvm.inited
  BY Zenon DEF StartedReady
<1> DEFINE Done(x) == Achieved(x, cmd, host, image, kvm, m)
<1>1. c \in 1 .. ncpus /\ ncpus \in Nat /\ arch \in Archs
  BY ProgFacts, Zenon DEF OInv, Outcome, Shape
<1>2. /\ \A x \in Needed(arch, ncpus) : Done(x)
      /\ \A x \in Needed(arch, ncpus) : x.op = "SET_CPUID2" => Fits(host)
  BY AllDone, Zenon
<1>3. \A y, k : Op(y, k).op = y /\ Op(y, k).cpu = k
  BY Zenon DEF Op
<1>8. ASSUME NEW y, NEW k, Op(y, k) \in Needed(arch, ncpus)
      PROVE  /\ NamesOf(y) \subseteq {r.name : r \in kvm.regions} /\ Chips(y) \subseteq kvm.chips
             /\ y = "SET_RAM" => \E r \in kvm.regions : r.name = "ram" /\ r.size = image.size.pages
             /\ y = "SET_CPUID2" => kvm.cpuid[k] = Table(host) /\ Fits(host)
             /\ y = "VCPU_INIT" => k \in kvm.inited
             /\ y \in {"SET_REGS", "SET_PC"} => kvm.regs[k].pc = cmd.kernel.entry
             /\ y \in {"SET_REGS", "SET_X0"} => kvm.regs[k].mem = image.size.pages
             /\ y = "SET_SREGS" => ProtectedMode(kvm.regs[k])
  <2>1. PICK x : x = Op(y, k)
    OBVIOUS
  <2>2. x.op = y /\ x.cpu = k
    BY <1>3, <2>1, Zenon
  <2>3. Achieved(x, cmd, host, image, kvm, m) /\ (x.op = "SET_CPUID2" => Fits(host))
    BY <1>2, <1>8, <2>1, Zenon
  <2> QED BY <2>2, <2>3, ZenonT(30) DEF Achieved
<1>4. Len(m.vcpus) = ncpus
  <2>1. Op("CREATE_VCPU", ncpus) \in Needed(arch, ncpus)
    BY <1>1 DEF Needed
  <2>2. ncpus <= Len(m.vcpus)
    BY <1>2, <1>3, <2>1, Zenon DEF Achieved
  <2>3. Len(m.vcpus) \in Nat /\ Len(m.vcpus) <= ncpus
    <3>1. m.vcpus \in Seq(FdNumbers)
      BY Zenon DEF HInv, Handles
    <3>2. Len(m.vcpus) <= ncpus
      BY ZenonT(30) DEF OInv, Effects
    <3> QED BY <3>1, <3>2, SeqLen
  <2> QED BY <1>1, <2>2, <2>3
<1>5. /\ Mapped({"ram", "sys"})
      /\ \E r \in kvm.regions : r.name = "ram" /\ r.size = image.size.pages
  <2>1. Op("SET_RAM", 0) \in Needed(arch, ncpus) /\ Op("SET_SYS", 0) \in Needed(arch, ncpus)
    BY DEF Needed
  <2>2. NamesOf("SET_RAM") = {"ram"} /\ NamesOf("SET_SYS") = {"sys"}
    BY DEF NamesOf
  <2> QED BY <1>8, <2>1, <2>2, Zenon DEF Mapped
<1>6. CASE arch = "amd64"
  <2>1. \A y \in {"SET_CPUID2", "SET_REGS", "SET_SREGS"} : Op(y, c) \in Needed(arch, ncpus)
    BY <1>1, <1>6 DEF Needed
  <2>2. \A y \in {"SET_IDENTITY_MAP_ADDR", "SET_TSS_ADDR", "CREATE_IRQCHIP", "CREATE_PIT2"} :
          Op(y, 0) \in Needed(arch, ncpus)
    BY <1>6 DEF Needed
  <2>3. kvm.regs[c].pc = cmd.kernel.entry /\ kvm.regs[c].mem = image.size.pages
    BY <1>8, <2>1, Zenon
  <2>4. ProtectedMode(kvm.regs[c]) /\ kvm.cpuid[c] = Table(host) /\ Fits(host)
    BY <1>8, <2>1, Zenon
  <2>5. Tailored(kvm.cpuid[c])
    BY <2>4, TableTailored, Zenon DEF OInv, Shape
  <2>6. /\ NamesOf("SET_IDENTITY_MAP_ADDR") = {"identity"} /\ NamesOf("SET_TSS_ADDR") = {"tss"}
        /\ NamesOf("CREATE_IRQCHIP") = {"ioapic", "lapic"}
        /\ Chips("CREATE_IRQCHIP") = {"irqchip"} /\ Chips("CREATE_PIT2") = {"pit"}
    BY DEF NamesOf, Chips
  <2>7. Mapped({"identity", "tss", "ioapic", "lapic"})
    <3>1. \A y \in {"SET_IDENTITY_MAP_ADDR", "SET_TSS_ADDR", "CREATE_IRQCHIP"} :
            NamesOf(y) \subseteq {r.name : r \in kvm.regions}
      BY <1>8, <2>2, Zenon
    <3> DEFINE N == {r.name : r \in kvm.regions}
    <3> HIDE DEF N
    <3>2. {"identity", "tss", "ioapic", "lapic"} \subseteq N
      BY <2>6, <3>1, Zenon DEF N
    <3> QED BY <3>2, Zenon DEF Mapped, N
  <2>8. {"irqchip", "pit"} \subseteq kvm.chips
    BY <1>8, <2>2, <2>6, Zenon
  <2>9. kvm.chips = {"irqchip", "pit"}
    <3>1. kvm.chips \subseteq (IF arch = "amd64" THEN {"irqchip", "pit"} ELSE {"vgic"})
      BY Zenon DEF OInv, Effects
    <3> QED BY <1>6, <2>8, <3>1
  <2> QED BY <1>4, <1>5, <1>6, <2>3, <2>4, <2>5, <2>7, <2>9, Zenon DEF ProtectedMode
<1>7. CASE arch = "arm64"
  <2>1. \A y \in {"VCPU_INIT", "SET_PC", "SET_X0"} : Op(y, c) \in Needed(arch, ncpus)
    BY <1>1, <1>7 DEF Needed
  <2>2. \A y \in {"SET_DIST_ADDR", "SET_REDIST_ADDR", "VGIC_INIT"} : Op(y, 0) \in Needed(arch, ncpus)
    BY <1>7 DEF Needed
  <2>3. kvm.regs[c].pc = cmd.kernel.entry /\ kvm.regs[c].mem = image.size.pages /\ c \in kvm.inited
    BY <1>8, <2>1, Zenon
  <2>4. /\ NamesOf("SET_DIST_ADDR") = {"dist"} /\ NamesOf("SET_REDIST_ADDR") = {"redist"}
        /\ Chips("VGIC_INIT") = {"vgic"}
    BY DEF NamesOf, Chips
  <2>5. Mapped({"dist", "redist"}) /\ "vgic" \in kvm.chips
    <3>1. \A y \in {"SET_DIST_ADDR", "SET_REDIST_ADDR", "VGIC_INIT"} :
            NamesOf(y) \subseteq {r.name : r \in kvm.regions} /\ Chips(y) \subseteq kvm.chips
      BY <1>8, <2>2, Zenon
    <3> DEFINE N == {r.name : r \in kvm.regions}
    <3> HIDE DEF N
    <3>2. {"dist", "redist"} \subseteq N /\ "vgic" \in kvm.chips
      BY <2>4, <3>1, Zenon DEF N
    <3> QED BY <3>2 DEF Mapped, N
  <2>6. kvm.chips = {"vgic"}
    <3>1. kvm.chips \subseteq (IF arch = "amd64" THEN {"irqchip", "pit"} ELSE {"vgic"})
      BY Zenon DEF OInv, Effects
    <3> QED BY <1>7, <2>5, <3>1
  <2> QED BY <1>4, <1>5, <1>7, <2>3, <2>5, <2>6, Zenon
<1> QED BY <1>1, <1>6, <1>7, Zenon DEF Archs

(* No vCPU ever runs on a machine that is not completely set up: for every *)
(* command, any number of vCPUs, kernel and host table, the goroutine of a *)
(* vCPU is only started once memory, hypercall page and interrupt          *)
(* controller are there and that vCPU has its registers and CPUID table.   *)
THEOREM StartsOnlyReady == Spec => []StartedReady
<1>1. HInv /\ OInv => StartedReady
  BY Ready
<1> QED BY <1>1, HInitInv, HNextInv, OInvInit, OInvStep, PTL DEF Spec
=============================================================================
