-------------------------- MODULE GuestImageProofs --------------------------
(***************************************************************************)
(* Proofs about guest memory: what LoadKernel has put into it when it      *)
(* succeeds, for every kernel and every list of arguments.                 *)
(***************************************************************************)
EXTENDS GuestImage, WellFoundedInduction, TLAPS

USE SMTT(60)

(* Lists.                                                                  *)
LEMMA ListOfCells ==
  ASSUME NEW S, NEW n \in Nat, NEW f \in [1 .. n -> S]
  PROVE  f \in Seq(S) /\ Len(f) = n
OBVIOUS

LEMMA ListElement == ASSUME NEW S, NEW s \in Seq(S), NEW i \in 1 .. Len(s) PROVE s[i] \in S
OBVIOUS

LEMMA ListLen ==
  ASSUME NEW S, NEW s \in Seq(S)
  PROVE  Len(s) \in Nat /\ DOMAIN s = 1 .. Len(s) /\ s \in [1 .. Len(s) -> S]
OBVIOUS

LEMMA ListEmpty ==
  ASSUME NEW S
  PROVE  << >> \in Seq(S) /\ Len(<< >>) = 0 /\ \A s \in Seq(S) : s # << >> => Len(s) \in Nat \ {0}
OBVIOUS

LEMMA ListConcat ==
  ASSUME NEW S, NEW s \in Seq(S), NEW t \in Seq(S)
  PROVE  /\ s \o t \in Seq(S) /\ Len(s \o t) = Len(s) + Len(t)
         /\ \A i \in 1 .. Len(s) + Len(t) :
              (s \o t)[i] = IF i <= Len(s) THEN s[i] ELSE t[i - Len(s)]
OBVIOUS

LEMMA ListAppend ==
  ASSUME NEW S, NEW s \in Seq(S), NEW e \in S
  PROVE  /\ Append(s, e) \in Seq(S) /\ Len(Append(s, e)) = Len(s) + 1
         /\ Append(s, e)[Len(s) + 1] = e
         /\ \A i \in 1 .. Len(s) : Append(s, e)[i] = s[i]
OBVIOUS

(* Induction over the natural numbers, for a set of them.                  *)
LEMMA Induction ==
  ASSUME NEW T, 0 \in T, \A n \in Nat : n \in T => n + 1 \in T
  PROVE  Nat \subseteq T
<1> DEFINE R == Nat \ T
<1> SUFFICES ASSUME R # {} PROVE FALSE
  OBVIOUS
<1>1. PICK n \in R : \A k \in R : ~ (<<k, n>> \in OpToRel(<, Nat))
  BY NatLessThanWellFounded, WFMin, Zenon
<1>2. n - 1 \in Nat /\ n - 1 < n
  OBVIOUS
<1>3. <<n - 1, n>> \in OpToRel(<, Nat)
  BY <1>2 DEF OpToRel
<1>4. n - 1 \in T
  BY <1>1, <1>2, <1>3, Zenon
<1> QED
  BY <1>2, <1>4

LEMMA BoundedInduction ==
  ASSUME NEW z \in Nat, NEW T, 0 \in T,
         \A n \in Nat : n < z /\ n \in T => n + 1 \in T
  PROVE  0 .. z \subseteq T
<1> DEFINE U == {n \in Nat : n <= z => n \in T}
<1>1. 0 \in U
  OBVIOUS
<1>2. \A n \in Nat : n \in U => n + 1 \in U
  OBVIOUS
<1>3. Nat \subseteq U
  <2> HIDE DEF U
  <2> QED BY <1>1, <1>2, Induction
<1> QED
  BY <1>3

-----------------------------------------------------------------------------
(* A memory of n cells, and the records of LoadKernel's loops.             *)
Memory(mem, n) == n \in Nat /\ Len(mem) = n /\ mem = [i \in 1 .. n |-> mem[i]]

Loading(s, n) ==
  /\ s = [mem |-> s.mem, status |-> s.status, kernSize |-> s.kernSize, off |-> s.off,
          argp |-> s.argp, argv |-> s.argv]
  /\ Memory(s.mem, n) /\ s.off \in Nat /\ s.argp \in Seq(Nat)

LEMMA FunctionLen ==
  ASSUME NEW n \in Nat, NEW f, f = [i \in 1 .. n |-> f[i]]
  PROVE  Len(f) = n /\ DOMAIN f = 1 .. n
<1> DEFINE S == {f[i] : i \in 1 .. n}
<1>1. f \in [1 .. n -> S]
  OBVIOUS
<1> HIDE DEF S
<1> QED BY <1>1, ListOfCells

(* A copy changes the cells it reaches and no other.                       *)
LEMMA CopyCells ==
  ASSUME NEW mem, NEW n, Memory(mem, n), NEW off \in Int, NEW k \in Nat, NEW b, Len(b) = k
  PROVE  /\ Memory(Copy(mem, off, b), n)
         /\ \A i \in 1 .. n :
              Copy(mem, off, b)[i] = IF i - off \in 1 .. k THEN b[i - off] ELSE mem[i]
<1> DEFINE c == Copy(mem, off, b)
<1>1. n \in Nat /\ Len(mem) = n
  BY DEF Memory
<1>2. c = [i \in 1 .. n |-> IF i - off \in 1 .. k THEN b[i - off] ELSE mem[i]]
  BY <1>1 DEF Copy
<1> HIDE DEF c
<1>3. c = [i \in 1 .. n |-> c[i]]
  BY <1>2
<1>4. Len(c) = n
  BY <1>1, <1>3, FunctionLen
<1>5. \A i \in 1 .. n : c[i] = IF i - off \in 1 .. k THEN b[i - off] ELSE mem[i]
  BY <1>2
<1> QED BY <1>1, <1>3, <1>4, <1>5 DEF Memory, c

-----------------------------------------------------------------------------
(* The segments.                                                           *)
Start(a, p) == ka2pa(a, p.vaddr) - ramBase

LEMMA StartType == ASSUME NEW a, NEW p \in Segments PROVE Start(a, p) \in Int
<1>1. p.vaddr \in Nat
  BY DEF Segments
<1>2. kernTextBase \in Nat /\ kernBase \in Nat /\ ramBase \in Nat
  BY ImageConstants
<1> QED BY <1>1, <1>2 DEF Start, ka2pa

(* A segment that is loaded is in memory as a whole, and nothing below its *)
(* start has changed.                                                      *)
SegmentLoaded(a, s, n, p, k, t) ==
  /\ Loading(t, n) /\ t.off = s.off /\ t.argp = s.argp /\ t.argv = s.argv
  /\ t.status = "ok" =>
       /\ Start(a, p) \in 0 .. n /\ Start(a, p) + p.memsz <= n
       /\ \A i \in 1 .. n : i <= Start(a, p) => t.mem[i] = s.mem[i]
       /\ SegmentIntact(a, t.mem, p, k)

LEMMA LoadSegmentDoes ==
  ASSUME NEW a, NEW s, NEW n, Loading(s, n), NEW p \in Segments, NEW k,
         NEW t, t = LoadSegment(a, s, p, k)
  PROVE  SegmentLoaded(a, s, n, p, k, t)
<1> DEFINE start == Start(a, p)
           room == Len(s.mem) - start
           z == IF p.filesz = 0 THEN 0 ELSE Smaller(p.present, Smaller(p.filesz, room))
           file == [i \in 1 .. z |-> Cell("file", k, i)]
           bss == [i \in 1 .. (p.memsz - p.filesz) |-> Zero]
           full == Copy(Copy(s.mem, start, file), start + p.filesz, bss)
           size == s.kernSize + z
<1>1. t = IF start \notin 0 .. Len(s.mem) THEN Panic(s)
          ELSE IF p.filesz > 0 /\ (room <= p.filesz \/ z # p.filesz) THEN Error(s)
          ELSE IF start + p.memsz > Len(s.mem) THEN Panic(s)
          ELSE [s EXCEPT !.mem = full, !.kernSize = size]
  BY Zenon DEF LoadSegment, Start
<1>2. n \in Nat /\ Len(s.mem) = n /\ Memory(s.mem, n)
  BY Zenon DEF Loading, Memory
<1>3. p.filesz \in Nat /\ p.memsz \in Nat /\ p.present \in Nat /\ start \in Int
  BY StartType DEF Segments
<1> HIDE DEF full, size, start
<1>4. CASE t \in {Panic(s), Error(s)}
  <2>1. t = [s EXCEPT !.status = "panic"] \/ t = [s EXCEPT !.status = "error"]
    BY <1>4 DEF Panic, Error
  <2>2. Loading(t, n) /\ t.off = s.off /\ t.argp = s.argp /\ t.argv = s.argv
    BY <2>1 DEF Loading
  <2>3. t.status # "ok"
    BY <2>1 DEF Loading
  <2> QED BY <2>2, <2>3, Zenon DEF SegmentLoaded
<1>5. CASE t \notin {Panic(s), Error(s)}
  <2>1. /\ start \in 0 .. n /\ start + p.memsz <= n /\ z = p.filesz
        /\ p.filesz > 0 => p.filesz < n - start
        /\ t = [s EXCEPT !.mem = full, !.kernSize = size]
    BY <1>1, <1>2, <1>3, <1>5
  <2>2. Len(file) = z /\ z \in Nat /\ \A i \in 1 .. z : file[i] = Cell("file", k, i)
    <3>1. z \in Nat
      BY <1>3, <2>1
    <3> HIDE DEF z
    <3>2. file = [i \in 1 .. z |-> file[i]] /\ \A i \in 1 .. z : file[i] = Cell("file", k, i)
      OBVIOUS
    <3> HIDE DEF file
    <3> QED BY <3>1, <3>2, FunctionLen
  <2>3. PICK q \in Nat : Len(bss) = q /\ (\A i \in 1 .. q : bss[i] = Zero)
                         /\ q = (IF p.filesz <= p.memsz THEN p.memsz - p.filesz ELSE 0)
    <3> DEFINE q == IF p.filesz <= p.memsz THEN p.memsz - p.filesz ELSE 0
    <3>1. q \in Nat /\ 1 .. (p.memsz - p.filesz) = 1 .. q
      <4>1. CASE p.filesz <= p.memsz
        BY <1>3, <4>1
      <4>2. CASE ~ (p.filesz <= p.memsz)
        <5>1. q = 0
          BY <4>2
        <5>2. \A i \in Int : ~ (1 <= i /\ i <= 0) /\ ~ (1 <= i /\ i <= p.memsz - p.filesz)
          BY <1>3, <4>2
        <5>3. 1 .. (p.memsz - p.filesz) = {} /\ 1 .. 0 = {}
          BY <1>3, <5>2
        <5> HIDE DEF q
        <5> QED BY <5>1, <5>3
      <4> QED BY <4>1, <4>2
    <3> HIDE DEF q
    <3>2. bss = [i \in 1 .. q |-> bss[i]] /\ \A i \in 1 .. q : bss[i] = Zero
      <4>1. bss = [i \in 1 .. q |-> Zero]
        BY <3>1, Zenon
      <4> HIDE DEF bss
      <4> QED BY <4>1, Zenon
    <3> HIDE DEF bss
    <3>3. Len(bss) = q
      BY <3>1, <3>2, FunctionLen
    <3> QED BY <3>1, <3>2, <3>3, Zenon DEF q
  <2> HIDE DEF file, bss, z
  <2> DEFINE one == Copy(s.mem, start, file)
  <2>4. Memory(one, n) /\ \A i \in 1 .. n :
          one[i] = IF i - start \in 1 .. z THEN file[i - start] ELSE s.mem[i]
    BY <1>2, <1>3, <2>2, CopyCells
  <2> HIDE DEF one
  <2>5. Memory(full, n) /\ \A i \in 1 .. n :
          full[i] = IF i - (start + p.filesz) \in 1 .. q THEN bss[i - (start + p.filesz)] ELSE one[i]
    <3>1. start + p.filesz \in Int
      BY <1>3
    <3> QED BY <2>3, <2>4, <3>1, CopyCells DEF full, one
  <2>6. /\ t.mem = full /\ t.off = s.off /\ t.argp = s.argp /\ t.argv = s.argv
        /\ t.status = s.status /\ Loading(t, n)
    BY <2>1, <2>5, Zenon DEF Loading
  <2>7. \A i \in 1 .. n : i <= start => full[i] = s.mem[i]
    <3> SUFFICES ASSUME NEW i \in 1 .. n, i <= start PROVE full[i] = s.mem[i]
      OBVIOUS
    <3>1. ~ (i - start \in 1 .. z) /\ ~ (i - (start + p.filesz) \in 1 .. q)
      BY <1>3, <2>3
    <3> QED BY <2>4, <2>5, <3>1
  <2>8. \A i \in 1 .. p.memsz :
          full[start + i] = IF i <= p.filesz THEN Cell("file", k, i) ELSE Zero
    <3> SUFFICES ASSUME NEW i \in 1 .. p.memsz
                 PROVE  full[start + i] = IF i <= p.filesz THEN Cell("file", k, i) ELSE Zero
      OBVIOUS
    <3>1. PICK j \in 1 .. n : j = start + i
      BY <1>2, <1>3, <2>1
    <3>2. CASE i <= p.filesz
      <4>1. ~ (j - (start + p.filesz) \in 1 .. q) /\ j - start \in 1 .. z /\ j - start = i
        BY <1>3, <2>1, <3>1, <3>2
      <4> QED BY <2>2, <2>4, <2>5, <3>1, <3>2, <4>1
    <3>3. CASE ~ (i <= p.filesz)
      <4>1. j - (start + p.filesz) \in 1 .. q
        BY <1>3, <2>3, <3>1, <3>3
      <4> QED BY <2>3, <2>5, <3>1, <3>3, <4>1
    <3> QED BY <3>2, <3>3
  <2>9. SegmentIntact(a, t.mem, p, k)
    BY <2>6, <2>8 DEF SegmentIntact, start, Start
  <2> QED BY <2>1, <2>6, <2>7, <2>9, Zenon DEF start, SegmentLoaded
<1> QED BY <1>4, <1>5

-----------------------------------------------------------------------------
(* The loop over the segments.                                             *)
LoadLoop(a, s, progs) ==
  LET done[i \in 0 .. Len(progs)] == IF i = 0 THEN s ELSE LoadProg(a, done[i - 1], progs, i)
  IN  done

LEMMA LoadLoopDef ==
  ASSUME NEW a, NEW s, NEW progs, NEW n \in Nat, Len(progs) = n,
         NEW f, f = LoadLoop(a, s, progs)
  PROVE  /\ f[0] = s /\ LoadProgs(a, s, progs) = f[n]
         /\ \A i \in 1 .. n : f[i] = LoadProg(a, f[i - 1], progs, i)
<1> DEFINE First == s
           E(h, i) == IF i = 0 THEN First ELSE LoadProg(a, h[i - 1], progs, i)
           Is(h, j) == h = [i \in 0 .. j |-> E(h, i)]
           T == {j \in Nat : \E h : Is(h, j)}
<1>1. 0 \in T
  <2> DEFINE h == [i \in 0 .. 0 |-> First]
  <2> HIDE DEF First
  <2>1. Is(h, 0)
    OBVIOUS
  <2> HIDE DEF Is, h
  <2> QED BY <2>1
<1>2. ASSUME NEW j \in Nat, j \in T PROVE j + 1 \in T
  <2>1. PICK h : Is(h, j)
    BY <1>2
  <2> HIDE DEF First
  <2> DEFINE g == [i \in 0 .. j + 1 |-> IF i <= j THEN h[i] ELSE LoadProg(a, h[j], progs, (j + 1))]
  <2>2. \A i \in 0 .. j + 1 : g[i] = E(g, i)
    <3> SUFFICES ASSUME NEW i \in 0 .. j + 1 PROVE g[i] = E(g, i)
      OBVIOUS
    <3>1. CASE i = j + 1
      <4>1. ~ (i <= j) /\ i # 0 /\ i - 1 = j /\ j \in 0 .. j + 1 /\ j <= j
        BY <3>1
      <4>2. g[i] = LoadProg(a, h[j], progs, (j + 1)) /\ g[j] = h[j]
        BY <3>1, <4>1
      <4> HIDE DEF g
      <4> QED BY <3>1, <4>1, <4>2
    <3>2. CASE i \in 0 .. j
      <4>1. h[i] = E(h, i)
        BY <2>1, <3>2
      <4>2. g[i] = h[i] /\ (i # 0 => g[i - 1] = h[i - 1])
        BY <3>2
      <4> HIDE DEF g
      <4> QED BY <4>1, <4>2
    <3> QED BY <3>1, <3>2
  <2>3. g = [i \in 0 .. j + 1 |-> g[i]]
    OBVIOUS
  <2> HIDE DEF g
  <2>4. Is(g, j + 1)
    BY <2>2, <2>3, Zenon
  <2>5. j + 1 \in Nat
    OBVIOUS
  <2> HIDE DEF Is
  <2> QED BY <2>4, <2>5
<1>3. n \in T
  <2>1. \A j \in Nat : j \in T => j + 1 \in T
    BY <1>2, Zenon
  <2> HIDE DEF T
  <2> QED BY <1>1, <2>1, Induction
<1>4. \E h : Is(h, n)
  BY <1>3
<1> HIDE DEF First
<1>5. Is(f, n)
  BY <1>4 DEF LoadLoop, First
<1>6. \A i \in 0 .. n : f[i] = E(f, i)
  BY <1>5
<1>7. 0 \in 0 .. n /\ \A i \in 1 .. n : i \in 0 .. n /\ i # 0
  OBVIOUS
<1>8. LoadProgs(a, s, progs) = f[n]
  BY Zenon DEF LoadProgs, LoadLoop
<1> QED BY <1>6, <1>7, <1>8, Zenon DEF First

(* What a turn of the other loops does.                                    *)
OneArg(s, args, i) == IF s.status # "ok" THEN s ELSE WriteArg(s, i, args[i])
OnePointer(s, ptrs, i) == IF s.status # "ok" THEN s ELSE PutUint64(s, ptrs[i])

(* The loops over the strings and over the pointers.                       *)
StringLoop(s, args) ==
  LET done[i \in 0 .. Len(args)] == IF i = 0 THEN s ELSE OneArg(done[i - 1], args, i)
  IN  done

LEMMA StringLoopDef ==
  ASSUME NEW s, NEW args, NEW n \in Nat, Len(args) = n,
         NEW f, f = StringLoop(s, args)
  PROVE  /\ f[0] = s /\ Strings(s, args) = f[n]
         /\ \A i \in 1 .. n : f[i] = OneArg(f[i - 1], args, i)
<1> DEFINE First == s
           E(h, i) == IF i = 0 THEN First ELSE OneArg(h[i - 1], args, i)
           Is(h, j) == h = [i \in 0 .. j |-> E(h, i)]
           T == {j \in Nat : \E h : Is(h, j)}
<1>1. 0 \in T
  <2> DEFINE h == [i \in 0 .. 0 |-> First]
  <2> HIDE DEF First
  <2>1. Is(h, 0)
    OBVIOUS
  <2> HIDE DEF Is, h
  <2> QED BY <2>1
<1>2. ASSUME NEW j \in Nat, j \in T PROVE j + 1 \in T
  <2>1. PICK h : Is(h, j)
    BY <1>2
  <2> HIDE DEF First
  <2> DEFINE g == [i \in 0 .. j + 1 |-> IF i <= j THEN h[i] ELSE OneArg(h[j], args, (j + 1))]
  <2>2. \A i \in 0 .. j + 1 : g[i] = E(g, i)
    <3> SUFFICES ASSUME NEW i \in 0 .. j + 1 PROVE g[i] = E(g, i)
      OBVIOUS
    <3>1. CASE i = j + 1
      <4>1. ~ (i <= j) /\ i # 0 /\ i - 1 = j /\ j \in 0 .. j + 1 /\ j <= j
        BY <3>1
      <4>2. g[i] = OneArg(h[j], args, (j + 1)) /\ g[j] = h[j]
        BY <3>1, <4>1
      <4> HIDE DEF g
      <4> QED BY <3>1, <4>1, <4>2
    <3>2. CASE i \in 0 .. j
      <4>1. h[i] = E(h, i)
        BY <2>1, <3>2
      <4>2. g[i] = h[i] /\ (i # 0 => g[i - 1] = h[i - 1])
        BY <3>2
      <4> HIDE DEF g
      <4> QED BY <4>1, <4>2
    <3> QED BY <3>1, <3>2
  <2>3. g = [i \in 0 .. j + 1 |-> g[i]]
    OBVIOUS
  <2> HIDE DEF g
  <2>4. Is(g, j + 1)
    BY <2>2, <2>3, Zenon
  <2>5. j + 1 \in Nat
    OBVIOUS
  <2> HIDE DEF Is
  <2> QED BY <2>4, <2>5
<1>3. n \in T
  <2>1. \A j \in Nat : j \in T => j + 1 \in T
    BY <1>2, Zenon
  <2> HIDE DEF T
  <2> QED BY <1>1, <2>1, Induction
<1>4. \E h : Is(h, n)
  BY <1>3
<1> HIDE DEF First
<1>5. Is(f, n)
  BY <1>4 DEF StringLoop, First
<1>6. \A i \in 0 .. n : f[i] = E(f, i)
  BY <1>5
<1>7. 0 \in 0 .. n /\ \A i \in 1 .. n : i \in 0 .. n /\ i # 0
  OBVIOUS
<1>8. Strings(s, args) = f[n]
  BY Zenon DEF Strings, StringLoop, OneArg
<1> QED BY <1>6, <1>7, <1>8, Zenon DEF First

PointerLoop(s, ptrs) ==
  LET done[i \in 0 .. Len(ptrs)] == IF i = 0 THEN s ELSE OnePointer(done[i - 1], ptrs, i)
  IN  done

LEMMA PointerLoopDef ==
  ASSUME NEW s, NEW ptrs, NEW n \in Nat, Len(ptrs) = n,
         NEW f, f = PointerLoop(s, ptrs)
  PROVE  /\ f[0] = s /\ Pointers(s, ptrs) = f[n]
         /\ \A i \in 1 .. n : f[i] = OnePointer(f[i - 1], ptrs, i)
<1> DEFINE First == s
           E(h, i) == IF i = 0 THEN First ELSE OnePointer(h[i - 1], ptrs, i)
           Is(h, j) == h = [i \in 0 .. j |-> E(h, i)]
           T == {j \in Nat : \E h : Is(h, j)}
<1>1. 0 \in T
  <2> DEFINE h == [i \in 0 .. 0 |-> First]
  <2> HIDE DEF First
  <2>1. Is(h, 0)
    OBVIOUS
  <2> HIDE DEF Is, h
  <2> QED BY <2>1
<1>2. ASSUME NEW j \in Nat, j \in T PROVE j + 1 \in T
  <2>1. PICK h : Is(h, j)
    BY <1>2
  <2> HIDE DEF First
  <2> DEFINE g == [i \in 0 .. j + 1 |-> IF i <= j THEN h[i] ELSE OnePointer(h[j], ptrs, (j + 1))]
  <2>2. \A i \in 0 .. j + 1 : g[i] = E(g, i)
    <3> SUFFICES ASSUME NEW i \in 0 .. j + 1 PROVE g[i] = E(g, i)
      OBVIOUS
    <3>1. CASE i = j + 1
      <4>1. ~ (i <= j) /\ i # 0 /\ i - 1 = j /\ j \in 0 .. j + 1 /\ j <= j
        BY <3>1
      <4>2. g[i] = OnePointer(h[j], ptrs, (j + 1)) /\ g[j] = h[j]
        BY <3>1, <4>1
      <4> HIDE DEF g
      <4> QED BY <3>1, <4>1, <4>2
    <3>2. CASE i \in 0 .. j
      <4>1. h[i] = E(h, i)
        BY <2>1, <3>2
      <4>2. g[i] = h[i] /\ (i # 0 => g[i - 1] = h[i - 1])
        BY <3>2
      <4> HIDE DEF g
      <4> QED BY <4>1, <4>2
    <3> QED BY <3>1, <3>2
  <2>3. g = [i \in 0 .. j + 1 |-> g[i]]
    OBVIOUS
  <2> HIDE DEF g
  <2>4. Is(g, j + 1)
    BY <2>2, <2>3, Zenon
  <2>5. j + 1 \in Nat
    OBVIOUS
  <2> HIDE DEF Is
  <2> QED BY <2>4, <2>5
<1>3. n \in T
  <2>1. \A j \in Nat : j \in T => j + 1 \in T
    BY <1>2, Zenon
  <2> HIDE DEF T
  <2> QED BY <1>1, <2>1, Induction
<1>4. \E h : Is(h, n)
  BY <1>3
<1> HIDE DEF First
<1>5. Is(f, n)
  BY <1>4 DEF PointerLoop, First
<1>6. \A i \in 0 .. n : f[i] = E(f, i)
  BY <1>5
<1>7. 0 \in 0 .. n /\ \A i \in 1 .. n : i \in 0 .. n /\ i # 0
  OBVIOUS
<1>8. Pointers(s, ptrs) = f[n]
  BY Zenon DEF Pointers, PointerLoop, OnePointer
<1> QED BY <1>6, <1>7, <1>8, Zenon DEF First

(* Segment l, which is in memory as the file has it.                       *)
Holds(a, mem, n, p, l) ==
  Start(a, p) \in 0 .. n /\ Start(a, p) + p.memsz <= n /\ SegmentIntact(a, mem, p, l)

LEMMA HoldsStays ==
  ASSUME NEW a, NEW n \in Nat, NEW p \in Segments, NEW l, NEW mem, NEW new,
         Holds(a, mem, n, p, l),
         \A i \in 1 .. n : Start(a, p) < i /\ i <= Start(a, p) + p.memsz => new[i] = mem[i]
  PROVE  Holds(a, new, n, p, l)
<1> DEFINE start == Start(a, p)
<1>1. start \in 0 .. n /\ start + p.memsz <= n /\ p.memsz \in Nat
  BY DEF Holds, Segments
<1>2. \A i \in 1 .. p.memsz :
        mem[start + i] = IF i <= p.filesz THEN Cell("file", l, i) ELSE Zero
  BY Zenon DEF Holds, SegmentIntact, Start
<1>3. \A i \in 1 .. p.memsz : new[start + i] = mem[start + i]
  <2> SUFFICES ASSUME NEW i \in 1 .. p.memsz PROVE new[start + i] = mem[start + i]
    OBVIOUS
  <2> HIDE DEF start
  <2>1. start + i \in 1 .. n /\ start < start + i /\ start + i <= start + p.memsz
    BY <1>1
  <2> QED BY <2>1 DEF start
<1>4. SegmentIntact(a, new, p, l)
  BY <1>2, <1>3, Zenon DEF SegmentIntact, Start
<1> QED BY <1>1, <1>4 DEF Holds

(* The segments loaded so far; a kernel that is linked upwards is written  *)
(* upwards, so no segment runs into an earlier one.                        *)
SegmentsLoaded(a, s, n, progs, z, t) ==
  /\ Loading(t, n) /\ t.off = s.off /\ t.argp = s.argp /\ t.argv = s.argv
  /\ t.status = "ok" /\ WellLinked(a, progs) =>
       \A l \in 1 .. z : progs[l].load => Holds(a, t.mem, n, progs[l], l)

LEMMA LoadProgsDoes ==
  ASSUME NEW a, NEW s, NEW n, Loading(s, n), NEW progs \in Seq(Segments),
         NEW t, t = LoadProgs(a, s, progs)
  PROVE  SegmentsLoaded(a, s, n, progs, Len(progs), t)
<1>1. PICK f : f = LoadLoop(a, s, progs)
  OBVIOUS
<1>2. PICK z \in Nat : z = Len(progs) /\ \A k \in 1 .. z : progs[k] \in Segments
  BY ListLen, ListElement
<1>3. f[0] = s /\ t = f[z] /\ \A k \in 1 .. z : f[k] = LoadProg(a, f[k - 1], progs, k)
  BY <1>1, <1>2, LoadLoopDef
<1>4. n \in Nat
  BY Zenon DEF Loading, Memory
<1> DEFINE Good(k) == SegmentsLoaded(a, s, n, progs, k, f[k])
           T == {k \in 0 .. z : Good(k)}
<1>5. 0 \in T
  <2>1. \A l \in 1 .. 0 : FALSE
    OBVIOUS
  <2>2. Good(0)
    BY <1>3, <2>1, Zenon DEF SegmentsLoaded
  <2> QED BY <1>2, <2>2
<1>6. ASSUME NEW j \in Nat, j < z, j \in T PROVE j + 1 \in T
  <2>1. PICK k \in 1 .. z : k = j + 1
    BY <1>6
  <2>2. PICK u : u = f[j]
    OBVIOUS
  <2>3. f[k] = LoadProg(a, u, progs, k)
    BY <1>3, <2>1, <2>2
  <2>4. /\ Loading(u, n) /\ u.off = s.off /\ u.argp = s.argp /\ u.argv = s.argv
        /\ u.status = "ok" /\ WellLinked(a, progs) =>
             \A l \in 1 .. j : progs[l].load => Holds(a, u.mem, n, progs[l], l)
    BY <1>6, <2>2, Zenon DEF SegmentsLoaded
  <2>5. CASE u.status # "ok"
    <3>1. f[k] = u
      BY <2>3, <2>5 DEF LoadProg
    <3>2. Good(k)
      BY <2>4, <2>5, <3>1, Zenon DEF SegmentsLoaded
    <3> QED BY <2>1, <3>2
  <2>6. CASE u.status = "ok" /\ ~ progs[k].load
    <3>1. f[k] = u
      BY <2>3, <2>6 DEF LoadProg
    <3>2. \A l \in 1 .. k : progs[l].load => l \in 1 .. j
      BY <2>1, <2>6
    <3>3. Good(k)
      BY <2>4, <3>1, <3>2, Zenon DEF SegmentsLoaded
    <3> QED BY <2>1, <3>3
  <2>7. CASE u.status = "ok" /\ progs[k].load
    <3>1. PICK p \in Segments : p = progs[k]
      BY <1>2
    <3>2. PICK v : v = f[k] /\ v = LoadSegment(a, u, p, k)
      BY <2>3, <2>7, <3>1 DEF LoadProg
    <3>3. /\ Loading(v, n) /\ v.off = u.off /\ v.argp = u.argp /\ v.argv = u.argv
          /\ v.status = "ok" =>
               /\ Start(a, p) \in 0 .. n /\ Start(a, p) + p.memsz <= n
               /\ \A i \in 1 .. n : i <= Start(a, p) => v.mem[i] = u.mem[i]
               /\ SegmentIntact(a, v.mem, p, k)
      <4>1. Loading(u, n)
        BY <2>4, Zenon
      <4>2. SegmentLoaded(a, u, n, p, k, v)
        BY <3>2, <4>1, LoadSegmentDoes
      <4> QED BY <4>2, Zenon DEF SegmentLoaded
    <3>4. ASSUME v.status = "ok", WellLinked(a, progs), NEW l \in 1 .. k, progs[l].load
          PROVE  Holds(a, v.mem, n, progs[l], l)
      <4>1. CASE l = k
        BY <3>1, <3>3, <3>4, <4>1 DEF Holds
      <4>2. CASE l # k
        <5>1. l \in 1 .. j /\ l \in 1 .. (k - 1)
          BY <2>1, <4>2
        <5>2. PICK o \in Segments : o = progs[l]
          BY <1>2, <2>1, <5>1
        <5>3. Holds(a, u.mem, n, o, l)
          BY <2>4, <2>7, <3>4, <5>1, <5>2, Zenon
        <5>4. Start(a, o) + o.memsz <= Start(a, p)
          <6>1. k \in DOMAIN progs
            BY <1>2, ListLen
          <6> QED BY <2>7, <3>1, <3>4, <5>1, <5>2, <6>1, Zenon DEF WellLinked, Start
        <5>5. \A i \in 1 .. n : Start(a, o) < i /\ i <= Start(a, o) + o.memsz => v.mem[i] = u.mem[i]
          <6> SUFFICES ASSUME NEW i \in 1 .. n, i <= Start(a, o) + o.memsz
                       PROVE  v.mem[i] = u.mem[i]
            BY Zenon
          <6>1. i <= Start(a, p)
            <7>1. Start(a, o) \in Int /\ Start(a, p) \in Int /\ o.memsz \in Nat
              BY StartType DEF Segments
            <7> QED BY <5>4, <7>1
          <6> QED BY <3>3, <3>4, <6>1
        <5> QED BY <1>4, <5>2, <5>3, <5>5, HoldsStays
      <4> QED BY <4>1, <4>2
    <3>5. Good(k)
      BY <2>4, <3>2, <3>3, <3>4, Zenon DEF SegmentsLoaded
    <3> QED BY <2>1, <3>5
  <2> QED BY <2>5, <2>6, <2>7
<1>7. z \in T
  <2>1. \A j \in Nat : j < z /\ j \in T => j + 1 \in T
    BY <1>6
  <2> HIDE DEF T
  <2>2. 0 .. z \subseteq T
    BY <1>5, <2>1, BoundedInduction, Zenon
  <2> QED BY <2>2
<1> QED BY <1>2, <1>3, <1>7, Zenon

-----------------------------------------------------------------------------
(* The arguments.                                                          *)
LEMMA ImageTypes ==
  /\ ramBase \in Nat /\ kernSpace \in Nat /\ ptrSize \in Nat /\ ptrSize >= 1
  /\ kernBase \in Nat /\ kernBase >= 1
BY ImageConstants

LEMMA TextCells ==
  ASSUME NEW i, NEW len \in Nat, NEW b, b = Text(i, len)
  PROVE  /\ Len(b) = len + 1 /\ len + 1 \in Nat
         /\ \A j \in 1 .. len : b[j] = Cell("arg", i, j)
         /\ b[len + 1] = Zero
<1> DEFINE w == [j \in 1 .. len |-> Cell("arg", i, j)]
           S == {Cell("arg", i, j) : j \in 1 .. len} \cup {Zero}
<1>1. w \in [1 .. len -> S] /\ Zero \in S /\ \A j \in 1 .. len : w[j] = Cell("arg", i, j)
  BY Zenon
<1>2. b = w \o <<Zero>>
  BY Zenon DEF Text
<1> HIDE DEF w, S
<1>3. w \in Seq(S) /\ Len(w) = len
  BY <1>1, ListOfCells
<1>4. PICK z \in S : z = Zero
  BY <1>1
<1>5. <<z>> \in Seq(S) /\ Len(<<z>>) = 1 /\ <<z>>[1] = z
  OBVIOUS
<1>6. PICK o \in Seq(S) : o = <<Zero>> /\ Len(o) = 1 /\ o[1] = Zero
  BY <1>4, <1>5, Zenon
<1>7. /\ Len(w \o o) = len + 1
      /\ \A j \in 1 .. len + 1 : (w \o o)[j] = IF j <= len THEN w[j] ELSE o[j - len]
  BY <1>3, <1>6, ListConcat
<1>8. b = w \o o
  BY <1>2, <1>6
<1>9. b[len + 1] = Zero
  <2>1. len + 1 \in 1 .. len + 1 /\ ~ (len + 1 <= len) /\ len + 1 - len = 1
    OBVIOUS
  <2> QED BY <1>6, <1>7, <1>8, <2>1
<1>10. ASSUME NEW j \in 1 .. len PROVE b[j] = Cell("arg", i, j)
  <2>1. j \in 1 .. len + 1 /\ j <= len
    OBVIOUS
  <2>2. (w \o o)[j] = w[j]
    BY <1>7, <2>1
  <2> QED BY <1>1, <1>8, <2>2, Zenon
<1>11. len + 1 \in Nat
  OBVIOUS
<1> QED BY <1>7, <1>8, <1>9, <1>10, <1>11, Zenon

(* One string: it lies from s.off on, with its zero, and nothing else has  *)
(* changed.                                                                *)
StringWritten(s, n, i, len, t) ==
  /\ t.off = s.off + len + 1 /\ t.argp = Append(s.argp, pa2ka(ramBase + s.off))
  /\ \A q \in 1 .. n : q <= s.off \/ q > s.off + len + 1 => t.mem[q] = s.mem[q]
  /\ \A c \in 1 .. len : s.off + c <= n => t.mem[s.off + c] = Cell("arg", i, c)
  /\ s.off + len + 1 <= n => t.mem[s.off + len + 1] = Zero

LEMMA WriteArgDoes ==
  ASSUME NEW s, NEW n, Loading(s, n), NEW i, NEW len \in Nat,
         NEW t, t = WriteArg(s, i, len)
  PROVE  Loading(t, n) /\ (t.status = "ok" => s.status = "ok" /\ StringWritten(s, n, i, len, t))
<1> s.off \in Nat
  BY Zenon DEF Loading
<1>1. n \in Nat /\ Len(s.mem) = n /\ Memory(s.mem, n)
  BY Zenon DEF Loading, Memory
<1>2. CASE s.off > n
  <2>1. t = [s EXCEPT !.status = "panic"]
    BY <1>1, <1>2 DEF WriteArg, Panic
  <2>2. Loading(t, n) /\ t.status # "ok"
    BY <2>1 DEF Loading
  <2> QED BY <2>2
<1>3. CASE ~ (s.off > n)
  <2> DEFINE new == Copy(s.mem, s.off, Text(i, len))
             ptr == Append(s.argp, pa2ka(ramBase + s.off))
             off == s.off + len + 1
  <2>1. t = [s EXCEPT !.mem = new, !.argp = ptr, !.off = off]
    <3>1. t = IF s.off > Len(s.mem) THEN Panic(s)
              ELSE [s EXCEPT !.mem = new, !.argp = ptr, !.off = off]
      BY DEF WriteArg
    <3> HIDE DEF new, ptr, off
    <3> QED BY <1>1, <1>3, <3>1
  <2>2. PICK b : /\ b = Text(i, len) /\ Len(b) = len + 1 /\ len + 1 \in Nat
                 /\ \A j \in 1 .. len : b[j] = Cell("arg", i, j)
                 /\ b[len + 1] = Zero
    BY TextCells
  <2>3. /\ Memory(new, n)
        /\ \A q \in 1 .. n : new[q] = IF q - s.off \in 1 .. len + 1 THEN b[q - s.off] ELSE s.mem[q]
    BY <1>1, <2>2, CopyCells
  <2>8. off \in Nat /\ ptr \in Seq(Nat)
    <3>1. PICK p \in Nat : p = pa2ka(ramBase + s.off)
      BY ImageTypes DEF pa2ka
    <3>2. s.argp \in Seq(Nat)
      BY Zenon DEF Loading
    <3>3. Append(s.argp, p) \in Seq(Nat)
      BY <3>2, ListAppend
    <3>4. off \in Nat
      OBVIOUS
    <3> QED BY <3>1, <3>3, <3>4, Zenon
  <2> HIDE DEF new, ptr, off
  <2>4. Loading(t, n) /\ t.mem = new /\ t.argp = ptr /\ t.off = off /\ t.status = s.status
    BY <2>1, <2>3, <2>8, Zenon DEF Loading
  <2>5. \A q \in 1 .. n : q <= s.off \/ q > s.off + len + 1 => new[q] = s.mem[q]
    <3> SUFFICES ASSUME NEW q \in 1 .. n, q <= s.off \/ q > s.off + len + 1
                 PROVE  new[q] = s.mem[q]
      BY Zenon
    <3>1. ~ (q - s.off \in 1 .. len + 1)
      OBVIOUS
    <3> QED BY <2>3, <3>1
  <2>6. \A c \in 1 .. len : s.off + c <= n => new[s.off + c] = Cell("arg", i, c)
    <3> SUFFICES ASSUME NEW c \in 1 .. len, s.off + c <= n
                 PROVE  new[s.off + c] = Cell("arg", i, c)
      BY Zenon
    <3>1. PICK q \in 1 .. n : q = s.off + c /\ q - s.off = c /\ c \in 1 .. len + 1
      BY <1>1
    <3>2. new[q] = b[c]
      BY <2>3, <3>1
    <3> QED BY <2>2, <3>1, <3>2
  <2>7. s.off + len + 1 <= n => new[s.off + len + 1] = Zero
    <3> SUFFICES ASSUME s.off + len + 1 <= n PROVE new[s.off + len + 1] = Zero
      BY Zenon
    <3>1. PICK q \in 1 .. n :
            q = s.off + len + 1 /\ q - s.off = len + 1 /\ len + 1 \in 1 .. len + 1
      BY <1>1
    <3> QED BY <2>2, <2>3, <3>1
  <2> QED BY <2>4, <2>5, <2>6, <2>7, Zenon DEF StringWritten, ptr, off
<1> QED BY <1>2, <1>3

(* String j of this length lies below off, and ptr points to it.           *)
StringAt(mem, n, off, ptr, j, len) ==
  \E o \in Nat :
    /\ ptr = pa2ka(ramBase + o) /\ o + len + 1 <= off
    /\ \A c \in 1 .. len : o + c <= n => mem[o + c] = Cell("arg", j, c)
    /\ o + len + 1 <= n => mem[o + len + 1] = Zero

SameBelow(new, mem, n, off) == \A q \in 1 .. n : q <= off => new[q] = mem[q]

LEMMA StringStays ==
  ASSUME NEW mem, NEW new, NEW n \in Nat, NEW off \in Nat, NEW end \in Nat, off <= end,
         NEW ptr, NEW j, NEW len \in Nat, StringAt(mem, n, off, ptr, j, len),
         SameBelow(new, mem, n, off)
  PROVE  StringAt(new, n, end, ptr, j, len)
<1>1. PICK o \in Nat :
        /\ ptr = pa2ka(ramBase + o) /\ o + len + 1 <= off
        /\ \A c \in 1 .. len : o + c <= n => mem[o + c] = Cell("arg", j, c)
        /\ o + len + 1 <= n => mem[o + len + 1] = Zero
  BY DEF StringAt
<1>2. o + len + 1 <= end
  BY <1>1
<1>3. ASSUME NEW c \in 1 .. len, o + c <= n PROVE new[o + c] = Cell("arg", j, c)
  <2>1. o + c \in 1 .. n /\ o + c <= off
    BY <1>1, <1>3
  <2>2. new[o + c] = mem[o + c]
    BY <2>1, Zenon DEF SameBelow
  <2> QED BY <1>1, <1>3, <2>2, Zenon
<1>4. ASSUME o + len + 1 <= n PROVE new[o + len + 1] = Zero
  <2>1. o + len + 1 \in 1 .. n /\ o + len + 1 <= off
    BY <1>1, <1>4
  <2>2. new[o + len + 1] = mem[o + len + 1]
    BY <2>1, Zenon DEF SameBelow
  <2> QED BY <1>1, <1>4, <2>2, Zenon
<1> QED BY <1>1, <1>2, <1>3, <1>4, Zenon DEF StringAt

(* The first i strings, one after the other from the start of memory.      *)
Strung(s, t, n, args, i) ==
  /\ Len(t.argp) = i
  /\ \A q \in 1 .. n : q > t.off => t.mem[q] = s.mem[q]
  /\ \A j \in 1 .. i : StringAt(t.mem, n, t.off, t.argp[j], j, args[j])

LEMMA OneArgDoes ==
  ASSUME NEW s, NEW u, NEW n, Loading(u, n), NEW args, NEW j \in Nat, Strung(s, u, n, args, j),
         \A l \in 1 .. j + 1 : args[l] \in Nat,
         NEW t, t = WriteArg(u, j + 1, args[j + 1])
  PROVE  Loading(t, n) /\ (t.status = "ok" => Strung(s, t, n, args, j + 1))
<1>1. n \in Nat
  BY Zenon DEF Loading, Memory
<1>2. /\ u.off \in Nat /\ u.argp \in Seq(Nat) /\ Len(u.argp) = j
      /\ \A q \in 1 .. n : q > u.off => u.mem[q] = s.mem[q]
      /\ \A l \in 1 .. j : StringAt(u.mem, n, u.off, u.argp[l], l, args[l])
  BY Zenon DEF Strung, Loading
<1>3. PICK k : k = j + 1
  OBVIOUS
<1>4. k \in Nat /\ k \in 1 .. j + 1
  BY <1>3
<1>5. PICK len \in Nat : len = args[k]
  BY <1>4
<1>6. t = WriteArg(u, k, len)
  BY <1>3, <1>5
<1>7. Loading(t, n) /\ (t.status = "ok" => StringWritten(u, n, k, len, t))
  BY <1>6, WriteArgDoes
<1> SUFFICES ASSUME t.status = "ok" PROVE Strung(s, t, n, args, j + 1)
  BY <1>7, Zenon
<1>8. PICK o \in Nat : o = u.off
  BY <1>2
<1>9. /\ t.off = o + len + 1 /\ t.argp = Append(u.argp, pa2ka(ramBase + o))
      /\ \A q \in 1 .. n : q <= o \/ q > o + len + 1 => t.mem[q] = u.mem[q]
      /\ \A c \in 1 .. len : o + c <= n => t.mem[o + c] = Cell("arg", k, c)
      /\ o + len + 1 <= n => t.mem[o + len + 1] = Zero
  BY <1>7, <1>8, Zenon DEF StringWritten
<1>10. PICK e \in Nat : e = t.off /\ e = o + len + 1 /\ o <= e
  BY <1>9
<1>11. PICK p \in Nat : p = pa2ka(ramBase + o)
  BY ImageTypes DEF pa2ka
<1>12. /\ t.argp \in Seq(Nat) /\ Len(t.argp) = k /\ t.argp[k] = p
       /\ \A l \in 1 .. j : t.argp[l] = u.argp[l]
  <2>1. PICK b \in Seq(Nat) : b = u.argp /\ Len(b) = j
    BY <1>2
  <2>2. /\ Append(b, p) \in Seq(Nat) /\ Len(Append(b, p)) = j + 1 /\ Append(b, p)[j + 1] = p
        /\ \A l \in 1 .. j : Append(b, p)[l] = b[l]
    BY <2>1, ListAppend
  <2>3. t.argp = Append(b, p)
    BY <1>9, <1>11, <2>1
  <2> QED BY <1>3, <2>1, <2>2, <2>3, Zenon
<1>13. ASSUME NEW q \in 1 .. n, q > e PROVE t.mem[q] = s.mem[q]
  <2>1. q > o /\ q > o + len + 1
    BY <1>10, <1>13
  <2> QED BY <1>2, <1>8, <1>9, <2>1
<1>14. ASSUME NEW l \in 1 .. j PROVE StringAt(t.mem, n, e, t.argp[l], l, args[l])
  <2>1. PICK y, p1, m0, m1 : y \in Nat /\ y = args[l] /\ p1 = u.argp[l] /\ m0 = u.mem /\ m1 = t.mem
    BY l \in 1 .. j + 1
  <2>2. StringAt(m0, n, o, p1, l, y) /\ SameBelow(m1, m0, n, o)
    BY <1>2, <1>8, <1>9, <2>1, Zenon DEF SameBelow
  <2>3. StringAt(m1, n, e, p1, l, y)
    BY <1>1, <1>10, <2>1, <2>2, StringStays
  <2> QED BY <1>12, <2>1, <2>3, Zenon
<1>15. StringAt(t.mem, n, e, t.argp[k], k, args[k])
  <2>1. o + len + 1 <= e
    BY <1>10
  <2> QED BY <1>5, <1>9, <1>11, <1>12, <2>1, Zenon DEF StringAt
<1>16. \A l \in 1 .. k : l \in 1 .. j \/ l = k
  BY <1>3
<1> QED BY <1>3, <1>10, <1>12, <1>13, <1>14, <1>15, <1>16, Zenon DEF Strung

LEMMA StringsDo ==
  ASSUME NEW s, NEW n, Loading(s, n), s.off = 0, s.argp = << >>, NEW args \in Seq(Nat),
         NEW t, t = Strings(s, args)
  PROVE  Loading(t, n) /\ (t.status = "ok" => Strung(s, t, n, args, Len(args)))
<1>1. PICK f : f = StringLoop(s, args)
  OBVIOUS
<1>2. PICK z \in Nat : z = Len(args) /\ \A k \in 1 .. z : args[k] \in Nat
  BY ListLen, ListElement
<1>3. f[0] = s /\ t = f[z] /\ \A k \in 1 .. z : f[k] = OneArg(f[k - 1], args, k)
  BY <1>1, <1>2, StringLoopDef
<1> DEFINE Good(k) ==
      Loading(f[k], n) /\ (f[k].status = "ok" => Strung(s, f[k], n, args, k))
    T == {k \in 0 .. z : Good(k)}
<1>4. 0 \in T
  <2>1. Len(s.argp) = 0
    BY ListEmpty
  <2>2. \A j \in 1 .. 0 : FALSE
    OBVIOUS
  <2>3. Strung(s, s, n, args, 0)
    BY <2>1, <2>2 DEF Strung
  <2>4. Good(0)
    BY <1>3, <2>3, Zenon
  <2> QED BY <2>4
<1>5. ASSUME NEW j \in Nat, j < z, j \in T PROVE j + 1 \in T
  <2>1. PICK k \in 1 .. z : k = j + 1 /\ k - 1 = j
    BY <1>5
  <2>2. PICK u, v : u = f[j] /\ v = f[k]
    OBVIOUS
  <2>3. v = OneArg(u, args, k) /\ Loading(u, n) /\ (u.status = "ok" => Strung(s, u, n, args, j))
    BY <1>3, <1>5, <2>1, <2>2, Zenon
  <2>4. CASE u.status # "ok"
    <3>1. v = u
      BY <2>3, <2>4 DEF OneArg
    <3>2. Good(k)
      BY <2>2, <2>3, <2>4, <3>1, Zenon
    <3> QED BY <2>1, <3>2
  <2>5. CASE u.status = "ok"
    <3>1. v = WriteArg(u, j + 1, args[j + 1])
      BY <2>1, <2>3, <2>5 DEF OneArg
    <3>2. \A l \in 1 .. j + 1 : args[l] \in Nat
      BY <1>2, <2>1
    <3>3. Loading(v, n) /\ (v.status = "ok" => Strung(s, v, n, args, j + 1))
      BY <2>3, <2>5, <3>1, <3>2, OneArgDoes
    <3>4. Good(k)
      BY <2>1, <2>2, <3>3, Zenon
    <3> QED BY <2>1, <3>4
  <2> QED BY <2>4, <2>5
<1>6. z \in T
  <2>1. \A j \in Nat : j < z /\ j \in T => j + 1 \in T
    BY <1>5
  <2> HIDE DEF T
  <2>2. 0 .. z \subseteq T
    BY <1>4, <2>1, BoundedInduction, Zenon
  <2> QED BY <2>2
<1> QED BY <1>2, <1>3, <1>6, Zenon

-----------------------------------------------------------------------------
(* The pointers.                                                           *)
PtrCell(p, c) == IF p = 0 THEN Zero ELSE Cell("ptr", p, c)

PointerWritten(s, n, p, t) ==
  /\ s.off + ptrSize <= n /\ t.off = s.off + ptrSize
  /\ \A q \in 1 .. n : q <= s.off \/ q > s.off + ptrSize => t.mem[q] = s.mem[q]
  /\ \A c \in 1 .. ptrSize : t.mem[s.off + c] = PtrCell(p, c)

LEMMA PutUint64Does ==
  ASSUME NEW s, NEW n, Loading(s, n), NEW p, NEW t, t = PutUint64(s, p)
  PROVE  Loading(t, n) /\ (t.status = "ok" => s.status = "ok" /\ PointerWritten(s, n, p, t))
<1> s.off \in Nat
  BY Zenon DEF Loading
<1>1. n \in Nat /\ Len(s.mem) = n /\ Memory(s.mem, n) /\ ptrSize \in Nat
  BY ImageTypes, Zenon DEF Loading, Memory
<1> DEFINE b == [j \in 1 .. ptrSize |-> IF p = 0 THEN Zero ELSE Cell("ptr", p, j)]
           new == Copy(s.mem, s.off, b)
           off == s.off + ptrSize
<1>2. t = IF off > n THEN Panic(s) ELSE [s EXCEPT !.mem = new, !.off = off]
  BY <1>1, Zenon DEF PutUint64
<1>3. Len(b) = ptrSize /\ \A c \in 1 .. ptrSize : b[c] = PtrCell(p, c)
  <2>1. \A c \in 1 .. ptrSize : b[c] = PtrCell(p, c)
    BY Zenon DEF PtrCell
  <2>2. b = [j \in 1 .. ptrSize |-> b[j]]
    BY Zenon
  <2> HIDE DEF b
  <2> QED BY <1>1, <2>1, <2>2, FunctionLen
<1> HIDE DEF b
<1>4. /\ Memory(new, n)
      /\ \A q \in 1 .. n : new[q] = IF q - s.off \in 1 .. ptrSize THEN b[q - s.off] ELSE s.mem[q]
  BY <1>1, <1>3, CopyCells
<1> HIDE DEF new
<1>5. CASE off > n
  <2>1. t = [s EXCEPT !.status = "panic"]
    BY <1>2, <1>5 DEF Panic
  <2>2. Loading(t, n) /\ t.status # "ok"
    BY <2>1 DEF Loading
  <2> QED BY <2>2
<1>6. CASE ~ (off > n)
  <2>1. off <= n
    BY <1>1, <1>6
  <2> HIDE DEF off
  <2>2. t = [s EXCEPT !.mem = new, !.off = off]
    BY <1>2, <1>6
  <2>3. Loading(t, n) /\ t.mem = new /\ t.off = off /\ t.status = s.status
    <3>1. off \in Nat
      BY <1>1 DEF off
    <3> QED BY <1>4, <2>2, <3>1, Zenon DEF Loading
  <2>4. \A q \in 1 .. n : q <= s.off \/ q > s.off + ptrSize => new[q] = s.mem[q]
    <3> SUFFICES ASSUME NEW q \in 1 .. n, q <= s.off \/ q > s.off + ptrSize
                 PROVE  new[q] = s.mem[q]
      BY Zenon
    <3>1. ~ (q - s.off \in 1 .. ptrSize)
      BY <1>1
    <3> QED BY <1>4, <3>1
  <2>5. \A c \in 1 .. ptrSize : new[s.off + c] = PtrCell(p, c)
    <3> SUFFICES ASSUME NEW c \in 1 .. ptrSize PROVE new[s.off + c] = PtrCell(p, c)
      BY Zenon
    <3>1. PICK q \in 1 .. n : q = s.off + c /\ q - s.off = c
      BY <1>1, <2>1 DEF off
    <3> QED BY <1>3, <1>4, <3>1
  <2> QED BY <2>1, <2>3, <2>4, <2>5, Zenon DEF PointerWritten, off
<1> QED BY <1>5, <1>6

(* The first i pointers, one after the other from s.off on.                *)
Pointed(s, t, n, ptrs, i) ==
  /\ t.off = s.off + i * ptrSize /\ (i > 0 => t.off <= n)
  /\ \A q \in 1 .. n : q <= s.off \/ q > t.off => t.mem[q] = s.mem[q]
  /\ \A j \in 1 .. i : \A c \in 1 .. ptrSize :
       t.mem[s.off + (j - 1) * ptrSize + c] = PtrCell(ptrs[j], c)

LEMMA Times ==
  ASSUME NEW w \in Nat
  PROVE  /\ \A i \in Nat : i * w \in Nat /\ (i + 1) * w = i * w + w
         /\ \A i, j \in Nat : i <= j => i * w <= j * w
<1>1. \A i \in Nat : i * w \in Nat /\ (i + 1) * w = i * w + w
  OBVIOUS
<1>2. ASSUME NEW i \in Nat, NEW j \in Nat, i <= j PROVE i * w <= j * w
  <2>1. PICK d \in Nat : j = i + d
    BY <1>2, j - i \in Nat, j = i + (j - i)
  <2>2. (i + d) * w = i * w + d * w /\ d * w \in Nat /\ i * w \in Nat
    OBVIOUS
  <2> QED BY <2>1, <2>2
<1> QED BY <1>1, <1>2

LEMMA OnePointerDoes ==
  ASSUME NEW s, s.off \in Nat, NEW u, NEW n, Loading(u, n), NEW ptrs, NEW j \in Nat,
         Pointed(s, u, n, ptrs, j), NEW t, t = PutUint64(u, ptrs[j + 1])
  PROVE  Loading(t, n) /\ (t.status = "ok" => Pointed(s, t, n, ptrs, j + 1))
<1>1. n \in Nat
  BY Zenon DEF Loading, Memory
<1>2. PICK w \in Nat, o \in Nat, x \in Nat : w = ptrSize /\ o = s.off /\ x = j * w
  BY ImageTypes, Times
<1>3. PICK e \in Nat : e = o + x /\ e = u.off
  <2>1. u.off = o + x
    BY <1>2, Zenon DEF Pointed
  <2> QED BY <2>1
<1>4. /\ \A q \in 1 .. n : q <= o \/ q > e => u.mem[q] = s.mem[q]
      /\ \A l \in 1 .. j : \A c \in 1 .. w : u.mem[o + (l - 1) * w + c] = PtrCell(ptrs[l], c)
  BY <1>2, <1>3, Zenon DEF Pointed
<1>5. PICK k : k = j + 1
  OBVIOUS
<1>6. k \in Nat /\ k > 0 /\ k - 1 = j /\ k * w = x + w
  BY <1>2, <1>5, Times
<1>7. PICK p : p = ptrs[k]
  OBVIOUS
<1>8. t = PutUint64(u, p)
  BY <1>5, <1>7
<1>9. Loading(t, n) /\ (t.status = "ok" => PointerWritten(u, n, p, t))
  BY <1>8, PutUint64Does
<1> SUFFICES ASSUME t.status = "ok" PROVE Pointed(s, t, n, ptrs, j + 1)
  BY <1>9, Zenon
<1>10. /\ e + w <= n /\ t.off = e + w
       /\ \A q \in 1 .. n : q <= e \/ q > e + w => t.mem[q] = u.mem[q]
       /\ \A c \in 1 .. w : t.mem[e + c] = PtrCell(p, c)
  BY <1>2, <1>3, <1>9, Zenon DEF PointerWritten
<1>11. t.off = o + k * w /\ t.off <= n
  BY <1>3, <1>6, <1>10
<1>12. ASSUME NEW q \in 1 .. n, q <= o \/ q > e + w PROVE t.mem[q] = s.mem[q]
  <2>1. (q <= e \/ q > e + w) /\ (q <= o \/ q > e)
    BY <1>3, <1>12
  <2> QED BY <1>4, <1>10, <2>1
<1>13. ASSUME NEW l \in 1 .. k, NEW c \in 1 .. w
       PROVE  t.mem[o + (l - 1) * w + c] = PtrCell(ptrs[l], c)
  <2>1. CASE l = k
    <3>1. o + (l - 1) * w + c = e + c
      BY <1>2, <1>3, <1>6, <2>1
    <3> QED BY <1>7, <1>10, <2>1, <3>1
  <2>2. CASE l # k
    <3>1. PICK i \in Nat : i = l - 1 /\ i + 1 <= j /\ l \in 1 .. j
      BY <1>5, <2>2
    <3>2. PICK y \in Nat : y = i * w /\ y + w <= x
      BY <1>2, <3>1, Times
    <3>3. PICK q \in 1 .. n : q = o + y + c /\ q <= e
      BY <1>1, <1>3, <1>10, <3>2
    <3>4. t.mem[q] = u.mem[q]
      BY <1>10, <3>3
    <3>5. u.mem[o + (l - 1) * w + c] = PtrCell(ptrs[l], c)
      BY <1>4, <3>1
    <3> QED BY <3>1, <3>2, <3>3, <3>4, <3>5
  <2> QED BY <2>1, <2>2
<1> QED BY <1>2, <1>5, <1>6, <1>10, <1>11, <1>12, <1>13, Zenon DEF Pointed

LEMMA PointersDo ==
  ASSUME NEW s, NEW n, Loading(s, n), NEW ptrs, NEW z \in Nat, Len(ptrs) = z,
         NEW t, t = Pointers(s, ptrs)
  PROVE  Loading(t, n) /\ (t.status = "ok" => s.status = "ok" /\ Pointed(s, t, n, ptrs, z))
<1>1. PICK f : f = PointerLoop(s, ptrs)
  OBVIOUS
<1> s.off \in Nat
  BY Zenon DEF Loading
<1>2. f[0] = s /\ t = f[z] /\ \A k \in 1 .. z : f[k] = OnePointer(f[k - 1], ptrs, k)
  BY <1>1, PointerLoopDef
<1> DEFINE Good(k) ==
      /\ Loading(f[k], n)
      /\ f[k].status = "ok" => s.status = "ok" /\ Pointed(s, f[k], n, ptrs, k)
    T == {k \in 0 .. z : Good(k)}
<1>3. 0 \in T
  <2>1. PICK w \in Nat : w = ptrSize /\ 0 * w = 0
    BY ImageTypes
  <2>2. \A j \in 1 .. 0 : FALSE
    OBVIOUS
  <2>3. s.off = s.off + 0 * ptrSize
    BY <2>1
  <2>4. \A q \in 1 .. n : s.mem[q] = s.mem[q]
    OBVIOUS
  <2>5. Pointed(s, s, n, ptrs, 0)
    BY <2>2, <2>3, ~ (0 > 0) DEF Pointed
  <2>6. Good(0)
    BY <1>2, <2>5, Zenon
  <2> QED BY <2>6
<1>4. ASSUME NEW j \in Nat, j < z, j \in T PROVE j + 1 \in T
  <2>1. PICK k \in 1 .. z : k = j + 1 /\ k - 1 = j
    BY <1>4
  <2>2. PICK u, v : u = f[j] /\ v = f[k]
    OBVIOUS
  <2>3. /\ v = OnePointer(u, ptrs, k) /\ Loading(u, n)
        /\ u.status = "ok" => s.status = "ok" /\ Pointed(s, u, n, ptrs, j)
    BY <1>2, <1>4, <2>1, <2>2, Zenon
  <2>4. CASE u.status # "ok"
    <3>1. v = u
      BY <2>3, <2>4 DEF OnePointer
    <3>2. Good(k)
      BY <2>2, <2>3, <2>4, <3>1, Zenon
    <3> QED BY <2>1, <3>2
  <2>5. CASE u.status = "ok"
    <3>1. v = PutUint64(u, ptrs[j + 1])
      BY <2>1, <2>3, <2>5 DEF OnePointer
    <3>2. Loading(v, n) /\ (v.status = "ok" => Pointed(s, v, n, ptrs, j + 1))
      BY <2>3, <2>5, <3>1, OnePointerDoes
    <3>3. Good(k)
      BY <2>1, <2>2, <2>3, <2>5, <3>2, Zenon
    <3> QED BY <2>1, <3>3
  <2> QED BY <2>4, <2>5
<1>5. z \in T
  <2>1. \A j \in Nat : j < z /\ j \in T => j + 1 \in T
    BY <1>4
  <2> HIDE DEF T
  <2>2. 0 .. z \subseteq T
    BY <1>3, <2>1, BoundedInduction, Zenon
  <2> QED BY <2>2
<1> QED BY <1>2, <1>5, Zenon

-----------------------------------------------------------------------------
(* What the guest reads.                                                   *)
LEMMA AtCell ==
  ASSUME NEW mem, NEW n, Memory(mem, n), NEW y \in Nat, y + 1 <= n,
         NEW va, va = pa2ka(ramBase + y)
  PROVE  At(mem, va) = mem[y + 1]
<1>1. va - kernBase - ramBase + 1 = y + 1
  BY ImageTypes DEF pa2ka
<1>2. n \in Nat /\ DOMAIN mem = 1 .. n
  BY FunctionLen, Zenon DEF Memory
<1>3. y + 1 \in DOMAIN mem
  BY <1>2
<1> QED BY <1>1, <1>3, Zenon DEF At

PointerAt(mem, b, p) == \A c \in 1 .. ptrSize : mem[b + c] = Cell("ptr", p, c)

LEMMA PointerReads ==
  ASSUME NEW mem, NEW n, Memory(mem, n), NEW b \in Nat, b + ptrSize <= n,
         NEW va, va = pa2ka(ramBase + b), NEW p,
         PointerAt(mem, b, p)
  PROVE  Pointer(mem, va) = p
<1>1. PICK w \in Nat : w = ptrSize /\ w >= 1
  BY ImageTypes
<1>2. n \in Nat
  BY Zenon DEF Memory
<1>3. ASSUME NEW j \in 1 .. w PROVE At(mem, va + j - 1) = Cell("ptr", p, j)
  <2>1. PICK y \in Nat : y = b + j - 1 /\ y + 1 = b + j /\ y + 1 <= n
    BY <1>1, <1>2, <1>3
  <2>2. PICK v : v = va + j - 1
    OBVIOUS
  <2>3. v = pa2ka(ramBase + y)
    BY <2>1, <2>2, ImageTypes DEF pa2ka
  <2>4. At(mem, v) = mem[y + 1]
    BY <2>1, <2>3, AtCell
  <2> QED BY <1>1, <2>1, <2>2, <2>4, Zenon DEF PointerAt
<1>4. 1 \in 1 .. w /\ va + 1 - 1 = va
  BY <1>1, ImageTypes DEF pa2ka
<1>5. At(mem, va) = Cell("ptr", p, 1)
  BY <1>3, <1>4
<1>6. At(mem, va)[2] = p
  BY <1>5 DEF Cell
<1> QED BY <1>1, <1>3, <1>6, Zenon DEF Pointer

LEMMA StringReads ==
  ASSUME NEW mem, NEW n, Memory(mem, n), NEW off \in Nat, off <= n, NEW p, NEW i,
         NEW len \in Nat, StringAt(mem, n, off, p, i, len)
  PROVE  p # 0 /\ ReadsString(mem, p, i, len)
<1>1. n \in Nat
  BY Zenon DEF Memory
<1>2. PICK o \in Nat :
        /\ p = pa2ka(ramBase + o) /\ o + len + 1 <= off
        /\ \A c \in 1 .. len : o + c <= n => mem[o + c] = Cell("arg", i, c)
        /\ o + len + 1 <= n => mem[o + len + 1] = Zero
  BY DEF StringAt
<1>3. p # 0 /\ p \in Nat
  BY <1>2, ImageTypes DEF pa2ka
<1>4. ASSUME NEW j \in 1 .. len PROVE At(mem, p + j - 1) = Cell("arg", i, j)
  <2>1. PICK y \in Nat : y = o + j - 1 /\ y + 1 = o + j /\ y + 1 <= n
    BY <1>1, <1>2, <1>4
  <2>2. PICK v : v = p + j - 1
    OBVIOUS
  <2>3. v = pa2ka(ramBase + y)
    BY <1>2, <2>1, <2>2, ImageTypes DEF pa2ka
  <2>4. At(mem, v) = mem[y + 1]
    BY <2>1, <2>3, AtCell
  <2> QED BY <1>2, <2>1, <2>2, <2>4
<1>5. At(mem, p + len) = Zero
  <2>1. PICK y \in Nat : y = o + len /\ y + 1 = o + len + 1 /\ y + 1 <= n
    BY <1>1, <1>2
  <2>2. PICK v : v = p + len
    OBVIOUS
  <2>3. v = pa2ka(ramBase + y)
    BY <1>2, <2>1, <2>2, ImageTypes DEF pa2ka
  <2>4. At(mem, v) = mem[y + 1]
    BY <2>1, <2>3, AtCell
  <2> QED BY <1>2, <2>1, <2>2, <2>4
<1> QED BY <1>3, <1>4, <1>5, Zenon DEF ReadsString

(* Offsets into the pointers, which begin at P and end with a null one.    *)
RoomFor(P, e, w, n) ==
  /\ P <= n /\ P <= P
  /\ \A d \in Nat : d + w <= e => P + d \in Nat /\ P + d + w <= n
  /\ \A j \in 0 .. (w - 1) :
       P + e + j \in Nat /\ P + e + j + 1 <= n /\ P + e + j + 1 = P + e + (j + 1)

LEMMA InMemory ==
  ASSUME NEW P \in Nat, NEW e \in Nat, NEW w \in Nat, NEW n \in Nat, P + e + w <= n
  PROVE  RoomFor(P, e, w, n)
BY DEF RoomFor

LEMMA KernelAddress ==
  ASSUME NEW P \in Nat, NEW d \in Nat
  PROVE  /\ pa2ka(ramBase + P) + d = pa2ka(ramBase + (P + d))
         /\ \A j \in Nat : pa2ka(ramBase + P) + d + j = pa2ka(ramBase + (P + d + j))
BY ImageTypes DEF pa2ka

(* The strings and the pointers behind them are what the guest reads.      *)
LEMMA ReadsBack ==
  ASSUME NEW s, NEW x, NEW t, NEW n, Loading(x, n), Loading(t, n),
         NEW args \in Seq(Nat), NEW z \in Nat, Len(args) = z, Strung(s, x, n, args, z),
         NEW ptrs, ptrs = Append(x.argp, 0), Pointed(x, t, n, ptrs, z + 1),
         NEW argv, argv = pa2ka(ramBase + x.off)
  PROVE  ReadsArgs(t.mem, z, argv, args)
<1>1. PICK w \in Nat : w = ptrSize /\ w >= 1
  BY ImageTypes
<1>2. PICK P \in Nat : P = x.off
  BY Zenon DEF Loading
<1>3. PICK mem : mem = t.mem /\ Memory(mem, n) /\ n \in Nat
  BY Zenon DEF Loading, Memory
<1>4. PICK e \in Nat : e = z * w /\ P + e + w <= n
  <2>1. z + 1 > 0
    OBVIOUS
  <2>2. t.off = P + (z + 1) * w /\ t.off <= n
    BY <1>1, <1>2, <2>1, Zenon DEF Pointed
  <2>3. z * w \in Nat /\ (z + 1) * w = z * w + w
    BY Times
  <2> QED BY <1>3, <2>2, <2>3
<1>10. RoomFor(P, e, w, n)
  BY <1>3, <1>4, InMemory, Zenon
<1>11. \A j \in Nat : pa2ka(ramBase + P) + e + j = pa2ka(ramBase + (P + e + j))
  BY KernelAddress, Zenon
<1>5. \A l \in 1 .. z + 1 : \A c \in 1 .. w : mem[P + (l - 1) * w + c] = PtrCell(ptrs[l], c)
  BY <1>1, <1>2, <1>3, Zenon DEF Pointed
<1>6. \A q \in 1 .. n : q <= P => mem[q] = x.mem[q]
  BY <1>2, <1>3, Zenon DEF Pointed
<1>7. ptrs[z + 1] = 0 /\ \A i \in 1 .. z : ptrs[i] = x.argp[i]
  <2>1. PICK b \in Seq(Nat) : b = x.argp /\ Len(b) = z
    BY Zenon DEF Loading, Strung
  <2>2. Append(b, 0)[z + 1] = 0 /\ \A i \in 1 .. z : Append(b, 0)[i] = b[i]
    BY <2>1, ListAppend, 0 \in Nat
  <2> QED BY <2>1, <2>2, Zenon
<1>8. ASSUME NEW i \in 1 .. z
      PROVE  ReadsString(mem, Pointer(mem, argv + (i - 1) * w), i, args[i])
  <2>1. PICK len \in Nat : len = args[i]
    BY ListElement
  <2>11. PICK p : p = ptrs[i]
    OBVIOUS
  <2>2. StringAt(x.mem, n, P, p, i, len)
    BY <1>2, <1>7, <2>1, <2>11, Zenon DEF Strung
  <2>3. P <= n /\ P <= P
    BY <1>10, Zenon DEF RoomFor
  <2>4. StringAt(mem, n, P, p, i, len)
    <3>1. PICK m0 : m0 = x.mem
      OBVIOUS
    <3>2. StringAt(m0, n, P, p, i, len) /\ SameBelow(mem, m0, n, P)
      BY <1>6, <2>2, <3>1, Zenon DEF SameBelow
    <3> QED BY <1>3, <2>3, <3>2, StringStays, Zenon
  <2>5. p # 0 /\ ReadsString(mem, p, i, len)
    BY <1>3, <2>3, <2>4, StringReads, Zenon
  <2>6. PICK d \in Nat : d = (i - 1) * w /\ d + w <= e
    <3>1. PICK k \in Nat : k = i - 1 /\ k + 1 <= z
      OBVIOUS
    <3>2. k * w \in Nat /\ (k + 1) * w = k * w + w /\ (k + 1) * w <= z * w
      BY <3>1, Times
    <3> QED BY <1>4, <3>1, <3>2
  <2>7. PICK b \in Nat : b = P + d /\ b + w <= n
    <3>1. P + d \in Nat /\ P + d + w <= n
      BY <1>10, <2>6, Zenon DEF RoomFor
    <3> QED BY <3>1, Zenon
  <2>8. PICK va : va = argv + d /\ va = pa2ka(ramBase + b)
    <3>1. argv = pa2ka(ramBase + P)
      BY <1>2
    <3>2. argv + d = pa2ka(ramBase + b)
      <4>1. pa2ka(ramBase + P) + d = pa2ka(ramBase + (P + d))
        BY KernelAddress, Zenon
      <4> QED BY <2>7, <3>1, <4>1, Zenon
    <3> QED BY <3>2
  <2>9. \A c \in 1 .. w : mem[b + c] = Cell("ptr", p, c)
    <3>1. i \in 1 .. z + 1
      OBVIOUS
    <3>2. \A c \in 1 .. w : mem[P + d + c] = PtrCell(p, c)
      BY <1>5, <2>6, <2>11, <3>1, Zenon
    <3> QED BY <2>5, <2>7, <3>2, Zenon DEF PtrCell
  <2>10. Pointer(mem, va) = p
    <3>1. b + ptrSize <= n /\ PointerAt(mem, b, p)
      BY <1>1, <2>7, <2>9, Zenon DEF PointerAt
    <3> QED BY <1>3, <2>8, <3>1, PointerReads, Zenon
  <2> QED BY <2>1, <2>5, <2>6, <2>8, <2>10, Zenon
<1>9. ASSUME NEW j \in 0 .. (w - 1) PROVE At(mem, argv + z * w + j) = Zero
  <2>1. PICK y \in Nat : y = P + e + j /\ y + 1 <= n /\ y + 1 = P + e + (j + 1)
    <3>1. P + e + j \in Nat /\ P + e + j + 1 <= n /\ P + e + j + 1 = P + e + (j + 1)
      BY <1>10, Zenon DEF RoomFor
    <3> QED BY <3>1, Zenon
  <2>2. PICK v : v = argv + z * w + j
    OBVIOUS
  <2>3. v = pa2ka(ramBase + y)
    <3>1. j \in Nat
      OBVIOUS
    <3>2. pa2ka(ramBase + P) + e + j = pa2ka(ramBase + (P + e + j))
      BY <1>11, <3>1, Zenon
    <3>3. v = argv + e + j /\ argv = pa2ka(ramBase + P)
      BY <1>2, <1>4, <2>2, Zenon
    <3> QED BY <2>1, <3>2, <3>3, Zenon
  <2>4. At(mem, v) = mem[y + 1]
    BY <1>3, <2>1, <2>3, AtCell
  <2>5. PICK c \in 1 .. w : c = j + 1
    BY <1>1
  <2>6. z + 1 \in 1 .. z + 1 /\ (z + 1) - 1 = z
    OBVIOUS
  <2>7. mem[P + ((z + 1) - 1) * w + c] = PtrCell(ptrs[z + 1], c)
    BY <1>5, <2>6, Zenon
  <2>8. mem[P + e + c] = PtrCell(0, c)
    BY <1>4, <1>7, <2>6, <2>7, Zenon
  <2>9. PtrCell(0, c) = Zero
    BY DEF PtrCell
  <2> QED BY <2>1, <2>2, <2>4, <2>5, <2>8, <2>9
<1> QED BY <1>1, <1>3, <1>8, <1>9, Zenon DEF ReadsArgs

(* WriteAt, when it succeeds: the arguments can be read, and nothing from  *)
(* the kernel's start on has changed.                                      *)
Written(s, n, args, t) ==
  /\ Loading(t, n)
  /\ t.status = "ok" =>
       /\ ReadsArgs(t.mem, Len(args), t.argv, args)
       /\ \A q \in 1 .. n : q > kernSpace => t.mem[q] = s.mem[q]

WithArgv(y, argv) == [y EXCEPT !.argv = argv]

LEMMA SetArgv ==
  ASSUME NEW y, NEW n, Loading(y, n), NEW argv
  PROVE  /\ Loading(WithArgv(y, argv), n)
         /\ WithArgv(y, argv).mem = y.mem /\ WithArgv(y, argv).argv = argv
BY DEF Loading, WithArgv

LEMMA WriteAtDoes ==
  ASSUME NEW s, NEW n, Loading(s, n), s.off = 0, s.argp = << >>, NEW args \in Seq(Nat),
         NEW t, t = WriteAt(s, args)
  PROVE  Written(s, n, args, t)
<1>1. PICK z \in Nat : z = Len(args)
  BY ListLen
<1>2. PICK x : x = Strings(s, args)
  OBVIOUS
<1>3. Loading(x, n) /\ (x.status = "ok" => Strung(s, x, n, args, z))
  BY <1>1, <1>2, StringsDo
<1>4. PICK ptrs : ptrs = Append(x.argp, 0)
  BY Zenon
<1>5. PICK k \in Nat : Len(ptrs) = k /\ k = Len(x.argp) + 1
  <2>1. x.argp \in Seq(Nat) /\ Len(x.argp) \in Nat
    BY <1>3, ListLen DEF Loading
  <2> QED BY <1>4, <2>1, ListAppend, 0 \in Nat
<1>6. PICK y : y = Pointers(x, ptrs)
  OBVIOUS
<1>7. Loading(y, n) /\ (y.status = "ok" => x.status = "ok" /\ Pointed(x, y, n, ptrs, k))
  BY <1>3, <1>5, <1>6, PointersDo, Zenon
<1>8. t = IF y.status # "ok" THEN y
          ELSE IF TooLarge(y.off, x.off) THEN Error(y)
          ELSE [y EXCEPT !.argv = pa2ka(ramBase + x.off)]
  BY <1>2, <1>4, <1>6, Zenon DEF WriteAt
<1>9. CASE y.status # "ok"
  BY <1>7, <1>8, <1>9, Zenon DEF Written
<1>10. CASE y.status = "ok" /\ TooLarge(y.off, x.off)
  <2>1. t = [y EXCEPT !.status = "error"]
    BY <1>8, <1>10 DEF Error
  <2>2. Loading(t, n) /\ t.status # "ok"
    BY <1>7, <2>1 DEF Loading
  <2> QED BY <2>2, Zenon DEF Written
<1>11. CASE y.status = "ok" /\ ~ TooLarge(y.off, x.off)
  <2>1. PICK argv : argv = pa2ka(ramBase + x.off)
    OBVIOUS
  <2>2. t = WithArgv(y, argv)
    BY <1>8, <1>11, <2>1, Zenon DEF WithArgv
  <2>3. Loading(t, n) /\ t.mem = y.mem /\ t.argv = argv
    <3>1. /\ Loading(WithArgv(y, argv), n)
          /\ WithArgv(y, argv).mem = y.mem /\ WithArgv(y, argv).argv = argv
      BY <1>7, SetArgv, Zenon
    <3> QED BY <2>2, <3>1, Zenon
  <2>4. Strung(s, x, n, args, z) /\ Pointed(x, y, n, ptrs, k)
    BY <1>3, <1>7, <1>11, Zenon
  <2>5. k = z + 1
    BY <1>5, <2>4 DEF Strung
  <2>6. ReadsArgs(y.mem, z, argv, args)
    BY <1>1, <1>3, <1>4, <1>7, <2>1, <2>4, <2>5, ReadsBack, Zenon
  <2>7. ASSUME NEW q \in 1 .. n, q > kernSpace PROVE y.mem[q] = s.mem[q]
    <3>1. ~ (y.off > kernSpace)
      BY <1>11 DEF TooLarge
    <3>2. PICK e \in Nat, o \in Nat, w \in Nat : e = y.off /\ o = x.off /\ w = kernSpace
      BY <1>3, <1>7, ImageTypes, Zenon DEF Loading
    <3>3. e = o + k * ptrSize /\ k * ptrSize \in Nat
      <4>1. e = o + k * ptrSize
        BY <2>4, <3>2, Zenon DEF Pointed
      <4>2. k * ptrSize \in Nat
        BY Times, ImageTypes
      <4> QED BY <4>1, <4>2
    <3>4. q > e /\ q > o
      BY <2>7, <3>1, <3>2, <3>3
    <3>5. y.mem[q] = x.mem[q]
      BY <2>4, <3>2, <3>4, Zenon DEF Pointed
    <3>6. x.mem[q] = s.mem[q]
      BY <2>4, <3>2, <3>4, Zenon DEF Strung
    <3> QED BY <3>5, <3>6
  <2> QED BY <1>1, <2>3, <2>6, <2>7, Zenon DEF Written
<1> QED BY <1>9, <1>10, <1>11

(* LoadKernel, when it succeeds: the guest reads its arguments, and finds  *)
(* every segment of a kernel that is linked upwards from physKernBase.     *)
Given(a, mem, argv, progs, args) ==
  /\ ReadsArgs(mem, Len(args), argv, args)
  /\ WellLinked(a, progs) =>
       \A l \in DOMAIN progs : progs[l].load => SegmentIntact(a, mem, progs[l], l)

LEMMA LoadKernelDoes ==
  ASSUME NEW a, NEW mem, NEW n, Memory(mem, n), NEW progs \in Seq(Segments),
         NEW args \in Seq(Nat), NEW t, t = LoadKernel(a, mem, progs, args)
  PROVE  Memory(t.mem, n) /\ (t.status = "ok" => Given(a, t.mem, t.argv, progs, args))
<1>1. PICK s : s = [mem |-> mem, status |-> "ok", kernSize |-> 0, off |-> 0, argp |-> << >>,
                    argv |-> 0]
  BY Zenon
<1>2. Loading(s, n) /\ s.off = 0 /\ s.argp = << >>
  <2>1. << >> \in Seq(Nat) /\ 0 \in Nat
    BY ListEmpty
  <2> QED BY <1>1, <2>1 DEF Loading
<1>3. PICK x : x = LoadProgs(a, s, progs)
  OBVIOUS
<1>4. /\ Loading(x, n) /\ x.off = s.off /\ x.argp = s.argp
      /\ x.status = "ok" /\ WellLinked(a, progs) =>
           \A l \in 1 .. Len(progs) : progs[l].load => Holds(a, x.mem, n, progs[l], l)
  <2>1. SegmentsLoaded(a, s, n, progs, Len(progs), x)
    BY <1>2, <1>3, LoadProgsDoes
  <2> QED BY <2>1, Zenon DEF SegmentsLoaded
<1>5. PICK y : y = WriteAt(x, args)
  OBVIOUS
<1>6. Written(x, n, args, y)
  BY <1>2, <1>4, <1>5, WriteAtDoes
<1>7. Loading(y, n)
  BY <1>6, Zenon DEF Written
<1>8. PICK v : v = IF x.status = "ok" THEN y ELSE x
  OBVIOUS
<1>9. t = IF v.status = "ok" /\ v.kernSize = 0 THEN Error(v) ELSE v
  BY <1>1, <1>3, <1>5, <1>8, Zenon DEF LoadKernel
<1>10. Loading(v, n)
  BY <1>4, <1>7, <1>8, Zenon
<1>11. CASE t # v \/ v.status # "ok"
  <2>1. t = v \/ t = [v EXCEPT !.status = "error"]
    BY <1>9 DEF Error
  <2>2. Loading(t, n) /\ t.status # "ok"
    BY <1>10, <1>11, <2>1 DEF Loading
  <2> QED BY <2>2, Zenon DEF Loading
<1>12. CASE t = v /\ v.status = "ok"
  <2>1. x.status = "ok" /\ t = y /\ y.status = "ok"
    BY <1>8, <1>12
  <2>2. /\ ReadsArgs(y.mem, Len(args), y.argv, args)
        /\ \A q \in 1 .. n : q > kernSpace => y.mem[q] = x.mem[q]
    BY <1>6, <2>1, Zenon DEF Written
  <2>3. ASSUME WellLinked(a, progs), NEW l \in DOMAIN progs, progs[l].load
        PROVE  SegmentIntact(a, y.mem, progs[l], l)
    <3>1. l \in 1 .. Len(progs)
      BY ListLen
    <3>2. PICK p, m0, m1 : p \in Segments /\ p = progs[l] /\ m0 = x.mem /\ m1 = y.mem
      BY <3>1, ListElement
    <3>3. Holds(a, m0, n, p, l)
      BY <1>4, <2>1, <2>3, <3>1, <3>2, Zenon
    <3>4. Start(a, p) >= kernSpace
      BY <2>3, <3>2, Zenon DEF WellLinked, Start
    <3>5. \A q \in 1 .. n : Start(a, p) < q /\ q <= Start(a, p) + p.memsz => m1[q] = m0[q]
      <4>1. \A q \in 1 .. n : Start(a, p) < q => q > kernSpace
        BY <3>2, <3>4, StartType, ImageTypes
      <4> QED BY <2>2, <3>2, <4>1, Zenon
    <3>6. n \in Nat
      BY Zenon DEF Memory
    <3>7. Holds(a, m1, n, p, l)
      BY <3>2, <3>3, <3>5, <3>6, HoldsStays
    <3> QED BY <3>2, <3>7, Zenon DEF Holds
  <2>4. Memory(t.mem, n)
    BY <1>10, <1>12, Zenon DEF Loading
  <2> QED BY <2>1, <2>2, <2>3, <2>4, Zenon DEF Given
<1> QED BY <1>11, <1>12, Zenon
=============================================================================
