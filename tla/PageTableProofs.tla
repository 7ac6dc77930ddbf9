-------------------------- MODULE PageTableProofs --------------------------
(***************************************************************************)
(* The tree of tables implements the flat map, for every number of levels, *)
(* every table size and every sequence of calls.                           *)
(***************************************************************************)
EXTENDS PageTable, FiniteSetTheorems, TLAPS

USE SMTT(60)

(* Induction over the natural numbers, for a set of them.                  *)
LEMMA Induction ==
  ASSUME NEW T, 0 \in T, \A n \in Nat : n \in T => n + 1 \in T
  PROVE  Nat \subseteq T
<1> DEFINE R == Nat \ T
<1> SUFFICES ASSUME R # {} PROVE FALSE
  OBVIOUS
<1>1. PICK n \in R : \A k \in R : ~ (<<k, n>> \in OpToRel(<, Nat))
  BY NatLessThanWellFounded, WFMin, Zenon
<1>2. n - 1 \in Nat /\ n - 1 < n
  OBVIOUS
<1>3. <<n - 1, n>> \in OpToRel(<, Nat)
  BY <1>2 DEF OpToRel
<1>4. n - 1 \in T
  BY <1>1, <1>2, <1>3, Zenon
<1> QED
  BY <1>2, <1>4

(* The same for a part 0 .. m of them.                                     *)
LEMMA BoundedInduction ==
  ASSUME NEW m \in Nat, NEW T, 0 \in T,
         \A n \in Nat : n < m /\ n \in T => n + 1 \in T
  PROVE  0 .. m \subseteq T
<1> DEFINE U == {n \in Nat : n <= m => n \in T}
<1>1. 0 \in U
  OBVIOUS
<1>2. \A n \in Nat : n \in U => n + 1 \in U
  OBVIOUS
<1>3. Nat \subseteq U
  <2> HIDE DEF U
  <2> QED BY <1>1, <1>2, Induction
<1> QED
  BY <1>3
-----------------------------------------------------------------------------
(* Arithmetic of the page index.  Up(p, k) is what is left of p after the  *)
(* index bits of the k lowest levels: which entry of level k, counted over *)
(* all tables of that level, p is below.                                   *)
Top == LEVEL_MAX + 1

Up(p, k) == p \div Span[k]

LEMMA Levelled == LEVEL_MAX \in Nat /\ Top \in Nat /\ Top >= 1 /\ Fan \in Nat /\ Fan >= 1
  BY ConstantsOK DEF Top

LEMMA SpanDef == \A k \in 0 .. Top : Span[k] = IF k = 0 THEN 1 ELSE Fan * Span[k - 1]
<1> DEFINE Is(h, n) == h = [k \in 0 .. n |-> IF k = 0 THEN 1 ELSE Fan * h[k - 1]]
           T == {n \in Nat : \E h : Is(h, n)}
<1>1. 0 \in T
  <2>1. Is([k \in 0 .. 0 |-> 1], 0)
    OBVIOUS
  <2> QED BY <2>1, Zenon
<1>2. ASSUME NEW n \in Nat, n \in T PROVE n + 1 \in T
  <2>1. PICK h : Is(h, n)
    BY <1>2
  <2> DEFINE g == [k \in 0 .. n + 1 |-> IF k <= n THEN h[k] ELSE Fan * h[n]]
  <2>2. \A k \in 0 .. n + 1 : g[k] = IF k = 0 THEN 1 ELSE Fan * g[k - 1]
    <3> SUFFICES ASSUME NEW k \in 0 .. n + 1
                 PROVE  g[k] = IF k = 0 THEN 1 ELSE Fan * g[k - 1]
      OBVIOUS
    <3>1. CASE k = n + 1
      BY <3>1
    <3>2. CASE k \in 0 .. n
      <4>1. h[k] = IF k = 0 THEN 1 ELSE Fan * h[k - 1]
        BY <2>1, <3>2
      <4> QED BY <3>2, <4>1
    <3> QED BY <3>1, <3>2
  <2>3. g = [k \in 0 .. n + 1 |-> g[k]]
    OBVIOUS
  <2> HIDE DEF g
  <2>4. Is(g, n + 1)
    BY <2>2, <2>3
  <2>5. n + 1 \in Nat
    OBVIOUS
  <2> HIDE DEF Is
  <2> QED BY <2>4, <2>5
<1>3. Top \in T
  <2>1. \A n \in Nat : n \in T => n + 1 \in T
    BY <1>2
  <2>2. Nat \subseteq T
    <3> HIDE DEF T
    <3> QED BY <1>1, <2>1, Induction
  <2> HIDE DEF T
  <2> QED BY <2>2, Levelled
<1>4. \E h : Is(h, Top)
  BY <1>3
<1>5. Is(Span, Top)
  BY <1>4, Zenon DEF Span, Top
<1> QED
  BY <1>5, Zenon

LEMMA SpanStep ==
  /\ Span[0] = 1
  /\ \A k \in 0 .. LEVEL_MAX : Span[k + 1] = Fan * Span[k]
<1>1. ASSUME NEW k \in 0 .. LEVEL_MAX PROVE Span[k + 1] = Fan * Span[k]
  <2>1. k + 1 \in 0 .. Top /\ k + 1 # 0 /\ k + 1 - 1 = k
    BY Levelled DEF Top
  <2> QED BY <2>1, SpanDef
<1> QED
  BY <1>1, SpanDef, Levelled

LEMMA PositiveProduct ==
  ASSUME NEW a \in Nat, NEW b \in Nat, a >= 1, b >= 1
  PROVE  a * b \in Nat /\ a * b >= 1 /\ a * b >= b
  OBVIOUS

LEMMA SpanType == \A k \in 0 .. Top : Span[k] \in Nat /\ Span[k] >= 1
<1> DEFINE T == {k \in Nat : Span[k] \in Nat /\ Span[k] >= 1}
<1>1. 0 \in T
  BY SpanStep
<1>2. \A n \in Nat : n < Top /\ n \in T => n + 1 \in T
  <2> SUFFICES ASSUME NEW n \in Nat, n < Top, n \in T PROVE n + 1 \in T
    OBVIOUS
  <2>1. Span[n + 1] = Fan * Span[n]
    BY SpanStep, Levelled DEF Top
  <2> QED BY <2>1, PositiveProduct, Levelled
<1>3. 0 .. Top \subseteq T
  <2> HIDE DEF T
  <2> QED BY <1>1, <1>2, BoundedInduction, Levelled
<1> QED
  BY <1>3

LEMMA Division ==
  ASSUME NEW p \in Nat, NEW d \in Nat, d >= 1
  PROVE  \E e \in Nat, r \in Nat : e = p \div d /\ r = p % d /\ r < d /\ p = d * e + r
<1>1. PICK e \in Int : e = p \div d
  OBVIOUS
<1>2. PICK r \in Int : r = p % d
  OBVIOUS
<1>3. p = d * e + r /\ 0 <= r /\ r < d
  BY <1>1, <1>2
<1>4. 0 <= e
  <2> SUFFICES ASSUME e <= -1 PROVE FALSE
    OBVIOUS
  <2>1. d * e <= -d
    OBVIOUS
  <2> QED BY <1>3, <2>1
<1>5. e \in Nat /\ r \in Nat /\ r < d
  BY <1>3, <1>4
<1>6. e \in Nat /\ r \in Nat /\ r < d /\ p = d * e + r
  BY <1>3, <1>5
<1> QED BY <1>1, <1>2, <1>6, Zenon

LEMMA SameQuotient ==
  ASSUME NEW d \in Nat, d >= 1, NEW q \in Nat, NEW r \in 0 .. (d - 1),
         NEW e \in Nat, NEW s \in 0 .. (d - 1), d * q + r = d * e + s
  PROVE  q = e /\ r = s
<1>1. ~ (q < e)
  <2> SUFFICES ASSUME q + 1 <= e PROVE FALSE
    OBVIOUS
  <2>1. d * (q + 1) <= d * e
    OBVIOUS
  <2>2. d * (q + 1) = d * q + d
    OBVIOUS
  <2> QED BY <2>1, <2>2
<1>2. ~ (e < q)
  <2> SUFFICES ASSUME e + 1 <= q PROVE FALSE
    OBVIOUS
  <2>1. d * (e + 1) <= d * q
    OBVIOUS
  <2>2. d * (e + 1) = d * e + d
    OBVIOUS
  <2> QED BY <2>1, <2>2
<1> QED
  BY <1>1, <1>2

LEMMA Quotient ==
  ASSUME NEW d \in Nat, d >= 1, NEW q \in Nat, NEW r \in 0 .. (d - 1), NEW p, p = d * q + r
  PROVE  p \in Nat /\ p \div d = q /\ p % d = r
<1>1. p \in Nat
  BY d * q \in Nat
<1>2. PICK e \in Nat, s \in Nat : e = p \div d /\ s = p % d /\ s < d /\ p = d * e + s
  BY <1>1, Division
<1>3. s \in 0 .. (d - 1) /\ d * q + r = d * e + s
  BY <1>2
<1>4. q = e /\ r = s
  BY <1>3, SameQuotient
<1> QED
  BY <1>1, <1>2, <1>4

LEMMA UpStep ==
  ASSUME NEW p \in Nat, NEW k \in 0 .. LEVEL_MAX
  PROVE  /\ Up(p, k) \in Nat /\ Up(p, k + 1) \in Nat
         /\ pageindex(p, k) \in Entries
         /\ Up(p, k) = Fan * Up(p, k + 1) + pageindex(p, k)
<1>1. PICK d \in Nat : d = Span[k] /\ d >= 1
  BY SpanType, Levelled DEF Top
<1>2. PICK F \in Nat : F = Fan /\ F >= 1
  BY Levelled
<1>3. Span[k + 1] = F * d
  BY <1>1, <1>2, SpanStep
<1>4. PICK u \in Nat, r \in Nat : u = p \div d /\ r = p % d /\ r < d /\ p = d * u + r
  BY <1>1, Division, Zenon
<1>5. PICK v \in Nat, e \in Nat : v = u \div F /\ e = u % F /\ e < F /\ u = F * v + e
  BY <1>2, Division
<1>6. p = (F * d) * v + (d * e + r)
  <2>1. d * u = d * (F * v) + d * e
    BY <1>5
  <2>2. d * (F * v) = (F * d) * v
    OBVIOUS
  <2>3. d * e \in Int /\ (F * d) * v \in Int
    OBVIOUS
  <2> QED BY <1>4, <2>1, <2>2, <2>3
<1>7. d * e + r \in 0 .. (F * d - 1)
  <2>1. e + 1 <= F
    BY <1>5
  <2>2. d * (e + 1) <= d * F
    BY <2>1
  <2>3. d * (e + 1) = d * e + d /\ d * F = F * d
    OBVIOUS
  <2>4. d * e \in Nat
    OBVIOUS
  <2> QED BY <1>4, <2>2, <2>3, <2>4
<1>8. p \div (F * d) = v
  <2>1. F * d \in Nat /\ F * d >= 1
    BY <1>1, <1>2, PositiveProduct
  <2> QED BY <1>6, <1>7, <2>1, Quotient
<1>9. Up(p, k) = u /\ Up(p, k + 1) = v
  BY <1>1, <1>3, <1>4, <1>8 DEF Up
<1>10. pageindex(p, k) = e
  BY <1>1, <1>2, <1>4, <1>5, Zenon DEF pageindex
<1>11. e \in 0 .. (F - 1)
  BY <1>5
<1> QED
  BY <1>2, <1>5, <1>9, <1>10, <1>11, Zenon DEF Entries

LEMMA UpZero == \A p \in Nat : Up(p, 0) = p
  BY SpanStep DEF Up

LEMMA UpTop == \A p \in Pages : p \in Nat /\ Up(p, Top) = 0
<1> SUFFICES ASSUME NEW p \in Pages PROVE p \in Nat /\ Up(p, Top) = 0
  OBVIOUS
<1>1. PICK d \in Nat : d = Span[Top] /\ d >= 1
  BY SpanType, Levelled
<1>2. p \in 0 .. (d - 1)
  BY <1>1 DEF Pages, Top
<1>3. PICK z \in Nat : z = 0
  OBVIOUS
<1>4. p = d * z + p
  BY <1>2, <1>3
<1>5. p \div d = z
  BY <1>1, <1>2, <1>4, Quotient
<1>6. p \in Nat
  BY <1>2
<1> QED
  BY <1>1, <1>3, <1>5, <1>6 DEF Up

(* Two pages below the same entry of level k are below the same entry of   *)
(* every level above, and one further index tells them apart.              *)
LEMMA UpSplit ==
  ASSUME NEW p \in Nat, NEW q \in Nat, NEW k \in 0 .. LEVEL_MAX
  PROVE  Up(p, k) = Up(q, k) <=> Up(p, k + 1) = Up(q, k + 1) /\ pageindex(p, k) = pageindex(q, k)
<1>1. ASSUME Up(p, k) = Up(q, k)
      PROVE  Up(p, k + 1) = Up(q, k + 1) /\ pageindex(p, k) = pageindex(q, k)
  <2>1. Fan * Up(p, k + 1) + pageindex(p, k) = Fan * Up(q, k + 1) + pageindex(q, k)
    BY <1>1, UpStep
  <2>2. /\ Up(p, k + 1) \in Nat /\ pageindex(p, k) \in 0 .. (Fan - 1)
        /\ Up(q, k + 1) \in Nat /\ pageindex(q, k) \in 0 .. (Fan - 1)
    BY UpStep DEF Entries
  <2> DEFINE a == Up(p, k + 1)
             b == Up(q, k + 1)
             x == pageindex(p, k)
             y == pageindex(q, k)
  <2>3. Fan * a + x = Fan * b + y /\ a \in Nat /\ b \in Nat
    BY <2>1, <2>2
  <2>4. x \in 0 .. (Fan - 1) /\ y \in 0 .. (Fan - 1)
    BY <2>2
  <2> HIDE DEF a, b, x, y
  <2>5. a = b /\ x = y
    BY <2>3, <2>4, SameQuotient, Levelled
  <2> QED BY <2>5 DEF a, b, x, y
<1>2. ASSUME Up(p, k + 1) = Up(q, k + 1), pageindex(p, k) = pageindex(q, k)
      PROVE  Up(p, k) = Up(q, k)
  BY <1>2, UpStep
<1> QED
  BY <1>1, <1>2
-----------------------------------------------------------------------------
(* The way of a page through the tree.  At(t, va, k) is what the entry of  *)
(* level k holds for va: for k > 0 the table of level k - 1, and the       *)
(* physical page for k = 0.  It is 0 below a missing table.                *)
Way(t, va) ==
  LET w[k \in 0 .. Top] ==
        IF k = Top THEN Root ELSE IF w[k + 1] = 0 THEN 0 ELSE t[w[k + 1]][pageindex(va, k)]
  IN  w

At(t, va, k) == Way(t, va)[k]

LEMMA Downwards ==
  ASSUME NEW T, Top \in T, \A k \in Levels : k + 1 \in T => k \in T
  PROVE  \A k \in 0 .. Top : k \in T
<1> DEFINE U == {n \in Nat : Top - n \in T}
<1>1. 0 \in U
  BY Levelled
<1>2. \A n \in Nat : n < Top /\ n \in U => n + 1 \in U
  <2> SUFFICES ASSUME NEW n \in Nat, n < Top, n \in U PROVE n + 1 \in U
    OBVIOUS
  <2>1. Top - (n + 1) \in Levels /\ Top - (n + 1) + 1 = Top - n
    BY Levelled DEF Levels, Top
  <2>2. Top - (n + 1) \in T
    BY <2>1
  <2> QED BY <2>2
<1>3. 0 .. Top \subseteq U
  <2> HIDE DEF U
  <2> QED BY <1>1, <1>2, BoundedInduction, Levelled
<1> SUFFICES ASSUME NEW k \in 0 .. Top PROVE k \in T
  OBVIOUS
<1>4. Top - k \in 0 .. Top /\ Top - (Top - k) = k
  BY Levelled
<1> QED
  BY <1>3, <1>4

LEMMA AtDef ==
  ASSUME NEW t, NEW va
  PROVE  /\ At(t, va, Top) = Root
         /\ \A k \in Levels : At(t, va, k) = IF At(t, va, k + 1) = 0 THEN 0
                                            ELSE t[At(t, va, k + 1)][pageindex(va, k)]
<1> DEFINE E(h, k) == IF k = Top THEN Root
                      ELSE IF h[k + 1] = 0 THEN 0 ELSE t[h[k + 1]][pageindex(va, k)]
           Is(h, n) == h = [k \in n .. Top |-> E(h, k)]
           T == {n \in 0 .. Top : \E h : Is(h, n)}
<1>1. Top \in T
  <2>1. Is([k \in Top .. Top |-> Root], Top)
    BY Levelled
  <2>2. Top \in 0 .. Top
    BY Levelled
  <2> HIDE DEF Is
  <2> QED BY <2>1, <2>2
<1>2. ASSUME NEW n \in Levels, n + 1 \in T PROVE n \in T
  <2>1. PICK h : Is(h, n + 1)
    BY <1>2
  <2>2. n \in 0 .. Top /\ n \in Int /\ n < Top /\ Top \in Int
    BY Levelled DEF Levels, Top
  <2> DEFINE g == [k \in n .. Top |-> IF k = n THEN E(h, n) ELSE h[k]]
  <2>3. \A k \in n .. Top : g[k] = E(g, k)
    <3> SUFFICES ASSUME NEW k \in n .. Top PROVE g[k] = E(g, k)
      OBVIOUS
    <3>1. CASE k = n
      <4>1. g[n] = E(h, n) /\ n + 1 \in n .. Top /\ g[n + 1] = h[n + 1]
        BY <2>2
      <4> QED BY <3>1, <4>1, <2>2
    <3>2. CASE k = Top
      <4>1. h[k] = Root
        BY <2>1, <2>2, <3>2
      <4> QED BY <2>2, <3>2, <4>1
    <3>3. CASE k # n /\ k # Top
      <4>1. k \in n + 1 .. Top /\ k + 1 \in n .. Top /\ k + 1 # n
        BY <2>2, <3>3
      <4>2. h[k] = E(h, k)
        BY <2>1, <4>1, Zenon
      <4>3. g[k] = h[k] /\ g[k + 1] = h[k + 1]
        BY <3>3, <4>1
      <4> QED BY <3>3, <4>2, <4>3
    <3> QED BY <3>1, <3>2, <3>3
  <2>4. g = [k \in n .. Top |-> g[k]]
    OBVIOUS
  <2> HIDE DEF g
  <2>5. Is(g, n)
    BY <2>3, <2>4
  <2> HIDE DEF Is
  <2> QED BY <2>2, <2>5
<1>3. 0 \in T
  <2>1. \A k \in Levels : k + 1 \in T => k \in T
    BY <1>2
  <2> HIDE DEF T
  <2> QED BY <1>1, <2>1, Downwards, Levelled
<1>4. \E h : Is(h, 0)
  BY <1>3
<1>5. Is(Way(t, va), 0)
  BY <1>4, Zenon DEF Way
<1>6. \A k \in 0 .. Top : At(t, va, k) = E(Way(t, va), k)
  BY <1>5, Zenon DEF At
<1> QED
  BY <1>6, Levelled DEF At, Levels, Top

(* Below a missing table nothing is found.                                 *)
LEMMA AtAbove ==
  ASSUME NEW t, NEW va, NEW k \in 0 .. Top, NEW j \in 0 .. Top, j >= k, At(t, va, k) # 0
  PROVE  At(t, va, j) # 0
<1> DEFINE T == {n \in 0 .. Top : n >= k => At(t, va, n) # 0}
           U == {n \in 0 .. Top : At(t, va, n) # 0 => \A l \in 0 .. Top : l >= n => At(t, va, l) # 0}
<1>1. Top \in U
  BY AtDef, Levelled DEF Root
<1>2. ASSUME NEW n \in Levels, n + 1 \in U PROVE n \in U
  <2>1. n \in 0 .. Top /\ n + 1 \in 0 .. Top
    BY Levelled DEF Levels, Top
  <2>2. At(t, va, n) # 0 => At(t, va, n + 1) # 0
    BY AtDef
  <2>3. \A l \in 0 .. Top : l >= n => l = n \/ l >= n + 1
    BY <2>1
  <2> QED BY <1>2, <2>1, <2>2, <2>3
<1>3. k \in U
  <2> HIDE DEF U
  <2> QED BY <1>1, <1>2, Downwards
<1> QED
  BY <1>3

(* Pages below the same entry of level k find the same there.              *)
LEMMA AtSame ==
  ASSUME NEW t
  PROVE  \A k \in 0 .. Top : \A p, q \in Nat : Up(p, k) = Up(q, k) => At(t, p, k) = At(t, q, k)
<1> DEFINE T == {k \in 0 .. Top : \A p, q \in Nat : Up(p, k) = Up(q, k) => At(t, p, k) = At(t, q, k)}
<1>1. Top \in T
  BY AtDef, Levelled
<1>2. ASSUME NEW k \in Levels, k + 1 \in T PROVE k \in T
  <2>1. k \in 0 .. Top /\ k \in 0 .. LEVEL_MAX
    BY Levelled DEF Levels, Top
  <2>2. ASSUME NEW p \in Nat, NEW q \in Nat, Up(p, k) = Up(q, k)
        PROVE  At(t, p, k) = At(t, q, k)
    <3>1. Up(p, k + 1) = Up(q, k + 1) /\ pageindex(p, k) = pageindex(q, k)
      BY <2>1, <2>2, UpSplit
    <3>2. At(t, p, k + 1) = At(t, q, k + 1)
      BY <1>2, <3>1
    <3> QED BY <3>1, <3>2, AtDef
  <2> QED BY <2>1, <2>2
<1>3. \A k \in Levels : k + 1 \in T => k \in T
  BY <1>2
<1>4. \A k \in 0 .. Top : k \in T
  <2> HIDE DEF T
  <2> QED BY <1>1, <1>3, Downwards
<1> QED
  BY <1>4

LEMMA UpAbove ==
  ASSUME NEW p \in Nat, NEW q \in Nat, NEW k \in 0 .. Top, NEW j \in 0 .. Top, j >= k,
         Up(p, k) = Up(q, k)
  PROVE  Up(p, j) = Up(q, j)
<1> DEFINE U == {n \in 0 .. Top : Up(p, n) = Up(q, n) => \A l \in 0 .. Top : l >= n => Up(p, l) = Up(q, l)}
<1>1. Top \in U
  <2>1. \A l \in 0 .. Top : l >= Top => l = Top
    BY Levelled
  <2> QED BY <2>1, Levelled
<1>2. ASSUME NEW n \in Levels, n + 1 \in U PROVE n \in U
  <2>1. n \in 0 .. Top /\ n + 1 \in 0 .. Top /\ n \in 0 .. LEVEL_MAX
    BY Levelled DEF Levels, Top
  <2>2. Up(p, n) = Up(q, n) => Up(p, n + 1) = Up(q, n + 1)
    BY <2>1, UpSplit
  <2>3. \A l \in 0 .. Top : l >= n => l = n \/ l >= n + 1
    BY <2>1
  <2> QED BY <1>2, <2>1, <2>2, <2>3
<1>3. k \in U
  <2>1. \A n \in Levels : n + 1 \in U => n \in U
    BY <1>2
  <2> HIDE DEF U
  <2> QED BY <1>1, <2>1, Downwards
<1> QED
  BY <1>3
-----------------------------------------------------------------------------
(* What holds of the tables between two writes.                            *)
Numbered(t) == \E n \in Nat : n >= 1 /\ DOMAIN t = 1 .. n

Filled(t) == \A x \in DOMAIN t : t[x] \in [Entries -> Nat]

\* an entry of an inner table points to a table or nowhere
Closed(t) == \A p \in Pages, k \in 1 .. Top : At(t, p, k) = 0 \/ At(t, p, k) \in DOMAIN t

\* no table is lost
Reached(t) == \A x \in DOMAIN t : \E p \in Pages, k \in 1 .. Top : At(t, p, k) = x

\* no table is entered in two places
Apart(t) ==
  \A p, q \in Pages, k, j \in 1 .. Top :
    At(t, p, k) # 0 /\ At(t, p, k) = At(t, q, j) => k = j /\ Up(p, k) = Up(q, k)

Good(t) == Numbered(t) /\ Filled(t) /\ Closed(t) /\ Reached(t) /\ Apart(t)

(* What one write changes: entry of level l for va becomes v, a new and    *)
(* empty table unless l is the leaf level.  Only the pages below that      *)
(* entry see it, and only at that level.                                   *)
LEMMA Written ==
  ASSUME NEW t, Closed(t), Apart(t), NEW va \in Pages, NEW l \in Levels, NEW u, NEW v \in Nat,
         At(t, va, l + 1) # 0,
         l # 0 => At(t, va, l) = 0 /\ v # 0 /\ \A e \in Entries : u[v][e] = 0,
         \A x \in DOMAIN t, e \in Entries :
           u[x][e] = IF x = At(t, va, l + 1) /\ e = pageindex(va, l) THEN v ELSE t[x][e]
  PROVE  \A q \in Pages, k \in 0 .. Top :
           At(u, q, k) = IF k = l /\ Up(q, l) = Up(va, l) THEN v ELSE At(t, q, k)
<1> DEFINE New(q, k) == IF k = l /\ Up(q, l) = Up(va, l) THEN v ELSE At(t, q, k)
           T == {k \in 0 .. Top : \A q \in Pages : At(u, q, k) = New(q, k)}
<1>0. l \in 0 .. Top /\ l + 1 \in 0 .. Top /\ l + 1 \in 1 .. Top /\ l \in 0 .. LEVEL_MAX /\ l # Top
  BY Levelled DEF Levels, Top
<1>1. Top \in T
  BY <1>0, AtDef, Levelled
<1>2. ASSUME NEW k \in Levels, k + 1 \in T PROVE k \in T
  <2>0. k \in 0 .. Top /\ k + 1 \in 0 .. Top /\ k + 1 \in 1 .. Top /\ k \in 0 .. LEVEL_MAX
    BY Levelled DEF Levels, Top
  <2>1. ASSUME NEW q \in Pages PROVE At(u, q, k) = New(q, k)
    <3>1. At(u, q, k + 1) = New(q, k + 1)
      BY <1>2
    <3>2. q \in Nat /\ va \in Nat
      BY UpTop
    <3>3. CASE k + 1 = l /\ Up(q, l) = Up(va, l)
      <4>1. At(u, q, k + 1) = v /\ v # 0 /\ l # 0 /\ k # l
        BY <3>1, <3>3, <2>0
      <4>2. At(u, q, k) = 0
        <5>1. pageindex(q, k) \in Entries
          BY <3>2, <2>0, UpStep
        <5>2. At(u, q, k) = u[v][pageindex(q, k)]
          BY <4>1, AtDef
        <5> QED BY <4>1, <5>1, <5>2
      <4>3. At(t, q, k + 1) = 0
        BY <3>2, <3>3, <4>1, <1>0, AtSame
      <4>4. At(t, q, k) = 0
        BY <4>3, AtDef
      <4> QED BY <4>1, <4>2, <4>4
    <3>4. CASE ~ (k + 1 = l /\ Up(q, l) = Up(va, l)) /\ At(t, q, k + 1) = 0
      <4>0. At(u, q, k + 1) = 0
        BY <3>1, <3>4
      <4>1. At(u, q, k) = 0 /\ At(t, q, k) = 0
        <5>1. At(u, q, k) = 0
          BY <4>0, AtDef
        <5>2. At(t, q, k + 1) = 0
          BY <3>4
        <5>3. At(t, q, k) = 0
          BY <5>2, AtDef
        <5> QED BY <5>1, <5>3
      <4>2. ~ (k = l /\ Up(q, l) = Up(va, l))
        <5> SUFFICES ASSUME k = l, Up(q, l) = Up(va, l) PROVE FALSE
          OBVIOUS
        <5>1. Up(q, l + 1) = Up(va, l + 1)
          BY <3>2, <1>0, UpSplit
        <5>2. At(t, q, l + 1) = At(t, va, l + 1)
          BY <5>1, <3>2, <1>0, AtSame
        <5> QED BY <5>2, <3>4
      <4> QED BY <4>1, <4>2
    <3>5. CASE ~ (k + 1 = l /\ Up(q, l) = Up(va, l)) /\ At(t, q, k + 1) # 0
      <4>1. PICK x : x = At(t, q, k + 1) /\ x \in DOMAIN t /\ x # 0
        BY <3>5, <2>0 DEF Closed
      <4>2. At(u, q, k + 1) = x
        BY <3>1, <3>5, <4>1
      <4>3. At(u, q, k) = u[x][pageindex(q, k)] /\ At(t, q, k) = t[x][pageindex(q, k)]
        BY <4>1, <4>2, AtDef
      <4>4. pageindex(q, k) \in Entries
        BY <3>2, <2>0, UpStep
      <4>5. x = At(t, va, l + 1) /\ pageindex(q, k) = pageindex(va, l)
              <=> k = l /\ Up(q, l) = Up(va, l)
        <5>1. ASSUME x = At(t, va, l + 1), pageindex(q, k) = pageindex(va, l)
              PROVE  k = l /\ Up(q, l) = Up(va, l)
          <6>1. k + 1 = l + 1 /\ Up(q, k + 1) = Up(va, k + 1)
            BY <5>1, <4>1, <2>0, <1>0 DEF Apart
          <6>2. k = l
            BY <6>1, <2>0, <1>0
          <6> QED BY <6>1, <6>2, <5>1, <1>0, <3>2, UpSplit
        <5>2. ASSUME k = l, Up(q, l) = Up(va, l)
              PROVE  x = At(t, va, l + 1) /\ pageindex(q, k) = pageindex(va, l)
          <6>1. Up(q, l + 1) = Up(va, l + 1) /\ pageindex(q, l) = pageindex(va, l)
            BY <5>2, <1>0, <3>2, UpSplit
          <6>2. At(t, q, l + 1) = At(t, va, l + 1)
            BY <6>1, <1>0, <3>2, AtSame
          <6> QED BY <6>1, <6>2, <5>2, <4>1
        <5> QED BY <5>1, <5>2
      <4> QED BY <4>1, <4>3, <4>4, <4>5
    <3> QED BY <3>3, <3>4, <3>5
  <2> QED BY <2>0, <2>1
<1>3. \A k \in Levels : k + 1 \in T => k \in T
  BY <1>2
<1>4. \A k \in 0 .. Top : k \in T
  <2> HIDE DEF T
  <2> QED BY <1>1, <1>3, Downwards
<1> QED
  BY <1>4

LEMMA Counted ==
  ASSUME NEW t, Numbered(t)
  PROVE  /\ Cardinality(DOMAIN t) \in Nat \ {0} /\ DOMAIN t = 1 .. Cardinality(DOMAIN t)
         /\ Root \in DOMAIN t /\ 0 \notin DOMAIN t
<1>1. PICK n \in Nat : n >= 1 /\ DOMAIN t = 1 .. n
  BY DEF Numbered
<1>2. Cardinality(1 .. n) = n
  BY <1>1, FS_Interval
<1> QED
  BY <1>1, <1>2 DEF Root

(* A new table keeps all of it.                                            *)
LEMMA EnterGood ==
  ASSUME NEW t, Good(t), NEW va \in Pages, NEW l \in Levels \ {0}, NEW u, NEW n,
         At(t, va, l + 1) # 0, At(t, va, l) = 0, n = Cardinality(DOMAIN t) + 1,
         u = Enter(t, At(t, va, l + 1), pageindex(va, l), n)
  PROVE  /\ Good(u) /\ n # 0
         /\ \A q \in Pages, k \in 0 .. Top :
              At(u, q, k) = IF k = l /\ Up(q, l) = Up(va, l) THEN n ELSE At(t, q, k)
<1> DEFINE x == At(t, va, l + 1)
           e == pageindex(va, l)
<1>0. /\ l \in Int /\ l \in 0 .. Top /\ l \in 1 .. Top /\ l + 1 \in 1 .. Top /\ l \in 0 .. LEVEL_MAX /\ l # 0
  BY Levelled DEF Levels, Top
<1>1. /\ n \in Nat /\ n # 0 /\ n \notin DOMAIN t /\ DOMAIN t = 1 .. (n - 1) /\ DOMAIN u = 1 .. n
      /\ DOMAIN u = DOMAIN t \cup {n} /\ DOMAIN t \subseteq 1 .. n
  <2>1. Cardinality(DOMAIN t) \in Nat \ {0} /\ DOMAIN t = 1 .. Cardinality(DOMAIN t)
    BY Counted DEF Good
  <2>2. DOMAIN u = 1 .. n
    BY DEF Enter
  <2>3. PICK c \in Nat \ {0} : c = Cardinality(DOMAIN t)
    BY <2>1
  <2>4. DOMAIN t = 1 .. c /\ n = c + 1
    BY <2>1, <2>3
  <2>5. n \in Nat /\ n # 0 /\ c = n - 1
    BY <2>4
  <2>6. n \notin 1 .. c /\ 1 .. n = (1 .. c) \cup {n} /\ 1 .. c \subseteq 1 .. n
    BY <2>4
  <2> QED BY <2>2, <2>4, <2>5, <2>6, Zenon
<1>2. x \in DOMAIN t
  BY <1>0 DEF Good, Closed
<1>3. e \in Entries
  BY <1>0, UpTop, UpStep
<1>4. u[n] = EmptyTable
  BY <1>1 DEF Enter
<1>5. \A y \in DOMAIN t : u[y] = [t EXCEPT ![x][e] = n][y]
  BY <1>1 DEF Enter, SetPte
<1>6. \A y \in DOMAIN t : t[y] \in [Entries -> Nat]
  BY DEF Good, Filled
<1> HIDE DEF x, e
<1>7. \A y \in DOMAIN t : \A f \in Entries : u[y][f] = IF y = x /\ f = e THEN n ELSE t[y][f]
  BY <1>2, <1>3, <1>5, <1>6
<1>8. \A y \in DOMAIN t : u[y] \in [Entries -> Nat]
  <2> SUFFICES ASSUME NEW y \in DOMAIN t PROVE u[y] \in [Entries -> Nat]
    OBVIOUS
  <2>1. u[y] = IF y = x THEN [t[x] EXCEPT ![e] = n] ELSE t[y]
    BY <1>2, <1>5, Zenon
  <2> QED BY <2>1, <1>6, <1>1, <1>2
<1> USE DEF x, e
<1>9. \A q \in Pages, k \in 0 .. Top :
        At(u, q, k) = IF k = l /\ Up(q, l) = Up(va, l) THEN n ELSE At(t, q, k)
  <2>1. \A f \in Entries : u[n][f] = 0
    BY <1>4 DEF EmptyTable
  <2>2. \A y \in DOMAIN t, f \in Entries :
          u[y][f] = IF y = At(t, va, l + 1) /\ f = pageindex(va, l) THEN n ELSE t[y][f]
    BY <1>7
  <2>3. l \in Levels /\ Closed(t) /\ Apart(t) /\ n \in Nat /\ At(t, va, l + 1) # 0
    BY <1>1 DEF Good
  <2>4. l # 0 => At(t, va, l) = 0 /\ n # 0 /\ \A f \in Entries : u[n][f] = 0
    BY <2>1, <1>1
  <2> HIDE DEF x, e
  <2> QED BY <2>2, <2>3, <2>4, Written
<1> HIDE DEF x, e
<1>10. Numbered(u)
  <2>1. n \in Nat /\ n >= 1
    BY <1>1
  <2> QED BY <2>1, <1>1 DEF Numbered
<1>11. Filled(u)
  <2>1. u[n] \in [Entries -> Nat]
    BY <1>4 DEF EmptyTable
  <2> QED BY <2>1, <1>8, <1>1 DEF Filled
<1>12. Closed(u)
  <2> SUFFICES ASSUME NEW p \in Pages, NEW k \in 1 .. Top
               PROVE  At(u, p, k) = 0 \/ At(u, p, k) \in DOMAIN u
    BY DEF Closed
  <2>1. k \in 0 .. Top
    BY Levelled
  <2>2. At(t, p, k) = 0 \/ At(t, p, k) \in DOMAIN t
    BY DEF Good, Closed
  <2> QED BY <2>1, <2>2, <1>9, <1>1
<1>13. Reached(u)
  <2> SUFFICES ASSUME NEW y \in DOMAIN u
               PROVE  \E p \in Pages, k \in 1 .. Top : At(u, p, k) = y
    BY DEF Reached
  <2>1. CASE y = n
    BY <2>1, <1>0, <1>9
  <2>2. CASE y \in DOMAIN t
    <3>1. PICK p \in Pages, k \in 1 .. Top : At(t, p, k) = y
      BY <2>2 DEF Good, Reached
    <3>2. k \in 0 .. Top /\ y # 0
      BY Levelled, <2>2, <1>1
    <3>3. ~ (k = l /\ Up(p, l) = Up(va, l))
      <4>1. p \in Nat /\ va \in Nat
        BY UpTop
      <4>2. Up(p, l) = Up(va, l) => At(t, p, l) = At(t, va, l)
        BY <4>1, <1>0, AtSame
      <4> QED BY <4>2, <3>1, <3>2
    <3>4. At(u, p, k) = y
      BY <3>1, <3>2, <3>3, <1>9
    <3> QED BY <3>4
  <2> QED BY <2>1, <2>2, <1>1
<1>14. Apart(u)
  <2> SUFFICES ASSUME NEW p \in Pages, NEW q \in Pages, NEW k \in 1 .. Top, NEW j \in 1 .. Top,
                      At(u, p, k) # 0, At(u, p, k) = At(u, q, j)
               PROVE  k = j /\ Up(p, k) = Up(q, k)
    BY DEF Apart
  <2>1. k \in 0 .. Top /\ j \in 0 .. Top
    BY Levelled
  <2>2. /\ At(t, p, k) = 0 \/ At(t, p, k) \in DOMAIN t
        /\ At(t, q, j) = 0 \/ At(t, q, j) \in DOMAIN t
    BY DEF Good, Closed
  <2>3. At(u, p, k) = IF k = l /\ Up(p, l) = Up(va, l) THEN n ELSE At(t, p, k)
    BY <2>1, <1>9
  <2>4. At(u, q, j) = IF j = l /\ Up(q, l) = Up(va, l) THEN n ELSE At(t, q, j)
    BY <2>1, <1>9
  <2>5. CASE k = l /\ Up(p, l) = Up(va, l)
    BY <2>2, <2>3, <2>4, <2>5, <1>1
  <2>6. CASE j = l /\ Up(q, l) = Up(va, l)
    BY <2>2, <2>3, <2>4, <2>6, <1>1
  <2>7. CASE ~ (k = l /\ Up(p, l) = Up(va, l)) /\ ~ (j = l /\ Up(q, l) = Up(va, l))
    <3>1. At(t, p, k) # 0 /\ At(t, p, k) = At(t, q, j)
      BY <2>3, <2>4, <2>7
    <3> QED BY <3>1 DEF Good, Apart
  <2> QED BY <2>5, <2>6, <2>7
<1> QED
  BY <1>1, <1>9, <1>10, <1>11, <1>12, <1>13, <1>14 DEF Good

(* A write to a leaf table changes the translation of one page.            *)
LEMMA LeafGood ==
  ASSUME NEW t, Good(t), NEW va \in Pages, NEW u, NEW v \in Nat, At(t, va, 1) # 0,
         u = SetPte(t, At(t, va, 1), pageindex(va, 0), v)
  PROVE  /\ Good(u)
         /\ \A q \in Pages, k \in 0 .. Top :
              At(u, q, k) = IF k = 0 /\ q = va THEN v ELSE At(t, q, k)
<1> DEFINE x == At(t, va, 1)
           e == pageindex(va, 0)
<1>1. PICK l \in Levels : l = 0
  BY Levelled DEF Levels
<1>2. 1 \in 1 .. Top /\ l \in 0 .. LEVEL_MAX /\ l + 1 = 1
  BY <1>1, Levelled
<1>3. x \in DOMAIN t
  BY <1>2 DEF Good, Closed
<1>4. e \in Entries
  <2>1. pageindex(va, l) \in Entries
    BY <1>2, UpTop, UpStep
  <2> QED BY <1>1, <2>1
<1>5. u = [t EXCEPT ![x][e] = v]
  BY DEF SetPte
<1>6. Filled(t)
  BY DEF Good
<1> HIDE DEF x, e
<1>7. DOMAIN u = DOMAIN t
  BY <1>5
<1>8. \A y \in DOMAIN t : \A f \in Entries : u[y][f] = IF y = x /\ f = e THEN v ELSE t[y][f]
  BY <1>3, <1>4, <1>5, <1>6 DEF Filled
<1>9. \A q \in Pages, k \in 0 .. Top :
        At(u, q, k) = IF k = 0 /\ q = va THEN v ELSE At(t, q, k)
  <2>1. \A y \in DOMAIN t, f \in Entries :
          u[y][f] = IF y = At(t, va, l + 1) /\ f = pageindex(va, l) THEN v ELSE t[y][f]
    BY <1>1, <1>2, <1>8 DEF x, e
  <2>2. At(t, va, l + 1) # 0
    BY <1>2
  <2>3. l # 0 => At(t, va, l) = 0 /\ v # 0 /\ \A f \in Entries : u[v][f] = 0
    BY <1>1
  <2>4. Closed(t) /\ Apart(t)
    BY DEF Good
  <2>5. \A q \in Pages, k \in 0 .. Top :
          At(u, q, k) = IF k = l /\ Up(q, l) = Up(va, l) THEN v ELSE At(t, q, k)
    BY <2>1, <2>2, <2>3, <2>4, Written
  <2>6. \A q \in Pages : Up(q, l) = Up(va, l) <=> q = va
    BY <1>1, UpTop, UpZero
  <2> QED BY <2>5, <2>6, <1>1
<1>10. \A q \in Pages, k \in 1 .. Top : At(u, q, k) = At(t, q, k)
  <2>1. \A k \in 1 .. Top : k \in 0 .. Top /\ k # 0
    BY Levelled
  <2> QED BY <2>1, <1>9
<1>11. Numbered(u)
  BY <1>7 DEF Good, Numbered
<1>12. Filled(u)
  <2> SUFFICES ASSUME NEW y \in DOMAIN t PROVE u[y] \in [Entries -> Nat]
    BY <1>7 DEF Filled
  <2>1. u[y] = IF y = x THEN [t[x] EXCEPT ![e] = v] ELSE t[y]
    BY <1>3, <1>5
  <2> QED BY <2>1, <1>6, <1>3 DEF Filled
<1>13. Closed(u)
  BY <1>7, <1>10 DEF Good, Closed
<1>14. Reached(u)
  BY <1>7, <1>10 DEF Good, Reached
<1>15. Apart(u)
  BY <1>10 DEF Good, Apart
<1> QED
  BY <1>9, <1>11, <1>12, <1>13, <1>14, <1>15 DEF Good
-----------------------------------------------------------------------------
(* lookup_l4pagetable, level by level.                                     *)
Descent(s, va) ==
  LET down[l \in Levels] ==
        IF l = LEVEL_MAX THEN [t |-> s.t, room |-> s.room, l4 |-> Root]
        ELSE NextTable(down[l + 1], va, l + 1)
  IN  down

LEMMA DescentDef ==
  ASSUME NEW s, NEW va
  PROVE  /\ Descent(s, va)[LEVEL_MAX] = [t |-> s.t, room |-> s.room, l4 |-> Root]
         /\ \A l \in Levels : l # LEVEL_MAX =>
              Descent(s, va)[l] = NextTable(Descent(s, va)[l + 1], va, l + 1)
         /\ lookup_l4pagetable(s, va) = Descent(s, va)[0]
<1> DEFINE First == [t |-> s.t, room |-> s.room, l4 |-> Root]
           E(h, l) == IF l = LEVEL_MAX THEN First ELSE NextTable(h[l + 1], va, l + 1)
           Is(h, n) == h = [l \in n .. LEVEL_MAX |-> E(h, l)]
           T == {n \in 0 .. Top : \E h : Is(h, n)}
<1>1. Top \in T
  <2>1. Top \in 0 .. Top /\ Top .. LEVEL_MAX = {}
    BY Levelled DEF Top
  <2> DEFINE h == [l \in Top .. LEVEL_MAX |-> First]
  <2>2. Is(h, Top)
    BY <2>1
  <2> HIDE DEF Is, h
  <2> QED BY <2>1, <2>2
<1>2. ASSUME NEW n \in Levels, n + 1 \in T PROVE n \in T
  <2>1. PICK h : Is(h, n + 1)
    BY <1>2
  <2>2. n \in 0 .. Top /\ n \in Int /\ n <= LEVEL_MAX /\ LEVEL_MAX \in Int
    BY Levelled DEF Levels, Top
  <2> HIDE DEF First
  <2> DEFINE g == [l \in n .. LEVEL_MAX |-> IF l = n THEN E(h, n) ELSE h[l]]
  <2>3. \A l \in n .. LEVEL_MAX : g[l] = E(g, l)
    <3> SUFFICES ASSUME NEW l \in n .. LEVEL_MAX PROVE g[l] = E(g, l)
      OBVIOUS
    <3>1. CASE l = LEVEL_MAX
      <4>1. l # n => h[l] = First
        <5> SUFFICES ASSUME l # n PROVE h[l] = First
          OBVIOUS
        <5>1. l \in n + 1 .. LEVEL_MAX
          BY <2>2
        <5> QED BY <5>1, <2>1, <3>1
      <4> QED BY <3>1, <4>1
    <3>2. CASE l = n /\ l # LEVEL_MAX
      <4>1. g[n] = E(h, n) /\ n + 1 \in n .. LEVEL_MAX /\ g[n + 1] = h[n + 1]
        BY <2>2, <3>2
      <4> QED BY <3>2, <4>1
    <3>3. CASE l # n /\ l # LEVEL_MAX
      <4>1. l \in n + 1 .. LEVEL_MAX /\ l + 1 \in n .. LEVEL_MAX /\ l + 1 # n
        BY <2>2, <3>3
      <4>2. h[l] = E(h, l)
        BY <2>1, <4>1, Zenon
      <4>3. g[l] = h[l] /\ g[l + 1] = h[l + 1]
        BY <3>3, <4>1
      <4> QED BY <3>3, <4>2, <4>3
    <3> QED BY <3>1, <3>2, <3>3
  <2>4. g = [l \in n .. LEVEL_MAX |-> g[l]]
    OBVIOUS
  <2> HIDE DEF g
  <2>5. Is(g, n)
    BY <2>3, <2>4
  <2> HIDE DEF Is
  <2> QED BY <2>2, <2>5
<1>3. 0 \in T
  <2>1. \A k \in Levels : k + 1 \in T => k \in T
    BY <1>2
  <2> HIDE DEF T
  <2> QED BY <1>1, <2>1, Downwards, Levelled
<1>4. \E h : Is(h, 0)
  BY <1>3
<1>5. Is(Descent(s, va), 0)
  BY <1>4, Zenon DEF Descent, Levels
<1>6. \A l \in Levels : Descent(s, va)[l] = E(Descent(s, va), l)
  BY <1>5, Zenon DEF Levels
<1>7. lookup_l4pagetable(s, va) = Descent(s, va)[0]
  BY DEF lookup_l4pagetable, Descent
<1>8. LEVEL_MAX \in Levels
  BY Levelled DEF Levels
<1> QED
  BY <1>6, <1>7, <1>8

(* What a descent from s to level k for page va has kept: no translation   *)
(* changes and no table is lost.  l4 is the table it has reached.          *)
Keeps(t, u) ==
  /\ \A q \in Pages : At(u, q, 0) = At(t, q, 0)
  /\ \A q \in Pages, k \in 0 .. Top : At(t, q, k) # 0 => At(u, q, k) # 0

Reaching(s, d, va, k) ==
  /\ Good(d.t) /\ d.room \in Nat /\ Keeps(s.t, d.t)
  /\ d.l4 # 0 => d.l4 = At(d.t, va, k)

LEMMA NextTableGood ==
  ASSUME NEW s, NEW d, NEW va \in Pages, NEW l \in Levels \ {0}, Reaching(s, d, va, l + 1)
  PROVE  Reaching(s, NextTable(d, va, l), va, l)
<1> DEFINE e == pageindex(va, l)
           n == Cardinality(DOMAIN d.t) + 1
           o == NextTable(d, va, l)
           x == At(d.t, va, l + 1)
<1>0. Good(d.t) /\ d.room \in Nat /\ Keeps(s.t, d.t)
  BY DEF Reaching
<1>1. CASE d.l4 = 0
  BY <1>1 DEF Reaching, NextTable
<1>2. CASE d.l4 # 0
  <2>1. d.l4 = x /\ x # 0
    BY <1>2 DEF Reaching
  <2>2. At(d.t, va, l) = d.t[x][e]
    BY <2>1, AtDef
  <2>3. CASE d.t[x][e] # 0
    <3>1. o = [t |-> d.t, room |-> d.room, l4 |-> d.t[x][e]]
      BY <1>2, <2>1, <2>3 DEF NextTable
    <3>2. o.t = d.t /\ o.room = d.room /\ o.l4 = At(d.t, va, l)
      BY <3>1, <2>2
    <3> HIDE DEF o
    <3>3. Reaching(s, o, va, l)
      BY <3>2, <1>0 DEF Reaching
    <3> QED BY <3>3 DEF o
  <2>4. CASE d.t[x][e] = 0 /\ d.room = 0
    <3>1. o = [t |-> d.t, room |-> 0, l4 |-> 0]
      BY <1>2, <2>1, <2>4 DEF NextTable
    <3>2. o.t = d.t /\ o.room = d.room /\ o.l4 = 0
      BY <3>1, <2>4
    <3> HIDE DEF o
    <3>3. Reaching(s, o, va, l)
      BY <3>2, <1>0 DEF Reaching
    <3> QED BY <3>3 DEF o
  <2>5. CASE d.t[x][e] = 0 /\ d.room # 0
    <3> DEFINE u == Enter(d.t, x, e, n)
    <3>1. o = [t |-> u, room |-> d.room - 1, l4 |-> n]
      BY <1>2, <2>1, <2>5 DEF NextTable
    <3>2. o.t = u /\ o.room = d.room - 1 /\ o.l4 = n
      BY <3>1
    <3>3. At(d.t, va, l + 1) # 0 /\ At(d.t, va, l) = 0
      BY <2>1, <2>2, <2>5
    <3>4. u = Enter(d.t, At(d.t, va, l + 1), pageindex(va, l), n)
      OBVIOUS
    <3>5. n = Cardinality(DOMAIN d.t) + 1
      OBVIOUS
    <3> HIDE DEF u, n, o
    <3>6. /\ Good(u) /\ n # 0
          /\ \A q \in Pages, k \in 0 .. Top :
               At(u, q, k) = IF k = l /\ Up(q, l) = Up(va, l) THEN n ELSE At(d.t, q, k)
      BY <3>3, <3>4, <3>5, <1>0, EnterGood
    <3>7. 0 \in 0 .. Top /\ l # 0 /\ l \in 0 .. Top
      BY Levelled DEF Levels, Top
    <3>8. At(u, va, l) = n
      BY <3>6, <3>7
    <3>9. Keeps(s.t, u)
      BY <1>0, <3>6, <3>7 DEF Keeps
    <3>10. d.room - 1 \in Nat
      BY <1>0, <2>5
    <3>11. Reaching(s, o, va, l)
      BY <3>2, <3>6, <3>8, <3>9, <3>10 DEF Reaching
    <3> QED BY <3>11 DEF o
  <2> QED BY <2>3, <2>4, <2>5
<1> QED
  BY <1>1, <1>2

(* lookup_l4pagetable changes no translation, loses no table, and returns  *)
(* the leaf table of va unless an allocation failed.                       *)
LEMMA LookupGood ==
  ASSUME NEW s, NEW va \in Pages, Good(s.t), s.room \in Nat
  PROVE  Reaching(s, lookup_l4pagetable(s, va), va, 1)
<1> DEFINE D == Descent(s, va)
           T == {k \in 0 .. Top : k # 0 => Reaching(s, D[k - 1], va, k)}
<1>1. Top \in T
  <2>1. Top \in 0 .. Top /\ Top - 1 = LEVEL_MAX
    BY Levelled DEF Top
  <2>2. D[LEVEL_MAX] = [t |-> s.t, room |-> s.room, l4 |-> Root]
    BY DescentDef
  <2>3. D[LEVEL_MAX].t = s.t /\ D[LEVEL_MAX].room = s.room /\ D[LEVEL_MAX].l4 = Root
    BY <2>2
  <2>4. At(s.t, va, Top) = Root
    BY AtDef
  <2> HIDE DEF D
  <2>5. Keeps(s.t, s.t)
    BY DEF Keeps
  <2>6. Reaching(s, D[LEVEL_MAX], va, Top)
    BY <2>3, <2>4, <2>5 DEF Reaching
  <2> QED BY <2>1, <2>6
<1>2. ASSUME NEW k \in Levels, k + 1 \in T PROVE k \in T
  <2>1. k \in 0 .. Top /\ k + 1 # 0 /\ k + 1 - 1 = k
    BY Levelled DEF Levels, Top
  <2>2. Reaching(s, D[k], va, k + 1)
    BY <1>2, <2>1
  <2>3. ASSUME k # 0 PROVE Reaching(s, D[k - 1], va, k)
    <3>1. k - 1 \in Levels /\ k - 1 # LEVEL_MAX /\ k - 1 + 1 = k
      BY <2>3, Levelled DEF Levels
    <3>2. D[k - 1] = NextTable(D[k], va, k)
      BY <3>1, DescentDef, Zenon
    <3> HIDE DEF D
    <3>3. Reaching(s, NextTable(D[k], va, k), va, k)
      BY <2>2, <2>3, NextTableGood
    <3> QED BY <3>2, <3>3
  <2> QED BY <2>1, <2>3
<1>3. 1 \in T
  <2>1. \A k \in Levels : k + 1 \in T => k \in T
    BY <1>2
  <2>2. 1 \in 0 .. Top
    BY Levelled
  <2> HIDE DEF T
  <2> QED BY <1>1, <2>1, <2>2, Downwards
<1>4. Reaching(s, D[0], va, 1)
  BY <1>3
<1> QED
  BY <1>4, DescentDef, Zenon
-----------------------------------------------------------------------------
(* map_region, page by page.                                               *)
Mapping(va, pa, n, read, room) ==
  LET loop[i \in 0 .. n] ==
        IF i = 0 THEN [t |-> tables, room |-> room, l4 |-> 0, ok |-> TRUE]
        ELSE MapPage(loop[i - 1], va, pa, i, read)
  IN  loop

Looped(M, va, pa, n, read, room) ==
  /\ M[0] = [t |-> tables, room |-> room, l4 |-> 0, ok |-> TRUE]
  /\ \A i \in 1 .. n : M[i] = MapPage(M[i - 1], va, pa, i, read)
  /\ MapRegion(va, pa, n, read, room) = M[n]

LEMMA MappingDef ==
  ASSUME NEW va, NEW pa, NEW n \in Nat, NEW read, NEW room
  PROVE  Looped(Mapping(va, pa, n, read, room), va, pa, n, read, room)
<1> DEFINE First == [t |-> tables, room |-> room, l4 |-> 0, ok |-> TRUE]
           E(h, i) == IF i = 0 THEN First ELSE MapPage(h[i - 1], va, pa, i, read)
           Is(h, j) == h = [i \in 0 .. j |-> E(h, i)]
           T == {j \in Nat : \E h : Is(h, j)}
<1>1. 0 \in T
  <2> DEFINE h == [i \in 0 .. 0 |-> First]
  <2> HIDE DEF First
  <2>1. Is(h, 0)
    OBVIOUS
  <2> HIDE DEF Is, h
  <2> QED BY <2>1
<1>2. ASSUME NEW j \in Nat, j \in T PROVE j + 1 \in T
  <2>1. PICK h : Is(h, j)
    BY <1>2
  <2> HIDE DEF First
  <2> DEFINE g == [i \in 0 .. j + 1 |-> IF i <= j THEN h[i] ELSE MapPage(h[j], va, pa, (j + 1), read)]
  <2>2. \A i \in 0 .. j + 1 : g[i] = E(g, i)
    <3> SUFFICES ASSUME NEW i \in 0 .. j + 1 PROVE g[i] = E(g, i)
      OBVIOUS
    <3>1. CASE i = j + 1
      <4>1. ~ (i <= j) /\ i # 0 /\ i - 1 = j /\ j \in 0 .. j + 1 /\ j <= j
        BY <3>1
      <4>2. g[i] = MapPage(h[j], va, pa, (j + 1), read) /\ g[j] = h[j]
        BY <3>1, <4>1
      <4> HIDE DEF g
      <4> QED BY <3>1, <4>1, <4>2
    <3>2. CASE i \in 0 .. j
      <4>1. h[i] = E(h, i)
        BY <2>1, <3>2
      <4>2. g[i] = h[i] /\ (i # 0 => g[i - 1] = h[i - 1])
        BY <3>2
      <4> HIDE DEF g
      <4> QED BY <4>1, <4>2
    <3> QED BY <3>1, <3>2
  <2>3. g = [i \in 0 .. j + 1 |-> g[i]]
    OBVIOUS
  <2> HIDE DEF g
  <2>4. Is(g, j + 1)
    BY <2>2, <2>3, Zenon
  <2>5. j + 1 \in Nat
    OBVIOUS
  <2> HIDE DEF Is
  <2> QED BY <2>4, <2>5
<1>3. n \in T
  <2>1. \A j \in Nat : j \in T => j + 1 \in T
    BY <1>2, Zenon
  <2> HIDE DEF T
  <2> QED BY <1>1, <2>1, Induction
<1>4. \E h : Is(h, n)
  BY <1>3
<1> DEFINE M == Mapping(va, pa, n, read, room)
<1>5. Is(M, n)
  BY <1>4, Zenon DEF Mapping
<1>6. M[0] = First /\ \A i \in 1 .. n : M[i] = MapPage(M[i - 1], va, pa, i, read)
  <2>1. \A i \in 0 .. n : M[i] = E(M, i)
    BY <1>5, Zenon
  <2>2. 0 \in 0 .. n /\ \A i \in 1 .. n : i \in 0 .. n /\ i # 0
    OBVIOUS
  <2> HIDE DEF M, First
  <2> QED BY <2>1, <2>2
<1>7. MapRegion(va, pa, n, read, room) = M[n]
  BY DEF MapRegion, Mapping
<1> HIDE DEF M
<1>8. Looped(M, va, pa, n, read, room)
  BY <1>6, <1>7 DEF Looped
<1> QED
  BY <1>8 DEF M

LEMMA UpOne == \A p \in Nat : Up(p, 1) = p \div Fan
<1>1. PICK F \in Nat : F = Fan
  BY Levelled
<1>2. Span[0 + 1] = Fan * Span[0] /\ Span[0] = 1
  BY SpanStep, Levelled
<1>3. Span[1] = Fan
  BY <1>1, <1>2
<1> QED
  BY <1>3 DEF Up

(* A page whose index is not 0 has its leaf table from the page before.    *)
LEMMA LeafBefore ==
  ASSUME NEW p \in Nat, p % Fan # 0
  PROVE  p - 1 \in Nat /\ Up(p - 1, 1) = Up(p, 1)
<1>1. PICK F \in Nat : F = Fan /\ F >= 1
  BY Levelled
<1>2. PICK e \in Nat, r \in Nat : e = p \div F /\ r = p % F /\ r < F /\ p = F * e + r
  BY <1>1, Division
<1>3. r - 1 \in 0 .. (F - 1)
  BY <1>1, <1>2
<1>4. p - 1 = F * e + (r - 1)
  BY <1>2, F * e \in Nat
<1>5. PICK a : a = p - 1
  OBVIOUS
<1>6. PICK b \in 0 .. (F - 1) : b = r - 1
  BY <1>3
<1>7. a = F * e + b
  BY <1>4, <1>5, <1>6
<1>8. a \in Nat /\ a \div F = e
  BY <1>1, <1>7, Quotient
<1> QED
  BY <1>1, <1>2, <1>5, <1>8, UpOne

(* What the page loop has done after page i of the range: a first part of  *)
(* k pages has its translations, and no other translation has changed.     *)
Mapped(t, va, pa, read, k) ==
  \A q \in Pages : At(t, q, 0) = IF va <= q /\ q < va + k
                                 THEN (IF read THEN pa + (q - va) ELSE 0) ELSE At(tables, q, 0)

Backed(t, va, n) == \A q \in Pages : va <= q /\ q < va + n => At(t, q, 1) # 0

MapInv(s, va, pa, read, i) ==
  /\ Good(s.t) /\ s.room \in Nat /\ s.ok \in BOOLEAN
  /\ \E k \in 0 .. i : (s.ok => k = i) /\ Mapped(s.t, va, pa, read, k)
  /\ \A q \in Pages : At(tables, q, 1) # 0 => At(s.t, q, 1) # 0
  /\ s.ok => Backed(s.t, va, i)
  /\ s.ok /\ i # 0 => s.l4 # 0 /\ s.l4 = At(s.t, va + i - 1, 1)

LEMMA LeafFound ==
  ASSUME NEW s, NEW va \in Pages, NEW pa \in Nat, NEW i \in Nat, i >= 1, NEW read \in BOOLEAN,
         NEW p \in Pages, p = va + i - 1, MapInv(s, va, pa, read, i - 1), s.ok, NEW d,
         d = IF NewLeaf(va, i) THEN lookup_l4pagetable(s, p) ELSE s
  PROVE  Reaching(s, d, p, 1)
<1>1. Good(s.t) /\ s.room \in Nat
  BY DEF MapInv
<1>2. CASE NewLeaf(va, i)
  <2>1. d = lookup_l4pagetable(s, p)
    BY <1>2
  <2> QED BY <1>1, <2>1, LookupGood
<1>3. CASE ~ NewLeaf(va, i)
  <2>1. d = s
    BY <1>3
  <2>2. i # 1 /\ p % Fan # 0
    BY <1>3 DEF NewLeaf
  <2>3. p \in Nat /\ va \in Nat
    BY UpTop
  <2>4. p - 1 \in Nat /\ Up(p - 1, 1) = Up(p, 1)
    BY <2>2, <2>3, LeafBefore
  <2>5. i - 1 # 0 /\ va + (i - 1) - 1 = p - 1
    BY <2>2, <2>3
  <2>6. s.l4 = At(s.t, p - 1, 1)
    BY <2>5 DEF MapInv
  <2>7. 1 \in 0 .. Top
    BY Levelled
  <2>8. At(s.t, p - 1, 1) = At(s.t, p, 1)
    BY <2>3, <2>4, <2>7, AtSame
  <2>9. Keeps(s.t, s.t)
    BY DEF Keeps
  <2> QED BY <1>1, <2>1, <2>6, <2>8, <2>9 DEF Reaching
<1> QED
  BY <1>2, <1>3

LEMMA MapPageGood ==
  ASSUME NEW s, NEW va \in Pages, NEW pa \in Nat, NEW i \in Nat, i >= 1, NEW read \in BOOLEAN,
         va + i - 1 \in Pages, MapInv(s, va, pa, read, i - 1)
  PROVE  MapInv(MapPage(s, va, pa, i, read), va, pa, read, i)
<1> DEFINE o == MapPage(s, va, pa, i, read)
<1>1. PICK p \in Pages : p = va + i - 1
  OBVIOUS
<1>2. PICK d : d = IF NewLeaf(va, i) THEN lookup_l4pagetable(s, p) ELSE s
  OBVIOUS
<1>3. va \in Nat /\ p \in Nat /\ 0 \in 0 .. Top /\ 1 \in 0 .. Top
  BY UpTop, Levelled
<1>4. CASE ~ s.ok
  <2>1. o = s
    BY <1>4 DEF MapPage
  <2>2. 0 .. (i - 1) \subseteq 0 .. i
    OBVIOUS
  <2>3. \E k \in 0 .. i : Mapped(s.t, va, pa, read, k)
    BY <2>2 DEF MapInv
  <2>4. MapInv(s, va, pa, read, i)
    BY <1>4, <2>3 DEF MapInv
  <2> QED BY <2>1, <2>4
<1>5. CASE s.ok
  <2>1. Reaching(s, d, p, 1)
    BY <1>1, <1>2, <1>5, LeafFound
  <2>2. Good(d.t) /\ d.room \in Nat /\ Keeps(s.t, d.t) /\ (d.l4 # 0 => d.l4 = At(d.t, p, 1))
    BY <2>1 DEF Reaching
  <2>3. Mapped(s.t, va, pa, read, i - 1) /\ Backed(s.t, va, i - 1)
    BY <1>5 DEF MapInv
  <2>4. Mapped(d.t, va, pa, read, i - 1)
    BY <2>2, <2>3 DEF Mapped, Keeps
  <2>5. Backed(d.t, va, i - 1)
    BY <1>3, <2>2, <2>3 DEF Backed, Keeps
  <2>6. \A q \in Pages : At(tables, q, 1) # 0 => At(d.t, q, 1) # 0
    BY <1>3, <2>2, Zenon DEF Keeps, MapInv
  <2>7. CASE d.l4 = 0
    <3>1. o = [t |-> d.t, room |-> d.room, l4 |-> 0, ok |-> FALSE]
      BY <1>1, <1>2, <1>5, <2>7 DEF MapPage
    <3>2. o.t = d.t /\ o.room = d.room /\ o.ok = FALSE
      BY <3>1
    <3>3. i - 1 \in 0 .. i
      OBVIOUS
    <3> HIDE DEF o
    <3>4. MapInv(o, va, pa, read, i)
      BY <3>2, <3>3, <2>2, <2>4, <2>6, Zenon DEF MapInv
    <3> QED BY <3>4 DEF o
  <2>8. CASE d.l4 # 0
    <3>1. PICK v \in Nat : v = IF read THEN pa + i - 1 ELSE 0
      OBVIOUS
    <3>2. PICK u : u = SetPte(d.t, d.l4, pageindex(p, 0), v)
      OBVIOUS
    <3>3. o = [t |-> u, room |-> d.room, l4 |-> d.l4, ok |-> TRUE]
      BY <1>1, <1>2, <1>5, <2>8, <3>1, <3>2 DEF MapPage
    <3>4. o.t = u /\ o.room = d.room /\ o.l4 = d.l4 /\ o.ok = TRUE
      BY <3>3
    <3> HIDE DEF o
    <3>5. At(d.t, p, 1) # 0 /\ u = SetPte(d.t, At(d.t, p, 1), pageindex(p, 0), v)
      BY <2>2, <2>8, <3>2
    <3>6. Good(u) /\ \A q \in Pages, k \in 0 .. Top :
                       At(u, q, k) = IF k = 0 /\ q = p THEN v ELSE At(d.t, q, k)
      BY <2>2, <3>5, LeafGood
    <3>7. \A q \in Pages : At(u, q, 0) = IF q = p THEN v ELSE At(d.t, q, 0)
      BY <1>3, <3>6
    <3>8. \A q \in Pages : At(u, q, 1) = At(d.t, q, 1)
      BY <1>3, <3>6
    <3>9. \A q \in Pages : q \in Nat
      BY UpTop
    <3>10. Mapped(u, va, pa, read, i)
      <4> SUFFICES ASSUME NEW q \in Pages
                   PROVE  At(u, q, 0) = IF va <= q /\ q < va + i
                                        THEN (IF read THEN pa + (q - va) ELSE 0) ELSE At(tables, q, 0)
        BY DEF Mapped
      <4>1. At(d.t, q, 0) = IF va <= q /\ q < va + (i - 1)
                            THEN (IF read THEN pa + (q - va) ELSE 0) ELSE At(tables, q, 0)
        BY <2>4 DEF Mapped
      <4>2. q \in Nat
        BY <3>9
      <4>3. CASE q = p
        <5>1. va <= q /\ q < va + i /\ pa + (q - va) = pa + i - 1
          BY <1>1, <1>3, <4>3
        <5> QED BY <3>7, <3>1, <4>3, <5>1
      <4>4. CASE q # p
        <5>1. (va <= q /\ q < va + i) <=> (va <= q /\ q < va + (i - 1))
          BY <1>1, <1>3, <4>2, <4>4
        <5> QED BY <3>7, <4>1, <4>4, <5>1
      <4> QED BY <4>3, <4>4
    <3>11. Backed(u, va, i)
      <4> SUFFICES ASSUME NEW q \in Pages, va <= q, q < va + i PROVE At(u, q, 1) # 0
        BY DEF Backed
      <4>1. q = p \/ q < va + (i - 1)
        BY <1>1, <1>3, <3>9
      <4> QED BY <4>1, <3>5, <3>8, <2>5 DEF Backed
    <3>12. At(u, p, 1) = d.l4
      BY <2>2, <2>8, <3>8
    <3>13. i \in 0 .. i /\ va + i - 1 = p
      BY <1>1
    <3>14. \A q \in Pages : At(tables, q, 1) # 0 => At(u, q, 1) # 0
      BY <2>6, <3>8
    <3>15. MapInv(o, va, pa, read, i)
      BY <3>4, <3>6, <3>10, <3>11, <3>12, <3>13, <3>14, <2>2, <2>8, Zenon DEF MapInv
    <3> QED BY <3>15 DEF o
  <2> QED BY <2>7, <2>8
<1> QED
  BY <1>4, <1>5

(* map_region maps a first part of its range, all of it unless it reports  *)
(* a failure, and changes no other translation.                            *)
LEMMA MapRegionGood ==
  ASSUME Good(tables), NEW va \in Pages, NEW pa \in Nat, NEW n \in Nat, NEW read \in BOOLEAN,
         NEW room \in Nat, n = 0 \/ va + n - 1 \in Pages
  PROVE  MapInv(MapRegion(va, pa, n, read, room), va, pa, read, n)
<1>6. PICK M : M = Mapping(va, pa, n, read, room)
  OBVIOUS
<1> DEFINE T == {i \in Nat : MapInv(M[i], va, pa, read, i)}
<1>1. va \in Nat /\ \A q \in Pages : q \in Nat
  BY UpTop
<1>0. /\ M[0] = [t |-> tables, room |-> room, l4 |-> 0, ok |-> TRUE]
      /\ \A i \in 1 .. n : M[i] = MapPage(M[i - 1], va, pa, i, read)
      /\ MapRegion(va, pa, n, read, room) = M[n]
  <2>1. Looped(M, va, pa, n, read, room)
    BY <1>6, MappingDef
  <2> QED BY <2>1 DEF Looped
<1>2. 0 \in T
  <2>1. M[0] = [t |-> tables, room |-> room, l4 |-> 0, ok |-> TRUE]
    BY <1>0
  <2>2. M[0].t = tables /\ M[0].room = room /\ M[0].ok = TRUE
    BY <2>1
  <2>3. Mapped(tables, va, pa, read, 0) /\ Backed(tables, va, 0)
    BY <1>1 DEF Mapped, Backed
  <2>4. 0 \in 0 .. 0
    OBVIOUS
  <2>5. MapInv(M[0], va, pa, read, 0)
    BY <2>2, <2>3, <2>4, Zenon DEF MapInv
  <2> QED BY <2>5
<1>3. ASSUME NEW i \in Nat, i < n, i \in T PROVE i + 1 \in T
  <2>1. i + 1 \in 1 .. n /\ i + 1 >= 1 /\ i + 1 \in Nat /\ i + 1 - 1 = i
    BY <1>3
  <2>2. M[i + 1] = MapPage(M[i], va, pa, i + 1, read)
    BY <2>1, <1>0
  <2>3. MapInv(M[i], va, pa, read, i)
    BY <1>3
  <2>4. va + (i + 1) - 1 \in Pages
    <3>1. va + (i + 1) - 1 \in Nat /\ va + (i + 1) - 1 <= va + n - 1 /\ va + n - 1 \in Pages
      BY <1>1, <1>3
    <3>2. \A a, b \in Int : b \in Pages /\ 0 <= a /\ a <= b => a \in Pages
      BY Levelled, SpanType DEF Pages, Top
    <3>3. va + (i + 1) - 1 \in Int /\ va + n - 1 \in Int /\ 0 <= va + (i + 1) - 1
      BY <1>1, <1>3
    <3> QED BY <3>1, <3>2, <3>3
  <2>5. MapInv(M[i], va, pa, read, i + 1 - 1)
    BY <2>1, <2>3
  <2>6. PICK j \in Nat : j = i + 1
    OBVIOUS
  <2>7. MapInv(MapPage(M[i], va, pa, j, read), va, pa, read, j)
    BY <2>1, <2>4, <2>5, <2>6, MapPageGood
  <2> QED BY <2>1, <2>2, <2>6, <2>7
<1>4. n \in T
  <2>1. \A i \in Nat : i < n /\ i \in T => i + 1 \in T
    BY <1>3
  <2>2. 0 .. n \subseteq T
    <3> HIDE DEF T
    <3> QED BY <1>2, <2>1, BoundedInduction
  <2> QED BY <2>2
<1>5. MapInv(M[n], va, pa, read, n)
  BY <1>4
<1> QED
  BY <1>0, <1>5, Zenon
-----------------------------------------------------------------------------
(* Pagetable.walk.  Step is one turn of its loop, f what the next turn     *)
(* gives for each table.                                                   *)
StepAmd(t, va, e, i, f) ==
  [pt \in DOMAIN t |->
     LET pte == t[pt][pageindex(va, i)]
     IN  IF pte = 0 \/ i = 0 THEN [level |-> i, tab |-> pt, to |-> pte, end |-> i]
         ELSE IF i = e THEN [level |-> i, tab |-> pt, to |-> pte, end |-> i - 1]
         ELSE f[pte]]

StepArm(t, va, e, i, f) ==
  [pt \in DOMAIN t |->
     LET pte == t[pt][pageindex(va, i)]
     IN  IF i = e THEN [level |-> i, tab |-> pt, to |-> pte, end |-> i]
         ELSE IF pte = 0 THEN [level |-> i, tab |-> 0, to |-> 0, end |-> i]
         ELSE f[pte]]

Step(t, va, e, i, f) ==
  IF arch = "amd64" THEN StepAmd(t, va, e, i, f) ELSE StepArm(t, va, e, i, f)

LEMMA LastStep ==
  ASSUME NEW t, NEW va, NEW e
  PROVE  \A f, g : Step(t, va, e, e, f) = Step(t, va, e, e, g)
<1>1. \A f, g : StepAmd(t, va, e, e, f) = StepAmd(t, va, e, e, g)
  BY Zenon DEF StepAmd
<1>2. \A f, g : StepArm(t, va, e, e, f) = StepArm(t, va, e, e, g)
  BY Zenon DEF StepArm
<1> QED
  BY <1>1, <1>2, Zenon DEF Step

Walking(h, t, va, e) == h = [i \in e .. LEVEL_MAX |-> Step(t, va, e, i, h[i - 1])]

LEMMA WalkingExists ==
  ASSUME NEW t, NEW va, NEW e \in Levels
  PROVE  \E h : Walking(h, t, va, e)
<1> DEFINE Is(h, j) == h = [i \in e .. e + j |-> Step(t, va, e, i, h[i - 1])]
           T == {j \in Nat : \E h : Is(h, j)}
<1>0. e \in Nat /\ e <= LEVEL_MAX /\ LEVEL_MAX \in Nat
  BY Levelled DEF Levels
<1>1. 0 \in T
  <2>1. PICK x : x = Step(t, va, e, e, 0)
    OBVIOUS
  <2> DEFINE h == [i \in e .. e + 0 |-> x]
  <2>2. \A i \in e .. e + 0 : i = e
    BY <1>0
  <2>3. \A i \in e .. e + 0 : x = Step(t, va, e, i, h[i - 1])
    <3> SUFFICES ASSUME NEW i \in e .. e + 0 PROVE x = Step(t, va, e, i, h[i - 1])
      BY Zenon
    <3>1. PICK f : f = h[i - 1]
      OBVIOUS
    <3>2. Step(t, va, e, e, 0) = Step(t, va, e, e, f)
      BY LastStep
    <3> HIDE DEF h
    <3> QED BY <2>1, <2>2, <3>1, <3>2, Zenon
  <2>4. h = [i \in e .. e + 0 |-> x]
    OBVIOUS
  <2> HIDE DEF h
  <2>5. Is(h, 0)
    BY <2>3, <2>4, Zenon
  <2> HIDE DEF Is
  <2> QED BY <2>5
<1>2. ASSUME NEW j \in Nat, j \in T PROVE j + 1 \in T
  <2>1. PICK h : Is(h, j)
    BY <1>2
  <2>2. PICK x : x = Step(t, va, e, e + (j + 1), h[e + j])
    OBVIOUS
  <2> DEFINE g == [i \in e .. e + (j + 1) |-> IF i <= e + j THEN h[i] ELSE x]
  <2>3. \A i \in e .. e + (j + 1) : g[i] = Step(t, va, e, i, g[i - 1])
    <3> SUFFICES ASSUME NEW i \in e .. e + (j + 1) PROVE g[i] = Step(t, va, e, i, g[i - 1])
      OBVIOUS
    <3>1. CASE i = e + (j + 1)
      <4>1. ~ (i <= e + j) /\ i - 1 = e + j /\ e + j \in e .. e + (j + 1) /\ e + j <= e + j
        BY <3>1, <1>0
      <4>2. g[i] = x /\ g[i - 1] = h[e + j]
        BY <4>1
      <4> HIDE DEF g
      <4> QED BY <2>2, <3>1, <4>2, Zenon
    <3>2. CASE i # e + (j + 1)
      <4>1. i \in e .. e + j /\ i <= e + j
        BY <3>2, <1>0
      <4>2. h[i] = Step(t, va, e, i, h[i - 1])
        BY <2>1, <4>1, Zenon
      <4>3. g[i] = h[i]
        BY <4>1
      <4>4. i # e => g[i - 1] = h[i - 1]
        BY <4>1, <1>0
      <4> HIDE DEF g
      <4>5. CASE i = e
        <5>1. PICK a, b : a = g[i - 1] /\ b = h[i - 1]
          OBVIOUS
        <5>2. Step(t, va, e, e, a) = Step(t, va, e, e, b)
          BY LastStep
        <5> QED BY <4>5, <4>2, <4>3, <5>1, <5>2, Zenon
      <4>6. CASE i # e
        BY <4>6, <4>2, <4>3, <4>4, Zenon
      <4> QED BY <4>5, <4>6
    <3> QED BY <3>1, <3>2
  <2>4. g = [i \in e .. e + (j + 1) |-> g[i]]
    OBVIOUS
  <2> HIDE DEF g
  <2>5. Is(g, j + 1)
    BY <2>3, <2>4
  <2>6. j + 1 \in Nat
    OBVIOUS
  <2> HIDE DEF Is
  <2> QED BY <2>5, <2>6
<1>3. LEVEL_MAX - e \in T
  <2>1. \A j \in Nat : j \in T => j + 1 \in T
    BY <1>2
  <2>2. LEVEL_MAX - e \in Nat
    BY <1>0
  <2> HIDE DEF T
  <2> QED BY <1>1, <2>1, <2>2, Induction
<1>4. PICK h : Is(h, LEVEL_MAX - e)
  BY <1>3
<1>5. e + (LEVEL_MAX - e) = LEVEL_MAX
  BY <1>0
<1>6. Walking(h, t, va, e)
  BY <1>4, <1>5, Zenon DEF Walking
<1> QED
  BY <1>6

Walk(t, va, e) == CHOOSE h : Walking(h, t, va, e)

LEMMA WalkDef ==
  ASSUME NEW t, NEW va, NEW e \in Levels
  PROVE  /\ \A i \in e .. LEVEL_MAX : Walk(t, va, e)[i] = Step(t, va, e, i, Walk(t, va, e)[i - 1])
         /\ walk(t, va, e) = Walk(t, va, e)[LEVEL_MAX][Root]
<1>1. PICK h : h = Walk(t, va, e)
  OBVIOUS
<1>2. Walking(h, t, va, e)
  BY <1>1, WalkingExists DEF Walk
<1>3. \A i \in e .. LEVEL_MAX : h[i] = Step(t, va, e, i, h[i - 1])
  BY <1>2, Zenon DEF Walking
<1>4. CASE arch = "amd64"
  <2>1. walk(t, va, e) = Walk(t, va, e)[LEVEL_MAX][Root]
    BY <1>4, Zenon DEF walk, walk_amd64, Walk, Walking, Step, StepAmd
  <2> QED BY <1>1, <1>3, <2>1, Zenon
<1>5. CASE arch # "amd64"
  <2>1. walk(t, va, e) = Walk(t, va, e)[LEVEL_MAX][Root]
    BY <1>5, Zenon DEF walk, walk_arm64, Walk, Walking, Step, StepArm
  <2> QED BY <1>1, <1>3, <2>1, Zenon
<1> QED
  BY <1>4, <1>5

(* The walk ends at level i, the first from the top that has no entry, or  *)
(* at endlevel if all above have one.                                      *)
StopsAt(t, va, e, i) ==
  /\ \A j \in 0 .. Top : j > i => At(t, va, j) # 0
  /\ i = e \/ At(t, va, i) = 0

Stopped(w, t, va, e, i) ==
  /\ w.level = i /\ w.to = At(t, va, i)
  /\ i = e => w.tab = At(t, va, i + 1)
  /\ At(t, va, i) = 0 \/ i = 0 => w.end = i

LEMMA StepDown ==
  ASSUME NEW t, Good(t), NEW va \in Pages, NEW e \in Levels, NEW i \in Levels, i # e, i # 0,
         At(t, va, i + 1) # 0, At(t, va, i) # 0, NEW f
  PROVE  Step(t, va, e, i, f)[At(t, va, i + 1)] = f[At(t, va, i)]
<1>1. PICK x \in DOMAIN t : x = At(t, va, i + 1)
  <2>1. i + 1 \in 1 .. Top
    BY Levelled DEF Levels, Top
  <2> QED BY <2>1 DEF Good, Closed
<1>2. t[x][pageindex(va, i)] = At(t, va, i)
  BY <1>1, AtDef
<1>3. StepAmd(t, va, e, i, f)[x] = f[At(t, va, i)]
  BY <1>2, Zenon DEF StepAmd
<1>4. StepArm(t, va, e, i, f)[x] = f[At(t, va, i)]
  BY <1>2, Zenon DEF StepArm
<1> QED
  BY <1>1, <1>3, <1>4, Zenon DEF Step

LEMMA StepStops ==
  ASSUME NEW t, Good(t), NEW va \in Pages, NEW e \in Levels, NEW i \in Levels,
         At(t, va, i + 1) # 0, i = e \/ At(t, va, i) = 0, NEW f
  PROVE  Stopped(Step(t, va, e, i, f)[At(t, va, i + 1)], t, va, e, i)
<1>1. PICK x \in DOMAIN t : x = At(t, va, i + 1)
  <2>1. i + 1 \in 1 .. Top
    BY Levelled DEF Levels, Top
  <2> QED BY <2>1 DEF Good, Closed
<1>2. PICK y : y = At(t, va, i) /\ y = t[x][pageindex(va, i)]
  BY <1>1, AtDef
<1>3. PICK w : w = Step(t, va, e, i, f)[x]
  OBVIOUS
<1>4. CASE arch = "amd64"
  <2>1. w = IF y = 0 \/ i = 0 THEN [level |-> i, tab |-> x, to |-> y, end |-> i]
            ELSE [level |-> i, tab |-> x, to |-> y, end |-> i - 1]
    <3>1. w = StepAmd(t, va, e, i, f)[x]
      BY <1>3, <1>4 DEF Step
    <3>2. y # 0 => i = e
      BY <1>2
    <3> QED BY <3>1, <3>2, <1>2, Zenon DEF StepAmd
  <2>2. w.level = i /\ w.to = y /\ w.tab = x /\ (y = 0 \/ i = 0 => w.end = i)
    BY <2>1
  <2> QED BY <1>1, <1>2, <1>3, <2>2, Zenon DEF Stopped
<1>5. CASE arch # "amd64"
  <2>1. w = IF i = e THEN [level |-> i, tab |-> x, to |-> y, end |-> i]
            ELSE [level |-> i, tab |-> 0, to |-> 0, end |-> i]
    <3>1. w = StepArm(t, va, e, i, f)[x]
      BY <1>3, <1>5 DEF Step
    <3>2. i # e => y = 0
      BY <1>2
    <3> QED BY <3>1, <3>2, <1>2, Zenon DEF StepArm
  <2>2. w.level = i /\ w.to = y /\ (i = e => w.tab = x) /\ w.end = i
    BY <2>1, <1>2
  <2> QED BY <1>1, <1>2, <1>3, <2>2, Zenon DEF Stopped
<1> QED
  BY <1>4, <1>5

LEMMA WalkStops ==
  ASSUME NEW t, Good(t), NEW va \in Pages, NEW e \in Levels, NEW i \in Levels, i >= e,
         StopsAt(t, va, e, i)
  PROVE  Stopped(walk(t, va, e), t, va, e, i)
<1> DEFINE h == Walk(t, va, e)
           T == {k \in 0 .. Top : k > i => h[k - 1][At(t, va, k)] = walk(t, va, e)}
<1>0. e \in Nat /\ i \in Nat /\ i <= LEVEL_MAX /\ LEVEL_MAX \in Nat /\ Top = LEVEL_MAX + 1
  BY Levelled DEF Levels, Top
<1>10. /\ \A k \in e .. LEVEL_MAX : h[k] = Step(t, va, e, k, h[k - 1])
      /\ walk(t, va, e) = h[LEVEL_MAX][Root]
  BY WalkDef
<1> HIDE DEF h
<1>1. Top \in T
  <2>1. At(t, va, Top) = Root
    BY AtDef
  <2>2. Top \in 0 .. Top /\ Top - 1 = LEVEL_MAX
    BY <1>0
  <2> QED BY <1>10, <2>1, <2>2
<1>2. ASSUME NEW k \in Levels, k + 1 \in T PROVE k \in T
  <2>1. k \in 0 .. Top /\ k + 1 \in 0 .. Top /\ k + 1 - 1 = k /\ k \in Nat
    BY <1>0 DEF Levels
  <2>2. ASSUME k > i PROVE h[k - 1][At(t, va, k)] = walk(t, va, e)
    <3>1. k \in e .. LEVEL_MAX /\ k # e /\ k # 0 /\ k + 1 > i
      BY <2>2, <1>0 DEF Levels
    <3>2. At(t, va, k) # 0 /\ At(t, va, k + 1) # 0
      BY <2>1, <2>2, <3>1 DEF StopsAt
    <3>3. h[k][At(t, va, k + 1)] = walk(t, va, e)
      BY <1>2, <2>1, <3>1
    <3>4. PICK f : f = h[k - 1]
      OBVIOUS
    <3>5. Step(t, va, e, k, f)[At(t, va, k + 1)] = f[At(t, va, k)]
      BY <3>1, <3>2, StepDown
    <3>6. h[k] = Step(t, va, e, k, h[k - 1])
      BY <1>10, <3>1
    <3> QED BY <3>3, <3>4, <3>5, <3>6, Zenon
  <2> QED BY <2>1, <2>2
<1>3. i + 1 \in T
  <2>1. \A k \in Levels : k + 1 \in T => k \in T
    BY <1>2
  <2>2. i + 1 \in 0 .. Top
    BY <1>0
  <2> HIDE DEF T
  <2> QED BY <1>1, <2>1, <2>2, Downwards
<1>4. h[i][At(t, va, i + 1)] = walk(t, va, e)
  BY <1>0, <1>3
<1>5. i \in e .. LEVEL_MAX /\ i + 1 \in 0 .. Top /\ i + 1 > i
  BY <1>0
<1>6. At(t, va, i + 1) # 0 /\ (i = e \/ At(t, va, i) = 0)
  BY <1>5 DEF StopsAt
<1>7. PICK f : f = h[i - 1]
  OBVIOUS
<1>8. h[i] = Step(t, va, e, i, f)
  BY <1>10, <1>5, <1>7
<1>9. Stopped(Step(t, va, e, i, f)[At(t, va, i + 1)], t, va, e, i)
  BY <1>6, StepStops
<1> QED
  BY <1>4, <1>8, <1>9, Zenon

(* There is such a level.                                                  *)
LEMMA SomeStop ==
  ASSUME NEW t, NEW va, NEW e \in Levels
  PROVE  \E i \in Levels : i >= e /\ StopsAt(t, va, e, i)
<1> DEFINE T == {k \in 0 .. Top : \/ \A j \in 0 .. Top : j >= k => At(t, va, j) # 0
                                  \/ k < e
                                  \/ \E i \in Levels : i >= e /\ StopsAt(t, va, e, i)}
<1>0. /\ e \in Nat /\ LEVEL_MAX \in Nat /\ Top = LEVEL_MAX + 1 /\ e \in 0 .. Top
      /\ \A k \in Levels : k \in Nat /\ k \in 0 .. Top
  BY Levelled DEF Levels, Top
<1>1. Top \in T
  <2>1. At(t, va, Top) # 0
    BY AtDef DEF Root
  <2>2. \A j \in 0 .. Top : j >= Top => j = Top
    BY <1>0
  <2>3. Top \in 0 .. Top
    BY <1>0
  <2> QED BY <2>1, <2>2, <2>3
<1>2. ASSUME NEW k \in Levels, k + 1 \in T PROVE k \in T
  <2>1. k \in Nat /\ k \in 0 .. Top
    BY <1>0
  <2>2. ASSUME \A j \in 0 .. Top : j >= k + 1 => At(t, va, j) # 0, k >= e, At(t, va, k) = 0
        PROVE  k \in T
    <3>1. \A j \in 0 .. Top : j > k => j >= k + 1
      BY <2>1
    <3>2. StopsAt(t, va, e, k)
      BY <2>2, <3>1 DEF StopsAt
    <3> QED BY <2>1, <2>2, <3>2
  <2>3. ASSUME \A j \in 0 .. Top : j >= k + 1 => At(t, va, j) # 0, At(t, va, k) # 0
        PROVE  k \in T
    <3>1. \A j \in 0 .. Top : j >= k => j >= k + 1 \/ j = k
      BY <2>1
    <3>2. \A j \in 0 .. Top : j >= k => At(t, va, j) # 0
      BY <2>3, <3>1
    <3> QED BY <2>1, <3>2
  <2>4. ASSUME k < e PROVE k \in T
    BY <2>1, <2>4
  <2>5. ASSUME \E i \in Levels : i >= e /\ StopsAt(t, va, e, i) PROVE k \in T
    BY <2>1, <2>5
  <2>6. \/ \A j \in 0 .. Top : j >= k + 1 => At(t, va, j) # 0
        \/ k + 1 < e
        \/ \E i \in Levels : i >= e /\ StopsAt(t, va, e, i)
    BY <1>2
  <2>7. (k < e \/ k >= e) /\ (k + 1 < e => k < e)
    BY <1>0, <2>1
  <2> HIDE DEF T
  <2> QED BY <2>2, <2>3, <2>4, <2>5, <2>6, <2>7
<1>3. e \in T
  <2>1. \A k \in Levels : k + 1 \in T => k \in T
    BY <1>2
  <2> HIDE DEF T
  <2> QED BY <1>0, <1>1, <2>1, Downwards
<1>4. CASE \A j \in 0 .. Top : j >= e => At(t, va, j) # 0
  <2>1. \A j \in 0 .. Top : j > e => j >= e
    BY <1>0
  <2>2. StopsAt(t, va, e, e)
    BY <1>4, <2>1 DEF StopsAt
  <2>3. e >= e
    BY <1>0
  <2> QED BY <2>2, <2>3
<1>5. ~ (e < e)
  BY <1>0
<1> QED
  BY <1>3, <1>4, <1>5

(* vm_lookup is the flat map.                                              *)
LEMMA LookupIsAt ==
  ASSUME NEW t, Good(t), NEW va \in Pages
  PROVE  vm_lookup(t, va) = At(t, va, 0)
<1>1. PICK zero \in Levels : zero = 0
  BY Levelled DEF Levels
<1>2. PICK i \in Levels : i >= zero /\ StopsAt(t, va, zero, i)
  BY SomeStop
<1>3. Stopped(walk(t, va, zero), t, va, zero, i)
  BY <1>2, WalkStops
<1>4. walk(t, va, 0).to = At(t, va, i)
  BY <1>1, <1>3 DEF Stopped
<1>5. i = 0 \/ At(t, va, i) = 0
  BY <1>1, <1>2 DEF StopsAt
<1>6. At(t, va, i) = 0 => At(t, va, 0) = 0
  <2>1. i \in 0 .. Top /\ 0 \in 0 .. Top /\ i >= 0
    BY Levelled DEF Levels, Top
  <2> QED BY <2>1, AtAbove
<1> QED
  BY <1>4, <1>5, <1>6 DEF vm_lookup
-----------------------------------------------------------------------------
(* unmap_vma, page by page.                                                *)
Clearing(va, n) ==
  LET loop[i \in 0 .. n] ==
        IF i = 0 THEN [t |-> tables, lvl |-> walk(tables, va, 0).end]
        ELSE ClearPage(loop[i - 1], va + i - 1)
  IN  loop

Unlooped(C, va, n) ==
  /\ C[0] = [t |-> tables, lvl |-> walk(tables, va, 0).end]
  /\ \A i \in 1 .. n : C[i] = ClearPage(C[i - 1], va + i - 1)
  /\ ClearRange(va, n) = C[n].t

LEMMA ClearingDef ==
  ASSUME NEW va, NEW n \in Nat
  PROVE  Unlooped(Clearing(va, n), va, n)
<1> DEFINE First == [t |-> tables, lvl |-> walk(tables, va, 0).end]
           E(h, i) == IF i = 0 THEN First ELSE ClearPage(h[i - 1], va + i - 1)
           Is(h, j) == h = [i \in 0 .. j |-> E(h, i)]
           T == {j \in Nat : \E h : Is(h, j)}
<1>1. 0 \in T
  <2> DEFINE h == [i \in 0 .. 0 |-> First]
  <2> HIDE DEF First
  <2>1. Is(h, 0)
    OBVIOUS
  <2> HIDE DEF Is, h
  <2> QED BY <2>1
<1>2. ASSUME NEW j \in Nat, j \in T PROVE j + 1 \in T
  <2>1. PICK h : Is(h, j)
    BY <1>2
  <2> HIDE DEF First
  <2> DEFINE g == [i \in 0 .. j + 1 |-> IF i <= j THEN h[i] ELSE ClearPage(h[j], va + (j + 1) - 1)]
  <2>2. \A i \in 0 .. j + 1 : g[i] = E(g, i)
    <3> SUFFICES ASSUME NEW i \in 0 .. j + 1 PROVE g[i] = E(g, i)
      OBVIOUS
    <3>1. CASE i = j + 1
      <4>1. ~ (i <= j) /\ i # 0 /\ i - 1 = j /\ j \in 0 .. j + 1 /\ j <= j
        BY <3>1
      <4>2. g[i] = ClearPage(h[j], va + (j + 1) - 1) /\ g[j] = h[j]
        BY <3>1, <4>1
      <4> HIDE DEF g
      <4> QED BY <3>1, <4>1, <4>2
    <3>2. CASE i \in 0 .. j
      <4>1. h[i] = E(h, i)
        BY <2>1, <3>2
      <4>2. g[i] = h[i] /\ (i # 0 => g[i - 1] = h[i - 1])
        BY <3>2
      <4> HIDE DEF g
      <4> QED BY <4>1, <4>2
    <3> QED BY <3>1, <3>2
  <2>3. g = [i \in 0 .. j + 1 |-> g[i]]
    OBVIOUS
  <2> HIDE DEF g
  <2>4. Is(g, j + 1)
    BY <2>2, <2>3, Zenon
  <2>5. j + 1 \in Nat
    OBVIOUS
  <2> HIDE DEF Is
  <2> QED BY <2>4, <2>5
<1>3. n \in T
  <2>1. \A j \in Nat : j \in T => j + 1 \in T
    BY <1>2, Zenon
  <2> HIDE DEF T
  <2> QED BY <1>1, <2>1, Induction
<1>4. \E h : Is(h, n)
  BY <1>3
<1> DEFINE C == Clearing(va, n)
<1>5. Is(C, n)
  BY <1>4, Zenon DEF Clearing
<1>6. C[0] = First /\ \A i \in 1 .. n : C[i] = ClearPage(C[i - 1], va + i - 1)
  <2>1. \A i \in 0 .. n : C[i] = E(C, i)
    BY <1>5
  <2>2. 0 \in 0 .. n /\ \A i \in 1 .. n : i \in 0 .. n /\ i # 0
    OBVIOUS
  <2> HIDE DEF C, First
  <2> QED BY <2>1, <2>2
<1>7. ClearRange(va, n) = C[n].t
  BY DEF ClearRange, Clearing
<1> HIDE DEF C
<1>8. Unlooped(C, va, n)
  BY <1>6, <1>7 DEF Unlooped
<1> QED
  BY <1>8 DEF C

(* The pages of a range before its page i are clear, no other translation  *)
(* has changed, and every leaf table is still there.                       *)
Cleared(t, va, i) ==
  /\ Good(t)
  /\ \A q \in Pages : At(t, q, 0) = IF va <= q /\ q < va + i THEN 0 ELSE At(tables, q, 0)
  /\ \A q \in Pages : At(t, q, 1) = At(tables, q, 1)

LEMMA ClearPageGood ==
  ASSUME NEW s, NEW va \in Nat, NEW i \in Nat, NEW p \in Pages, p = va + i,
         Cleared(s.t, va, i), s.lvl = 0, At(tables, p, 1) # 0
  PROVE  Cleared(ClearPage(s, p).t, va, i + 1) /\ ClearPage(s, p).lvl = 0
<1> DEFINE o == ClearPage(s, p)
<1>1. PICK zero \in Levels : zero = 0
  BY Levelled DEF Levels
<1>2. Good(s.t) /\ At(s.t, p, 1) # 0 /\ p \in Nat /\ 0 \in 0 .. Top /\ 1 \in 0 .. Top
  BY UpTop, Levelled DEF Cleared
<1>3. PICK w : w = walk(s.t, p, 0)
  OBVIOUS
<1>4. w.level = 0 /\ w.to = At(s.t, p, 0) /\ w.tab = At(s.t, p, 1) /\ w.end = 0
  <2>1. \A j \in 0 .. Top : j > zero => At(s.t, p, j) # 0
    <3> SUFFICES ASSUME NEW j \in 0 .. Top, j > zero PROVE At(s.t, p, j) # 0
      OBVIOUS
    <3>1. j >= 1
      BY <1>1
    <3> QED BY <3>1, <1>2, AtAbove
  <2>2. StopsAt(s.t, p, zero, zero) /\ zero >= zero
    BY <1>1, <2>1 DEF StopsAt
  <2>3. Stopped(walk(s.t, p, zero), s.t, p, zero, zero)
    BY <1>2, <2>2, WalkStops
  <2>4. Stopped(w, s.t, p, 0, 0)
    BY <1>1, <1>3, <2>3, Zenon
  <2> QED BY <2>4 DEF Stopped
<1>5. o = [t   |-> IF w.tab = 0 \/ w.to = 0 THEN s.t ELSE SetPte(s.t, w.tab, pageindex(p, w.level), 0),
           lvl |-> w.end]
  BY <1>3, Zenon DEF ClearPage
<1>6. o.lvl = 0 /\ o.t = IF At(s.t, p, 0) = 0 THEN s.t
                         ELSE SetPte(s.t, At(s.t, p, 1), pageindex(p, 0), 0)
  BY <1>2, <1>4, <1>5
<1> HIDE DEF o
<1>7. /\ Good(o.t)
      /\ \A q \in Pages : At(o.t, q, 0) = IF q = p THEN 0 ELSE At(s.t, q, 0)
      /\ \A q \in Pages : At(o.t, q, 1) = At(s.t, q, 1)
  <2>1. CASE At(s.t, p, 0) = 0
    BY <2>1, <1>2, <1>6, Zenon
  <2>2. CASE At(s.t, p, 0) # 0
    <3>1. PICK z \in Nat : z = 0
      OBVIOUS
    <3>2. PICK u : u = SetPte(s.t, At(s.t, p, 1), pageindex(p, 0), z)
      OBVIOUS
    <3>3. o.t = u
      BY <2>2, <1>6, <3>1, <3>2
    <3>4. /\ Good(u)
          /\ \A q \in Pages, k \in 0 .. Top :
               At(u, q, k) = IF k = 0 /\ q = p THEN z ELSE At(s.t, q, k)
      BY <1>2, <3>2, LeafGood
    <3> QED BY <1>2, <3>1, <3>3, <3>4
  <2> QED BY <2>1, <2>2, Zenon
<1>8. \A q \in Pages : q \in Nat
  BY UpTop
<1>9. \A q \in Pages : At(o.t, q, 0) = IF va <= q /\ q < va + (i + 1) THEN 0 ELSE At(tables, q, 0)
  <2> SUFFICES ASSUME NEW q \in Pages
               PROVE  At(o.t, q, 0) = IF va <= q /\ q < va + (i + 1) THEN 0 ELSE At(tables, q, 0)
    OBVIOUS
  <2>1. (va <= q /\ q < va + (i + 1)) <=> q = p \/ (va <= q /\ q < va + i)
    BY <1>8
  <2> QED BY <1>7, <2>1 DEF Cleared
<1>10. Cleared(o.t, va, i + 1)
  BY <1>7, <1>9 DEF Cleared
<1> QED
  BY <1>6, <1>10, Zenon DEF o


LEMMA Within ==
  ASSUME NEW va \in Pages, NEW n \in Nat, NEW i \in Nat, i < n, va + n - 1 \in Pages
  PROVE  va \in Nat /\ va + i \in Pages /\ va + (i + 1) - 1 = va + i
<1>1. va \in Nat
  BY UpTop
<1>2. va + i \in Int /\ va + n - 1 \in Int /\ 0 <= va + i /\ va + i <= va + n - 1
  BY <1>1
<1>3. \A a, b \in Int : b \in Pages /\ 0 <= a /\ a <= b => a \in Pages
  BY Levelled, SpanType DEF Pages, Top
<1>4. va + i \in Pages
  BY <1>2, <1>3
<1>5. va + (i + 1) - 1 = va + i
  BY <1>1
<1> QED
  BY <1>1, <1>4, <1>5

LEMMA ClearBacked ==
  ASSUME Good(tables), NEW va \in Pages, NEW n \in Nat, n = 0 \/ va + n - 1 \in Pages,
         Backed(tables, va, n)
  PROVE  Cleared(ClearRange(va, n), va, n)
<1>1. PICK C : C = Clearing(va, n)
  OBVIOUS
<1>2. Unlooped(C, va, n)
  BY <1>1, ClearingDef
<1>3. /\ C[0] = [t |-> tables, lvl |-> walk(tables, va, 0).end]
      /\ \A i \in 1 .. n : C[i] = ClearPage(C[i - 1], va + i - 1)
      /\ ClearRange(va, n) = C[n].t
  BY <1>2, Zenon DEF Unlooped
<1>4. va \in Nat /\ 1 \in 0 .. Top /\ \A q \in Pages : q \in Nat
  BY UpTop, Levelled
<1> DEFINE T == {i \in Nat : Cleared(C[i].t, va, i) /\ (n # 0 => C[i].lvl = 0)}
<1>5. 0 \in T
  <2>1. C[0].t = tables /\ C[0].lvl = walk(tables, va, 0).end
    BY <1>3
  <2>2. Cleared(tables, va, 0)
    BY <1>4 DEF Cleared
  <2>3. ASSUME n # 0 PROVE walk(tables, va, 0).end = 0
    <3>1. PICK zero \in Levels : zero = 0
      BY Levelled DEF Levels
    <3>2. At(tables, va, 1) # 0
      BY <2>3, <1>4 DEF Backed
    <3>3. \A j \in 0 .. Top : j > zero => At(tables, va, j) # 0
      <4> SUFFICES ASSUME NEW j \in 0 .. Top, j > zero PROVE At(tables, va, j) # 0
        OBVIOUS
      <4>1. j >= 1
        BY <3>1
      <4> QED BY <4>1, <1>4, <3>2, AtAbove
    <3>4. StopsAt(tables, va, zero, zero) /\ zero >= zero
      BY <3>1, <3>3 DEF StopsAt
    <3>5. Stopped(walk(tables, va, zero), tables, va, zero, zero)
      BY <3>4, WalkStops
    <3> QED BY <3>1, <3>5 DEF Stopped
  <2> QED BY <2>1, <2>2, <2>3
<1>6. ASSUME NEW i \in Nat, i < n, i \in T PROVE i + 1 \in T
  <2>1. n # 0 /\ i + 1 \in 1 .. n /\ i + 1 - 1 = i /\ i + 1 \in Nat
    BY <1>6
  <2>2. va + i \in Pages /\ va + (i + 1) - 1 = va + i
    BY <1>6, <2>1, Within
  <2>3. PICK p \in Pages : p = va + i
    BY <2>2
  <2>4. C[i + 1] = ClearPage(C[i], p)
    BY <1>3, <2>1, <2>2, <2>3
  <2>5. Cleared(C[i].t, va, i) /\ C[i].lvl = 0
    BY <1>6, <2>1, Zenon
  <2>6. At(tables, p, 1) # 0
    BY <1>4, <1>6, <2>3 DEF Backed
  <2>7. Cleared(ClearPage(C[i], p).t, va, i + 1) /\ ClearPage(C[i], p).lvl = 0
    BY <1>4, <2>3, <2>5, <2>6, ClearPageGood
  <2> QED BY <2>1, <2>4, <2>7
<1>7. n \in T
  <2>1. \A i \in Nat : i < n /\ i \in T => i + 1 \in T
    BY <1>6
  <2>2. 0 .. n \subseteq T
    <3> HIDE DEF T
    <3> QED BY <1>5, <2>1, BoundedInduction
  <2> QED BY <2>2
<1> QED
  BY <1>3, <1>7, Zenon

(* A range within one leaf table that is missing: the first walk leaves    *)
(* its level behind, and every later walk ends at that level again.        *)
LEMMA ClearUnbacked ==
  ASSUME Good(tables), NEW va \in Pages, NEW n \in Nat, n # 0, va + n - 1 \in Pages,
         \A q \in Pages : va <= q /\ q < va + n => Up(q, 1) = Up(va, 1),
         At(tables, va, 1) = 0
  PROVE  Cleared(ClearRange(va, n), va, n)
<1>1. PICK C : C = Clearing(va, n)
  OBVIOUS
<1>2. Unlooped(C, va, n)
  BY <1>1, ClearingDef
<1>3. /\ C[0] = [t |-> tables, lvl |-> walk(tables, va, 0).end]
      /\ \A i \in 1 .. n : C[i] = ClearPage(C[i - 1], va + i - 1)
      /\ ClearRange(va, n) = C[n].t
  BY <1>2 DEF Unlooped
<1>4. va \in Nat /\ 0 \in 0 .. Top /\ 1 \in 0 .. Top /\ \A q \in Pages : q \in Nat
  BY UpTop, Levelled
<1>5. PICK zero \in Levels : zero = 0
  BY Levelled DEF Levels
<1>6. PICK l \in Levels : l >= zero /\ StopsAt(tables, va, zero, l)
  BY SomeStop
<1>7. l \in 0 .. Top /\ l >= 1 /\ At(tables, va, l) = 0 /\ \A j \in 0 .. Top : j > l => At(tables, va, j) # 0
  <2>1. l \in Nat /\ l \in 0 .. Top
    BY Levelled DEF Levels, Top
  <2>2. l # 0
    BY <1>4, <1>6, <2>1 DEF StopsAt
  <2> QED BY <1>5, <1>6, <2>1, <2>2 DEF StopsAt
<1>8. walk(tables, va, 0).end = l
  <2>1. Stopped(walk(tables, va, zero), tables, va, zero, l)
    BY <1>6, WalkStops
  <2> QED BY <1>5, <1>7, <2>1 DEF Stopped
<1> DEFINE T == {i \in Nat : C[i].t = tables /\ C[i].lvl = l}
<1>9. 0 \in T
  BY <1>3, <1>8
<1>10. ASSUME NEW i \in Nat, i < n, i \in T PROVE i + 1 \in T
  <2>1. i + 1 \in 1 .. n /\ i + 1 - 1 = i /\ i + 1 \in Nat
    BY <1>10
  <2>2. va + i \in Pages /\ va + (i + 1) - 1 = va + i
    BY <1>10, Within
  <2>3. PICK p \in Pages : p = va + i
    BY <2>2
  <2>4. C[i + 1] = ClearPage(C[i], p)
    BY <1>3, <2>1, <2>2, <2>3
  <2>5. C[i].t = tables /\ C[i].lvl = l
    BY <1>10
  <2>6. p \in Nat /\ Up(p, 1) = Up(va, 1)
    BY <1>4, <1>10, <2>3
  <2>7. \A j \in 0 .. Top : j >= 1 => At(tables, p, j) = At(tables, va, j)
    <3> SUFFICES ASSUME NEW j \in 0 .. Top, j >= 1 PROVE At(tables, p, j) = At(tables, va, j)
      OBVIOUS
    <3>1. Up(p, j) = Up(va, j)
      BY <1>4, <2>6, UpAbove
    <3> QED BY <1>4, <2>6, <3>1, AtSame
  <2>8. StopsAt(tables, p, l, l) /\ At(tables, p, l) = 0 /\ l >= l
    <3>1. \A j \in 0 .. Top : j > l => j >= 1
      BY <1>7
    <3> QED BY <1>7, <2>7, <3>1 DEF StopsAt
  <2>9. PICK w : w = walk(tables, p, l)
    OBVIOUS
  <2>10. Stopped(w, tables, p, l, l)
    BY <2>8, <2>9, WalkStops
  <2>11. w.to = 0 /\ w.end = l
    BY <2>8, <2>10 DEF Stopped
  <2>12. C[i + 1] = [t |-> tables, lvl |-> l]
    <3>1. ClearPage(C[i], p)
            = [t   |-> IF w.tab = 0 \/ w.to = 0 THEN C[i].t
                       ELSE SetPte(C[i].t, w.tab, pageindex(p, w.level), 0),
               lvl |-> w.end]
      BY <2>5, <2>9, Zenon DEF ClearPage
    <3> QED BY <2>4, <2>5, <2>11, <3>1, Zenon
  <2> QED BY <2>1, <2>12
<1>11. n \in T
  <2>1. \A i \in Nat : i < n /\ i \in T => i + 1 \in T
    BY <1>10
  <2>2. 0 .. n \subseteq T
    <3> HIDE DEF T
    <3> QED BY <1>9, <2>1, BoundedInduction
  <2> QED BY <2>2
<1>12. ClearRange(va, n) = tables
  BY <1>3, <1>11
<1>13. \A q \in Pages : va <= q /\ q < va + n => At(tables, q, 0) = 0
  <2> SUFFICES ASSUME NEW q \in Pages, va <= q, q < va + n PROVE At(tables, q, 0) = 0
    OBVIOUS
  <2>1. q \in Nat /\ Up(q, 1) = Up(va, 1)
    BY <1>4
  <2>2. At(tables, q, 1) = 0
    BY <1>4, <2>1, AtSame
  <2>3. PICK zer, one \in 0 .. Top : zer = 0 /\ one = 1 /\ one >= zer
    BY <1>4
  <2> QED BY <2>2, <2>3, AtAbove
<1>14. Cleared(tables, va, n)
  BY <1>13 DEF Cleared
<1> QED
  BY <1>12, <1>14
-----------------------------------------------------------------------------
(* The inductive invariant.  A recorded area has all its leaf tables, or   *)
(* lies within one of them: it was recorded and then had no memory.  It is *)
(* what makes the level that unmap_vma carries from page to page harmless. *)
SameLeaf(va, n) == \A q \in Pages : va <= q /\ q < va + n => Up(q, 1) = Up(va, 1)

AreaOK(t, a) ==
  /\ a \in [start : Pages, size : Lengths]
  /\ HeapEnd <= a.start /\ a.start + a.size - 1 \in Pages
  /\ Backed(t, a.start, a.size) \/ SameLeaf(a.start, a.size)

TreeInv ==
  /\ arch \in Archs /\ calls \in 0 .. MaxCalls /\ state \in {"run", "exited", "panic"}
  /\ Good(tables)
  /\ \A a \in areas : AreaOK(tables, a)

(* What the tables u after a call are to the tables before it.             *)
MapsPart(u, va, pa, k) ==
  \A q \in Pages : At(u, q, 0) = IF va <= q /\ q < va + k THEN pa + (q - va) ELSE At(tables, q, 0)

Clears(u, va, n) ==
  \A q \in Pages : At(u, q, 0) = IF va <= q /\ q < va + n THEN 0 ELSE At(tables, q, 0)

SameMap(u) == \A q \in Pages : At(u, q, 0) = At(tables, q, 0)

Moved(u) ==
  /\ Good(u)
  /\ \A q \in Pages : At(tables, q, 1) # 0 => At(u, q, 1) # 0
  /\ \/ \E va \in Pages, n \in Lengths, pa \in Bases : \E k \in 0 .. n : MapsPart(u, va, pa, k)
     \/ \E va \in Pages, pa \in Bases : MapsPart(u, va, pa, 1)
     \/ \E va \in Pages, n \in Lengths : Clears(u, va, n)
     \/ SameMap(u)

LEMMA Unmoved == Good(tables) => Moved(tables)
  BY DEF Moved, SameMap

LEMMA AreaKept ==
  ASSUME NEW u, Moved(u), NEW a, AreaOK(tables, a)
  PROVE  AreaOK(u, a)
<1>1. Backed(tables, a.start, a.size) => Backed(u, a.start, a.size)
  BY DEF Moved, Backed
<1> QED
  BY <1>1 DEF AreaOK

LEMMA MonotoneUp ==
  ASSUME NEW p \in Nat, NEW q \in Nat, p <= q
  PROVE  p \div Fan <= q \div Fan
<1>1. PICK F \in Nat : F = Fan /\ F >= 1
  BY Levelled
<1>2. PICK a \in Nat, r \in Nat : a = p \div F /\ r < F /\ p = F * a + r
  BY <1>1, Division
<1>3. PICK b \in Nat, s \in Nat : b = q \div F /\ s < F /\ q = F * b + s
  BY <1>1, Division
<1>4. ASSUME b + 1 <= a PROVE FALSE
  <2>1. PICK c \in Nat : a = b + 1 + c
    <3>1. a - b - 1 \in Nat /\ a = b + 1 + (a - b - 1)
      BY <1>4
    <3> QED BY <3>1
  <2>2. F * a = F * b + F + F * c /\ F * c \in Nat /\ F * b \in Nat
    BY <2>1
  <2> QED BY <1>2, <1>3, <2>2
<1> QED
  BY <1>1, <1>2, <1>3, <1>4

LEMMA WithinLeaf ==
  ASSUME NEW va \in Pages, NEW n \in Nat, Leaf(va) = Leaf(va + n - 1), va + n - 1 \in Pages
  PROVE  SameLeaf(va, n)
<1> SUFFICES ASSUME NEW q \in Pages, va <= q, q < va + n PROVE Up(q, 1) = Up(va, 1)
  BY DEF SameLeaf
<1>1. PICK l \in Pages : l = va + n - 1
  OBVIOUS
<1>2. va \in Nat /\ q \in Nat /\ l \in Nat
  BY UpTop
<1>3. q <= l
  BY <1>1, <1>2
<1>4. va \div Fan <= q \div Fan /\ q \div Fan <= l \div Fan
  BY <1>2, <1>3, MonotoneUp
<1>5. va \div Fan = l \div Fan
  BY <1>1 DEF Leaf
<1>6. PICK x, y, z \in Int : x = va \div Fan /\ y = q \div Fan /\ z = l \div Fan
  <2>1. PICK F \in Nat : F = Fan /\ F >= 1
    BY Levelled
  <2> QED BY <1>2, <2>1
<1>7. y = x
  BY <1>4, <1>5, <1>6
<1> QED
  BY <1>2, <1>6, <1>7, UpOne

LEMMA PageOf ==
  ASSUME NEW x \in Int, NEW y \in Pages, 0 <= x, x <= y
  PROVE  x \in Pages
  BY Levelled, SpanType DEF Pages, Top

LEMMA MmapMoves ==
  ASSUME FailSpan = "leaf", TreeInv, NEW va \in Pages, NEW n \in Lengths, NEW pa \in Bases,
         NEW room \in Rooms, sys_mmap(va, n, pa, room)
  PROVE  Moved(tables') /\ \A a \in areas' : AreaOK(tables', a)
<1>1. PICK r : r = MapRegion(va, pa, n, TRUE, room)
  BY Zenon
<1>2. PICK a : a = [start |-> va, size |-> n]
  BY Zenon
<1>3. n \in Nat /\ pa \in Nat /\ room \in Nat /\ Good(tables)
  BY ConstantsOK DEF TreeInv
<1>4. HeapEnd <= va /\ va + n - 1 \in Pages
  BY DEF sys_mmap
<1>5. MapInv(r, va, pa, TRUE, n)
  BY <1>1, <1>3, <1>4, MapRegionGood, Zenon
<1>6. \/ /\ Leaf(va) = Leaf(va + n - 1)
         /\ areas' = areas \cup {a} /\ tables' = tables
      \/ tables' = tables /\ areas' = areas
      \/ r.ok /\ areas' = areas \cup {a} /\ tables' = r.t
  BY <1>1, <1>2, Zenon DEF sys_mmap, Stop
<1>7. Good(tables) /\ \A b \in areas : AreaOK(tables, b)
  BY DEF TreeInv
<1>8. /\ a \in [start : Pages, size : Lengths] /\ a.start = va /\ a.size = n
  BY <1>2
<1>9. CASE tables' = tables /\ areas' = areas
  BY <1>7, <1>9, Unmoved
<1>10. CASE /\ Leaf(va) = Leaf(va + n - 1)
            /\ areas' = areas \cup {a} /\ tables' = tables
  <2>1. SameLeaf(va, n)
    BY <1>3, <1>4, <1>10, WithinLeaf
  <2>2. AreaOK(tables, a)
    BY <1>4, <1>8, <2>1 DEF AreaOK
  <2> QED BY <1>7, <1>10, <2>2, Unmoved
<1>11. CASE r.ok /\ areas' = areas \cup {a} /\ tables' = r.t
  <2>1. PICK u : u = r.t
    OBVIOUS
  <2>2. Mapped(u, va, pa, TRUE, n) /\ Good(u) /\ Backed(u, va, n)
    BY <1>5, <1>11, <2>1, Zenon DEF MapInv
  <2>3. MapsPart(u, va, pa, n)
    BY <2>2 DEF Mapped, MapsPart
  <2>4. n \in 0 .. n
    BY <1>3
  <2>5. \A q \in Pages : At(tables, q, 1) # 0 => At(u, q, 1) # 0
    BY <1>5, <2>1 DEF MapInv
  <2>6. Moved(u)
    BY <2>2, <2>3, <2>4, <2>5 DEF Moved
  <2>7. AreaOK(u, a)
    BY <1>4, <1>8, <2>2 DEF AreaOK
  <2>8. \A b \in areas : AreaOK(u, b)
    BY <1>7, <2>6, AreaKept
  <2> QED BY <1>11, <2>1, <2>6, <2>7, <2>8
<1> QED
  BY <1>6, <1>9, <1>10, <1>11

LEMMA BrkMoves ==
  ASSUME TreeInv, NEW va \in Pages, NEW n \in Lengths, NEW pa \in Bases,
         NEW room \in Rooms, sys_brk(va, n, pa, room)
  PROVE  Moved(tables') /\ \A a \in areas' : AreaOK(tables', a)
<1>1. PICK r : r = MapRegion(va, pa, n, TRUE, room)
  BY Zenon
<1>2. n \in Nat /\ pa \in Nat /\ room \in Nat /\ HeapEnd \in Pages /\ va \in Nat /\ HeapEnd \in Nat
  BY ConstantsOK, UpTop
<1>3. Good(tables) /\ \A b \in areas : AreaOK(tables, b)
  BY DEF TreeInv
<1>4. va + n <= HeapEnd
  BY DEF sys_brk
<1>5. n = 0 \/ va + n - 1 \in Pages
  <2> SUFFICES ASSUME n # 0 PROVE va + n - 1 \in Pages
    OBVIOUS
  <2>1. va + n - 1 \in Int /\ 0 <= va + n - 1 /\ va + n - 1 <= HeapEnd
    BY <1>2, <1>4
  <2> QED BY <1>2, <2>1, PageOf
<1>6. MapInv(r, va, pa, TRUE, n)
  BY <1>1, <1>2, <1>3, <1>5, MapRegionGood, Zenon
<1>7. tables' = r.t /\ areas' = areas
  BY <1>1 DEF sys_brk
<1>8. PICK u : u = r.t
  OBVIOUS
<1>9. PICK k \in 0 .. n : Mapped(u, va, pa, TRUE, k)
  BY <1>6, <1>8, Zenon DEF MapInv
<1>10. MapsPart(u, va, pa, k)
  BY <1>9 DEF Mapped, MapsPart
<1>11. Good(u) /\ \A q \in Pages : At(tables, q, 1) # 0 => At(u, q, 1) # 0
  BY <1>6, <1>8 DEF MapInv
<1>12. Moved(u)
  BY <1>10, <1>11 DEF Moved
<1>13. \A b \in areas : AreaOK(u, b)
  BY <1>3, <1>12, AreaKept
<1> QED
  BY <1>7, <1>8, <1>12, <1>13

LEMMA MunmapMoves ==
  ASSUME TreeInv, NEW a \in areas, sys_munmap(a)
  PROVE  /\ Moved(tables') /\ Clears(tables', a.start, a.size)
         /\ \A b \in areas' : AreaOK(tables', b)
<1>1. PICK va \in Pages, n \in Lengths : va = a.start /\ n = a.size
  BY Zenon DEF TreeInv, AreaOK
<1>2. /\ Good(tables) /\ n \in Nat /\ va + n - 1 \in Pages
      /\ Backed(tables, va, n) \/ SameLeaf(va, n)
  BY <1>1, ConstantsOK DEF TreeInv, AreaOK
<1>3. PICK u : u = ClearRange(va, n)
  OBVIOUS
<1>4. Cleared(u, va, n)
  <2>1. CASE Backed(tables, va, n)
    BY <1>2, <1>3, <2>1, ClearBacked
  <2>2. CASE SameLeaf(va, n) /\ n # 0 /\ At(tables, va, 1) = 0
    <3>1. \A q \in Pages : va <= q /\ q < va + n => Up(q, 1) = Up(va, 1)
      BY <2>2 DEF SameLeaf
    <3> QED BY <1>2, <1>3, <2>2, <3>1, ClearUnbacked
  <2>3. CASE SameLeaf(va, n) /\ (n = 0 \/ At(tables, va, 1) # 0)
    <3>1. Backed(tables, va, n)
      <4> SUFFICES ASSUME NEW q \in Pages, va <= q, q < va + n PROVE At(tables, q, 1) # 0
        BY DEF Backed
      <4>1. q \in Nat /\ va \in Nat /\ 1 \in 0 .. Top
        BY UpTop, Levelled
      <4>2. n # 0
        BY <1>2, <4>1
      <4>3. Up(q, 1) = Up(va, 1)
        BY <2>3 DEF SameLeaf
      <4> QED BY <2>3, <4>1, <4>2, <4>3, AtSame
    <3> QED BY <2>1, <3>1
  <2> QED BY <1>2, <2>1, <2>2, <2>3
<1>5. tables' = u /\ areas' = areas \ {a}
  BY <1>1, <1>3 DEF sys_munmap
<1>6. Clears(u, va, n)
  BY <1>4 DEF Cleared, Clears
<1>7. Moved(u)
  BY <1>4, <1>6 DEF Cleared, Moved
<1>8. \A b \in areas : AreaOK(u, b)
  BY <1>7, AreaKept DEF TreeInv
<1> QED
  BY <1>1, <1>5, <1>6, <1>7, <1>8

(* The page fault handler maps a page of an area, or, where the area may   *)
(* not be read, only brings in the tables above it.                        *)
LEMMA FaultMoves ==
  ASSUME TreeInv, NEW va \in Pages, NEW pa \in Bases, NEW read \in BOOLEAN,
         NEW room \in Rooms, pagefault(va, pa, read, room)
  PROVE  Moved(tables') /\ \A a \in areas' : AreaOK(tables', a)
<1>1. PICK r : r = MapRegion(va, pa, 1, read, room)
  OBVIOUS
<1>2. pa \in Nat /\ room \in Nat /\ va \in Nat /\ va + 1 - 1 = va
  BY ConstantsOK, UpTop
<1>3. Good(tables) /\ \A b \in areas : AreaOK(tables, b)
  BY DEF TreeInv
<1>4. PICK one \in Nat : one = 1
  OBVIOUS
<1>5. one = 0 \/ va + one - 1 \in Pages
  BY <1>2, <1>4
<1>6. MapInv(MapRegion(va, pa, one, read, room), va, pa, read, one)
  BY <1>2, <1>3, <1>5, MapRegionGood
<1>7. MapInv(r, va, pa, read, 1)
  BY <1>1, <1>4, <1>6, Zenon
<1>8. vm_lookup(tables, va) = 0
  BY DEF pagefault
<1>9. At(tables, va, 0) = 0
  BY <1>3, <1>8, LookupIsAt
<1>10. \/ tables' = tables /\ areas' = areas
       \/ r.ok /\ tables' = r.t /\ areas' = areas
  BY <1>1, Zenon DEF pagefault, Stop
<1>11. CASE tables' = tables /\ areas' = areas
  BY <1>3, <1>11, Unmoved
<1>12. CASE r.ok /\ tables' = r.t /\ areas' = areas
  <2>1. PICK u : u = r.t
    OBVIOUS
  <2>2. Mapped(u, va, pa, read, 1) /\ Good(u)
    BY <1>7, <1>12, <2>1 DEF MapInv
  <2>3. \A q \in Pages : At(tables, q, 1) # 0 => At(u, q, 1) # 0
    BY <1>7, <2>1 DEF MapInv
  <2>4. MapsPart(u, va, pa, 1) \/ SameMap(u)
    <3>1. CASE read
      <4>1. MapsPart(u, va, pa, 1)
        BY <2>2, <3>1 DEF Mapped, MapsPart
      <4> QED BY <4>1
    <3>2. CASE ~ read
      <4>1. \A q \in Pages : q \in Nat
        BY UpTop
      <4>2. \A q \in Pages : va <= q /\ q < va + 1 => q = va
        BY <1>2, <4>1
      <4>3. \A q \in Pages : At(u, q, 0) = IF va <= q /\ q < va + 1 THEN 0 ELSE At(tables, q, 0)
        BY <2>2, <3>2 DEF Mapped
      <4>4. SameMap(u)
        BY <1>9, <4>2, <4>3 DEF SameMap
      <4> QED BY <4>4
    <3> QED BY <3>1, <3>2
  <2>5. Moved(u)
    BY <2>2, <2>3, <2>4 DEF Moved
  <2>6. \A b \in areas : AreaOK(u, b)
    BY <1>3, <2>5, AreaKept
  <2> QED BY <1>12, <2>1, <2>5, <2>6
<1> QED
  BY <1>10, <1>11, <1>12

LEMMA NextMoves ==
  ASSUME FailSpan = "leaf", TreeInv, [Next]_vars
  PROVE  Moved(tables') /\ \A a \in areas' : AreaOK(tables', a)
<1>1. ASSUME NEW va \in Pages, NEW n \in Lengths, NEW pa \in Bases, NEW room \in Rooms,
             sys_mmap(va, n, pa, room)
      PROVE  Moved(tables') /\ \A a \in areas' : AreaOK(tables', a)
  BY <1>1, MmapMoves
<1>2. ASSUME NEW va \in Pages, NEW n \in Lengths, NEW pa \in Bases, NEW room \in Rooms,
             sys_brk(va, n, pa, room)
      PROVE  Moved(tables') /\ \A a \in areas' : AreaOK(tables', a)
  BY <1>2, BrkMoves
<1>3. ASSUME NEW a \in areas, sys_munmap(a)
      PROVE  Moved(tables') /\ \A b \in areas' : AreaOK(tables', b)
  BY <1>3, MunmapMoves
<1>4. ASSUME NEW va \in Pages, NEW pa \in Bases, NEW read \in BOOLEAN, NEW room \in Rooms,
             pagefault(va, pa, read, room)
      PROVE  Moved(tables') /\ \A a \in areas' : AreaOK(tables', a)
  BY <1>4, FaultMoves
<1>5. CASE UNCHANGED vars
  BY <1>5, Unmoved DEF TreeInv, vars
<1> QED
  BY <1>1, <1>2, <1>3, <1>4, <1>5 DEF Next

LEMMA CallsAndState ==
  ASSUME TreeInv, [Next]_vars
  PROVE  arch' = arch /\ arch' \in Archs /\ calls' \in 0 .. MaxCalls
         /\ state' \in {"run", "exited", "panic"}
<1>1. ASSUME Call PROVE arch' = arch /\ calls' \in 0 .. MaxCalls
  BY <1>1, ConstantsOK DEF Call, TreeInv
<1>2. ASSUME NEW va, NEW n, NEW pa, NEW room, sys_mmap(va, n, pa, room)
      PROVE  Call /\ state' \in {state, "panic"}
  BY <1>2, Zenon DEF sys_mmap, Stop
<1>3. ASSUME NEW va, NEW n, NEW pa, NEW room, sys_brk(va, n, pa, room)
      PROVE  Call /\ state' = state
  BY <1>3 DEF sys_brk
<1>4. ASSUME NEW a, sys_munmap(a) PROVE Call /\ state' = state
  BY <1>4 DEF sys_munmap
<1>5. ASSUME NEW va, NEW pa, NEW read, NEW room, pagefault(va, pa, read, room)
      PROVE  Call /\ state' \in {state, "panic", "exited"}
  BY <1>5, Zenon DEF pagefault, Stop
<1>6. CASE UNCHANGED vars
  BY <1>6 DEF TreeInv, vars
<1>7. CASE Next
  <2>1. Call /\ state' \in {state, "panic", "exited"}
    BY <1>7, <1>2, <1>3, <1>4, <1>5 DEF Next
  <2> QED BY <1>1, <2>1 DEF TreeInv
<1> QED
  BY <1>6, <1>7

LEMMA EmptyTree ==
  ASSUME NEW t, t = [x \in {Root} |-> EmptyTable]
  PROVE  Good(t) /\ \A q \in Pages : At(t, q, 0) = 0
<1>1. DOMAIN t = {1} /\ t[1] = EmptyTable
  BY DEF Root
<1>2. \A q \in Pages, k \in Levels : pageindex(q, k) \in Entries
  <2> SUFFICES ASSUME NEW q \in Pages, NEW k \in Levels PROVE pageindex(q, k) \in Entries
    OBVIOUS
  <2>1. q \in Nat /\ k \in 0 .. LEVEL_MAX
    BY UpTop DEF Levels
  <2> QED BY <2>1, UpStep
<1>3. \A q \in Pages, k \in Levels : At(t, q, k) = 0
  <2> SUFFICES ASSUME NEW q \in Pages PROVE \A k \in Levels : At(t, q, k) = 0
    OBVIOUS
  <2> DEFINE T == {k \in 0 .. Top : k = Top \/ At(t, q, k) = 0}
  <2>1. Top \in T
    BY Levelled
  <2>2. ASSUME NEW k \in Levels, k + 1 \in T PROVE k \in T
    <3>1. k \in 0 .. Top
      BY Levelled DEF Levels, Top
    <3>2. At(t, q, k + 1) = 0 \/ At(t, q, k + 1) = 1
      BY <2>2, AtDef DEF Root
    <3>3. t[1][pageindex(q, k)] = 0
      BY <1>1, <1>2 DEF EmptyTable
    <3>4. At(t, q, k) = 0
      BY <3>2, <3>3, AtDef, Zenon
    <3> QED BY <3>1, <3>4
  <2>3. \A k \in 0 .. Top : k \in T
    <3>1. \A k \in Levels : k + 1 \in T => k \in T
      BY <2>2
    <3> HIDE DEF T
    <3> QED BY <2>1, <3>1, Downwards
  <2>4. \A k \in Levels : k \in 0 .. Top /\ k # Top
    BY Levelled DEF Levels, Top
  <2> QED BY <2>3, <2>4
<1>4. \A q \in Pages, k \in 1 .. Top : At(t, q, k) = IF k = Top THEN 1 ELSE 0
  <2>1. \A k \in 1 .. Top : k = Top \/ k \in Levels
    BY Levelled DEF Levels, Top
  <2> QED BY <1>3, <2>1, AtDef DEF Root
<1>5. Numbered(t)
  <2>1. 1 \in Nat /\ 1 >= 1 /\ DOMAIN t = 1 .. 1
    BY <1>1
  <2> QED BY <2>1 DEF Numbered
<1>6. Filled(t)
  BY <1>1 DEF Filled, EmptyTable
<1>7. Closed(t)
  BY <1>1, <1>4 DEF Closed
<1>8. Reached(t)
  <2>1. 0 \in Pages /\ Top \in 1 .. Top
    BY Levelled, SpanType DEF Pages, Top
  <2>2. At(t, 0, Top) = 1
    BY AtDef DEF Root
  <2> QED BY <1>1, <2>1, <2>2 DEF Reached
<1>9. Apart(t)
  <2>1. \A p \in Pages : Up(p, Top) = 0
    BY UpTop
  <2> SUFFICES ASSUME NEW p \in Pages, NEW q \in Pages, NEW k \in 1 .. Top, NEW j \in 1 .. Top,
                      At(t, p, k) # 0, At(t, p, k) = At(t, q, j)
               PROVE  k = j /\ Up(p, k) = Up(q, k)
    BY DEF Apart
  <2>2. k = Top /\ j = Top
    BY <1>4
  <2> QED BY <2>1, <2>2
<1>10. 0 \in Levels
  BY Levelled DEF Levels
<1> QED
  BY <1>3, <1>5, <1>6, <1>7, <1>8, <1>9, <1>10 DEF Good

LEMMA TreeInvInit == Init => TreeInv
<1> SUFFICES ASSUME Init PROVE TreeInv
  OBVIOUS
<1>1. Good(tables)
  BY EmptyTree DEF Init
<1> QED
  BY <1>1, ConstantsOK DEF Init, TreeInv

LEMMA TreeInvNext == FailSpan = "leaf" /\ TreeInv /\ [Next]_vars => TreeInv'
<1> SUFFICES ASSUME FailSpan = "leaf", TreeInv, [Next]_vars PROVE TreeInv'
  OBVIOUS
<1>1. Moved(tables') /\ \A a \in areas' : AreaOK(tables', a)
  BY NextMoves
<1>2. Good(tables')
  BY <1>1 DEF Moved
<1>3. arch' \in Archs /\ calls' \in 0 .. MaxCalls /\ state' \in {"run", "exited", "panic"}
  BY CallsAndState
<1> QED
  BY <1>1, <1>2, <1>3 DEF TreeInv
-----------------------------------------------------------------------------
(* Counting.  A table has a place in the tree: its depth, and its number   *)
(* at that depth.                                                          *)
Nodes == {n \in Levels \X Pages : n[2] < Span[n[1]]}

LEMMA SpanSplit == \A k \in 0 .. Top : Span[k] * Span[Top - k] = Span[Top]
<1> DEFINE T == {k \in Nat : Span[k] * Span[Top - k] = Span[Top]}
<1>1. 0 \in T
  <2>1. Span[Top] \in Nat /\ Top - 0 = Top /\ Span[0] = 1
    BY SpanType, SpanStep, Levelled
  <2> QED BY <2>1
<1>2. \A k \in Nat : k < Top /\ k \in T => k + 1 \in T
  <2> SUFFICES ASSUME NEW k \in Nat, k < Top, k \in T PROVE k + 1 \in T
    OBVIOUS
  <2>1. k \in 0 .. LEVEL_MAX /\ Top - (k + 1) \in 0 .. LEVEL_MAX /\ Top - (k + 1) + 1 = Top - k
    BY Levelled DEF Top
  <2>2. Span[k + 1] = Fan * Span[k]
    BY <2>1, SpanStep
  <2>3. Span[Top - k] = Fan * Span[Top - (k + 1)]
    <3>1. PICK l \in 0 .. LEVEL_MAX : l = Top - (k + 1) /\ l + 1 = Top - k
      BY <2>1
    <3> QED BY <3>1, SpanStep
  <2>4. k \in 0 .. Top /\ Top - (k + 1) \in 0 .. Top
    BY Levelled
  <2>5. PICK a, b, F \in Nat : a = Span[k] /\ b = Span[Top - (k + 1)] /\ F = Fan
    BY <2>4, SpanType, Levelled
  <2>6. (F * a) * b = a * (F * b)
    OBVIOUS
  <2>7. Span[k + 1] * Span[Top - (k + 1)] = Span[k] * Span[Top - k]
    BY <2>2, <2>3, <2>5, <2>6
  <2> QED BY <2>7
<1>3. 0 .. Top \subseteq T
  <2> HIDE DEF T
  <2> QED BY <1>1, <1>2, BoundedInduction, Levelled
<1> QED
  BY <1>3

LEMMA UpBound ==
  ASSUME NEW p \in Pages, NEW k \in 0 .. Top
  PROVE  Up(p, k) \in Nat /\ Up(p, k) <= p /\ Up(p, k) < Span[Top - k]
<1>1. p \in Nat /\ p < Span[Top]
  BY UpTop, SpanType, Levelled DEF Pages, Top
<1>2. Top - k \in 0 .. Top
  BY Levelled
<1>3. PICK d \in Nat : d = Span[k] /\ d >= 1
  BY SpanType
<1>4. PICK m \in Nat : m = Span[Top - k]
  BY <1>2, SpanType
<1>5. p < d * m
  <2>1. Span[k] * Span[Top - k] = Span[Top]
    BY SpanSplit
  <2>2. d * m = Span[Top]
    BY <1>3, <1>4, <2>1, Zenon
  <2> QED BY <1>1, <2>2
<1>6. PICK e \in Nat, r \in Nat : e = p \div d /\ r = p % d /\ r < d /\ p = d * e + r
  BY <1>1, <1>3, Division, Zenon
<1>7. e <= p
  <2>1. PICK c \in Nat : d = 1 + c
    <3>1. d - 1 \in Nat /\ d = 1 + (d - 1)
      BY <1>3
    <3> QED BY <3>1
  <2>2. d * e = e + c * e /\ c * e \in Nat
    BY <2>1
  <2> QED BY <1>6, <2>2
<1>8. e < m
  <2> SUFFICES ASSUME m <= e PROVE FALSE
    OBVIOUS
  <2>1. PICK c \in Nat : e = m + c
    <3>1. e - m \in Nat /\ e = m + (e - m)
      OBVIOUS
    <3> QED BY <3>1
  <2>2. d * e = d * m + d * c /\ d * c \in Nat /\ d * m \in Nat
    BY <2>1
  <2> QED BY <1>5, <1>6, <2>2
<1> QED
  BY <1>3, <1>4, <1>6, <1>7, <1>8, Zenon DEF Up

LEMMA TablesFit ==
  ASSUME NEW t, Good(t)
  PROVE  DOMAIN t \subseteq TableIds
<1> DEFINE Of(x, n) == \E p \in Pages, k \in 1 .. Top : At(t, p, k) = x /\ n = <<Top - k, Up(p, k)>>
           f == [x \in DOMAIN t |-> CHOOSE n \in Nodes : Of(x, n)]
<1>1. \A x \in DOMAIN t : \E n \in Nodes : Of(x, n)
  <2> SUFFICES ASSUME NEW x \in DOMAIN t PROVE \E n \in Nodes : Of(x, n)
    OBVIOUS
  <2>1. PICK p \in Pages, k \in 1 .. Top : At(t, p, k) = x
    BY DEF Good, Reached
  <2>2. k \in 0 .. Top /\ Top - k \in Levels
    BY Levelled DEF Levels, Top
  <2>3. Up(p, k) \in Nat /\ Up(p, k) <= p /\ Up(p, k) < Span[Top - k]
    BY <2>2, UpBound
  <2>4. Up(p, k) \in Pages
    BY <2>3, PageOf
  <2>5. <<Top - k, Up(p, k)>> \in Nodes
    BY <2>2, <2>3, <2>4 DEF Nodes
  <2> QED BY <2>1, <2>5
<1>2. \A x \in DOMAIN t : f[x] \in Nodes /\ Of(x, f[x])
  <2> HIDE DEF Of
  <2> QED BY <1>1
<1>3. \A x, y \in DOMAIN t : f[x] = f[y] => x = y
  <2> SUFFICES ASSUME NEW x \in DOMAIN t, NEW y \in DOMAIN t, f[x] = f[y] PROVE x = y
    BY Zenon
  <2> HIDE DEF f
  <2>1. PICK p \in Pages, k \in 1 .. Top : At(t, p, k) = x /\ f[x] = <<Top - k, Up(p, k)>>
    BY <1>2
  <2>2. PICK q \in Pages, j \in 1 .. Top : At(t, q, j) = y /\ f[y] = <<Top - j, Up(q, j)>>
    BY <1>2, Zenon
  <2>3. <<Top - k, Up(p, k)>> = <<Top - j, Up(q, j)>>
    BY <2>1, <2>2, Zenon
  <2>4. Top - k = Top - j /\ Up(p, k) = Up(q, j)
    BY <2>3, Zenon
  <2>5. k = j /\ k \in 0 .. Top
    BY <2>4, Levelled
  <2>6. p \in Nat /\ q \in Nat
    BY UpTop
  <2> QED BY <2>1, <2>2, <2>4, <2>5, <2>6, AtSame, Zenon
<1>4. f \in Injection(DOMAIN t, Nodes)
  <2>1. f \in [DOMAIN t -> Nodes]
    BY <1>2
  <2> HIDE DEF f
  <2> QED BY <1>3, <2>1 DEF Injection, IsInjective
<1>5. IsFiniteSet(Nodes)
  <2>1. IsFiniteSet(Levels)
    BY FS_Interval, Levelled DEF Levels
  <2>2. IsFiniteSet(Pages)
    <3>1. Span[LEVEL_MAX + 1] - 1 \in Int
      BY SpanType, Levelled DEF Top
    <3> QED BY <3>1, FS_Interval DEF Pages
  <2>3. IsFiniteSet(Levels \X Pages)
    BY <2>1, <2>2, FS_Product
  <2>4. Nodes \in SUBSET (Levels \X Pages)
    BY DEF Nodes
  <2> QED BY <2>3, <2>4, FS_Subset
<1> HIDE DEF f
<1>6. Cardinality(DOMAIN t) <= Cardinality(Nodes)
  BY <1>4, <1>5, FS_Injection
<1>7. PICK c \in Nat : c = Cardinality(Nodes)
  BY <1>5, FS_CardinalityType
<1>8. PICK n \in Nat : n = Cardinality(DOMAIN t) /\ DOMAIN t = 1 .. n
  BY Counted DEF Good
<1>9. TableIds = 1 .. Cardinality(Nodes)
  BY Zenon DEF TableIds, Nodes
<1>10. n <= c
  BY <1>6, <1>7, <1>8, Zenon
<1>11. 1 .. n \subseteq 1 .. c
  BY <1>10
<1> QED
  BY <1>7, <1>8, <1>9, <1>11, Zenon

LEMMA TreeInvTypes == TreeInv => TypeOK
<1> SUFFICES ASSUME TreeInv PROVE TypeOK
  OBVIOUS
<1>1. DOMAIN tables \subseteq TableIds
  BY TablesFit DEF TreeInv
<1>2. \A x \in DOMAIN tables : tables[x] \in [Entries -> Nat]
  BY DEF TreeInv, Good, Filled
<1>3. areas \subseteq [start : Pages, size : Lengths] /\ \A a \in areas : HeapEnd <= a.start
  BY DEF TreeInv, AreaOK
<1>4. arch \in Archs /\ calls \in 0 .. MaxCalls /\ state \in {"run", "exited", "panic"}
  BY DEF TreeInv
<1> QED
  BY <1>1, <1>2, <1>3, <1>4, Zenon DEF TypeOK

(* The first page below the entry that p is below.                         *)
LEMMA FirstPage ==
  ASSUME NEW p \in Pages, NEW k \in Levels
  PROVE  \E f \in Pages : /\ f % Span[k] = 0 /\ Up(f, k) = Up(p, k)
                          /\ \A q \in Pages : q % Span[k] = 0 /\ Up(q, k) = Up(p, k) => q = f
<1>1. p \in Nat /\ \A q \in Pages : q \in Nat
  BY UpTop
<1>2. PICK d \in Nat : d = Span[k] /\ d >= 1
  BY SpanType, Levelled DEF Levels, Top
<1>3. PICK e \in Nat, r \in Nat : e = p \div d /\ r = p % d /\ r < d /\ p = d * e + r
  BY <1>1, <1>2, Division, Zenon
<1>4. PICK z \in 0 .. (d - 1) : z = 0
  BY <1>2
<1>5. PICK f : f = d * e + z
  OBVIOUS
<1>6. f \in Nat /\ f \div d = e /\ f % d = z
  <2>1. d >= 1
    BY <1>2
  <2> QED BY <2>1, <1>5, Quotient
<1>7. f \in Int /\ 0 <= f /\ f <= p
  <2>1. PICK c \in Nat : c = d * e
    OBVIOUS
  <2> QED BY <1>3, <1>4, <1>5, <2>1
<1>8. f \in Pages
  BY <1>7, PageOf
<1>9. ASSUME NEW q \in Pages, q % d = 0, q \div d = e PROVE q = f
  <2>0. q \in Nat /\ d >= 1
    BY <1>1, <1>2
  <2>1. PICK a \in Nat, b \in Nat : a = q \div d /\ b = q % d /\ b < d /\ q = d * a + b
    BY <2>0, Division
  <2>2. a = e /\ b = z
    BY <1>4, <1>9, <2>1
  <2> QED BY <1>5, <2>1, <2>2, Zenon
<1> QED
  BY <1>2, <1>3, <1>4, <1>6, <1>8, <1>9, Zenon DEF Up

LEMMA WalkFinds ==
  ASSUME NEW t, Good(t), NEW q \in Pages, NEW l \in Levels, NEW x, x # 0
  PROVE  walk(t, q, l).level = l /\ walk(t, q, l).to = x <=> At(t, q, l) = x
<1>0. l \in 0 .. Top /\ l \in Nat /\ l >= l
  BY Levelled DEF Levels, Top
<1>1. ASSUME walk(t, q, l).level = l, walk(t, q, l).to = x PROVE At(t, q, l) = x
  <2>1. PICK i \in Levels : i >= l /\ StopsAt(t, q, l, i)
    BY SomeStop
  <2>2. Stopped(walk(t, q, l), t, q, l, i)
    BY <2>1, WalkStops
  <2> QED BY <1>1, <2>2 DEF Stopped
<1>2. ASSUME At(t, q, l) = x PROVE walk(t, q, l).level = l /\ walk(t, q, l).to = x
  <2>1. \A j \in 0 .. Top : j > l => At(t, q, j) # 0
    <3> SUFFICES ASSUME NEW j \in 0 .. Top, j > l PROVE At(t, q, j) # 0
      OBVIOUS
    <3>1. j >= l
      BY <1>0
    <3> QED BY <1>0, <1>2, <3>1, AtAbove
  <2>2. StopsAt(t, q, l, l)
    BY <2>1 DEF StopsAt
  <2>3. Stopped(walk(t, q, l), t, q, l, l)
    BY <1>0, <2>2, WalkStops
  <2> QED BY <1>2, <2>3 DEF Stopped
<1> QED
  BY <1>1, <1>2

(* A table other than the root is entered once.                            *)
LEMMA EnteredOnce ==
  ASSUME NEW t, Good(t), NEW x \in DOMAIN t \ {Root}
  PROVE  \E m \in (Levels \ {0}) \X Pages : \A n \in (Levels \ {0}) \X Pages :
           (/\ n[2] % Span[n[1]] = 0
            /\ walk(t, n[2], n[1]).level = n[1] /\ walk(t, n[2], n[1]).to = x) <=> n = m
<1>1. PICK p \in Pages, k \in 1 .. Top : At(t, p, k) = x
  BY DEF Good, Reached
<1>2. k \in Levels \ {0} /\ x # 0
  <2>1. k # Top
    BY <1>1, AtDef
  <2>2. x # 0
    BY Counted DEF Good
  <2> QED BY <2>1, <2>2, Levelled DEF Levels, Top
<1>3. PICK f \in Pages : /\ f % Span[k] = 0 /\ Up(f, k) = Up(p, k)
                         /\ \A q \in Pages : q % Span[k] = 0 /\ Up(q, k) = Up(p, k) => q = f
  BY <1>2, FirstPage
<1>4. At(t, f, k) = x
  <2>1. f \in Nat /\ p \in Nat /\ k \in 0 .. Top
    BY UpTop
  <2> QED BY <1>1, <1>3, <2>1, AtSame
<1> DEFINE m == <<k, f>>
<1>5. m \in (Levels \ {0}) \X Pages /\ m[1] = k /\ m[2] = f
  BY <1>2
<1>6. ASSUME NEW l \in Levels \ {0}, NEW q \in Pages, q % Span[l] = 0, At(t, q, l) = x
      PROVE  l = k /\ q = f
  <2>1. l \in 1 .. Top
    BY Levelled DEF Levels, Top
  <2>2. At(t, q, l) # 0 /\ At(t, q, l) = At(t, p, k)
    BY <1>1, <1>2, <1>6
  <2>3. l = k /\ Up(q, l) = Up(p, l)
    BY <2>1, <2>2 DEF Good, Apart
  <2> QED BY <1>3, <1>6, <2>3
<1>7. ASSUME NEW n \in (Levels \ {0}) \X Pages
      PROVE  (/\ n[2] % Span[n[1]] = 0
              /\ walk(t, n[2], n[1]).level = n[1] /\ walk(t, n[2], n[1]).to = x) <=> n = m
  <2>1. PICK l \in Levels \ {0}, q \in Pages : n = <<l, q>> /\ n[1] = l /\ n[2] = q
    OBVIOUS
  <2>2. walk(t, q, l).level = l /\ walk(t, q, l).to = x <=> At(t, q, l) = x
    BY <1>2, <2>1, WalkFinds
  <2>3. q % Span[l] = 0 /\ At(t, q, l) = x <=> l = k /\ q = f
    BY <1>3, <1>4, <1>6
  <2>4. n = m <=> l = k /\ q = f
    BY <2>1
  <2> QED BY <2>1, <2>2, <2>3, <2>4, Zenon
<1> QED
  BY <1>5, <1>7, Zenon

LEMMA TreeInvForms == TreeInv => TablesFormTree
<1> SUFFICES ASSUME TreeInv, NEW x \in DOMAIN tables \ {Root}
             PROVE  Cardinality({n \in (Levels \ {0}) \X Pages :
                      LET w == walk(tables, n[2], n[1])
                      IN  n[2] % Span[n[1]] = 0 /\ w.level = n[1] /\ w.to = x}) = 1
  BY DEF TablesFormTree
<1> DEFINE P(n) == /\ n[2] % Span[n[1]] = 0
                   /\ walk(tables, n[2], n[1]).level = n[1] /\ walk(tables, n[2], n[1]).to = x
           S == {n \in (Levels \ {0}) \X Pages :
                   LET w == walk(tables, n[2], n[1])
                   IN  n[2] % Span[n[1]] = 0 /\ w.level = n[1] /\ w.to = x}
<1>1. PICK m \in (Levels \ {0}) \X Pages : \A n \in (Levels \ {0}) \X Pages : P(n) <=> n = m
  <2>1. Good(tables)
    BY DEF TreeInv
  <2> QED BY <2>1, EnteredOnce
<1>2. S = {n \in (Levels \ {0}) \X Pages : P(n)}
  BY Zenon
<1> HIDE DEF P, S
<1>3. S = {m}
  BY <1>1, <1>2, Zenon
<1>4. Cardinality(S) = 1
  BY <1>3, FS_Singleton, Zenon
<1> QED
  BY <1>4, Zenon DEF S
-----------------------------------------------------------------------------
(* What holds of the tree in every reachable state, for every number of    *)
(* levels and every size of a table, when an area without memory lies      *)
(* within one leaf table.                                                  *)

(* The inductive invariant: the tables are numbered as they were           *)
(* allocated, every one hangs in one place below the root, and every area  *)
(* that mmap recorded has its leaf tables or lies within one.              *)
THEOREM Invariance == ASSUME FailSpan = "leaf" PROVE Spec => []TreeInv
<1>1. TreeInv /\ [Next]_vars => TreeInv'
  BY TreeInvNext
<1> QED
  BY <1>1, TreeInvInit, PTL DEF Spec

(* The types: lookup_l4pagetable never allocates more tables than the tree *)
(* has nodes, every entry is a number, and no area of mmap reaches into    *)
(* the heap of brk.                                                        *)
THEOREM Types == ASSUME FailSpan = "leaf" PROVE Spec => []TypeOK
  BY Invariance, TreeInvTypes, PTL

(* Every table that lookup_l4pagetable allocated hangs below the root in   *)
(* exactly one place, also after an allocation failed half way down, after *)
(* a page fault, and after unmap_vma cleared a range.                      *)
THEOREM FormTree == ASSUME FailSpan = "leaf" PROVE Spec => []TablesFormTree
  BY Invariance, TreeInvForms, PTL
-----------------------------------------------------------------------------
(* The refinement.                                                         *)
TheMap == [p \in Pages |-> vm_lookup(tables, p)]

LEMMA AtNat ==
  ASSUME NEW t, Good(t), NEW q \in Pages
  PROVE  At(t, q, 0) \in Nat
<1>1. q \in Nat /\ 0 \in 0 .. LEVEL_MAX /\ 0 \in Levels /\ 1 \in 1 .. Top /\ 0 + 1 = 1
  BY UpTop, Levelled DEF Levels
<1>2. PICK e \in Entries : e = pageindex(q, 0)
  BY <1>1, UpStep
<1>3. At(t, q, 0) = IF At(t, q, 1) = 0 THEN 0 ELSE t[At(t, q, 1)][e]
  <2>1. At(t, q, 0) = IF At(t, q, 0 + 1) = 0 THEN 0 ELSE t[At(t, q, 0 + 1)][pageindex(q, 0)]
    BY <1>1, AtDef, Zenon
  <2> QED BY <1>1, <1>2, <2>1
<1>4. CASE At(t, q, 1) = 0
  BY <1>3, <1>4
<1>5. CASE At(t, q, 1) # 0
  <2>1. PICK x \in DOMAIN t : x = At(t, q, 1)
    BY <1>1, <1>5 DEF Good, Closed
  <2>2. t[x] \in [Entries -> Nat]
    BY Zenon DEF Good, Filled
  <2>3. t[x][e] \in Nat
    BY <2>2, Zenon
  <2> QED BY <1>3, <1>5, <2>1, <2>3, Zenon
<1> QED
  BY <1>4, <1>5

LEMMA MapIsAt == TreeInv => TheMap = [p \in Pages |-> At(tables, p, 0)]
<1> SUFFICES ASSUME TreeInv PROVE TheMap = [p \in Pages |-> At(tables, p, 0)]
  OBVIOUS
<1>1. \A p \in Pages : vm_lookup(tables, p) = At(tables, p, 0)
  BY LookupIsAt DEF TreeInv
<1> QED
  BY <1>1, Zenon DEF TheMap

LEMMA MapIsAtNext ==
  ASSUME TreeInv, TreeInv', [Next]_vars
  PROVE  TheMap' = [p \in Pages |-> At(tables', p, 0)]
<1>1. PICK u : u = tables'
  OBVIOUS
<1>2. Good(u) /\ arch' = arch
  BY <1>1, CallsAndState DEF TreeInv
<1>3. \A p \in Pages : vm_lookup(u, p) = At(u, p, 0)
  BY <1>2, LookupIsAt
<1>4. TheMap' = [p \in Pages |-> vm_lookup(u, p)]
  BY <1>1, <1>2, Zenon DEF TheMap, vm_lookup, walk
<1> QED
  BY <1>1, <1>3, <1>4, Zenon

LEMMA FlatInit == Init => TheMap = [p \in Pages |-> 0]
<1> SUFFICES ASSUME Init PROVE TheMap = [p \in Pages |-> 0]
  OBVIOUS
<1>1. \A p \in Pages : At(tables, p, 0) = 0
  BY EmptyTree DEF Init
<1>2. TheMap = [p \in Pages |-> At(tables, p, 0)]
  BY TreeInvInit, MapIsAt
<1> QED
  BY <1>1, <1>2, Zenon

LEMMA FlatStep ==
  ASSUME FailSpan = "leaf", TreeInv, TreeInv', [Next]_vars
  PROVE  Flat!Next \/ TheMap' = TheMap
<1>1. PICK m : m = TheMap
  OBVIOUS
<1>2. PICK v : v = TheMap'
  OBVIOUS
<1>3. PICK u : u = tables'
  OBVIOUS
<1>4. m = [p \in Pages |-> At(tables, p, 0)] /\ v = [p \in Pages |-> At(u, p, 0)]
  BY <1>1, <1>2, <1>3, MapIsAt, MapIsAtNext
<1>5. Moved(u)
  BY <1>3, NextMoves
<1>6. v \in [Pages -> Nat]
  BY <1>4, <1>5, AtNat DEF Moved
<1>7. ASSUME NEW va \in Pages, NEW n \in Lengths \cup {1}, NEW pa \in Bases, NEW k \in 0 .. n,
             MapsPart(u, va, pa, k)
      PROVE  Flat!Next
  <2>1. \A p \in Pages : v[p] = IF va <= p /\ p < va + k THEN pa + (p - va) ELSE m[p]
    BY <1>4, <1>7 DEF MapsPart
  <2>2. /\ \A p \in Pages \ {p \in Pages : va <= p /\ p < va + k} : v[p] = m[p]
        /\ \A p \in {p \in Pages : va <= p /\ p < va + k} : v[p] = pa + (p - va)
    BY <2>1
  <2> QED BY <1>1, <1>2, <1>6, <2>2, Zenon DEF Flat!Next, Flat!Map, Flat!Range, TheMap
<1>8. ASSUME NEW va \in Pages, NEW n \in Lengths, Clears(u, va, n)
      PROVE  Flat!Next
  <2>1. \A p \in Pages : v[p] = IF va <= p /\ p < va + n THEN 0 ELSE m[p]
    BY <1>4, <1>8 DEF Clears
  <2>2. /\ \A p \in Pages \ {p \in Pages : va <= p /\ p < va + n} : v[p] = m[p]
        /\ \A p \in {p \in Pages : va <= p /\ p < va + n} : v[p] = 0
    BY <2>1
  <2> QED BY <1>1, <1>2, <1>6, <2>2, Zenon DEF Flat!Next, Flat!Unmap, Flat!Range, TheMap
<1>9. ASSUME SameMap(u) PROVE TheMap' = TheMap
  BY <1>1, <1>2, <1>4, <1>9, Zenon DEF SameMap
<1>10. ASSUME NEW va \in Pages, NEW pa \in Bases, MapsPart(u, va, pa, 1) PROVE Flat!Next
  <2>1. 1 \in Lengths \cup {1} /\ 1 \in 0 .. 1
    OBVIOUS
  <2> QED BY <1>7, <1>10, <2>1
<1> QED
  BY <1>5, <1>7, <1>8, <1>9, <1>10 DEF Moved

(* The tree of tables implements the flat map its callers rely on:         *)
(* map_region changes the translations of its own range, of a first part   *)
(* of it when it fails, unmap_vma clears its own range, and no call, page  *)
(* fault or failed allocation changes what vm_lookup returns elsewhere.    *)
THEOREM Refinement == ASSUME FailSpan = "leaf" PROVE Spec => ImplementsFlatMap
<1>1. Init => Flat!Init
  BY FlatInit DEF Flat!Init, TheMap
<1>2. TreeInv /\ TreeInv' /\ [Next]_vars => [Flat!Next]_TheMap
  BY FlatStep
<1>3. TheMap = [p \in Pages |-> vm_lookup(tables, p)]
  BY DEF TheMap
<1>4. TreeInv /\ TreeInv' /\ [Next]_vars => [Flat!Next]_([p \in Pages |-> vm_lookup(tables, p)])
  BY <1>2 DEF TheMap
<1> QED
  BY <1>1, <1>4, Invariance, PTL DEF Spec, ImplementsFlatMap, Flat!Spec

(* munmap changes the translation of no page outside the area it removes.  *)
(* unmap_vma carries the level of one walk into the next; with the areas   *)
(* of FailSpan "leaf" that level is the leaf level, or the whole area is   *)
(* without a leaf table.                                                   *)
THEOREM MunmapKeepsOthers == ASSUME FailSpan = "leaf" PROVE Spec => MunmapOnlyItsRange
<1> DEFINE Only == \A a \in areas \ areas', p \in Pages :
                     ~ Covers(a, p) => vm_lookup(tables, p)' = vm_lookup(tables, p)
<1>1. ASSUME TreeInv, TreeInv', [Next]_vars PROVE Only
  <2> SUFFICES ASSUME NEW a \in areas \ areas', NEW p \in Pages, ~ Covers(a, p)
               PROVE  vm_lookup(tables, p)' = vm_lookup(tables, p)
    OBVIOUS
  <2>1. \/ areas \subseteq areas'
        \/ \E b \in areas : sys_munmap(b)
    <3>1. ASSUME NEW va, NEW n, NEW pa, NEW room, sys_mmap(va, n, pa, room)
          PROVE  areas \subseteq areas'
      BY <3>1, Zenon DEF sys_mmap, Stop
    <3>2. ASSUME NEW va, NEW n, NEW pa, NEW room, sys_brk(va, n, pa, room)
          PROVE  areas' = areas
      BY <3>2, Zenon DEF sys_brk
    <3>3. ASSUME NEW va, NEW pa, NEW read, NEW room, pagefault(va, pa, read, room)
          PROVE  areas' = areas
      BY <3>3, Zenon DEF pagefault, Stop
    <3>4. CASE UNCHANGED vars
      BY <3>4 DEF vars
    <3>5. CASE Next
      BY <3>1, <3>2, <3>3, <3>5 DEF Next
    <3> QED BY <1>1, <3>4, <3>5
  <2>2. PICK b \in areas : sys_munmap(b)
    BY <2>1
  <2>3. a = b
    BY <2>2 DEF sys_munmap
  <2>4. PICK u : u = tables'
    OBVIOUS
  <2>5. Clears(u, a.start, a.size)
    BY <1>1, <2>2, <2>3, <2>4, MunmapMoves, Zenon
  <2>6. At(u, p, 0) = At(tables, p, 0)
    BY <2>5 DEF Clears, Covers
  <2>7. TheMap[p] = At(tables, p, 0) /\ TheMap'[p] = At(u, p, 0)
    BY <1>1, <2>4, MapIsAt, MapIsAtNext
  <2>8. TheMap[p] = vm_lookup(tables, p) /\ TheMap'[p] = vm_lookup(tables, p)'
    BY Zenon DEF TheMap
  <2> QED BY <2>6, <2>7, <2>8, Zenon
<1>2. TreeInv /\ TreeInv' /\ [Next]_vars => [Only]_vars
  BY <1>1
<1> QED
  BY <1>2, Invariance, PTL DEF Spec, MunmapOnlyItsRange
=============================================================================
