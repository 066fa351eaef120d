----------------------------- MODULE PfsProofs -----------------------------
(***************************************************************************)
(* The persistent file system for every size of the table, the disk, the   *)
(* sectors and the files, with any number of stale descriptors.            *)
(*                                                                         *)
(* Extents and their growth are recursive functions; what they compute is  *)
(* shown by induction over the number of extents and of sectors added      *)
(* (Induct takes the set of numbers a statement holds for).                *)
(***************************************************************************)
EXTENDS Pfs, NaturalsInduction, WellFoundedInduction, TLAPS

\* A set of numbers that is not empty has a least one.
LEMMA Least ==
  ASSUME NEW S, S \subseteq Nat, S # {}
  PROVE  \E m \in S : \A k \in S : m <= k
<1> DEFINE Before == {ss \in Nat \X Nat : ss[1] < ss[2]}
<1>1. IsWellFoundedOn(Before, Nat)
  BY NatLessThanWellFounded DEF OpToRel
<1> HIDE DEF Before
<1>2. PICK m \in S : \A k \in S : <<k, m>> \notin Before
  BY <1>1, WFMin
<1>3. \A k \in S : k \in Nat /\ m \in Nat /\ ~(k < m)
  BY <1>2 DEF Before
<1> QED
  BY <1>3

\* Induction, for the set of numbers a statement holds for.
LEMMA Induct ==
  ASSUME NEW S, 0 \in S, \A n \in Nat : n \in S => n + 1 \in S
  PROVE  \A n \in Nat : n \in S
<1> SUFFICES ASSUME NEW n \in Nat, n \notin S PROVE FALSE
  OBVIOUS
<1> DEFINE Rest == Nat \ S
<1>1. PICK m \in Rest : \A k \in Rest : m <= k
  <2>1. Rest \subseteq Nat /\ Rest # {}
    OBVIOUS
  <2> HIDE DEF Rest
  <2> QED
    BY <2>1, Least
<1>2. m \in Nat /\ m # 0 /\ m - 1 \in Nat /\ m - 1 \notin Rest /\ (m - 1) + 1 = m
  BY <1>1
<1> QED
  BY <1>1, <1>2
-----------------------------------------------------------------------------
(* The sectors of a list of extents *)

Run(x) == [j \in 1 .. x.n |-> x.start + j - 1]

IsUpto(u, f, c) == u = [k \in 0 .. c |-> IF k = 0 THEN <<>> ELSE u[k - 1] \o Run(f[k])]

\* The sectors of f[1], ..., f[c]
Sec(f, c) == LET u == CHOOSE u : IsUpto(u, f, c) IN u[c]

\* SectorsOf is Sec of the entry's extents.
LEMMA SectorsAreSec ==
  ASSUME NEW e
  PROVE  SectorsOf(e) = Sec(e.ext, e.cnt)
  BY DEF SectorsOf, Sec, IsUpto, Run

\* The recursion has a solution.
LEMMA UptoExists ==
  ASSUME NEW f, NEW c \in Nat
  PROVE  \E u : IsUpto(u, f, c)
<1> DEFINE S == {n \in Nat : \E u : IsUpto(u, f, n)}
<1>1. 0 \in S
  <2> DEFINE u0 == [k \in 0 .. 0 |-> <<>>]
  <2>1. IsUpto(u0, f, 0)
    BY DEF IsUpto
  <2> QED
    BY <2>1
<1>2. ASSUME NEW n \in Nat, n \in S PROVE n + 1 \in S
  <2>1. PICK u : IsUpto(u, f, n)
    BY <1>2
  <2> DEFINE v == [k \in 0 .. n + 1 |-> IF k = n + 1 THEN u[n] \o Run(f[n + 1]) ELSE u[k]]
  <2>2. ASSUME NEW k \in 0 .. n + 1
        PROVE  v[k] = IF k = 0 THEN <<>> ELSE v[k - 1] \o Run(f[k])
    <3>1. CASE k = n + 1
      <4>1. k # 0 /\ k - 1 = n /\ n \in 0 .. n + 1 /\ n # n + 1
        BY <3>1
      <4>2. v[k] = u[n] \o Run(f[k]) /\ v[n] = u[n]
        BY <3>1, <4>1
      <4> QED
        BY <4>1, <4>2
    <3>2. CASE k # n + 1
      <4>1. k \in 0 .. n /\ (k # 0 => k - 1 \in 0 .. n + 1 /\ k - 1 # n + 1)
        BY <3>2
      <4>2. u[k] = IF k = 0 THEN <<>> ELSE u[k - 1] \o Run(f[k])
        BY <2>1, <4>1 DEF IsUpto
      <4> QED
        BY <3>2, <4>1, <4>2
    <3> QED
      BY <3>1, <3>2
  <2>3. v = [k \in 0 .. n + 1 |-> v[k]]
    OBVIOUS
  <2> HIDE DEF v
  <2>4. IsUpto(v, f, n + 1)
    BY <2>2, <2>3 DEF IsUpto
  <2> QED
    BY <2>4
<1> HIDE DEF S
<1>3. c \in S
  BY <1>1, <1>2, Induct
<1> QED
  BY <1>3 DEF S

\* The solutions agree.
LEMMA UptoUnique ==
  ASSUME NEW f, NEW c \in Nat, NEW d \in Nat, NEW u, NEW v, IsUpto(u, f, c), IsUpto(v, f, d),
         NEW k \in Nat, k <= c, k <= d
  PROVE  u[k] = v[k]
<1> DEFINE S == {n \in Nat : n <= c /\ n <= d => u[n] = v[n]}
<1>1. 0 \in S
  <2>1. u[0] = <<>> /\ v[0] = <<>>
    BY DEF IsUpto
  <2> QED
    BY <2>1
<1>2. ASSUME NEW n \in Nat, n \in S PROVE n + 1 \in S
  <2> SUFFICES ASSUME n + 1 <= c, n + 1 <= d PROVE u[n + 1] = v[n + 1]
    OBVIOUS
  <2>1. u[n] = v[n]
    BY <1>2
  <2>2. n + 1 \in 0 .. c /\ n + 1 \in 0 .. d /\ n + 1 # 0 /\ (n + 1) - 1 = n
    OBVIOUS
  <2>3. u[n + 1] = u[n] \o Run(f[n + 1])
    BY <2>2 DEF IsUpto
  <2>4. v[n + 1] = v[n] \o Run(f[n + 1])
    BY <2>2 DEF IsUpto
  <2> QED
    BY <2>1, <2>3, <2>4
<1> HIDE DEF S
<1>3. k \in S
  BY <1>1, <1>2, Induct
<1> QED
  BY <1>3 DEF S

\* The two equations of the recursion.
LEMMA SecZero ==
  ASSUME NEW f
  PROVE  Sec(f, 0) = <<>>
<1> DEFINE u == CHOOSE u : IsUpto(u, f, 0)
<1>1. IsUpto(u, f, 0) /\ Sec(f, 0) = u[0]
  BY UptoExists DEF Sec
<1> HIDE DEF u
<1> QED
  BY <1>1 DEF IsUpto

\* The sectors of one more extent come last.
LEMMA SecStep ==
  ASSUME NEW f, NEW c \in Nat
  PROVE  Sec(f, c + 1) = Sec(f, c) \o Run(f[c + 1])
<1> DEFINE U(n) == CHOOSE u : IsUpto(u, f, n)
<1>1. IsUpto(U(c), f, c) /\ IsUpto(U(c + 1), f, c + 1)
  BY UptoExists
<1>2. Sec(f, c) = U(c)[c] /\ Sec(f, c + 1) = U(c + 1)[c + 1]
  BY DEF Sec
<1> HIDE DEF U
<1>3. U(c + 1)[c + 1] = U(c + 1)[c] \o Run(f[c + 1])
  <2>1. c + 1 \in 0 .. c + 1 /\ c + 1 # 0 /\ (c + 1) - 1 = c
    OBVIOUS
  <2> QED
    BY <1>1, <2>1 DEF IsUpto
<1>4. U(c + 1)[c] = U(c)[c]
  BY <1>1, UptoUnique
<1> QED
  BY <1>2, <1>3, <1>4
-----------------------------------------------------------------------------
(* What the list of sectors is *)

\* f[1], ..., f[c] are extents.
Exts(f, c) == \A k \in 1 .. c : f[k].start \in Nat /\ f[k].n \in Nat

\* Sector s lies in extent x, in one of f[1], ..., f[c].
In(x, s)         == x.start <= s /\ s < x.start + x.n
Covers(f, c, s)  == \E k \in 1 .. c : In(f[k], s)

\* A run of consecutive sectors.
LEMMA RunFacts ==
  ASSUME NEW x, x.start \in Nat, x.n \in Nat
  PROVE  /\ Run(x) \in Seq(Nat) /\ Len(Run(x)) = x.n
         /\ \A j \in 1 .. x.n : Run(x)[j] = x.start + j - 1
         /\ \A s \in Nat : In(x, s) <=> \E j \in 1 .. x.n : Run(x)[j] = s
<1>1. Run(x) \in Seq(Nat) /\ Len(Run(x)) = x.n /\ \A j \in 1 .. x.n : Run(x)[j] = x.start + j - 1
  BY DEF Run
<1>2. ASSUME NEW s \in Nat, In(x, s) PROVE \E j \in 1 .. x.n : Run(x)[j] = s
  <2>1. s - x.start + 1 \in 1 .. x.n /\ x.start + (s - x.start + 1) - 1 = s
    BY <1>2 DEF In
  <2> QED
    BY <1>1, <2>1
<1>3. ASSUME NEW s \in Nat, NEW j \in 1 .. x.n, Run(x)[j] = s PROVE In(x, s)
  BY <1>1, <1>3 DEF In
<1> QED
  BY <1>1, <1>2, <1>3

\* Two facts of arithmetic, out of the way of the quantified hypotheses.
LEMMA AddMono ==
  ASSUME NEW a \in Nat, NEW b \in Nat, NEW c \in Nat, NEW d \in Nat, a <= b, c <= d
  PROVE  a + c <= b + d
  OBVIOUS

\* The same, for positions in a run.
LEMMA AddCancel ==
  ASSUME NEW a \in Nat, NEW p \in Nat, NEW q \in Nat, a + p - 1 = a + q - 1
  PROVE  p = q
  OBVIOUS

\* Where the elements of a concatenation come from.
LEMMA Concat ==
  ASSUME NEW a \in Seq(Nat), NEW b \in Seq(Nat)
  PROVE  /\ a \o b \in Seq(Nat) /\ Len(a \o b) = Len(a) + Len(b) /\ Len(a) \in Nat /\ Len(b) \in Nat
         /\ \A j \in 1 .. Len(a) : j \in 1 .. Len(a \o b) /\ (a \o b)[j] = a[j]
         /\ \A j \in 1 .. Len(b) : Len(a) + j \in 1 .. Len(a \o b) /\ (a \o b)[Len(a) + j] = b[j]
         /\ \A j \in 1 .. Len(a \o b) : \/ j \in 1 .. Len(a) /\ (a \o b)[j] = a[j]
                                       \/ \E i \in 1 .. Len(b) : j = Len(a) + i /\ (a \o b)[j] = b[i]
<1>1. a \o b \in Seq(Nat) /\ Len(a \o b) = Len(a) + Len(b) /\ Len(a) \in Nat /\ Len(b) \in Nat
  OBVIOUS
<1>2. \A j \in 1 .. Len(a) + Len(b) : (a \o b)[j] = IF j <= Len(a) THEN a[j] ELSE b[j - Len(a)]
  OBVIOUS
<1>3. ASSUME NEW j \in 1 .. Len(a) PROVE j \in 1 .. Len(a) + Len(b) /\ (a \o b)[j] = a[j]
  BY <1>1, <1>2
<1>4. ASSUME NEW j \in 1 .. Len(b) PROVE Len(a) + j \in 1 .. Len(a) + Len(b) /\ (a \o b)[Len(a) + j] = b[j]
  <2>1. Len(a) + j \in 1 .. Len(a) + Len(b) /\ ~(Len(a) + j <= Len(a)) /\ (Len(a) + j) - Len(a) = j
    BY <1>1
  <2> QED
    BY <1>2, <2>1
<1>5. ASSUME NEW j \in 1 .. Len(a) + Len(b), j \notin 1 .. Len(a)
      PROVE  \E i \in 1 .. Len(b) : j = Len(a) + i /\ (a \o b)[j] = b[i]
  <2>1. j - Len(a) \in 1 .. Len(b) /\ ~(j <= Len(a)) /\ j = Len(a) + (j - Len(a))
    BY <1>1, <1>5
  <2> QED
    BY <1>2, <2>1
<1> QED
  BY <1>1, <1>3, <1>4, <1>5

\* The list is a sequence of sectors.
LEMMA SecType ==
  ASSUME NEW f, NEW c \in Nat, Exts(f, c)
  PROVE  Sec(f, c) \in Seq(Nat)
<1> DEFINE S == {n \in Nat : n <= c => Sec(f, n) \in Seq(Nat)}
<1>1. 0 \in S
  <2>1. Sec(f, 0) = <<>> /\ <<>> \in Seq(Nat)
    BY SecZero
  <2> QED
    BY <2>1
<1>2. ASSUME NEW n \in Nat, n \in S PROVE n + 1 \in S
  <2> SUFFICES ASSUME n + 1 <= c PROVE Sec(f, n + 1) \in Seq(Nat)
    OBVIOUS
  <2>1. Sec(f, n) \in Seq(Nat) /\ n + 1 \in 1 .. c
    BY <1>2
  <2>2. Run(f[n + 1]) \in Seq(Nat)
    BY <2>1, RunFacts DEF Exts
  <2>3. Sec(f, n + 1) = Sec(f, n) \o Run(f[n + 1])
    BY SecStep
  <2> QED
    BY ZenonT(60), <2>1, <2>2, <2>3, Concat
<1> HIDE DEF S
<1>3. c \in S
  BY <1>1, <1>2, Induct
<1> QED
  BY <1>3 DEF S

\* The sectors of the list are those of its extents.
LEMMA SecRange ==
  ASSUME NEW f, NEW c \in Nat, Exts(f, c), NEW s
  PROVE  s \in Range(Sec(f, c)) <=> s \in Nat /\ Covers(f, c, s)
<1> DEFINE S == {n \in Nat : n <= c => (s \in Range(Sec(f, n)) <=> s \in Nat /\ Covers(f, n, s))}
<1>1. 0 \in S
  <2>1. Sec(f, 0) = <<>>
    BY SecZero
  <2>2. s \notin Range(<<>>)
    BY DEF Range
  <2> QED
    BY <2>1, <2>2 DEF Covers
<1>2. ASSUME NEW n \in Nat, n \in S PROVE n + 1 \in S
  <2> SUFFICES ASSUME n + 1 <= c
               PROVE  s \in Range(Sec(f, n + 1)) <=> s \in Nat /\ Covers(f, n + 1, s)
    OBVIOUS
  <2> DEFINE a == Sec(f, n)  b == Run(f[n + 1])
  <2>1. n + 1 \in 1 .. c /\ Exts(f, n) /\ f[n + 1].start \in Nat /\ f[n + 1].n \in Nat
    BY DEF Exts
  <2>2. a \in Seq(Nat) /\ b \in Seq(Nat) /\ Sec(f, n + 1) = a \o b
    BY <2>1, SecType, SecStep, RunFacts
  <2>3. s \in Range(a) <=> s \in Nat /\ Covers(f, n, s)
    BY <1>2
  <2>4. s \in Range(b) <=> s \in Nat /\ In(f[n + 1], s)
    <3>1. DOMAIN b = 1 .. f[n + 1].n
      BY DEF Run
    <3>2. \A j \in 1 .. f[n + 1].n : b[j] \in Nat
      BY SMTT(40), <2>1, RunFacts
    <3>3. s \in Nat => (In(f[n + 1], s) <=> \E j \in 1 .. f[n + 1].n : b[j] = s)
      BY <2>1, RunFacts
    <3> HIDE DEF b
    <3>4. s \in Range(b) <=> \E j \in 1 .. f[n + 1].n : b[j] = s
      BY <3>1 DEF Range
    <3> QED
      BY <3>2, <3>3, <3>4
  <2>5. Covers(f, n + 1, s) <=> Covers(f, n, s) \/ In(f[n + 1], s)
    <3>1. 1 .. n + 1 = (1 .. n) \cup {n + 1}
      OBVIOUS
    <3> QED
      BY <3>1 DEF Covers
  <2> HIDE DEF a, b
  <2>6. s \in Range(a \o b) <=> s \in Range(a) \/ s \in Range(b)
    <3>1. DOMAIN a = 1 .. Len(a) /\ DOMAIN b = 1 .. Len(b) /\ DOMAIN (a \o b) = 1 .. Len(a \o b)
      BY <2>2, Concat
    <3>2. \A q \in Seq(Nat) : s \in Range(q) <=> \E j \in 1 .. Len(q) : q[j] = s
      BY DEF Range
    <3>3. a \o b \in Seq(Nat)
      BY <2>2
    <3> DEFINE ab == a \o b
    <3>a. /\ \A x \in 1 .. Len(a) : x \in 1 .. Len(ab) /\ ab[x] = a[x]
          /\ \A x \in 1 .. Len(b) : Len(a) + x \in 1 .. Len(ab) /\ ab[Len(a) + x] = b[x]
          /\ \A x \in 1 .. Len(ab) : \/ x \in 1 .. Len(a) /\ ab[x] = a[x]
                                    \/ \E i \in 1 .. Len(b) : x = Len(a) + i /\ ab[x] = b[i]
      BY <2>2, Concat
    <3>b. /\ s \in Range(a) <=> \E x \in 1 .. Len(a) : a[x] = s
          /\ s \in Range(b) <=> \E x \in 1 .. Len(b) : b[x] = s
          /\ s \in Range(ab) <=> \E x \in 1 .. Len(ab) : ab[x] = s
      BY <2>2, <3>2, <3>3
    <3> HIDE DEF ab
    <3>4. s \in Range(ab) => s \in Range(a) \/ s \in Range(b)
      BY Zenon, <3>a, <3>b
    <3>5. s \in Range(a) => s \in Range(ab)
      BY Zenon, <3>a, <3>b
    <3>6. s \in Range(b) => s \in Range(ab)
      BY Zenon, <3>a, <3>b
    <3> USE DEF ab
    <3> QED
      BY <3>4, <3>5, <3>6
  <2> QED
    BY <2>2, <2>3, <2>4, <2>5, <2>6
<1> HIDE DEF S
<1>3. c \in S
  BY <1>1, <1>2, Induct
<1> QED
  BY <1>3 DEF S

\* It depends on nothing but the extents.
LEMMA SecSame ==
  ASSUME NEW f, NEW g, NEW c \in Nat, \A k \in 1 .. c : f[k] = g[k]
  PROVE  Sec(f, c) = Sec(g, c)
<1> DEFINE S == {n \in Nat : n <= c => Sec(f, n) = Sec(g, n)}
<1>1. 0 \in S
  BY SecZero
<1>2. ASSUME NEW n \in Nat, n \in S PROVE n + 1 \in S
  <2> SUFFICES ASSUME n + 1 <= c PROVE Sec(f, n + 1) = Sec(g, n + 1)
    OBVIOUS
  <2>1. Sec(f, n) = Sec(g, n) /\ f[n + 1] = g[n + 1]
    BY <1>2
  <2> QED
    BY <2>1, SecStep
<1> HIDE DEF S
<1>3. c \in S
  BY <1>1, <1>2, Induct
<1> QED
  BY <1>3 DEF S

\* One more extent adds its sectors to the length.
LEMMA LenStep ==
  ASSUME NEW f, NEW c \in Nat, Exts(f, c + 1)
  PROVE  /\ Len(Sec(f, c + 1)) = Len(Sec(f, c)) + f[c + 1].n
         /\ Len(Sec(f, c)) \in Nat /\ Len(Sec(f, c + 1)) \in Nat /\ f[c + 1].n \in Nat
<1>1. Exts(f, c) /\ f[c + 1].start \in Nat /\ f[c + 1].n \in Nat
  BY DEF Exts
<1>2. Sec(f, c) \in Seq(Nat) /\ Run(f[c + 1]) \in Seq(Nat) /\ Len(Run(f[c + 1])) = f[c + 1].n
  BY <1>1, SecType, RunFacts
<1>3. Sec(f, c + 1) = Sec(f, c) \o Run(f[c + 1])
  BY SecStep
<1> QED
  BY <1>1, <1>2, <1>3, Concat

\* More and longer extents, more sectors.
LEMMA LenMono ==
  ASSUME NEW f, NEW g, NEW c \in Nat, NEW d \in Nat, c <= d, Exts(f, c), Exts(g, d),
         \A k \in 1 .. c : f[k].n <= g[k].n
  PROVE  Len(Sec(f, c)) <= Len(Sec(g, d))
<1> DEFINE S == {n \in Nat : n <= d => Len(Sec(f, IF n <= c THEN n ELSE c)) <= Len(Sec(g, n))}
<1>1. 0 \in S
  BY SecZero
<1>2. ASSUME NEW n \in Nat, n \in S PROVE n + 1 \in S
  <2> SUFFICES ASSUME n + 1 <= d
               PROVE  Len(Sec(f, IF n + 1 <= c THEN n + 1 ELSE c)) <= Len(Sec(g, n + 1))
    OBVIOUS
  <2>1. Exts(g, n + 1)
    BY DEF Exts
  <2>2. /\ Len(Sec(g, n + 1)) = Len(Sec(g, n)) + g[n + 1].n
        /\ Len(Sec(g, n)) \in Nat /\ g[n + 1].n \in Nat
    BY <2>1, LenStep
  <2>3. CASE n + 1 <= c
    <3>1. Exts(f, n + 1) /\ f[n + 1].n <= g[n + 1].n
      BY <2>3 DEF Exts
    <3>2. /\ Len(Sec(f, n + 1)) = Len(Sec(f, n)) + f[n + 1].n
          /\ Len(Sec(f, n)) \in Nat /\ f[n + 1].n \in Nat
      BY <3>1, LenStep
    <3>3. Len(Sec(f, n)) <= Len(Sec(g, n))
      BY <1>2, <2>3
    <3>4. Len(Sec(f, n + 1)) <= Len(Sec(g, n + 1))
      <4> DEFINE p == Len(Sec(f, n))  q == Len(Sec(g, n))
      <4>1. p \in Nat /\ q \in Nat /\ p <= q
        BY <2>2, <3>2, <3>3
      <4> HIDE DEF p, q
      <4>2. p + f[n + 1].n <= q + g[n + 1].n
        BY <2>2, <3>1, <3>2, <4>1, AddMono
      <4> QED
        BY <2>2, <3>2, <4>2 DEF p, q
    <3> QED
      BY <2>3, <3>4
  <2>4. CASE ~(n + 1 <= c)
    <3>1. (IF n <= c THEN n ELSE c) = c
      BY <2>4
    <3>2. Len(Sec(f, c)) <= Len(Sec(g, n)) /\ Len(Sec(f, c)) \in Nat
      BY <1>2, <3>1, SecType
    <3> QED
      BY <2>2, <2>4, <3>2
  <2> QED
    BY <2>3, <2>4
<1> HIDE DEF S
<1>3. d \in S
  BY <1>1, <1>2, Induct
<1>4. (IF d <= c THEN d ELSE c) = c
  OBVIOUS
<1> QED
  BY <1>3, <1>4 DEF S

\* Extents that follow each other have no sector twice.
LEMMA SecInjective ==
  ASSUME NEW f, NEW c \in Nat, Exts(f, c),
         \A j, k \in 1 .. c : j < k => f[j].start + f[j].n <= f[k].start
  PROVE  IsInjective(Sec(f, c))
<1> DEFINE S == {n \in Nat : n <= c => \A x, y \in 1 .. Len(Sec(f, n)) : Sec(f, n)[x] = Sec(f, n)[y] => x = y}
<1>1. 0 \in S
  BY SecZero
<1>2. ASSUME NEW n \in Nat, n \in S PROVE n + 1 \in S
  <2> DEFINE a == Sec(f, n)  b == Run(f[n + 1])
  <2> SUFFICES ASSUME n + 1 <= c, NEW x \in 1 .. Len(Sec(f, n + 1)), NEW y \in 1 .. Len(Sec(f, n + 1)),
                      Sec(f, n + 1)[x] = Sec(f, n + 1)[y]
               PROVE  x = y
    OBVIOUS
  <2>1. n + 1 \in 1 .. c /\ Exts(f, n) /\ f[n + 1].start \in Nat /\ f[n + 1].n \in Nat
    BY DEF Exts
  <2>2. a \in Seq(Nat) /\ b \in Seq(Nat) /\ Sec(f, n + 1) = a \o b
    BY <2>1, SecType, SecStep, RunFacts
  <2>3. \A p, q \in 1 .. Len(a) : a[p] = a[q] => p = q
    BY <1>2
  <2>4. \A p \in 1 .. Len(b) : b[p] = f[n + 1].start + p - 1
    BY <2>1, RunFacts
  <2>5. ASSUME NEW p \in 1 .. Len(a) PROVE a[p] \in Nat /\ a[p] < f[n + 1].start
    <3>1. a[p] \in Range(a) /\ a[p] \in Nat
      BY SMTT(40), <2>2 DEF Range
    <3>2. PICK k \in 1 .. n : In(f[k], a[p])
      BY <2>1, <3>1, SecRange DEF Covers
    <3>3. k \in 1 .. c /\ k < n + 1 /\ f[k].start + f[k].n <= f[n + 1].start
      BY <2>1
    <3> QED
      BY SMTT(40), <2>1, <3>1, <3>2, <3>3 DEF In, Exts
  <2> HIDE DEF a, b
  <2>6. ASSUME NEW z \in 1 .. Len(a \o b)
        PROVE  \/ z \in 1 .. Len(a) /\ (a \o b)[z] = a[z]
               \/ \E k \in 1 .. Len(b) : z = Len(a) + k /\ (a \o b)[z] = b[k]
    BY <2>2, Concat
  <2>7. ASSUME NEW p \in 1 .. Len(a), NEW q \in 1 .. Len(b) PROVE a[p] # b[q]
    BY SMTT(40), <2>1, <2>4, <2>5
  <2>8. ASSUME NEW p \in 1 .. Len(b), NEW q \in 1 .. Len(b), b[p] = b[q] PROVE p = q
    <3>1. b[p] = f[n + 1].start + p - 1 /\ b[q] = f[n + 1].start + q - 1 /\ p \in Nat /\ q \in Nat
      BY <2>4
    <3> QED
      BY <2>1, <2>8, <3>1, AddCancel
  <2>9. x \in 1 .. Len(a \o b) /\ y \in 1 .. Len(a \o b) /\ (a \o b)[x] = (a \o b)[y]
    BY <2>2
  <2>10. CASE x \in 1 .. Len(a) /\ (a \o b)[x] = a[x]
    BY ZenonT(60), <2>3, <2>6, <2>7, <2>9, <2>10
  <2>11. ASSUME NEW k \in 1 .. Len(b), x = Len(a) + k, (a \o b)[x] = b[k] PROVE x = y
    BY SMTT(40), <2>6, <2>7, <2>8, <2>9, <2>11
  <2> QED
    BY <2>6, <2>9, <2>10, <2>11
<1> HIDE DEF S
<1>3. c \in S
  BY <1>1, <1>2, Induct
<1>4. Sec(f, c) \in Seq(Nat)
  BY SecType
<1> QED
  BY <1>3, <1>4 DEF S, IsInjective
-----------------------------------------------------------------------------
(* Growth *)

ExtN == [start : Nat, n : Nat]

\* Extent y is x, or x with sectors added.
Longer(x, y) == y.start = x.start /\ x.n <= y.n

\* pfs_find_free_run: the sector found is behind the start of the search and not
\* taken; DiskSectors if there is none.
LEMMA NextFreeFacts ==
  ASSUME NEW i, NEW from \in Nat
  PROVE  /\ NextFree(i, from) \in Nat
         /\ \/ NextFree(i, from) = DiskSectors
            \/ /\ NextFree(i, from) \in Sectors /\ NextFree(i, from) >= from
               /\ NextFree(i, from) \notin Taken(i)
<1> DEFINE free == {s \in Sectors : s >= from} \ Taken(i)
<1>1. CASE free = {}
  BY <1>1, PfsAssumption DEF NextFree
<1>2. CASE free # {}
  <2>1. free \subseteq Nat /\ \A s \in free : s \in Sectors /\ s >= from /\ s \notin Taken(i)
    BY PfsAssumption DEF Sectors
  <2>2. NextFree(i, from) = CHOOSE s \in free : \A t \in free : s <= t
    BY <1>2 DEF NextFree
  <2> HIDE DEF free
  <2>3. \E s \in free : \A t \in free : s <= t
    BY <1>2, <2>1, Least
  <2>4. NextFree(i, from) \in free
    BY <2>2, <2>3
  <2> QED
    BY <2>1, <2>4
<1> QED
  BY <1>1, <1>2

\* The end of the last extent.
LEMMA EndFacts ==
  ASSUME NEW x \in Seq(ExtN)
  PROVE  /\ End(x) \in Nat
         /\ x # <<>> => Len(x) \in 1 .. Len(x) /\ End(x) = x[Len(x)].start + x[Len(x)].n
         /\ x = <<>> => End(x) = DataStart
<1>1. x # <<>> => Len(x) \in 1 .. Len(x) /\ x[Len(x)] \in ExtN
  OBVIOUS
<1> QED
  BY <1>1, PfsAssumption DEF End, Last, ExtN

\* A sequence of extents is a list of extents.
LEMMA SeqExts ==
  ASSUME NEW x \in Seq(ExtN)
  PROVE  Exts(x, Len(x)) /\ Len(x) \in Nat
<1>1. \A k \in 1 .. Len(x) : x[k] \in ExtN
  OBVIOUS
<1>2. \A z \in ExtN : z.start \in Nat /\ z.n \in Nat
  BY DEF ExtN
<1> QED
  BY <1>1, <1>2 DEF Exts

\* One more sector: it lengthens the last extent or starts a new one, and is the
\* only sector added.
LEMMA ExtendedFacts ==
  ASSUME NEW x \in Seq(ExtN), NEW s \in Nat, NEW y, y = Extended(x, s)
  PROVE  /\ y \in Seq(ExtN) /\ y # <<>> /\ End(y) = s + 1
         /\ Len(x) \in Nat /\ Len(y) \in Nat /\ Len(x) <= Len(y)
         /\ \A k \in 1 .. Len(x) : Longer(x[k], y[k])
         /\ \A k \in 1 .. Len(y) : k < Len(y) => k \in 1 .. Len(x) /\ y[k] = x[k]
         /\ \/ Len(y) = Len(x) + 1 /\ y[Len(y)] = [start |-> s, n |-> 1]
            \/ Len(y) = Len(x) /\ End(x) = s /\ y[Len(y)] = [start |-> x[Len(x)].start, n |-> x[Len(x)].n + 1]
         /\ Len(Sec(y, Len(y))) = Len(Sec(x, Len(x))) + 1
<1>1. CASE x # <<>> /\ s = End(x)
  <2> DEFINE c == Len(x) - 1
  <2>1. c \in Nat /\ c + 1 = Len(x) /\ Len(x) \in 1 .. Len(x) /\ x[Len(x)] \in ExtN
    BY <1>1
  <2>2. y = [x EXCEPT ![Len(x)].n = @ + 1]
    BY <1>1 DEF Extended
  <2>3. /\ y \in Seq(ExtN) /\ Len(y) = Len(x)
        /\ \A k \in 1 .. Len(x) : k # Len(x) => y[k] = x[k]
        /\ y[Len(x)] = [start |-> x[Len(x)].start, n |-> x[Len(x)].n + 1]
    <3>1. [x[Len(x)] EXCEPT !.n = @ + 1] = [start |-> x[Len(x)].start, n |-> x[Len(x)].n + 1]
      BY <2>1 DEF ExtN
    <3>2. y = [x EXCEPT ![Len(x)] = [start |-> x[Len(x)].start, n |-> x[Len(x)].n + 1]]
      BY <2>1, <2>2, <3>1
    <3>3. [start |-> x[Len(x)].start, n |-> x[Len(x)].n + 1] \in ExtN
      BY <2>1 DEF ExtN
    <3> QED
      BY <2>1, <3>2, <3>3
  <2> HIDE DEF c
  <2>4. y # <<>> /\ End(y) = s + 1
    <3>1. y # <<>>
      BY <1>1, <2>3
    <3>2. End(y) = x[Len(x)].start + (x[Len(x)].n + 1)
      BY <2>3, <3>1, EndFacts
    <3>3. s = x[Len(x)].start + x[Len(x)].n
      BY <1>1, EndFacts
    <3> QED
      BY <2>1, <3>1, <3>2, <3>3 DEF ExtN
  <2>5. \A k \in 1 .. Len(x) : Longer(x[k], y[k])
    <3> SUFFICES ASSUME NEW k \in 1 .. Len(x) PROVE Longer(x[k], y[k])
      OBVIOUS
    <3>1. x[k] \in ExtN
      OBVIOUS
    <3>2. x[k].n \in Nat
      BY <3>1 DEF ExtN
    <3>3. CASE k # Len(x)
      BY <2>3, <3>2, <3>3 DEF Longer
    <3>4. CASE k = Len(x)
      <4>1. y[k].start = x[k].start /\ y[k].n = x[k].n + 1
        BY <2>3, <3>4
      <4> QED
        BY <3>2, <4>1 DEF Longer
    <3> QED
      BY <3>3, <3>4
  <2>6. Sec(y, c) = Sec(x, c)
    <3>1. \A k \in 1 .. c : y[k] = x[k]
      BY <2>1, <2>3
    <3> QED
      BY <2>1, <3>1, SecSame
  <2>7. /\ Len(Sec(x, c + 1)) = Len(Sec(x, c)) + x[c + 1].n
        /\ Len(Sec(y, c + 1)) = Len(Sec(y, c)) + y[c + 1].n
        /\ Len(Sec(x, c)) \in Nat /\ x[c + 1].n \in Nat
    <3>1. Exts(x, c + 1) /\ Exts(y, c + 1)
      BY <2>1, <2>3, SeqExts
    <3> QED
      BY <2>1, <3>1, LenStep
  <2>8. y[c + 1].n = x[c + 1].n + 1
    BY <2>1, <2>3
  <2>9. Len(Sec(y, Len(y))) = Len(Sec(x, Len(x))) + 1
    BY SMTT(40), <2>1, <2>3, <2>6, <2>7, <2>8
  <2> QED
    BY <1>1, <2>1, <2>3, <2>4, <2>5, <2>9
<1>2. CASE ~(x # <<>> /\ s = End(x))
  <2> DEFINE new == [start |-> s, n |-> 1]
  <2>1. y = Append(x, new) /\ new \in ExtN
    BY <1>2 DEF Extended, ExtN
  <2>2. new.start = s /\ new.n = 1
    OBVIOUS
  <2> HIDE DEF new
  <2>3. /\ y \in Seq(ExtN) /\ Len(y) = Len(x) + 1 /\ y # <<>> /\ y[Len(y)] = new
        /\ \A k \in 1 .. Len(x) : y[k] = x[k] /\ x[k] \in ExtN
    BY <2>1
  <2>4. End(y) = s + 1
    BY <2>2, <2>3, EndFacts
  <2>5. Sec(y, Len(x)) = Sec(x, Len(x))
    BY <2>3, SecSame
  <2>6. Len(Sec(y, Len(x) + 1)) = Len(Sec(x, Len(x))) + 1
    <3>1. Exts(y, Len(x) + 1)
      BY <2>3, SeqExts
    <3>2. Len(x) \in Nat /\ y[Len(x) + 1].n = 1
      BY <2>2, <2>3
    <3>3. Len(Sec(y, Len(x) + 1)) = Len(Sec(y, Len(x))) + y[Len(x) + 1].n
      BY <3>1, <3>2, LenStep
    <3> QED
      BY <2>5, <3>2, <3>3
  <2>7. \A k \in 1 .. Len(x) : Longer(x[k], y[k])
    <3>1. \A z \in ExtN : Longer(z, z)
      BY DEF ExtN, Longer
    <3> QED
      BY <2>3, <3>1
  <2>8. \A k \in 1 .. Len(y) : k < Len(y) => k \in 1 .. Len(x) /\ y[k] = x[k]
    BY <2>3
  <2> QED
    BY <2>3, <2>4, <2>6, <2>7, <2>8 DEF new
<1> QED
  BY <1>1, <1>2

IsGrown(g, i, m) ==
  g = [k \in 0 .. m |-> IF k = 0 THEN Extents(hdr[i]) ELSE Extended(g[k - 1], NextFree(i, End(g[k - 1])))]

\* pfs_grow_extents' recursion has a solution,
LEMMA GrownExists ==
  ASSUME NEW i, NEW c \in Nat
  PROVE  \E g : IsGrown(g, i, c)
<1> DEFINE Step(x) == Extended(x, NextFree(i, End(x)))
           S == {n \in Nat : \E g : IsGrown(g, i, n)}
<1>1. 0 \in S
  <2> DEFINE g0 == [k \in 0 .. 0 |-> Extents(hdr[i])]
  <2>1. IsGrown(g0, i, 0)
    BY DEF IsGrown
  <2> QED
    BY <2>1
<1>2. ASSUME NEW n \in Nat, n \in S PROVE n + 1 \in S
  <2>1. PICK u : IsGrown(u, i, n)
    BY <1>2
  <2> HIDE DEF Step
  <2>a. \A g, m : IsGrown(g, i, m) <=> g = [k \in 0 .. m |-> IF k = 0 THEN Extents(hdr[i]) ELSE Step(g[k - 1])]
    BY DEF IsGrown, Step
  <2> DEFINE v == [k \in 0 .. n + 1 |-> IF k = n + 1 THEN Step(u[n]) ELSE u[k]]
  <2>2. ASSUME NEW k \in 0 .. n + 1
        PROVE  v[k] = IF k = 0 THEN Extents(hdr[i]) ELSE Step(v[k - 1])
    <3>1. CASE k = n + 1
      <4>1. k # 0 /\ k - 1 = n /\ n \in 0 .. n + 1 /\ n # n + 1
        BY <3>1
      <4>2. v[k] = Step(u[n]) /\ v[n] = u[n]
        BY <3>1, <4>1
      <4> QED
        BY <4>1, <4>2
    <3>2. CASE k # n + 1
      <4>1. k \in 0 .. n /\ (k # 0 => k - 1 \in 0 .. n + 1 /\ k - 1 # n + 1)
        BY <3>2
      <4>2. u[k] = IF k = 0 THEN Extents(hdr[i]) ELSE Step(u[k - 1])
        BY <2>1, <2>a, <4>1
      <4> QED
        BY <3>2, <4>1, <4>2
    <3> QED
      BY <3>1, <3>2
  <2>3. v = [k \in 0 .. n + 1 |-> v[k]]
    OBVIOUS
  <2> HIDE DEF v
  <2>b. v = [k \in 0 .. n + 1 |-> IF k = 0 THEN Extents(hdr[i]) ELSE Step(v[k - 1])]
    BY <2>2, <2>3
  <2>4. IsGrown(v, i, n + 1)
    BY <2>a, <2>b
  <2> QED
    BY <2>4
<1> HIDE DEF S
<1>3. c \in S
  BY <1>1, <1>2, Induct
<1> QED
  BY <1>3 DEF S

\* only one,
LEMMA GrownUnique ==
  ASSUME NEW i, NEW c \in Nat, NEW d \in Nat, NEW u, NEW v, IsGrown(u, i, c), IsGrown(v, i, d),
         NEW k \in Nat, k <= c, k <= d
  PROVE  u[k] = v[k]
<1> DEFINE S == {n \in Nat : n <= c /\ n <= d => u[n] = v[n]}
<1>1. 0 \in S
  <2>1. u[0] = Extents(hdr[i]) /\ v[0] = Extents(hdr[i])
    BY DEF IsGrown
  <2> QED
    BY <2>1
<1>2. ASSUME NEW n \in Nat, n \in S PROVE n + 1 \in S
  <2> SUFFICES ASSUME n + 1 <= c, n + 1 <= d PROVE u[n + 1] = v[n + 1]
    OBVIOUS
  <2>1. u[n] = v[n]
    BY <1>2
  <2>2. n + 1 \in 0 .. c /\ n + 1 \in 0 .. d /\ n + 1 # 0 /\ (n + 1) - 1 = n
    OBVIOUS
  <2>3. u[n + 1] = Extended(u[n], NextFree(i, End(u[n])))
    BY <2>2 DEF IsGrown
  <2>4. v[n + 1] = Extended(v[n], NextFree(i, End(v[n])))
    BY <2>2 DEF IsGrown
  <2> QED
    BY <2>1, <2>3, <2>4
<1> HIDE DEF S
<1>3. k \in S
  BY <1>1, <1>2, Induct
<1> QED
  BY <1>3 DEF S

\* and goes one sector at a time.
LEMMA GrownStep ==
  ASSUME NEW i, NEW c \in Nat
  PROVE  /\ Grown(i, 0) = Extents(hdr[i])
         /\ Grown(i, c + 1) = Extended(Grown(i, c), NextFree(i, End(Grown(i, c))))
<1> DEFINE G(n) == CHOOSE g : IsGrown(g, i, n)
<1>1. IsGrown(G(0), i, 0) /\ IsGrown(G(c), i, c) /\ IsGrown(G(c + 1), i, c + 1)
  BY GrownExists
<1>2. Grown(i, 0) = G(0)[0] /\ Grown(i, c) = G(c)[c] /\ Grown(i, c + 1) = G(c + 1)[c + 1]
  BY DEF Grown, IsGrown
<1> HIDE DEF G
<1>3. G(c + 1)[c + 1] = Extended(G(c + 1)[c], NextFree(i, End(G(c + 1)[c])))
  <2>1. c + 1 \in 0 .. c + 1 /\ c + 1 # 0 /\ (c + 1) - 1 = c
    OBVIOUS
  <2> QED
    BY <1>1, <2>1 DEF IsGrown
<1>4. G(c + 1)[c] = G(c)[c]
  BY <1>1, GrownUnique
<1>5. G(0)[0] = Extents(hdr[i])
  BY <1>1 DEF IsGrown
<1> QED
  BY <1>2, <1>3, <1>4, <1>5
-----------------------------------------------------------------------------
(* The extents of an entry before and after it has grown *)

\* An entry's extents, as a sequence.
LEMMA ExtentsFacts ==
  ASSUME NEW e \in Entry
  PROVE  /\ Extents(e) \in Seq(Extent) /\ Extents(e) \in Seq(ExtN) /\ Len(Extents(e)) = e.cnt
         /\ \A k \in 1 .. e.cnt : Extents(e)[k] = e.ext[k] /\ e.ext[k] \in Extent
         /\ e.cnt \in 0 .. MaxExtents /\ Exts(e.ext, e.cnt)
         /\ Sec(Extents(e), e.cnt) = SectorsOf(e)
<1>1. e.cnt \in 0 .. MaxExtents /\ e.ext \in [1 .. MaxExtents -> Extent] /\ MaxExtents \in Nat
  BY PfsAssumption DEF Entry
<1>2. e.ext \in Seq(Extent) /\ Len(e.ext) = MaxExtents
  BY <1>1
<1>3. /\ Extents(e) \in Seq(Extent) /\ Len(Extents(e)) = e.cnt
      /\ \A k \in 1 .. e.cnt : Extents(e)[k] = e.ext[k] /\ e.ext[k] \in Extent
  BY <1>1, <1>2 DEF Extents
<1>4. Extent \subseteq ExtN /\ \A x \in Extent : x.start \in Nat /\ x.n \in Nat
  BY PfsAssumption DEF Extent, ExtN
<1>5. Extents(e) \in Seq(ExtN)
  BY <1>3, <1>4
<1>6. Exts(e.ext, e.cnt)
  BY <1>3, <1>4 DEF Exts
<1>7. Sec(Extents(e), e.cnt) = SectorsOf(e)
  BY <1>1, <1>3, SecSame, SectorsAreSec
<1> QED
  BY <1>1, <1>3, <1>5, <1>6, <1>7

\* pfs_set_entry stores what it is given.
LEMMA SetEntryFacts ==
  ASSUME NEW x \in Seq(Extent), Len(x) <= MaxExtents, NEW nm \in Paths \cup {NoName},
         NEW sz \in 0 .. FileMax, NEW kd \in {"free", "file", "dir"}, NEW e, e = SetEntry(nm, sz, kd, x)
  PROVE  /\ e \in Entry
         /\ e.kind = kd /\ e.name = nm /\ e.size = sz /\ e.cnt = Len(x)
         /\ \A k \in 1 .. MaxExtents : e.ext[k] = IF k <= Len(x) THEN x[k] ELSE NoExtent
         /\ SectorsOf(e) = Sec(x, Len(x))
<1>1. /\ e.kind = kd /\ e.name = nm /\ e.size = sz /\ e.cnt = Len(x)
      /\ e.ext = [k \in 1 .. MaxExtents |-> IF k <= Len(x) THEN x[k] ELSE NoExtent]
      /\ e = [kind |-> e.kind, name |-> e.name, size |-> e.size, cnt |-> e.cnt, ext |-> e.ext]
  BY DEF SetEntry
<1>2. NoExtent \in Extent
  BY PfsAssumption DEF NoExtent, Extent
<1>3. e.ext \in [1 .. MaxExtents -> Extent] /\ e.cnt \in 0 .. MaxExtents
  BY <1>1, <1>2, PfsAssumption
<1>4. e \in Entry
  BY <1>1, <1>3 DEF Entry
<1>5. \A k \in 1 .. Len(x) : e.ext[k] = x[k]
  BY <1>1, PfsAssumption
<1>6. SectorsOf(e) = Sec(x, Len(x))
  <2>1. Sec(e.ext, Len(x)) = Sec(x, Len(x))
    BY <1>5, SecSame
  <2>2. SectorsOf(e) = Sec(e.ext, e.cnt)
    BY SectorsAreSec
  <2> QED
    BY <1>1, <2>1, <2>2
<1> QED
  BY <1>1, <1>4, <1>6

\* What m more sectors make of entry i, whatever the disk is like.
LEMMA GrownKeeps ==
  ASSUME NEW i, hdr[i] \in Entry, NEW m \in Nat
  PROVE  /\ Grown(i, m) \in Seq(ExtN) /\ hdr[i].cnt <= Len(Grown(i, m))
         /\ \A k \in 1 .. hdr[i].cnt : Longer(hdr[i].ext[k], Grown(i, m)[k])
         /\ Len(Sec(Grown(i, m), Len(Grown(i, m)))) = Len(SectorsOf(hdr[i])) + m
<1> DEFINE e == hdr[i]
           P(x, n) == /\ x \in Seq(ExtN) /\ e.cnt <= Len(x)
                      /\ \A k \in 1 .. e.cnt : Longer(e.ext[k], x[k])
                      /\ Len(Sec(x, Len(x))) = Len(SectorsOf(e)) + n
           S == {n \in Nat : P(Grown(i, n), n)}
<1>0. e.cnt \in Nat /\ Len(SectorsOf(e)) \in Nat /\ \A k \in 1 .. e.cnt : e.ext[k].n \in Nat
  <2>1. e.cnt \in Nat /\ Exts(e.ext, e.cnt)
    BY ExtentsFacts, PfsAssumption
  <2> QED
    BY <2>1, SecType, SectorsAreSec DEF Exts
<1>1. 0 \in S
  <2>1. Grown(i, 0) = Extents(e)
    BY GrownStep
  <2>2. P(Extents(e), 0)
    BY <1>0, ExtentsFacts DEF Longer
  <2> HIDE DEF P
  <2> QED
    BY <2>1, <2>2
<1>2. ASSUME NEW n \in Nat, n \in S PROVE n + 1 \in S
  <2> DEFINE x == Grown(i, n)  y == Grown(i, n + 1)  s == NextFree(i, End(Grown(i, n)))
  <2>1. P(x, n) /\ y = Extended(x, s)
    BY <1>2, GrownStep
  <2>a. x \in Seq(ExtN)
    BY <2>1
  <2>b. y = Extended(x, s)
    BY <2>1
  <2> HIDE DEF P
  <2>2. s \in Nat
    BY <2>a, EndFacts, NextFreeFacts
  <2> HIDE DEF x, y, s
  <2>3. /\ y \in Seq(ExtN) /\ Len(x) \in Nat /\ Len(y) \in Nat /\ Len(x) <= Len(y)
        /\ \A k \in 1 .. Len(x) : Longer(x[k], y[k])
        /\ Len(Sec(y, Len(y))) = Len(Sec(x, Len(x))) + 1
    BY <2>a, <2>b, <2>2, ExtendedFacts
  <2> USE DEF P
  <2>4. e.cnt <= Len(y) /\ e.cnt <= Len(x) /\ Len(x) \in Nat
    BY <1>0, <2>1, <2>3
  <2>5. ASSUME NEW k \in 1 .. e.cnt PROVE Longer(e.ext[k], y[k])
    <3>1. k \in 1 .. Len(x) /\ x[k] \in ExtN /\ y[k] \in ExtN
      BY <1>0, <2>1, <2>3, <2>4
    <3>2. x[k].n \in Nat /\ y[k].n \in Nat /\ e.ext[k].n \in Nat
      BY <1>0, <3>1 DEF ExtN
    <3>3. Longer(e.ext[k], x[k]) /\ Longer(x[k], y[k])
      BY <2>1, <2>3, <3>1
    <3> QED
      BY <3>2, <3>3 DEF Longer
  <2>6. Len(Sec(y, Len(y))) = Len(SectorsOf(e)) + (n + 1)
    BY <1>0, <2>1, <2>3
  <2>7. P(y, n + 1)
    BY <2>3, <2>4, <2>5, <2>6
  <2> HIDE DEF P
  <2> QED
    BY <2>7 DEF y
<1> HIDE DEF S
<1>3. m \in S
  BY <1>1, <1>2, Induct
<1> QED
  BY <1>3 DEF S

\* If the search found a sector every time, the extents lie on the disk and no
\* other file has a sector that was added.
LEMMA GrownOnDisk ==
  ASSUME NEW i, hdr[i] \in Entry, NEW m \in Nat, End(Grown(i, m)) <= DiskSectors
  PROVE  /\ Grown(i, m) \in Seq(Extent)
         /\ \A s \in Nat : Covers(Grown(i, m), Len(Grown(i, m)), s) =>
              Covers(hdr[i].ext, hdr[i].cnt, s) \/ s \in Sectors \ Taken(i)
<1> DEFINE e == hdr[i]
           P(x) == /\ x \in Seq(Extent)
                   /\ \A s \in Nat : Covers(x, Len(x), s) => Covers(e.ext, e.cnt, s) \/ s \in Sectors \ Taken(i)
           S == {n \in Nat : End(Grown(i, n)) <= DiskSectors => P(Grown(i, n))}
<1>1. 0 \in S
  <2>1. Grown(i, 0) = Extents(e)
    BY GrownStep
  <2>2. P(Extents(e))
    BY ExtentsFacts DEF Covers
  <2> HIDE DEF P
  <2> QED
    BY <2>1, <2>2
<1>2. ASSUME NEW n \in Nat, n \in S PROVE n + 1 \in S
  <2> DEFINE x == Grown(i, n)  y == Grown(i, n + 1)  s == NextFree(i, End(Grown(i, n)))
  <2> SUFFICES ASSUME End(y) <= DiskSectors PROVE P(y)
    OBVIOUS
  <2>1. x \in Seq(ExtN) /\ y = Extended(x, s) /\ (End(x) <= DiskSectors => P(x))
    BY <1>2, GrownStep, GrownKeeps
  <2>2. s \in Nat /\ End(x) \in Nat /\ (s = DiskSectors \/ (s \in Sectors /\ s >= End(x) /\ s \notin Taken(i)))
    BY <2>1, EndFacts, NextFreeFacts
  <2> HIDE DEF x, s
  <2>3. /\ y \in Seq(ExtN) /\ End(y) = s + 1 /\ y # <<>>
        /\ \A k \in 1 .. Len(y) : k < Len(y) => k \in 1 .. Len(x) /\ y[k] = x[k]
        /\ \/ Len(y) = Len(x) + 1 /\ y[Len(y)] = [start |-> s, n |-> 1]
           \/ Len(y) = Len(x) /\ End(x) = s /\ y[Len(y)] = [start |-> x[Len(x)].start, n |-> x[Len(x)].n + 1]
    BY <2>1, <2>2, ExtendedFacts
  <2> HIDE DEF y
  <2>4. s < DiskSectors /\ s \in Sectors \ Taken(i) /\ End(x) <= DiskSectors /\ P(x) /\ DiskSectors \in Nat
    BY <2>1, <2>2, <2>3, PfsAssumption
  <2>5. Len(y) \in 1 .. Len(y) /\ \A k \in 1 .. Len(y) : k = Len(y) \/ k < Len(y)
    BY <2>3
  <2>6. CASE Len(y) = Len(x) + 1 /\ y[Len(y)] = [start |-> s, n |-> 1]
    <3>1. y[Len(y)] \in Extent /\ \A t \in Nat : In(y[Len(y)], t) => t = s
      BY <2>2, <2>4, <2>6 DEF Extent, In
    <3>2. \A k \in 1 .. Len(y) : y[k] \in Extent
      BY <2>3, <2>4, <2>5, <3>1
    <3>3. y \in Seq(Extent)
      BY <2>3, <3>2
    <3>4. ASSUME NEW t \in Nat, Covers(y, Len(y), t) PROVE Covers(e.ext, e.cnt, t) \/ t \in Sectors \ Taken(i)
      <4>1. PICK k \in 1 .. Len(y) : In(y[k], t)
        BY <3>4 DEF Covers
      <4>2. CASE k = Len(y)
        BY <2>4, <3>1, <4>1, <4>2
      <4>3. CASE k < Len(y)
        BY <2>3, <2>4, <4>1, <4>3 DEF Covers
      <4> QED
        BY <2>5, <4>2, <4>3
    <3> QED
      BY <3>3, <3>4
  <2>7. CASE Len(y) = Len(x) /\ End(x) = s /\ y[Len(y)] = [start |-> x[Len(x)].start, n |-> x[Len(x)].n + 1]
    <3>1. x # <<>> /\ Len(x) \in 1 .. Len(x) /\ x[Len(x)] \in Extent
      BY <2>1, <2>4, <2>5, <2>7
    <3>2. s = x[Len(x)].start + x[Len(x)].n /\ x[Len(x)].start \in Nat /\ x[Len(x)].n \in Nat
      BY <2>1, <2>7, <3>1, EndFacts, PfsAssumption DEF Extent
    <3>a. x[Len(x)].start \in 0 .. DiskSectors /\ x[Len(x)].n + 1 \in 0 .. DiskSectors
      BY <2>4, <3>2
    <3>3. y[Len(y)] \in Extent
      BY <2>7, <3>a DEF Extent
    <3>4. \A t \in Nat : In(y[Len(y)], t) => t = s \/ In(x[Len(x)], t)
      BY SMTT(40), <2>7, <3>2 DEF In
    <3>5. \A k \in 1 .. Len(y) : y[k] \in Extent
      BY <2>3, <2>4, <2>5, <3>3
    <3>6. y \in Seq(Extent)
      BY <2>3, <3>5
    <3>7. ASSUME NEW t \in Nat, Covers(y, Len(y), t) PROVE Covers(e.ext, e.cnt, t) \/ t \in Sectors \ Taken(i)
      <4>1. PICK k \in 1 .. Len(y) : In(y[k], t)
        BY <3>7 DEF Covers
      <4>2. CASE k = Len(y)
        BY <2>4, <3>1, <3>4, <4>1, <4>2 DEF Covers
      <4>3. CASE k < Len(y)
        BY <2>3, <2>4, <4>1, <4>3 DEF Covers
      <4> QED
        BY <2>5, <4>2, <4>3
    <3> QED
      BY <3>6, <3>7
  <2> QED
    BY <2>3, <2>6, <2>7
<1> HIDE DEF S
<1>3. m \in S
  BY <1>1, <1>2, Induct
<1> QED
  BY <1>3 DEF S

\* The extents lie in the data area, one behind the other.
TidyExts(f, c) ==
  /\ \A k \in 1 .. c : DataStart <= f[k].start /\ f[k].start + f[k].n <= DiskSectors
  /\ \A j, k \in 1 .. c : j < k => f[j].start + f[j].n <= f[k].start

\* A tidy entry stays tidy: the search goes on behind its last extent.
LEMMA GrownTidy ==
  ASSUME NEW i, hdr[i] \in Entry, TidyExts(hdr[i].ext, hdr[i].cnt), NEW m \in Nat,
         End(Grown(i, m)) <= DiskSectors
  PROVE  TidyExts(Grown(i, m), Len(Grown(i, m)))
<1> DEFINE e == hdr[i]
           S == {n \in Nat : End(Grown(i, n)) <= DiskSectors => TidyExts(Grown(i, n), Len(Grown(i, n)))}
<1>1. 0 \in S
  <2>1. Grown(i, 0) = Extents(e)
    BY GrownStep
  <2>2. TidyExts(Extents(e), Len(Extents(e)))
    BY ExtentsFacts DEF TidyExts
  <2> QED
    BY <2>1, <2>2
<1>2. ASSUME NEW n \in Nat, n \in S PROVE n + 1 \in S
  <2> DEFINE x == Grown(i, n)  y == Grown(i, n + 1)  s == NextFree(i, End(Grown(i, n)))
  <2> SUFFICES ASSUME End(y) <= DiskSectors PROVE TidyExts(y, Len(y))
    OBVIOUS
  <2>1. x \in Seq(ExtN) /\ y = Extended(x, s) /\ (End(x) <= DiskSectors => TidyExts(x, Len(x)))
    BY <1>2, GrownStep, GrownKeeps
  <2>2. s \in Nat /\ End(x) \in Nat /\ (s = DiskSectors \/ (s \in Sectors /\ s >= End(x)))
    BY <2>1, EndFacts, NextFreeFacts
  <2> HIDE DEF x, s
  <2>3. /\ y \in Seq(ExtN) /\ End(y) = s + 1 /\ y # <<>>
        /\ \A k \in 1 .. Len(y) : k < Len(y) => k \in 1 .. Len(x) /\ y[k] = x[k]
        /\ \/ Len(y) = Len(x) + 1 /\ y[Len(y)] = [start |-> s, n |-> 1]
           \/ Len(y) = Len(x) /\ End(x) = s /\ y[Len(y)] = [start |-> x[Len(x)].start, n |-> x[Len(x)].n + 1]
    BY <2>1, <2>2, ExtendedFacts
  <2> HIDE DEF y
  <2>4. s < DiskSectors /\ s >= End(x) /\ TidyExts(x, Len(x)) /\ DiskSectors \in Nat /\ DataStart \in Nat
    BY <2>1, <2>2, <2>3, PfsAssumption
  <2>5. Len(y) \in 1 .. Len(y) /\ \A k \in 1 .. Len(y) : k = Len(y) \/ k < Len(y)
    BY <2>3
  <2>6. \A k \in 1 .. Len(x) : x[k].start \in Nat /\ x[k].n \in Nat
    BY <2>1, SeqExts DEF Exts
  <2>7. \A k \in 1 .. Len(x) : x[k].start + x[k].n <= End(x) /\ DataStart <= End(x)
    <3> SUFFICES ASSUME NEW k \in 1 .. Len(x) PROVE x[k].start + x[k].n <= End(x) /\ DataStart <= End(x)
      OBVIOUS
    <3>1. x # <<>> /\ Len(x) \in 1 .. Len(x) /\ End(x) = x[Len(x)].start + x[Len(x)].n
      BY <2>1, EndFacts
    <3>2. DataStart <= x[Len(x)].start /\ (k < Len(x) => x[k].start + x[k].n <= x[Len(x)].start)
      BY <2>4, <3>1 DEF TidyExts
    <3>3. x[Len(x)].start \in Nat /\ x[Len(x)].n \in Nat /\ x[k].start \in Nat /\ x[k].n \in Nat
      BY <2>6, <3>1
    <3>4. DataStart <= End(x) /\ x[Len(x)].start <= End(x)
      BY <2>4, <3>1, <3>2, <3>3
    <3>5. CASE k = Len(x)
      BY <2>2, <3>1, <3>4, <3>5
    <3>6. CASE k < Len(x)
      BY <2>2, <3>2, <3>3, <3>4, <3>6
    <3> QED
      BY <3>1, <3>5, <3>6
  <2>8. DataStart <= End(x)
    <3>1. x = <<>> => End(x) = DataStart
      BY <2>1, EndFacts
    <3>2. x # <<>> => Len(x) \in 1 .. Len(x)
      BY <2>1, EndFacts
    <3> QED
      BY <2>4, <2>7, <3>1, <3>2
  <2>9. /\ DataStart <= y[Len(y)].start /\ y[Len(y)].start + y[Len(y)].n <= DiskSectors
        /\ \A k \in 1 .. Len(x) : k < Len(y) => x[k].start + x[k].n <= y[Len(y)].start
    <3>1. CASE Len(y) = Len(x) + 1 /\ y[Len(y)] = [start |-> s, n |-> 1]
      <4>1. y[Len(y)].start = s /\ y[Len(y)].n = 1
        BY <3>1
      <4>2. DataStart <= s /\ s + 1 <= DiskSectors
        BY <2>2, <2>4, <2>8
      <4>3. \A k \in 1 .. Len(x) : x[k].start + x[k].n <= s
        BY <2>2, <2>4, <2>6, <2>7
      <4> QED
        BY <4>1, <4>2, <4>3
    <3>2. CASE Len(y) = Len(x) /\ End(x) = s /\ y[Len(y)] = [start |-> x[Len(x)].start, n |-> x[Len(x)].n + 1]
      <4>1. y[Len(y)].start = x[Len(x)].start /\ y[Len(y)].n = x[Len(x)].n + 1 /\ Len(x) \in 1 .. Len(x)
        BY <2>5, <3>2
      <4>2. x # <<>> /\ End(x) = x[Len(x)].start + x[Len(x)].n
        BY <2>1, <4>1, EndFacts
      <4>3. DataStart <= x[Len(x)].start /\ \A k \in 1 .. Len(x) : k < Len(x) => x[k].start + x[k].n <= x[Len(x)].start
        BY <2>4, <4>1 DEF TidyExts
      <4>4. x[Len(x)].start \in Nat /\ x[Len(x)].n \in Nat
        BY <2>6, <4>1
      <4>5. x[Len(x)].start + (x[Len(x)].n + 1) <= DiskSectors
        BY <2>2, <2>4, <3>2, <4>2, <4>4
      <4> QED
        BY <3>2, <4>1, <4>3, <4>5
    <3> QED
      BY <2>3, <3>1, <3>2
  <2>10. \A k \in 1 .. Len(y) : DataStart <= y[k].start /\ y[k].start + y[k].n <= DiskSectors
    BY <2>3, <2>4, <2>5, <2>9 DEF TidyExts
  <2>11. ASSUME NEW j \in 1 .. Len(y), NEW k \in 1 .. Len(y), j < k PROVE y[j].start + y[j].n <= y[k].start
    <3>1. j < Len(y) /\ j \in 1 .. Len(x) /\ y[j] = x[j]
      BY <2>3, <2>5, <2>11
    <3>2. CASE k = Len(y)
      BY <2>9, <3>1, <3>2
    <3>3. CASE k < Len(y)
      BY <2>3, <2>4, <2>11, <3>1, <3>3 DEF TidyExts
    <3> QED
      BY <2>5, <3>2, <3>3
  <2> QED
    BY <2>10, <2>11 DEF TidyExts
<1> HIDE DEF S
<1>3. m \in S
  BY <1>1, <1>2, Induct
<1> QED
  BY <1>3 DEF S
-----------------------------------------------------------------------------
(* The invariant *)

\* The write in progress: its end is within the limit, and once the capacity is
\* there the entry is a file with a sector for every byte.
OpOK ==
  /\ op.pc \in {"grow", "data", "size"} => NewSize <= FileMax
  /\ op.pc \in {"data", "size"} => IsFile(op.idx) /\ SectorsFor(NewSize) <= Len(SectorsOf(Target))

\* An entry every header write of which went through: extents in the data area, one
\* behind the other, zeros behind them.
Tidy(e) ==
  /\ TidyExts(e.ext, e.cnt)
  /\ \A k \in 1 .. MaxExtents : k > e.cnt => e.ext[k] = NoExtent

TidyOK == faults = 0 => \A i \in Entries : Tidy(hdr[i])

\* What an edit may do to entry i: clear it, or keep its sectors and add some that no
\* other file has, with the size still covered by the old ones.
EditOK(i, e) ==
  /\ e \in Entry
  /\ Tidy(hdr[i]) => Tidy(e)
  /\ \/ e.cnt = 0 /\ e.size = 0
     \/ /\ e.kind = hdr[i].kind /\ hdr[i].cnt <= e.cnt
        /\ \A k \in 1 .. hdr[i].cnt : Longer(hdr[i].ext[k], e.ext[k])
        /\ e.kind = "file" => SectorsFor(e.size) <= Len(SectorsOf(hdr[i]))
        /\ \A s \in Nat : Covers(e.ext, e.cnt, s) =>
             Covers(hdr[i].ext, hdr[i].cnt, s) \/ s \in Sectors \ Taken(i)

\* A table some call may write: at most one entry gets more sectors.
TableOK(h) ==
  /\ h \in [Entries -> Entry]
  /\ \A i \in Entries : EditOK(i, h[i])
  /\ \E i \in Entries : \A j \in Entries \ {i} : h[j] = hdr[j] \/ h[j].cnt = 0

\* Every byte below the size has a sector.
Covered(e) == e.kind = "file" => SectorsFor(e.size) <= Len(SectorsOf(e))
-----------------------------------------------------------------------------
\* What an entry consists of.
LEMMA EntryFacts ==
  ASSUME NEW e \in Entry
  PROVE  /\ e.kind \in {"free", "file", "dir"} /\ e.name \in Paths \cup {NoName} /\ e.size \in 0 .. FileMax
         /\ e.cnt \in 0 .. MaxExtents /\ e.ext \in [1 .. MaxExtents -> Extent]
         /\ e = [kind |-> e.kind, name |-> e.name, size |-> e.size, cnt |-> e.cnt, ext |-> e.ext]
         /\ e.cnt \in Nat /\ Exts(e.ext, e.cnt)
         /\ SectorsOf(e) \in Seq(Nat) /\ SectorsOf(e) = Sec(e.ext, e.cnt) /\ Len(SectorsOf(e)) \in Nat
         /\ \A k \in 1 .. MaxExtents :
              /\ e.ext[k] \in Extent /\ e.ext[k] = [start |-> e.ext[k].start, n |-> e.ext[k].n]
              /\ e.ext[k].start \in Nat /\ e.ext[k].n \in Nat
<1>1. /\ e.kind \in {"free", "file", "dir"} /\ e.name \in Paths \cup {NoName} /\ e.size \in 0 .. FileMax
      /\ e.cnt \in 0 .. MaxExtents /\ e.ext \in [1 .. MaxExtents -> Extent]
      /\ e = [kind |-> e.kind, name |-> e.name, size |-> e.size, cnt |-> e.cnt, ext |-> e.ext]
  BY DEF Entry
<1>2. e.cnt \in Nat /\ Exts(e.ext, e.cnt)
  BY <1>1, ExtentsFacts, PfsAssumption
<1>3. SectorsOf(e) = Sec(e.ext, e.cnt)
  BY SectorsAreSec
<1>4. SectorsOf(e) \in Seq(Nat) /\ Len(SectorsOf(e)) \in Nat
  BY <1>2, <1>3, SecType
<1>5. \A x \in Extent : x = [start |-> x.start, n |-> x.n] /\ x.start \in Nat /\ x.n \in Nat
  BY PfsAssumption DEF Extent
<1>6. \A k \in 1 .. MaxExtents : e.ext[k] \in Extent
  BY <1>1
<1> QED
  BY <1>1, <1>2, <1>3, <1>4, <1>5, <1>6

\* sectors_for_len counts from zero.
LEMMA SectorsForFacts ==
  /\ SectorsFor(0) = 0
  /\ \A n \in Nat : SectorsFor(n) \in Nat
  BY PfsAssumption DEF SectorsFor

\* pfs_clear_entry, and a new or truncated one, have no extents.
LEMMA ClearedFacts ==
  ASSUME NEW nm \in Paths \cup {NoName}, NEW kd \in {"free", "file", "dir"}, NEW e,
         e = SetEntry(nm, 0, kd, <<>>), NEW i
  PROVE  /\ e \in Entry /\ e.kind = kd /\ e.name = nm /\ e.size = 0 /\ e.cnt = 0
         /\ EditOK(i, e)
<1>1. <<>> \in Seq(Extent) /\ Len(<<>>) = 0 /\ MaxExtents \in Nat /\ 0 \in 0 .. FileMax
  BY PfsAssumption
<1>2. /\ e.kind = kd /\ e.name = nm /\ e.size = 0 /\ e.cnt = 0
      /\ e.ext = [k \in 1 .. MaxExtents |-> NoExtent]
  <2>1. e = [kind |-> kd, name |-> nm, size |-> 0, cnt |-> Len(<<>>),
             ext |-> [k \in 1 .. MaxExtents |-> IF k <= Len(<<>>) THEN <<>>[k] ELSE NoExtent]]
    BY DEF SetEntry
  <2>2. \A k \in 1 .. MaxExtents : ~(k <= Len(<<>>))
    BY <1>1
  <2>3. [k \in 1 .. MaxExtents |-> IF k <= Len(<<>>) THEN <<>>[k] ELSE NoExtent]
          = [k \in 1 .. MaxExtents |-> NoExtent]
    BY <2>2
  <2> QED
    BY <1>1, <2>1, <2>3
<1>3. \A k \in 1 .. MaxExtents : e.ext[k] = NoExtent
  BY <1>2
<1>4. Tidy(e)
  BY <1>2, <1>3, PfsAssumption DEF Tidy, TidyExts
<1>5. NoExtent \in Extent
  BY PfsAssumption DEF NoExtent, Extent
<1>6. e \in Entry
  <2>1. e = [kind |-> e.kind, name |-> e.name, size |-> e.size, cnt |-> e.cnt, ext |-> e.ext]
    BY DEF SetEntry
  <2>2. e.ext \in [1 .. MaxExtents -> Extent]
    BY <1>2, <1>5
  <2> QED
    BY <1>1, <1>2, <2>1, <2>2 DEF Entry
<1> QED
  BY <1>2, <1>4, <1>6 DEF EditOK

\* What a torn entry consists of.
LEMMA TornFacts ==
  ASSUME NEW o \in Entry, NEW e \in Entry, NEW c \in 0 .. MaxExtents, NEW t \in Torn(o, e, c)
  PROVE  /\ t \in Entry /\ t.kind = e.kind /\ t.size = e.size /\ t.cnt = e.cnt
         /\ \A k \in 1 .. MaxExtents :
              \/ t.ext[k] = e.ext[k]
              \/ /\ t.ext[k].n = o.ext[k].n
                 /\ o.ext[k].start = e.ext[k].start => t.ext[k].start = o.ext[k].start
<1> DEFINE S == IF c < MaxExtents THEN TornStart(o.ext[c + 1], e.ext[c + 1]) ELSE {0}
           F(s) == [k \in 1 .. MaxExtents |->
                      IF k <= c THEN e.ext[k]
                      ELSE IF k = c + 1 THEN [start |-> s, n |-> o.ext[k].n] ELSE o.ext[k]]
<1>0. t \in UNION {{TornEntry(o, e, c, s, nm) : s \in S} : nm \in TornName(o.name, e.name)}
  BY DEF Torn
<1> HIDE DEF S
<1>1. PICK nm \in TornName(o.name, e.name) : t \in {TornEntry(o, e, c, s, nm) : s \in S}
  BY <1>0, Zenon
<1>b. PICK s \in S : t = TornEntry(o, e, c, s, nm)
  BY <1>1, Zenon
<1>a. t = [e EXCEPT !.name = nm, !.ext = F(s)]
  BY <1>b DEF TornEntry
<1> HIDE DEF F
<1>2. /\ t = [kind |-> e.kind, name |-> nm, size |-> e.size, cnt |-> e.cnt, ext |-> F(s)]
      /\ t.kind = e.kind /\ t.size = e.size /\ t.cnt = e.cnt /\ t.ext = F(s) /\ t.name = nm
  <2>1. e = [kind |-> e.kind, name |-> e.name, size |-> e.size, cnt |-> e.cnt, ext |-> e.ext]
    BY EntryFacts
  <2> QED
    BY <1>a, <2>1
<1>3. nm \in Paths \cup {NoName}
  BY EntryFacts DEF TornName
<1>4. MaxExtents \in Nat /\ c \in Nat
  BY PfsAssumption
<1>5. ASSUME c < MaxExtents
      PROVE  /\ [start |-> s, n |-> o.ext[c + 1].n] \in Extent
             /\ o.ext[c + 1].start = e.ext[c + 1].start => s = o.ext[c + 1].start
  <2>1. c + 1 \in 1 .. MaxExtents
    BY <1>4, <1>5
  <2>2. o.ext[c + 1] \in Extent /\ e.ext[c + 1] \in Extent
    BY <2>1, EntryFacts
  <2>3. s \in TornStart(o.ext[c + 1], e.ext[c + 1])
    BY <1>5 DEF S
  <2>4. s \in {0, o.ext[c + 1].start, e.ext[c + 1].start}
    BY <2>3 DEF TornStart
  <2> QED
    BY SMTT(40), <2>2, <2>3, <2>4, PfsAssumption DEF TornStart, Extent
<1>6. ASSUME NEW k \in 1 .. MaxExtents
      PROVE  /\ F(s)[k] \in Extent
             /\ \/ F(s)[k] = e.ext[k]
                \/ /\ F(s)[k].n = o.ext[k].n
                   /\ o.ext[k].start = e.ext[k].start => F(s)[k].start = o.ext[k].start
  <2>1. o.ext[k] \in Extent /\ e.ext[k] \in Extent
    BY EntryFacts
  <2>5. F(s)[k] = IF k <= c THEN e.ext[k]
                  ELSE IF k = c + 1 THEN [start |-> s, n |-> o.ext[k].n] ELSE o.ext[k]
    BY DEF F
  <2>2. CASE k <= c
    BY <2>1, <2>2, <2>5
  <2>3. CASE k = c + 1
    <3>1. F(s)[k] = [start |-> s, n |-> o.ext[c + 1].n] /\ c < MaxExtents
      BY <1>4, <2>3, <2>5
    <3> QED
      BY <1>5, <2>3, <3>1
  <2>4. CASE ~(k <= c) /\ k # c + 1
    BY <2>1, <2>4, <2>5
  <2> QED
    BY <2>2, <2>3, <2>4
<1>7. F(s) \in [1 .. MaxExtents -> Extent]
  BY <1>6 DEF F
<1>8. t \in Entry
  BY <1>2, <1>3, <1>7, EntryFacts DEF Entry
<1> HIDE DEF F
<1> QED
  BY <1>2, <1>6, <1>8

\* An extent is as long as itself.
LEMMA LongerSame ==
  ASSUME NEW x \in Extent
  PROVE  Longer(x, x)
  BY PfsAssumption DEF Extent, Longer

\* A byte of the file that the old sectors cover, the new ones cover too.
LEMMA EditCovered ==
  ASSUME NEW i \in Entries, hdr[i] \in Entry, NEW e, EditOK(i, e)
  PROVE  Covered(e)
<1>1. e \in Entry
  BY DEF EditOK
<1>2. CASE e.cnt = 0 /\ e.size = 0
  BY <1>1, <1>2, EntryFacts, SectorsForFacts DEF Covered
<1>3. CASE /\ e.kind = hdr[i].kind /\ hdr[i].cnt <= e.cnt
           /\ \A k \in 1 .. hdr[i].cnt : Longer(hdr[i].ext[k], e.ext[k])
           /\ e.kind = "file" => SectorsFor(e.size) <= Len(SectorsOf(hdr[i]))
  <2>1. /\ hdr[i].cnt \in Nat /\ e.cnt \in Nat /\ Exts(hdr[i].ext, hdr[i].cnt) /\ Exts(e.ext, e.cnt)
        /\ SectorsOf(hdr[i]) = Sec(hdr[i].ext, hdr[i].cnt) /\ SectorsOf(e) = Sec(e.ext, e.cnt)
        /\ Len(SectorsOf(hdr[i])) \in Nat /\ Len(SectorsOf(e)) \in Nat /\ e.size \in Nat
    BY SMTT(40), <1>1, EntryFacts, PfsAssumption
  <2>2. \A k \in 1 .. hdr[i].cnt : hdr[i].ext[k].n <= e.ext[k].n
    BY <1>3 DEF Longer
  <2>3. Len(SectorsOf(hdr[i])) <= Len(SectorsOf(e))
    BY <1>3, <2>1, <2>2, LenMono
  <2>4. SectorsFor(e.size) \in Nat
    BY <2>1, SectorsForFacts
  <2> QED
    BY <1>3, <2>1, <2>3, <2>4 DEF Covered
<1> QED
  BY <1>2, <1>3 DEF EditOK

\* So does an entry that was torn on the way from the old to the new ones; and if the
\* old entry was tidy, a torn one has no sector that the new one has not.
LEMMA TornEdit ==
  ASSUME NEW i \in Entries, hdr[i] \in Entry, NEW e, EditOK(i, e),
         NEW c \in 0 .. MaxExtents, NEW t \in Torn(hdr[i], e, c)
  PROVE  /\ t \in Entry /\ Covered(t) /\ t.kind = e.kind /\ t.cnt = e.cnt
         /\ Tidy(hdr[i]) => \A s \in Nat : Covers(t.ext, t.cnt, s) => Covers(e.ext, e.cnt, s)
<1> DEFINE o == hdr[i]
<1>0. e \in Entry /\ o \in Entry
  BY DEF EditOK
<1>1. /\ t \in Entry /\ t.kind = e.kind /\ t.size = e.size /\ t.cnt = e.cnt
      /\ \A k \in 1 .. MaxExtents :
           \/ t.ext[k] = e.ext[k]
           \/ /\ t.ext[k].n = o.ext[k].n
              /\ o.ext[k].start = e.ext[k].start => t.ext[k].start = o.ext[k].start
  BY <1>0, TornFacts
<1>2. /\ e.cnt \in 0 .. MaxExtents /\ o.cnt \in 0 .. MaxExtents /\ MaxExtents \in Nat /\ e.size \in Nat
      /\ \A k \in 1 .. MaxExtents : /\ t.ext[k].n \in Nat /\ o.ext[k].n \in Nat /\ e.ext[k].n \in Nat
                                    /\ t.ext[k].start \in Nat /\ o.ext[k].start \in Nat /\ e.ext[k].start \in Nat
  <2>1. e.cnt \in 0 .. MaxExtents /\ e.size \in 0 .. FileMax
        /\ \A k \in 1 .. MaxExtents : e.ext[k].start \in Nat /\ e.ext[k].n \in Nat
    BY <1>0, EntryFacts
  <2>2. o.cnt \in 0 .. MaxExtents /\ \A k \in 1 .. MaxExtents : o.ext[k].start \in Nat /\ o.ext[k].n \in Nat
    BY <1>0, EntryFacts
  <2>3. \A k \in 1 .. MaxExtents : t.ext[k].start \in Nat /\ t.ext[k].n \in Nat
    BY <1>1, EntryFacts
  <2> HIDE DEF o
  <2> QED
    <3>1. MaxExtents \in Nat /\ FileMax \in Nat
      BY PfsAssumption
    <3>2. e.size \in Nat
      BY <2>1, <3>1
    <3> QED
      BY ZenonT(60), <2>1, <2>2, <2>3, <3>1, <3>2
<1>3. CASE e.cnt = 0 /\ e.size = 0
  <2>1. Covered(t)
    BY <1>1, <1>3, EntryFacts, SectorsForFacts DEF Covered
  <2>2. \A s \in Nat : ~Covers(t.ext, t.cnt, s)
    BY <1>1, <1>3 DEF Covers
  <2> QED
    BY <1>1, <2>1, <2>2
<1>4. CASE /\ e.kind = o.kind /\ o.cnt <= e.cnt
           /\ \A k \in 1 .. o.cnt : Longer(o.ext[k], e.ext[k])
           /\ e.kind = "file" => SectorsFor(e.size) <= Len(SectorsOf(o))
  <2>1. /\ o.cnt \in Nat /\ t.cnt \in Nat /\ Exts(o.ext, o.cnt) /\ Exts(t.ext, t.cnt)
        /\ SectorsOf(o) = Sec(o.ext, o.cnt) /\ SectorsOf(t) = Sec(t.ext, t.cnt)
        /\ Len(SectorsOf(o)) \in Nat /\ Len(SectorsOf(t)) \in Nat
    BY <1>0, <1>1, EntryFacts, PfsAssumption
  <2> HIDE DEF o
  <2>2. ASSUME NEW k \in 1 .. o.cnt PROVE o.ext[k].n <= t.ext[k].n
    <3>1. k \in 1 .. MaxExtents
      BY <1>2
    <3>2. o.ext[k].n <= e.ext[k].n
      BY <1>4 DEF Longer
    <3> QED
      BY <1>1, <1>2, <3>1, <3>2
  <2>3. Len(SectorsOf(o)) <= Len(SectorsOf(t))
    BY <1>1, <1>4, <2>1, <2>2, LenMono
  <2>4. SectorsFor(e.size) \in Nat
    BY <1>2, SectorsForFacts
  <2>5. Covered(t)
    BY <1>1, <1>4, <2>1, <2>3, <2>4 DEF Covered
  <2>6. ASSUME Tidy(o), NEW s \in Nat, Covers(t.ext, t.cnt, s) PROVE Covers(e.ext, e.cnt, s)
    <3>1. PICK k \in 1 .. t.cnt : In(t.ext[k], s)
      BY <2>6 DEF Covers
    <3>2. k \in 1 .. MaxExtents /\ k \in 1 .. e.cnt
      BY <1>1, <1>2
    <3>3. CASE t.ext[k] = e.ext[k]
      BY <3>1, <3>2, <3>3 DEF Covers
    <3>4. CASE /\ t.ext[k].n = o.ext[k].n
               /\ o.ext[k].start = e.ext[k].start => t.ext[k].start = o.ext[k].start
      <4>1. k \in 1 .. o.cnt
        <5>1. ASSUME k > o.cnt PROVE FALSE
          <6>1. o.ext[k].n = 0
            BY <2>6, <3>2, <5>1 DEF Tidy, NoExtent
          <6> QED
            BY <1>2, <3>1, <3>2, <3>4, <6>1 DEF In
        <5> QED
          BY <1>2, <3>2, <5>1
      <4>2. o.ext[k].start = e.ext[k].start /\ o.ext[k].n <= e.ext[k].n
        BY <1>4, <4>1 DEF Longer
      <4>3. In(e.ext[k], s)
        BY <1>2, <3>1, <3>2, <3>4, <4>2 DEF In
      <4> QED
        BY <3>2, <4>3 DEF Covers
    <3> QED
      BY <1>1, <3>2, <3>3, <3>4
  <2>7. Tidy(hdr[i]) => \A s \in Nat : Covers(t.ext, t.cnt, s) => Covers(e.ext, e.cnt, s)
    BY <2>6 DEF o
  <2> QED
    BY <1>1, <2>5, <2>7
<1> QED
  BY <1>3, <1>4 DEF EditOK

\* To write an entry back as it is.
LEMMA EditSame ==
  ASSUME NEW i \in Entries, hdr[i] \in Entry, Covered(hdr[i])
  PROVE  EditOK(i, hdr[i])
<1>1. hdr[i].cnt \in 0 .. MaxExtents /\ MaxExtents \in Nat
  BY EntryFacts, PfsAssumption
<1>2. \A k \in 1 .. hdr[i].cnt : Longer(hdr[i].ext[k], hdr[i].ext[k])
  BY <1>1, EntryFacts, LongerSame
<1> QED
  BY <1>1, <1>2 DEF EditOK, Covered

\* What x adds to the extents of entry i: longer ones, more of them, free sectors only.
Grows(i, x) ==
  /\ hdr[i].cnt <= Len(x)
  /\ \A k \in 1 .. hdr[i].cnt : Longer(hdr[i].ext[k], x[k])
  /\ \A s \in Nat : Covers(x, Len(x), s) => Covers(hdr[i].ext, hdr[i].cnt, s) \/ s \in Sectors \ Taken(i)
  /\ TidyExts(hdr[i].ext, hdr[i].cnt) => TidyExts(x, Len(x))

\* To write it back with more extents.
LEMMA EditExtents ==
  ASSUME NEW i \in Entries, hdr[i] \in Entry, NEW x \in Seq(Extent), Len(x) <= MaxExtents, Grows(i, x),
         NEW nm \in Paths \cup {NoName}, NEW sz \in 0 .. FileMax, NEW e,
         e = SetEntry(nm, sz, hdr[i].kind, x),
         hdr[i].kind = "file" => SectorsFor(sz) <= Len(SectorsOf(hdr[i]))
  PROVE  /\ EditOK(i, e)
         /\ e.kind = hdr[i].kind /\ e.name = nm /\ e.size = sz /\ e.cnt = Len(x)
         /\ SectorsOf(e) = Sec(x, Len(x))
<1>0. hdr[i].kind \in {"free", "file", "dir"} /\ hdr[i].cnt \in 0 .. MaxExtents /\ MaxExtents \in Nat
      /\ Len(x) \in Nat
  BY EntryFacts, PfsAssumption
<1>1. /\ e \in Entry
      /\ e.kind = hdr[i].kind /\ e.name = nm /\ e.size = sz /\ e.cnt = Len(x)
      /\ \A k \in 1 .. MaxExtents : e.ext[k] = IF k <= Len(x) THEN x[k] ELSE NoExtent
      /\ SectorsOf(e) = Sec(x, Len(x))
  <2> DEFINE kd == hdr[i].kind
  <2>1. kd \in {"free", "file", "dir"} /\ e = SetEntry(nm, sz, kd, x)
    BY <1>0
  <2> HIDE DEF kd
  <2>2. /\ e \in Entry
        /\ e.kind = kd /\ e.name = nm /\ e.size = sz /\ e.cnt = Len(x)
        /\ \A k \in 1 .. MaxExtents : e.ext[k] = IF k <= Len(x) THEN x[k] ELSE NoExtent
        /\ SectorsOf(e) = Sec(x, Len(x))
    BY <2>1, SetEntryFacts
  <2> QED
    BY <2>2 DEF kd
<1>2. \A k \in 1 .. Len(x) : k \in 1 .. MaxExtents /\ e.ext[k] = x[k]
  BY <1>0, <1>1
<1>3. \A s \in Nat : Covers(e.ext, e.cnt, s) => Covers(x, Len(x), s)
  BY <1>1, <1>2 DEF Covers
<1>4. \A k \in 1 .. hdr[i].cnt : Longer(hdr[i].ext[k], e.ext[k])
  BY <1>0, <1>2 DEF Grows
<1>5. ASSUME Tidy(hdr[i]) PROVE Tidy(e)
  <2>1. TidyExts(x, Len(x))
    BY <1>5 DEF Tidy, Grows
  <2>2. TidyExts(e.ext, Len(x))
    BY <1>2, <2>1 DEF TidyExts
  <2>3. \A k \in 1 .. MaxExtents : k > Len(x) => e.ext[k] = NoExtent
    BY <1>0, <1>1
  <2> QED
    BY <1>1, <2>2, <2>3 DEF Tidy
<1>6. EditOK(i, e)
  BY <1>1, <1>3, <1>4, <1>5 DEF EditOK, Grows
<1> QED
  BY <1>1, <1>6
-----------------------------------------------------------------------------
(* The table each call writes back *)

\* The disk between two header writes.
DiskOK == hdr \in [Entries -> Entry] /\ \A i \in Entries : Covered(hdr[i])

\* What an edit may do to the names: keep them and free entries, no directory with
\* something below it; or give one entry, no directory with something below it, a new
\* name that has a parent.
NameEdit(h) ==
  \/ /\ \A j \in Entries : h[j].kind = "free" \/ (h[j].kind = hdr[j].kind /\ h[j].name = hdr[j].name)
     /\ \A d \in Entries : hdr[d].kind = "dir" /\ h[d].kind = "free" =>
          \A j \in Entries : h[j].kind # "free" => ~IsStrictPrefix(hdr[d].name, h[j].name)
  \/ \E i \in Entries, q \in Paths :
       /\ Find(q) = {} /\ ParentExists(q) /\ h[i].name = q
       /\ \/ hdr[i].kind = "free"
          \/ h[i].kind = hdr[i].kind /\ (hdr[i].kind = "dir" => DirEmpty(hdr[i].name))
       /\ \A j \in Entries \ {i} : h[j] = hdr[j]

\* First finds something unless there is nothing.
LEMMA FirstFacts ==
  ASSUME NEW S, S \subseteq Entries
  PROVE  First(S) \subseteq S /\ (First(S) = {} => S = {})
<1>1. S \subseteq Nat
  BY PfsAssumption DEF Entries
<1>2. First(S) \subseteq S
  BY DEF First
<1>3. ASSUME S # {} PROVE First(S) # {}
  <2>1. PICK m \in S : \A k \in S : m <= k
    BY <1>1, <1>3, Least
  <2>2. m \in First(S)
    BY <2>1 DEF First
  <2> QED
    BY <2>2
<1> QED
  BY <1>2, <1>3

\* pfs_find_entry and pfs_free_entry: what they find, and that they miss nothing.
LEMMA FindFacts ==
  ASSUME NEW p
  PROVE  /\ \A i \in Find(p) : i \in Entries /\ hdr[i].kind # "free" /\ hdr[i].name = p
         /\ Find(p) = {} => \A i \in Entries : hdr[i].kind # "free" => hdr[i].name # p
         /\ \A i \in FreeSlots : i \in Entries /\ hdr[i].kind = "free"
<1> DEFINE S == {i \in Entries : Used(i) /\ hdr[i].name = p}
           T == {i \in Entries : ~Used(i)}
<1>1. S \subseteq Entries /\ T \subseteq Entries /\ Find(p) = First(S) /\ FreeSlots = First(T)
  BY DEF Find, FreeSlots
<1>2. First(S) \subseteq S /\ (First(S) = {} => S = {}) /\ First(T) \subseteq T
  <2> HIDE DEF S, T
  <2> QED
    BY <1>1, FirstFacts
<1> QED
  BY <1>1, <1>2 DEF Used

\* The other entries are copied.
LEMMA EditedFacts ==
  ASSUME DiskOK, NEW i \in Entries, NEW e, NEW h, h = Edited(i, e)
  PROVE  h[i] = e /\ \A j \in Entries \ {i} : h[j] = hdr[j]
  BY DEF DiskOK, Edited

\* Only the entry that is edited changes.
LEMMA EditedTable ==
  ASSUME DiskOK, NEW i \in Entries, NEW e, NEW h, h = Edited(i, e), EditOK(i, e)
  PROVE  TableOK(h)
<1>1. h[i] = e /\ \A j \in Entries \ {i} : h[j] = hdr[j]
  BY EditedFacts
<1>2. e \in Entry
  BY DEF EditOK
<1>3. h \in [Entries -> Entry]
  BY <1>2 DEF DiskOK, Edited
<1>4. ASSUME NEW j \in Entries PROVE EditOK(j, h[j])
  <2>1. CASE j = i
    BY <1>1, <2>1
  <2>2. CASE j # i
    <3>1. h[j] = hdr[j] /\ hdr[j] \in Entry /\ Covered(hdr[j])
      BY <1>1, <2>2 DEF DiskOK
    <3> QED
      BY <3>1, EditSame
  <2> QED
    BY <2>1, <2>2
<1> QED
  BY <1>1, <1>3, <1>4 DEF TableOK

\* Nothing changes.
LEMMA SameTable ==
  ASSUME DiskOK
  PROVE  TableOK(hdr) /\ NameEdit(hdr)
<1>1. \A j \in Entries : EditOK(j, hdr[j])
  BY EditSame DEF DiskOK
<1>2. 1 \in Entries
  BY PfsAssumption DEF Entries
<1>3. TableOK(hdr)
  BY <1>1, <1>2 DEF TableOK, DiskOK
<1> QED
  BY <1>3 DEF NameEdit

\* A new file or directory, and the file the console creates.
LEMMA NewTable ==
  ASSUME DiskOK, NEW p \in Paths, NEW kd \in {"file", "dir"}, NEW i \in FreeSlots, NEW h,
         ParentExists(p), Find(p) = {}, h = Edited(i, SetEntry(p, 0, kd, <<>>))
  PROVE  TableOK(h) /\ NameEdit(h)
<1> DEFINE e == SetEntry(p, 0, kd, <<>>)
<1>1. i \in Entries /\ hdr[i].kind = "free"
  BY FindFacts
<1>2. EditOK(i, e) /\ e.name = p
  BY ClearedFacts
<1>3. h = Edited(i, e)
  OBVIOUS
<1> HIDE DEF e
<1>4. TableOK(h)
  BY <1>1, <1>2, <1>3, EditedTable
<1>5. h[i] = e /\ \A j \in Entries \ {i} : h[j] = hdr[j]
  BY <1>1, <1>3, EditedFacts
<1> QED
  BY <1>1, <1>2, <1>4, <1>5 DEF NameEdit

\* abi_open_pfs with FD_CREATE.
LEMMA NewFileTable ==
  ASSUME DiskOK, NEW p \in Paths, NEW h \in NewFile(p)
  PROVE  TableOK(h) /\ NameEdit(h)
<1>1. PICK i \in FreeSlots : ParentExists(p) /\ Find(p) = {} /\ h = Edited(i, SetEntry(p, 0, "file", <<>>))
  BY Zenon DEF NewFile
<1> QED
  BY <1>1, NewTable

\* abi_mkdir.
LEMMA NewDirTable ==
  ASSUME DiskOK, NEW p \in Paths, NEW h \in NewDir(p)
  PROVE  TableOK(h) /\ NameEdit(h)
<1>1. PICK i \in FreeSlots : ParentExists(p) /\ Find(p) = {} /\ h = Edited(i, SetEntry(p, 0, "dir", <<>>))
  BY Zenon DEF NewDir
<1> QED
  BY <1>1, NewTable

\* pfs_clear_entry.
LEMMA FreeEntryFacts ==
  ASSUME NEW i
  PROVE  EditOK(i, FreeEntry) /\ FreeEntry \in Entry /\ FreeEntry.kind = "free" /\ FreeEntry.cnt = 0
<1>1. FreeEntry = SetEntry(NoName, 0, "free", <<>>)
  BY DEF FreeEntry
<1> QED
  BY <1>1, ClearedFacts

\* pfs_unlink_header: a directory with something below it stays.
LEMMA UnlinkedTable ==
  ASSUME DiskOK, NEW p \in Paths, NEW h \in Unlinked(p)
  PROVE  TableOK(h) /\ NameEdit(h)
<1>1. PICK i \in Find(p) : (hdr[i].kind = "dir" => DirEmpty(p)) /\ h = Edited(i, FreeEntry)
  BY Zenon DEF Unlinked
<1>2. i \in Entries /\ hdr[i].name = p
  BY FindFacts
<1>3. TableOK(h)
  BY <1>1, <1>2, EditedTable, FreeEntryFacts
<1>4. h[i] = FreeEntry /\ \A j \in Entries \ {i} : h[j] = hdr[j]
  BY <1>1, <1>2, EditedFacts
<1>5. FreeEntry.kind = "free"
  BY FreeEntryFacts
<1>6. ASSUME NEW d \in Entries, hdr[d].kind = "dir", h[d].kind = "free", NEW j \in Entries, h[j].kind # "free",
             IsStrictPrefix(hdr[d].name, h[j].name)
      PROVE  FALSE
  <2>1. d = i /\ j # i
    BY <1>4, <1>5, <1>6
  <2> QED
    BY <1>1, <1>2, <1>4, <1>6, <2>1 DEF DirEmpty, Used
<1> QED
  BY <1>3, <1>4, <1>5, <1>6 DEF NameEdit

\* abi_open_pfs with FD_TRUNCATE: the name stays, the extents go.
LEMMA TruncatedTable ==
  ASSUME DiskOK, NEW p \in Paths, NEW h \in Truncated(p)
  PROVE  TableOK(h) /\ NameEdit(h)
<1>1. PICK i \in Find(p) : hdr[i].kind = "file" /\ h = Edited(i, SetEntry(p, 0, "file", <<>>))
  BY Zenon DEF Truncated, Truncatable
<1> DEFINE e == SetEntry(p, 0, "file", <<>>)
<1>2. i \in Entries /\ hdr[i].name = p
  BY FindFacts
<1>3. EditOK(i, e) /\ e.name = p /\ e.kind = "file"
  BY ClearedFacts
<1>4. h = Edited(i, e)
  BY <1>1
<1> HIDE DEF e
<1>5. TableOK(h)
  BY <1>2, <1>3, <1>4, EditedTable
<1>6. h[i] = e /\ \A j \in Entries \ {i} : h[j] = hdr[j]
  BY <1>2, <1>4, EditedFacts
<1>7. \A j \in Entries : h[j].kind = hdr[j].kind /\ h[j].name = hdr[j].name
  BY <1>1, <1>2, <1>3, <1>6
<1> QED
  BY <1>5, <1>7 DEF NameEdit

\* All entries are cleared.
LEMMA EmptyTable ==
  ASSUME DiskOK, NEW h, h = [i \in Entries |-> FreeEntry]
  PROVE  TableOK(h) /\ NameEdit(h)
<1>2. FreeEntry \in Entry /\ FreeEntry.kind = "free" /\ FreeEntry.cnt = 0
  BY FreeEntryFacts
<1>3. \A i \in Entries : h[i] = FreeEntry
  OBVIOUS
<1>4. \A i \in Entries : EditOK(i, h[i])
  BY <1>3, FreeEntryFacts
<1>5. 1 \in Entries
  BY PfsAssumption DEF Entries
<1>6. TableOK(h)
  BY <1>2, <1>3, <1>4, <1>5 DEF TableOK
<1> QED
  BY <1>2, <1>3, <1>6 DEF NameEdit

\* PersistentFs::format.
LEMMA FormattedTable ==
  ASSUME DiskOK, NEW h \in Formatted
  PROVE  TableOK(h) /\ NameEdit(h)
<1>1. h = [i \in Entries |-> FreeEntry]
  BY DEF Formatted
<1> QED
  BY <1>1, EmptyTable

\* An entry's own extents add nothing.
LEMMA OwnExtents ==
  ASSUME NEW i \in Entries, hdr[i] \in Entry, NEW x, x = Extents(hdr[i])
  PROVE  x \in Seq(Extent) /\ Len(x) <= MaxExtents /\ Grows(i, x)
<1>1. /\ x \in Seq(Extent) /\ Len(x) = hdr[i].cnt
      /\ \A k \in 1 .. hdr[i].cnt : x[k] = hdr[i].ext[k] /\ hdr[i].ext[k] \in Extent
      /\ hdr[i].cnt \in 0 .. MaxExtents /\ MaxExtents \in Nat
  BY SMTT(30), ExtentsFacts, PfsAssumption
<1>2. \A k \in 1 .. hdr[i].cnt : Longer(hdr[i].ext[k], x[k])
  BY <1>1, LongerSame
<1>3. \A s \in Nat : Covers(x, Len(x), s) => Covers(hdr[i].ext, hdr[i].cnt, s)
  BY <1>1 DEF Covers
<1>4. TidyExts(hdr[i].ext, hdr[i].cnt) => TidyExts(x, Len(x))
  BY <1>1 DEF TidyExts
<1> QED
  BY <1>1, <1>2, <1>3, <1>4 DEF Grows

\* pfs_rename_header: the extents and the size stay.
LEMMA RenamedTable ==
  ASSUME DiskOK, NEW p \in Paths, NEW q \in Paths, NEW h \in Renamed(p, q)
  PROVE  TableOK(h) /\ NameEdit(h)
<1>1. Find(q) = {} /\ ParentExists(q) /\ h \in RenamedTo(p, q)
  BY DEF Renamed
<1>2. PICK i \in Find(p) : /\ hdr[i].kind = "dir" => DirEmpty(p)
                           /\ h = Edited(i, SetEntry(q, hdr[i].size, hdr[i].kind, Extents(hdr[i])))
  BY <1>1, Zenon DEF RenamedTo
<1>3. i \in Entries /\ hdr[i].name = p /\ hdr[i] \in Entry /\ Covered(hdr[i])
  BY FindFacts DEF DiskOK
<1> DEFINE x == Extents(hdr[i])
           sz == hdr[i].size
           e == SetEntry(q, sz, hdr[i].kind, x)
<1>4. x \in Seq(Extent) /\ Len(x) <= MaxExtents /\ Grows(i, x)
  BY <1>3, OwnExtents
<1>5. sz \in 0 .. FileMax /\ (hdr[i].kind = "file" => SectorsFor(sz) <= Len(SectorsOf(hdr[i])))
  BY <1>3, EntryFacts DEF Covered
<1>6. e = SetEntry(q, sz, hdr[i].kind, x) /\ h = Edited(i, e) /\ q \in Paths \cup {NoName}
  BY <1>2
<1> HIDE DEF x, sz, e
<1>7. EditOK(i, e) /\ e.kind = hdr[i].kind /\ e.name = q
  BY <1>3, <1>4, <1>5, <1>6, EditExtents
<1>8. TableOK(h)
  BY <1>3, <1>6, <1>7, EditedTable
<1>9. h[i] = e /\ \A j \in Entries \ {i} : h[j] = hdr[j]
  BY <1>3, <1>6, EditedFacts
<1> QED
  BY <1>1, <1>2, <1>3, <1>7, <1>8, <1>9 DEF NameEdit

\* The sectors that are still missing are added, and all of them are free.
LEMMA CapacityTable ==
  ASSUME DiskOK, op.idx \in Entries, op.off \in Nat, op.n \in Nat, NEW h \in Capacity
  PROVE  /\ TableOK(h) /\ NameEdit(h)
         /\ h[op.idx].kind = "file" /\ SectorsFor(op.off + op.n) <= Len(SectorsOf(h[op.idx]))
<1> DEFINE i == op.idx
           need == SectorsFor(op.off + op.n)
           have == Len(SectorsOf(hdr[i]))
           more == need - have
           x == Grown(i, more)
           e == SetEntry(hdr[i].name, hdr[i].size, hdr[i].kind, x)
<1>1. /\ hdr[i].kind = "file" /\ i \in Entries
      /\ \/ more <= 0 /\ h = hdr
         \/ ~(more <= 0) /\ Fits(x) /\ h = Edited(i, e)
  BY DEF Capacity, Target
<1>2. hdr[i] \in Entry /\ Covered(hdr[i])
  BY DEF DiskOK
<1>3. need \in Nat /\ have \in Nat
  <2>1. op.off + op.n \in Nat
    OBVIOUS
  <2>2. need \in Nat
    BY <2>1, SectorsForFacts
  <2> QED
    BY <1>2, <2>2, EntryFacts
<1>m. more = need - have
  OBVIOUS
<1>e. e = SetEntry(hdr[i].name, hdr[i].size, hdr[i].kind, x)
  OBVIOUS
<1>x. x = Grown(i, more)
  OBVIOUS
<1>4. CASE more <= 0 /\ h = hdr
  <2>1. TableOK(h) /\ NameEdit(h)
    BY <1>4, SameTable
  <2>2. need <= have
    <3> HIDE DEF need, have
    <3> QED
      BY <1>3, <1>4
  <2> QED
    BY <1>1, <1>4, <2>1, <2>2
<1>5. CASE ~(more <= 0) /\ Fits(x) /\ h = Edited(i, e)
  <2>1. more \in Nat /\ have + more = need
    <3> HIDE DEF need, have
    <3> QED
      BY <1>3, <1>5
  <2>2. Len(x) <= MaxExtents /\ End(x) <= DiskSectors
    BY <1>5 DEF Fits
  <2>3. /\ hdr[i].cnt <= Len(x) /\ \A k \in 1 .. hdr[i].cnt : Longer(hdr[i].ext[k], x[k])
        /\ Len(Sec(x, Len(x))) = have + more
    <3> HIDE DEF more
    <3> QED
      BY <1>2, <2>1, GrownKeeps
  <2>4. /\ x \in Seq(Extent)
        /\ \A s \in Nat : Covers(x, Len(x), s) => Covers(hdr[i].ext, hdr[i].cnt, s) \/ s \in Sectors \ Taken(i)
    <3> HIDE DEF more
    <3> QED
      BY <1>2, <2>1, <2>2, GrownOnDisk
  <2>5. TidyExts(hdr[i].ext, hdr[i].cnt) => TidyExts(x, Len(x))
    <3> HIDE DEF more
    <3> QED
      BY <1>2, <2>1, <2>2, GrownTidy
  <2>6. Grows(i, x)
    <3> HIDE DEF x
    <3> QED
      BY <2>3, <2>4, <2>5 DEF Grows
  <2>7. /\ hdr[i].name \in Paths \cup {NoName} /\ hdr[i].size \in 0 .. FileMax
        /\ SectorsFor(hdr[i].size) <= Len(SectorsOf(hdr[i]))
    BY <1>1, <1>2, EntryFacts DEF Covered
  <2> DEFINE nm == hdr[i].name
             sz == hdr[i].size
  <2>8. /\ i \in Entries /\ hdr[i] \in Entry
        /\ hdr[i].kind = "file" => SectorsFor(sz) <= Len(SectorsOf(hdr[i]))
        /\ nm \in Paths \cup {NoName} /\ sz \in 0 .. FileMax /\ SectorsFor(sz) <= Len(SectorsOf(hdr[i]))
        /\ nm = hdr[i].name /\ e = SetEntry(nm, sz, hdr[i].kind, x) /\ h = Edited(i, e)
    BY <1>1, <1>2, <1>5, <2>7
  <2> HIDE DEF x, e, more, need, have, nm, sz, i
  <2>9. /\ EditOK(i, e) /\ e.kind = hdr[i].kind /\ e.name = nm
        /\ SectorsOf(e) = Sec(x, Len(x))
    BY <2>2, <2>4, <2>6, <2>8, EditExtents
  <2>10. TableOK(h)
    BY <1>1, <2>8, <2>9, EditedTable
  <2>11. h[i] = e /\ \A j \in Entries \ {i} : h[j] = hdr[j]
    BY <1>1, <2>8, EditedFacts
  <2>12. \A j \in Entries : h[j].kind = hdr[j].kind /\ h[j].name = hdr[j].name
    BY <2>8, <2>9, <2>11
  <2>13. NameEdit(h)
    BY <2>12 DEF NameEdit
  <2>14. h[i].kind = "file" /\ need <= Len(SectorsOf(h[i]))
    BY <1>1, <1>3, <2>1, <2>3, <2>9, <2>11
  <2> QED
    BY <2>10, <2>13, <2>14 DEF i, need
<1> QED
  BY <1>1, <1>4, <1>5

\* pfs_update_size comes after the capacity is there.
LEMMA SizedTable ==
  ASSUME DiskOK, op.idx \in Entries, NewSize \in 0 .. FileMax, IsFile(op.idx),
         SectorsFor(NewSize) <= Len(SectorsOf(Target)), NEW h, h = Sized
  PROVE  TableOK(h) /\ NameEdit(h)
<1> DEFINE i == op.idx
           o == hdr[i]
           e == [o EXCEPT !.size = NewSize]
<1>1. /\ h = Edited(i, e) /\ i \in Entries /\ o \in Entry /\ Covered(o) /\ o.kind = "file" /\ o = hdr[i]
      /\ SectorsFor(NewSize) <= Len(SectorsOf(o)) /\ e = [o EXCEPT !.size = NewSize]
  BY DEF Sized, Target, DiskOK, IsFile
<1>2. /\ o = [kind |-> o.kind, name |-> o.name, size |-> o.size, cnt |-> o.cnt, ext |-> o.ext]
      /\ o.cnt \in 0 .. MaxExtents
      /\ o.kind \in {"free", "file", "dir"} /\ o.name \in Paths \cup {NoName}
      /\ o.ext \in [1 .. MaxExtents -> Extent]
  BY <1>1, EntryFacts
<1> HIDE DEF i, o, e
<1>3. /\ e = [kind |-> o.kind, name |-> o.name, size |-> NewSize, cnt |-> o.cnt, ext |-> o.ext]
      /\ e.kind = o.kind /\ e.name = o.name /\ e.size = NewSize /\ e.cnt = o.cnt /\ e.ext = o.ext
  BY <1>1, <1>2
<1>4. e \in Entry
  BY <1>2, <1>3 DEF Entry
<1>5. EditOK(i, o)
  BY <1>1, EditSame
<1>6. \A k \in 1 .. o.cnt : Longer(o.ext[k], e.ext[k])
  <2>1. \A k \in 1 .. o.cnt : o.ext[k] \in Extent
    BY <1>2, PfsAssumption
  <2> QED
    BY <1>3, <2>1, LongerSame
<1>7. Tidy(o) => Tidy(e)
  BY <1>3 DEF Tidy
<1>8. o.cnt <= e.cnt
  BY <1>2, <1>3, PfsAssumption
<1>9. EditOK(i, e)
  BY <1>1, <1>3, <1>4, <1>6, <1>7, <1>8 DEF EditOK
<1>10. TableOK(h)
  BY <1>1, <1>9, EditedTable
<1>11. h[i] = e /\ \A j \in Entries \ {i} : h[j] = hdr[j]
  BY <1>1, EditedFacts
<1>12. \A j \in Entries : h[j].kind = hdr[j].kind /\ h[j].name = hdr[j].name
  BY <1>1, <1>3, <1>11
<1> QED
  BY <1>10, <1>12 DEF NameEdit

\* Every table a call that only touches the header may write.
LEMMA EditTables ==
  ASSUME DiskOK, NEW h \in HeaderEdits
  PROVE  TableOK(h)
<1>1. CASE h \in Formatted
  BY <1>1, FormattedTable
<1>2. CASE h \notin Formatted
  <2>1. PICK p \in Paths : h \in NewFile(p) \cup NewDir(p) \cup Unlinked(p) \cup Truncated(p)
                                   \cup UNION {Renamed(p, q) : q \in Paths}
    BY <1>2, Zenon DEF HeaderEdits
  <2>2. h \in UNION {Renamed(p, q) : q \in Paths} => \E q \in Paths : h \in Renamed(p, q)
    BY Zenon
  <2> QED
    BY <2>1, <2>2, NewFileTable, NewDirTable, UnlinkedTable, TruncatedTable, RenamedTable
<1> QED
  BY <1>1, <1>2
-----------------------------------------------------------------------------
(* What a table that was written, or written in part, is like *)

\* Each entry is old, new or torn.
Wrote(h, g) ==
  \A i \in Entries : g[i] \in {hdr[i], h[i]} \/ \E c \in 0 .. MaxExtents : g[i] \in Torn(hdr[i], h[i], c)

\* No two files of h have a sector in common.
Apart(h) ==
  \A i, j \in Entries : i # j /\ h[i].kind = "file" /\ h[j].kind = "file" =>
    \A s \in Nat : ~(Covers(h[i].ext, h[i].cnt, s) /\ Covers(h[j].ext, h[j].cnt, s))

\* What is in use has a name, nothing else has it, and files are in directories.
HasDir(h, p) == Len(p) = 1 \/ \E d \in Entries : h[d].kind = "dir" /\ h[d].name = Front(p)
TreeOK(h) ==
  /\ \A i \in Entries : h[i].kind # "free" => h[i].name \in Paths
  /\ \A i, j \in Entries : h[i].kind # "free" /\ h[j].kind # "free" /\ h[i].name = h[j].name => i = j
  /\ \A i \in Entries : h[i].kind = "file" => HasDir(h, h[i].name)

\* Whatever the write left, every byte below the size has a sector.
LEMMA WroteCovered ==
  ASSUME DiskOK, NEW h, TableOK(h), NEW g, Wrote(h, g), NEW i \in Entries
  PROVE  g[i] \in Entry /\ Covered(g[i])
<1>1. hdr[i] \in Entry /\ Covered(hdr[i]) /\ EditOK(i, h[i])
  BY DEF DiskOK, TableOK
<1>2. h[i] \in Entry /\ Covered(h[i])
  BY <1>1, EditCovered DEF EditOK
<1>3. ASSUME NEW c \in 0 .. MaxExtents, g[i] \in Torn(hdr[i], h[i], c)
      PROVE  g[i] \in Entry /\ Covered(g[i])
  BY <1>1, <1>3, TornEdit
<1> QED
  BY <1>1, <1>2, <1>3 DEF Wrote

\* An entry that is not the one that grows has no sector it did not have.
Shrinks(i, e) ==
  e.kind = "file" => \A s \in Nat : Covers(e.ext, e.cnt, s) =>
                       hdr[i].kind = "file" /\ Covers(hdr[i].ext, hdr[i].cnt, s)
\* The one that grows has only free sectors besides.
Claims(i, e) ==
  e.kind = "file" => \A s \in Nat : Covers(e.ext, e.cnt, s) =>
                       \/ hdr[i].kind = "file" /\ Covers(hdr[i].ext, hdr[i].cnt, s)
                       \/ s \in Sectors \ Taken(i)

\* What an edit claims.
LEMMA EditClaims ==
  ASSUME NEW i \in Entries, NEW e, EditOK(i, e)
  PROVE  /\ Claims(i, e)
         /\ e = hdr[i] \/ e.cnt = 0 => Shrinks(i, e)
<1>1. CASE e.cnt = 0
  BY <1>1 DEF Claims, Shrinks, Covers
<1>2. CASE /\ e.kind = hdr[i].kind
           /\ \A s \in Nat : Covers(e.ext, e.cnt, s) =>
                Covers(hdr[i].ext, hdr[i].cnt, s) \/ s \in Sectors \ Taken(i)
  BY <1>1, <1>2 DEF Claims, Shrinks
<1> QED
  BY <1>1, <1>2 DEF EditOK

\* A torn entry claims no more than the edit, if the old one was tidy.
LEMMA TornClaims ==
  ASSUME NEW i \in Entries, hdr[i] \in Entry, Tidy(hdr[i]), NEW e, EditOK(i, e),
         NEW c \in 0 .. MaxExtents, NEW t \in Torn(hdr[i], e, c)
  PROVE  /\ Claims(i, t)
         /\ e = hdr[i] \/ e.cnt = 0 => Shrinks(i, t)
<1>1. t.kind = e.kind /\ \A s \in Nat : Covers(t.ext, t.cnt, s) => Covers(e.ext, e.cnt, s)
  BY TornEdit
<1>2. Claims(i, e) /\ (e = hdr[i] \/ e.cnt = 0 => Shrinks(i, e))
  BY EditClaims
<1> QED
  BY <1>1, <1>2 DEF Claims, Shrinks

\* If one entry claims free sectors and no other one grows, no two files meet.
LEMMA ClaimsApart ==
  ASSUME DiskOK, Apart(hdr), NEW g, NEW m \in Entries, Claims(m, g[m]),
         \A j \in Entries \ {m} : Shrinks(j, g[j])
  PROVE  Apart(g)
<1>1. ASSUME NEW j \in Entries \ {m}, g[m].kind = "file", g[j].kind = "file", NEW s \in Nat,
             Covers(g[m].ext, g[m].cnt, s), Covers(g[j].ext, g[j].cnt, s)
      PROVE  FALSE
  <2>1. hdr[j].kind = "file" /\ Covers(hdr[j].ext, hdr[j].cnt, s)
    BY <1>1 DEF Shrinks
  <2>2. CASE hdr[m].kind = "file" /\ Covers(hdr[m].ext, hdr[m].cnt, s)
    BY <1>1, <2>1, <2>2 DEF Apart
  <2>3. CASE s \in Sectors \ Taken(m)
    <3>1. hdr[j] \in Entry
      BY DEF DiskOK
    <3>2. hdr[j].cnt \in Nat /\ Exts(hdr[j].ext, hdr[j].cnt) /\ SectorsOf(hdr[j]) = Sec(hdr[j].ext, hdr[j].cnt)
      BY <3>1, EntryFacts
    <3>3. s \in Range(SectorsOf(hdr[j]))
      BY <2>1, <3>2, SecRange
    <3> QED
      BY <2>1, <2>3, <3>3 DEF Taken
  <2> QED
    BY <1>1, <2>2, <2>3 DEF Claims
<1>2. ASSUME NEW i \in Entries \ {m}, NEW j \in Entries \ {m}, i # j, g[i].kind = "file", g[j].kind = "file",
             NEW s \in Nat, Covers(g[i].ext, g[i].cnt, s), Covers(g[j].ext, g[j].cnt, s)
      PROVE  FALSE
  <2>1. hdr[i].kind = "file" /\ Covers(hdr[i].ext, hdr[i].cnt, s)
    BY <1>2 DEF Shrinks
  <2>2. hdr[j].kind = "file" /\ Covers(hdr[j].ext, hdr[j].cnt, s)
    BY <1>2 DEF Shrinks
  <2> QED
    BY <1>2, <2>1, <2>2 DEF Apart
<1> SUFFICES ASSUME NEW i \in Entries, NEW j \in Entries, i # j, g[i].kind = "file", g[j].kind = "file",
                    NEW s \in Nat, Covers(g[i].ext, g[i].cnt, s), Covers(g[j].ext, g[j].cnt, s)
             PROVE  FALSE
  BY DEF Apart
<1>3. CASE i = m
  BY <1>1, <1>3
<1>4. CASE j = m
  BY <1>1, <1>4
<1>5. CASE i # m /\ j # m
  BY <1>2, <1>5
<1> QED
  BY <1>3, <1>4, <1>5

\* A write that went through, or that hit a disk on which all entries are tidy.
LEMMA WroteApart ==
  ASSUME DiskOK, Apart(hdr), NEW h, TableOK(h), NEW g, Wrote(h, g),
         g = h \/ \A i \in Entries : Tidy(hdr[i])
  PROVE  Apart(g)
<1>1. PICK m \in Entries : \A j \in Entries \ {m} : h[j] = hdr[j] \/ h[j].cnt = 0
  BY DEF TableOK
<1>2. ASSUME NEW i \in Entries
      PROVE  Claims(i, g[i]) /\ (h[i] = hdr[i] \/ h[i].cnt = 0 => Shrinks(i, g[i]))
  <2>1. EditOK(i, h[i]) /\ hdr[i] \in Entry
    BY DEF TableOK, DiskOK
  <2>2. CASE g[i] = h[i]
    BY <2>1, <2>2, EditClaims
  <2>3. CASE g[i] = hdr[i]
    <3>1. Claims(i, hdr[i]) /\ Shrinks(i, hdr[i])
      BY DEF Claims, Shrinks
    <3> QED
      BY <2>3, <3>1
  <2>4. ASSUME NEW c \in 0 .. MaxExtents, g[i] \in Torn(hdr[i], h[i], c), Tidy(hdr[i])
        PROVE  Claims(i, g[i]) /\ (h[i] = hdr[i] \/ h[i].cnt = 0 => Shrinks(i, g[i]))
    BY <2>1, <2>4, TornClaims
  <2> QED
    BY <2>2, <2>3, <2>4 DEF Wrote
<1> QED
  BY <1>1, <1>2, ClaimsApart

\* The parent of a path is a strict prefix of it, and a path of its own.
LEMMA FrontFacts ==
  ASSUME NEW p \in Paths
  PROVE  /\ Len(p) \in Nat /\ Len(p) # 0
         /\ Len(p) # 1 => IsStrictPrefix(Front(p), p)
<1>1. p \in Seq(Range(p)) /\ p # <<>>
  BY PfsAssumption
<1> DEFINE R == Range(p)
<1>2. p \in Seq(R) /\ p # <<>>
  BY <1>1
<1> HIDE DEF R
<1>3. Len(p) \in Nat /\ Len(p) # 0
  BY <1>2
<1>4. ASSUME Len(p) # 1 PROVE IsStrictPrefix(Front(p), p)
  <2>1. Len(p) - 1 \in Nat /\ Len(p) - 1 <= Len(p)
    BY <1>3
  <2>2. Front(p) \in Seq(R) /\ Len(Front(p)) = Len(p) - 1
    <3>1. ASSUME NEW q \in Seq(R), NEW n \in 0 .. Len(q)
          PROVE  SubSeq(q, 1, n) \in Seq(R) /\ Len(SubSeq(q, 1, n)) = n
      OBVIOUS
    <3>2. Len(p) - 1 \in 0 .. Len(p)
      BY <2>1
    <3> QED
      BY <1>2, <3>1, <3>2 DEF Front
  <2>3. SubSeq(Front(p), 1, Len(Front(p))) = Front(p)
    BY <2>2
  <2>4. Front(p) = SubSeq(p, 1, Len(Front(p)))
    BY <2>2 DEF Front
  <2>5. Front(p) # p
    BY <1>3, <2>2
  <2> QED
    BY <1>3, <2>2, <2>1, <2>3, <2>4, <2>5 DEF IsStrictPrefix, IsPrefix
<1> QED
  BY <1>3, <1>4

\* pfs_parent_exists finds the directory that has the name.
LEMMA ParentFacts ==
  ASSUME NEW p, \A i, j \in Entries : Used(i) /\ Used(j) /\ hdr[i].name = hdr[j].name => i = j
  PROVE  ParentExists(p) <=> HasDir(hdr, p)
<1>1. ASSUME NEW i \in Find(Front(p)), hdr[i].kind = "dir" PROVE HasDir(hdr, p)
  BY <1>1, FindFacts DEF HasDir
<1>2. ASSUME NEW d \in Entries, hdr[d].kind = "dir", hdr[d].name = Front(p)
      PROVE  d \in Find(Front(p))
  <2>1. Used(d)
    BY <1>2 DEF Used
  <2>2. ASSUME NEW j \in Entries, Used(j), hdr[j].name = Front(p) PROVE d <= j
    <3>1. d = j
      BY <1>2, <2>1, <2>2
    <3> QED
      BY <3>1, PfsAssumption DEF Entries
  <2> QED
    BY <1>2, <2>1, <2>2 DEF Find, First
<1> QED
  BY <1>1, <1>2 DEF ParentExists, HasDir

\* An edit keeps the tree.
LEMMA TreeStep ==
  ASSUME NEW h, NameEdit(h), TreeOK(hdr)
  PROVE  TreeOK(h)
<1>1. ASSUME /\ \A j \in Entries : h[j].kind = "free" \/ (h[j].kind = hdr[j].kind /\ h[j].name = hdr[j].name)
             /\ \A d \in Entries : hdr[d].kind = "dir" /\ h[d].kind = "free" =>
                  \A j \in Entries : h[j].kind # "free" => ~IsStrictPrefix(hdr[d].name, h[j].name)
      PROVE  TreeOK(h)
  <2>1. \A i \in Entries : h[i].kind # "free" => h[i].name \in Paths
    BY <1>1 DEF TreeOK
  <2>2. \A i, j \in Entries : h[i].kind # "free" /\ h[j].kind # "free" /\ h[i].name = h[j].name => i = j
    BY <1>1 DEF TreeOK
  <2>3. ASSUME NEW i \in Entries, h[i].kind = "file", Len(h[i].name) # 1
        PROVE  \E d \in Entries : h[d].kind = "dir" /\ h[d].name = Front(h[i].name)
    <3>1. hdr[i].kind = "file" /\ hdr[i].name = h[i].name /\ h[i].name \in Paths
      BY <1>1, <2>1, <2>3
    <3>2. PICK d \in Entries : hdr[d].kind = "dir" /\ hdr[d].name = Front(h[i].name)
      BY <2>3, <3>1 DEF TreeOK, HasDir
    <3>3. IsStrictPrefix(Front(h[i].name), h[i].name)
      BY <2>3, <3>1, FrontFacts
    <3>4. h[d].kind # "free"
      BY <1>1, <2>3, <3>2, <3>3
    <3> QED
      BY <1>1, <3>2, <3>4
  <2> QED
    BY <2>1, <2>2, <2>3 DEF TreeOK, HasDir
<1>2. ASSUME NEW m \in Entries, NEW q \in Paths,
             Find(q) = {}, ParentExists(q), h[m].name = q,
             \/ hdr[m].kind = "free"
             \/ h[m].kind = hdr[m].kind /\ (hdr[m].kind = "dir" => DirEmpty(hdr[m].name)),
             \A j \in Entries \ {m} : h[j] = hdr[j]
      PROVE  TreeOK(h)
  <2>1. \A i \in Entries : h[i].kind # "free" => h[i].name \in Paths
    BY <1>2 DEF TreeOK
  <2>2. \A j \in Entries : hdr[j].kind # "free" => hdr[j].name # q
    BY <1>2, FindFacts
  <2>3. \A i, j \in Entries : h[i].kind # "free" /\ h[j].kind # "free" /\ h[i].name = h[j].name => i = j
    BY <1>2, <2>2 DEF TreeOK
  <2>4. HasDir(hdr, q)
    BY <1>2, ParentFacts DEF TreeOK, Used
  <2>5. ASSUME NEW i \in Entries, h[i].kind = "file", Len(h[i].name) # 1
        PROVE  \E d \in Entries : h[d].kind = "dir" /\ h[d].name = Front(h[i].name)
    <3>1. h[i].name \in Paths
      BY <2>1, <2>5
    <3>2. IsStrictPrefix(Front(h[i].name), h[i].name)
      BY <2>5, <3>1, FrontFacts
    <3>3. CASE i = m
      <4>1. PICK d \in Entries : hdr[d].kind = "dir" /\ hdr[d].name = Front(q)
        BY <1>2, <2>4, <2>5, <3>3 DEF HasDir
      <4>2. d # m
        BY <1>2, <2>5, <3>3, <4>1
      <4> QED
        BY <1>2, <3>3, <4>1, <4>2
    <3>4. CASE i # m
      <4>1. h[i] = hdr[i]
        BY <1>2, <3>4
      <4>2. PICK d \in Entries : hdr[d].kind = "dir" /\ hdr[d].name = Front(h[i].name)
        BY <2>5, <4>1 DEF TreeOK, HasDir
      <4>3. ASSUME d = m PROVE FALSE
        <5>1. DirEmpty(hdr[m].name)
          BY <1>2, <4>2, <4>3
        <5> QED
          BY <2>5, <3>2, <4>1, <4>2, <4>3, <5>1 DEF DirEmpty, Used
      <4> QED
        BY <1>2, <4>2, <4>3
    <3> QED
      BY <3>3, <3>4
  <2> QED
    BY <2>1, <2>3, <2>5 DEF TreeOK, HasDir
<1> QED
  BY <1>1, <1>2 DEF NameEdit
-----------------------------------------------------------------------------
(* The steps *)

FdType == [open : BOOLEAN, idx : Entries, len : 0 .. FileMax, off : 0 .. FileMax, append : BOOLEAN]
OpType == [pc : {"idle", "grow", "data", "size", "lost"}, fd : Fds \cup {Console}, idx : Entries,
           off : 0 .. FileMax, n : 0 .. MaxWrite]
DataType == [Sectors -> [0 .. SectorBytes - 1 -> {0, Byte, Junk}]]

VarsOK == data \in DataType /\ fds \in [Fds -> FdType] /\ op \in OpType /\ faults \in 0 .. MaxFaults

\* The type invariant, with the table apart.
LEMMA TypesOK == TypeOK <=> (hdr \in [Entries -> Entry] /\ VarsOK)
  BY DEF TypeOK, VarsOK, FdType, OpType, DataType

\* The table is well formed; as long as every header write went through, it is tidy
\* and a tree.
HdrInv == DiskOK /\ TidyOK /\ (faults = 0 => TreeOK(hdr))

\* The inductive invariant.
PfsInv == VarsOK /\ OpOK /\ HdrInv

\* What a step may do to the header.
Moves ==
  \/ hdr' = hdr /\ faults' \in {faults, faults + 1}
  \/ \E h : TableOK(h) /\ NameEdit(h) /\ Stored(h)
  \/ \E h : TableOK(h) /\ HeaderFault(h)

StepOK == Moves /\ VarsOK' /\ OpOK'

\* write_header stops on the way.
LEMMA FaultWrote ==
  ASSUME DiskOK, NEW h, TableOK(h), HeaderFault(h)
  PROVE  Wrote(h, hdr') /\ hdr' = [j \in Entries |-> hdr'[j]]
<1>1. PICK i \in Entries :
        \E e \in {hdr[i], h[i]} \cup (IF Cut[i] = -1 THEN {} ELSE Torn(hdr[i], h[i], Cut[i])) :
          hdr' = [j \in Entries |-> IF j < i THEN h[j] ELSE IF j = i THEN e ELSE hdr[j]]
  BY Zenon DEF HeaderFault
<1>2. PICK e \in {hdr[i], h[i]} \cup (IF Cut[i] = -1 THEN {} ELSE Torn(hdr[i], h[i], Cut[i])) :
        hdr' = [j \in Entries |-> IF j < i THEN h[j] ELSE IF j = i THEN e ELSE hdr[j]]
  BY <1>1, Zenon
<1>3. \A j \in Entries : hdr'[j] = IF j < i THEN h[j] ELSE IF j = i THEN e ELSE hdr[j]
  BY <1>2
<1>4. e \in {hdr[i], h[i]} \/ (Cut[i] # -1 /\ e \in Torn(hdr[i], h[i], Cut[i]))
  BY <1>2
<1>5. Cut[i] # -1 => Cut[i] \in 0 .. MaxExtents
  BY PfsAssumption DEF Entries
<1>6. e \in {hdr[i], h[i]} \/ \E c \in 0 .. MaxExtents : e \in Torn(hdr[i], h[i], c)
  BY <1>4, <1>5
<1>7. ASSUME NEW j \in Entries
      PROVE  hdr'[j] \in {hdr[j], h[j]} \/ \E c \in 0 .. MaxExtents : hdr'[j] \in Torn(hdr[j], h[j], c)
  <2>1. CASE j = i
    <3>1. hdr'[j] = e
      BY <1>3, <2>1, PfsAssumption DEF Entries
    <3> QED
      BY <1>6, <2>1, <3>1
  <2>2. CASE j # i
    BY <1>3, <2>2
  <2> QED
    BY <2>1, <2>2
<1> QED
  BY <1>2, <1>7 DEF Wrote

\* The header stays well formed, and tidy and a tree until a write fails.
LEMMA MovesHdr ==
  ASSUME VarsOK, HdrInv, Moves
  PROVE  HdrInv'
<1>0. DiskOK /\ TidyOK /\ (faults = 0 => TreeOK(hdr)) /\ faults \in Nat
  BY PfsAssumption DEF HdrInv, VarsOK
<1>1. CASE hdr' = hdr /\ faults' \in {faults, faults + 1}
  <2>1. faults' = 0 => faults = 0
    BY <1>0, <1>1
  <2> QED
    BY <1>0, <1>1, <2>1 DEF HdrInv, DiskOK, TidyOK
<1>2. ASSUME NEW h, TableOK(h), NameEdit(h), Stored(h)
      PROVE  HdrInv'
  <2>1. hdr' = h /\ faults' = faults
    BY <1>2 DEF Stored
  <2>2. ASSUME NEW i \in Entries PROVE Covered(h[i]) /\ (Tidy(hdr[i]) => Tidy(h[i]))
    <3>1. EditOK(i, h[i]) /\ hdr[i] \in Entry
      BY <1>0, <1>2 DEF TableOK, DiskOK
    <3> QED
      BY <3>1, EditCovered DEF EditOK
  <2>3. h \in [Entries -> Entry]
    BY <1>2 DEF TableOK
  <2>4. DiskOK'
    BY <2>1, <2>2, <2>3 DEF DiskOK
  <2>5. TidyOK'
    BY <1>0, <2>1, <2>2 DEF TidyOK
  <2>6. faults' = 0 => TreeOK(h)
    BY <1>0, <1>2, <2>1, TreeStep
  <2> QED
    BY <2>1, <2>4, <2>5, <2>6 DEF HdrInv
<1>3. ASSUME NEW h, TableOK(h), HeaderFault(h)
      PROVE  HdrInv'
  <2>1. Wrote(h, hdr') /\ hdr' = [j \in Entries |-> hdr'[j]]
    BY <1>0, <1>3, FaultWrote
  <2>2. \A i \in Entries : hdr'[i] \in Entry /\ Covered(hdr'[i])
    BY <1>0, <1>3, <2>1, WroteCovered
  <2>3. hdr' \in [Entries -> Entry]
    <3> DEFINE g == hdr'
    <3>1. g = [j \in Entries |-> g[j]] /\ \A i \in Entries : g[i] \in Entry
      BY <2>1, <2>2
    <3> HIDE DEF g
    <3>2. g \in [Entries -> Entry]
      BY <3>1
    <3> QED
      BY <3>2 DEF g
  <2>4. DiskOK'
    BY <2>2, <2>3 DEF DiskOK
  <2>5. faults' # 0
    BY <1>0, <1>3 DEF HeaderFault, Interrupted
  <2> QED
    BY <2>4, <2>5 DEF HdrInv, TidyOK
<1> QED
  BY <1>1, <1>2, <1>3 DEF Moves

\* One interrupted header write at the most leaves the files apart.
LEMMA MovesApart ==
  ASSUME VarsOK, HdrInv, Moves, faults' <= 1, faults <= 1 => Apart(hdr)
  PROVE  Apart(hdr')
<1>0. DiskOK /\ TidyOK /\ faults \in Nat
  BY PfsAssumption DEF HdrInv, VarsOK
<1>a. faults' \in {faults, faults + 1}
  BY DEF Moves, Stored, HeaderFault, Interrupted
<1>b. Apart(hdr)
  BY <1>0, <1>a
<1>1. CASE hdr' = hdr
  BY <1>1, <1>b
<1>2. ASSUME NEW h, TableOK(h), Stored(h)
      PROVE  Apart(hdr')
  <2>1. hdr' = h /\ Wrote(h, h)
    BY <1>2 DEF Stored, Wrote
  <2>2. Apart(h)
    BY <1>0, <1>b, <1>2, <2>1, WroteApart
  <2> QED
    BY <2>1, <2>2
<1>3. ASSUME NEW h, TableOK(h), HeaderFault(h)
      PROVE  Apart(hdr')
  <2>1. Wrote(h, hdr')
    BY <1>0, <1>3, FaultWrote
  <2>2. faults = 0
    BY <1>0, <1>3 DEF HeaderFault, Interrupted
  <2>3. \A i \in Entries : Tidy(hdr[i])
    BY <1>0, <2>2 DEF TidyOK
  <2> DEFINE g == hdr'
  <2>4. Wrote(h, g)
    BY <2>1
  <2> HIDE DEF g
  <2>5. Apart(g)
    BY <1>0, <1>b, <1>3, <2>3, <2>4, WroteApart
  <2> QED
    BY <2>5 DEF g
<1> QED
  BY <1>1, <1>2, <1>3 DEF Moves
-----------------------------------------------------------------------------
(* One lemma per action *)

\* The records the calls reset to.
LEMMA ConstFacts ==
  /\ Closed \in FdType /\ NoOp \in OpType /\ NoOp.pc = "idle"
  /\ [NoOp EXCEPT !.pc = "lost"] \in OpType /\ [NoOp EXCEPT !.pc = "lost"].pc = "lost"
  /\ [f \in Fds |-> Closed] \in [Fds -> FdType]
  /\ FileMax \in Nat /\ MaxWrite \in Nat /\ SectorBytes \in Nat
<1>1. 1 \in Entries /\ 0 \in 0 .. FileMax /\ 0 \in 0 .. MaxWrite
  BY PfsAssumption DEF Entries
<1>2. Closed \in FdType
  BY <1>1 DEF Closed, FdType
<1>3. /\ NoOp \in OpType /\ NoOp.pc = "idle"
      /\ [NoOp EXCEPT !.pc = "lost"] \in OpType /\ [NoOp EXCEPT !.pc = "lost"].pc = "lost"
  BY <1>1 DEF NoOp, OpType
<1> QED
  BY <1>2, <1>3, PfsAssumption

\* Between two calls nothing is claimed about the write in progress.
LEMMA NoOpOK ==
  ASSUME op' \in OpType, op'.pc \notin {"grow", "data", "size"}
  PROVE  OpOK'
  BY DEF OpOK

\* What the write in progress consists of.
LEMMA OpFacts ==
  ASSUME op \in OpType
  PROVE  /\ op.pc \in {"idle", "grow", "data", "size", "lost"} /\ op.fd \in Fds \cup {Console}
         /\ op.idx \in Entries /\ op.off \in 0 .. FileMax /\ op.n \in 0 .. MaxWrite
         /\ op.off \in Nat /\ op.n \in Nat
         /\ op = [pc |-> op.pc, fd |-> op.fd, idx |-> op.idx, off |-> op.off, n |-> op.n]
  BY PfsAssumption DEF OpType

\* What a descriptor consists of.
LEMMA FdFacts ==
  ASSUME fds \in [Fds -> FdType], NEW f \in Fds
  PROVE  /\ fds[f] \in FdType
         /\ fds[f].open \in BOOLEAN /\ fds[f].idx \in Entries /\ fds[f].append \in BOOLEAN
         /\ fds[f].len \in 0 .. FileMax /\ fds[f].off \in 0 .. FileMax
         /\ fds[f] = [open |-> fds[f].open, idx |-> fds[f].idx, len |-> fds[f].len, off |-> fds[f].off,
                      append |-> fds[f].append]
  BY DEF FdType

\* A call that only edits the header.
LEMMA ChangeStep ==
  ASSUME VarsOK, NEW edits, \A h \in edits : TableOK(h) /\ NameEdit(h), Change(edits)
  PROVE  StepOK
<1>1. PICK h \in edits : Stored(h)
  BY DEF Change
<1>2. Moves
  BY <1>1 DEF Moves
<1>3. op' = op /\ fds' = fds /\ data' = data /\ faults' = faults /\ op.pc = "idle"
  BY <1>1 DEF Change, Stored, Idle
<1>4. VarsOK'
  BY <1>3 DEF VarsOK
<1>5. OpOK'
  BY <1>3, <1>4, NoOpOK DEF VarsOK
<1> QED
  BY <1>2, <1>4, <1>5 DEF StepOK

\* mkdir.
LEMMA MkdirStep ==
  ASSUME VarsOK, DiskOK, NEW p \in Paths, Mkdir(p)
  PROVE  StepOK
<1> DEFINE edits == NewDir(p)
<1>1. Change(edits) /\ \A h \in edits : TableOK(h) /\ NameEdit(h)
  BY NewDirTable DEF Mkdir
<1> HIDE DEF edits
<1> QED
  BY <1>1, ChangeStep

\* unlink.
LEMMA UnlinkStep ==
  ASSUME VarsOK, DiskOK, NEW p \in Paths, Unlink(p)
  PROVE  StepOK
<1> DEFINE edits == Unlinked(p)
<1>1. Change(edits) /\ \A h \in edits : TableOK(h) /\ NameEdit(h)
  BY UnlinkedTable DEF Unlink
<1> HIDE DEF edits
<1> QED
  BY <1>1, ChangeStep

\* rename.
LEMMA RenameStep ==
  ASSUME VarsOK, DiskOK, NEW p \in Paths, NEW q \in Paths, Rename(p, q)
  PROVE  StepOK
<1> DEFINE edits == Renamed(p, q)
<1>1. Change(edits) /\ \A h \in edits : TableOK(h) /\ NameEdit(h)
  BY RenamedTable DEF Rename
<1> HIDE DEF edits
<1> QED
  BY <1>1, ChangeStep

\* fsformat.
LEMMA FormatStep ==
  ASSUME VarsOK, DiskOK, Format
  PROVE  StepOK
<1>1. PICK h \in Formatted : Stored(h)
  BY DEF Format
<1>2. Moves
  BY <1>1, FormattedTable DEF Moves
<1>3. op' = NoOp /\ fds' = fds /\ data' = data /\ faults' = faults
  BY <1>1 DEF Format, Stored
<1>4. VarsOK'
  BY <1>3, ConstFacts DEF VarsOK
<1>5. OpOK'
  BY <1>3, <1>4, ConstFacts, NoOpOK DEF VarsOK
<1> QED
  BY <1>2, <1>4, <1>5 DEF StepOK

\* A failed call, or a power loss.
LEMMA InterruptedOK ==
  ASSUME VarsOK, Interrupted, data' \in DataType
  PROVE  VarsOK' /\ OpOK' /\ faults' = faults + 1
<1>1. op' = NoOp /\ faults' = faults + 1 /\ faults < MaxFaults
  BY DEF Interrupted
<1>2. fds' \in [Fds -> FdType]
  BY ConstFacts DEF Interrupted, VarsOK
<1>3. faults' \in 0 .. MaxFaults
  BY <1>1, PfsAssumption DEF VarsOK
<1>4. VarsOK'
  BY <1>1, <1>2, <1>3, ConstFacts DEF VarsOK
<1>5. OpOK'
  BY <1>1, <1>4, ConstFacts, NoOpOK DEF VarsOK
<1> QED
  BY <1>1, <1>4, <1>5

\* A header write is interrupted.
LEMMA FaultStep ==
  ASSUME VarsOK, NEW h, TableOK(h), HeaderFault(h)
  PROVE  StepOK
<1>1. Moves
  BY DEF Moves
<1>2. Interrupted /\ data' \in DataType
  BY DEF HeaderFault, VarsOK
<1> QED
  BY <1>1, <1>2, InterruptedOK DEF StepOK

\* A call that only edits the header is interrupted.
LEMMA EditFaultStep ==
  ASSUME VarsOK, DiskOK, EditFault
  PROVE  StepOK
<1>1. PICK h \in HeaderEdits : HeaderFault(h)
  BY DEF EditFault
<1> QED
  BY <1>1, EditTables, FaultStep

\* A descriptor is opened, or none is free.
LEMMA OpenAtOK ==
  ASSUME VarsOK, NEW i \in Entries, NEW len \in 0 .. FileMax, NEW a \in BOOLEAN, OpenAt(i, len, a)
  PROVE  fds' \in [Fds -> FdType]
<1> DEFINE r == [open |-> TRUE, idx |-> i, len |-> len, append |-> a, off |-> IF a THEN len ELSE 0]
<1>1. PICK slots : fds' = [f \in Fds |-> IF f \in slots THEN r ELSE fds[f]]
  BY DEF OpenAt
<1>2. r \in FdType
  <2>1. (IF a THEN len ELSE 0) \in 0 .. FileMax
    BY ConstFacts
  <2> QED
    BY <2>1 DEF FdType
<1> HIDE DEF r
<1> QED
  BY <1>1, <1>2 DEF VarsOK

\* hdr, data and op between two calls.
LEMMA IdleStep ==
  ASSUME VarsOK, Idle, op' = op, data' = data, faults' = faults, fds' \in [Fds -> FdType], Moves
  PROVE  StepOK
<1>1. VarsOK'
  BY DEF VarsOK
<1>2. OpOK'
  BY <1>1, NoOpOK DEF VarsOK, Idle
<1> QED
  BY <1>1, <1>2 DEF StepOK

\* open of a file that exists: the cached length is its size.
LEMMA OpenExistingStep ==
  ASSUME VarsOK, DiskOK, NEW p \in Paths, NEW a \in BOOLEAN, OpenExisting(p, a)
  PROVE  StepOK
<1>1. PICK i \in Find(p) : OpenAt(i, hdr[i].size, a)
  BY DEF OpenExisting
<1>2. i \in Entries /\ hdr[i].size \in 0 .. FileMax
  BY FindFacts, EntryFacts DEF DiskOK
<1>3. fds' \in [Fds -> FdType]
  BY <1>1, <1>2, OpenAtOK
<1>4. Idle /\ op' = op /\ data' = data /\ faults' = faults /\ Moves
  BY DEF OpenExisting, Moves
<1> QED
  BY <1>3, <1>4, IdleStep

\* open that creates the file.
LEMMA OpenCreateStep ==
  ASSUME VarsOK, DiskOK, NEW p \in Paths, NEW a \in BOOLEAN, OpenCreate(p, a)
  PROVE  StepOK
<1>1. PICK h \in NewFile(p) : Stored(h)
  BY DEF OpenCreate
<1>2. PICK i \in FreeSlots : OpenAt(i, 0, a)
  BY DEF OpenCreate
<1>3. i \in Entries /\ 0 \in 0 .. FileMax
  BY FindFacts, PfsAssumption
<1>4. fds' \in [Fds -> FdType]
  BY <1>2, <1>3, OpenAtOK
<1>5. Moves
  BY <1>1, NewFileTable DEF Moves
<1>6. Idle /\ op' = op /\ data' = data /\ faults' = faults
  BY <1>1 DEF OpenCreate, Stored
<1> QED
  BY <1>4, <1>5, <1>6, IdleStep

\* open that truncates the file.
LEMMA OpenTruncateStep ==
  ASSUME VarsOK, DiskOK, NEW p \in Paths, NEW a \in BOOLEAN, OpenTruncate(p, a)
  PROVE  StepOK
<1>1. PICK h \in Truncated(p) : Stored(h)
  BY DEF OpenTruncate
<1>2. PICK i \in Find(p) : OpenAt(i, 0, a)
  BY DEF OpenTruncate
<1>3. i \in Entries /\ 0 \in 0 .. FileMax
  BY FindFacts, PfsAssumption
<1>4. fds' \in [Fds -> FdType]
  BY <1>2, <1>3, OpenAtOK
<1>5. Moves
  BY <1>1, TruncatedTable DEF Moves
<1>6. Idle /\ op' = op /\ data' = data /\ faults' = faults
  BY <1>1 DEF OpenTruncate, Stored
<1> QED
  BY <1>4, <1>5, <1>6, IdleStep

\* A descriptor's offset moves.
LEMMA OffOK ==
  ASSUME fds \in [Fds -> FdType], NEW f \in Fds, NEW off \in 0 .. FileMax
  PROVE  [fds EXCEPT ![f].off = off] \in [Fds -> FdType]
<1>1. [fds[f] EXCEPT !.off = off] \in FdType
  BY FdFacts DEF FdType
<1>2. [fds EXCEPT ![f].off = off] = [fds EXCEPT ![f] = [fds[f] EXCEPT !.off = off]]
  BY Zenon
<1> QED
  BY <1>1, <1>2

\* read: the offset stays within the cached length.
LEMMA ReadStep ==
  ASSUME VarsOK, NEW f \in Fds, NEW n \in 0 .. MaxWrite, Read(f, n)
  PROVE  StepOK
<1> DEFINE last == fds[f].off + n
<1>1. /\ last <= fds[f].len /\ fds' = [fds EXCEPT ![f].off = last]
      /\ Idle /\ op' = op /\ data' = data /\ faults' = faults /\ Moves
  BY DEF Read, Moves
<1>2. last \in 0 .. FileMax
  <2>1. fds[f].off \in 0 .. FileMax /\ fds[f].len \in 0 .. FileMax
    BY FdFacts DEF VarsOK
  <2> QED
    BY <1>1, <2>1, ConstFacts
<1> HIDE DEF last
<1>3. fds' \in [Fds -> FdType]
  BY <1>1, <1>2, OffOK DEF VarsOK
<1> QED
  BY <1>1, <1>3, IdleStep

\* seek.
LEMMA SeekStep ==
  ASSUME VarsOK, NEW f \in Fds, NEW off \in 0 .. FileMax, Seek(f, off)
  PROVE  StepOK
<1>1. /\ fds' = [fds EXCEPT ![f].off = off]
      /\ Idle /\ op' = op /\ data' = data /\ faults' = faults /\ Moves
  BY DEF Seek, Moves
<1>2. fds' \in [Fds -> FdType]
  BY <1>1, OffOK DEF VarsOK
<1> QED
  BY <1>1, <1>2, IdleStep

\* close.
LEMMA CloseStep ==
  ASSUME VarsOK, NEW f \in Fds, Close(f)
  PROVE  StepOK
<1>1. /\ fds' = [fds EXCEPT ![f] = Closed]
      /\ Idle /\ op' = op /\ data' = data /\ faults' = faults /\ Moves
  BY DEF Close, Moves
<1>2. fds' \in [Fds -> FdType]
  BY <1>1, ConstFacts DEF VarsOK
<1> QED
  BY <1>1, <1>2, IdleStep

\* All descriptors closed between two calls, or after the header was lost.
LEMMA CloseAllStep ==
  ASSUME VarsOK, CloseAll
  PROVE  StepOK
<1>1. /\ fds' = [f \in Fds |-> Closed]
      /\ op.pc \in {"idle", "lost"} /\ op' = op /\ data' = data /\ faults' = faults /\ Moves
  BY DEF CloseAll, Moves
<1>2. VarsOK'
  BY <1>1, ConstFacts DEF VarsOK
<1>3. OpOK'
  BY <1>1, <1>2, NoOpOK DEF VarsOK
<1> QED
  BY <1>1, <1>2, <1>3 DEF StepOK

\* A write begins: its end is within the limit.
LEMMA GrowOK ==
  ASSUME NEW f \in Fds \cup {Console}, NEW i \in Entries, NEW off \in 0 .. FileMax, NEW n \in 0 .. MaxWrite,
         ~TooLong(off, n), op' = [pc |-> "grow", fd |-> f, idx |-> i, off |-> off, n |-> n]
  PROVE  op' \in OpType /\ OpOK'
<1>1. op' \in OpType
  BY DEF OpType
<1>2. op'.pc = "grow" /\ op'.off = off /\ op'.n = n
  OBVIOUS
<1>3. off + n <= FileMax
  BY ConstFacts DEF TooLong
<1> QED
  BY <1>1, <1>2, <1>3 DEF OpOK, NewSize

\* abi_write_fd up to pfs_write_at.
LEMMA WriteStep ==
  ASSUME VarsOK, NEW f \in Fds, NEW n \in 0 .. MaxWrite, Write(f, n)
  PROVE  StepOK
<1> DEFINE off == IF fds[f].append THEN fds[f].len ELSE fds[f].off
<1>1. /\ fds' = [fds EXCEPT ![f].off = off]
      /\ op' = IF TooLong(off, n) THEN NoOp
               ELSE [pc |-> "grow", fd |-> f, idx |-> fds[f].idx, off |-> off, n |-> n]
      /\ data' = data /\ faults' = faults /\ Moves
  BY DEF Write, Moves
<1>2. off \in 0 .. FileMax /\ fds[f].idx \in Entries
  BY FdFacts DEF VarsOK
<1> HIDE DEF off
<1>3. fds' \in [Fds -> FdType]
  BY <1>1, <1>2, OffOK DEF VarsOK
<1>4. CASE TooLong(off, n)
  <2>1. op' = NoOp /\ op' \in OpType /\ op'.pc = "idle"
    BY <1>1, <1>4, ConstFacts
  <2>2. VarsOK'
    BY <1>1, <1>3, <2>1 DEF VarsOK
  <2>3. OpOK'
    BY <2>1, NoOpOK
  <2> QED
    BY <1>1, <2>2, <2>3 DEF StepOK
<1>5. CASE ~TooLong(off, n)
  <2> DEFINE i == fds[f].idx
  <2>1. i \in Entries /\ op' = [pc |-> "grow", fd |-> f, idx |-> i, off |-> off, n |-> n]
    BY <1>1, <1>2, <1>5
  <2> HIDE DEF i
  <2>2. op' \in OpType /\ OpOK'
    BY <1>2, <1>5, <2>1, GrowOK
  <2>3. VarsOK'
    BY <1>1, <1>3, <2>2 DEF VarsOK
  <2> QED
    BY <1>1, <2>2, <2>3 DEF StepOK
<1> QED
  BY <1>4, <1>5

\* PersistentFs::write: the entry it creates is a new one.
LEMMA ConsoleWriteStep ==
  ASSUME VarsOK, DiskOK, NEW p \in Paths, NEW n \in 0 .. MaxWrite, ConsoleWrite(p, n)
  PROVE  StepOK
<1>1. PICK i \in IF Find(p) # {} THEN Find(p) ELSE FreeSlots :
        /\ Stored(IF Used(i) THEN hdr ELSE Edited(i, SetEntry(p, 0, "file", <<>>)))
        /\ op' = [pc |-> "grow", fd |-> Console, idx |-> i, off |-> 0, n |-> n]
  BY DEF ConsoleWrite
<1>2. ParentExists(p) /\ ~TooLong(0, n) /\ data' = data /\ fds' = fds /\ 0 \in 0 .. FileMax
  BY PfsAssumption DEF ConsoleWrite
<1>3. i \in Entries
  BY FindFacts
<1>4. op' \in OpType /\ OpOK'
  BY <1>1, <1>2, <1>3, GrowOK
<1>5. Moves
  <2>1. CASE Used(i)
    BY <1>1, <2>1, SameTable DEF Moves
  <2>2. CASE ~Used(i)
    <3>1. Find(p) = {} /\ i \in FreeSlots
      BY <2>2, FindFacts DEF Used
    <3> DEFINE h == Edited(i, SetEntry(p, 0, "file", <<>>))
    <3>2. Stored(h)
      BY <1>1, <2>2
    <3>3. TableOK(h) /\ NameEdit(h)
      BY <1>2, <3>1, NewTable
    <3> HIDE DEF h
    <3> QED
      BY <3>2, <3>3 DEF Moves
  <2> QED
    BY <2>1, <2>2
<1>6. faults' = faults
  BY <1>1 DEF Stored
<1>7. VarsOK'
  BY <1>2, <1>4, <1>6 DEF VarsOK
<1> QED
  BY <1>4, <1>5, <1>7 DEF StepOK

\* The end of the write in progress.
LEMMA NewSizeFacts ==
  ASSUME VarsOK, OpOK, op.pc \in {"grow", "data", "size"}
  PROVE  /\ op.idx \in Entries /\ op.off \in Nat /\ op.n \in Nat
         /\ NewSize = op.off + op.n /\ NewSize \in 0 .. FileMax
<1>1. op.idx \in Entries /\ op.off \in Nat /\ op.n \in Nat /\ NewSize <= FileMax
  BY OpFacts DEF VarsOK, OpOK
<1>2. NewSize = op.off + op.n
  BY DEF NewSize
<1> QED
  BY <1>1, <1>2, ConstFacts

\* pfs_ensure_file_capacity: from here on the entry is a file with a sector for every byte.
LEMMA EnsureCapacityStep ==
  ASSUME VarsOK, OpOK, DiskOK, EnsureCapacity
  PROVE  StepOK
<1>1. PICK h \in Capacity : Stored(h)
  BY DEF EnsureCapacity
<1>2. op.pc = "grow" /\ op' = [op EXCEPT !.pc = "data"] /\ data' = data /\ fds' = fds
  BY DEF EnsureCapacity
<1>3. /\ op.idx \in Entries /\ op.off \in Nat /\ op.n \in Nat
      /\ NewSize = op.off + op.n /\ NewSize \in 0 .. FileMax
  BY <1>2, NewSizeFacts
<1>4. /\ TableOK(h) /\ NameEdit(h)
      /\ h[op.idx].kind = "file" /\ SectorsFor(op.off + op.n) <= Len(SectorsOf(h[op.idx]))
  BY <1>3, CapacityTable
<1>5. Moves
  BY <1>1, <1>4 DEF Moves
<1>6. hdr' = h /\ faults' = faults
  BY <1>1 DEF Stored
<1>7. /\ op' = [pc |-> "data", fd |-> op.fd, idx |-> op.idx, off |-> op.off, n |-> op.n]
      /\ op.fd \in Fds \cup {Console} /\ op.off \in 0 .. FileMax /\ op.n \in 0 .. MaxWrite
  BY <1>2, OpFacts DEF VarsOK
<1>8. op' \in OpType
  BY <1>3, <1>7 DEF OpType
<1>9. op'.idx = op.idx /\ op'.off = op.off /\ op'.n = op.n
  BY <1>7
<1>10. NewSize' = op.off + op.n
  BY <1>9 DEF NewSize
<1>11. OpOK'
  BY <1>3, <1>4, <1>6, <1>9, <1>10 DEF OpOK, IsFile, Target
<1>12. VarsOK'
  BY <1>2, <1>6, <1>8 DEF VarsOK
<1> QED
  BY <1>5, <1>11, <1>12 DEF StepOK

\* The disk is full, or the entry is gone.
LEMMA NoCapacityStep ==
  ASSUME VarsOK, NoCapacity
  PROVE  StepOK
<1>1. op' = NoOp /\ fds' = fds /\ data' = data /\ faults' = faults /\ Moves
  BY DEF NoCapacity, Moves
<1>2. VarsOK'
  BY <1>1, ConstFacts DEF VarsOK
<1>3. OpOK'
  BY <1>1, <1>2, ConstFacts, NoOpOK DEF VarsOK
<1> QED
  BY <1>1, <1>2, <1>3 DEF StepOK

\* Bytes are stored.
LEMMA PatchedOK ==
  ASSUME NEW d \in DataType, NEW lo, NEW hi, NEW v \in {0, Byte}
  PROVE  Patched(d, lo, hi, v) \in DataType
<1> DEFINE Hit(s, b) == \E k \in lo .. hi - 1 : SectorsOf(Target)[k \div SectorBytes + 1] = s /\ k % SectorBytes = b
<1>1. Patched(d, lo, hi, v) = [s \in Sectors |-> [b \in 0 .. SectorBytes - 1 |-> IF Hit(s, b) THEN v ELSE d[s][b]]]
  BY DEF Patched
<1> HIDE DEF Hit
<1>2. \A s \in Sectors : \A b \in 0 .. SectorBytes - 1 : d[s][b] \in {0, Byte, Junk}
  BY DEF DataType
<1>3. \A s \in Sectors : [b \in 0 .. SectorBytes - 1 |-> IF Hit(s, b) THEN v ELSE d[s][b]]
                           \in [0 .. SectorBytes - 1 -> {0, Byte, Junk}]
  BY <1>2
<1> QED
  BY <1>1, <1>3 DEF DataType

\* pfs_zero_range stores bytes.
LEMMA ZeroedOK ==
  ASSUME data \in DataType
  PROVE  Zeroed \in DataType
  BY PatchedOK DEF Zeroed

\* Data lands on the header.
LEMMA HeaderLostStep ==
  ASSUME VarsOK, DiskOK, HeaderLost
  PROVE  StepOK
<1>1. /\ hdr' = [i \in Entries |-> FreeEntry] /\ op' = [NoOp EXCEPT !.pc = "lost"]
      /\ fds' = fds /\ data' = data /\ faults' = faults
  BY DEF HeaderLost
<1>2. Moves
  <2> DEFINE h == [i \in Entries |-> FreeEntry]
  <2>1. TableOK(h) /\ NameEdit(h)
    BY EmptyTable
  <2>2. Stored(h)
    BY <1>1 DEF Stored
  <2> HIDE DEF h
  <2> QED
    BY <2>1, <2>2 DEF Moves
<1>3. op' \in OpType /\ op'.pc = "lost"
  BY <1>1, ConstFacts
<1>4. VarsOK'
  BY <1>1, <1>3 DEF VarsOK
<1>5. OpOK'
  BY <1>3, NoOpOK
<1> QED
  BY <1>2, <1>4, <1>5 DEF StepOK

\* A descriptor's offset and length are set.
LEMMA FdParts ==
  ASSUME NEW x \in FdType, NEW sz \in 0 .. FileMax, NEW len \in 0 .. FileMax
  PROVE  [x EXCEPT !.off = sz, !.len = len] \in FdType
  BY DEF FdType

\* pfs_write_at: the new offset and length are within the limit.
LEMMA WriteDataStep ==
  ASSUME VarsOK, OpOK, WriteData
  PROVE  StepOK
<1>1. /\ op.pc = "data" /\ data' = Patched(Zeroed, op.off, NewSize, Byte)
      /\ fds' = IF op.fd = Console THEN fds
                ELSE [fds EXCEPT ![op.fd].off = NewSize,
                                 ![op.fd].len = IF Continues THEN NewSize ELSE @]
      /\ op' = IF Continues THEN [op EXCEPT !.pc = "size"] ELSE NoOp
      /\ hdr' = hdr /\ faults' = faults
  BY DEF WriteData
<1>2. /\ op.idx \in Entries /\ op.off \in Nat /\ op.n \in Nat
      /\ NewSize = op.off + op.n /\ NewSize \in 0 .. FileMax
  BY <1>1, NewSizeFacts
<1>3. Moves
  BY <1>1 DEF Moves
<1>4. data' \in DataType
  BY <1>1, PatchedOK, ZeroedOK DEF VarsOK
<1>5. fds' \in [Fds -> FdType]
  <2>1. CASE op.fd = Console
    BY <1>1, <2>1 DEF VarsOK
  <2>2. CASE op.fd # Console
    <3> DEFINE f == op.fd
               sz == NewSize
               len == IF Continues THEN NewSize ELSE fds[f].len
    <3>1. f \in Fds /\ fds \in [Fds -> FdType]
      BY <2>2, OpFacts DEF VarsOK
    <3>2. fds[f].len \in 0 .. FileMax /\ fds[f] \in FdType
      BY <3>1, FdFacts
    <3>3. sz \in 0 .. FileMax /\ len \in 0 .. FileMax
      BY <1>2, <3>2
    <3>4. fds' = [fds EXCEPT ![f].off = sz, ![f].len = IF Continues THEN NewSize ELSE @]
      BY <1>1, <2>2
    <3>5. fds' = [fds EXCEPT ![f].off = sz, ![f].len = len]
      <4> HIDE DEF f
      <4> QED
        BY <3>1, <3>2, <3>4
    <3> HIDE DEF f, sz, len
    <3>6. fds' = [fds EXCEPT ![f] = [fds[f] EXCEPT !.off = sz, !.len = len]]
      BY <3>1, <3>2, <3>5
    <3>7. [fds[f] EXCEPT !.off = sz, !.len = len] \in FdType
      BY <3>2, <3>3, FdParts
    <3> QED
      BY <3>1, <3>6, <3>7
  <2> QED
    BY <2>1, <2>2
<1>6. op' \in OpType /\ OpOK'
  <2>1. CASE ~Continues
    <3>1. op' = NoOp /\ op' \in OpType /\ op'.pc = "idle"
      BY <1>1, <2>1, ConstFacts
    <3> QED
      BY <3>1, NoOpOK
  <2>2. CASE Continues
    <3>1. /\ op' = [pc |-> "size", fd |-> op.fd, idx |-> op.idx, off |-> op.off, n |-> op.n]
          /\ op.fd \in Fds \cup {Console} /\ op.off \in 0 .. FileMax /\ op.n \in 0 .. MaxWrite
      BY <1>1, <2>2, OpFacts DEF VarsOK
    <3>2. op' \in OpType
      BY <1>2, <3>1 DEF OpType
    <3>3. op'.idx = op.idx /\ op'.off = op.off /\ op'.n = op.n
      BY <3>1
    <3>4. NewSize' = NewSize
      BY <3>3 DEF NewSize
    <3>5. IsFile(op.idx) /\ SectorsFor(NewSize) <= Len(SectorsOf(Target))
      BY <1>1 DEF OpOK
    <3>6. OpOK'
      BY <1>1, <1>2, <3>3, <3>4, <3>5 DEF OpOK, IsFile, Target
    <3> QED
      BY <3>2, <3>6
  <2> QED
    BY <2>1, <2>2
<1>7. VarsOK'
  BY <1>1, <1>4, <1>5, <1>6 DEF VarsOK
<1> QED
  BY <1>3, <1>6, <1>7 DEF StepOK

\* A data sector fails.
LEMMA DataFaultStep ==
  ASSUME VarsOK, DataFault
  PROVE  StepOK
<1>1. Interrupted /\ hdr' = hdr
  BY DEF DataFault
<1>2. PICK m : data' = IF m <= op.off THEN Patched(data, Target.size, m, 0) ELSE Patched(Zeroed, op.off, m, Byte)
  BY DEF DataFault
<1>3. data' \in DataType
  BY <1>2, PatchedOK, ZeroedOK DEF VarsOK
<1>4. VarsOK' /\ OpOK' /\ faults' = faults + 1
  BY <1>1, <1>3, InterruptedOK
<1> QED
  BY <1>1, <1>4 DEF StepOK, Moves

\* The table pfs_update_size writes.
LEMMA SizeTable ==
  ASSUME VarsOK, OpOK, DiskOK, op.pc = "size"
  PROVE  TableOK(Sized) /\ NameEdit(Sized)
<1>1. op.idx \in Entries /\ NewSize \in 0 .. FileMax
  BY NewSizeFacts
<1>2. IsFile(op.idx) /\ SectorsFor(NewSize) <= Len(SectorsOf(Target))
  BY DEF OpOK
<1> QED
  BY <1>1, <1>2, SizedTable

\* pfs_update_size.
LEMMA UpdateSizeStep ==
  ASSUME VarsOK, OpOK, DiskOK, UpdateSize
  PROVE  StepOK
<1>1. op.pc = "size" /\ Stored(Sized) /\ op' = NoOp /\ data' = data /\ fds' = fds
  BY DEF UpdateSize
<1>2. Moves
  BY <1>1, SizeTable DEF Moves
<1>3. faults' = faults
  BY <1>1 DEF Stored
<1>4. VarsOK'
  BY <1>1, <1>3, ConstFacts DEF VarsOK
<1>5. OpOK'
  BY <1>1, <1>4, ConstFacts, NoOpOK DEF VarsOK
<1> QED
  BY <1>2, <1>4, <1>5 DEF StepOK

\* One of the two header writes of a write is interrupted.
LEMMA WriteFaultStep ==
  ASSUME VarsOK, OpOK, DiskOK, WriteFault
  PROVE  StepOK
<1>1. ASSUME op.pc = "grow", NEW h \in Capacity, HeaderFault(h) PROVE StepOK
  <2>1. op.idx \in Entries /\ op.off \in Nat /\ op.n \in Nat
    BY <1>1, NewSizeFacts
  <2>2. TableOK(h)
    BY <2>1, CapacityTable
  <2> QED
    BY <1>1, <2>2, FaultStep
<1>2. ASSUME op.pc = "size", HeaderFault(Sized) PROVE StepOK
  BY <1>2, SizeTable, FaultStep
<1> QED
  BY <1>1, <1>2 DEF WriteFault
-----------------------------------------------------------------------------
(* The invariant holds *)

\* After fsformat the invariant holds.
LEMMA InitPfsInv == Init => PfsInv /\ Apart(hdr)
<1> SUFFICES ASSUME Init PROVE PfsInv /\ Apart(hdr)
  OBVIOUS
<1>1. \A i \in Entries : hdr[i] = FreeEntry
  BY DEF Init
<1>2. FreeEntry \in Entry /\ FreeEntry.kind = "free" /\ FreeEntry.cnt = 0
  BY FreeEntryFacts
<1>3. DiskOK
  BY <1>1, <1>2 DEF DiskOK, Covered, Init
<1>4. ASSUME NEW i \in Entries PROVE Tidy(hdr[i])
  <2>1. FreeEntry.ext = [k \in 1 .. MaxExtents |-> IF k <= Len(<<>>) THEN <<>>[k] ELSE NoExtent]
    BY DEF FreeEntry, SetEntry
  <2>2. \A k \in 1 .. MaxExtents : k > 0 => FreeEntry.ext[k] = NoExtent
    BY <2>1
  <2> QED
    BY <1>1, <1>2, <2>2 DEF Tidy, TidyExts
<1>5. TreeOK(hdr) /\ Apart(hdr)
  BY <1>1, <1>2 DEF TreeOK, Apart
<1>6. VarsOK
  <2>1. data \in DataType
    BY DEF Init, DataType
  <2> QED
    BY <2>1, ConstFacts, PfsAssumption DEF Init, VarsOK
<1>7. OpOK
  BY ConstFacts DEF Init, OpOK
<1> QED
  BY <1>3, <1>4, <1>5, <1>6, <1>7 DEF PfsInv, HdrInv, TidyOK

\* Every step is one of the above.
LEMMA NextStepOK == PfsInv /\ [Next]_vars => StepOK
<1> SUFFICES ASSUME PfsInv, [Next]_vars PROVE StepOK
  OBVIOUS
<1>0. VarsOK /\ OpOK /\ DiskOK
  BY DEF PfsInv, HdrInv
<1>1. ASSUME NEW p \in Paths, Mkdir(p) \/ Unlink(p) \/ \E q \in Paths : Rename(p, q) PROVE StepOK
  BY <1>0, <1>1, MkdirStep, UnlinkStep, RenameStep
<1>2. CASE Format \/ EditFault
  BY <1>0, <1>2, FormatStep, EditFaultStep
<1>3. ASSUME NEW p \in Paths, NEW a \in BOOLEAN,
             OpenExisting(p, a) \/ OpenCreate(p, a) \/ OpenTruncate(p, a)
      PROVE  StepOK
  BY <1>0, <1>3, OpenExistingStep, OpenCreateStep, OpenTruncateStep
<1>4. ASSUME NEW f \in Fds, NEW n \in 0 .. MaxWrite, Read(f, n) \/ Write(f, n) PROVE StepOK
  BY <1>0, <1>4, ReadStep, WriteStep
<1>5. ASSUME NEW f \in Fds, Close(f) \/ \E off \in 0 .. FileMax : Seek(f, off) PROVE StepOK
  BY <1>0, <1>5, CloseStep, SeekStep
<1>6. ASSUME NEW p \in Paths, NEW n \in 0 .. MaxWrite, ConsoleWrite(p, n) PROVE StepOK
  BY <1>0, <1>6, ConsoleWriteStep
<1>7. CASE EnsureCapacity \/ NoCapacity \/ WriteData \/ HeaderLost \/ UpdateSize
  BY <1>0, <1>7, EnsureCapacityStep, NoCapacityStep, WriteDataStep, HeaderLostStep, UpdateSizeStep
<1>8. CASE WriteFault \/ DataFault \/ CloseAll
  BY <1>0, <1>8, WriteFaultStep, DataFaultStep, CloseAllStep
<1>9. CASE UNCHANGED vars
  <2>1. hdr' = hdr /\ data' = data /\ fds' = fds /\ op' = op /\ faults' = faults
    BY <1>9 DEF vars
  <2>2. VarsOK'
    BY <1>0, <2>1 DEF VarsOK
  <2>3. OpOK'
    BY <1>0, <2>1 DEF OpOK, NewSize, IsFile, Target
  <2> QED
    BY <2>1, <2>2, <2>3 DEF StepOK, Moves
<1> QED
  BY <1>1, <1>2, <1>3, <1>4, <1>5, <1>6, <1>7, <1>8, <1>9 DEF Next

\* Every step keeps the invariant.
LEMMA NextPfsInv == PfsInv /\ [Next]_vars => PfsInv'
<1> SUFFICES ASSUME PfsInv, [Next]_vars PROVE PfsInv'
  OBVIOUS
<1>1. Moves /\ VarsOK' /\ OpOK'
  BY NextStepOK DEF StepOK
<1>2. HdrInv'
  BY <1>1, MovesHdr DEF PfsInv
<1> QED
  BY <1>1, <1>2 DEF PfsInv

\* The invariant holds in every behaviour.
LEMMA PfsInvHolds == Spec => []PfsInv
  BY InitPfsInv, NextPfsInv, PTL DEF Spec
-----------------------------------------------------------------------------
(* What it implies *)

\* The invariant gives the types back.
LEMMA ImpliesType == PfsInv => TypeOK
  BY TypesOK DEF PfsInv, HdrInv, DiskOK

\* A well-formed table covers the sizes.
LEMMA ImpliesCovered == PfsInv => SizeCovered
  BY DEF PfsInv, HdrInv, DiskOK, SizeCovered, Covered, IsFile

\* A tree has unique names.
LEMMA ImpliesNames == PfsInv => NamesUnique
  BY DEF PfsInv, HdrInv, TreeOK, NamesUnique, Used

\* In a tree pfs_parent_exists finds the parent of every file.
LEMMA ImpliesHomed == PfsInv => NoOrphanFile
<1> SUFFICES ASSUME PfsInv, faults = 0, NEW i \in Entries, IsFile(i) PROVE ParentExists(hdr[i].name)
  BY DEF NoOrphanFile
<1>1. TreeOK(hdr)
  BY DEF PfsInv, HdrInv
<1>2. HasDir(hdr, hdr[i].name)
  BY <1>1 DEF TreeOK, IsFile
<1>3. \A j, k \in Entries : Used(j) /\ Used(k) /\ hdr[j].name = hdr[k].name => j = k
  BY <1>1 DEF TreeOK, Used
<1> QED
  BY <1>2, <1>3, ParentFacts

\* The sectors of a tidy entry.
LEMMA TidySectors ==
  ASSUME NEW e \in Entry, Tidy(e)
  PROVE  IsInjective(SectorsOf(e)) /\ Range(SectorsOf(e)) \subseteq DataSectors
<1>1. /\ e.cnt \in Nat /\ e.cnt \in 0 .. MaxExtents /\ Exts(e.ext, e.cnt) /\ SectorsOf(e) = Sec(e.ext, e.cnt)
      /\ \A k \in 1 .. e.cnt : e.ext[k].start \in Nat /\ e.ext[k].n \in Nat
  BY EntryFacts DEF Exts
<1>2. /\ \A k \in 1 .. e.cnt : DataStart <= e.ext[k].start /\ e.ext[k].start + e.ext[k].n <= DiskSectors
      /\ \A j, k \in 1 .. e.cnt : j < k => e.ext[j].start + e.ext[j].n <= e.ext[k].start
  BY DEF Tidy, TidyExts
<1>3. IsInjective(Sec(e.ext, e.cnt))
  BY <1>1, <1>2, SecInjective
<1>4. ASSUME NEW s \in Range(SectorsOf(e)) PROVE s \in DataSectors
  <2>1. s \in Nat /\ Covers(e.ext, e.cnt, s)
    BY <1>1, <1>4, SecRange
  <2>2. PICK k \in 1 .. e.cnt : In(e.ext[k], s)
    BY <2>1 DEF Covers
  <2>3. DataStart \in Nat /\ DiskSectors \in Nat
    BY PfsAssumption
  <2> QED
    BY <1>1, <1>2, <2>1, <2>2, <2>3 DEF In, DataSectors
<1> QED
  BY <1>1, <1>3, <1>4

\* Tidy entries lie in the data area.
LEMMA ImpliesData == PfsInv => InDataArea
  BY TidySectors DEF PfsInv, HdrInv, DiskOK, TidyOK, InDataArea

\* Extents that do not meet have no sector in common.
LEMMA ImpliesDisjoint == PfsInv /\ (faults <= 1 => Apart(hdr)) => FilesDisjoint
<1> SUFFICES ASSUME PfsInv, Apart(hdr), faults <= 1, NEW i \in Entries, NEW j \in Entries, i # j, IsFile(i), IsFile(j),
                    NEW s \in Range(SectorsOf(hdr[i])), s \in Range(SectorsOf(hdr[j]))
             PROVE  FALSE
  BY DEF FilesDisjoint
<1>1. hdr[i] \in Entry /\ hdr[j] \in Entry
  BY DEF PfsInv, HdrInv, DiskOK
<1>2. s \in Nat /\ Covers(hdr[i].ext, hdr[i].cnt, s)
  BY <1>1, EntryFacts, SecRange
<1>3. Covers(hdr[j].ext, hdr[j].cnt, s)
  BY <1>1, EntryFacts, SecRange
<1> QED
  BY <1>2, <1>3 DEF Apart, IsFile
-----------------------------------------------------------------------------
\* Every entry, descriptor and write in progress keeps its shape: no offset, length or
\* size ever exceeds PFS_FILE_MAX, whatever seeks, stale descriptors and failed calls do.
THEOREM Types == Spec => []TypeOK
  BY PfsInvHolds, ImpliesType, PTL

\* Every byte below a file's size has a sector, after any number of interrupted header
\* writes: extents are stored before the size, and a torn entry keeps the old lengths.
THEOREM SizeIsCovered == Spec => []SizeCovered
  BY PfsInvHolds, ImpliesCovered, PTL

\* As long as every header write went through, pfs_grow_extents gives a file no sector
\* twice and none in the header or beyond the disk.
THEOREM DataArea == Spec => []InDataArea
  BY PfsInvHolds, ImpliesData, PTL

\* As long as every header write went through, open, mkdir and rename never give a name
\* to two entries.
THEOREM Unique == Spec => []NamesUnique
  BY PfsInvHolds, ImpliesNames, PTL

\* As long as every header write went through, unlink and rename never take a directory
\* away from the files in it.
THEOREM Homes == Spec => []NoOrphanFile
  BY PfsInvHolds, ImpliesHomed, PTL

\* Two files never share a sector, not even after a header write that stopped anywhere:
\* it hits a disk on which every entry is tidy.
THEOREM Disjoint == Spec => []FilesDisjoint
<1> DEFINE DInv == PfsInv /\ (faults <= 1 => Apart(hdr))
<1>1. DInv /\ [Next]_vars => DInv'
  <2> SUFFICES ASSUME PfsInv, faults <= 1 => Apart(hdr), [Next]_vars, faults' <= 1 PROVE Apart(hdr')
    BY NextPfsInv DEF Apart
  <2>1. VarsOK /\ HdrInv /\ Moves
    BY NextStepOK DEF StepOK, PfsInv
  <2> QED
    BY <2>1, MovesApart
<1>2. Init => DInv
  BY InitPfsInv
<1>3. DInv => FilesDisjoint
  BY ImpliesDisjoint
<1> QED
  BY <1>1, <1>2, <1>3, PTL DEF Spec
=============================================================================
