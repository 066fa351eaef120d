----------------------------- MODULE PathsProofs -----------------------------
(***************************************************************************)
(* Paths for every set of processes, names and paths, every limit on a     *)
(* name and every size of the entry table.                                 *)
(*                                                                         *)
(* The length of a name and the normal form of a path are recursive        *)
(* functions; what they compute is shown by induction over the number of   *)
(* components (Induct takes the set of numbers a statement holds for).     *)
(***************************************************************************)
EXTENDS Paths, FiniteSetTheorems, WellFoundedInduction, TLAPS

\* A set of numbers that is not empty has a least one.
LEMMA Least ==
  ASSUME NEW S, S \subseteq Nat, S # {}
  PROVE  \E m \in S : \A k \in S : m <= k
<1> DEFINE Before == {ss \in Nat \X Nat : ss[1] < ss[2]}
<1>1. IsWellFoundedOn(Before, Nat)
  BY NatLessThanWellFounded DEF OpToRel
<1> HIDE DEF Before
<1>2. PICK m \in S : \A k \in S : <<k, m>> \notin Before
  BY <1>1, WFMin
<1>3. \A k \in S : k \in Nat /\ m \in Nat /\ ~(k < m)
  BY <1>2 DEF Before
<1> QED
  BY <1>3

\* Induction, for the set of numbers a statement holds for.
LEMMA Induct ==
  ASSUME NEW S, 0 \in S, \A n \in Nat : n \in S => n + 1 \in S
  PROVE  \A n \in Nat : n \in S
<1> SUFFICES ASSUME NEW n \in Nat, n \notin S PROVE FALSE
  OBVIOUS
<1> DEFINE Rest == Nat \ S
<1>1. PICK m \in Rest : \A k \in Rest : m <= k
  <2>1. Rest \subseteq Nat /\ Rest # {}
    OBVIOUS
  <2> HIDE DEF Rest
  <2> QED
    BY <2>1, Least
<1>2. m \in Nat /\ m # 0 /\ m - 1 \in Nat /\ m - 1 \notin Rest /\ (m - 1) + 1 = m
  BY <1>1
<1> QED
  BY <1>1, <1>2

\* The first of a set of numbers belongs to it.
LEMMA MinMember ==
  ASSUME NEW S, S \subseteq Nat, S # {}
  PROVE  Min(S) \in S
<1>1. \E m \in S : \A k \in S : m <= k
  BY Least
<1> QED
  BY <1>1, Zenon DEF Min

-----------------------------------------------------------------------------
(* Step-by-step computations over the components of a path *)

\* f starts with x and goes from one number to the next by s.
Runs(f, x, s, N) ==
    /\ DOMAIN f = 0 .. N
    /\ f[0] = x
    /\ \A k \in 1 .. N : f[k] = s[f[k - 1]][k]

\* There is such a computation.
LEMMA RunsExist ==
  ASSUME NEW R, NEW N \in Nat, NEW x \in R, NEW s \in [R -> [1 .. N -> R]]
  PROVE  \E f \in [0 .. N -> R] : Runs(f, x, s, N)
<1> DEFINE Upto(f, m) == f[0] = x /\ \A k \in 1 .. m : f[k] = s[f[k - 1]][k]
           S == {m \in Nat : m <= N => \E f \in [0 .. m -> R] : Upto(f, m)}
<1>1. 0 \in S
  <2>1. [i \in 0 .. 0 |-> x] \in [0 .. 0 -> R]
    OBVIOUS
  <2>2. Upto([i \in 0 .. 0 |-> x], 0)
    OBVIOUS
  <2>3. \E f \in [0 .. 0 -> R] : Upto(f, 0)
    <3> HIDE DEF Upto
    <3> QED
      BY <2>1, <2>2, Zenon
  <2> HIDE DEF Upto
  <2> QED
    BY <2>3
<1>2. ASSUME NEW n \in Nat, n \in S PROVE n + 1 \in S
  <2> SUFFICES ASSUME n + 1 <= N PROVE \E f \in [0 .. n + 1 -> R] : Upto(f, n + 1)
    <3> HIDE DEF Upto
    <3> QED
      OBVIOUS
  <2>1. PICK f \in [0 .. n -> R] : Upto(f, n)
    <3>1. n <= N
      OBVIOUS
    <3> HIDE DEF Upto
    <3> QED
      BY <1>2, <3>1
  <2> DEFINE y == s[f[n]][n + 1]
             g == [k \in 0 .. n + 1 |-> IF k <= n THEN f[k] ELSE y]
  <2>2. y \in R
    <3>1. f[n] \in R /\ n + 1 \in 1 .. N
      OBVIOUS
    <3>2. s[f[n]] \in [1 .. N -> R]
      BY <3>1
    <3> QED
      BY <3>1, <3>2
  <2>3. g \in [0 .. n + 1 -> R]
    <3> HIDE DEF y
    <3> QED
      BY <2>2
  <2>4. g[0] = x
    BY <2>1
  <2>5. ASSUME NEW k \in 1 .. n + 1 PROVE g[k] = s[g[k - 1]][k]
    <3>1. k - 1 \in 0 .. n /\ g[k - 1] = f[k - 1]
      OBVIOUS
    <3>2. CASE k <= n
      <4>1. k \in 1 .. n /\ g[k] = f[k]
        BY <3>2
      <4> HIDE DEF g
      <4> QED
        BY <4>1, <3>1, <2>1
    <3>3. CASE k = n + 1
      <4>1. g[k] = y /\ k - 1 = n
        BY <3>3
      <4> HIDE DEF g
      <4> QED
        BY <4>1, <3>1, <3>3
    <3> QED
      BY <3>2, <3>3
  <2>6. Upto(g, n + 1)
    <3> HIDE DEF g
    <3> QED
      BY <2>4, <2>5
  <2> HIDE DEF g, Upto
  <2> QED
    BY <2>3, <2>6
<1>3. N \in S
  <2> HIDE DEF S
  <2> QED
    BY <1>1, <1>2, Induct
<1>4. PICK f \in [0 .. N -> R] : Upto(f, N)
  <2> HIDE DEF Upto
  <2> QED
    BY <1>3
<1> QED
  BY <1>4 DEF Runs

\* Every such computation stays where the step stays.
LEMMA RunsTyped ==
  ASSUME NEW R, NEW N \in Nat, NEW x \in R, NEW s \in [R -> [1 .. N -> R]],
         NEW f, Runs(f, x, s, N)
  PROVE  \A k \in 0 .. N : f[k] \in R
<1> DEFINE S == {m \in Nat : m <= N => f[m] \in R}
<1>1. 0 \in S
  BY DEF Runs
<1>2. ASSUME NEW n \in Nat, n \in S PROVE n + 1 \in S
  <2> SUFFICES ASSUME n + 1 <= N PROVE f[n + 1] \in R
    OBVIOUS
  <2>1. f[n] \in R /\ n + 1 \in 1 .. N /\ (n + 1) - 1 = n
    BY <1>2
  <2>2. f[n + 1] = s[f[n]][n + 1]
    BY <2>1 DEF Runs
  <2>3. s[f[n]] \in [1 .. N -> R]
    BY <2>1
  <2> QED
    BY <2>1, <2>2, <2>3
<1>3. \A n \in Nat : n \in S
  <2> HIDE DEF S
  <2> QED
    BY <1>1, <1>2, Induct
<1> QED
  BY <1>3

-----------------------------------------------------------------------------
(* The length of a name *)

\* What LET bytes[k] defines.
IsBytes(name, b) ==
    b = [k \in 0 .. Len(name) |->
          IF k = 0 THEN 0 ELSE b[k - 1] + Size(name[k]) + (IF k = 1 THEN 0 ELSE 1)]

Bytes(name) == CHOOSE b : IsBytes(name, b)

LEMMA NameLenIsBytes ==
  ASSUME NEW name
  PROVE  NameLen(name) = Bytes(name)[Len(name)]
  BY DEF NameLen, Bytes, IsBytes

\* The bytes of the first k components, for every k.
LEMMA BytesSteps ==
  ASSUME NEW name \in Seq(Names)
  PROVE  /\ IsBytes(name, Bytes(name))
         /\ Bytes(name) \in [0 .. Len(name) -> Nat]
         /\ Bytes(name)[0] = 0
         /\ \A k \in 1 .. Len(name) :
              Bytes(name)[k] = Bytes(name)[k - 1] + Size(name[k]) + (IF k = 1 THEN 0 ELSE 1)
<1> DEFINE N == Len(name)
           add == [k \in 1 .. N |-> Size(name[k]) + (IF k = 1 THEN 0 ELSE 1)]
           s == [r \in Nat |-> [k \in 1 .. N |-> r + add[k]]]
<1>1. N \in Nat /\ \A k \in 1 .. N : name[k] \in Names
  OBVIOUS
<1>2. \A k \in 1 .. N : Size(name[k]) \in Nat
  BY <1>1, PathsAssumption
<1>3. add \in [1 .. N -> Nat] /\ \A k \in 1 .. N : add[k] = Size(name[k]) + (IF k = 1 THEN 0 ELSE 1)
  BY <1>2
<1> HIDE DEF add
<1>4. s \in [Nat -> [1 .. N -> Nat]]
  BY <1>3
<1>5. \A r \in Nat : \A k \in 1 .. N : s[r][k] = r + add[k]
  OBVIOUS
<1> HIDE DEF s
<1>6. PICK f \in [0 .. N -> Nat] : Runs(f, 0, s, N)
  <2> HIDE DEF N
  <2> QED
    BY <1>1, <1>4, RunsExist
<1>7. f[0] = 0 /\ \A k \in 1 .. N : f[k - 1] \in Nat /\ f[k] = f[k - 1] + add[k]
  <2>1. f[0] = 0
    BY <1>6 DEF Runs
  <2>2. ASSUME NEW k \in 1 .. N PROVE f[k - 1] \in Nat /\ f[k] = f[k - 1] + add[k]
    <3>1. k - 1 \in 0 .. N
      BY <1>1
    <3>2. f[k - 1] \in Nat
      BY <3>1, <1>6
    <3>3. f[k] = s[f[k - 1]][k]
      BY <1>6 DEF Runs
    <3> QED
      BY <3>2, <3>3, <1>5
  <2> QED
    BY <2>1, <2>2
<1>8. IsBytes(name, f)
  <2>1. f = [k \in 0 .. N |-> f[k]]
    BY <1>6
  <2>2. ASSUME NEW k \in 0 .. N
        PROVE  f[k] = IF k = 0 THEN 0 ELSE f[k - 1] + Size(name[k]) + (IF k = 1 THEN 0 ELSE 1)
    BY <1>7, <1>3, <1>2, <1>1
  <2> QED
    BY <2>1, <2>2 DEF IsBytes
<1> DEFINE b == Bytes(name)
<1>9. IsBytes(name, b)
  BY <1>8 DEF Bytes
<1> HIDE DEF b
<1>10. DOMAIN b = 0 .. N
  BY <1>9 DEF IsBytes
<1>11. b[0] = 0
  BY <1>9, <1>1 DEF IsBytes
<1>12. ASSUME NEW k \in 1 .. N
       PROVE  b[k] = b[k - 1] + Size(name[k]) + (IF k = 1 THEN 0 ELSE 1)
  <2>1. k \in 0 .. N /\ k # 0
    BY <1>1
  <2> QED
    BY <2>1, <1>9 DEF IsBytes
<1>13. \A k \in 0 .. N : b[k] \in Nat
  <2> DEFINE S == {m \in Nat : m <= N => b[m] \in Nat}
  <2>1. 0 \in S
    BY <1>11
  <2>2. ASSUME NEW m \in Nat, m \in S PROVE m + 1 \in S
    <3> SUFFICES ASSUME m + 1 <= N PROVE b[m + 1] \in Nat
      OBVIOUS
    <3>1. m + 1 \in 1 .. N /\ (m + 1) - 1 = m /\ b[m] \in Nat
      BY <2>2, <1>1
    <3>2. b[m + 1] = b[m] + Size(name[m + 1]) + (IF m + 1 = 1 THEN 0 ELSE 1)
      BY <3>1, <1>12
    <3> QED
      BY <3>1, <3>2, <1>2
  <2>3. \A m \in Nat : m \in S
    <3> HIDE DEF S
    <3> QED
      BY <2>1, <2>2, Induct
  <2> QED
    BY <2>3
<1>14. b \in [0 .. N -> Nat]
  <2>1. b = [k \in 0 .. N |-> b[k]]
    BY <1>9, <1>10 DEF IsBytes
  <2> QED
    BY <2>1, <1>13
<1> QED
  BY <1>9, <1>11, <1>12, <1>14 DEF b

\* Two names with the same first m components have the same first m lengths.
LEMMA BytesAgree ==
  ASSUME NEW n \in Seq(Names), NEW p \in Seq(Names), NEW m \in Nat,
         m <= Len(n), m <= Len(p), \A k \in 1 .. m : n[k] = p[k]
  PROVE  Bytes(n)[m] = Bytes(p)[m]
<1> DEFINE b == Bytes(n)
           c == Bytes(p)
           S == {k \in Nat : k <= m => b[k] = c[k]}
<1>1. /\ b[0] = 0 /\ c[0] = 0 /\ Len(n) \in Nat /\ Len(p) \in Nat
      /\ \A k \in 1 .. Len(n) : b[k] = b[k - 1] + Size(n[k]) + (IF k = 1 THEN 0 ELSE 1)
      /\ \A k \in 1 .. Len(p) : c[k] = c[k - 1] + Size(p[k]) + (IF k = 1 THEN 0 ELSE 1)
  BY BytesSteps
<1> HIDE DEF b, c
<1>2. 0 \in S
  BY <1>1
<1>3. ASSUME NEW k \in Nat, k \in S PROVE k + 1 \in S
  <2> SUFFICES ASSUME k + 1 <= m PROVE b[k + 1] = c[k + 1]
    OBVIOUS
  <2>1. k + 1 \in 1 .. m /\ k + 1 \in 1 .. Len(n) /\ k + 1 \in 1 .. Len(p) /\ (k + 1) - 1 = k
    BY <1>1
  <2>2. b[k] = c[k] /\ n[k + 1] = p[k + 1]
    BY <1>3, <2>1
  <2>3. b[k + 1] = b[k] + Size(n[k + 1]) + (IF k + 1 = 1 THEN 0 ELSE 1)
    BY <1>1, <2>1
  <2>4. c[k + 1] = c[k] + Size(p[k + 1]) + (IF k + 1 = 1 THEN 0 ELSE 1)
    BY <1>1, <2>1
  <2> QED
    BY <2>2, <2>3, <2>4
<1>4. m \in S
  <2> HIDE DEF S
  <2> QED
    BY <1>2, <1>3, Induct
<1> QED
  BY <1>4 DEF b, c

\* The empty name has no bytes.
LEMMA EmptyLen == <<>> \in Seq(Names) /\ NameLen(<<>>) = 0
<1>1. <<>> \in Seq(Names) /\ Len(<<>>) = 0
  OBVIOUS
<1> QED
  BY <1>1, BytesSteps, NameLenIsBytes

\* Components after the first m never make a name shorter.
LEMMA BytesGrow ==
  ASSUME NEW n \in Seq(Names), NEW m \in 0 .. Len(n)
  PROVE  Bytes(n)[m] <= NameLen(n)
<1> DEFINE b == Bytes(n)
           S == {k \in Nat : m + k <= Len(n) => b[m] <= b[m + k]}
<1>1. /\ Len(n) \in Nat /\ b \in [0 .. Len(n) -> Nat]
      /\ \A k \in 1 .. Len(n) : b[k] = b[k - 1] + Size(n[k]) + (IF k = 1 THEN 0 ELSE 1)
  BY BytesSteps
<1>2. \A k \in 1 .. Len(n) : Size(n[k]) \in Nat
  BY PathsAssumption
<1>3. NameLen(n) = b[Len(n)]
  BY NameLenIsBytes
<1> HIDE DEF b
<1>4. 0 \in S
  BY <1>1
<1>5. ASSUME NEW k \in Nat, k \in S PROVE (k + 1) \in S
  <2> SUFFICES ASSUME m + (k + 1) <= Len(n) PROVE b[m] <= b[m + (k + 1)]
    OBVIOUS
  <2> DEFINE j == m + (k + 1)
  <2>1. j \in 1 .. Len(n) /\ j - 1 = m + k /\ m + k \in 0 .. Len(n) /\ b[m] <= b[m + k]
    BY <1>5, <1>1
  <2>2. b[j] = b[m + k] + Size(n[j]) + (IF j = 1 THEN 0 ELSE 1)
    BY <1>1, <2>1
  <2>3. b[m + k] \in Nat /\ b[m] \in Nat /\ Size(n[j]) \in Nat
    BY <1>1, <1>2, <2>1
  <2> QED
    BY <2>1, <2>2, <2>3
<1>6. Len(n) - m \in S
  <2>1. Len(n) - m \in Nat
    BY <1>1
  <2> HIDE DEF S
  <2> QED
    BY <1>4, <1>5, <2>1, Induct
<1>7. m + (Len(n) - m) = Len(n) /\ m + (Len(n) - m) <= Len(n)
  BY <1>1
<1>8. b[m] <= b[m + (Len(n) - m)]
  BY <1>6, <1>7
<1> QED
  BY <1>7, <1>8, <1>3 DEF b

\* Front leaves out the last component.
LEMMA FrontFacts ==
  ASSUME NEW R, NEW n \in Seq(R), n # <<>>
  PROVE  /\ Front(n) \in Seq(R)
         /\ Len(n) \in Nat \ {0}
         /\ Len(Front(n)) = Len(n) - 1
         /\ \A k \in 1 .. Len(n) - 1 : Front(n)[k] = n[k]
<1>1. Len(n) \in Nat \ {0} /\ n \in [1 .. Len(n) -> R]
  OBVIOUS
<1>2. Front(n) = [i \in 1 .. Len(n) - 1 |-> n[i]]
  BY <1>1 DEF Front
<1>3. Len(n) - 1 \in Nat /\ \A i \in 1 .. Len(n) - 1 : n[i] \in R
  BY <1>1
<1> DEFINE f == [i \in 1 .. Len(n) - 1 |-> n[i]]
<1>4. f \in Seq(R) /\ Len(f) = Len(n) - 1
  BY <1>3
<1> QED
  BY <1>1, <1>2, <1>4

\* A name without its last component is no longer than it was.
LEMMA FrontLen ==
  ASSUME NEW n \in Seq(Names), n # <<>>
  PROVE  NameLen(Front(n)) <= NameLen(n)
<1> DEFINE p == Front(n)
           m == Len(n) - 1
<1>1. p \in Seq(Names) /\ Len(p) = m /\ m \in 0 .. Len(n) /\ m \in Nat /\ m <= Len(n) /\ m <= Len(p)
  BY FrontFacts
<1>2. \A k \in 1 .. m : n[k] = p[k]
  BY FrontFacts
<1> HIDE DEF p, m
<1>3. Bytes(n)[m] = Bytes(p)[m]
  BY <1>1, <1>2, BytesAgree
<1>4. NameLen(p) = Bytes(n)[m]
  BY <1>1, <1>3, NameLenIsBytes
<1>5. Bytes(n)[m] <= NameLen(n)
  BY <1>1, BytesGrow
<1> QED
  BY <1>4, <1>5 DEF p

-----------------------------------------------------------------------------
(* What a path resolves to *)

Comps  == Names \cup BadNames \cup {".", ".."}
Fit    == {n \in Seq(Names) : NameLen(n) <= PFS_NAME_MAX}
Good   == {n \in Fit : n # <<>>}
Result == [ok : BOOLEAN, name : Fit]

LEMMA EmptyFits == <<>> \in Fit /\ None \in Result
<1>1. <<>> \in Fit
  BY EmptyLen, PathsAssumption DEF Fit
<1> QED
  BY <1>1 DEF None, Result

LEMMA PushFits ==
  ASSUME NEW n \in Fit, NEW c
  PROVE  pfs_push_component(n, c) \in Result
<1>1. CASE c \in Names /\ NameLen(Append(n, c)) <= PFS_NAME_MAX
  <2>1. Append(n, c) \in Seq(Names)
    BY <1>1 DEF Fit
  <2>2. Append(n, c) \in Fit
    BY <2>1, <1>1 DEF Fit
  <2> QED
    BY <2>2, <1>1 DEF Result, Some, pfs_push_component
<1>2. CASE ~(c \in Names /\ NameLen(Append(n, c)) <= PFS_NAME_MAX)
  BY <1>2, EmptyFits DEF pfs_push_component
<1> QED
  BY <1>1, <1>2

LEMMA PopFits ==
  ASSUME NEW n \in Fit
  PROVE  pfs_pop_component(n) \in Fit
<1>1. CASE n = <<>>
  BY <1>1 DEF pfs_pop_component
<1>2. CASE n # <<>>
  <2>1. n \in Seq(Names) /\ NameLen(n) <= PFS_NAME_MAX
    BY DEF Fit
  <2>2. Front(n) \in Seq(Names)
    BY <2>1, <1>2, FrontFacts
  <2>3. NameLen(Front(n)) \in Nat /\ NameLen(n) \in Nat
    BY <2>1, <2>2, BytesSteps, NameLenIsBytes
  <2>4. NameLen(Front(n)) <= PFS_NAME_MAX
    BY <2>1, <2>3, <1>2, FrontLen, PathsAssumption
  <2> QED
    BY <2>2, <2>4, <1>2 DEF Fit, pfs_pop_component
<1> QED
  BY <1>1, <1>2

LEMMA ComponentFits ==
  ASSUME NEW r \in Result, NEW c
  PROVE  Component(r, c) \in Result
<1>1. r.name \in Fit
  BY DEF Result
<1>2. Some(pfs_pop_component(r.name)) \in Result
  BY <1>1, PopFits DEF Result, Some
<1>3. pfs_push_component(r.name, c) \in Result
  BY <1>1, PushFits
<1> QED
  BY <1>2, <1>3 DEF Component

IsUpto(base, path, u) ==
    u = [k \in 0 .. Len(path.comps) |->
          IF k = 0 THEN Some(IF path.abs THEN <<>> ELSE base)
                   ELSE Component(u[k - 1], path.comps[k])]

Upto(base, path) == CHOOSE u : IsUpto(base, path, u)

LEMMA NormalizeIsUpto ==
  ASSUME NEW base, NEW path
  PROVE  normalize_pfs_path(base, path) =
           LET r == Upto(base, path)[Len(path.comps)] IN IF r.name = <<>> THEN None ELSE r
  BY DEF normalize_pfs_path, Upto, IsUpto

\* The normal form component by component.
LEMMA UptoSteps ==
  ASSUME NEW base \in Fit, NEW path \in Path
  PROVE  /\ Upto(base, path)[0] = Some(IF path.abs THEN <<>> ELSE base)
         /\ \A k \in 1 .. Len(path.comps) :
              Upto(base, path)[k] = Component(Upto(base, path)[k - 1], path.comps[k])
         /\ \A k \in 0 .. Len(path.comps) : Upto(base, path)[k] \in Result
<1> DEFINE N == Len(path.comps)
           x == Some(IF path.abs THEN <<>> ELSE base)
           s == [r \in Result |-> [k \in 1 .. N |-> Component(r, path.comps[k])]]
<1>1. N \in Nat
  BY DEF Path
<1>2. x \in Result
  <2>1. (IF path.abs THEN <<>> ELSE base) \in Fit
    BY EmptyFits
  <2> QED
    BY <2>1 DEF Some, Result
<1>3. s \in [Result -> [1 .. N -> Result]]
  BY ComponentFits
<1>4. \A r \in Result : \A k \in 1 .. N : s[r][k] = Component(r, path.comps[k])
  OBVIOUS
<1> HIDE DEF s, x, N
<1>5. PICK f \in [0 .. N -> Result] : Runs(f, x, s, N)
  BY <1>1, <1>2, <1>3, RunsExist
<1>6. IsUpto(base, path, f)
  <2>1. f = [k \in 0 .. N |-> f[k]]
    BY <1>5
  <2>2. ASSUME NEW k \in 0 .. N
        PROVE  f[k] = IF k = 0 THEN x ELSE Component(f[k - 1], path.comps[k])
    <3>1. CASE k = 0
      BY <3>1, <1>5 DEF Runs
    <3>2. CASE k # 0
      <4>1. k \in 1 .. N /\ k - 1 \in 0 .. N
        BY <3>2, <1>1
      <4>2. f[k] = s[f[k - 1]][k] /\ f[k - 1] \in Result
        BY <4>1, <1>5 DEF Runs
      <4> QED
        BY <4>1, <4>2, <3>2, <1>4
    <3> QED
      BY <3>1, <3>2
  <2>3. f = [k \in 0 .. N |-> IF k = 0 THEN x ELSE Component(f[k - 1], path.comps[k])]
    BY <2>1, <2>2, Zenon
  <2> QED
    BY <2>3, Zenon DEF IsUpto, N, x
<1> DEFINE u == Upto(base, path)
<1>7. IsUpto(base, path, u)
  BY <1>6, Zenon DEF Upto
<1> HIDE DEF u
<1>8. u = [k \in 0 .. N |-> IF k = 0 THEN x ELSE Component(u[k - 1], path.comps[k])]
  BY <1>7, Zenon DEF IsUpto, N, x
<1>9. u[0] = x
  BY <1>8, <1>1
<1>10. ASSUME NEW k \in 1 .. N PROVE u[k] = Component(u[k - 1], path.comps[k])
  <2>1. k \in 0 .. N /\ k # 0
    BY <1>1
  <2> QED
    BY <2>1, <1>8
<1>11. \A k \in 0 .. N : u[k] \in Result
  <2> DEFINE S == {m \in Nat : m <= N => u[m] \in Result}
  <2>1. 0 \in S
    BY <1>9, <1>2
  <2>2. ASSUME NEW m \in Nat, m \in S PROVE m + 1 \in S
    <3> SUFFICES ASSUME m + 1 <= N PROVE u[m + 1] \in Result
      OBVIOUS
    <3>1. m + 1 \in 1 .. N /\ (m + 1) - 1 = m /\ u[m] \in Result
      BY <2>2, <1>1
    <3>2. u[m + 1] = Component(u[m], path.comps[m + 1])
      BY <3>1, <1>10
    <3> QED
      BY <3>1, <3>2, ComponentFits
  <2>3. \A m \in Nat : m \in S
    <3> HIDE DEF S
    <3> QED
      BY <2>1, <2>2, Induct
  <2> QED
    BY <2>3
<1> QED
  BY <1>9, <1>10, <1>11 DEF u, x, N

\* A path that resolves gives a proper name, whatever is in it.
LEMMA NormalizeGood ==
  ASSUME NEW base \in Fit, NEW path \in Path
  PROVE  /\ normalize_pfs_path(base, path) \in Result
         /\ normalize_pfs_path(base, path).ok => normalize_pfs_path(base, path).name \in Good
<1> DEFINE r == Upto(base, path)[Len(path.comps)]
<1>1. Len(path.comps) \in 0 .. Len(path.comps)
  BY DEF Path
<1>2. r \in Result
  BY <1>1, UptoSteps
<1>3. normalize_pfs_path(base, path) = IF r.name = <<>> THEN None ELSE r
  BY NormalizeIsUpto
<1> HIDE DEF r
<1>4. r.name \in Fit
  BY <1>2 DEF Result
<1>5. CASE r.name = <<>>
  BY <1>5, <1>3, EmptyFits DEF None
<1>6. CASE r.name # <<>>
  BY <1>6, <1>2, <1>3, <1>4 DEF Good
<1> QED
  BY <1>5, <1>6

Dirs == {Root} \cup [pfs : {TRUE}, name : Fit]

LEMMA ResolveGood ==
  ASSUME NEW dir \in Dirs, NEW path \in Path, pfs_resolve_path(dir, path).ok
  PROVE  pfs_resolve_path(dir, path).name \in Good
<1>1. CASE path.pfs
  <2>1. pfs_resolve_path(dir, path) = normalize_pfs_path(<<>>, path)
    BY <1>1 DEF pfs_resolve_path
  <2> QED
    BY <2>1, NormalizeGood, EmptyFits
<1>2. CASE ~path.pfs /\ dir.pfs
  <2>1. dir # Root
    BY <1>2 DEF Root
  <2>2. dir.name \in Fit
    BY <2>1 DEF Dirs
  <2>3. pfs_resolve_path(dir, path) = normalize_pfs_path(dir.name, path)
    BY <1>2 DEF pfs_resolve_path
  <2> QED
    BY <2>2, <2>3, NormalizeGood
<1>3. CASE ~path.pfs /\ ~dir.pfs
  BY <1>3 DEF pfs_resolve_path, None
<1> QED
  BY <1>1, <1>2, <1>3

\* The first k components of a name are no longer than the name.
LEMMA PrefixFits ==
  ASSUME NEW n \in Fit, NEW k \in 0 .. Len(n)
  PROVE  SubSeq(n, 1, k) \in Fit
<1> DEFINE p == SubSeq(n, 1, k)
<1>1. n \in Seq(Names) /\ NameLen(n) <= PFS_NAME_MAX /\ k \in Nat /\ k <= Len(n) /\ Len(n) \in Nat
  BY DEF Fit
<1>2. p = [i \in 1 .. k |-> n[i]]
  BY <1>1
<1>3. \A i \in 1 .. k : n[i] \in Names
  BY <1>1
<1>4. p \in Seq(Names) /\ Len(p) = k /\ \A i \in 1 .. k : n[i] = p[i]
  BY <1>1, <1>2, <1>3
<1> HIDE DEF p
<1>5. k <= Len(p)
  BY <1>1, <1>4
<1>6. Bytes(n)[k] = Bytes(p)[k]
  BY <1>1, <1>4, <1>5, BytesAgree
<1>7. NameLen(p) = Bytes(n)[k]
  BY <1>4, <1>6, NameLenIsBytes
<1>8. Bytes(n)[k] <= NameLen(n)
  BY <1>1, BytesGrow
<1>9. NameLen(p) \in Nat /\ NameLen(n) \in Nat
  BY <1>1, <1>4, BytesSteps, NameLenIsBytes
<1>10. NameLen(p) <= PFS_NAME_MAX
  BY <1>1, <1>7, <1>8, <1>9, PathsAssumption
<1> QED
  BY <1>4, <1>10 DEF Fit, p

\* A name written as a path with the prefix pfs: resolves to itself.
LEMMA NameLeadsBack ==
  ASSUME NEW n \in Good, NEW dir
  PROVE  pfs_resolve_path(dir, [pfs |-> TRUE, abs |-> FALSE, comps |-> n]) = Some(n)
<1> DEFINE path == [pfs |-> TRUE, abs |-> FALSE, comps |-> n]
           u == Upto(<<>>, path)
           N == Len(n)
           S == {k \in Nat : k <= N => u[k] = Some(SubSeq(n, 1, k))}
<1>1. n \in Fit /\ n \in Seq(Names) /\ n # <<>> /\ N \in Nat
  BY DEF Good, Fit
<1>2. path \in Path /\ path.comps = n /\ path.pfs = TRUE /\ path.abs = FALSE
  BY <1>1 DEF Path
<1> HIDE DEF path
<1>3. /\ u[0] = Some(<<>>)
      /\ \A k \in 1 .. N : u[k] = Component(u[k - 1], n[k])
  BY <1>2, EmptyFits, UptoSteps
<1> HIDE DEF u
<1>4. 0 \in S
  <2>1. SubSeq(n, 1, 0) = <<>>
    BY <1>1
  <2> QED
    BY <2>1, <1>3
<1>5. ASSUME NEW k \in Nat, k \in S PROVE k + 1 \in S
  <2> SUFFICES ASSUME k + 1 <= N PROVE u[k + 1] = Some(SubSeq(n, 1, k + 1))
    OBVIOUS
  <2> DEFINE q == SubSeq(n, 1, k)
             c == n[k + 1]
  <2>1. k + 1 \in 1 .. N /\ (k + 1) - 1 = k /\ k + 1 \in 0 .. Len(n) /\ u[k] = Some(q)
    BY <1>5, <1>1
  <2>2. c \in Names /\ c # "." /\ c # ".."
    BY <1>1, <2>1, PathsAssumption
  <2>3. Append(q, c) = SubSeq(n, 1, k + 1)
    BY <1>1, <2>1
  <2>4. SubSeq(n, 1, k + 1) \in Fit
    BY <1>1, <2>1, PrefixFits
  <2>5. u[k + 1] = Component(Some(q), c)
    BY <1>3, <2>1
  <2> HIDE DEF q, c
  <2>6. Some(q).ok = TRUE /\ Some(q).name = q
    BY DEF Some
  <2>7. Component(Some(q), c) = pfs_push_component(q, c)
    BY <2>2, <2>6 DEF Component
  <2>8. pfs_push_component(q, c) = Some(Append(q, c))
    BY <2>2, <2>3, <2>4 DEF pfs_push_component, Fit
  <2> QED
    BY <2>3, <2>5, <2>7, <2>8
<1>6. N \in S
  <2> HIDE DEF S
  <2> QED
    BY <1>1, <1>4, <1>5, Induct
<1>7. u[N] = Some(n)
  <2>1. SubSeq(n, 1, N) = n
    BY <1>1
  <2>2. u[N] = Some(SubSeq(n, 1, N))
    <3>1. N <= N
      BY <1>1
    <3> HIDE DEF N
    <3> QED
      BY <1>6, <3>1
  <2> QED
    BY <2>1, <2>2
<1>8. normalize_pfs_path(<<>>, path) = LET r == u[N] IN IF r.name = <<>> THEN None ELSE r
  BY <1>2, NormalizeIsUpto DEF u
<1>9. normalize_pfs_path(<<>>, path) = Some(n)
  BY <1>1, <1>7, <1>8 DEF Some
<1>10. pfs_resolve_path(dir, path) = normalize_pfs_path(<<>>, path)
  BY <1>2 DEF pfs_resolve_path
<1> QED
  BY <1>9, <1>10 DEF path

-----------------------------------------------------------------------------
(* The invariant *)

Entries == {Free} \cup [kind : {"Dir", "File"}, name : Good]

\* create_dir_all under way: what is left of its path, and what it has built.
Mkdirs == [pc : {"stat", "mkdir", "ok", "err"}, path : Path, rest : Seq(Comps),
           clean : BOOLEAN, current : Path]

\* A walk is a record with a pc.
IsWalk(w) ==
    \/ w = NoCall
    \/ /\ w = [f \in DOMAIN w |-> w[f]]
       /\ DOMAIN w = {"pc", "path", "index", "seen", "clean", "where"}
       /\ w["pc"] \in {"next", "end"}
       /\ w["clean"] \in BOOLEAN

\* The names in an entry table are the kernel's, and different.
TableOK(e) ==
    /\ e \in [Slots -> Entries]
    /\ \A i, j \in Slots : e[i] # Free /\ e[j] # Free /\ e[i].name = e[j].name => i = j

\* Every file is in the root or below a directory of the table.
ParentsIn(e) ==
    \A i \in Slots : e[i].kind = "File" /\ Len(e[i].name) > 1 =>
      \E j \in Slots : e[j] = [kind |-> "Dir", name |-> Front(e[i].name)]

PathsInv ==
    /\ TableOK(entry)
    /\ ParentsIn(entry)
    /\ cwd \in [Tasks -> Dirs]
    /\ call \in [Tasks -> {NoCall} \cup Mkdirs]
    /\ walk = [t \in Tasks |-> walk[t]]
    /\ \A t \in Tasks : IsWalk(walk[t])

LEMMA EntryKinds ==
  ASSUME NEW e \in Entries
  PROVE  /\ (e.kind = "Free") <=> (e = Free)
         /\ e # Free => e.kind \in {"Dir", "File"} /\ e.name \in Good
         /\ Free.name = <<>> /\ Free.kind = "Free"
  BY DEF Entries, Free

LEMMA UsedIs ==
  ASSUME NEW e \in [Slots -> Entries]
  PROVE  Used(e) = {i \in Slots : e[i] # Free}
  BY EntryKinds DEF Used

LEMMA GoodIsName ==
  ASSUME NEW n \in Good
  PROVE  IsName(n)
<1>1. n \in Seq(Names) /\ n # <<>> /\ NameLen(n) <= PFS_NAME_MAX
  BY DEF Good, Fit
<1>2. ToSet(n) \subseteq Names
  BY <1>1 DEF ToSet
<1> QED
  BY <1>1, <1>2 DEF IsName

\* A new entry, in a free slot, below a directory, under a name not in use.
LEMMA AddKeeps ==
  ASSUME NEW e, TableOK(e), ParentsIn(e),
         NEW i \in Slots, e[i] = Free,
         NEW n \in Good, NEW k \in {"Dir", "File"},
         \A j \in Slots : e[j] # Free => e[j].name # n,
         Len(n) > 1 => \E j \in Slots : e[j] = [kind |-> "Dir", name |-> Front(n)]
  PROVE  /\ TableOK([e EXCEPT ![i] = [kind |-> k, name |-> n]])
         /\ ParentsIn([e EXCEPT ![i] = [kind |-> k, name |-> n]])
<1> DEFINE x == [kind |-> k, name |-> n]
           f == [e EXCEPT ![i] = x]
<1>1. e \in [Slots -> Entries]
  BY DEF TableOK
<1>2. x \in Entries /\ x # Free /\ x.name = n
  BY DEF Entries, Free
<1> HIDE DEF x
<1>3. f \in [Slots -> Entries]
  BY <1>1, <1>2
<1>4. f[i] = x /\ \A j \in Slots : j # i => f[j] = e[j]
  BY <1>1
<1> HIDE DEF f
<1>5. TableOK(f)
  BY <1>2, <1>3, <1>4 DEF TableOK
<1>6. \A j \in Slots : \A p : e[j] = [kind |-> "Dir", name |-> p] => f[j] = [kind |-> "Dir", name |-> p]
  BY <1>4 DEF Free
<1>7. ASSUME NEW j \in Slots, f[j].kind = "File", Len(f[j].name) > 1
      PROVE  \E m \in Slots : f[m] = [kind |-> "Dir", name |-> Front(f[j].name)]
  <2>1. CASE j = i
    BY <2>1, <1>2, <1>4, <1>6, <1>7
  <2>2. CASE j # i
    <3>1. f[j] = e[j]
      BY <2>2, <1>4
    <3>2. \E m \in Slots : e[m] = [kind |-> "Dir", name |-> Front(e[j].name)]
      BY <3>1, <1>7 DEF ParentsIn
    <3> QED
      BY <3>1, <3>2, <1>6
  <2> QED
    BY <2>1, <2>2
<1>8. ParentsIn(f)
  BY <1>7 DEF ParentsIn
<1> QED
  BY <1>5, <1>8 DEF f, x

\* A name is a strict prefix of what is right below it.
LEMMA FrontIsPrefix ==
  ASSUME NEW n \in Seq(Names), n # <<>>
  PROVE  IsStrictPrefix(Front(n), n)
<1> DEFINE p == Front(n)
<1>1. p \in Seq(Names) /\ Len(n) \in Nat \ {0} /\ Len(p) = Len(n) - 1
  BY FrontFacts
<1>2. p # n /\ Len(p) <= Len(n)
  BY <1>1
<1>3. \A s \in Seq(Names) : SubSeq(s, 1, Len(s)) = s
  OBVIOUS
<1>4. SubSeq(p, 1, Len(p)) = p
  BY <1>1, <1>3
<1>5. SubSeq(n, 1, Len(p)) = p
  BY <1>1 DEF Front
<1> QED
  BY <1>2, <1>4, <1>5 DEF IsStrictPrefix, IsPrefix

\* Removing a name that is no directory, or one with nothing below it.
LEMMA RemoveKeeps ==
  ASSUME NEW e, TableOK(e), ParentsIn(e), NEW n \in Good,
         (\E m \in Slots : e[m] = [kind |-> "Dir", name |-> n]) =>
            \A j \in Slots : e[j] # Free => ~IsStrictPrefix(n, e[j].name)
  PROVE  /\ TableOK([i \in Slots |-> IF e[i].name = n THEN Free ELSE e[i]])
         /\ ParentsIn([i \in Slots |-> IF e[i].name = n THEN Free ELSE e[i]])
<1> DEFINE f == [i \in Slots |-> IF e[i].name = n THEN Free ELSE e[i]]
<1>1. e \in [Slots -> Entries]
  BY DEF TableOK
<1>2. f \in [Slots -> Entries]
  BY <1>1 DEF Entries
<1>3. \A j \in Slots : f[j] = IF e[j].name = n THEN Free ELSE e[j]
  OBVIOUS
<1> HIDE DEF f
<1>4. TableOK(f)
  BY <1>2, <1>3 DEF TableOK
<1>5. ASSUME NEW j \in Slots, f[j].kind = "File", Len(f[j].name) > 1
      PROVE  \E m \in Slots : f[m] = [kind |-> "Dir", name |-> Front(f[j].name)]
  <2>1. f[j] = e[j] /\ e[j] # Free
    BY <1>5, <1>3, <1>1, EntryKinds
  <2>2. PICK m \in Slots : e[m] = [kind |-> "Dir", name |-> Front(e[j].name)]
    BY <2>1, <1>5 DEF ParentsIn
  <2>3. e[m].name = Front(e[j].name)
    BY <2>2
  <2>4. e[j].name \in Seq(Names) /\ e[j].name # <<>>
    BY <2>1, <1>1, EntryKinds DEF Good, Fit
  <2>5. e[m].name # n
    BY <2>1, <2>2, <2>3, <2>4, FrontIsPrefix
  <2>6. f[m] = e[m]
    BY <2>5, <1>3
  <2> QED
    BY <2>1, <2>2, <2>6
<1>6. ParentsIn(f)
  BY <1>5 DEF ParentsIn
<1> QED
  BY <1>4, <1>6 DEF f

\* Giving an entry that is no directory, or one with nothing below it, a name not
\* in use below a directory, perhaps below itself.
LEMMA RenameKeeps ==
  ASSUME NEW e, TableOK(e), ParentsIn(e), NEW n \in Good, NEW m \in Good,
         \A j \in Slots : e[j] # Free => e[j].name # m,
         Len(m) > 1 => \E j \in Slots : e[j] = [kind |-> "Dir", name |-> Front(m)],
         (\E k \in Slots : e[k] = [kind |-> "Dir", name |-> n]) =>
            \A j \in Slots : e[j] # Free => ~IsStrictPrefix(n, e[j].name)
  PROVE  LET f == [i \in Slots |-> IF e[i].name = n THEN [kind |-> e[i].kind, name |-> m] ELSE e[i]]
         IN  TableOK(f) /\ ParentsIn(f)
<1> DEFINE f == [i \in Slots |-> IF e[i].name = n THEN [kind |-> e[i].kind, name |-> m] ELSE e[i]]
<1>1. /\ e \in [Slots -> Entries]
      /\ \A i, j \in Slots : e[i] # Free /\ e[j] # Free /\ e[i].name = e[j].name => i = j
  BY DEF TableOK
<1>2. n # <<>>
  BY DEF Good
<1>3. /\ \A j \in Slots : e[j] # Free => e[j].kind \in {"Dir", "File"} /\ e[j].name \in Good
      /\ \A j \in Slots : e[j].name = n => e[j] # Free
  BY <1>1, <1>2, EntryKinds
<1>4. \A j \in Slots : f[j] = IF e[j].name = n THEN [kind |-> e[j].kind, name |-> m] ELSE e[j]
  OBVIOUS
<1>5. \A j \in Slots : e[j].name = n => f[j] \in Entries /\ f[j] # Free /\ f[j].kind = e[j].kind /\ f[j].name = m
  BY <1>3, <1>4 DEF Entries, Free
<1>6. f = [j \in Slots |-> f[j]]
  OBVIOUS
<1> HIDE DEF f
<1>7. \A j \in Slots : e[j].name # n => f[j] = e[j]
  BY <1>4
<1>8. f \in [Slots -> Entries]
  BY <1>1, <1>5, <1>6, <1>7
<1>9. ASSUME NEW i \in Slots, NEW j \in Slots, f[i] # Free, f[j] # Free, f[i].name = f[j].name
      PROVE  i = j
  <2>1. CASE e[i].name = n /\ e[j].name = n
    BY <2>1, <1>1, <1>3
  <2>2. CASE e[i].name = n /\ e[j].name # n
    BY <2>2, <1>5, <1>7, <1>9
  <2>3. CASE e[i].name # n /\ e[j].name = n
    BY <2>3, <1>5, <1>7, <1>9
  <2>4. CASE e[i].name # n /\ e[j].name # n
    BY <2>4, <1>1, <1>7, <1>9
  <2> QED
    BY <2>1, <2>2, <2>3, <2>4
<1>10. TableOK(f)
  BY <1>8, <1>9 DEF TableOK
<1>11. ASSUME NEW j \in Slots, f[j].kind = "File", Len(f[j].name) > 1
       PROVE  \E k \in Slots : f[k] = [kind |-> "Dir", name |-> Front(f[j].name)]
  <2>1. CASE e[j].name = n
    <3>1. f[j].name = m /\ e[j].kind = "File" /\ e[j] # Free
      BY <2>1, <1>3, <1>5, <1>11
    <3>2. PICK k \in Slots : e[k] = [kind |-> "Dir", name |-> Front(m)]
      BY <3>1, <1>11
    <3>3. e[k].kind = "Dir" /\ e[k] # Free
      BY <3>2 DEF Free
    <3>4. e[k].name # n
      BY <2>1, <3>1, <3>3, <1>1
    <3> QED
      BY <3>1, <3>2, <3>4, <1>7
  <2>2. CASE e[j].name # n
    <3>1. f[j] = e[j] /\ e[j] # Free
      BY <2>2, <1>7, <1>11 DEF Free
    <3>2. PICK k \in Slots : e[k] = [kind |-> "Dir", name |-> Front(e[j].name)]
      BY <3>1, <1>11 DEF ParentsIn
    <3>3. e[k].name = Front(e[j].name)
      BY <3>2
    <3>4. e[j].name \in Seq(Names) /\ e[j].name # <<>>
      BY <3>1, <1>3 DEF Good, Fit
    <3>5. e[k].name # n
      BY <3>1, <3>2, <3>3, <3>4, FrontIsPrefix
    <3> QED
      BY <3>1, <3>2, <3>5, <1>7
  <2> QED
    BY <2>1, <2>2
<1>12. ParentsIn(f)
  BY <1>11 DEF ParentsIn
<1> QED
  BY <1>10, <1>12 DEF f

\* IsDir in the words of the invariant.
LEMMA IsDirIs ==
  ASSUME TableOK(entry), NEW n
  PROVE  IsDir(n) <=> \E j \in Slots : entry[j] = [kind |-> "Dir", name |-> n]
<1>1. entry \in [Slots -> Entries]
  BY DEF TableOK
<1>2. Used(entry) = {i \in Slots : entry[i] # Free}
  BY <1>1, UsedIs
<1>3. [kind |-> "Dir", name |-> n] # Free
  BY DEF Free
<1> QED
  BY <1>2, <1>3 DEF IsDir

LEMMA ExistsIs ==
  ASSUME TableOK(entry), NEW n
  PROVE  Exists(n) <=> \E j \in Slots : entry[j] # Free /\ entry[j].name = n
<1>1. entry \in [Slots -> Entries]
  BY DEF TableOK
<1>2. Used(entry) = {i \in Slots : entry[i] # Free}
  BY <1>1, UsedIs
<1> QED
  BY <1>2 DEF Exists, NamesIn

LEMMA ParentIs ==
  ASSUME TableOK(entry), NEW n \in Good, pfs_parent_exists(n)
  PROVE  Len(n) > 1 => \E j \in Slots : entry[j] = [kind |-> "Dir", name |-> Front(n)]
<1>1. Len(n) \in Nat
  BY DEF Good, Fit
<1>2. \A x \in Nat : x > 1 => x # 1
  OBVIOUS
<1>3. Len(n) > 1 => IsDir(Front(n))
  BY <1>1, <1>2, Zenon DEF pfs_parent_exists, ParentOf
<1> QED
  BY <1>3, IsDirIs

LEMMA EmptyDirIs ==
  ASSUME TableOK(entry), NEW n, EmptyIfDir(n)
  PROVE  (\E m \in Slots : entry[m] = [kind |-> "Dir", name |-> n]) =>
            \A j \in Slots : entry[j] # Free => ~IsStrictPrefix(n, entry[j].name)
<1>1. entry \in [Slots -> Entries]
  BY DEF TableOK
<1>2. \A j \in Slots : entry[j] # Free => entry[j].name \in NamesIn(entry)
  BY <1>1, UsedIs DEF NamesIn
<1> QED
  BY <1>2, IsDirIs DEF EmptyIfDir, pfs_dir_empty

\* abi_mkdir and abi_open of a new file keep the table in order.
LEMMA MakeTable ==
  ASSUME PathsInv, NEW dir \in Dirs, NEW path \in Path, NEW k \in {"Dir", "File"},
         CanAdd(pfs_resolve_path(dir, path)), Add(pfs_resolve_path(dir, path).name, k)
  PROVE  TableOK(entry') /\ ParentsIn(entry')
<1> DEFINE n == pfs_resolve_path(dir, path).name
           i == Min(Slots \ Used(entry))
<1>1. n \in Good
  BY ResolveGood DEF CanAdd
<1>2. pfs_parent_exists(n) /\ ~Exists(n) /\ Used(entry) # Slots
  BY DEF CanAdd
<1>3. entry' = [entry EXCEPT ![i] = [kind |-> k, name |-> n]]
  BY DEF Add
<1>4. TableOK(entry) /\ ParentsIn(entry)
  BY DEF PathsInv
<1>5. i \in Slots \ Used(entry)
  <2>1. Slots \ Used(entry) \subseteq Nat /\ Slots \ Used(entry) # {}
    BY <1>2, PathsAssumption DEF Slots, Used
  <2> QED
    BY <2>1, MinMember
<1> HIDE DEF i, n
<1>6. i \in Slots /\ entry[i] = Free
  BY <1>4, <1>5, UsedIs DEF TableOK
<1>7. \A j \in Slots : entry[j] # Free => entry[j].name # n
  BY <1>2, <1>4, ExistsIs
<1>8. Len(n) > 1 => \E j \in Slots : entry[j] = [kind |-> "Dir", name |-> Front(n)]
  BY <1>1, <1>2, <1>4, ParentIs
<1> QED
  BY <1>1, <1>3, <1>4, <1>6, <1>7, <1>8, AddKeeps

\* abi_unlink keeps the table in order.
LEMMA UnlinkTable ==
  ASSUME PathsInv, NEW t \in Tasks, NEW path \in Path, Unlink(t, path)
  PROVE  TableOK(entry') /\ ParentsIn(entry')
<1> DEFINE n == pfs_resolve_path(cwd[t], path).name
<1>1. TableOK(entry) /\ ParentsIn(entry) /\ cwd[t] \in Dirs
  BY DEF PathsInv
<1>2. n \in Good
  BY <1>1, ResolveGood DEF Unlink
<1>3. EmptyIfDir(n)
  BY DEF Unlink
<1>4. entry' = [i \in Slots |-> IF entry[i].name = n THEN Free ELSE entry[i]]
  BY DEF Unlink
<1> HIDE DEF n
<1> QED
  BY <1>1, <1>2, <1>3, <1>4, EmptyDirIs, RemoveKeeps

\* abi_rename keeps the table in order, as far as files go.
LEMMA RenameTable ==
  ASSUME PathsInv, NEW t \in Tasks, NEW old \in Path, NEW new \in Path, Rename(t, old, new)
  PROVE  TableOK(entry') /\ ParentsIn(entry')
<1> DEFINE n == pfs_resolve_path(cwd[t], old).name
           m == pfs_resolve_path(cwd[t], new).name
<1>1. TableOK(entry) /\ ParentsIn(entry) /\ cwd[t] \in Dirs
  BY DEF PathsInv
<1>2. n \in Good /\ m \in Good
  BY <1>1, ResolveGood DEF Rename
<1>3. EmptyIfDir(n) /\ ~Exists(m) /\ pfs_parent_exists(m)
  BY DEF Rename
<1>4. entry' = [i \in Slots |-> IF entry[i].name = n THEN [kind |-> entry[i].kind, name |-> m] ELSE entry[i]]
  BY Zenon DEF Rename
<1> HIDE DEF n, m
<1>5. \A j \in Slots : entry[j] # Free => entry[j].name # m
  BY <1>1, <1>3, ExistsIs
<1>6. Len(m) > 1 => \E j \in Slots : entry[j] = [kind |-> "Dir", name |-> Front(m)]
  BY <1>1, <1>2, <1>3, ParentIs
<1>7. (\E k \in Slots : entry[k] = [kind |-> "Dir", name |-> n]) =>
         \A j \in Slots : entry[j] # Free => ~IsStrictPrefix(n, entry[j].name)
  BY <1>1, <1>3, EmptyDirIs
<1> QED
  BY <1>1, <1>2, <1>4, <1>5, <1>6, <1>7, RenameKeeps

-----------------------------------------------------------------------------
(* The walks and the calls under way *)

LEMMA DisturbedWalk ==
  ASSUME NEW w, IsWalk(w), w # NoCall
  PROVE  IsWalk(Disturbed(w))
  BY DEF IsWalk, Disturbed

LEMMA WalksKept ==
  ASSUME PathsInv, walk' = WalksAfter
  PROVE  walk' = [t \in Tasks |-> walk'[t]] /\ \A t \in Tasks : IsWalk(walk'[t])
<1>1. walk' = [t \in Tasks |-> walk'[t]]
  BY DEF WalksAfter
<1>2. ASSUME NEW t \in Tasks PROVE IsWalk(walk'[t])
  <2>1. walk'[t] = walk[t] \/ (walk[t] # NoCall /\ walk'[t] = Disturbed(walk[t]))
    BY DEF WalksAfter
  <2>2. IsWalk(walk[t])
    BY DEF PathsInv
  <2> QED
    BY <2>1, <2>2, DisturbedWalk
<1> QED
  BY <1>1, <1>2

\* One walk changes.
LEMMA WalkSet ==
  ASSUME PathsInv, NEW t \in Tasks, NEW w, IsWalk(w), walk' = [walk EXCEPT ![t] = w]
  PROVE  walk' = [u \in Tasks |-> walk'[u]] /\ \A u \in Tasks : IsWalk(walk'[u])
<1>1. walk = [u \in Tasks |-> walk[u]] /\ \A u \in Tasks : IsWalk(walk[u])
  BY DEF PathsInv
<1> QED
  BY <1>1

LEMMA CallsKept ==
  ASSUME PathsInv, NEW t \in Tasks
  PROVE  OthersDisturbed(t) \in [Tasks -> {NoCall} \cup Mkdirs]
<1>1. call \in [Tasks -> {NoCall} \cup Mkdirs]
  BY DEF PathsInv
<1>2. ASSUME NEW c \in Mkdirs PROVE [c EXCEPT !.clean = FALSE] \in Mkdirs
  BY DEF Mkdirs
<1> QED
  BY <1>1, <1>2 DEF OthersDisturbed

\* create_dir_all under way has a record.
LEMMA InMkdirsRecord ==
  ASSUME PathsInv, NEW t \in Tasks, NEW pc \in {"stat", "mkdir", "ok", "err"}, InMkdirs(t, pc)
  PROVE  call[t] \in Mkdirs
<1>1. call[t] \in {NoCall} \cup Mkdirs
  BY DEF PathsInv
<1>2. call[t] # NoCall
  BY DEF InMkdirs, NoCall
<1> QED
  BY <1>1, <1>2

-----------------------------------------------------------------------------
(* Every action keeps the invariant *)

LEMMA InitInv ==
  ASSUME Init
  PROVE  PathsInv
<1>1. entry \in [Slots -> Entries] /\ \A i \in Slots : entry[i] = Free
  BY DEF Init, Entries
<1>2. TableOK(entry) /\ ParentsIn(entry)
  BY <1>1 DEF TableOK, ParentsIn, Free
<1>3. cwd \in [Tasks -> Dirs]
  BY DEF Init, Dirs
<1>4. call \in [Tasks -> {NoCall} \cup Mkdirs]
  BY DEF Init
<1>5. walk = [t \in Tasks |-> walk[t]] /\ \A t \in Tasks : IsWalk(walk[t])
  BY DEF Init, IsWalk
<1> QED
  BY <1>2, <1>3, <1>4, <1>5 DEF PathsInv

LEMMA SetCwdInv ==
  ASSUME PathsInv, NEW t \in Tasks, NEW d \in Dirs, SetCwd(t, d), UNCHANGED <<entry, call>>
  PROVE  PathsInv'
<1>1. cwd' \in [Tasks -> Dirs]
  BY DEF SetCwd, PathsInv
<1>2. \E w : IsWalk(w) /\ walk' = [walk EXCEPT ![t] = w]
  <2>1. IsWalk(walk[t]) /\ walk = [u \in Tasks |-> walk[u]]
    BY DEF PathsInv
  <2> DEFINE w == IF walk[t] # NoCall /\ cwd'[t] # cwd[t] THEN Disturbed(walk[t]) ELSE walk[t]
  <2>2. IsWalk(w)
    BY <2>1, DisturbedWalk
  <2>3. walk' = [walk EXCEPT ![t] = w]
    BY <2>1 DEF SetCwd
  <2> QED
    BY <2>2, <2>3
<1>3. walk' = [u \in Tasks |-> walk'[u]] /\ \A u \in Tasks : IsWalk(walk'[u])
  BY <1>2, WalkSet
<1>4. /\ TableOK(entry) /\ ParentsIn(entry) /\ call \in [Tasks -> {NoCall} \cup Mkdirs]
      /\ entry' = entry /\ call' = call
  BY DEF PathsInv
<1> QED
  BY <1>1, <1>3, <1>4 DEF PathsInv

LEMMA ChdirInv ==
  ASSUME PathsInv, NEW t \in Tasks, NEW path \in Path, Chdir(t, path)
  PROVE  PathsInv'
<1> DEFINE r == pfs_resolve_path(cwd[t], path)
<1>1. UNCHANGED <<entry, call>>
  BY DEF Chdir
<1>2. Root \in Dirs /\ PfsRoot \in Dirs
  BY EmptyFits DEF Dirs, PfsRoot
<1>3. cwd[t] \in Dirs
  BY DEF PathsInv
<1>4. r.ok => [pfs |-> TRUE, name |-> r.name] \in Dirs
  <2>1. r.ok => r.name \in Fit
    BY <1>3, ResolveGood DEF Good
  <2> QED
    BY <2>1 DEF Dirs
<1>5. \/ SetCwd(t, Root) \/ SetCwd(t, PfsRoot)
      \/ r.ok /\ SetCwd(t, [pfs |-> TRUE, name |-> r.name])
      \/ UNCHANGED <<cwd, walk>>
  BY DEF Chdir
<1> HIDE DEF r
<1>6. CASE UNCHANGED <<cwd, walk>>
  BY <1>1, <1>6 DEF PathsInv, TableOK, ParentsIn, IsWalk
<1> QED
  BY <1>1, <1>2, <1>4, <1>5, <1>6, SetCwdInv

LEMMA MakeInv ==
  ASSUME PathsInv, NEW t \in Tasks, NEW path \in Path, NEW k \in {"Dir", "File"}, Make(t, path, k)
  PROVE  PathsInv'
<1>1. cwd[t] \in Dirs /\ cwd \in [Tasks -> Dirs] /\ cwd' = cwd
  BY DEF PathsInv, Make
<1>2. TableOK(entry') /\ ParentsIn(entry')
  BY <1>1, MakeTable DEF Make
<1>3. walk' = WalksAfter /\ call' = OthersDisturbed(t)
  BY DEF Make, TreeChanged
<1> QED
  BY <1>1, <1>2, <1>3, WalksKept, CallsKept DEF PathsInv

LEMMA RenameInv ==
  ASSUME PathsInv, NEW t \in Tasks, NEW old \in Path, NEW new \in Path, Rename(t, old, new)
  PROVE  PathsInv'
<1>1. cwd \in [Tasks -> Dirs] /\ cwd' = cwd
  BY DEF PathsInv, Rename
<1>2. TableOK(entry') /\ ParentsIn(entry')
  BY RenameTable
<1>3. walk' = WalksAfter /\ call' = OthersDisturbed(t)
  BY DEF Rename, TreeChanged
<1> QED
  BY <1>1, <1>2, <1>3, WalksKept, CallsKept DEF PathsInv

LEMMA UnlinkInv ==
  ASSUME PathsInv, NEW t \in Tasks, NEW path \in Path, Unlink(t, path)
  PROVE  PathsInv'
<1>1. cwd \in [Tasks -> Dirs] /\ cwd' = cwd
  BY DEF PathsInv, Unlink
<1>2. TableOK(entry') /\ ParentsIn(entry')
  BY UnlinkTable
<1>3. walk' = WalksAfter /\ call' = OthersDisturbed(t)
  BY DEF Unlink, TreeChanged
<1> QED
  BY <1>1, <1>2, <1>3, WalksKept, CallsKept DEF PathsInv

\* Steps that touch one walk only.
LEMMA WalkInv ==
  ASSUME PathsInv, NEW t \in Tasks,
         ReadDirNext(t) \/ ReadDirDone(t) \/ \E path \in ListPaths : ReadDir(t, path)
  PROVE  PathsInv'
<1>1. UNCHANGED <<entry, cwd, call>>
  BY DEF ReadDirNext, ReadDirDone, ReadDir
<1>2. \E w : IsWalk(w) /\ walk' = [walk EXCEPT ![t] = w]
  <2>1. CASE ReadDirNext(t)
    <3> DEFINE w == walk[t]
               list == abi_list(entry, ListedDir(cwd[t], w.path))
               on == [w EXCEPT !.index = @ + 1, !.seen = IF w.clean THEN Append(@, Copied(list[w.index + 1])) ELSE @]
               end == [w EXCEPT !.pc = "end"]
    <3>1. walk' = [walk EXCEPT ![t] = IF w.index < Len(list) THEN on ELSE end]
      BY <2>1, Zenon DEF ReadDirNext
    <3>2. IsWalk(w) /\ w.pc = "next"
      BY <2>1 DEF ReadDirNext, PathsInv
    <3> HIDE DEF list, w
    <3>3. IsWalk(on)
      BY <3>2 DEF IsWalk, NoCall
    <3>4. IsWalk(end)
      BY <3>2 DEF IsWalk, NoCall
    <3> HIDE DEF on, end
    <3> QED
      BY <3>1, <3>3, <3>4
  <2>2. CASE ReadDirDone(t)
    BY <2>2 DEF ReadDirDone, IsWalk
  <2>3. ASSUME NEW path \in ListPaths, ReadDir(t, path)
        PROVE  \E w : IsWalk(w) /\ walk' = [walk EXCEPT ![t] = w]
    <3> DEFINE w == [pc |-> "next", path |-> path, index |-> 0, seen |-> <<>>,
                     clean |-> TRUE, where |-> ListedDir(cwd[t], path)]
    <3>1. IsWalk(w)
      BY DEF IsWalk
    <3>2. walk' = [walk EXCEPT ![t] = w]
      BY <2>3 DEF ReadDir
    <3> QED
      BY <3>1, <3>2
  <2> QED
    BY <2>1, <2>2, <2>3
<1>3. walk' = [u \in Tasks |-> walk'[u]] /\ \A u \in Tasks : IsWalk(walk'[u])
  BY <1>2, WalkSet
<1> QED
  BY <1>1, <1>3 DEF PathsInv, TableOK, ParentsIn

\* Steps that touch one create_dir_all only.
LEMMA CallInv ==
  ASSUME PathsInv, NEW t \in Tasks, NEW c \in {NoCall} \cup Mkdirs,
         call' = [call EXCEPT ![t] = c], UNCHANGED <<entry, cwd, walk>>
  PROVE  PathsInv'
<1>1. call' \in [Tasks -> {NoCall} \cup Mkdirs]
  BY DEF PathsInv
<1> QED
  BY <1>1 DEF PathsInv, TableOK, ParentsIn, IsWalk

LEMMA CreateDirAllInv ==
  ASSUME PathsInv, NEW t \in Tasks, NEW path \in Path, CreateDirAll(t, path)
  PROVE  PathsInv'
<1> DEFINE c == [pc |-> "stat", path |-> path, rest |-> path.comps, clean |-> TRUE,
                 current |-> [Empty EXCEPT !.pfs = path.pfs]]
<1>1. path.comps \in Seq(Comps) /\ path.pfs \in BOOLEAN
  BY DEF Path, Comps
<1>2. [Empty EXCEPT !.pfs = path.pfs] \in Path
  <2>1. <<>> \in Seq(Names \cup BadNames \cup {".", ".."})
    OBVIOUS
  <2>2. Empty \in Path
    BY <2>1 DEF Empty, Path
  <2> QED
    BY <1>1, <2>2 DEF Path
<1>3. c \in Mkdirs
  BY <1>1, <1>2 DEF Mkdirs
<1>4. call' = [call EXCEPT ![t] = c] /\ UNCHANGED <<entry, cwd, walk>>
  BY Zenon DEF CreateDirAll
<1> HIDE DEF c
<1> QED
  BY <1>3, <1>4, CallInv

LEMMA StatNextInv ==
  ASSUME PathsInv, NEW t \in Tasks, StatNext(t)
  PROVE  PathsInv'
<1> DEFINE c == call[t]
           name == Head(c.rest)
           next == [c EXCEPT !.rest = Tail(@), !.current.comps = Append(@, name)]
           d == CASE c.rest = <<>> -> [c EXCEPT !.pc = "ok"]
                  [] c.rest # <<>> /\ name = "." -> [c EXCEPT !.rest = Tail(@)]
                  [] c.rest # <<>> /\ name = ".." -> [c EXCEPT !.pc = "err"]
                  [] OTHER -> [next EXCEPT !.pc = AfterStat(stat_path(cwd[t], next.current))]
<1>1. call' = [call EXCEPT ![t] = d] /\ UNCHANGED <<entry, cwd, walk>>
  BY Zenon DEF StatNext
<1>2. c \in Mkdirs
  BY InMkdirsRecord DEF StatNext
<1> HIDE DEF c
<1>3. c.rest \in Seq(Comps) /\ c.current \in Path /\ c.current.comps \in Seq(Comps)
  BY <1>2 DEF Mkdirs, Path, Comps
<1>4. c.rest # <<>> => Tail(c.rest) \in Seq(Comps) /\ name \in Comps
  BY <1>3
<1>5. c.rest # <<>> => next \in Mkdirs
  <2> SUFFICES ASSUME c.rest # <<>> PROVE next \in Mkdirs
    OBVIOUS
  <2>1. Tail(c.rest) \in Seq(Comps) /\ Append(c.current.comps, name) \in Seq(Comps)
    BY <1>3, <1>4
  <2> DEFINE now == [c.current EXCEPT !.comps = Append(@, name)]
  <2>2. now \in Path
    BY <1>3, <2>1 DEF Path, Comps
  <2>3. next = [c EXCEPT !.rest = Tail(@), !.current = now]
    BY <1>2 DEF Mkdirs
  <2> HIDE DEF next, now
  <2> QED
    BY <2>1, <2>2, <2>3, <1>2 DEF Mkdirs
<1>6. \A k : AfterStat(k) \in {"stat", "mkdir", "err"}
  BY DEF AfterStat
<1>7. \A x \in Mkdirs : \A pc \in {"stat", "mkdir", "ok", "err"} : [x EXCEPT !.pc = pc] \in Mkdirs
  BY DEF Mkdirs
<1>8. c.rest # <<>> => [c EXCEPT !.rest = Tail(@)] \in Mkdirs
  BY <1>2, <1>4 DEF Mkdirs
<1>9. d \in Mkdirs
  <2> HIDE DEF next, name
  <2> QED
    BY <1>2, <1>5, <1>6, <1>7, <1>8
<1> HIDE DEF d
<1> QED
  BY <1>1, <1>9, CallInv DEF c

LEMMA MkdirNextInv ==
  ASSUME PathsInv, NEW t \in Tasks, MkdirNext(t)
  PROVE  PathsInv'
<1> DEFINE r == pfs_resolve_path(cwd[t], call[t].current)
<1>1. call[t] \in Mkdirs
  BY InMkdirsRecord DEF MkdirNext
<1>2. call[t].current \in Path
  BY <1>1 DEF Mkdirs
<1>3. cwd[t] \in Dirs /\ cwd \in [Tasks -> Dirs] /\ cwd' = cwd
  BY DEF PathsInv, MkdirNext
<1>4. \A x \in Mkdirs : \A pc \in {"stat", "mkdir", "ok", "err"} : [x EXCEPT !.pc = pc] \in Mkdirs
  BY DEF Mkdirs
<1>5. CASE CanAdd(r)
  <2>1. Add(r.name, "Dir") /\ walk' = WalksAfter /\ call' = [OthersDisturbed(t) EXCEPT ![t].pc = "stat"]
    BY <1>5 DEF MkdirNext
  <2>2. TableOK(entry') /\ ParentsIn(entry')
    BY <1>2, <1>3, <1>5, <2>1, MakeTable
  <2>3. OthersDisturbed(t)[t] = call[t]
    BY DEF OthersDisturbed
  <2>4. call' = [OthersDisturbed(t) EXCEPT ![t] = [call[t] EXCEPT !.pc = "stat"]]
    BY <2>1, <2>3
  <2>5. call' \in [Tasks -> {NoCall} \cup Mkdirs]
    BY <2>4, <1>1, <1>4, CallsKept
  <2> QED
    BY <1>3, <2>1, <2>2, <2>5, WalksKept DEF PathsInv
<1>6. CASE ~CanAdd(r)
  <2>1. call' = [call EXCEPT ![t] = [call[t] EXCEPT !.pc = "err"]] /\ UNCHANGED <<entry, cwd, walk>>
    BY <1>6 DEF MkdirNext
  <2> DEFINE d == [call[t] EXCEPT !.pc = "err"]
  <2>2. d \in Mkdirs
    BY <1>1, <1>4
  <2> HIDE DEF d
  <2> QED
    BY <2>1, <2>2, CallInv DEF d
<1> QED
  BY <1>5, <1>6

LEMMA NextInv ==
  ASSUME PathsInv, [Next]_vars
  PROVE  PathsInv'
<1>1. CASE UNCHANGED vars
  BY <1>1 DEF vars, PathsInv, TableOK, ParentsIn, IsWalk
<1>2. CASE Next
  <2>1. PICK t \in Tasks :
          \/ \E path \in UsedPaths(t) :
               \/ Chdir(t, path)
               \/ Make(t, path, "Dir") \/ Make(t, path, "File")
               \/ Unlink(t, path)
               \/ \E new \in UsedPaths(t) : Rename(t, path, new)
          \/ \E path \in DeepPaths : CreateDirAll(t, path)
          \/ \E path \in ListPaths : ReadDir(t, path)
          \/ ReadDirNext(t) \/ ReadDirDone(t)
          \/ StatNext(t) \/ MkdirNext(t) \/ Returned(t)
    BY <1>2, Zenon DEF Next
  <2>2. UsedPaths(t) \subseteq Path /\ DeepPaths \subseteq Path
    BY PathsAssumption
  <2>3. ASSUME NEW path \in UsedPaths(t), Chdir(t, path) PROVE PathsInv'
    BY <2>2, <2>3, ChdirInv
  <2>4. ASSUME NEW path \in UsedPaths(t), Make(t, path, "Dir") \/ Make(t, path, "File") PROVE PathsInv'
    BY <2>2, <2>4, MakeInv
  <2>5. ASSUME NEW path \in UsedPaths(t), Unlink(t, path) PROVE PathsInv'
    BY <2>2, <2>5, UnlinkInv
  <2>11. ASSUME NEW path \in UsedPaths(t), NEW new \in UsedPaths(t), Rename(t, path, new) PROVE PathsInv'
    BY <2>2, <2>11, RenameInv
  <2>6. ASSUME NEW path \in DeepPaths, CreateDirAll(t, path) PROVE PathsInv'
    BY <2>2, <2>6, CreateDirAllInv
  <2>7. CASE ReadDirNext(t) \/ ReadDirDone(t) \/ \E path \in ListPaths : ReadDir(t, path)
    BY <2>7, WalkInv
  <2>8. CASE StatNext(t)
    BY <2>8, StatNextInv
  <2>9. CASE MkdirNext(t)
    BY <2>9, MkdirNextInv
  <2>10. CASE Returned(t)
    BY <2>10, CallInv DEF Returned
  <2> QED
    BY <2>1, <2>3, <2>4, <2>5, <2>11, <2>6, <2>7, <2>8, <2>9, <2>10
<1> QED
  BY <1>1, <1>2

\* The invariant holds in every state of every instance.
THEOREM PathsInvariant == Spec => []PathsInv
  BY InitInv, NextInv, PTL DEF Spec

\* Names fit their fields, no two entries share one, and a cwd is a name the
\* resolver made, for every set of processes, names, paths and limits.
THEOREM TypeCorrect == Spec => []TypeOK
<1>1. ASSUME PathsInv PROVE TypeOK
  <2>1. /\ entry \in [Slots -> Entries] /\ cwd \in [Tasks -> Dirs]
        /\ \A i, j \in Slots : entry[i] # Free /\ entry[j] # Free /\ entry[i].name = entry[j].name => i = j
    BY <1>1 DEF PathsInv, TableOK
  <2>2. \A i \in Slots : entry[i] # Free => entry[i].kind \in {"Dir", "File"} /\ IsName(entry[i].name)
    BY <2>1, EntryKinds, GoodIsName
  <2>3. \A i, j \in Used(entry) : entry[i].name = entry[j].name => i = j
    BY <2>1, UsedIs
  <2>4. ASSUME NEW t \in Tasks, cwd[t] \notin {Root, PfsRoot} PROVE cwd[t].pfs /\ IsName(cwd[t].name)
    <3>1. cwd[t] \in [pfs : {TRUE}, name : Fit]
      BY <2>1, <2>4 DEF Dirs
    <3>2. cwd[t].pfs = TRUE /\ cwd[t].name \in Fit /\ cwd[t] = [pfs |-> cwd[t].pfs, name |-> cwd[t].name]
      BY <3>1
    <3>3. cwd[t].name # <<>>
      BY <3>2, <2>4 DEF PfsRoot
    <3> QED
      BY <3>2, <3>3, GoodIsName DEF Good
  <2>5. \A t \in Tasks : call[t].pc \in {"none", "stat", "mkdir", "ok", "err"}
    BY <1>1 DEF PathsInv, Mkdirs, NoCall
  <2>6. \A t \in Tasks : walk[t].pc \in {"none", "next", "end"}
    BY <1>1 DEF PathsInv, IsWalk, NoCall
  <2> QED
    BY <2>2, <2>3, <2>4, <2>5, <2>6 DEF TypeOK
<1> QED
  BY <1>1, PathsInvariant, PTL

\* The parent of every file is a directory, however the calls of any number of
\* processes interleave: what pfs_parent_exists and pfs_dir_empty found holds for
\* the table that the same call writes, and a rename never takes a directory away
\* from above a file.
THEOREM FilesHaveParents == Spec => []FileHasParent
<1>1. ASSUME PathsInv PROVE FileHasParent
  <2>1. TableOK(entry) /\ ParentsIn(entry) /\ entry \in [Slots -> Entries]
    BY <1>1 DEF PathsInv, TableOK
  <2>2. ASSUME NEW i \in Used(entry), entry[i].kind = "File", Len(entry[i].name) > 1
        PROVE  IsDir(ParentOf(entry[i].name))
    <3>1. i \in Slots
      BY <2>1, UsedIs
    <3>2. \E j \in Slots : entry[j] = [kind |-> "Dir", name |-> Front(entry[i].name)]
      BY <3>1, <2>1, <2>2 DEF ParentsIn
    <3> QED
      BY <3>2, <2>1, IsDirIs DEF ParentOf
  <2> QED
    BY <2>2 DEF FileHasParent
<1> QED
  BY <1>1, PathsInvariant, PTL

\* The text of every cwd the kernel can store resolves to that cwd again, from
\* whatever cwd: abi_chdir never stores a name that abi_cwd's reader cannot use.
THEOREM CwdText == Spec => []CwdLeadsBack
<1>1. ASSUME PathsInv PROVE CwdLeadsBack
  <2>1. ASSUME NEW t \in Tasks, cwd[t] \notin {Root, PfsRoot} PROVE cwd[t].name \in Good
    <3>1. cwd[t] \in [pfs : {TRUE}, name : Fit]
      BY <1>1, <2>1 DEF PathsInv, Dirs
    <3>2. cwd[t].name \in Fit /\ cwd[t] = [pfs |-> TRUE, name |-> cwd[t].name]
      BY <3>1
    <3>3. cwd[t].name # <<>>
      BY <3>2, <2>1 DEF PfsRoot
    <3> QED
      BY <3>2, <3>3 DEF Good
  <2> QED
    BY <2>1, NameLeadsBack DEF CwdLeadsBack
<1> QED
  BY <1>1, PathsInvariant, PTL
-----------------------------------------------------------------------------
(* What abi_list gives *)

Matches(e, dir, k) == e[k].kind # "Free" /\ pfs_list_match(dir, e[k].name)

IsListing(e, dir, u) ==
    u = [k \in 0 .. PFS_ENTRY_COUNT |->
          IF k = 0 THEN <<>>
          ELSE IF e[k].kind # "Free" /\ pfs_list_match(dir, e[k].name)
                 THEN Append(u[k - 1], Last(e[k].name)) ELSE u[k - 1]]

Listing(e, dir) == CHOOSE u : IsListing(e, dir, u)

LEMMA ListIsListing ==
  ASSUME NEW e, NEW where
  PROVE  abi_list(e, where) =
           IF where.boot THEN BootEntries ELSE Listing(e, where.name)[PFS_ENTRY_COUNT]
  BY DEF abi_list, Listing, IsListing

\* An entry that matches has a name, right below the directory.
LEMMA MatchFacts ==
  ASSUME NEW e, TableOK(e), NEW dir, NEW k \in Slots
  PROVE  /\ Matches(e, dir, k) => e[k] # Free /\ e[k].name \in Good /\ Front(e[k].name) = dir
                                  /\ Last(e[k].name) \in Names
         /\ e[k] # Free /\ Front(e[k].name) = dir => Matches(e, dir, k)
<1>1. e[k] \in Entries
  BY DEF TableOK
<1>2. e[k].kind # "Free" <=> e[k] # Free
  BY <1>1, EntryKinds
<1>3. ASSUME e[k] # Free
      PROVE  /\ e[k].name \in Good /\ e[k].name \in Seq(Names) /\ e[k].name # <<>>
  BY <1>1, <1>3, EntryKinds DEF Good, Fit
<1>4. ASSUME NEW n \in Seq(Names), n # <<>>
      PROVE  Last(n) \in Names /\ (Front(n) = dir => Len(n) = Len(dir) + 1)
  <2>1. Len(n) \in Nat \ {0} /\ Len(Front(n)) = Len(n) - 1
    BY <1>4, FrontFacts
  <2> QED
    BY <1>4, <2>1 DEF Last
<1> QED
  BY <1>2, <1>3, <1>4 DEF Matches, pfs_list_match, ParentOf

\* The list entry by entry.
LEMMA ListingSteps ==
  ASSUME NEW e, TableOK(e), NEW dir
  PROVE  /\ Listing(e, dir)[0] = <<>>
         /\ \A k \in Slots :
              Listing(e, dir)[k] =
                IF Matches(e, dir, k) THEN Append(Listing(e, dir)[k - 1], Last(e[k].name))
                                      ELSE Listing(e, dir)[k - 1]
         /\ \A k \in 0 .. PFS_ENTRY_COUNT : Listing(e, dir)[k] \in Seq(Names)
<1> DEFINE N == PFS_ENTRY_COUNT
           R == Seq(Names)
           s == [r \in R |-> [k \in 1 .. N |-> IF Matches(e, dir, k) THEN Append(r, Last(e[k].name)) ELSE r]]
<1>1. N \in Nat /\ Slots = 1 .. N
  BY PathsAssumption DEF Slots
<1>2. <<>> \in R
  OBVIOUS
<1>3. \A k \in 1 .. N : Matches(e, dir, k) => Last(e[k].name) \in Names
  BY <1>1, MatchFacts
<1>4. ASSUME NEW r \in R, NEW k \in 1 .. N
      PROVE  (IF Matches(e, dir, k) THEN Append(r, Last(e[k].name)) ELSE r) \in R
  BY <1>3
<1>5. s \in [R -> [1 .. N -> R]]
  <2> HIDE DEF R
  <2> QED
    BY <1>4
<1>6. \A r \in R : \A k \in 1 .. N : s[r][k] = IF Matches(e, dir, k) THEN Append(r, Last(e[k].name)) ELSE r
  <2> HIDE DEF R
  <2> QED
    OBVIOUS
<1> HIDE DEF s, R, N
<1>7. PICK f \in [0 .. N -> R] : Runs(f, <<>>, s, N)
  BY <1>1, <1>2, <1>5, RunsExist
<1> DEFINE V(u, k) == IF k = 0 THEN <<>>
                      ELSE IF e[k].kind # "Free" /\ pfs_list_match(dir, e[k].name)
                             THEN Append(u[k - 1], Last(e[k].name)) ELSE u[k - 1]
<1>8. IsListing(e, dir, f)
  <2>1. f = [k \in 0 .. N |-> f[k]]
    BY <1>7
  <2>2. ASSUME NEW k \in 0 .. N PROVE f[k] = V(f, k)
    <3>1. CASE k = 0
      BY <3>1, <1>7 DEF Runs
    <3>2. CASE k # 0
      <4>1. k \in 1 .. N /\ k - 1 \in 0 .. N
        BY <3>2, <1>1
      <4>2. f[k] = s[f[k - 1]][k] /\ f[k - 1] \in R
        BY <4>1, <1>7 DEF Runs
      <4>3. f[k] = IF Matches(e, dir, k) THEN Append(f[k - 1], Last(e[k].name)) ELSE f[k - 1]
        BY <4>1, <4>2, <1>6
      <4> QED
        BY <4>3, <3>2, Zenon DEF Matches
    <3> QED
      BY <3>1, <3>2
  <2>3. f = [k \in 0 .. N |-> V(f, k)]
    <3> HIDE DEF V
    <3> QED
      BY <2>1, <2>2, Zenon
  <2> QED
    BY <2>3, Zenon DEF IsListing, N
<1> DEFINE u == Listing(e, dir)
<1>9. IsListing(e, dir, u)
  BY <1>8, Zenon DEF Listing
<1> HIDE DEF u
<1>10. u = [k \in 0 .. N |-> V(u, k)]
  BY <1>9, Zenon DEF IsListing, N
<1>11. u[0] = <<>>
  <2>1. u[0] = V(u, 0)
    <3> HIDE DEF V
    <3> QED
      BY <1>10, <1>1
  <2> QED
    BY <2>1
<1>12. ASSUME NEW k \in Slots
       PROVE  u[k] = IF Matches(e, dir, k) THEN Append(u[k - 1], Last(e[k].name)) ELSE u[k - 1]
  <2>1. k \in 0 .. N /\ k # 0
    BY <1>1
  <2>2. u[k] = V(u, k)
    <3> HIDE DEF V
    <3> QED
      BY <2>1, <1>10
  <2> QED
    BY <2>1, <2>2, Zenon DEF Matches
<1>13. \A k \in 0 .. N : u[k] \in R
  <2> DEFINE S == {m \in Nat : m <= N => u[m] \in R}
  <2>1. 0 \in S
    BY <1>11, <1>2
  <2>2. ASSUME NEW m \in Nat, m \in S PROVE m + 1 \in S
    <3> SUFFICES ASSUME m + 1 <= N PROVE u[m + 1] \in R
      OBVIOUS
    <3>1. m + 1 \in Slots /\ m + 1 \in 1 .. N /\ (m + 1) - 1 = m /\ u[m] \in R
      BY <2>2, <1>1
    <3>2. u[m + 1] = IF Matches(e, dir, m + 1) THEN Append(u[m], Last(e[m + 1].name)) ELSE u[m]
      BY <3>1, <1>12
    <3> QED
      BY <3>1, <3>2, <1>4
  <2>3. \A m \in Nat : m \in S
    <3> HIDE DEF S
    <3> QED
      BY <2>1, <2>2, Induct
  <2> QED
    BY <2>3
<1> QED
  BY <1>11, <1>12, <1>13 DEF u, N, R

\* Two names below one directory with the same last component are the same.
LEMMA SameName ==
  ASSUME NEW n \in Seq(Names), NEW m \in Seq(Names), n # <<>>, m # <<>>,
         Front(n) = Front(m), Last(n) = Last(m)
  PROVE  n = m
<1>1. /\ Len(n) \in Nat \ {0} /\ Len(Front(n)) = Len(n) - 1
      /\ \A k \in 1 .. Len(n) - 1 : Front(n)[k] = n[k]
  BY FrontFacts
<1>2. /\ Len(m) \in Nat \ {0} /\ Len(Front(m)) = Len(m) - 1
      /\ \A k \in 1 .. Len(m) - 1 : Front(m)[k] = m[k]
  BY FrontFacts
<1>3. Len(n) = Len(m)
  BY <1>1, <1>2
<1>4. ASSUME NEW k \in 1 .. Len(n) PROVE n[k] = m[k]
  <2>1. CASE k = Len(n)
    BY <2>1, <1>3 DEF Last
  <2>2. CASE k # Len(n)
    <3>1. k \in 1 .. Len(n) - 1 /\ k \in 1 .. Len(m) - 1
      BY <2>2, <1>1, <1>3
    <3> QED
      BY <3>1, <1>1, <1>2
  <2> QED
    BY <2>1, <2>2
<1> QED
  BY <1>3, <1>4

LEMMA AppendSet ==
  ASSUME NEW R, NEW q \in Seq(R), NEW c \in R
  PROVE  /\ \A x : x \in ToSet(Append(q, c)) <=> x \in ToSet(q) \/ x = c
         /\ IsInjective(q) /\ c \notin ToSet(q) => IsInjective(Append(q, c))
<1> DEFINE a == Append(q, c)
           N == Len(q)
<1>1. N \in Nat /\ DOMAIN q = 1 .. N /\ DOMAIN a = 1 .. N + 1
  OBVIOUS
<1>2. a[N + 1] = c /\ \A i \in 1 .. N : a[i] = q[i]
  OBVIOUS
<1> HIDE DEF a, N
<1>3. \A x : x \in ToSet(a) <=> \E i \in 1 .. N + 1 : x = a[i]
  BY <1>1 DEF ToSet
<1>4. \A x : x \in ToSet(q) <=> \E i \in 1 .. N : x = q[i]
  BY <1>1 DEF ToSet
<1>5. \A i \in 1 .. N + 1 : i \in 1 .. N \/ i = N + 1
  BY <1>1
<1>6. \A i \in 1 .. N : i \in 1 .. N + 1
  BY <1>1
<1>7. N + 1 \in 1 .. N + 1
  BY <1>1
<1>8. \A x : x \in ToSet(a) <=> x \in ToSet(q) \/ x = c
  BY <1>2, <1>3, <1>4, <1>5, <1>6, <1>7
<1>9. ASSUME IsInjective(q), c \notin ToSet(q) PROVE IsInjective(a)
  <2>1. \A i, j \in 1 .. N : q[i] = q[j] => i = j
    BY <1>9, <1>1 DEF IsInjective
  <2>2. \A i \in 1 .. N : q[i] # c
    BY <1>9, <1>4
  <2> QED
    BY <2>1, <2>2, <1>1, <1>2, <1>5 DEF IsInjective
<1> QED
  BY <1>8, <1>9 DEF a

\* The list holds the last component of every entry that matches, once.
LEMMA ListingContents ==
  ASSUME NEW e, TableOK(e), NEW dir
  PROVE  LET l == Listing(e, dir)[PFS_ENTRY_COUNT]
         IN  /\ IsInjective(l)
             /\ \A x : x \in ToSet(l) <=> \E j \in Slots : Matches(e, dir, j) /\ x = Last(e[j].name)
<1> DEFINE N == PFS_ENTRY_COUNT
           u == Listing(e, dir)
           In(x, k) == \E j \in Slots : j <= k /\ Matches(e, dir, j) /\ x = Last(e[j].name)
           Right(k) == IsInjective(u[k]) /\ \A x : x \in ToSet(u[k]) <=> In(x, k)
           S == {k \in Nat : k <= N => Right(k)}
<1>1. N \in Nat /\ Slots = 1 .. N
  BY PathsAssumption DEF Slots
<1>2. /\ u[0] = <<>>
      /\ \A k \in Slots : u[k] = IF Matches(e, dir, k) THEN Append(u[k - 1], Last(e[k].name)) ELSE u[k - 1]
      /\ \A k \in 0 .. N : u[k] \in Seq(Names)
  BY ListingSteps
<1> HIDE DEF u, N
<1>3. Right(0)
  <2>1. DOMAIN <<>> = {}
    OBVIOUS
  <2>2. IsInjective(u[0]) /\ \A x : x \notin ToSet(u[0])
    BY <2>1, <1>2, Zenon DEF IsInjective, ToSet
  <2>3. \A j \in Slots : ~(j <= 0)
    BY <1>1
  <2> QED
    BY <2>2, <2>3
<1>4. ASSUME NEW k \in Nat, k \in S PROVE k + 1 \in S
  <2> SUFFICES ASSUME k + 1 <= N PROVE Right(k + 1)
    <3> HIDE DEF Right
    <3> QED
      OBVIOUS
  <2> DEFINE i == k + 1
  <2>1. i \in Slots /\ i - 1 = k /\ k \in 0 .. N /\ k <= N
    BY <1>1
  <2>2. Right(k)
    <3> HIDE DEF Right
    <3> QED
      BY <1>4, <2>1
  <2>3. u[k] \in Seq(Names) /\ u[i] = IF Matches(e, dir, i) THEN Append(u[k], Last(e[i].name)) ELSE u[k]
    BY <1>2, <2>1
  <2>4. \A j \in Slots : j <= i <=> j <= k \/ j = i
    BY <1>1, <2>1
  <2>5. ~(i <= k)
    BY <2>1
  <2> HIDE DEF i
  <2>6. \A x : In(x, i) <=> In(x, k) \/ (Matches(e, dir, i) /\ x = Last(e[i].name))
    BY <2>1, <2>4, Zenon
  <2>7. CASE Matches(e, dir, i)
    <3> DEFINE c == Last(e[i].name)
    <3>1. e[i] # Free /\ e[i].name \in Good /\ Front(e[i].name) = dir /\ c \in Names
      BY <2>1, <2>7, MatchFacts
    <3>2. ~In(c, k)
      <4> SUFFICES ASSUME NEW j \in Slots, j <= k, Matches(e, dir, j), c = Last(e[j].name) PROVE FALSE
        OBVIOUS
      <4>1. e[j] # Free /\ e[j].name \in Good /\ Front(e[j].name) = dir
        BY MatchFacts
      <4>2. e[i].name = e[j].name
        BY <3>1, <4>1, SameName DEF Good, Fit
      <4>3. i = j
        BY <2>1, <3>1, <4>1, <4>2 DEF TableOK
      <4> QED
        BY <4>3, <2>5
    <3>3. u[i] = Append(u[k], c)
      BY <2>3, <2>7
    <3> HIDE DEF c, In
    <3>4. c \notin ToSet(u[k])
      BY <2>2, <3>2
    <3> DEFINE q == u[k]
    <3>5. q \in Seq(Names) /\ IsInjective(q) /\ c \notin ToSet(q) /\ c \in Names /\ u[i] = Append(q, c)
      BY <2>2, <2>3, <3>1, <3>3, <3>4
    <3> HIDE DEF q
    <3>6. IsInjective(u[i])
      BY <3>5, AppendSet
    <3>7. \A x : x \in ToSet(u[i]) <=> x \in ToSet(q) \/ x = c
      <4>1. \A x : x \in ToSet(Append(q, c)) <=> x \in ToSet(q) \/ x = c
        BY <3>5, AppendSet, Zenon
      <4> QED
        BY <3>5, <4>1, Zenon
    <3>8. \A x : x \in ToSet(u[i]) <=> In(x, i)
      BY <2>2, <2>6, <2>7, <3>7, Zenon DEF c, q
    <3> QED
      BY <3>6, <3>8 DEF i
  <2>8. CASE ~Matches(e, dir, i)
    <3>1. u[i] = u[k]
      BY <2>3, <2>8
    <3> HIDE DEF In
    <3>2. \A x : x \in ToSet(u[i]) <=> In(x, i)
      BY <2>2, <2>6, <2>8, <3>1
    <3> QED
      BY <2>2, <3>1, <3>2 DEF i
  <2> QED
    BY <2>7, <2>8
<1>5. N \in S
  <2>1. 0 \in S
    <3> HIDE DEF Right
    <3> QED
      BY <1>3
  <2> HIDE DEF S
  <2> QED
    BY <1>1, <1>4, <2>1, Induct
<1>6. Right(N)
  <2> HIDE DEF Right
  <2> QED
    BY <1>5, <1>1
<1>7. \A j \in Slots : j <= N
  BY <1>1
<1> QED
  BY <1>6, <1>7 DEF u, N
Items == Names \cup ToSet(BootEntries)

\* A list of abi_list is a sequence without repetitions.
LEMMA ListTyped ==
  ASSUME NEW e, TableOK(e), NEW where
  PROVE  abi_list(e, where) \in Seq(Items) /\ IsInjective(abi_list(e, where))
<1>1. PFS_ENTRY_COUNT \in 0 .. PFS_ENTRY_COUNT
  BY PathsAssumption
<1>2. CASE where.boot
  <2>1. abi_list(e, where) = BootEntries
    BY <1>2, ListIsListing
  <2>2. BootEntries \in Seq(ToSet(BootEntries)) /\ IsInjective(BootEntries)
    BY PathsAssumption
  <2>3. \A x \in Seq(ToSet(BootEntries)) : x \in Seq(Items)
    BY DEF Items
  <2> QED
    BY <2>1, <2>2, <2>3
<1>3. CASE ~where.boot
  <2> DEFINE l == Listing(e, where.name)[PFS_ENTRY_COUNT]
  <2>1. abi_list(e, where) = l
    BY <1>3, ListIsListing
  <2>2. l \in Seq(Names)
    BY <1>1, ListingSteps
  <2>3. IsInjective(l)
    BY ListingContents
  <2>4. \A x \in Seq(Names) : x \in Seq(Items)
    BY DEF Items
  <2> QED
    BY <2>1, <2>2, <2>3, <2>4
<1> QED
  BY <1>2, <1>3

-----------------------------------------------------------------------------
(* Walks *)

\* The first i names of a list, as the buffer takes them.
Copies(l, i) == [k \in 1 .. i |-> Copied(l[k])]

LEMMA CopyNext ==
  ASSUME NEW l \in Seq(Items), NEW i \in Nat, i + 1 <= Len(l)
  PROVE  Append(Copies(l, i), Copied(l[i + 1])) = Copies(l, i + 1)
<1> DEFINE C == {Copied(x) : x \in Items}
           q == Copies(l, i)
           c == Copied(l[i + 1])
<1>1. Len(l) \in Nat /\ \A k \in 1 .. Len(l) : Copied(l[k]) \in C
  OBVIOUS
<1>2. q \in [1 .. i -> C] /\ c \in C
  BY <1>1 DEF Copies
<1>3. \A k \in 1 .. i : q[k] = Copied(l[k])
  BY DEF Copies
<1> HIDE DEF C, q
<1>4. q \in Seq(C) /\ Len(q) = i
  BY <1>2
<1>5. Append(q, c) = [k \in 1 .. i + 1 |-> IF k = i + 1 THEN c ELSE q[k]]
  BY <1>2, <1>4
<1>6. \A k \in 1 .. i + 1 : (IF k = i + 1 THEN c ELSE q[k]) = Copied(l[k])
  BY <1>3
<1> HIDE DEF c
<1>7. Append(q, c) = Copies(l, i + 1)
  BY <1>5, <1>6 DEF Copies
<1> QED
  BY <1>7 DEF q, c

Positions(q, c) == {k \in DOMAIN q : q[k] = c}
CutTo(S, c) == {n \in S : Copied(n) = c}

\* As many positions hold c as entries have a name that is cut to c.
LEMMA CopiesCount ==
  ASSUME NEW l \in Seq(Items), IsInjective(l), NEW c, NEW q, q = Copies(l, Len(l))
  PROVE  Cardinality(Positions(q, c)) = Cardinality(CutTo(ToSet(l), c))
<1> DEFINE K == {k \in 1 .. Len(l) : Copied(l[k]) = c}
           T == {n \in ToSet(l) : Copied(n) = c}
           f == [k \in K |-> l[k]]
<1>1. Len(l) \in Nat /\ DOMAIN l = 1 .. Len(l)
  OBVIOUS
<1>2. Positions(q, c) = K
  BY <1>1 DEF Copies, Positions
<1>3. ToSet(l) = {l[k] : k \in 1 .. Len(l)}
  BY <1>1 DEF ToSet
<1>4. IsFiniteSet(K)
  <2>1. IsFiniteSet(1 .. Len(l))
    BY <1>1, FS_Interval
  <2> QED
    BY <2>1, FS_Subset
<1>5. f \in [K -> T] /\ \A k \in K : f[k] = l[k]
  BY <1>3
<1>6. \A n \in T : \E k \in K : f[k] = n
  BY <1>3
<1>7. \A i, j \in K : f[i] = f[j] => i = j
  BY <1>1 DEF IsInjective
<1> HIDE DEF K, T, f
<1>8. f \in Injection(K, T) /\ f \in Surjection(K, T)
  BY <1>5, <1>6, <1>7 DEF Injection, Surjection, IsInjective
<1>9. ExistsBijection(K, T)
  BY <1>8 DEF ExistsBijection, Bijection
<1>10. Cardinality(T) = Cardinality(K)
  BY <1>4, <1>9, FS_Bijection
<1> QED
  BY <1>2, <1>10 DEF T, CutTo

\* An undisturbed walk has seen the first index entries of the list its path
\* means, and at the end all of them.
WalkRight(w, dir, e) ==
    w # NoCall /\ w.clean =>
      /\ w.where = ListedDir(dir, w.path)
      /\ w.index \in Nat
      /\ w.index <= Len(abi_list(e, w.where))
      /\ w.seen = Copies(abi_list(e, w.where), w.index)
      /\ w.pc = "end" => w.index = Len(abi_list(e, w.where))

WalksRight == \A t \in Tasks : WalkRight(walk[t], cwd[t], entry)

\* A disturbed walk promises nothing.
LEMMA DisturbedRight ==
  ASSUME NEW w, IsWalk(w), w # NoCall, NEW dir, NEW e
  PROVE  WalkRight(Disturbed(w), dir, e)
<1>1. Disturbed(w).clean = FALSE
  BY DEF IsWalk, Disturbed
<1> QED
  BY <1>1 DEF WalkRight

\* A change of the tree that leaves the listed directory the same.
LEMMA TreeWalks ==
  ASSUME PathsInv, WalksRight, walk' = WalksAfter, cwd' = cwd
  PROVE  WalksRight'
<1> SUFFICES ASSUME NEW t \in Tasks PROVE WalkRight(walk'[t], cwd'[t], entry')
  BY DEF WalksRight
<1>1. WalkRight(walk[t], cwd[t], entry) /\ IsWalk(walk[t])
  BY DEF WalksRight, PathsInv
<1> DEFINE same == abi_list(entry, walk[t].where) = abi_list(entry', walk[t].where)
<1>2. walk'[t] = IF walk[t] # NoCall /\ ~same THEN Disturbed(walk[t]) ELSE walk[t]
  BY DEF WalksAfter
<1> HIDE DEF same
<1>3. CASE walk[t] # NoCall /\ ~same
  BY <1>1, <1>2, <1>3, DisturbedRight
<1>4. CASE walk[t] = NoCall
  BY <1>2, <1>4 DEF WalkRight
<1>5. CASE walk[t] # NoCall /\ same
  <2>1. walk'[t] = walk[t] /\ cwd'[t] = cwd[t]
    BY <1>2, <1>5
  <2> QED
    BY <2>1, <1>1, <1>5 DEF WalkRight, same
<1> QED
  BY <1>3, <1>4, <1>5

\* The walk of one process changes, the cwd of no other.
LEMMA OneWalk ==
  ASSUME PathsInv, WalksRight, NEW t \in Tasks, NEW w, NEW d,
         walk' = [walk EXCEPT ![t] = w], cwd' = [cwd EXCEPT ![t] = d], entry' = entry,
         WalkRight(w, d, entry)
  PROVE  WalksRight'
<1> SUFFICES ASSUME NEW u \in Tasks PROVE WalkRight(walk'[u], cwd'[u], entry')
  BY DEF WalksRight
<1>1. walk = [x \in Tasks |-> walk[x]] /\ cwd \in [Tasks -> Dirs]
  BY DEF PathsInv
<1>2. CASE u = t
  <2>1. walk'[u] = w /\ cwd'[u] = d
    BY <1>1, <1>2
  <2> QED
    BY <2>1
<1>3. CASE u # t
  <2>1. walk'[u] = walk[u] /\ cwd'[u] = cwd[u]
    BY <1>1, <1>3
  <2> QED
    BY <2>1 DEF WalksRight
<1> QED
  BY <1>2, <1>3

LEMMA SameCwd ==
  ASSUME PathsInv, NEW t \in Tasks, cwd' = cwd
  PROVE  cwd' = [cwd EXCEPT ![t] = cwd[t]]
<1>1. cwd \in [Tasks -> Dirs]
  BY DEF PathsInv
<1> QED
  BY <1>1

LEMMA SetCwdWalks ==
  ASSUME PathsInv, WalksRight, NEW t \in Tasks, NEW d, SetCwd(t, d), entry' = entry
  PROVE  WalksRight'
<1>1. walk = [u \in Tasks |-> walk[u]] /\ cwd \in [Tasks -> Dirs]
  BY DEF PathsInv
<1>2. IsWalk(walk[t]) /\ WalkRight(walk[t], cwd[t], entry)
  BY DEF PathsInv, WalksRight
<1> DEFINE w == IF walk[t] # NoCall /\ d # cwd[t] THEN Disturbed(walk[t]) ELSE walk[t]
<1>3. cwd' = [cwd EXCEPT ![t] = d] /\ cwd'[t] = d
  BY <1>1 DEF SetCwd
<1>4. walk' = [walk EXCEPT ![t] = w]
  BY <1>1, <1>3 DEF SetCwd
<1>5. WalkRight(w, d, entry)
  <2>1. CASE walk[t] # NoCall /\ d # cwd[t]
    BY <2>1, <1>2, DisturbedRight
  <2>2. CASE walk[t] = NoCall
    BY <2>2 DEF WalkRight
  <2>3. CASE walk[t] # NoCall /\ d = cwd[t]
    BY <2>3, <1>2
  <2> QED
    BY <2>1, <2>2, <2>3
<1> HIDE DEF w
<1> QED
  BY <1>3, <1>4, <1>5, OneWalk

LEMMA ReadDirWalks ==
  ASSUME PathsInv, WalksRight, NEW t \in Tasks, NEW path, ReadDir(t, path)
  PROVE  WalksRight'
<1> DEFINE where == ListedDir(cwd[t], path)
           w == [pc |-> "next", path |-> path, index |-> 0, seen |-> <<>>, clean |-> TRUE, where |-> where]
<1>1. walk' = [walk EXCEPT ![t] = w] /\ entry' = entry /\ cwd' = cwd
  BY Zenon DEF ReadDir
<1> HIDE DEF where
<1>2. abi_list(entry, where) \in Seq(Items)
  BY ListTyped DEF PathsInv
<1>3. Len(abi_list(entry, where)) \in Nat /\ Copies(abi_list(entry, where), 0) = <<>>
  BY <1>2 DEF Copies
<1>4. /\ w.where = where /\ w.path = path /\ w.index = 0 /\ w.seen = <<>> /\ w.pc = "next"
  OBVIOUS
<1> HIDE DEF w
<1>5. WalkRight(w, cwd[t], entry)
  BY <1>3, <1>4 DEF WalkRight, where
<1> QED
  BY <1>1, <1>5, OneWalk, SameCwd

LEMMA ReadDirNextWalks ==
  ASSUME PathsInv, WalksRight, NEW t \in Tasks, ReadDirNext(t)
  PROVE  WalksRight'
<1> DEFINE w == walk[t]
           list == abi_list(entry, ListedDir(cwd[t], w.path))
           on == [w EXCEPT !.index = @ + 1, !.seen = IF w.clean THEN Append(@, Copied(list[w.index + 1])) ELSE @]
           end == [w EXCEPT !.pc = "end"]
           x == IF w.index < Len(list) THEN on ELSE end
<1>1. walk' = [walk EXCEPT ![t] = x] /\ entry' = entry /\ cwd' = cwd
  BY Zenon DEF ReadDirNext
<1>2. IsWalk(w) /\ w.pc = "next" /\ WalkRight(w, cwd[t], entry)
  BY DEF ReadDirNext, PathsInv, WalksRight
<1>3. list \in Seq(Items)
  BY ListTyped DEF PathsInv
<1> HIDE DEF w
<1>4. w # NoCall
  BY <1>2 DEF NoCall
<1>5. /\ w = [f \in DOMAIN w |-> w[f]] /\ w.clean \in BOOLEAN
      /\ DOMAIN w = {"pc", "path", "index", "seen", "clean", "where"}
  BY <1>2, <1>4 DEF IsWalk
<1>6. /\ w.clean => w.where = ListedDir(cwd[t], w.path)
      /\ w.clean => /\ w.index \in Nat /\ w.index <= Len(list) /\ w.seen = Copies(list, w.index)
  BY <1>2, <1>4 DEF WalkRight
<1>7. w.clean => abi_list(entry, w.where) = list
  BY <1>6
<1>8. /\ on.clean = w.clean /\ on.where = w.where /\ on.path = w.path /\ on.index = w.index + 1
      /\ on.pc = "next"
      /\ w.clean => on.seen = Append(w.seen, Copied(list[w.index + 1]))
  <2> HIDE DEF list
  <2> QED
    BY <1>2, <1>5
<1>9. /\ end.clean = w.clean /\ end.where = w.where /\ end.path = w.path /\ end.index = w.index
      /\ end.seen = w.seen
  BY <1>5
<1> HIDE DEF list, on, end
<1>10. CASE ~w.clean
  <2>1. x.clean = w.clean
    BY <1>8, <1>9
  <2> QED
    BY <2>1, <1>10, <1>1, OneWalk, SameCwd DEF WalkRight
<1>11. CASE w.clean /\ w.index < Len(list)
  <2>1. w.index \in Nat /\ w.index + 1 \in Nat /\ w.index + 1 <= Len(list) /\ Len(list) \in Nat
    BY <1>3, <1>6, <1>11
  <2>2. \A i \in Nat : i + 1 <= Len(list) => Append(Copies(list, i), Copied(list[i + 1])) = Copies(list, i + 1)
    BY <1>3, CopyNext
  <2>3. on.seen = Copies(list, on.index)
    BY <1>6, <1>8, <1>11, <2>1, <2>2
  <2>4. abi_list(entry, on.where) = list /\ on.where = ListedDir(cwd[t], on.path) /\ on.index \in Nat /\ on.index <= Len(list)
    BY <1>6, <1>7, <1>8, <1>11, <2>1
  <2>5. WalkRight(on, cwd[t], entry)
    BY <1>8, <2>3, <2>4 DEF WalkRight
  <2>6. x = on
    BY <1>11
  <2> HIDE DEF x
  <2> QED
    BY <1>1, <2>5, <2>6, OneWalk, SameCwd
<1>12. CASE w.clean /\ ~(w.index < Len(list))
  <2>1. w.index = Len(list)
    BY <1>3, <1>6, <1>12
  <2>2. abi_list(entry, end.where) = list /\ end.where = ListedDir(cwd[t], end.path)
    BY <1>6, <1>7, <1>9, <1>12
  <2>3. WalkRight(end, cwd[t], entry)
    BY <1>6, <1>9, <1>12, <2>1, <2>2 DEF WalkRight
  <2>4. x = end
    BY <1>12
  <2> HIDE DEF x
  <2> QED
    BY <1>1, <2>3, <2>4, OneWalk, SameCwd
<1> QED
  BY <1>5, <1>10, <1>11, <1>12

LEMMA NextWalks ==
  ASSUME PathsInv, WalksRight, [Next]_vars
  PROVE  WalksRight'
<1>1. CASE UNCHANGED <<entry, cwd, walk>>
  BY <1>1 DEF WalksRight, WalkRight
<1>2. CASE Next
  <2>1. PICK t \in Tasks :
          \/ \E path \in UsedPaths(t) :
               \/ Chdir(t, path)
               \/ Make(t, path, "Dir") \/ Make(t, path, "File")
               \/ Unlink(t, path)
               \/ \E new \in UsedPaths(t) : Rename(t, path, new)
          \/ \E path \in DeepPaths : CreateDirAll(t, path)
          \/ \E path \in ListPaths : ReadDir(t, path)
          \/ ReadDirNext(t) \/ ReadDirDone(t)
          \/ StatNext(t) \/ MkdirNext(t) \/ Returned(t)
    BY <1>2, Zenon DEF Next
  <2>2. ASSUME NEW path \in UsedPaths(t), Chdir(t, path) PROVE WalksRight'
    <3>1. entry' = entry
      BY <2>2 DEF Chdir
    <3>2. (\E d : SetCwd(t, d)) \/ UNCHANGED <<cwd, walk>>
      BY <2>2 DEF Chdir
    <3> QED
      BY <3>1, <3>2, <1>1, SetCwdWalks
  <2>3. ASSUME NEW path \in UsedPaths(t),
               \/ Make(t, path, "Dir") \/ Make(t, path, "File") \/ Unlink(t, path)
               \/ \E new \in UsedPaths(t) : Rename(t, path, new)
        PROVE  WalksRight'
    <3>1. walk' = WalksAfter /\ cwd' = cwd
      BY <2>3 DEF Make, Unlink, Rename, TreeChanged
    <3> QED
      BY <3>1, TreeWalks
  <2>4. ASSUME NEW path \in DeepPaths, CreateDirAll(t, path) PROVE WalksRight'
    BY <2>4, <1>1 DEF CreateDirAll
  <2>5. ASSUME NEW path \in ListPaths, ReadDir(t, path) PROVE WalksRight'
    BY <2>5, ReadDirWalks
  <2>6. CASE ReadDirNext(t)
    BY <2>6, ReadDirNextWalks
  <2>7. CASE ReadDirDone(t)
    <3>1. walk' = [walk EXCEPT ![t] = NoCall] /\ entry' = entry /\ cwd' = cwd
      BY <2>7 DEF ReadDirDone
    <3>2. WalkRight(NoCall, cwd[t], entry)
      BY DEF WalkRight
    <3> QED
      BY <3>1, <3>2, OneWalk, SameCwd
  <2>8. CASE StatNext(t) \/ Returned(t)
    BY <2>8, <1>1 DEF StatNext, Returned
  <2>9. CASE MkdirNext(t)
    <3>1. cwd' = cwd /\ (walk' = WalksAfter \/ UNCHANGED <<entry, walk>>)
      BY <2>9 DEF MkdirNext
    <3> QED
      BY <3>1, <1>1, TreeWalks
  <2> QED
    BY <2>1, <2>2, <2>3, <2>4, <2>5, <2>6, <2>7, <2>8, <2>9
<1> QED
  BY <1>1, <1>2 DEF vars

\* Undisturbed walks are where their index says, in every state.
THEOREM WalksAreRight == Spec => []WalksRight
<1>1. Init => WalksRight
  BY DEF Init, WalksRight, WalkRight
<1> QED
  BY <1>1, NextWalks, PathsInvariant, PTL DEF Spec

\* A walk whose directory stayed the same gives every entry of it once, by as much
\* of its name as the buffer takes, although the index counts matching slots of a
\* table in which other processes create, rename and remove entries between two
\* calls of next().
THEOREM WalksComplete == Spec => []WalkComplete
<1>1. ASSUME PathsInv, WalksRight PROVE WalkComplete
  <2> SUFFICES ASSUME NEW t \in Tasks, walk[t].pc = "end", walk[t].clean, NEW c
               PROVE  LET w == walk[t]
                          there == IF w.where.boot THEN ToSet(BootEntries)
                                   ELSE {Last(n) : n \in {m \in NamesIn(entry) : Front(m) = w.where.name}}
                      IN  Cardinality(Positions(w.seen, c)) = Cardinality(CutTo(there, c))
    BY Zenon DEF WalkComplete, Positions, CutTo
  <2> DEFINE w == walk[t]
             l == abi_list(entry, w.where)
             q == w.seen
  <2>1. w # NoCall
    BY DEF NoCall
  <2>2. WalkRight(w, cwd[t], entry)
    BY <1>1 DEF WalksRight
  <2>3. TableOK(entry)
    BY <1>1 DEF PathsInv
  <2>4. l \in Seq(Items) /\ IsInjective(l)
    BY <2>3, ListTyped
  <2>5. q = Copies(l, Len(l))
    BY <2>1, <2>2 DEF WalkRight
  <2>6. Cardinality(Positions(q, c)) = Cardinality(CutTo(ToSet(l), c))
    <3> HIDE DEF l, q
    <3> QED
      BY <2>4, <2>5, CopiesCount
  <2>7. CASE w.where.boot
    <3>1. l = BootEntries
      BY <2>7, ListIsListing
    <3> QED
      BY <2>6, <2>7, <3>1
  <2>8. CASE ~w.where.boot
    <3> DEFINE dir == w.where.name
               there == {Last(n) : n \in {m \in NamesIn(entry) : Front(m) = dir}}
    <3>1. l = Listing(entry, dir)[PFS_ENTRY_COUNT]
      BY <2>8, ListIsListing
    <3>2. \A x : x \in ToSet(l) <=> \E j \in Slots : Matches(entry, dir, j) /\ x = Last(entry[j].name)
      BY <3>1, <2>3, ListingContents
    <3>3. \A j \in Slots : Matches(entry, dir, j) <=> entry[j] # Free /\ Front(entry[j].name) = dir
      BY <2>3, MatchFacts
    <3>4. Used(entry) = {i \in Slots : entry[i] # Free}
      BY <2>3, UsedIs DEF TableOK
    <3> HIDE DEF l, dir
    <3>5. \A x : x \in there <=> \E n \in NamesIn(entry) : Front(n) = dir /\ x = Last(n)
      BY Zenon
    <3>6. \A n : n \in NamesIn(entry) <=> \E j \in Slots : entry[j] # Free /\ n = entry[j].name
      BY <3>4 DEF NamesIn
    <3>7. \A x : x \in there <=> \E j \in Slots : entry[j] # Free /\ Front(entry[j].name) = dir /\ x = Last(entry[j].name)
      <4> HIDE DEF there
      <4>1. ASSUME NEW x, NEW j \in Slots, entry[j] # Free, Front(entry[j].name) = dir, x = Last(entry[j].name)
            PROVE  x \in there
        <5>1. entry[j].name \in NamesIn(entry)
          BY <3>6, <4>1, Zenon
        <5> QED
          BY <3>5, <4>1, <5>1, Zenon
      <4>2. ASSUME NEW x \in there
            PROVE  \E j \in Slots : entry[j] # Free /\ Front(entry[j].name) = dir /\ x = Last(entry[j].name)
        <5>1. PICK n \in NamesIn(entry) : Front(n) = dir /\ x = Last(n)
          BY <3>5, Zenon
        <5>2. PICK j \in Slots : entry[j] # Free /\ n = entry[j].name
          BY <3>6, Zenon
        <5> QED
          BY <5>1, <5>2, Zenon
      <4> QED
        BY <4>1, <4>2, Zenon
    <3> HIDE DEF there
    <3>8. \A x : x \in ToSet(l) <=> x \in there
      BY <3>2, <3>3, <3>7, Zenon
    <3>9. ToSet(l) = there
      BY <3>8
    <3> QED
      BY <3>9, <2>6, <2>8 DEF there, dir
  <2> QED
    BY <2>7, <2>8
<1> QED
  BY <1>1, PathsInvariant, WalksAreRight, PTL
==============================================================================
