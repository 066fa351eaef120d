------------------------------ MODULE EnvProofs ------------------------------
(***************************************************************************)
(* What the override table means: whatever its size, the defaults and the  *)
(* tombstones in it, env_set and env_remove act as an update of a function *)
(* from keys to values, and keep one slot per key.                         *)
(***************************************************************************)
EXTENDS Env, FiniteSetTheorems, TLAPS

\* A set of numbers that is not empty has a least one: the scan for a free slot
\* stops somewhere.
LEMMA Least ==
  ASSUME NEW S, S \subseteq Nat, S # {}
  PROVE  \E m \in S : \A k \in S : m <= k
<1> DEFINE Less == {ss \in Nat \X Nat : ss[1] < ss[2]}
<1>1. IsWellFoundedOn(Less, Nat)
  BY NatLessThanWellFounded DEF OpToRel
<1> HIDE DEF Less
<1>2. PICK m \in S : \A k \in S : <<k, m>> \notin Less
  BY <1>1, WFMin
<1>3. \A k \in S : k \in Nat /\ m \in Nat /\ ~(k < m)
  BY <1>2 DEF Less
<1>4. QED
  BY <1>3

\* Induction, for the set of numbers a statement holds for.
LEMMA Induct ==
  ASSUME NEW S, 0 \in S, \A n \in Nat : n \in S => n + 1 \in S
  PROVE  \A n \in Nat : n \in S
<1> SUFFICES ASSUME NEW n \in Nat, n \notin S PROVE FALSE
  OBVIOUS
<1> DEFINE Rest == Nat \ S
<1>1. PICK m \in Rest : \A k \in Rest : m <= k
  <2>1. Rest \subseteq Nat /\ Rest # {}
    OBVIOUS
  <2> HIDE DEF Rest
  <2> QED
    BY <2>1, Least
<1>2. m \in Nat /\ m # 0 /\ m - 1 \in Nat /\ m - 1 \notin Rest /\ (m - 1) + 1 = m
  BY <1>1
<1> QED
  BY <1>1, <1>2

\* The same from 0 to a bound.
LEMMA InductUpto ==
  ASSUME NEW N \in Nat, NEW S, 0 \in S, \A k \in 1 .. N : k - 1 \in S => k \in S
  PROVE  \A k \in 0 .. N : k \in S
<1> DEFINE T == {k \in Nat : k <= N => k \in S}
<1>1. 0 \in T
  OBVIOUS
<1>2. ASSUME NEW k \in Nat, k \in T PROVE k + 1 \in T
  <2>1. k + 1 <= N => k + 1 \in 1 .. N /\ (k + 1) - 1 = k /\ k \in S
    BY <1>2
  <2> QED
    BY <2>1
<1> HIDE DEF T
<1>3. \A k \in Nat : k \in T
  BY <1>1, <1>2, Induct
<1> QED
  BY <1>3 DEF T

-----------------------------------------------------------------------------
(* Step-by-step computations: what a recursive function gives *)

\* f starts with x and goes from one number to the next by s.
Runs(f, x, s, N) ==
    /\ DOMAIN f = 0 .. N
    /\ f[0] = x
    /\ \A k \in 1 .. N : f[k] = s[f[k - 1]][k]

\* There is such a computation.
LEMMA RunsExist ==
  ASSUME NEW R, NEW N \in Nat, NEW x \in R, NEW s \in [R -> [1 .. N -> R]]
  PROVE  \E f \in [0 .. N -> R] : Runs(f, x, s, N)
<1> DEFINE Upto(f, m) == f[0] = x /\ \A k \in 1 .. m : f[k] = s[f[k - 1]][k]
           S == {m \in Nat : m <= N => \E f \in [0 .. m -> R] : Upto(f, m)}
<1>1. 0 \in S
  <2>1. [i \in 0 .. 0 |-> x] \in [0 .. 0 -> R]
    OBVIOUS
  <2>2. Upto([i \in 0 .. 0 |-> x], 0)
    OBVIOUS
  <2>3. \E f \in [0 .. 0 -> R] : Upto(f, 0)
    <3> HIDE DEF Upto
    <3> QED
      BY <2>1, <2>2, Zenon
  <2> HIDE DEF Upto
  <2> QED
    BY <2>3
<1>2. ASSUME NEW n \in Nat, n \in S PROVE n + 1 \in S
  <2> SUFFICES ASSUME n + 1 <= N PROVE \E f \in [0 .. n + 1 -> R] : Upto(f, n + 1)
    <3> HIDE DEF Upto
    <3> QED
      OBVIOUS
  <2>1. PICK f \in [0 .. n -> R] : Upto(f, n)
    <3>1. n <= N
      OBVIOUS
    <3> HIDE DEF Upto
    <3> QED
      BY <1>2, <3>1
  <2> DEFINE y == s[f[n]][n + 1]
             g == [k \in 0 .. n + 1 |-> IF k <= n THEN f[k] ELSE y]
  <2>2. y \in R
    <3>1. f[n] \in R /\ n + 1 \in 1 .. N
      OBVIOUS
    <3>2. s[f[n]] \in [1 .. N -> R]
      BY <3>1
    <3> QED
      BY <3>1, <3>2
  <2>3. g \in [0 .. n + 1 -> R]
    <3> HIDE DEF y
    <3> QED
      BY <2>2
  <2>4. g[0] = x
    BY <2>1
  <2>5. ASSUME NEW k \in 1 .. n + 1 PROVE g[k] = s[g[k - 1]][k]
    <3>1. k - 1 \in 0 .. n /\ g[k - 1] = f[k - 1]
      OBVIOUS
    <3>2. CASE k <= n
      <4>1. k \in 1 .. n /\ g[k] = f[k]
        BY <3>2
      <4> HIDE DEF g
      <4> QED
        BY <4>1, <3>1, <2>1
    <3>3. CASE k = n + 1
      <4>1. g[k] = y /\ k - 1 = n
        BY <3>3
      <4> HIDE DEF g
      <4> QED
        BY <4>1, <3>1, <3>3
    <3> QED
      BY <3>2, <3>3
  <2>6. Upto(g, n + 1)
    <3> HIDE DEF g
    <3> QED
      BY <2>4, <2>5
  <2> HIDE DEF g, Upto
  <2> QED
    BY <2>3, <2>6
<1>3. N \in S
  <2> HIDE DEF S
  <2> QED
    BY <1>1, <1>2, Induct
<1>4. PICK f \in [0 .. N -> R] : Upto(f, N)
  <2> HIDE DEF Upto
  <2> QED
    BY <1>3
<1> QED
  BY <1>4 DEF Runs

-----------------------------------------------------------------------------
(* The override table *)

\* The first free slot, if there is one.
LEMMA FirstFreeIsFree ==
  ASSUME NEW env, \E i \in EnvSlots : ~env[i].used
  PROVE  FirstFree(env) \in EnvSlots /\ ~env[FirstFree(env)].used
<1> DEFINE F == {i \in EnvSlots : ~env[i].used}
<1>1. F \subseteq Nat /\ F # {}
  BY EnvAssumption DEF EnvSlots
<1>2. PICK m \in F : \A k \in F : m <= k
  BY <1>1, Least
<1>3. m \in EnvSlots /\ ~env[m].used /\ \A j \in 1 .. m - 1 : env[j].used
  BY <1>2, EnvAssumption DEF EnvSlots
<1>4. QED
  BY <1>3 DEF FirstFree

\* Where keys are unique, the slot a scan finds is the slot of the key.
LEMMA HolderIsFirst ==
  ASSUME NEW env, KeysUnique(env), NEW key, NEW i \in EnvSlots, Holds(env, i, key)
  PROVE  FirstHolder(env, key) = i
<1>1. \A j \in EnvSlots : Holds(env, j, key) => j = i
  BY DEF KeysUnique, Holds
<1>2. \A j \in 1 .. i - 1 : ~Holds(env, j, key)
  BY <1>1, EnvAssumption DEF EnvSlots
<1>3. QED
  BY <1>1, <1>2 DEF FirstHolder

\* The slot env_set_overlay writes is one of the table, and nobody else's.
LEMMA SlotIsOwn ==
  ASSUME NEW env, KeysUnique(env), NEW key, CanSet(env, key)
  PROVE  /\ Slot(env, key) \in EnvSlots
         /\ \A j \in EnvSlots : Holds(env, j, key) => j = Slot(env, key)
         /\ env[Slot(env, key)].used => env[Slot(env, key)].key = key
<1>1. CASE env_overlay_has_key(env, key)
  <2>1. PICK i \in EnvSlots : Holds(env, i, key)
    BY <1>1 DEF env_overlay_has_key
  <2>2. Slot(env, key) = i
    BY <1>1, <2>1, HolderIsFirst DEF Slot
  <2>3. QED
    BY <2>1, <2>2 DEF Holds, KeysUnique
<1>2. CASE ~env_overlay_has_key(env, key)
  <2>1. \E i \in EnvSlots : ~env[i].used
    BY <1>2 DEF CanSet
  <2>2. Slot(env, key) = FirstFree(env)
    BY <1>2 DEF Slot
  <2>3. QED
    BY <1>2, <2>1, <2>2, FirstFreeIsFree DEF env_overlay_has_key
<1>3. QED
  BY <1>1, <1>2

\* The table after the call, slot by slot.
LEMMA AfterSet ==
  ASSUME NEW env \in EnvTables, NEW key, NEW value, Slot(env, key) \in EnvSlots
  PROVE  \A i \in EnvSlots : env_set_overlay(env, key, value)[i] =
           IF i = Slot(env, key) THEN Override(key, value) ELSE env[i]
  BY DEF env_set_overlay, EnvTables

\* env_set_overlay keeps the table well formed.
THEOREM SetKeepsType ==
  ASSUME NEW env \in EnvTables, NEW key \in Keys,
         NEW value \in Values \cup {Absent}, CanSet(env, key)
  PROVE  env_set_overlay(env, key, value) \in EnvTables
<1> DEFINE Entries == {Unset} \cup {Override(k, v) : k \in Keys \ BadKeys, v \in Values \cup {Absent}}
<1>1. Override(key, value) \in Entries
  BY DEF CanSet
<1>2. env \in [EnvSlots -> Entries]
  BY DEF EnvTables
<1>3. env_set_overlay(env, key, value) = [env EXCEPT ![Slot(env, key)] = Override(key, value)]
  BY DEF env_set_overlay
<1> HIDE DEF Entries
<1>4. [env EXCEPT ![Slot(env, key)] = Override(key, value)] \in [EnvSlots -> Entries]
  BY <1>1, <1>2
<1>5. QED
  BY <1>3, <1>4 DEF EnvTables, Entries

\* env_set_overlay never gives a key a second slot: the first part of
\* EnvConsistent, for tables of every size.
THEOREM SetKeepsUnique ==
  ASSUME NEW env \in EnvTables, KeysUnique(env), NEW key, NEW value, CanSet(env, key)
  PROVE  KeysUnique(env_set_overlay(env, key, value))
<1> DEFINE e == env_set_overlay(env, key, value)
<1>1. Slot(env, key) \in EnvSlots /\ \A j \in EnvSlots : Holds(env, j, key) => j = Slot(env, key)
  BY SlotIsOwn
<1>2. \A i \in EnvSlots : e[i] = IF i = Slot(env, key) THEN Override(key, value) ELSE env[i]
  BY <1>1, AfterSet
<1>3. Override(key, value).key = key
  BY DEF Override
<1> HIDE DEF e
<1>4. ASSUME NEW i \in EnvSlots, NEW j \in EnvSlots, e[i].used, e[j].used, e[i].key = e[j].key
      PROVE  i = j
  <2>1. CASE i = Slot(env, key) /\ j # Slot(env, key)
    BY <1>1, <1>2, <1>3, <1>4, <2>1 DEF Holds
  <2>2. CASE j = Slot(env, key) /\ i # Slot(env, key)
    BY <1>1, <1>2, <1>3, <1>4, <2>2 DEF Holds
  <2>3. CASE i # Slot(env, key) /\ j # Slot(env, key)
    BY <1>2, <1>4, <2>3 DEF KeysUnique
  <2>4. QED
    BY <2>1, <2>2, <2>3
<1>5. QED
  BY <1>4 DEF KeysUnique, e

\* env_set and env_remove update the environment as a function: a lookup of the
\* key gives the new value, or nothing after a removal even when there is a
\* default, and a lookup of any other key gives what it gave before.
THEOREM SetIsUpdate ==
  ASSUME NEW env \in EnvTables, KeysUnique(env), NEW key, NEW value, CanSet(env, key), NEW k
  PROVE  env_lookup(env_set_overlay(env, key, value), k) =
           IF k = key THEN value ELSE env_lookup(env, k)
<1> DEFINE e == env_set_overlay(env, key, value)
           s == Slot(env, key)
<1>1. /\ s \in EnvSlots
      /\ \A j \in EnvSlots : Holds(env, j, key) => j = s
      /\ env[s].used => env[s].key = key
  BY SlotIsOwn
<1>2. \A i \in EnvSlots : e[i] = IF i = s THEN Override(key, value) ELSE env[i]
  BY <1>1, AfterSet
<1>3. KeysUnique(e)
  BY SetKeepsUnique
<1>4. Override(key, value).used /\ Override(key, value).key = key /\ Override(key, value).value = value
  BY DEF Override
<1> HIDE DEF e, s
<1>5. CASE k = key
  <2>1. Holds(e, s, key)
    BY <1>1, <1>2, <1>4 DEF Holds
  <2>2. env_overlay_has_key(e, key) /\ FirstHolder(e, key) = s
    BY <1>1, <1>3, <2>1, HolderIsFirst DEF env_overlay_has_key
  <2>3. QED
    BY <1>1, <1>2, <1>4, <1>5, <2>2 DEF env_lookup, e
<1>6. CASE k # key
  <2>1. \A i \in EnvSlots : Holds(e, i, k) <=> Holds(env, i, k)
    BY <1>1, <1>2, <1>4, <1>6 DEF Holds
  <2>2. CASE env_overlay_has_key(env, k)
    <3>1. PICK i \in EnvSlots : Holds(env, i, k)
      BY <2>2 DEF env_overlay_has_key
    <3>2. Holds(e, i, k) /\ i # s
      BY <1>1, <1>6, <2>1, <3>1 DEF Holds
    <3>3. FirstHolder(env, k) = i /\ FirstHolder(e, k) = i
      BY <1>3, <3>1, <3>2, HolderIsFirst
    <3>4. env_overlay_has_key(e, k) /\ e[i] = env[i]
      BY <1>2, <3>2 DEF env_overlay_has_key
    <3>5. QED
      BY <1>6, <2>2, <3>3, <3>4 DEF env_lookup, e
  <2>3. CASE ~env_overlay_has_key(env, k)
    <3>1. ~env_overlay_has_key(e, k)
      BY <2>1, <2>3 DEF env_overlay_has_key
    <3>2. QED
      BY <1>6, <2>3, <3>1 DEF env_lookup, e
  <2>4. QED
    BY <2>2, <2>3
<1>7. QED
  BY <1>5, <1>6

-----------------------------------------------------------------------------
(* The listing *)

IsPickedUpto(table, indices, f) ==
    f = [k \in 0 .. Len(table) |-> IF k = 0 THEN <<>> ELSE IF k \in indices THEN Append(f[k - 1], table[k]) ELSE f[k - 1]]

PickedUpto(table, indices) == CHOOSE f : IsPickedUpto(table, indices, f)

LEMMA PickedUptoIs ==
  ASSUME NEW table, NEW indices
  PROVE  Picked(table, indices) = PickedUpto(table, indices)[Len(table)]
  BY DEF Picked, PickedUpto, IsPickedUpto

\* The entries picked, index by index.
LEMMA PickedUptoSteps ==
  ASSUME NEW E, NEW table \in Seq(E), NEW indices
  PROVE  /\ PickedUpto(table, indices)[0] = <<>>
         /\ \A k \in 1 .. Len(table) : PickedUpto(table, indices)[k] = IF k \in indices THEN Append(PickedUpto(table, indices)[k - 1], table[k]) ELSE PickedUpto(table, indices)[k - 1]
         /\ \A k \in 0 .. Len(table) : PickedUpto(table, indices)[k] \in Seq(E)
<1> DEFINE n == Len(table)
           x == <<>>
           s == [v \in Seq(E) |-> [k \in 1 .. n |-> IF k \in indices THEN Append(v, table[k]) ELSE v]]
<1>1. n \in Nat
  OBVIOUS
<1>2. x \in Seq(E)
  OBVIOUS
<1>3. s \in [Seq(E) -> [1 .. n -> Seq(E)]]
  BY <1>1
<1>4. \A v \in Seq(E) : \A k \in 1 .. n : s[v][k] = IF k \in indices THEN Append(v, table[k]) ELSE v
  OBVIOUS
<1> HIDE DEF s, x, n
<1>5. PICK f \in [0 .. n -> Seq(E)] : Runs(f, x, s, n)
  BY <1>1, <1>2, <1>3, RunsExist
<1>6. IsPickedUpto(table, indices, f)
  <2>1. f = [k \in 0 .. n |-> f[k]]
    BY <1>5
  <2>2. ASSUME NEW k \in 0 .. n
        PROVE  f[k] = IF k = 0 THEN x ELSE IF k \in indices THEN Append(f[k - 1], table[k]) ELSE f[k - 1]
    <3>1. CASE k = 0
      BY <3>1, <1>5 DEF Runs
    <3>2. CASE k # 0
      <4>1. k \in 1 .. n /\ k - 1 \in 0 .. n
        BY <3>2, <1>1
      <4>2. f[k] = s[f[k - 1]][k] /\ f[k - 1] \in Seq(E)
        BY <4>1, <1>5 DEF Runs
      <4> QED
        BY <4>1, <4>2, <3>2, <1>4
    <3> QED
      BY <3>1, <3>2
  <2>3. f = [k \in 0 .. n |-> IF k = 0 THEN x ELSE IF k \in indices THEN Append(f[k - 1], table[k]) ELSE f[k - 1]]
    BY <2>1, <2>2, Zenon
  <2> QED
    BY <2>3, Zenon DEF IsPickedUpto, n, x
<1> DEFINE u == PickedUpto(table, indices)
<1>7. IsPickedUpto(table, indices, u)
  BY <1>6, Zenon DEF PickedUpto
<1> HIDE DEF u
<1>8. u = [k \in 0 .. n |-> IF k = 0 THEN x ELSE IF k \in indices THEN Append(u[k - 1], table[k]) ELSE u[k - 1]]
  BY <1>7, Zenon DEF IsPickedUpto, n, x
<1>9. u[0] = x
  BY <1>8, <1>1
<1>10. ASSUME NEW k \in 1 .. n PROVE u[k] = IF k \in indices THEN Append(u[k - 1], table[k]) ELSE u[k - 1]
  <2>1. k \in 0 .. n /\ k # 0
    BY <1>1
  <2> QED
    BY <2>1, <1>8
<1>11. \A k \in 0 .. n : u[k] \in Seq(E)
  <2> DEFINE S == {k \in 0 .. n : u[k] \in Seq(E)}
  <2>1. 0 \in S
    BY <1>1, <1>2, <1>9
  <2>2. ASSUME NEW k \in 1 .. n, k - 1 \in S PROVE k \in S
    <3>1. u[k - 1] \in Seq(E) /\ k \in 0 .. n
      BY <1>1, <2>2
    <3>2. s[u[k - 1]][k] \in Seq(E)
      BY <1>3, <3>1
    <3> QED
      BY <1>4, <1>10, <3>1, <3>2
  <2> HIDE DEF S
  <2>3. \A k \in 0 .. n : k \in S
    BY <1>1, <2>1, <2>2, InductUpto
  <2> QED
    BY <2>3 DEF S
<1> QED
  BY <1>9, <1>10, <1>11 DEF u, x, n

\* at says where the entries picked from the first k indices come from.
Enumerates(at, list, table, indices, k) ==
    /\ Len(at) = Len(list)
    /\ \A j \in 1 .. Len(at) : at[j] \in indices /\ at[j] <= k /\ list[j] = table[at[j]]
    /\ \A i, j \in 1 .. Len(at) : at[i] = at[j] => i = j
    /\ \A i \in indices : i <= k => \E j \in 1 .. Len(at) : at[j] = i

\* One index more.
LEMMA EnumerateNext ==
  ASSUME NEW E, NEW table \in Seq(E), NEW indices \in SUBSET (1 .. Len(table)),
         NEW k \in 1 .. Len(table), NEW at \in Seq(Nat), NEW list \in Seq(E),
         Enumerates(at, list, table, indices, k - 1)
  PROVE  \E b \in Seq(Nat) : Enumerates(b, IF k \in indices THEN Append(list, table[k]) ELSE list,
                                        table, indices, k)
<1>1. CASE k \notin indices
  <2>1. Enumerates(at, list, table, indices, k)
    BY <1>1 DEF Enumerates
  <2> QED
    BY <1>1, <2>1
<1>2. CASE k \in indices
  <2> DEFINE b == Append(at, k)
             l == Append(list, table[k])
  <2>1. b \in Seq(Nat) /\ Len(b) = Len(at) + 1 /\ Len(l) = Len(list) + 1
    OBVIOUS
  <2>2. \A j \in 1 .. Len(b) : b[j] = IF j <= Len(at) THEN at[j] ELSE k
    OBVIOUS
  <2>3. \A j \in 1 .. Len(l) : l[j] = IF j <= Len(list) THEN list[j] ELSE table[k]
    OBVIOUS
  <2> HIDE DEF b, l
  <2>4. Len(b) = Len(l)
    BY <2>1 DEF Enumerates
  <2>5. \A j \in 1 .. Len(b) : b[j] \in indices /\ b[j] <= k /\ l[j] = table[b[j]]
    BY <1>2, <2>1, <2>2, <2>3 DEF Enumerates
  <2> DEFINE m == Len(at)
  <2>11. \A j \in 1 .. Len(at) : at[j] \in indices /\ at[j] <= k - 1
    BY DEF Enumerates
  <2>9. m \in Nat /\ Len(b) = m + 1 /\ \A j \in 1 .. m : at[j] \in Nat /\ at[j] < k
    <3>1. \A j \in 1 .. Len(at) : at[j] \in Nat /\ at[j] < k
      BY <2>11
    <3> QED
      BY <2>1, <3>1
  <2>10. \A i, j \in 1 .. m : at[i] = at[j] => i = j
    BY DEF Enumerates
  <2>6. \A i, j \in 1 .. Len(b) : b[i] = b[j] => i = j
    <3> HIDE DEF m
    <3>1. \A j \in 1 .. m + 1 : b[j] = IF j <= m THEN at[j] ELSE k
      BY <2>2, <2>9 DEF m
    <3> QED
      BY <2>9, <2>10, <3>1, SMTT(30)
  <2>7. ASSUME NEW i \in indices, i <= k PROVE \E j \in 1 .. Len(b) : b[j] = i
    <3>1. CASE i = k
      <4>1. m + 1 \in 1 .. Len(b)
        BY <2>9
      <4>2. b[m + 1] = k
        BY <2>2, <2>9, <4>1
      <4> QED
        BY <3>1, <4>1, <4>2
    <3>2. CASE i # k
      <4>1. i <= k - 1
        BY <2>7, <3>2
      <4>2. PICK j \in 1 .. Len(at) : at[j] = i
        BY <4>1 DEF Enumerates
      <4>3. j \in 1 .. Len(b) /\ b[j] = at[j]
        BY <2>2, <2>9, <4>2
      <4> QED
        BY <4>2, <4>3
    <3> QED
      BY <3>1, <3>2
  <2>8. Enumerates(b, l, table, indices, k)
    BY <2>4, <2>5, <2>6, <2>7 DEF Enumerates
  <2> QED
    BY <1>2, <2>1, <2>8 DEF l
<1> QED
  BY <1>1, <1>2

\* Every index is picked once.
LEMMA PickedFacts ==
  ASSUME NEW E, NEW table \in Seq(E), NEW indices \in SUBSET (1 .. Len(table))
  PROVE  /\ Picked(table, indices) \in Seq(E)
         /\ \E at \in Seq(Nat) : Enumerates(at, Picked(table, indices), table, indices, Len(table))
<1> DEFINE u == PickedUpto(table, indices)
           n == Len(table)
           S == {k \in 0 .. n : \E at \in Seq(Nat) : Enumerates(at, u[k], table, indices, k)}
<1>1. n \in Nat
  OBVIOUS
<1>2. /\ u[0] = <<>>
      /\ \A k \in 1 .. n : u[k] = IF k \in indices THEN Append(u[k - 1], table[k]) ELSE u[k - 1]
      /\ \A k \in 0 .. n : u[k] \in Seq(E)
  BY PickedUptoSteps
<1>3. Picked(table, indices) = u[n]
  BY PickedUptoIs
<1> HIDE DEF u
<1>4. 0 \in S
  <2>1. Enumerates(<<>>, <<>>, table, indices, 0)
    BY DEF Enumerates
  <2>2. <<>> \in Seq(Nat) /\ 0 \in 0 .. n
    OBVIOUS
  <2> HIDE DEF n
  <2> QED
    BY <1>2, <2>1, <2>2
<1>5. ASSUME NEW k \in 1 .. n, k - 1 \in S PROVE k \in S
  <2>1. PICK at \in Seq(Nat) : Enumerates(at, u[k - 1], table, indices, k - 1)
    BY <1>5
  <2>2. k - 1 \in 0 .. n /\ k \in 0 .. n
    OBVIOUS
  <2>3. u[k - 1] \in Seq(E)
    BY <1>2, <2>2
  <2>4. \E b \in Seq(Nat) : Enumerates(b, u[k], table, indices, k)
    BY <1>2, <2>1, <2>3, EnumerateNext, SMTT(30)
  <2> QED
    BY <2>2, <2>4
<1>6. \A k \in 0 .. n : k \in S
  <2> HIDE DEF S
  <2> QED
    BY <1>1, <1>4, <1>5, InductUpto
<1>7. n \in S /\ u[n] \in Seq(E)
  BY <1>1, <1>2, <1>6
<1> QED
  BY <1>3, <1>7

Slots == {Unset} \cup {Override(k, v) : k \in Keys \ BadKeys, v \in Values \cup {Absent}}
Defaults == [key : Keys \ BadKeys, value : Values]

LEMMA TableIsSeq ==
  ASSUME NEW env \in EnvTables
  PROVE  env \in Seq(Slots) /\ Len(env) = APP_ENV_COUNT /\ \A i \in EnvSlots : env[i] \in Slots
  BY EnvAssumption DEF EnvTables, EnvSlots, Slots

\* A used slot and its tombstone flag.
LEMMA SlotFacts ==
  ASSUME NEW x \in Slots
  PROVE  /\ x.used => x.key \in Keys \ BadKeys /\ x.value \in Values \cup {Absent}
         /\ x.used => (x.deleted <=> x.value = Absent)
<1>1. CASE x = Unset
  BY <1>1 DEF Unset
<1>2. CASE x # Unset
  <2>1. PICK k \in Keys \ BadKeys, v \in Values \cup {Absent} : x = Override(k, v)
    BY <1>2 DEF Slots
  <2> QED
    BY <2>1 DEF Override
<1> QED
  BY <1>1, <1>2

\* What a lookup finds, by where it finds it.
LEMMA LookupHeld ==
  ASSUME NEW env \in EnvTables, KeysUnique(env), NEW i \in EnvSlots, env[i].used
  PROVE  env_lookup(env, env[i].key) = env[i].value
<1>1. Holds(env, i, env[i].key)
  BY DEF Holds
<1>2. FirstHolder(env, env[i].key) = i
  BY <1>1, HolderIsFirst
<1> QED
  BY <1>1, <1>2 DEF env_lookup, env_overlay_has_key

LEMMA LookupDefault ==
  ASSUME NEW env, NEW d \in DOMAIN ENV, ~env_overlay_has_key(env, ENV[d].key)
  PROVE  env_lookup(env, ENV[d].key) = ENV[d].value
<1>1. \A e \in DOMAIN ENV : ENV[e].key = ENV[d].key => e = d
  BY EnvAssumption
<1>2. Default(ENV[d].key) = ENV[d].value
  BY <1>1 DEF Default
<1> QED
  BY <1>2 DEF env_lookup

\* Every value looked up is a value or Absent.
LEMMA LookupType ==
  ASSUME NEW env \in EnvTables, KeysUnique(env), NEW k
  PROVE  env_lookup(env, k) \in Values \cup {Absent}
<1>1. CASE env_overlay_has_key(env, k)
  <2>1. PICK i \in EnvSlots : Holds(env, i, k)
    BY <1>1 DEF env_overlay_has_key
  <2>2. env[i].used /\ env[i].key = k
    BY <2>1 DEF Holds
  <2> QED
    BY <2>2, LookupHeld, TableIsSeq, SlotFacts
<1>2. CASE ~env_overlay_has_key(env, k)
  <2>1. Default(k) \in Values \cup {Absent}
    <3>1. CASE \E d \in DOMAIN ENV : ENV[d].key = k
      <4>1. (CHOOSE d \in DOMAIN ENV : ENV[d].key = k) \in DOMAIN ENV
        BY <3>1
      <4>2. \A d \in DOMAIN ENV : ENV[d].value \in Values
        <5>1. ENV \in Seq(Defaults)
          BY EnvAssumption DEF Defaults
        <5>2. \A d \in DOMAIN ENV : ENV[d] \in Defaults
          BY <5>1
        <5> QED
          BY <5>2 DEF Defaults
      <4> QED
        BY <3>1, <4>1, <4>2 DEF Default
    <3>2. CASE ~ \E d \in DOMAIN ENV : ENV[d].key = k
      BY <3>2 DEF Default
    <3> QED
      BY <3>1, <3>2
  <2> QED
    BY <1>2, <2>1 DEF env_lookup
<1> QED
  BY <1>1, <1>2

\* A key with a value has it from a live override or from a default shown.
LEMMA LookupSource ==
  ASSUME NEW env \in EnvTables, KeysUnique(env), NEW k, env_lookup(env, k) # Absent
  PROVE  \/ \E i \in Live(env) : env[i].key = k
         \/ \E d \in Shown(env) : ENV[d].key = k
<1>1. CASE env_overlay_has_key(env, k)
  <2>1. PICK i \in EnvSlots : Holds(env, i, k)
    BY <1>1 DEF env_overlay_has_key
  <2>2. env[i].used /\ env[i].key = k
    BY <2>1 DEF Holds
  <2>3. env[i].value # Absent
    BY <2>2, LookupHeld
  <2>4. ~env[i].deleted
    BY <2>2, <2>3, TableIsSeq, SlotFacts
  <2> QED
    BY <2>2, <2>4 DEF Live
<1>2. CASE ~env_overlay_has_key(env, k)
  <2>1. PICK d \in DOMAIN ENV : ENV[d].key = k
    BY <1>2 DEF env_lookup, Default
  <2> QED
    BY <1>2, <2>1 DEF Shown
<1> QED
  BY <1>1, <1>2

\* The first part of the listing: the live overrides, each once.
LEMMA LiveListed ==
  ASSUME NEW env \in EnvTables, KeysUnique(env)
  PROVE  \E at \in Seq(Nat) :
           LET l == Picked(env, Live(env)) IN
           /\ l \in Seq(Slots) /\ Len(at) = Len(l)
           /\ \A j \in 1 .. Len(l) : /\ at[j] \in Live(env) /\ l[j] = env[at[j]]
                                    /\ l[j].key \in Keys /\ env_lookup(env, l[j].key) = l[j].value
                                    /\ l[j].value # Absent /\ env_overlay_has_key(env, l[j].key)
           /\ \A i, j \in 1 .. Len(l) : l[i].key = l[j].key => i = j
           /\ \A i \in Live(env) : \E j \in 1 .. Len(l) : l[j].key = env[i].key
<1> DEFINE l == Picked(env, Live(env))
<1>1. env \in Seq(Slots) /\ Len(env) = APP_ENV_COUNT /\ EnvSlots = 1 .. Len(env)
  BY TableIsSeq DEF EnvSlots
<1>2. Live(env) \in SUBSET (1 .. Len(env))
  BY <1>1 DEF Live
<1>3. l \in Seq(Slots) /\ \E at \in Seq(Nat) : Enumerates(at, l, env, Live(env), Len(env))
  BY <1>1, <1>2, PickedFacts
<1> HIDE DEF l
<1>4. PICK at \in Seq(Nat) : Enumerates(at, l, env, Live(env), Len(env))
  BY <1>3
<1>5. Len(at) = Len(l) /\ Len(l) \in Nat
  BY <1>3, <1>4 DEF Enumerates
<1>6. ASSUME NEW j \in 1 .. Len(l)
      PROVE  /\ at[j] \in Live(env) /\ l[j] = env[at[j]]
             /\ l[j].key \in Keys /\ env_lookup(env, l[j].key) = l[j].value
             /\ l[j].value # Absent /\ env_overlay_has_key(env, l[j].key)
  <2>1. at[j] \in Live(env) /\ l[j] = env[at[j]]
    BY <1>4, <1>5 DEF Enumerates
  <2>2. at[j] \in EnvSlots /\ l[j].used /\ ~l[j].deleted
    BY <2>1 DEF Live
  <2>3. l[j] \in Slots
    BY <2>1, <2>2, TableIsSeq
  <2>4. l[j].key \in Keys /\ l[j].value # Absent
    BY <2>2, <2>3, SlotFacts
  <2>5. env_lookup(env, l[j].key) = l[j].value
    BY <2>1, <2>2, LookupHeld
  <2>6. env_overlay_has_key(env, l[j].key)
    BY <2>1, <2>2 DEF env_overlay_has_key, Holds
  <2> QED
    BY <2>1, <2>4, <2>5, <2>6
<1>7. ASSUME NEW i \in 1 .. Len(l), NEW j \in 1 .. Len(l), l[i].key = l[j].key PROVE i = j
  <2>1. at[i] \in Live(env) /\ l[i] = env[at[i]] /\ at[j] \in Live(env) /\ l[j] = env[at[j]]
    BY <1>6
  <2>2. at[i] = at[j]
    BY <1>7, <2>1 DEF Live, KeysUnique
  <2> QED
    BY <1>4, <1>5, <2>2 DEF Enumerates
<1>8. ASSUME NEW i \in Live(env) PROVE \E j \in 1 .. Len(l) : l[j].key = env[i].key
  <2>1. i \in 1 .. Len(env)
    BY <1>2
  <2>2. i <= Len(env)
    BY <1>1, <2>1
  <2>3. PICK j \in 1 .. Len(at) : at[j] = i
    BY <1>4, <2>2 DEF Enumerates
  <2> QED
    BY <1>5, <1>6, <2>3
<1> QED
  BY <1>3, <1>5, <1>6, <1>7, <1>8 DEF l

\* The second part: the defaults no override names, each once.
LEMMA ShownListed ==
  ASSUME NEW env
  PROVE  LET l == Picked(ENV, Shown(env)) IN
         /\ l \in Seq(Defaults)
         /\ \A j \in 1 .. Len(l) : /\ l[j].key \in Keys /\ env_lookup(env, l[j].key) = l[j].value
                                  /\ l[j].value # Absent /\ ~env_overlay_has_key(env, l[j].key)
         /\ \A i, j \in 1 .. Len(l) : l[i].key = l[j].key => i = j
         /\ \A d \in Shown(env) : \E j \in 1 .. Len(l) : l[j].key = ENV[d].key
<1> DEFINE l == Picked(ENV, Shown(env))
<1>1. ENV \in Seq(Defaults) /\ DOMAIN ENV = 1 .. Len(ENV)
  BY EnvAssumption DEF Defaults
<1>2. Shown(env) \in SUBSET (1 .. Len(ENV))
  BY <1>1 DEF Shown
<1>3. l \in Seq(Defaults) /\ \E at \in Seq(Nat) : Enumerates(at, l, ENV, Shown(env), Len(ENV))
  BY <1>1, <1>2, PickedFacts
<1> HIDE DEF l
<1>4. PICK at \in Seq(Nat) : Enumerates(at, l, ENV, Shown(env), Len(ENV))
  BY <1>3
<1>5. Len(at) = Len(l) /\ Len(l) \in Nat
  BY <1>3, <1>4 DEF Enumerates
<1>6. ASSUME NEW j \in 1 .. Len(l)
      PROVE  /\ at[j] \in DOMAIN ENV /\ l[j] = ENV[at[j]]
             /\ l[j].key \in Keys /\ env_lookup(env, l[j].key) = l[j].value
             /\ l[j].value # Absent /\ ~env_overlay_has_key(env, l[j].key)
  <2>1. at[j] \in Shown(env) /\ l[j] = ENV[at[j]]
    BY <1>4, <1>5 DEF Enumerates
  <2>2. at[j] \in DOMAIN ENV /\ ~env_overlay_has_key(env, l[j].key)
    BY <2>1 DEF Shown
  <2>3. l[j] \in Defaults
    BY <1>1, <2>1, <2>2
  <2>4. l[j].key \in Keys /\ l[j].value # Absent
    BY <2>3, EnvAssumption DEF Defaults
  <2> QED
    BY <2>1, <2>2, <2>4, LookupDefault
<1>7. ASSUME NEW i \in 1 .. Len(l), NEW j \in 1 .. Len(l), l[i].key = l[j].key PROVE i = j
  <2>1. at[i] \in DOMAIN ENV /\ l[i] = ENV[at[i]] /\ at[j] \in DOMAIN ENV /\ l[j] = ENV[at[j]]
    BY <1>6
  <2>2. at[i] = at[j]
    BY <1>7, <2>1, EnvAssumption
  <2> QED
    BY <1>4, <1>5, <2>2 DEF Enumerates
<1>8. ASSUME NEW i \in Shown(env) PROVE \E j \in 1 .. Len(l) : l[j].key = ENV[i].key
  <2>1. i \in 1 .. Len(ENV)
    BY <1>2
  <2>2. i <= Len(ENV)
    BY <1>1, <2>1
  <2>3. PICK j \in 1 .. Len(at) : at[j] = i
    BY <1>4, <2>2 DEF Enumerates
  <2> QED
    BY <1>5, <1>6, <2>3
<1> QED
  BY <1>3, <1>6, <1>7, <1>8 DEF l

\* The listing names every variable a lookup finds, once and with its value:
\* the second part of EnvConsistent, for every table with unique keys.
THEOREM ListingAgrees ==
  ASSUME NEW env \in EnvTables, KeysUnique(env)
  PROVE  ListsWhatIsSet(env)
<1> DEFINE A == Picked(env, Live(env))
           B == Picked(ENV, Shown(env))
           list == A \o B
           a == Len(A)
           n == a + Len(B)
           vars == {k \in Keys : env_lookup(env, k) # Absent}
           Right(e) == e.key \in vars /\ env_lookup(env, e.key) = e.value
<1>1. PICK at \in Seq(Nat) :
        /\ A \in Seq(Slots) /\ Len(at) = Len(A)
        /\ \A j \in 1 .. Len(A) : /\ at[j] \in Live(env) /\ A[j] = env[at[j]]
                                 /\ A[j].key \in Keys /\ env_lookup(env, A[j].key) = A[j].value
                                 /\ A[j].value # Absent /\ env_overlay_has_key(env, A[j].key)
        /\ \A i, j \in 1 .. Len(A) : A[i].key = A[j].key => i = j
        /\ \A i \in Live(env) : \E j \in 1 .. Len(A) : A[j].key = env[i].key
  BY LiveListed, Zenon
<1>2. /\ B \in Seq(Defaults)
      /\ \A j \in 1 .. Len(B) : /\ B[j].key \in Keys /\ env_lookup(env, B[j].key) = B[j].value
                               /\ B[j].value # Absent /\ ~env_overlay_has_key(env, B[j].key)
      /\ \A i, j \in 1 .. Len(B) : B[i].key = B[j].key => i = j
      /\ \A d \in Shown(env) : \E j \in 1 .. Len(B) : B[j].key = ENV[d].key
  BY ShownListed, Zenon
<1>3. env_list(env) = list
  BY DEF env_list
<1> HIDE DEF A, B
<1>4. A \in Seq(Slots \cup Defaults) /\ B \in Seq(Slots \cup Defaults)
  BY <1>1, <1>2
<1>5. /\ a \in Nat /\ n \in Nat /\ Len(list) = n /\ DOMAIN list = 1 .. n
      /\ \A j \in 1 .. n : list[j] = IF j <= a THEN A[j] ELSE B[j - a]
      /\ \A j \in 1 .. n : j > a => j - a \in 1 .. Len(B)
      /\ \A j \in 1 .. Len(B) : a + j \in 1 .. n /\ a + j > a /\ (a + j) - a = j
  BY <1>4
<1> HIDE DEF list, a, n
<1>6. \A j \in 1 .. n : j <= a => j \in 1 .. Len(A)
  BY <1>5 DEF a
<1>7. ASSUME NEW j \in 1 .. n
      PROVE  /\ list[j].key \in vars /\ env_lookup(env, list[j].key) = list[j].value
             /\ env_overlay_has_key(env, list[j].key) <=> j <= a
  <2>1. CASE j <= a
    BY <1>1, <1>5, <1>6, <2>1
  <2>2. CASE ~(j <= a)
    <3>1. j - a \in 1 .. Len(B) /\ list[j] = B[j - a]
      BY <1>5, <2>2
    <3> QED
      BY <1>2, <2>2, <3>1
  <2> QED
    BY <2>1, <2>2
<1>8. ASSUME NEW i \in 1 .. n, NEW j \in 1 .. n, list[i].key = list[j].key PROVE i = j
  <2>1. i <= a <=> j <= a
    BY <1>7, <1>8
  <2>2. CASE i <= a
    BY <1>1, <1>5, <1>6, <1>8, <2>1, <2>2
  <2>3. CASE ~(i <= a)
    <3>1. i - a \in 1 .. Len(B) /\ list[i] = B[i - a] /\ j - a \in 1 .. Len(B) /\ list[j] = B[j - a]
      BY <1>5, <2>1, <2>3
    <3>2. i - a = j - a
      BY <1>2, <1>8, <3>1
    <3> QED
      BY <1>5, <3>2
  <2> QED
    BY <2>2, <2>3
<1>9. ASSUME NEW k \in vars PROVE \E j \in 1 .. n : list[j].key = k
  <2>1. CASE \E i \in Live(env) : env[i].key = k
    <3>1. PICK j \in 1 .. Len(A) : A[j].key = k
      BY <1>1, <2>1
    <3>2. j \in 1 .. n /\ j <= a
      BY <1>5, <3>1 DEF a, n
    <3> QED
      BY <1>5, <3>1, <3>2
  <2>2. CASE \E d \in Shown(env) : ENV[d].key = k
    <3>1. PICK j \in 1 .. Len(B) : B[j].key = k
      BY <1>2, <2>2
    <3>2. a + j \in 1 .. n /\ list[a + j] = B[j]
      <4>1. a + j \in 1 .. n /\ a + j > a /\ (a + j) - a = j
        BY <1>5
      <4>2. ~(a + j <= a)
        BY <1>5, <4>1
      <4> QED
        BY <1>5, <4>1, <4>2
    <3> QED
      BY <3>1, <3>2
  <2> QED
    BY <2>1, <2>2, LookupSource
<1>10. Len(list) = Cardinality(vars)
  <2> DEFINE f == [j \in 1 .. n |-> list[j].key]
  <2>1. f \in [1 .. n -> vars]
    BY <1>7
  <2>2. \A i, j \in 1 .. n : f[i] = f[j] => i = j
    BY <1>8
  <2>3. \A k \in vars : \E j \in 1 .. n : f[j] = k
    BY <1>9
  <2> HIDE DEF f, vars
  <2>4. f \in Bijection(1 .. n, vars)
    BY <2>1, <2>2, <2>3 DEF Bijection, Injection, Surjection, IsInjective
  <2>5. Cardinality(vars) = n
    BY <1>5, <2>4, FS_CountingElements DEF ExistsBijection
  <2> QED
    BY <1>5, <2>5
<1>11. {<<list[i].key, list[i].value>> : i \in DOMAIN list} = {<<k, env_lookup(env, k)>> : k \in vars}
  <2> HIDE DEF vars
  <2>1. ASSUME NEW i \in DOMAIN list
        PROVE  <<list[i].key, list[i].value>> \in {<<k, env_lookup(env, k)>> : k \in vars}
    BY <1>5, <1>7
  <2>2. ASSUME NEW k \in vars
        PROVE  <<k, env_lookup(env, k)>> \in {<<list[i].key, list[i].value>> : i \in DOMAIN list}
    <3>1. PICK j \in 1 .. n : list[j].key = k
      BY <1>9
    <3> QED
      BY <1>5, <1>7, <3>1
  <2> QED
    BY <2>1, <2>2
<1> QED
  BY <1>3, <1>10, <1>11 DEF ListsWhatIsSet

\* A key that has a slot keeps it.
LEMMA SetKeepsHolders ==
  ASSUME NEW env \in EnvTables, KeysUnique(env), NEW key, NEW value, CanSet(env, key),
         NEW k, env_overlay_has_key(env, k) \/ k = key
  PROVE  env_overlay_has_key(env_set_overlay(env, key, value), k)
<1> DEFINE e == env_set_overlay(env, key, value)
           s == Slot(env, key)
<1>1. /\ s \in EnvSlots
      /\ env[s].used => env[s].key = key
  BY SlotIsOwn
<1>2. \A i \in EnvSlots : e[i] = IF i = s THEN Override(key, value) ELSE env[i]
  BY <1>1, AfterSet
<1>3. Override(key, value).used /\ Override(key, value).key = key
  BY DEF Override
<1> HIDE DEF e, s
<1>4. CASE k = key
  BY <1>1, <1>2, <1>3, <1>4 DEF env_overlay_has_key, Holds, e
<1>5. CASE k # key
  <2>1. PICK i \in EnvSlots : Holds(env, i, k)
    BY <1>5 DEF env_overlay_has_key
  <2>2. i # s
    BY <1>1, <1>5, <2>1 DEF Holds
  <2>3. Holds(e, i, k)
    BY <1>2, <2>1, <2>2 DEF Holds
  <2> QED
    BY <2>3 DEF env_overlay_has_key, e
<1> QED
  BY <1>4, <1>5
==============================================================================
