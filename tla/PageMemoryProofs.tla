-------------------------- MODULE PageMemoryProofs --------------------------
(***************************************************************************)
(* Pages and windows for every number of tasks, pages, window lengths and  *)
(* free-stack sizes.                                                       *)
(*                                                                         *)
(* The first part is about the windows of one task and holds however ticks *)
(* fall: another task takes entries out of a task's windows at worst (by   *)
(* linking a directory of its own), so the invariant mentions no other     *)
(* task, no directory and nothing of the allocator.                        *)
(***************************************************************************)
EXTENDS PageMemory, FiniteSetTheorems, TLAPS

UnmapLabels == {"unmap", "load", "store", "count"}
MapLabels   == {"alloc", "walk", "link", "map"}

\* The locals of a call, as far as the windows need them: the page and the count
\* in hand are the allocator's business.
CallType(o) ==
  /\ o = [m |-> o.m, i |-> o.i, page |-> o.page, dir |-> o.dir, cnt |-> o.cnt, then |-> o.then]
  /\ o.m \in [w : Windows, base : 0 .. WindowPages, n : 0 .. WindowPages, guard : 0 .. 1]
  /\ o.m.base + o.m.n <= WindowPages
  /\ o.i \in 0 .. WindowPages
  /\ o.then \in {"user", "failed", "reclaim"}

Shape ==
  /\ pc \in [Tasks -> Labels]
  /\ DOMAIN space = Tasks
  /\ DOMAIN entry = Tasks
  /\ \A t \in Tasks : DOMAIN entry[t] = Windows /\ \A w \in Windows : DOMAIN entry[t][w] = Virts
  /\ DOMAIN table = Tasks
  /\ \A t \in Tasks : DOMAIN table[t] = Windows
  /\ next \in [Tasks -> [Windows -> 0 .. WindowPages]]
  /\ mappings \in [Tasks -> SUBSET Mapping]
  /\ DOMAIN op = Tasks
  /\ \A t \in Tasks : CallType(op[t])

\* t has windows that may still grow: it has not exited.
Live(t) == pc[t] \in {"user"} \cup MapLabels \/ (pc[t] \in UnmapLabels /\ op[t].then # "reclaim")

\* Before it has an address space and after its windows are reclaimed a task has
\* nothing mapped.
EmptyOK(t) ==
  pc[t] \in {"dead", "space", "drop"} =>
    /\ mappings[t] = {}
    /\ \A w \in Windows : table[t][w] = 0 /\ \A v \in Virts : entry[t][w][v] = 0

\* No page in hand outside map_page and free_page; a dead task has no address space.
HandOK(t) ==
  /\ pc[t] \notin {"walk", "link", "map", "load", "store"} => op[t].page = 0
  /\ pc[t] = "dead" => space[t] = <<>>

\* What the call is doing: while mapping its mapping is tracked and has a page to
\* go; while unmapping it has not passed the end.
CallOK(t) ==
  /\ pc[t] \in MapLabels => op[t].m \in mappings[t] /\ op[t].i < op[t].m.n /\ op[t].then = "user"
  /\ pc[t] \in UnmapLabels => op[t].i <= op[t].m.n

\* Nothing is mapped or tracked beyond the bump pointer.
BumpOK(t) ==
  Live(t) =>
    /\ \A w \in Windows, v \in Virts : entry[t][w][v] # 0 => v < next[t][w]
    /\ \A m \in mappings[t] : m.base + m.n + m.guard <= next[t][m.w]

\* Tracked mappings lie inside the window and apart, guard pages included.
ApartOK(t) ==
  /\ \A m \in mappings[t] : m.base + m.n + m.guard <= WindowPages /\ m.guard <= m.base
  /\ \A a, b \in mappings[t] : a # b /\ a.w = b.w =>
       a.base + a.n + a.guard <= b.base - b.guard \/ b.base + b.n + b.guard <= a.base - a.guard

\* What is mapped of the mapping in progress: the pages before i, and once it has
\* failed those from i up to where it failed.
ProgressOK(t) ==
  /\ pc[t] \in MapLabels => \A v \in Virts :
       op[t].m.base + op[t].i <= v /\ v < op[t].m.base + op[t].m.n => entry[t][op[t].m.w][v] = 0
  /\ pc[t] \in UnmapLabels /\ op[t].then = "failed" =>
       \A m \in mappings[t] : m.w = op[t].m.w /\ m.base = op[t].m.base =>
         \A v \in Virts : Covers(m, m.w, v) /\ entry[t][m.w][v] # 0 =>
           op[t].m.base + op[t].i <= v /\ v < op[t].m.base + op[t].m.n

TrackedOK(t) ==
  \A w \in Windows, v \in Virts :
    entry[t][w][v] # 0 =>
      \/ \E m \in mappings[t] : Covers(m, w, v)
      \/ pc[t] \in UnmapLabels /\ Covers(op[t].m, w, v) /\ v >= op[t].m.base + op[t].i

GuardOK(t) ==
  \A m \in mappings[t] :
    m.guard = 1 => \A v \in {m.base - 1, m.base + m.n} \cap Virts : entry[t][m.w][v] = 0

TaskInv(t) ==
  /\ EmptyOK(t) /\ HandOK(t) /\ CallOK(t) /\ BumpOK(t) /\ ApartOK(t) /\ ProgressOK(t)
  /\ TrackedOK(t) /\ GuardOK(t)

WInv == Shape /\ \A t \in Tasks : TaskInv(t)
-----------------------------------------------------------------------------
\* u is left alone.
Same(u) ==
  /\ pc'[u] = pc[u] /\ space'[u] = space[u] /\ entry'[u] = entry[u] /\ table'[u] = table[u]
  /\ next'[u] = next[u] /\ mappings'[u] = mappings[u] /\ op'[u] = op[u]

LEMMA SameInv ==
  ASSUME NEW u \in Tasks, TaskInv(u), Same(u)
  PROVE  TaskInv(u)'
<1> USE DEF Same
<1>1. EmptyOK(u)' /\ HandOK(u)' /\ CallOK(u)' /\ BumpOK(u)' /\ ApartOK(u)'
  BY DEF TaskInv, EmptyOK, HandOK, CallOK, BumpOK, Live, ApartOK
<1>2. ProgressOK(u)' /\ TrackedOK(u)' /\ GuardOK(u)'
  BY DEF TaskInv, ProgressOK, TrackedOK, GuardOK
<1> QED
  BY <1>1, <1>2 DEF TaskInv

\* A step of t keeps the invariant if it keeps t's part of it.
LEMMA OneTask ==
  ASSUME WInv, NEW t \in Tasks, Shape', TaskInv(t)', \A u \in Tasks \ {t} : Same(u)
  PROVE  WInv'
  BY SameInv DEF WInv

LEMMA InitW == Init => WInv
<1> SUFFICES ASSUME Init PROVE WInv
  OBVIOUS
<1> USE PageMemoryAssumption DEF Init, NoOp
<1>1. Shape
  BY DEF Shape, CallType, Labels, Windows
<1>2. ASSUME NEW t \in Tasks PROVE TaskInv(t)
  BY DEF TaskInv, EmptyOK, HandOK, CallOK, BumpOK, Live, ApartOK, ProgressOK, TrackedOK, GuardOK, MapLabels, UnmapLabels
<1> QED
  BY <1>1, <1>2 DEF WInv

\* The parts of the invariant, and the types of what the windows of t are made of.
LEMMA Parts ==
  ASSUME WInv, NEW t \in Tasks
  PROVE  /\ EmptyOK(t) /\ HandOK(t) /\ CallOK(t) /\ BumpOK(t) /\ ApartOK(t) /\ ProgressOK(t)
         /\ TrackedOK(t) /\ GuardOK(t)
  BY DEF WInv, TaskInv

LEMMA Types ==
  ASSUME Shape, NEW t \in Tasks
  PROVE  /\ op[t].m.w \in Windows /\ op[t].m.base \in Nat /\ op[t].m.n \in Nat
         /\ op[t].m.guard \in 0 .. 1 /\ op[t].i \in Nat
         /\ op[t].m.base + op[t].m.n <= WindowPages
         /\ op[t].then \in {"user", "failed", "reclaim"}
         /\ \A w \in Windows : next[t][w] \in 0 .. WindowPages
         /\ \A m \in mappings[t] :
              m.w \in Windows /\ m.base \in Nat /\ m.n \in Nat \ {0} /\ m.guard \in 0 .. 1
  BY PageMemoryAssumption DEF Shape, CallType, Virts, Mapping

-----------------------------------------------------------------------------
\* The steps of create_process_address_space, of the loader and of
\* destroy_process_address_space leave the (empty) windows alone.
LEMMA SpaceW ==
  ASSUME WInv, NEW t \in Tasks,
         SpawnStart(t) \/ SpaceAlloc(t) \/ SpaceReady(t) \/ SpaceFails(t) \/ SpaceDrop(t) \/ SpaceGone(t)
  PROVE  WInv'
<1> USE DEF SpawnStart, SpaceAlloc, SpaceReady, SpaceFails, SpaceDrop, SpaceGone, Goto, At
<1>0. Shape
  BY DEF WInv
<1>1. /\ UNCHANGED <<entry, table, next, mappings, op>>
      /\ pc[t] \in {"dead", "space", "drop"} /\ pc'[t] \in {"dead", "space", "drop", "user"}
      /\ pc'[t] = "dead" => space'[t] = <<>>
  BY <1>0 DEF Shape
<1>2. \A u \in Tasks \ {t} : Same(u)
  BY <1>0, <1>1 DEF Shape, Same
<1>3. Shape'
  BY <1>0, <1>1 DEF Shape, Labels
<1>4. TaskInv(t)'
  <2>1. /\ mappings[t] = {} /\ op[t].page = 0
        /\ \A w \in Windows : table[t][w] = 0 /\ \A v \in Virts : entry[t][w][v] = 0
    BY <1>1, Parts DEF EmptyOK, HandOK
  <2>2. EmptyOK(t)' /\ HandOK(t)' /\ CallOK(t)'
    BY <1>1, <2>1 DEF EmptyOK, HandOK, CallOK, MapLabels, UnmapLabels
  <2>3. BumpOK(t)' /\ ApartOK(t)' /\ GuardOK(t)'
    BY <1>1, <2>1 DEF BumpOK, ApartOK, GuardOK
  <2>4. ProgressOK(t)' /\ TrackedOK(t)'
    BY <1>1, <2>1 DEF ProgressOK, TrackedOK, MapLabels, UnmapLabels
  <2> QED
    BY <2>2, <2>3, <2>4 DEF TaskInv
<1> QED
  BY <1>2, <1>3, <1>4, OneTask

\* A call reserves room behind everything mapped so far.
LEMMA MemMapW ==
  ASSUME WInv, NEW t \in Tasks, NEW w \in Windows, NEW n \in 1 .. WindowPages, NEW g \in 0 .. 1,
         MemMap(t, w, n, g)
  PROVE  WInv'
<1> DEFINE b == next[t][w] + g
           m == [w |-> w, base |-> b, n |-> n, guard |-> g]
           o == [NoOp EXCEPT !.m = m]
<1>0. Shape /\ pc[t] = "user"
  BY DEF WInv, MemMap, At
<1>1. next[t][w] \in Nat /\ next[t][w] + n + 2 * g <= WindowPages
  BY <1>0, Types, PageMemoryAssumption DEF MemMap, Fits, Reserved
<1>2. /\ UNCHANGED <<space, entry, table>>
      /\ next'[t][w] = next[t][w] + n + 2 * g
      /\ \A a \in Windows \ {w} : next'[t][a] = next[t][a]
  BY <1>0, <1>1 DEF MemMap, Reserved, Shape
<1>3. \A u \in Tasks \ {t} : Same(u)
  BY <1>0 DEF Shape, Same, MemMap, Goto
<1>4. /\ o = [m |-> m, i |-> 0, page |-> 0, dir |-> 0, cnt |-> 0, then |-> "user"]
      /\ m \in Mapping /\ CallType(o)
  BY <1>1, PageMemoryAssumption DEF NoOp, Mapping, CallType, Virts, Windows
<1>5. \/ /\ mappings' = [mappings EXCEPT ![t] = @ \cup {m}]
         /\ op' = [op EXCEPT ![t] = o] /\ pc' = [pc EXCEPT ![t] = "alloc"]
      \/ UNCHANGED <<mappings, op, pc>>
  BY DEF MemMap, Goto
<1>6. next' \in [Tasks -> [Windows -> 0 .. WindowPages]]
  <2>1. next[t][w] + Reserved(n, g) \in 0 .. WindowPages
    BY <1>1, PageMemoryAssumption DEF Reserved
  <2> QED
    BY <1>0, <2>1 DEF Shape, MemMap
<1> HIDE DEF o, m
<1>7. Shape'
  <2>1. DOMAIN op' = Tasks /\ \A u \in Tasks : CallType(op'[u])
    BY <1>0, <1>4, <1>5 DEF Shape
  <2>2. pc' \in [Tasks -> Labels]
    BY <1>0, <1>5 DEF Shape, Labels
  <2>3. mappings[t] \cup {m} \in SUBSET Mapping
    BY <1>0, <1>4 DEF Shape
  <2>4. mappings' \in [Tasks -> SUBSET Mapping]
    BY <1>0, <1>5, <2>3 DEF Shape
  <2> QED
    BY <1>0, <1>2, <1>6, <2>1, <2>2, <2>4 DEF Shape
<1>8. m.w = w /\ m.base = b /\ m.n = n /\ m.guard = g
  BY DEF m
<1>9. ASSUME UNCHANGED <<mappings, op, pc>> PROVE TaskInv(t)'
  <2>1. \A a \in Windows : next[t][a] \in Nat /\ next'[t][a] \in Nat /\ next[t][a] <= next'[t][a]
    BY <1>0, <1>1, <1>2, Types
  <2>2. BumpOK(t)'
    BY <1>0, <1>2, <1>9, <2>1, Parts, Types DEF BumpOK, Live, MapLabels, UnmapLabels, Virts
  <2> QED
    BY <1>0, <1>2, <1>9, <2>2, Parts
    DEF TaskInv, EmptyOK, HandOK, CallOK, ApartOK, ProgressOK, TrackedOK, GuardOK, MapLabels, UnmapLabels
<1>10. ASSUME mappings'[t] = mappings[t] \cup {m}, op'[t] = o, pc'[t] = "alloc" PROVE TaskInv(t)'
  <2>1. op'[t].m = m /\ op'[t].i = 0 /\ op'[t].page = 0 /\ op'[t].then = "user"
    BY <1>4, <1>10
  <2>2. \A a \in Windows, v \in Virts : entry'[t][a][v] # 0 => v < next[t][a]
    BY <1>0, <1>2, Parts DEF BumpOK, Live
  <2>3. \A k \in mappings[t] : k.base + k.n + k.guard <= next[t][k.w]
    BY <1>0, Parts DEF BumpOK, Live
  <2> USE <1>0, <1>1, <1>2, <1>8, <1>10, <2>1, <2>2, <2>3, PageMemoryAssumption, Types
          DEF MapLabels, UnmapLabels, Live, Virts
  <2>4. EmptyOK(t)' /\ HandOK(t)' /\ CallOK(t)'
    BY DEF EmptyOK, HandOK, CallOK
  <2>5. BumpOK(t)'
    BY DEF BumpOK
  <2>6. ApartOK(t)'
    BY Parts DEF ApartOK
  <2>7. ProgressOK(t)'
    BY DEF ProgressOK
  <2>8. TrackedOK(t)'
    BY Parts DEF TrackedOK
  <2>9. GuardOK(t)'
    BY Parts DEF GuardOK
  <2> QED
    BY <2>4, <2>5, <2>6, <2>7, <2>8, <2>9 DEF TaskInv
<1> QED
  BY ZenonT(60), <1>0, <1>3, <1>5, <1>7, <1>9, <1>10, OneTask DEF Shape

LEMMA MapPageW ==
  ASSUME WInv, NEW t \in Tasks, MapPage(t)
  PROVE  WInv'
<1> DEFINE o == op[t]
           w == o.m.w
           v == o.m.base + o.i
           q == IF Astray(t) THEN 0 ELSE o.page
<1>0. Shape /\ TaskInv(t)
  BY DEF WInv
<1>1. w \in Windows /\ v \in Virts /\ CallType(o) /\ pc[t] = "map" /\ o.m \in mappings[t]
      /\ o.i < o.m.n
  BY SMTT(90), <1>0, PageMemoryAssumption DEF Shape, CallType, MapPage, At, TaskInv, CallOK, Virts, MapLabels
<1>E. /\ entry[t][w][v] = 0
      /\ entry' = IF Astray(t) THEN entry ELSE [entry EXCEPT ![t][w][v] = o.page]
      /\ table' = table \/ table' = [table EXCEPT ![t][w] = TopPage]
      /\ op' = [op EXCEPT ![t].i = @ + 1, ![t].page = 0]
      /\ pc' = [pc EXCEPT ![t] = IF o.i + 1 = o.m.n THEN "user" ELSE "alloc"]
      /\ UNCHANGED <<space, next, mappings>>
  BY DEF MapPage, Goto
<1>2. /\ op'[t] = [o EXCEPT !.i = @ + 1, !.page = 0]
      /\ pc'[t] = IF o.i + 1 = o.m.n THEN "user" ELSE "alloc"
      /\ next'[t] = next[t] /\ mappings'[t] = mappings[t] /\ space'[t] = space[t]
  BY <1>0, <1>E DEF Shape
<1>3. \A u \in Tasks \ {t} : Same(u)
  BY <1>0, <1>E DEF Shape, Same
<1>q. \A a \in Windows, b \in Virts :
        entry'[t][a][b] = IF a = w /\ b = v THEN q ELSE entry[t][a][b]
  BY <1>0, <1>1, <1>E DEF Shape
<1>4. op'[t] = [m |-> o.m, i |-> o.i + 1, page |-> 0, dir |-> o.dir, cnt |-> o.cnt, then |-> o.then]
  BY <1>1, <1>2 DEF CallType
<1> HIDE DEF o, w, v, q
<1> USE PageMemoryAssumption
<1>5. CallType(op'[t])
  BY <1>1, <1>4 DEF CallType
<1>6. Shape'
  <2>1. DOMAIN entry' = Tasks /\ \A u \in Tasks : DOMAIN entry'[u] = Windows /\ \A a \in Windows : DOMAIN entry'[u][a] = Virts
    BY <1>0, <1>1, <1>E DEF Shape
  <2>2. DOMAIN table' = Tasks /\ \A u \in Tasks : DOMAIN table'[u] = Windows
    BY <1>0, <1>1, <1>E DEF Shape
  <2>3. DOMAIN op' = Tasks /\ \A u \in Tasks : CallType(op'[u])
    BY <1>0, <1>3, <1>5, <1>E DEF Shape, Same
  <2>4. pc' \in [Tasks -> Labels]
    BY <1>0, <1>E DEF Shape, Labels
  <2> QED
    BY <1>0, <1>E, <2>1, <2>2, <2>3, <2>4 DEF Shape
<1>8. /\ op'[t].m = o.m /\ op'[t].i = o.i + 1 /\ op'[t].page = 0 /\ op'[t].then = o.then
      /\ pc'[t] \in {"user", "alloc"} /\ (o.i + 1 = o.m.n <=> pc'[t] = "user")
      /\ next'[t] = next[t] /\ mappings'[t] = mappings[t] /\ space'[t] = space[t]
  BY <1>2, <1>4
<1>T. o.m.w = w /\ v = o.m.base + o.i
  BY DEF v, w
<1>U. /\ o.m.base \in Nat /\ o.m.n \in Nat /\ o.i \in Nat /\ o.m.guard \in 0 .. 1
      /\ \A a \in Windows : next[t][a] \in Nat
      /\ \A m \in mappings[t] : m.w \in Windows /\ m.base \in Nat /\ m.n \in Nat /\ m.guard \in 0 .. 1
  BY <1>0, Types DEF o
<1>9. TaskInv(t)'
  <2>0. EmptyOK(t) /\ HandOK(t) /\ CallOK(t) /\ BumpOK(t) /\ ApartOK(t) /\ ProgressOK(t) /\ TrackedOK(t) /\ GuardOK(t)
    BY <1>0 DEF TaskInv
  <2> USE <1>1, <1>q, <1>8, <1>T, <1>U DEF MapLabels, UnmapLabels
  <2>1. EmptyOK(t)' /\ HandOK(t)' /\ CallOK(t)'
    BY <2>0 DEF EmptyOK, HandOK, CallOK, CallType, o
  <2>2. BumpOK(t)'
    BY <2>0 DEF BumpOK, Live, Virts
  <2>3. ApartOK(t)'
    BY <2>0 DEF ApartOK
  <2>4. ProgressOK(t)'
    BY <2>0 DEF ProgressOK, Virts, o
  <2>5. TrackedOK(t)'
    BY <2>0 DEF TrackedOK, Virts, Covers, o
  <2>6. GuardOK(t)'
    BY <2>0 DEF GuardOK, ApartOK, Virts
  <2> QED
    BY <2>1, <2>2, <2>3, <2>4, <2>5, <2>6 DEF TaskInv
<1> QED
  BY <1>3, <1>6, <1>9, OneTask

\* map_user_pages gets a page, and map_page a directory to go on from: both touch
\* the locals of the call only.
LEMMA MapAllocW ==
  ASSUME WInv, NEW t \in Tasks, MapAlloc(t) \/ Walk(t)
  PROVE  WInv'
<1>0. Shape /\ pc[t] \in {"alloc", "walk"} /\ CallType(op[t])
  BY DEF WInv, MapAlloc, Walk, At, Shape
<1>1. /\ UNCHANGED <<space, entry, table, next, mappings>>
      /\ \E l \in {"walk", "link", "map"} : pc' = [pc EXCEPT ![t] = l]
      /\ \E d : op' = [op EXCEPT ![t].page = d] \/ op' = [op EXCEPT ![t].dir = d]
  BY DEF MapAlloc, Walk, Goto
<1>2. \A u \in Tasks \ {t} : Same(u)
  BY <1>0, <1>1 DEF Shape, Same
<1>3. \E d : op'[t] = [op[t] EXCEPT !.page = d] \/ op'[t] = [op[t] EXCEPT !.dir = d]
  BY <1>0, <1>1 DEF Shape
<1>4. /\ op'[t] = [m |-> op[t].m, i |-> op[t].i, page |-> op'[t].page, dir |-> op'[t].dir,
                  cnt |-> op[t].cnt, then |-> op[t].then]
      /\ op'[t].m = op[t].m /\ op'[t].i = op[t].i /\ op'[t].then = op[t].then
  BY <1>0, <1>3 DEF CallType
<1>5. CallType(op'[t])
  BY <1>0, <1>4 DEF CallType
<1>6. Shape' /\ pc'[t] \in {"walk", "link", "map"}
  BY <1>0, <1>1, <1>5 DEF Shape, Labels
<1>7. TaskInv(t)'
  BY <1>0, <1>1, <1>4, <1>6, Parts
  DEF TaskInv, EmptyOK, HandOK, CallOK, BumpOK, ApartOK, ProgressOK, TrackedOK, GuardOK,
      Live, MapLabels, UnmapLabels
<1> QED
  BY <1>2, <1>6, <1>7, OneTask

\* u keeps all it has but for entries and page tables that are out of reach.
Fewer(u) ==
  /\ pc'[u] = pc[u] \/ (pc[u] = "link" /\ pc'[u] = "map")
  /\ space'[u] = space[u] /\ next'[u] = next[u] /\ mappings'[u] = mappings[u] /\ op'[u] = op[u]
  /\ \A w \in Windows : table'[u][w] \in {0, table[u][w]} /\ \A v \in Virts : entry'[u][w][v] \in {0, entry[u][w][v]}

LEMMA FewerInv ==
  ASSUME Shape, NEW u \in Tasks, TaskInv(u), Fewer(u)
  PROVE  TaskInv(u)'
<1> USE Types DEF Fewer, MapLabels, UnmapLabels
<1>0. EmptyOK(u) /\ HandOK(u) /\ CallOK(u) /\ BumpOK(u) /\ ApartOK(u) /\ ProgressOK(u) /\ TrackedOK(u) /\ GuardOK(u)
  BY DEF TaskInv
<1>1. EmptyOK(u)' /\ HandOK(u)' /\ CallOK(u)'
  BY <1>0 DEF EmptyOK, HandOK, CallOK
<1>2. BumpOK(u)' /\ ApartOK(u)'
  BY <1>0 DEF BumpOK, Live, ApartOK
<1>3. ProgressOK(u)'
  BY <1>0 DEF ProgressOK
<1>4. TrackedOK(u)' /\ GuardOK(u)'
  BY <1>0 DEF TrackedOK, GuardOK
<1> QED
  BY <1>1, <1>2, <1>3, <1>4 DEF TaskInv

\* ensure_next_table links a directory.
LEMMA LinkW ==
  ASSUME WInv, NEW t \in Tasks, Link(t)
  PROVE  WInv'
<1>0. Shape /\ pc[t] = "link"
  BY DEF WInv, Link, At
<1>1. UNCHANGED <<space, next, mappings, op>> /\ pc' = [pc EXCEPT ![t] = "map"]
  BY DEF Link, Goto
<1>2. \/ UNCHANGED <<entry, table>>
      \/ /\ entry' = [u \in Tasks |-> [entry[u] EXCEPT !["heap"] = [v \in Virts |-> 0]]]
         /\ table' = [u \in Tasks |-> [table[u] EXCEPT !["heap"] = 0]]
  BY DEF Link
<1>3. ASSUME NEW u \in Tasks
      PROVE  /\ DOMAIN entry'[u] = Windows /\ DOMAIN table'[u] = Windows
             /\ \A w \in Windows : DOMAIN entry'[u][w] = Virts /\ table'[u][w] \in {0, table[u][w]}
             /\ \A w \in Windows, v \in Virts : entry'[u][w][v] \in {0, entry[u][w][v]}
  <2>1. CASE UNCHANGED <<entry, table>>
    BY <1>0, <2>1 DEF Shape
  <2>2. CASE /\ entry' = [x \in Tasks |-> [entry[x] EXCEPT !["heap"] = [v \in Virts |-> 0]]]
             /\ table' = [x \in Tasks |-> [table[x] EXCEPT !["heap"] = 0]]
    <3>1. /\ entry'[u] = [entry[u] EXCEPT !["heap"] = [v \in Virts |-> 0]]
          /\ table'[u] = [table[u] EXCEPT !["heap"] = 0]
      BY <2>2
    <3>2. \A w \in Windows : entry'[u][w] = IF w = "heap" THEN [v \in Virts |-> 0] ELSE entry[u][w]
      BY <1>0, <3>1 DEF Shape
    <3> QED
      BY <1>0, <3>1, <3>2 DEF Shape
  <2> QED
    BY <1>2, <2>1, <2>2
<1>4. DOMAIN entry' = Tasks /\ DOMAIN table' = Tasks
  BY <1>0, <1>2 DEF Shape
<1>5. Shape'
  BY <1>0, <1>1, <1>3, <1>4 DEF Shape, Labels
<1>6. ASSUME NEW u \in Tasks PROVE Fewer(u)
  BY <1>0, <1>1, <1>3 DEF Shape, Fewer
<1> QED
  BY <1>0, <1>5, <1>6, FewerInv DEF WInv

\* No page, no directory or no page table: what was mapped so far is what will be
\* unmapped.
LEMMA RollBackW ==
  ASSUME WInv, NEW t \in Tasks, MapAllocFails(t) \/ MapPageFails(t)
  PROVE  WInv'
<1>0. Shape /\ pc[t] \in {"alloc", "walk", "map"} /\ CallType(op[t]) /\ op[t].i < op[t].m.n /\ op[t].m \in mappings[t]
  BY Parts DEF WInv, MapAllocFails, MapPageFails, MapRefused, At, Shape, CallOK, MapLabels
<1>1. /\ UNCHANGED <<space, entry, table, next, mappings>>
      /\ DOMAIN op' = Tasks /\ \A u \in Tasks \ {t} : op'[u] = op[u]
      /\ \/ /\ pc' = [pc EXCEPT ![t] = "unmap"]
            /\ op'[t] = [op[t] EXCEPT !.m.n = op[t].i, !.i = 0, !.page = 0, !.then = "failed"]
         \/ /\ pc' = [pc EXCEPT ![t] = "load"]
            /\ op'[t] = [op[t] EXCEPT !.m.n = op[t].i, !.i = 0, !.then = "failed"]
  BY <1>0 DEF MapAllocFails, MapPageFails, RollBack, RollBackWith, Goto, Shape
<1>2. \A u \in Tasks \ {t} : Same(u)
  BY <1>0, <1>1 DEF Shape, Same
<1>3. /\ op'[t].m = [w |-> op[t].m.w, base |-> op[t].m.base, n |-> op[t].i, guard |-> op[t].m.guard]
      /\ op'[t].i = 0 /\ op'[t].then = "failed"
      /\ op'[t] = [m |-> op'[t].m, i |-> op'[t].i, page |-> op'[t].page, dir |-> op'[t].dir, cnt |-> op'[t].cnt, then |-> op'[t].then]
      /\ (pc'[t] = "unmap" /\ op'[t].page = 0) \/ pc'[t] = "load"
  <2> DEFINE o == op[t]
             k == [o.m EXCEPT !.n = o.i]
  <2>1. o = [m |-> o.m, i |-> o.i, page |-> o.page, dir |-> o.dir, cnt |-> o.cnt, then |-> o.then]
    BY <1>0 DEF CallType
  <2>2. k = [w |-> o.m.w, base |-> o.m.base, n |-> o.i, guard |-> o.m.guard]
    BY <1>0 DEF CallType
  <2>3. \/ /\ pc'[t] = "unmap"
           /\ op'[t] = [o EXCEPT !.m = k, !.i = 0, !.page = 0, !.then = "failed"]
        \/ /\ pc'[t] = "load"
           /\ op'[t] = [o EXCEPT !.m = k, !.i = 0, !.then = "failed"]
    BY <1>0, <1>1 DEF Shape
  <2> HIDE DEF k, o
  <2>4. \/ pc'[t] = "unmap" /\ op'[t] = [m |-> k, i |-> 0, page |-> 0, dir |-> o.dir, cnt |-> o.cnt, then |-> "failed"]
        \/ pc'[t] = "load" /\ op'[t] = [m |-> k, i |-> 0, page |-> o.page, dir |-> o.dir, cnt |-> o.cnt, then |-> "failed"]
    BY <2>1, <2>3
  <2> QED
    BY <2>2, <2>4 DEF o
<1>4. CallType(op'[t])
  BY <1>0, <1>3, PageMemoryAssumption DEF CallType
<1>5. Shape'
  BY <1>0, <1>1, <1>4 DEF Shape, Labels
<1>6. /\ op'[t].m.w = op[t].m.w /\ op'[t].m.base = op[t].m.base /\ op'[t].m.n = op[t].i
      /\ op'[t].i = 0 /\ op'[t].then = "failed"
      /\ pc'[t] \in {"unmap", "load"} /\ (pc'[t] = "unmap" => op'[t].page = 0)
  BY <1>3
<1>7. TaskInv(t)'
  <2> USE <1>0, <1>1, <1>6, Parts, Types DEF MapLabels, UnmapLabels
  <2>1. EmptyOK(t)' /\ HandOK(t)' /\ CallOK(t)'
    BY DEF EmptyOK, HandOK, CallOK
  <2>2. BumpOK(t)'
    BY DEF BumpOK, Live
  <2>3. ApartOK(t)' /\ TrackedOK(t)' /\ GuardOK(t)'
    BY DEF ApartOK, TrackedOK, GuardOK
  <2>4. \A m \in mappings[t] : m.w = op[t].m.w /\ m.base = op[t].m.base => m = op[t].m
    BY DEF ApartOK
  <2>5. ProgressOK(t)'
    BY SMTT(40), <2>4 DEF ProgressOK, Covers, Virts
  <2> QED
    BY <2>1, <2>2, <2>3, <2>5 DEF TaskInv
<1> QED
  BY <1>2, <1>5, <1>7, OneTask

\* abi_mem_unmap_pages and process_reclaim_mappings hand a mapping over to
\* unmap_user_pages: what it covers is now the call's to unmap.
LEMMA TakeMappingW ==
  ASSUME WInv, NEW t \in Tasks, MemUnmap(t) \/ ReclaimMapping(t)
  PROVE  WInv'
<1> DEFINE th == IF pc[t] = "reclaim" THEN "reclaim" ELSE "user"
<1>0. Shape /\ pc[t] \in {"user", "reclaim"}
  BY DEF WInv, MemUnmap, ReclaimMapping, At
<1>1. UNCHANGED <<space, entry, table, next>> /\ pc' = [pc EXCEPT ![t] = "unmap"]
  BY DEF MemUnmap, ReclaimMapping, Goto
<1>2. PICK m \in mappings[t] :
        /\ mappings' = [mappings EXCEPT ![t] = @ \ {m}]
        /\ op' = [op EXCEPT ![t] = [m |-> m, i |-> 0, page |-> 0, dir |-> 0, cnt |-> 0, then |-> th]]
  <2>1. CASE MemUnmap(t)
    <3>1. th = "user"
      BY <2>1 DEF MemUnmap, At
    <3>2. \A m : [NoOp EXCEPT !.m = m] = [m |-> m, i |-> 0, page |-> 0, dir |-> 0, cnt |-> 0, then |-> "user"]
      BY DEF NoOp
    <3> QED
      BY <2>1, <3>1, <3>2 DEF MemUnmap
  <2>2. CASE ReclaimMapping(t)
    <3>1. th = "reclaim"
      BY <2>2 DEF ReclaimMapping, At
    <3>2. \A m : [NoOp EXCEPT !.m = m, !.then = "reclaim"]
                   = [m |-> m, i |-> 0, page |-> 0, dir |-> 0, cnt |-> 0, then |-> "reclaim"]
      <4> TAKE m
      <4>1. [NoOp EXCEPT !.m = m] = [m |-> m, i |-> 0, page |-> 0, dir |-> 0, cnt |-> 0, then |-> "user"]
        BY DEF NoOp
      <4>2. [NoOp EXCEPT !.m = m, !.then = "reclaim"] = [[NoOp EXCEPT !.m = m] EXCEPT !.then = "reclaim"]
        OBVIOUS
      <4>3. [[m |-> m, i |-> 0, page |-> 0, dir |-> 0, cnt |-> 0, then |-> "user"] EXCEPT !.then = "reclaim"]
              = [m |-> m, i |-> 0, page |-> 0, dir |-> 0, cnt |-> 0, then |-> "reclaim"]
        OBVIOUS
      <4> QED
        BY <4>1, <4>2, <4>3, Zenon
    <3> QED
      BY <2>2, <3>1, <3>2 DEF ReclaimMapping
  <2> QED
    BY <2>1, <2>2
<1>3. \A u \in Tasks \ {t} : Same(u)
  BY <1>0, <1>1, <1>2 DEF Shape, Same
<1>4. op'[t] = [m |-> m, i |-> 0, page |-> 0, dir |-> 0, cnt |-> 0, then |-> th] /\ mappings'[t] = mappings[t] \ {m}
      /\ pc'[t] = "unmap"
  BY <1>0, <1>1, <1>2 DEF Shape
<1>5. m \in Mapping /\ m.base + m.n <= WindowPages
  BY <1>0, Parts, Types, PageMemoryAssumption DEF Shape, ApartOK
<1>6. CallType(op'[t])
  BY <1>4, <1>5, PageMemoryAssumption DEF CallType, Mapping, Virts
<1>7. Shape'
  <2>1. mappings' \in [Tasks -> SUBSET Mapping]
    BY <1>0, <1>2 DEF Shape
  <2>2. pc' \in [Tasks -> Labels] /\ DOMAIN op' = Tasks /\ \A u \in Tasks : CallType(op'[u])
    BY <1>0, <1>1, <1>2, <1>6 DEF Shape, Labels
  <2> QED
    BY <1>0, <1>1, <2>1, <2>2 DEF Shape
<1>8. op'[t].m = m /\ op'[t].i = 0 /\ op'[t].page = 0 /\ op'[t].then = th
  BY <1>4
<1>9. TaskInv(t)'
  <2> USE <1>0, <1>1, <1>4, <1>8, Parts, Types DEF MapLabels, UnmapLabels
  <2>1. EmptyOK(t)' /\ HandOK(t)' /\ CallOK(t)'
    BY DEF EmptyOK, HandOK, CallOK
  <2>2. BumpOK(t)' /\ ApartOK(t)'
    BY DEF BumpOK, Live, ApartOK
  <2>3. ProgressOK(t)' /\ GuardOK(t)'
    BY DEF ProgressOK, GuardOK
  <2>4. TrackedOK(t)'
    BY DEF TrackedOK, Covers, Virts
  <2> QED
    BY <2>1, <2>2, <2>3, <2>4 DEF TaskInv
<1> QED
  BY <1>3, <1>7, <1>9, OneTask

\* unmap_user_pages clears the next entry.
LEMMA UnmapPageW ==
  ASSUME WInv, NEW t \in Tasks, UnmapPage(t)
  PROVE  WInv'
<1> DEFINE o == op[t]
           w == o.m.w
           v == o.m.base + o.i
           p == entry[t][w][v]
<1>0. Shape /\ CallType(o) /\ pc[t] = "unmap" /\ o.i < o.m.n
  BY DEF WInv, Shape, UnmapPage, At
<1>1. w \in Windows /\ v \in Virts /\ o.i + 1 \in 0 .. WindowPages
  BY <1>0, Types, PageMemoryAssumption DEF Virts
<1>2. /\ UNCHANGED <<space, table, next, mappings>>
      /\ entry' = [entry EXCEPT ![t][w][v] = 0]
      /\ op' = [op EXCEPT ![t].i = @ + 1, ![t].page = p]
      /\ pc' = [pc EXCEPT ![t] = IF p = 0 THEN "unmap" ELSE "load"]
  BY DEF UnmapPage, Goto
<1>3. \A u \in Tasks \ {t} : Same(u)
  BY <1>0, <1>2 DEF Shape, Same
<1>4. op'[t] = [o EXCEPT !.i = @ + 1, !.page = p]
  BY <1>0, <1>2 DEF Shape
<1>5. /\ \A a \in Windows, b \in Virts : entry'[t][a][b] = IF a = w /\ b = v THEN 0 ELSE entry[t][a][b]
      /\ pc'[t] = IF p = 0 THEN "unmap" ELSE "load"
  BY <1>0, <1>1, <1>2 DEF Shape
<1> HIDE DEF p
<1>6. op'[t] = [m |-> o.m, i |-> o.i + 1, page |-> p, dir |-> o.dir, cnt |-> o.cnt, then |-> o.then]
  BY <1>0, <1>4 DEF CallType
<1> HIDE DEF o, w, v
<1>7. CallType(op'[t])
  BY <1>0, <1>1, <1>6 DEF CallType
<1>8. Shape'
  BY <1>0, <1>1, <1>2, <1>7 DEF Shape, Labels
<1>9. /\ op'[t].m = o.m /\ op'[t].i = o.i + 1 /\ op'[t].page = p /\ op'[t].then = o.then
      /\ w = o.m.w /\ v = o.m.base + o.i
      /\ pc'[t] \in {"unmap", "load"} /\ (pc'[t] = "unmap" => p = 0)
  BY <1>5, <1>6 DEF v, w
<1>10. TaskInv(t)'
  <2>1. /\ o.m.w \in Windows /\ o.m.base \in Nat /\ o.m.n \in Nat /\ o.i \in Nat
    BY <1>0, Types DEF o
  <2> USE <1>0, <1>1, <1>2, <1>5, <1>9, <2>1, Parts DEF MapLabels, UnmapLabels, o
  <2>a. EmptyOK(t)' /\ HandOK(t)'
    BY DEF EmptyOK, HandOK
  <2>b. CallOK(t)'
    BY DEF CallOK
  <2>2. EmptyOK(t)' /\ HandOK(t)' /\ CallOK(t)'
    BY <2>a, <2>b
  <2>c. Live(t)' => Live(t)
    BY DEF Live
  <2>d. BumpOK(t)'
    BY <2>c DEF BumpOK
  <2>e. ApartOK(t)'
    BY DEF ApartOK
  <2>3. BumpOK(t)' /\ ApartOK(t)'
    BY <2>d, <2>e
  <2>4. GuardOK(t)'
    BY Types DEF GuardOK
  <2>5. ProgressOK(t)'
    <3>1. ASSUME o.then = "failed", NEW m \in mappings[t], m.w = o.m.w, m.base = o.m.base,
                 NEW b \in Virts, Covers(m, m.w, b), entry'[t][m.w][b] # 0
          PROVE  o.m.base + (o.i + 1) <= b /\ b < o.m.base + o.m.n
      <4>1. b # v /\ entry[t][m.w][b] # 0
        BY <3>1
      <4>2. o.m.base + o.i <= b /\ b < o.m.base + o.m.n
        BY <3>1, <4>1 DEF ProgressOK
      <4> QED
        BY SMTT(60), <4>1, <4>2 DEF Virts
    <3> QED
      BY <1>2, <1>9, <3>1 DEF ProgressOK
  <2>6. TrackedOK(t)'
    <3>1. ASSUME NEW a \in Windows, NEW b \in Virts, entry'[t][a][b] # 0
          PROVE  \/ \E m \in mappings[t] : Covers(m, a, b)
                 \/ Covers(o.m, a, b) /\ b >= o.m.base + (o.i + 1)
      <4>1. ~(a = w /\ b = v) /\ entry[t][a][b] # 0
        BY <3>1
      <4>2. \/ \E m \in mappings[t] : Covers(m, a, b)
            \/ Covers(o.m, a, b) /\ b >= o.m.base + o.i
        BY <4>1 DEF TrackedOK
      <4> QED
        BY SMTT(40), <4>1, <4>2 DEF Covers, Virts
    <3> QED
      BY <3>1 DEF TrackedOK
  <2> QED
    BY <2>2, <2>3, <2>4, <2>5, <2>6 DEF TaskInv
<1> QED
  BY <1>3, <1>8, <1>10, OneTask

\* The inlined free_page moves the page in hand and the allocator's counters only.
LEMMA FreeW ==
  ASSUME WInv, NEW t \in Tasks, FreeLoad(t) \/ FreeStore(t) \/ FreeCount(t)
  PROVE  WInv'
<1> DEFINE o == op[t]
<1>0. Shape /\ CallType(o) /\ pc[t] \in {"load", "store", "count"}
  BY DEF WInv, Shape, FreeLoad, FreeStore, FreeCount, At
<1>1. /\ UNCHANGED <<space, entry, table, next, mappings>>
      /\ \E l \in {"unmap", "store", "count"} : pc' = [pc EXCEPT ![t] = l]
      /\ DOMAIN op' = Tasks /\ \A u \in Tasks \ {t} : op'[u] = op[u]
      /\ \/ pc'[t] \in {"unmap", "count"} /\ op'[t] = [o EXCEPT !.page = 0]
         \/ pc'[t] = "store" /\ op'[t] = [o EXCEPT !.cnt = freeCount]
         \/ pc[t] = "count" /\ pc'[t] = "unmap" /\ op'[t] = o
  BY <1>0 DEF FreeLoad, FreeStore, FreeCount, At, Goto, Shape
<1>2. \A u \in Tasks \ {t} : Same(u)
  BY <1>0, <1>1 DEF Shape, Same
<1>3. /\ op'[t] = [m |-> op'[t].m, i |-> op'[t].i, page |-> op'[t].page, dir |-> op'[t].dir, cnt |-> op'[t].cnt, then |-> op'[t].then]
      /\ op'[t].m = o.m /\ op'[t].i = o.i /\ op'[t].then = o.then
      /\ pc'[t] # "store" => op'[t].page = 0
  BY <1>0, <1>1, Parts DEF CallType, HandOK
<1>4. CallType(op'[t])
  BY <1>0, <1>3 DEF CallType
<1>5. Shape'
  BY <1>0, <1>1, <1>4 DEF Shape, Labels
<1>6. pc'[t] \in {"unmap", "store", "count"}
  BY <1>0, <1>1 DEF Shape
<1>7. TaskInv(t)'
  BY SMTT(40), <1>0, <1>1, <1>3, <1>6, Parts
  DEF TaskInv, EmptyOK, HandOK, CallOK, BumpOK, ApartOK, ProgressOK, TrackedOK, GuardOK,
      Live, MapLabels, UnmapLabels
<1> QED
  BY <1>2, <1>5, <1>7, OneTask

\* When unmap_user_pages is through nothing of its mapping is left, so a failed
\* call may forget it.
LEMMA UnmapDoneW ==
  ASSUME WInv, NEW t \in Tasks, UnmapDone(t)
  PROVE  WInv'
<1> DEFINE o == op[t]
<1>0. Shape /\ pc[t] = "unmap" /\ o.i = o.m.n
  BY DEF WInv, Shape, UnmapDone, At
<1>1. /\ UNCHANGED <<space, entry, table, next>>
      /\ op' = [op EXCEPT ![t] = NoOp]
      /\ pc' = [pc EXCEPT ![t] = IF o.then = "reclaim" THEN "reclaim" ELSE "user"]
      /\ mappings' \in [Tasks -> SUBSET Mapping]
      /\ \A u \in Tasks \ {t} : mappings'[u] = mappings[u]
      /\ mappings'[t] = IF o.then = "failed"
                        THEN {m \in mappings[t] : m.w # o.m.w \/ m.base # o.m.base} ELSE mappings[t]
  BY <1>0 DEF UnmapDone, Untracked, Goto, Shape
<1>2. \A u \in Tasks \ {t} : Same(u)
  BY <1>0, <1>1 DEF Shape, Same
<1>3. CallType(NoOp) /\ NoOp.page = 0
  BY PageMemoryAssumption DEF NoOp, CallType, Windows
<1>4. Shape'
  <2>1. pc' \in [Tasks -> Labels] /\ DOMAIN op' = Tasks /\ \A u \in Tasks : CallType(op'[u])
    BY <1>0, <1>1, <1>3 DEF Shape, Labels
  <2> QED
    BY <1>0, <1>1, <2>1 DEF Shape
<1>5. /\ op'[t].page = 0 /\ mappings'[t] \subseteq mappings[t]
      /\ pc'[t] \in {"user", "reclaim"} /\ (pc'[t] = "reclaim" <=> o.then = "reclaim")
  BY <1>0, <1>1, <1>3 DEF Shape
<1>6. TaskInv(t)'
  <2> USE <1>0, <1>1, <1>5, Parts, Types DEF MapLabels, UnmapLabels
  <2>1. EmptyOK(t)' /\ HandOK(t)' /\ CallOK(t)' /\ ProgressOK(t)'
    BY DEF EmptyOK, HandOK, CallOK, ProgressOK
  <2>2. BumpOK(t)' /\ ApartOK(t)' /\ GuardOK(t)'
    BY DEF BumpOK, Live, ApartOK, GuardOK
  <2>3. TrackedOK(t)'
    BY DEF TrackedOK, ProgressOK, Covers, Virts
  <2> QED
    BY <2>1, <2>2, <2>3 DEF TaskInv
<1> QED
  BY <1>2, <1>4, <1>6, OneTask

\* Exit, and the steps after the last mapping is unmapped.
LEMMA ExitW ==
  ASSUME WInv, NEW t \in Tasks,
         Exit(t) \/ Reclaimed(t) \/ \E w \in Windows : ReclaimTable(t, w)
  PROVE  WInv'
<1>0. Shape /\ pc[t] \in {"user", "reclaim"}
  BY DEF WInv, Exit, Reclaimed, ReclaimTable, At
<1>1. /\ UNCHANGED <<space, entry, mappings, op>>
      /\ \/ pc'[t] = "reclaim"
         \/ pc[t] = "reclaim" /\ pc'[t] = "drop" /\ mappings[t] = {} /\ \A w \in Windows : table'[t][w] = 0
      /\ \A u \in Tasks \ {t} : pc'[u] = pc[u] /\ table'[u] = table[u] /\ next'[u] = next[u]
      /\ DOMAIN table' = Tasks /\ \A u \in Tasks : DOMAIN table'[u] = Windows
  BY ZenonT(60), <1>0 DEF Exit, Reclaimed, ReclaimTable, At, Goto, Shape
<1>2. pc' \in [Tasks -> Labels]
  BY <1>0 DEF Exit, Reclaimed, ReclaimTable, Goto, Shape, Labels
<1>3. next' \in [Tasks -> [Windows -> 0 .. WindowPages]]
  <2>1. CASE Exit(t)
    <3>1. [w \in Windows |-> 0] \in [Windows -> 0 .. WindowPages]
      BY PageMemoryAssumption
    <3> QED
      BY <1>0, <2>1, <3>1 DEF Exit, Shape
  <2> QED
    BY <1>0, <2>1 DEF Reclaimed, ReclaimTable, Shape
<1>4. Shape'
  BY <1>0, <1>1, <1>2, <1>3 DEF Shape
<1>5. \A u \in Tasks \ {t} : Same(u)
  BY <1>1 DEF Same
<1>6. TaskInv(t)'
  BY <1>0, <1>1, Parts
  DEF TaskInv, EmptyOK, HandOK, CallOK, BumpOK, ApartOK, ProgressOK, TrackedOK, GuardOK,
      Live, MapLabels, UnmapLabels
<1> QED
  BY <1>4, <1>5, <1>6, OneTask

-----------------------------------------------------------------------------
LEMMA StutterW == WInv /\ UNCHANGED vars => WInv'
<1> SUFFICES ASSUME WInv, UNCHANGED vars PROVE WInv'
  OBVIOUS
<1>1. Shape' /\ \A u \in Tasks : Same(u)
  BY DEF WInv, Shape, vars, Same
<1> QED
  BY <1>1, SameInv DEF WInv

\* Every step of every task preserves the windows' invariant.
LEMMA NextW == WInv /\ [Next]_vars => WInv'
<1> SUFFICES ASSUME WInv, [Next]_vars PROVE WInv'
  OBVIOUS
<1>1. ASSUME NEW t \in Tasks, KernelStep(t) PROVE WInv'
  BY <1>1, SpaceW, MapAllocW, LinkW, RollBackW, MapPageW, UnmapPageW, FreeW, UnmapDoneW, TakeMappingW, ExitW
  DEF KernelStep
<1>2. ASSUME NEW t \in Tasks, UserStep(t) PROVE WInv'
  BY <1>2, SpaceW, MemMapW, TakeMappingW, ExitW DEF UserStep
<1> QED
  BY <1>1, <1>2, StutterW DEF Next

\* The windows' invariant holds in every reachable state, wherever ticks fall.
THEOREM WindowsHold == Spec => []WInv
  BY InitW, NextW, PTL DEF Spec
-----------------------------------------------------------------------------
(***************************************************************************)
(* The second part: who owns a page, when no tick lands inside a call.     *)
(***************************************************************************)

Quiet == {"dead", "user"}

\* The cells of the free stack that count: those below free_count, and the one a
\* call has stored a page in without having counted it yet.
Cells == (0 .. freeCount - 1) \cup {op[t].cnt : t \in {u \in Tasks : pc[u] = "count"}}

InSpace(t, k, p)     == t \in Tasks /\ k \in 1 .. Len(space[t]) /\ space[t][k] = p
InWindow(w, t, v, p) == t \in Tasks /\ w \in Windows /\ v \in Virts /\ entry[t][w][v] = p
InTable(t, w, p)     == t \in Tasks /\ w \in Windows /\ table[t][w] = p
InHand(t, p)         == t \in Tasks /\ op[t].page = p
InStack(k, p)        == k \in Cells /\ free[k] = p
InWalk(k, a, p) ==
  \/ k = "dir" /\ a = 0 /\ dir = p
  \/ k = "link" /\ a \in Tasks /\ pc[a] = "link" /\ op[a].dir = p

\* Place <<k, a, b>> holds page p.
Held(k, a, b, p) ==
  /\ p # 0
  /\ \/ k = "space" /\ InSpace(a, b, p)
     \/ k \in Windows /\ InWindow(k, a, b, p)
     \/ k = "table" /\ InTable(a, b, p)
     \/ k = "local" /\ b = 0 /\ InHand(a, p)
     \/ k = "free" /\ b = 0 /\ InStack(a, p)
     \/ k \in {"dir", "link"} /\ b = 0 /\ InWalk(k, a, p)

Unique ==
  \A k1, a1, b1, k2, a2, b2, p :
    Held(k1, a1, b1, p) /\ Held(k2, a2, b2, p) => k1 = k2 /\ a1 = a2 /\ b1 = b2
Below   == \A k, a, b, p : Held(k, a, b, p) => p \in 1 .. fresh - 1
Covered == \A p \in 1 .. fresh - 1 : p \in dropped \/ \E k, a, b : Held(k, a, b, p)

Owned == Unique /\ Below /\ Covered

\* Types of what the windows' invariant left open.
PageTypes ==
  /\ free \in [0 .. FreeStackMax - 1 -> 0 .. NumPages]
  /\ freeCount \in 0 .. FreeStackMax
  /\ fresh \in 1 .. NumPages + 1
  /\ dropped \subseteq Pages
  /\ space \in [Tasks -> Seq(Pages)]
  /\ entry \in [Tasks -> [Windows -> [Virts -> 0 .. NumPages]]]
  /\ table \in [Tasks -> [Windows -> 0 .. NumPages]]
  /\ dir \in 0 .. NumPages
  /\ \A t \in Tasks : op[t].page \in 0 .. NumPages

\* The counters agree with the pages handed out.
Accounting == allocated \in Nat /\ allocated + freeCount = fresh - 1

SizeOK(t) ==
  /\ Len(space[t]) <= SpacePages
  /\ IsFiniteSet(mappings[t]) /\ Cardinality(mappings[t]) <= MappingMax

\* At most one task is inside a call.
AloneOK == \A t, u \in Tasks : t # u /\ pc[t] \notin Quiet => pc[u] \in Quiet

\* The count a call has loaded is still the count; the page it frees is a page; there
\* is no directory while it links one, and the one it goes on from is the one there is.
LoadOK(t) ==
  /\ pc[t] \in {"store", "count"} => op[t].cnt = freeCount /\ freeCount < FreeStackMax
  /\ pc[t] \in {"walk", "link", "map", "load", "store"} => op[t].page # 0
  /\ pc[t] = "count" => free[op[t].cnt] # 0
  /\ pc[t] = "link" => dir = 0 /\ op[t].dir \in Pages
  /\ pc[t] = "map" => op[t].m.w = "mmap" \/ op[t].dir = dir

StackOK == \A k \in 0 .. freeCount - 1 : free[k] # 0

PInv ==
  /\ WInv /\ PageTypes /\ Accounting /\ AloneOK /\ StackOK /\ Owned
  /\ \A t \in Tasks : SizeOK(t) /\ LoadOK(t)
-----------------------------------------------------------------------------
(* What a step may do to the owners of pages *)

SameFree == fresh' = fresh /\ dropped' = dropped

\* A place holds one page.
LEMMA OnePage ==
  ASSUME NEW k, NEW a, NEW b, NEW p, NEW q, Held(k, a, b, p), Held(k, a, b, q)
  PROVE  p = q
  BY DEF Held, InSpace, InWindow, InTable, InHand, InStack, InWalk, Windows

LEMMA Kept ==
  ASSUME Owned, SameFree, \A x, y, z, p : Held(x, y, z, p)' <=> Held(x, y, z, p)
  PROVE  Owned'
  BY DEF Owned, Unique, Below, Covered, SameFree

\* A page changes places.
LEMMA Moved ==
  ASSUME Owned, SameFree, NEW q, NEW k, NEW a, NEW b, NEW K, NEW A, NEW B, Held(k, a, b, q),
         \A x, y, z, p : Held(x, y, z, p)' <=>
           \/ Held(x, y, z, p) /\ ~(x = k /\ y = a /\ z = b)
           \/ x = K /\ y = A /\ z = B /\ p = q
  PROVE  Owned'
<1>1. Unique'
  BY DEF Owned, Unique
<1>2. Below'
  BY DEF Owned, Below, SameFree
<1>3. Covered'
  <2>1. ASSUME NEW p, NEW x, NEW y, NEW z, Held(x, y, z, p) PROVE \E x1, y1, z1 : Held(x1, y1, z1, p)'
    <3>1. CASE x = k /\ y = a /\ z = b
      <4>1. p = q
        BY <2>1, <3>1, OnePage
      <4> QED
        BY <4>1
    <3>2. CASE ~(x = k /\ y = a /\ z = b)
      BY <2>1, <3>2
    <3> QED
      BY <3>1, <3>2
  <2> QED
    BY <2>1 DEF Owned, Covered, SameFree
<1> QED
  BY <1>1, <1>2, <1>3 DEF Owned

\* alloc_page takes the next page of the ranges.
LEMMA TakenFresh ==
  ASSUME Owned, PageTypes, NEW K, NEW A, NEW B, fresh' = fresh + 1, dropped' = dropped,
         \A x, y, z, p : Held(x, y, z, p)' <=>
           Held(x, y, z, p) \/ (x = K /\ y = A /\ z = B /\ p = fresh)
  PROVE  Owned'
<1>0. fresh \in Nat \ {0}
  BY PageMemoryAssumption DEF PageTypes
<1>1. Unique'
  BY <1>0 DEF Owned, Unique, Below
<1>2. Below'
  <2>1. ASSUME NEW x, NEW y, NEW z, NEW p, Held(x, y, z, p)' PROVE p \in 1 .. fresh
    BY <1>0, <2>1 DEF Owned, Below
  <2> QED
    BY <1>0, <2>1 DEF Below
<1>3. Covered'
  <2>1. ASSUME NEW p \in 1 .. fresh PROVE p \in dropped \/ \E x, y, z : Held(x, y, z, p)'
    <3>1. CASE p = fresh
      BY <3>1
    <3>2. CASE p # fresh
      BY <1>0, <3>2 DEF Owned, Covered
    <3> QED
      BY <3>1, <3>2
  <2> QED
    BY <1>0, <2>1 DEF Covered
<1> QED
  BY <1>1, <1>2, <1>3 DEF Owned

\* free_page refuses a page.
LEMMA Refused ==
  ASSUME Owned, NEW q, NEW k, NEW a, NEW b, Held(k, a, b, q), fresh' = fresh, dropped' = dropped \cup {q},
         \A x, y, z, p : Held(x, y, z, p)' <=> Held(x, y, z, p) /\ ~(x = k /\ y = a /\ z = b)
  PROVE  Owned'
<1>1. Unique'
  BY DEF Owned, Unique
<1>2. Below'
  BY DEF Owned, Below
<1>3. Covered'
  BY OnePage DEF Owned, Covered
<1> QED
  BY <1>1, <1>2, <1>3 DEF Owned

\* As many cells of the free stack as there are pages, at most.
LEMMA Pigeon ==
  ASSUME NEW n \in Nat, NEW m \in Nat, NEW f,
         \A i \in 0 .. n - 1 : f[i] \in 1 .. m,
         \A i, j \in 0 .. n - 1 : f[i] = f[j] => i = j
  PROVE  n <= m
<1> DEFINE g == [i \in 0 .. n - 1 |-> f[i]]
<1>1. g \in Injection(0 .. n - 1, 1 .. m)
  BY DEF Injection, IsInjective
<1>2. IsFiniteSet(1 .. m) /\ Cardinality(1 .. m) = m
  BY FS_Interval
<1>3. Cardinality(0 .. n - 1) = n
  BY FS_Interval
<1>4. Cardinality(0 .. n - 1) <= Cardinality(1 .. m)
  BY <1>1, <1>2, FS_Injection
<1> QED
  BY <1>2, <1>3, <1>4

NobodyCounts == \A u \in Tasks : pc[u] # "count"

\* Steps other than those of ensure_next_table leave the directory alone.
NobodyLinks == \A u \in Tasks : pc[u] # "link"

LEMMA WalkRests ==
  ASSUME NobodyLinks, NobodyLinks', dir' = dir
  PROVE  \A k, a, p : InWalk(k, a, p)' <=> InWalk(k, a, p)
  BY DEF InWalk, NobodyLinks

LEMMA StackCells ==
  ASSUME NobodyCounts, NEW k, NEW p
  PROVE  InStack(k, p) <=> k \in 0 .. freeCount - 1 /\ free[k] = p
<1>1. Cells = 0 .. freeCount - 1
  BY DEF Cells, NobodyCounts
<1> QED
  BY <1>1 DEF InStack

\* What alloc_page does to the free stack and the ranges.
LEMMA AllocFacts ==
  ASSUME PInv, AllocPage, NobodyCounts, NobodyCounts'
  PROVE  /\ TopPage \in Pages
         /\ free' \in [0 .. FreeStackMax - 1 -> 0 .. NumPages] /\ freeCount' \in 0 .. FreeStackMax
         /\ fresh' \in 1 .. NumPages + 1 /\ dropped' = dropped
         /\ Accounting' /\ StackOK'
         /\ freeCount > 0 => Held("free", freeCount - 1, 0, TopPage) /\ SameFree
         /\ freeCount = 0 => TopPage = fresh /\ fresh' = fresh + 1
         /\ \A k, p : InStack(k, p)' <=> InStack(k, p) /\ ~(freeCount > 0 /\ k = freeCount - 1)
<1> USE PageMemoryAssumption
<1>0. PageTypes /\ Accounting /\ StackOK
  BY DEF PInv
<1>1. freeCount \in Nat /\ fresh \in Nat /\ freeCount <= FreeStackMax /\ allocated \in Nat
  BY <1>0 DEF PageTypes, Accounting
<1>2. CASE freeCount > 0
  <2>1. /\ TopPage = free[freeCount - 1] /\ freeCount' = freeCount - 1 /\ fresh' = fresh
        /\ free' = [free EXCEPT ![freeCount - 1] = 0] /\ allocated' = allocated + 1 /\ dropped' = dropped
    BY <1>2 DEF AllocPage, TopPage
  <2>2. freeCount - 1 \in 0 .. FreeStackMax - 1 /\ TopPage \in 0 .. NumPages /\ TopPage # 0
    BY <1>0, <1>1, <1>2, <2>1 DEF PageTypes, StackOK
  <2>3. InStack(freeCount - 1, TopPage)
    BY <1>1, <1>2, <2>1, StackCells
  <2>4. free' \in [0 .. FreeStackMax - 1 -> 0 .. NumPages] /\ \A k \in 0 .. freeCount - 2 : free'[k] = free[k]
    <3>1. free \in [0 .. FreeStackMax - 1 -> 0 .. NumPages] /\ 0 \in 0 .. NumPages
      BY <1>0 DEF PageTypes
    <3>2. \A k \in 0 .. freeCount - 2 : k \in 0 .. FreeStackMax - 1 /\ k # freeCount - 1
      BY <1>1
    <3> QED
      BY <2>1, <3>1, <3>2
  <2>5. \A k, p : InStack(k, p)' <=> k \in 0 .. freeCount - 2 /\ free'[k] = p
    <3>1. Cells' = 0 .. freeCount' - 1
      BY DEF Cells, NobodyCounts
    <3> QED
      BY <1>1, <2>1, <3>1 DEF InStack
  <2>6. \A k, p : InStack(k, p)' <=> InStack(k, p) /\ k # freeCount - 1
    <3>1. \A k, p : InStack(k, p) <=> k \in 0 .. freeCount - 1 /\ free[k] = p
      BY StackCells
    <3>2. \A k : k \in 0 .. freeCount - 2 <=> k \in 0 .. freeCount - 1 /\ k # freeCount - 1
      BY <1>1
    <3> QED
      BY <2>4, <2>5, <3>1, <3>2
  <2>7. Accounting' /\ StackOK'
    BY <1>0, <1>1, <1>2, <2>1, <2>4 DEF Accounting, StackOK
  <2>8. TopPage \in Pages /\ freeCount' \in 0 .. FreeStackMax /\ fresh' \in 1 .. NumPages + 1
    BY <1>0, <1>1, <1>2, <2>1, <2>2 DEF Pages, PageTypes
  <2>9. Held("free", freeCount - 1, 0, TopPage) /\ SameFree
    BY <2>1, <2>2, <2>3 DEF Held, SameFree
  <2> QED
    BY <1>1, <1>2, <2>1, <2>4, <2>6, <2>7, <2>8, <2>9
<1>3. CASE freeCount = 0
  <2>1. /\ TopPage = fresh /\ fresh <= NumPages /\ fresh' = fresh + 1 /\ UNCHANGED <<free, freeCount, dropped>>
        /\ allocated' = allocated + 1
    BY <1>1, <1>3 DEF AllocPage, TopPage, OutOfPages
  <2>2. \A k, p : ~InStack(k, p)
    BY <1>3, StackCells
  <2>3. Cells' = {}
    BY <1>3, <2>1 DEF Cells, NobodyCounts
  <2>4. \A k, p : ~InStack(k, p)'
    BY <2>3 DEF InStack
  <2> QED
    BY SMTT(40), <1>0, <1>1, <1>3, <2>1, <2>2, <2>4 DEF Pages, PageTypes, Accounting, StackOK
<1> QED
  BY <1>1, <1>2, <1>3

\* A page is allocated into a place.
LEMMA Allocated ==
  ASSUME PInv, AllocPage, NobodyCounts, NobodyCounts', NEW K, NEW A, NEW B, K # "free",
         NEW r, r = TopPage, Held(K, A, B, r)',
         \A x, y, z, p : x # "free" =>
           (Held(x, y, z, p)' <=> Held(x, y, z, p) \/ (x = K /\ y = A /\ z = B /\ p = TopPage))
  PROVE  Owned'
<1>0. Owned /\ PageTypes /\ freeCount \in Nat
  BY PageMemoryAssumption DEF PInv, PageTypes
<1>1. \A y, z, p : Held("free", y, z, p)' <=> Held("free", y, z, p) /\ ~(freeCount > 0 /\ y = freeCount - 1)
  BY AllocFacts DEF Held, Windows
<1>2. CASE freeCount > 0
  <2>1. \A z, p : Held("free", freeCount - 1, z, p) => z = 0
    BY DEF Held, Windows
  <2>2. \A x, y, z, p : Held(x, y, z, p)' <=>
          \/ Held(x, y, z, p) /\ ~(x = "free" /\ y = freeCount - 1 /\ z = 0)
          \/ x = K /\ y = A /\ z = B /\ p = TopPage
    BY <1>1, <1>2, <2>1
  <2> QED
    BY ZenonT(60), <1>0, <1>2, <2>2, AllocFacts, Moved
<1>3. CASE freeCount = 0
  <2>1. \A x, y, z, p : Held(x, y, z, p)' <=> Held(x, y, z, p) \/ (x = K /\ y = A /\ z = B /\ p = fresh)
    BY <1>1, <1>3, AllocFacts
  <2> QED
    BY <1>0, <1>3, <2>1, AllocFacts, TakenFresh
<1> QED
  BY <1>0, <1>2, <1>3

\* A page is allocated into one place while another moves: the first mapping of a
\* window, which needs a page table.
LEMMA AllocatedAndMoved ==
  ASSUME PInv, AllocPage, NobodyCounts, NobodyCounts', NEW K, NEW A, NEW B, K # "free",
         NEW r, r = TopPage, Held(K, A, B, r)',
         NEW k, NEW a, NEW b, NEW X, NEW Y, NEW Z, NEW q, k # "free", X # "free", Held(k, a, b, q),
         Held(X, Y, Z, q)',
         ~(K = X /\ A = Y /\ B = Z),
         \A x, y, z, p : x # "free" =>
           (Held(x, y, z, p)' <=>
             \/ Held(x, y, z, p) /\ ~(x = k /\ y = a /\ z = b)
             \/ x = K /\ y = A /\ z = B /\ p = TopPage
             \/ x = X /\ y = Y /\ z = Z /\ p = q)
  PROVE  Owned'
<1>0. Owned /\ PageTypes /\ freeCount \in Nat /\ fresh \in Nat \ {0}
  BY PageMemoryAssumption DEF PInv, PageTypes
<1>1. \A y, z, p : Held("free", y, z, p)' <=> Held("free", y, z, p) /\ ~(freeCount > 0 /\ y = freeCount - 1)
  BY AllocFacts DEF Held, Windows
<1>2. \A z, p : Held("free", freeCount - 1, z, p) => z = 0
  BY DEF Held, Windows
<1>3. freeCount > 0 => Held("free", freeCount - 1, 0, TopPage) /\ fresh' = fresh
  BY AllocFacts DEF SameFree
<1>4. freeCount = 0 => TopPage = fresh /\ fresh' = fresh + 1
  BY AllocFacts
<1>5. dropped' = dropped
  BY AllocFacts
<1>6. TopPage # q
  BY <1>0, <1>3, <1>4 DEF Owned, Unique, Below
<1>7. \A x, y, z, p : Held(x, y, z, p)' /\ p # TopPage /\ p # q => Held(x, y, z, p)
  BY <1>1
<1>8. \A x, y, z, p : Held(x, y, z, p)' /\ p = TopPage => x = K /\ y = A /\ z = B
  BY <1>0, <1>1, <1>2, <1>3, <1>4, <1>6 DEF Owned, Unique, Below
<1>9. \A x, y, z : Held(x, y, z, q)' => x = X /\ y = Y /\ z = Z
  BY <1>0, <1>1, <1>6 DEF Owned, Unique
<1>10. Unique'
  BY <1>0, <1>7, <1>8, <1>9 DEF Owned, Unique
<1>11. Below'
  <2>1. TopPage \in 1 .. fresh' - 1 /\ q \in 1 .. fresh' - 1 /\ \A p \in 1 .. fresh - 1 : p \in 1 .. fresh' - 1
    BY <1>0, <1>3, <1>4 DEF Owned, Below
  <2> QED
    BY <1>0, <1>7, <2>1 DEF Owned, Below
<1>12. Covered'
  <2>1. \E x, y, z : Held(x, y, z, q)'
    OBVIOUS
  <2>2. \A p : p = TopPage => \E x, y, z : Held(x, y, z, p)'
    OBVIOUS
  <2>3. ASSUME NEW p, p # q, p # TopPage, NEW x, NEW y, NEW z, Held(x, y, z, p) PROVE Held(x, y, z, p)'
    <3>1. ~(x = k /\ y = a /\ z = b)
      BY <2>3, OnePage
    <3>2. ~(freeCount > 0 /\ x = "free" /\ y = freeCount - 1)
      BY <1>2, <1>3, <2>3, OnePage
    <3> QED
      BY <1>1, <2>3, <3>1, <3>2
  <2>4. \A p \in 1 .. fresh' - 1 : p \in 1 .. fresh - 1 \/ p = TopPage
    BY <1>0, <1>3, <1>4
  <2> QED
    BY <1>0, <1>5, <2>1, <2>2, <2>3, <2>4 DEF Owned, Covered
<1> QED
  BY <1>10, <1>11, <1>12 DEF Owned

\* free_phys_page: the page moves to the free stack, or is refused.
LEMMA Freed ==
  ASSUME PInv, NobodyCounts, NobodyCounts', NEW q \in Pages, FreePage(q),
         NEW k, NEW a, NEW b, k # "free", Held(k, a, b, q),
         \A x, y, z, p : x # "free" =>
           (Held(x, y, z, p)' <=> Held(x, y, z, p) /\ ~(x = k /\ y = a /\ z = b))
  PROVE  /\ Owned' /\ Accounting' /\ StackOK'
         /\ free' \in [0 .. FreeStackMax - 1 -> 0 .. NumPages] /\ freeCount' \in 0 .. FreeStackMax
         /\ fresh' = fresh /\ dropped' \subseteq Pages
<1> USE PageMemoryAssumption
<1>0. Owned /\ PageTypes /\ Accounting /\ StackOK
  BY DEF PInv
<1>1. freeCount \in Nat /\ fresh \in Nat /\ freeCount <= FreeStackMax /\ allocated \in Nat
  BY <1>0 DEF PageTypes, Accounting
<1>2. CASE freeCount >= FreeStackMax
  <2>1. fresh' = fresh /\ dropped' = dropped \cup {q} /\ UNCHANGED <<free, freeCount, allocated>>
    BY <1>2 DEF FreePage
  <2>2. Cells' = Cells
    BY <2>1 DEF Cells, NobodyCounts
  <2>3. \A y, z, p : Held("free", y, z, p)' <=> Held("free", y, z, p)
    BY <2>1, <2>2 DEF Held, InStack, Windows
  <2>4. Owned'
    BY <1>0, <2>1, <2>3, Refused
  <2> QED
    BY <1>0, <2>1, <2>4 DEF PageTypes, Accounting, StackOK
<1>3. CASE freeCount < FreeStackMax
  <2>1. /\ fresh' = fresh /\ dropped' = dropped /\ freeCount' = freeCount + 1
        /\ free' = [free EXCEPT ![freeCount] = q] /\ allocated' = MonusOne(allocated)
    BY <1>1, <1>3 DEF FreePage
  <2>2. free \in [0 .. FreeStackMax - 1 -> 0 .. NumPages] /\ freeCount \in 0 .. FreeStackMax - 1 /\ q \in 0 .. NumPages
    BY <1>0, <1>1, <1>3 DEF PageTypes, Pages
  <2>3. /\ free' \in [0 .. FreeStackMax - 1 -> 0 .. NumPages] /\ free'[freeCount] = q
        /\ \A i \in 0 .. freeCount - 1 : free'[i] = free[i]
    <3>1. \A i \in 0 .. freeCount - 1 : i \in 0 .. FreeStackMax - 1 /\ i # freeCount
      BY <1>1, <1>3
    <3> QED
      BY <2>1, <2>2, <3>1
  <2>4. Cells = 0 .. freeCount - 1 /\ Cells' = 0 .. freeCount
    BY <1>1, <2>1 DEF Cells, NobodyCounts
  <2>5. q # 0
    BY DEF Pages
  <2>6. \A i : i \in 0 .. freeCount <=> i \in 0 .. freeCount - 1 \/ i = freeCount
    BY <1>1
  <2>7. \A y, z, p : Held("free", y, z, p)' <=> Held("free", y, z, p) \/ (y = freeCount /\ z = 0 /\ p = q)
    BY <2>3, <2>4, <2>5, <2>6 DEF Held, InStack, Windows
  <2>8. \A x, y, z, p : Held(x, y, z, p)' <=>
          \/ Held(x, y, z, p) /\ ~(x = k /\ y = a /\ z = b)
          \/ x = "free" /\ y = freeCount /\ z = 0 /\ p = q
    BY <2>7
  <2>9. Owned'
    BY <1>0, <2>1, <2>8, Moved DEF SameFree
  <2>10. StackOK'
    BY <1>0, <2>1, <2>3, <2>5, <2>6 DEF StackOK
  <2>11. ASSUME NEW i \in 0 .. freeCount, NEW p, p = free'[i] PROVE Held("free", i, 0, p)'
    BY <1>1, <2>1, <2>4, <2>10, <2>11 DEF Held, InStack, StackOK
  <2>12. freeCount + 1 <= fresh - 1
    <3>1. \A i \in 0 .. freeCount : free'[i] \in 1 .. fresh - 1
      BY <2>1, <2>9, <2>11 DEF Owned, Below
    <3>2. \A i, j \in 0 .. freeCount : free'[i] = free'[j] => i = j
      BY <2>9, <2>11 DEF Owned, Unique
    <3>3. fresh - 1 \in Nat /\ freeCount + 1 \in Nat /\ (freeCount + 1) - 1 = freeCount
      BY <1>0, <1>1 DEF PageTypes
    <3> QED
      BY <3>1, <3>2, <3>3, Pigeon
  <2>13. Accounting'
    BY <1>0, <1>1, <2>1, <2>12 DEF Accounting, MonusOne
  <2> QED
    BY <1>0, <1>1, <1>3, <2>1, <2>3, <2>9, <2>10, <2>13 DEF PageTypes
<1> QED
  BY <1>1, <1>2, <1>3
-----------------------------------------------------------------------------
(* One lemma per action, all of them without ticks *)

\* A step of t is alone in the kernel.
LEMMA OthersQuiet ==
  ASSUME Preemptive = FALSE, NEW t \in Tasks, NEW l, At(t, l)
  PROVE  \A u \in Tasks \ {t} : pc[u] \in Quiet
  BY DEF At, Quiet

LEMMA OneTaskP ==
  ASSUME PInv, WInv', PageTypes', Accounting', StackOK', Owned', NEW t \in Tasks,
         SizeOK(t)', LoadOK(t)',
         \A u \in Tasks \ {t} : pc[u] \in Quiet /\ Same(u)
  PROVE  PInv'
<1>1. AloneOK'
  BY DEF AloneOK, Same
<1>2. \A u \in Tasks \ {t} : LoadOK(u)'
  BY DEF LoadOK, Same, Quiet
<1>3. \A u \in Tasks \ {t} : SizeOK(u)'
  BY DEF SizeOK, Same, PInv
<1> QED
  BY <1>1, <1>2, <1>3 DEF PInv

\* Steps that move no page.
LEMMA NothingMoves ==
  ASSUME PInv, WInv', NEW t \in Tasks, UNCHANGED <<alloc, space, entry, table, dir>>,
         \A u \in Tasks \ {t} : pc[u] \in Quiet /\ Same(u),
         pc[t] \notin {"count", "link"}, pc'[t] \notin {"count", "link"}, op'[t].page = op[t].page,
         SizeOK(t)', LoadOK(t)'
  PROVE  PInv'
<1>0. UNCHANGED <<free, freeCount, fresh, allocated, dropped>>
  BY DEF alloc
<1>1. \A u \in Tasks : /\ op'[u].page = op[u].page
                       /\ pc[u] \notin {"count", "link"} /\ pc'[u] \notin {"count", "link"}
  BY DEF Same, Quiet
<1>w. \A k, a, p : InWalk(k, a, p)' <=> InWalk(k, a, p)
  BY <1>1, WalkRests DEF NobodyLinks
<1>2. Cells' = Cells
  BY <1>0, <1>1 DEF Cells
<1>3. \A x, y, z, p : Held(x, y, z, p)' <=> Held(x, y, z, p)
  BY <1>0, <1>1, <1>2, <1>w DEF Held, InSpace, InWindow, InTable, InHand, InStack
<1>4. Owned'
  BY <1>0, <1>3, Kept DEF PInv, SameFree
<1>5. PageTypes' /\ Accounting' /\ StackOK'
  BY <1>0, <1>1 DEF PInv, PageTypes, Accounting, StackOK
<1> QED
  BY <1>4, <1>5, OneTaskP

LEMMA SpacePassP ==
  ASSUME Preemptive = FALSE, PInv, WInv', NEW t \in Tasks,
         SpawnStart(t) \/ SpaceReady(t) \/ SpaceFails(t) \/ SpaceGone(t) \/ Exit(t) \/ Reclaimed(t)
  PROVE  PInv'
<1> USE DEF SpawnStart, SpaceReady, SpaceFails, SpaceGone, Exit, Reclaimed
<1>0. Shape
  BY DEF PInv, WInv
<1>1. /\ UNCHANGED <<alloc, space, entry, table, dir, mappings, op>>
      /\ pc[t] \notin {"count", "link"} /\ pc'[t] \in {"space", "user", "drop", "dead", "reclaim"}
      /\ \A u \in Tasks \ {t} : Same(u)
  BY <1>0 DEF Goto, At, Shape, Same
<1>2. \A u \in Tasks \ {t} : pc[u] \in Quiet
  BY OthersQuiet
<1>3. SizeOK(t)' /\ LoadOK(t)'
  BY <1>1 DEF PInv, SizeOK, LoadOK
<1> QED
  BY <1>1, <1>2, <1>3, NothingMoves

LEMMA MemMapP ==
  ASSUME Preemptive = FALSE, PInv, WInv', NEW t \in Tasks, NEW w \in Windows, NEW n \in 1 .. WindowPages,
         NEW g \in 0 .. 1, MemMap(t, w, n, g)
  PROVE  PInv'
<1>0. Shape /\ SizeOK(t) /\ LoadOK(t) /\ pc[t] = "user" /\ op[t].page = 0
  BY DEF PInv, WInv, MemMap, At, TaskInv, HandOK
<1>1. /\ UNCHANGED <<alloc, space, entry, table, dir>> /\ \A u \in Tasks \ {t} : Same(u)
      /\ pc'[t] \in {"user", "alloc"}
  BY <1>0 DEF MemMap, Goto, Shape, Same
<1>2. op'[t].page = 0
  BY <1>0 DEF MemMap, Shape, NoOp
<1>3. \A u \in Tasks \ {t} : pc[u] \in Quiet
  BY OthersQuiet DEF MemMap
<1>4. \/ mappings'[t] = mappings[t]
      \/ Cardinality(mappings[t]) < MappingMax /\ \E m : mappings'[t] = mappings[t] \cup {m}
  <2> DEFINE m == [w |-> w, base |-> next[t][w] + g, n |-> n, guard |-> g]
  <2>1. \/ UNCHANGED mappings
        \/ Cardinality(mappings[t]) < MappingMax /\ mappings' = [mappings EXCEPT ![t] = @ \cup {m}]
    BY DEF MemMap
  <2> HIDE DEF m
  <2> QED
    BY <1>0, <2>1 DEF Shape
<1>5. SizeOK(t)'
  <2>1. CASE mappings'[t] = mappings[t]
    BY <1>0, <1>1, <2>1 DEF SizeOK
  <2>2. ASSUME Cardinality(mappings[t]) < MappingMax, NEW m, mappings'[t] = mappings[t] \cup {m}
        PROVE  SizeOK(t)'
    <3> DEFINE S == mappings[t]
    <3>1. IsFiniteSet(S) /\ Cardinality(S) \in Nat
      BY <1>0, FS_CardinalityType DEF SizeOK
    <3>2. IsFiniteSet(S \cup {m}) /\ Cardinality(S \cup {m}) = IF m \in S THEN Cardinality(S) ELSE Cardinality(S) + 1
      BY <3>1, FS_AddElement
    <3> QED
      BY <1>0, <1>1, <2>2, <3>1, <3>2, PageMemoryAssumption DEF SizeOK
  <2> QED
    BY <1>4, <2>1, <2>2
<1>6. LoadOK(t)'
  BY <1>1 DEF LoadOK
<1> QED
  BY <1>0, <1>1, <1>2, <1>3, <1>5, <1>6, NothingMoves

LEMMA TakeMappingP ==
  ASSUME Preemptive = FALSE, PInv, WInv', NEW t \in Tasks, MemUnmap(t) \/ ReclaimMapping(t)
  PROVE  PInv'
<1>0. Shape /\ SizeOK(t) /\ LoadOK(t) /\ pc[t] \in {"user", "reclaim"} /\ op[t].page = 0
  BY DEF PInv, WInv, MemUnmap, ReclaimMapping, At, TaskInv, HandOK
<1>1. /\ UNCHANGED <<alloc, space, entry, table, dir>> /\ \A u \in Tasks \ {t} : Same(u)
      /\ pc'[t] = "unmap" /\ \E m : mappings'[t] = mappings[t] \ {m}
  BY ZenonT(60), <1>0 DEF MemUnmap, ReclaimMapping, Goto, Shape, Same
<1>2. op'[t].page = 0
  BY <1>1 DEF WInv, TaskInv, HandOK
<1>3. \A u \in Tasks \ {t} : pc[u] \in Quiet
  BY OthersQuiet DEF MemUnmap, ReclaimMapping
<1>4. SizeOK(t)'
  <2> DEFINE S == mappings[t]
  <2>1. mappings'[t] \in SUBSET S /\ IsFiniteSet(S) /\ Cardinality(S) \in Nat
    BY <1>0, <1>1, FS_CardinalityType DEF SizeOK
  <2>2. IsFiniteSet(mappings'[t]) /\ Cardinality(mappings'[t]) <= Cardinality(S) /\ Cardinality(mappings'[t]) \in Nat
    BY <2>1, FS_Subset, FS_CardinalityType
  <2> QED
    BY <1>0, <1>1, <2>1, <2>2, PageMemoryAssumption DEF SizeOK
<1>5. LoadOK(t)'
  BY <1>1 DEF LoadOK
<1> QED
  BY <1>0, <1>1, <1>2, <1>3, <1>4, <1>5, NothingMoves

LEMMA RollBackP ==
  ASSUME Preemptive = FALSE, PInv, WInv', NEW t \in Tasks, MapAllocFails(t) \/ MapPageFails(t)
  PROVE  PInv'
<1>0. Shape /\ SizeOK(t) /\ LoadOK(t) /\ CallType(op[t]) /\ HandOK(t)
  BY DEF PInv, WInv, TaskInv, Shape
<1>1. /\ UNCHANGED <<alloc, space, entry, table, dir, mappings>> /\ \A u \in Tasks \ {t} : Same(u)
      /\ \/ pc[t] = "alloc" /\ pc'[t] = "unmap"
         \/ pc[t] \in {"walk", "map"} /\ pc'[t] = "load" /\ op'[t] = [op[t] EXCEPT !.m.n = op[t].i, !.i = 0, !.then = "failed"]
  BY <1>0 DEF MapAllocFails, MapPageFails, MapRefused, RollBack, RollBackWith, Goto, At, Shape, Same
<1>2. op'[t].page = op[t].page
  <2>1. CASE pc[t] = "alloc" /\ pc'[t] = "unmap"
    BY <1>0, <2>1 DEF WInv, TaskInv, HandOK
  <2>2. CASE pc[t] \in {"walk", "map"} /\ pc'[t] = "load"
    <3>1. op'[t] = [op[t] EXCEPT !.m = [op[t].m EXCEPT !.n = op[t].i], !.i = 0, !.then = "failed"]
      BY <1>1, <2>2
    <3> QED
      BY <1>0, <3>1 DEF CallType
  <2> QED
    BY <1>1, <2>1, <2>2
<1>3. \A u \in Tasks \ {t} : pc[u] \in Quiet
  BY OthersQuiet DEF MapAllocFails, MapPageFails
<1>4. SizeOK(t)' /\ LoadOK(t)'
  BY <1>0, <1>1, <1>2 DEF SizeOK, LoadOK
<1> QED
  BY <1>1, <1>2, <1>3, <1>4, NothingMoves

LEMMA UnmapDoneP ==
  ASSUME Preemptive = FALSE, PInv, WInv', NEW t \in Tasks, UnmapDone(t)
  PROVE  PInv'
<1>0. Shape /\ SizeOK(t) /\ LoadOK(t) /\ HandOK(t) /\ pc[t] = "unmap"
  BY DEF PInv, WInv, TaskInv, UnmapDone, At
<1>1. /\ UNCHANGED <<alloc, space, entry, table, dir>> /\ \A u \in Tasks \ {t} : Same(u)
      /\ pc'[t] \in {"user", "reclaim"} /\ mappings'[t] \in SUBSET mappings[t]
  BY <1>0 DEF UnmapDone, Untracked, Goto, Shape, Same
<1>2. op[t].page = 0 /\ op'[t].page = 0
  BY <1>0, <1>1 DEF WInv, TaskInv, HandOK
<1>3. \A u \in Tasks \ {t} : pc[u] \in Quiet
  BY OthersQuiet DEF UnmapDone
<1>4. SizeOK(t)'
  BY <1>0, <1>1, FS_Subset, FS_CardinalityType, PageMemoryAssumption DEF SizeOK
<1>5. LoadOK(t)'
  BY <1>1 DEF LoadOK
<1> QED
  BY <1>0, <1>1, <1>2, <1>3, <1>4, <1>5, NothingMoves

\* The page an address space gets, or gives back.
LEMMA SpaceAllocP ==
  ASSUME Preemptive = FALSE, PInv, WInv', NEW t \in Tasks, SpaceAlloc(t)
  PROVE  PInv'
<1> DEFINE L == Len(space[t])
<1>0. Shape /\ PageTypes /\ SizeOK(t) /\ pc[t] = "space" /\ L < SpacePages /\ L \in Nat
  BY DEF PInv, WInv, SpaceAlloc, At, PageTypes
<1>1. /\ AllocPage /\ UNCHANGED <<entry, table, dir, mappings, pc, op>>
      /\ space' = [space EXCEPT ![t] = Append(space[t], TopPage)]
  BY DEF SpaceAlloc
<1>2. \A u \in Tasks \ {t} : pc[u] \in Quiet /\ Same(u)
  BY <1>0, OthersQuiet DEF Shape, SpaceAlloc, Same
<1>3. NobodyCounts /\ NobodyCounts'
  BY <1>0, <1>1, <1>2 DEF NobodyCounts, Quiet
<1>w. \A k, a, p : InWalk(k, a, p)' <=> InWalk(k, a, p)
  BY <1>0, <1>1, <1>2, WalkRests DEF NobodyLinks, Quiet
<1>4. TopPage \in Pages
  BY <1>1, <1>3, AllocFacts
<1>5. /\ space'[t] \in Seq(Pages) /\ Len(space'[t]) = L + 1 /\ space'[t][L + 1] = TopPage
      /\ \A k \in 1 .. L : space'[t][k] = space[t][k]
  BY <1>0, <1>1, <1>4 DEF PageTypes
<1>6. space' \in [Tasks -> Seq(Pages)] /\ \A u \in Tasks \ {t} : space'[u] = space[u]
  BY <1>0, <1>1, <1>5 DEF PageTypes
<1>7. \A y, z, p : InSpace(y, z, p)' <=> InSpace(y, z, p) \/ (y = t /\ z = L + 1 /\ p = TopPage)
  <2>1. \A k : k \in 1 .. L + 1 <=> k \in 1 .. L \/ k = L + 1
    BY <1>0
  <2>2. ASSUME NEW y \in Tasks \ {t}, NEW z, NEW p PROVE InSpace(y, z, p)' <=> InSpace(y, z, p)
    BY <1>6 DEF InSpace
  <2>3. ASSUME NEW z, NEW p
        PROVE  InSpace(t, z, p)' <=> InSpace(t, z, p) \/ (z = L + 1 /\ p = TopPage)
    BY <1>5, <2>1 DEF InSpace
  <2>4. ASSUME NEW y, NEW z, NEW p, y \notin Tasks PROVE ~InSpace(y, z, p) /\ ~InSpace(y, z, p)'
    BY <2>4 DEF InSpace
  <2> QED
    BY <2>2, <2>3, <2>4
<1>8. \A x, y, z, p : x # "free" =>
        (Held(x, y, z, p)' <=> Held(x, y, z, p) \/ (x = "space" /\ y = t /\ z = L + 1 /\ p = TopPage))
  BY <1>1, <1>4, <1>7, <1>w DEF Held, InWindow, InTable, InHand, Windows, Pages
<1>9. Owned'
  <2>1. PICK r : r = TopPage
    OBVIOUS
  <2>2. PICK n : n = L + 1
    OBVIOUS
  <2>3. Held("space", t, n, r)'
    BY <1>8, <2>1, <2>2
  <2> QED
    BY <1>1, <1>3, <1>8, <2>1, <2>2, <2>3, Allocated
<1>10. PageTypes' /\ Accounting' /\ StackOK'
  BY <1>0, <1>1, <1>3, <1>6, AllocFacts DEF PageTypes
<1>11. SizeOK(t)' /\ LoadOK(t)'
  BY <1>0, <1>1, <1>5, PageMemoryAssumption DEF SizeOK, LoadOK
<1> QED
  BY <1>2, <1>9, <1>10, <1>11, OneTaskP

LEMMA SpaceDropP ==
  ASSUME Preemptive = FALSE, PInv, WInv', NEW t \in Tasks, SpaceDrop(t)
  PROVE  PInv'
<1> DEFINE L == Len(space[t])
           q == space[t][L]
<1>0. Shape /\ PageTypes /\ SizeOK(t) /\ pc[t] = "drop" /\ space[t] # <<>> /\ space[t] \in Seq(Pages)
  BY DEF PInv, WInv, SpaceDrop, At, PageTypes
<1>1. L \in Nat \ {0} /\ q \in Pages
  BY <1>0
<1>2. /\ FreePage(q) /\ UNCHANGED <<entry, table, dir, mappings, pc, op>>
      /\ space' = [space EXCEPT ![t] = SubSeq(space[t], 1, L - 1)]
  BY DEF SpaceDrop
<1>3. \A u \in Tasks \ {t} : pc[u] \in Quiet /\ Same(u)
  BY <1>0, OthersQuiet DEF Shape, SpaceDrop, Same
<1>4. NobodyCounts /\ NobodyCounts'
  BY <1>0, <1>2, <1>3 DEF NobodyCounts, Quiet
<1>w. \A k, a, p : InWalk(k, a, p)' <=> InWalk(k, a, p)
  BY <1>0, <1>2, <1>3, WalkRests DEF NobodyLinks, Quiet
<1>5. /\ space'[t] \in Seq(Pages) /\ Len(space'[t]) = L - 1
      /\ \A k \in 1 .. L - 1 : space'[t][k] = space[t][k]
  <2>1. space'[t] = SubSeq(space[t], 1, L - 1)
    BY <1>0, <1>2 DEF Shape
  <2> QED
    BY <1>0, <1>1, <2>1
<1>6. space' \in [Tasks -> Seq(Pages)] /\ \A u \in Tasks \ {t} : space'[u] = space[u]
  BY <1>0, <1>2, <1>5 DEF PageTypes
<1>7. \A y, z, p : InSpace(y, z, p)' <=> InSpace(y, z, p) /\ ~(y = t /\ z = L)
  <2>1. \A k : k \in 1 .. L - 1 <=> k \in 1 .. L /\ k # L
    BY <1>1
  <2>2. ASSUME NEW y \in Tasks \ {t}, NEW z, NEW p PROVE InSpace(y, z, p)' <=> InSpace(y, z, p)
    BY <1>6 DEF InSpace
  <2>3. ASSUME NEW z, NEW p PROVE InSpace(t, z, p)' <=> InSpace(t, z, p) /\ z # L
    BY <1>5, <2>1 DEF InSpace
  <2>4. ASSUME NEW y, NEW z, NEW p, y \notin Tasks PROVE ~InSpace(y, z, p) /\ ~InSpace(y, z, p)'
    BY <2>4 DEF InSpace
  <2> QED
    BY <2>2, <2>3, <2>4
<1>8. \A x, y, z, p : x # "free" =>
        (Held(x, y, z, p)' <=> Held(x, y, z, p) /\ ~(x = "space" /\ y = t /\ z = L))
  BY <1>2, <1>7, <1>w DEF Held, InWindow, InTable, InHand, Windows
<1>9. Held("space", t, L, q)
  BY <1>1 DEF Held, InSpace, Pages
<1>10. /\ Owned' /\ Accounting' /\ StackOK'
       /\ free' \in [0 .. FreeStackMax - 1 -> 0 .. NumPages] /\ freeCount' \in 0 .. FreeStackMax
       /\ fresh' = fresh /\ dropped' \subseteq Pages
  BY <1>1, <1>2, <1>4, <1>8, <1>9, Freed
<1>11. PageTypes'
  BY <1>0, <1>2, <1>6, <1>10 DEF PageTypes
<1>12. SizeOK(t)' /\ LoadOK(t)'
  BY <1>0, <1>1, <1>2, <1>5, PageMemoryAssumption DEF SizeOK, LoadOK
<1> QED
  BY <1>3, <1>10, <1>11, <1>12, OneTaskP

\* map_user_pages takes a page in hand.
LEMMA MapAllocP ==
  ASSUME Preemptive = FALSE, PInv, WInv', NEW t \in Tasks, MapAlloc(t)
  PROVE  PInv'
<1>0. Shape /\ PageTypes /\ SizeOK(t) /\ pc[t] = "alloc" /\ op[t].page = 0 /\ CallType(op[t])
  BY DEF PInv, WInv, MapAlloc, At, TaskInv, HandOK, Shape
<1>1. /\ AllocPage /\ UNCHANGED <<space, entry, table, dir, mappings>>
      /\ op' = [op EXCEPT ![t].page = TopPage]
      /\ pc' = [pc EXCEPT ![t] = IF op[t].m.w = "heap" THEN "walk" ELSE "map"]
  BY DEF MapAlloc, Goto
<1>2. \A u \in Tasks \ {t} : pc[u] \in Quiet /\ Same(u)
  BY <1>0, <1>1, OthersQuiet DEF Shape, MapAlloc, Same
<1>3. /\ pc'[t] = (IF op[t].m.w = "heap" THEN "walk" ELSE "map")
      /\ op'[t] = [op[t] EXCEPT !.page = TopPage]
  BY <1>0, <1>1 DEF Shape
<1>w. \A k, a, p : InWalk(k, a, p)' <=> InWalk(k, a, p)
  BY <1>0, <1>1, <1>2, <1>3, WalkRests DEF NobodyLinks, Quiet, Same
<1>4. NobodyCounts /\ NobodyCounts'
  BY <1>0, <1>2, <1>3 DEF NobodyCounts, Quiet, Same
<1>5. TopPage \in Pages
  BY <1>1, <1>4, AllocFacts
<1>6. op'[t].page = TopPage /\ op'[t].m = op[t].m /\ op[t].m.w \in Windows
  BY <1>0, <1>3 DEF CallType
<1>7. \A y, p : p # 0 => (InHand(y, p)' <=> InHand(y, p) \/ (y = t /\ p = TopPage))
  BY <1>0, <1>2, <1>6 DEF InHand, Same
<1>8. \A x, y, z, p : x # "free" =>
        (Held(x, y, z, p)' <=> Held(x, y, z, p) \/ (x = "local" /\ y = t /\ z = 0 /\ p = TopPage))
  BY <1>1, <1>5, <1>7, <1>w DEF Held, InSpace, InWindow, InTable, Windows, Pages
<1>9. Owned'
  <2>1. PICK r : r = TopPage
    OBVIOUS
  <2>2. Held("local", t, 0, r)'
    BY <1>8, <2>1
  <2> QED
    BY <1>1, <1>4, <1>8, <2>1, <2>2, Allocated
<1>10. PageTypes' /\ Accounting' /\ StackOK'
  <2>1. \A u \in Tasks : op'[u].page \in 0 .. NumPages
    <3>1. op'[t].page \in 0 .. NumPages
      BY <1>5, <1>6 DEF Pages
    <3> QED
      BY <1>0, <1>2, <3>1 DEF PageTypes, Same
  <2> QED
    BY <1>0, <1>1, <1>4, <2>1, AllocFacts DEF PageTypes
<1>11. SizeOK(t)' /\ LoadOK(t)'
  BY <1>0, <1>1, <1>3, <1>5, <1>6, PageMemoryAssumption DEF SizeOK, LoadOK, Pages, Windows
<1> QED
  BY <1>2, <1>9, <1>10, <1>11, OneTaskP

\* ensure_next_table has a directory, or takes a page for one.
LEMMA WalkP ==
  ASSUME Preemptive = FALSE, PInv, WInv', NEW t \in Tasks, Walk(t)
  PROVE  PInv'
<1>0. Shape /\ PageTypes /\ SizeOK(t) /\ LoadOK(t) /\ pc[t] = "walk" /\ CallType(op[t])
  BY DEF PInv, WInv, Walk, At, Shape
<1>1. UNCHANGED <<space, entry, table, dir, mappings>> /\ \A u \in Tasks \ {t} : pc[u] \in Quiet /\ Same(u)
  BY <1>0, OthersQuiet DEF Walk, Goto, Shape, Same
<1>2. CASE dir # 0
  <2>1. op'[t] = [op[t] EXCEPT !.dir = dir] /\ pc'[t] = "map" /\ UNCHANGED alloc
    BY <1>0, <1>2 DEF Walk, Goto, Shape
  <2>2. op'[t].page = op[t].page /\ op'[t].dir = dir
    BY <1>0, <2>1 DEF CallType
  <2>3. SizeOK(t)' /\ LoadOK(t)'
    BY <1>0, <1>1, <2>1, <2>2 DEF SizeOK, LoadOK
  <2> QED
    BY <1>0, <1>1, <2>1, <2>2, <2>3, NothingMoves
<1>3. CASE dir = 0
  <2>1. AllocPage /\ op'[t] = [op[t] EXCEPT !.dir = TopPage] /\ pc'[t] = "link"
    BY <1>0, <1>3 DEF Walk, Goto, Shape
  <2>2. op'[t].page = op[t].page /\ op'[t].dir = TopPage
    BY <1>0, <2>1 DEF CallType
  <2>3. NobodyCounts /\ NobodyCounts'
    BY <1>0, <1>1, <2>1 DEF NobodyCounts, Quiet, Same
  <2>4. TopPage \in Pages
    BY <2>1, <2>3, AllocFacts
  <2>5. \A u \in Tasks : pc[u] # "link" /\ (pc'[u] = "link" <=> u = t)
    BY <1>0, <1>1, <2>1 DEF Quiet, Same
  <2>6. \A k, a, p : InWalk(k, a, p)' <=> InWalk(k, a, p) \/ (k = "link" /\ a = t /\ p = TopPage)
    BY <1>1, <2>2, <2>5 DEF InWalk
  <2>7. \A y, p : InHand(y, p)' <=> InHand(y, p)
    BY <1>1, <2>2 DEF InHand, Same
  <2>8. \A x, y, z, p : x # "free" =>
          (Held(x, y, z, p)' <=> Held(x, y, z, p) \/ (x = "link" /\ y = t /\ z = 0 /\ p = TopPage))
    BY <1>1, <2>4, <2>6, <2>7 DEF Held, InSpace, InWindow, InTable, Windows, Pages
  <2>9. Owned'
    <3>1. PICK r : r = TopPage
      OBVIOUS
    <3>2. Held("link", t, 0, r)'
      BY <2>8, <3>1
    <3> QED
      BY <2>1, <2>3, <2>8, <3>1, <3>2, Allocated
  <2>10. \A u \in Tasks : op'[u].page \in 0 .. NumPages
    BY <1>0, <1>1, <2>2 DEF PageTypes, Same
  <2>11. PageTypes' /\ Accounting' /\ StackOK'
    BY <1>0, <1>1, <2>1, <2>3, <2>10, AllocFacts DEF PageTypes
  <2>12. SizeOK(t)' /\ LoadOK(t)'
    BY <1>0, <1>1, <1>3, <2>1, <2>2, <2>4 DEF SizeOK, LoadOK
  <2> QED
    BY <1>1, <2>9, <2>11, <2>12, OneTaskP
<1> QED
  BY <1>2, <1>3

\* ensure_next_table writes the entry: nobody can have been faster.
LEMMA LinkP ==
  ASSUME Preemptive = FALSE, PInv, WInv', NEW t \in Tasks, Link(t)
  PROVE  PInv'
<1>0. /\ Shape /\ PageTypes /\ SizeOK(t) /\ pc[t] = "link" /\ dir = 0 /\ op[t].dir \in Pages /\ op[t].page # 0
  BY DEF PInv, WInv, Link, At, LoadOK
<1>1. PICK q : q = op[t].dir
  OBVIOUS
<1>2. UNCHANGED <<alloc, space, entry, table, mappings, op>> /\ dir' = q /\ pc'[t] = "map"
  BY <1>0, <1>1 DEF Link, Goto, Shape
<1>3. \A u \in Tasks \ {t} : pc[u] \in Quiet /\ Same(u)
  BY <1>0, OthersQuiet DEF Link, Goto, Shape, Same
<1>4. UNCHANGED <<free, freeCount, fresh, allocated, dropped>>
  BY <1>2 DEF alloc
<1>5. \A u \in Tasks : pc[u] # "count" /\ pc'[u] # "count" /\ (pc[u] = "link" <=> u = t) /\ pc'[u] # "link"
  BY <1>0, <1>2, <1>3 DEF Quiet, Same
<1>6. Cells' = Cells
  BY <1>4, <1>5 DEF Cells
<1>7. q # 0 /\ q \in 0 .. NumPages
  BY <1>0, <1>1 DEF Pages
<1>8. \A k, a, p : p # 0 => (InWalk(k, a, p)' <=> (InWalk(k, a, p) /\ ~(k = "link" /\ a = t)) \/ (k = "dir" /\ a = 0 /\ p = q))
  BY <1>0, <1>2, <1>5 DEF InWalk
<1>9. \A x, y, z, p : Held(x, y, z, p)' <=>
        \/ Held(x, y, z, p) /\ ~(x = "link" /\ y = t /\ z = 0)
        \/ x = "dir" /\ y = 0 /\ z = 0 /\ p = q
  BY <1>2, <1>4, <1>6, <1>7, <1>8 DEF Held, InSpace, InWindow, InTable, InHand, InStack, Windows
<1>10. Held("link", t, 0, q)
  BY <1>0, <1>1, <1>7 DEF Held, InWalk
<1>11. Owned'
  BY <1>4, <1>9, <1>10, Moved DEF PInv, SameFree
<1>12. PageTypes' /\ Accounting' /\ StackOK'
  BY <1>0, <1>2, <1>4, <1>7 DEF PInv, PageTypes, Accounting, StackOK
<1>13. SizeOK(t)' /\ LoadOK(t)'
  BY <1>0, <1>1, <1>2 DEF SizeOK, LoadOK
<1> QED
  BY <1>3, <1>11, <1>12, <1>13, OneTaskP

\* map_page: the page in hand goes to its entry, and the window's first page brings
\* a page for its page table.
LEMMA MapPageP ==
  ASSUME Preemptive = FALSE, PInv, WInv', NEW t \in Tasks, MapPage(t)
  PROVE  PInv'
<1>0. Shape /\ PageTypes /\ SizeOK(t) /\ pc[t] = "map" /\ CallType(op[t]) /\ op[t].page # 0
  BY DEF PInv, WInv, MapPage, At, Shape, LoadOK
<1>1. PICK w, v, q : w = op[t].m.w /\ v = op[t].m.base + op[t].i /\ q = op[t].page
  OBVIOUS
<1>2. w \in Windows /\ v \in Virts /\ entry[t][w][v] = 0 /\ q \in 0 .. NumPages /\ q # 0
  <2>1. WInv
    BY DEF PInv
  <2>2. op[t].m \in mappings[t] /\ op[t].i < op[t].m.n
    BY <1>0, <2>1, Parts DEF CallOK, MapLabels
  <2>3. w \in Windows /\ v \in Virts /\ v < op[t].m.base + op[t].m.n
    BY <1>0, <1>1, <2>2, Types, PageMemoryAssumption DEF Virts
  <2>4. entry[t][w][v] = 0
    BY <1>0, <1>1, <2>1, <2>3, Parts DEF ProgressOK, MapLabels, Virts
  <2> QED
    BY <1>0, <1>1, <2>3, <2>4 DEF PageTypes
<1>3. /\ entry' = [entry EXCEPT ![t][w][v] = q] /\ op' = [op EXCEPT ![t].i = @ + 1, ![t].page = 0]
      /\ pc' = [pc EXCEPT ![t] = IF op[t].i + 1 = op[t].m.n THEN "user" ELSE "alloc"]
      /\ UNCHANGED <<space, dir, next, mappings>>
      /\ IF table[t][w] = 0 THEN AllocPage /\ table' = [table EXCEPT ![t][w] = TopPage]
                            ELSE UNCHANGED <<alloc, table>>
  <2>1. ~Astray(t)
    BY <1>0 DEF PInv, LoadOK, Astray
  <2> QED
    BY <1>1, <2>1 DEF MapPage, Goto
<1>4. \A u \in Tasks \ {t} : pc[u] \in Quiet
  BY OthersQuiet DEF MapPage
<1>5. \A u \in Tasks \ {t} : Same(u)
  BY <1>0, <1>3 DEF Shape, Same
<1>6. pc'[t] \in {"user", "alloc"}
  BY <1>0, <1>3 DEF Shape
<1>7. op'[t].page = 0
  BY <1>6 DEF WInv, TaskInv, HandOK
<1>8. NobodyCounts /\ NobodyCounts'
  BY <1>0, <1>4, <1>5, <1>6 DEF NobodyCounts, Quiet, Same
<1>9. /\ \A x \in Tasks, a \in Windows, b \in Virts :
           entry'[x][a][b] = IF x = t /\ a = w /\ b = v THEN q ELSE entry[x][a][b]
      /\ entry' \in [Tasks -> [Windows -> [Virts -> 0 .. NumPages]]]
  BY SMTT(40), <1>0, <1>2, <1>3 DEF PageTypes
<1>10. \A y, p : p # 0 => (InHand(y, p)' <=> InHand(y, p) /\ y # t)
  BY <1>5, <1>7 DEF InHand, Same
<1>11. \A x, y, z, p : p # 0 => (InWindow(x, y, z, p)' <=> InWindow(x, y, z, p) \/ (x = w /\ y = t /\ z = v /\ p = q))
  BY <1>2, <1>9 DEF InWindow
<1>12. Held("local", t, 0, q)
  BY <1>1, <1>2 DEF Held, InHand
<1>13. SizeOK(t)' /\ LoadOK(t)'
  BY <1>0, <1>3, <1>6 DEF SizeOK, LoadOK
<1>14. \A u \in Tasks : op'[u].page \in 0 .. NumPages
  <2>1. 0 \in 0 .. NumPages
    BY PageMemoryAssumption
  <2> QED
    BY <1>0, <1>5, <1>7, <2>1 DEF PageTypes, Same
<1>15. /\ \A x, y, z, p : InSpace(y, z, p)' <=> InSpace(y, z, p)
       /\ \A k, a, p : InWalk(k, a, p)' <=> InWalk(k, a, p)
  <2>1. NobodyLinks /\ NobodyLinks'
    BY <1>0, <1>4, <1>5, <1>6 DEF NobodyLinks, Quiet, Same
  <2> QED
    BY <1>3, <2>1, WalkRests DEF InSpace
<1>16. CASE table[t][w] # 0
  <2>1. UNCHANGED <<free, freeCount, fresh, allocated, dropped, table>>
    BY <1>3, <1>16 DEF alloc
  <2>2. Cells' = Cells
    BY <1>8, <2>1 DEF Cells, NobodyCounts
  <2>3. \A x, y, z, p : Held(x, y, z, p)' <=>
          \/ Held(x, y, z, p) /\ ~(x = "local" /\ y = t /\ z = 0)
          \/ x = w /\ y = t /\ z = v /\ p = q
    BY <1>2, <1>10, <1>11, <1>15, <2>1, <2>2 DEF Held, InTable, InStack, Windows
  <2>4. Owned'
    BY <1>12, <2>1, <2>3, Moved DEF PInv, SameFree
  <2>5. PageTypes' /\ Accounting' /\ StackOK'
    BY <1>0, <1>3, <1>9, <1>14, <2>1 DEF PInv, PageTypes, Accounting, StackOK
  <2> QED
    BY <1>4, <1>5, <1>13, <2>4, <2>5, OneTaskP
<1>17. CASE table[t][w] = 0
  <2>1. AllocPage /\ table' = [table EXCEPT ![t][w] = TopPage]
    BY <1>3, <1>17
  <2>2. TopPage \in Pages
    BY <1>8, <2>1, AllocFacts
  <2>3. PICK r : r = TopPage
    OBVIOUS
  <2>4. /\ \A x \in Tasks, a \in Windows : table'[x][a] = IF x = t /\ a = w THEN r ELSE table[x][a]
        /\ table' \in [Tasks -> [Windows -> 0 .. NumPages]] /\ r \in 1 .. NumPages
    BY <1>0, <1>2, <2>1, <2>2, <2>3 DEF PageTypes, Pages
  <2>5. \A y, z, p : p # 0 => (InTable(y, z, p)' <=> InTable(y, z, p) \/ (y = t /\ z = w /\ p = r))
    BY <1>2, <1>17, <2>4 DEF InTable
  <2>6. \A x, y, z, p : x # "free" =>
          (Held(x, y, z, p)' <=>
            \/ Held(x, y, z, p) /\ ~(x = "local" /\ y = t /\ z = 0)
            \/ x = "table" /\ y = t /\ z = w /\ p = r
            \/ x = w /\ y = t /\ z = v /\ p = q)
    BY <1>2, <1>10, <1>11, <1>15, <2>4, <2>5 DEF Held, Windows
  <2>7. Held("table", t, w, r)' /\ Held(w, t, v, q)' /\ w # "free" /\ w # "table"
    BY <1>2, <2>6 DEF Windows
  <2>8. Owned'
    BY <1>8, <1>12, <2>1, <2>3, <2>6, <2>7, AllocatedAndMoved
  <2>9. PageTypes' /\ Accounting' /\ StackOK'
    BY <1>0, <1>3, <1>8, <1>9, <1>14, <2>1, <2>4, AllocFacts DEF PageTypes
  <2> QED
    BY <1>4, <1>5, <1>13, <2>8, <2>9, OneTaskP
<1> QED
  BY <1>16, <1>17

\* unmap_user_pages takes the page out of its entry.
LEMMA UnmapPageP ==
  ASSUME Preemptive = FALSE, PInv, WInv', NEW t \in Tasks, UnmapPage(t)
  PROVE  PInv'
<1>0. Shape /\ PageTypes /\ SizeOK(t) /\ pc[t] = "unmap" /\ CallType(op[t]) /\ op[t].page = 0 /\ op[t].i < op[t].m.n
  BY DEF PInv, WInv, UnmapPage, At, Shape, TaskInv, HandOK
<1>1. PICK w, v, q : w = op[t].m.w /\ v = op[t].m.base + op[t].i /\ q = entry[t][w][v]
  OBVIOUS
<1>2. w \in Windows /\ v \in Virts /\ q \in 0 .. NumPages
  <2>1. w \in Windows /\ v \in Virts
    BY <1>0, <1>1, Types, PageMemoryAssumption DEF Virts
  <2> QED
    BY <1>0, <1>1, <2>1 DEF PageTypes
<1>3. /\ entry' = [entry EXCEPT ![t][w][v] = 0] /\ op' = [op EXCEPT ![t].i = @ + 1, ![t].page = q]
      /\ pc' = [pc EXCEPT ![t] = IF q = 0 THEN "unmap" ELSE "load"]
      /\ UNCHANGED <<alloc, space, table, dir, mappings, next>>
  BY <1>1 DEF UnmapPage, Goto
<1>4. \A u \in Tasks \ {t} : pc[u] \in Quiet
  BY OthersQuiet DEF UnmapPage
<1>5. \A u \in Tasks \ {t} : Same(u)
  BY <1>0, <1>3 DEF Shape, Same
<1>6. pc'[t] = (IF q = 0 THEN "unmap" ELSE "load")
  BY <1>0, <1>3 DEF Shape
<1>7. op'[t].page = q
  <2>1. op'[t] = [op[t] EXCEPT !.i = @ + 1, !.page = q]
    BY <1>0, <1>3 DEF Shape
  <2> QED
    BY <1>0, <2>1 DEF CallType
<1>8. NobodyCounts /\ NobodyCounts'
  BY <1>0, <1>4, <1>5, <1>6 DEF NobodyCounts, Quiet, Same
<1>9. /\ \A x \in Tasks, a \in Windows, b \in Virts :
           entry'[x][a][b] = IF x = t /\ a = w /\ b = v THEN 0 ELSE entry[x][a][b]
      /\ entry' \in [Tasks -> [Windows -> [Virts -> 0 .. NumPages]]]
  <2>1. 0 \in 0 .. NumPages
    BY PageMemoryAssumption
  <2> QED
    BY SMTT(40), <1>0, <1>2, <1>3, <2>1 DEF PageTypes
<1>10. UNCHANGED <<free, freeCount, fresh, allocated, dropped, space, table>> /\ Cells' = Cells
  BY <1>3, <1>8 DEF alloc, Cells, NobodyCounts
<1>w. \A k, a, p : InWalk(k, a, p)' <=> InWalk(k, a, p)
  <2>1. NobodyLinks /\ NobodyLinks'
    BY <1>0, <1>4, <1>5, <1>6 DEF NobodyLinks, Quiet, Same
  <2> QED
    BY <1>3, <2>1, WalkRests
<1>11. \A y, p : p # 0 => (InHand(y, p)' <=> InHand(y, p) \/ (y = t /\ p = q))
  BY <1>0, <1>5, <1>7 DEF InHand, Same
<1>12. \A x, y, z, p : p # 0 => (InWindow(x, y, z, p)' <=> InWindow(x, y, z, p) /\ ~(x = w /\ y = t /\ z = v))
  BY <1>9 DEF InWindow
<1>13. \A x, y, z, p : Held(x, y, z, p)' <=>
        \/ Held(x, y, z, p) /\ ~(x = w /\ y = t /\ z = v)
        \/ x = "local" /\ y = t /\ z = 0 /\ p = q /\ q # 0
  BY <1>2, <1>10, <1>11, <1>12, <1>w DEF Held, InSpace, InTable, InStack, Windows
<1>14. Owned'
  <2>1. CASE q = 0
    <3>1. \A p : ~Held(w, t, v, p)
      BY <1>1, <1>2, <2>1 DEF Held, InWindow, Windows
    <3> QED
      BY <1>10, <1>13, <2>1, <3>1, Kept DEF PInv, SameFree
  <2>2. CASE q # 0
    <3>1. Held(w, t, v, q)
      BY <1>1, <1>2, <2>2 DEF Held, InWindow
    <3> QED
      BY <1>10, <1>13, <2>2, <3>1, Moved DEF PInv, SameFree
  <2> QED
    BY <2>1, <2>2
<1>15. \A u \in Tasks : op'[u].page \in 0 .. NumPages
  BY <1>0, <1>2, <1>5, <1>7 DEF PageTypes, Same
<1>16. PageTypes' /\ Accounting' /\ StackOK'
  BY <1>0, <1>3, <1>9, <1>10, <1>15 DEF PInv, PageTypes, Accounting, StackOK
<1>17. SizeOK(t)' /\ LoadOK(t)'
  BY <1>0, <1>3, <1>6, <1>7 DEF SizeOK, LoadOK
<1> QED
  BY <1>4, <1>5, <1>14, <1>16, <1>17, OneTaskP

\* free_page reads the count: a full stack refuses the page.
LEMMA FreeLoadP ==
  ASSUME Preemptive = FALSE, PInv, WInv', NEW t \in Tasks, FreeLoad(t)
  PROVE  PInv'
<1>0. Shape /\ PageTypes /\ SizeOK(t) /\ pc[t] = "load" /\ CallType(op[t]) /\ op[t].page # 0
  BY DEF PInv, WInv, FreeLoad, At, Shape, LoadOK
<1>1. PICK q : q = op[t].page
  OBVIOUS
<1>2. /\ UNCHANGED <<free, freeCount, fresh, allocated, space, entry, table, dir, mappings>>
      /\ freeCount \in Nat /\ q \in Pages /\ q # 0
  BY <1>0, <1>1 DEF FreeLoad, PageTypes, Pages
<1>3. \A u \in Tasks \ {t} : pc[u] \in Quiet /\ Same(u)
  BY <1>0, OthersQuiet DEF FreeLoad, Shape, Same, Goto
<1>4. CASE freeCount >= FreeStackMax
  <2>1. dropped' = dropped \cup {q} /\ pc'[t] = "unmap"
    BY <1>0, <1>1, <1>4 DEF FreeLoad, Goto, Shape
  <2>2. op'[t].page = 0
    BY <2>1 DEF WInv, TaskInv, HandOK
  <2>3. NobodyCounts /\ NobodyCounts'
    BY <1>0, <1>3, <2>1 DEF NobodyCounts, Quiet, Same
  <2>4. Cells' = Cells
    BY <1>2, <2>3 DEF Cells, NobodyCounts
  <2>w. \A k, a, p : InWalk(k, a, p)' <=> InWalk(k, a, p)
    BY <1>0, <1>2, <1>3, <2>1, WalkRests DEF NobodyLinks, Quiet, Same
  <2>5. \A y, p : p # 0 => (InHand(y, p)' <=> InHand(y, p) /\ y # t)
    BY <1>3, <2>2 DEF InHand, Same
  <2>6. \A x, y, z, p : Held(x, y, z, p)' <=> Held(x, y, z, p) /\ ~(x = "local" /\ y = t /\ z = 0)
    BY <1>2, <2>4, <2>5, <2>w DEF Held, InSpace, InWindow, InTable, InStack, Windows
  <2>7. Held("local", t, 0, q)
    BY <1>1, <1>2 DEF Held, InHand
  <2>8. Owned'
    BY <1>2, <2>1, <2>6, <2>7, Refused DEF PInv
  <2>9. \A u \in Tasks : op'[u].page \in 0 .. NumPages
    <3>1. 0 \in 0 .. NumPages
      BY PageMemoryAssumption
    <3> QED
      BY <1>0, <1>3, <2>2, <3>1 DEF PageTypes, Same
  <2>10. PageTypes' /\ Accounting' /\ StackOK'
    BY <1>0, <1>2, <2>1, <2>9 DEF PInv, PageTypes, Accounting, StackOK
  <2>11. SizeOK(t)' /\ LoadOK(t)'
    BY <1>0, <1>2, <2>1 DEF SizeOK, LoadOK
  <2> QED
    BY <1>3, <2>8, <2>10, <2>11, OneTaskP
<1>5. CASE freeCount < FreeStackMax
  <2>1. /\ op' = [op EXCEPT ![t].cnt = freeCount] /\ pc' = [pc EXCEPT ![t] = "store"] /\ dropped' = dropped
    BY <1>2, <1>5, PageMemoryAssumption DEF FreeLoad, Goto
  <2>2. pc'[t] = "store" /\ op'[t] = [op[t] EXCEPT !.cnt = freeCount]
    BY <1>0, <2>1 DEF Shape
  <2>3. op'[t].page = op[t].page /\ op'[t].cnt = freeCount
    BY <1>0, <2>2 DEF CallType
  <2>4. SizeOK(t)' /\ LoadOK(t)'
    BY <1>0, <1>2, <1>5, <2>2, <2>3 DEF SizeOK, LoadOK
  <2>5. UNCHANGED alloc /\ pc[t] \notin {"count", "link"} /\ pc'[t] \notin {"count", "link"}
    BY <1>0, <1>2, <2>1, <2>2 DEF alloc
  <2> QED
    BY <1>2, <1>3, <2>3, <2>4, <2>5, NothingMoves
<1> QED
  BY <1>2, <1>4, <1>5, PageMemoryAssumption

\* free_page stores the page in the cell above the stack.
LEMMA FreeStoreP ==
  ASSUME Preemptive = FALSE, PInv, WInv', NEW t \in Tasks, FreeStore(t)
  PROVE  PInv'
<1>0. Shape /\ PageTypes /\ SizeOK(t) /\ pc[t] = "store" /\ CallType(op[t]) /\ op[t].page # 0
      /\ op[t].cnt = freeCount /\ freeCount < FreeStackMax
  BY DEF PInv, WInv, FreeStore, At, Shape, LoadOK
<1>1. PICK q, n : q = op[t].page /\ n = freeCount
  OBVIOUS
<1>2. /\ UNCHANGED <<freeCount, fresh, allocated, dropped, space, entry, table, dir, mappings>>
      /\ free' = [free EXCEPT ![n] = q] /\ op' = [op EXCEPT ![t].page = 0] /\ pc' = [pc EXCEPT ![t] = "count"]
  BY <1>0, <1>1 DEF FreeStore, Goto
<1>3. n \in Nat /\ n \in 0 .. FreeStackMax - 1 /\ q \in 0 .. NumPages /\ q # 0
  BY <1>0, <1>1, PageMemoryAssumption DEF PageTypes
<1>4. \A u \in Tasks \ {t} : pc[u] \in Quiet /\ Same(u)
  BY <1>0, <1>2, OthersQuiet DEF FreeStore, Shape, Same
<1>5. pc'[t] = "count" /\ op'[t] = [op[t] EXCEPT !.page = 0]
  BY <1>0, <1>2 DEF Shape
<1>6. op'[t].page = 0 /\ op'[t].cnt = n
  BY <1>0, <1>1, <1>5 DEF CallType
<1>7. /\ free' \in [0 .. FreeStackMax - 1 -> 0 .. NumPages] /\ free'[n] = q
      /\ \A i \in 0 .. n - 1 : free'[i] = free[i]
  <2>1. \A i \in 0 .. n - 1 : i \in 0 .. FreeStackMax - 1 /\ i # n
    BY <1>3, PageMemoryAssumption
  <2> QED
    BY <1>0, <1>2, <1>3, <2>1 DEF PageTypes
<1>8. \A u \in Tasks : pc[u] # "count" /\ (pc'[u] = "count" <=> u = t)
  BY <1>0, <1>4, <1>5 DEF Quiet, Same
<1>9. Cells = 0 .. n - 1 /\ Cells' = (0 .. n - 1) \cup {n}
  <2>1. Cells = 0 .. n - 1
    BY <1>1, <1>8 DEF Cells
  <2>2. {op'[u].cnt : u \in {x \in Tasks : pc'[x] = "count"}} = {n}
    BY <1>6, <1>8
  <2> QED
    BY <1>1, <1>2, <2>1, <2>2 DEF Cells
<1>10. \A k, p : p # 0 => (InStack(k, p)' <=> InStack(k, p) \/ (k = n /\ p = q))
  BY <1>3, <1>7, <1>9 DEF InStack
<1>11. \A y, p : p # 0 => (InHand(y, p)' <=> InHand(y, p) /\ y # t)
  BY <1>4, <1>6 DEF InHand, Same
<1>w. \A k, a, p : InWalk(k, a, p)' <=> InWalk(k, a, p)
  BY <1>0, <1>2, <1>4, <1>5, WalkRests DEF NobodyLinks, Quiet, Same
<1>12. \A x, y, z, p : Held(x, y, z, p)' <=>
         \/ Held(x, y, z, p) /\ ~(x = "local" /\ y = t /\ z = 0)
         \/ x = "free" /\ y = n /\ z = 0 /\ p = q
  BY <1>2, <1>3, <1>10, <1>11, <1>w DEF Held, InSpace, InWindow, InTable, Windows
<1>13. Owned'
  <2>1. Held("local", t, 0, q)
    BY <1>1, <1>3 DEF Held, InHand
  <2> QED
    BY <1>2, <1>12, <2>1, Moved DEF PInv, SameFree
<1>14. \A u \in Tasks : op'[u].page \in 0 .. NumPages
  <2>1. 0 \in 0 .. NumPages
    BY PageMemoryAssumption
  <2> QED
    BY <1>0, <1>4, <1>6, <2>1 DEF PageTypes, Same
<1>15. PageTypes' /\ Accounting'
  BY <1>0, <1>2, <1>7, <1>14 DEF PInv, PageTypes, Accounting
<1>16. StackOK'
  BY <1>1, <1>2, <1>7 DEF PInv, StackOK
<1>17. SizeOK(t)' /\ LoadOK(t)'
  BY <1>0, <1>1, <1>2, <1>3, <1>5, <1>6, <1>7 DEF SizeOK, LoadOK
<1> QED
  BY <1>4, <1>13, <1>15, <1>16, <1>17, OneTaskP

\* free_page counts the cell it filled.
LEMMA FreeCountP ==
  ASSUME Preemptive = FALSE, PInv, WInv', NEW t \in Tasks, FreeCount(t)
  PROVE  PInv'
<1>0. Shape /\ PageTypes /\ SizeOK(t) /\ pc[t] = "count" /\ Accounting /\ StackOK /\ Owned
      /\ op[t].cnt = freeCount /\ freeCount < FreeStackMax /\ free[freeCount] # 0 /\ freeCount \in Nat
  <2>1. Shape /\ PageTypes /\ SizeOK(t) /\ pc[t] = "count" /\ Accounting /\ StackOK /\ Owned /\ LoadOK(t)
    BY DEF PInv, WInv, FreeCount, At
  <2> QED
    BY SMTT(60), <2>1, PageMemoryAssumption DEF LoadOK, PageTypes
<1>1. /\ UNCHANGED <<free, fresh, dropped, space, entry, table, dir, mappings, op>>
      /\ freeCount' = freeCount + 1 /\ allocated' = MonusOne(allocated) /\ pc' = [pc EXCEPT ![t] = "unmap"]
  BY <1>0 DEF FreeCount, Goto
<1>2. \A u \in Tasks \ {t} : pc[u] \in Quiet /\ Same(u)
  BY <1>0, <1>1, OthersQuiet DEF FreeCount, Shape, Same
<1>3. pc'[t] = "unmap"
  BY <1>0, <1>1 DEF Shape
<1>4. \A u \in Tasks : (pc[u] = "count" <=> u = t) /\ pc'[u] # "count"
  BY <1>0, <1>2, <1>3 DEF Quiet, Same
<1>5. Cells = 0 .. freeCount /\ Cells' = 0 .. freeCount
  <2>1. {op[u].cnt : u \in {x \in Tasks : pc[x] = "count"}} = {freeCount}
    BY <1>0, <1>4
  <2>2. Cells = (0 .. freeCount - 1) \cup {freeCount}
    BY <2>1 DEF Cells
  <2>3. Cells' = 0 .. (freeCount + 1) - 1
    BY <1>1, <1>4 DEF Cells
  <2> QED
    BY <1>0, <2>2, <2>3
<1>w. \A k, a, p : InWalk(k, a, p)' <=> InWalk(k, a, p)
  BY <1>0, <1>1, <1>2, <1>3, WalkRests DEF NobodyLinks, Quiet, Same
<1>6. \A x, y, z, p : Held(x, y, z, p)' <=> Held(x, y, z, p)
  BY <1>1, <1>5, <1>w DEF Held, InSpace, InWindow, InTable, InHand, InStack
<1>7. Owned'
  BY <1>0, <1>1, <1>6, Kept DEF SameFree
<1>8. \A i \in 0 .. freeCount : free[i] # 0
  BY <1>0 DEF StackOK
<1>9. \A i \in 0 .. freeCount : Held("free", i, 0, free[i])
  BY <1>5, <1>8 DEF Held, InStack
<1>10. freeCount + 1 <= fresh - 1
  <2>1. \A i \in 0 .. freeCount : free[i] \in 1 .. fresh - 1
    BY <1>0, <1>9 DEF Owned, Below
  <2>2. \A i, j \in 0 .. freeCount : free[i] = free[j] => i = j
    BY <1>0, <1>9 DEF Owned, Unique
  <2>3. fresh - 1 \in Nat /\ freeCount + 1 \in Nat /\ (freeCount + 1) - 1 = freeCount
    BY <1>0, PageMemoryAssumption DEF PageTypes
  <2> QED
    BY <2>1, <2>2, <2>3, Pigeon
<1>11. Accounting'
  BY <1>0, <1>1, <1>10, PageMemoryAssumption DEF Accounting, MonusOne, PageTypes
<1>12. StackOK'
  BY <1>0, <1>1, <1>8 DEF StackOK
<1>13. PageTypes'
  BY <1>0, <1>1, PageMemoryAssumption DEF PageTypes
<1>14. SizeOK(t)' /\ LoadOK(t)'
  BY <1>0, <1>1, <1>3 DEF SizeOK, LoadOK
<1> QED
  BY <1>2, <1>7, <1>11, <1>12, <1>13, <1>14, OneTaskP

\* reclaim_process_window_tables frees a window's page table.
LEMMA ReclaimTableP ==
  ASSUME Preemptive = FALSE, PInv, WInv', NEW t \in Tasks, NEW w \in Windows, ReclaimTable(t, w)
  PROVE  PInv'
<1>0. Shape /\ PageTypes /\ SizeOK(t) /\ pc[t] = "reclaim" /\ table[t][w] # 0
  BY DEF PInv, WInv, ReclaimTable, At
<1>1. PICK q : q = table[t][w]
  OBVIOUS
<1>2. /\ FreePage(q) /\ UNCHANGED <<space, entry, dir, mappings, pc, op>> /\ table' = [table EXCEPT ![t][w] = 0]
      /\ q \in Pages /\ q # 0
  BY <1>0, <1>1 DEF ReclaimTable, PageTypes, Pages
<1>3. \A u \in Tasks \ {t} : pc[u] \in Quiet /\ Same(u)
  BY <1>0, OthersQuiet DEF ReclaimTable, Shape, Same
<1>4. NobodyCounts /\ NobodyCounts'
  BY <1>0, <1>2, <1>3 DEF NobodyCounts, Quiet
<1>5. /\ \A x \in Tasks, a \in Windows : table'[x][a] = IF x = t /\ a = w THEN 0 ELSE table[x][a]
      /\ table' \in [Tasks -> [Windows -> 0 .. NumPages]]
  <2>1. 0 \in 0 .. NumPages
    BY PageMemoryAssumption
  <2> QED
    BY <1>0, <1>2, <2>1 DEF PageTypes
<1>6. \A y, z, p : p # 0 => (InTable(y, z, p)' <=> InTable(y, z, p) /\ ~(y = t /\ z = w))
  BY <1>5 DEF InTable
<1>w. \A k, a, p : InWalk(k, a, p)' <=> InWalk(k, a, p)
  BY <1>0, <1>2, <1>3, WalkRests DEF NobodyLinks, Quiet
<1>7. \A x, y, z, p : x # "free" =>
        (Held(x, y, z, p)' <=> Held(x, y, z, p) /\ ~(x = "table" /\ y = t /\ z = w))
  BY <1>2, <1>6, <1>w DEF Held, InSpace, InWindow, InHand, Windows
<1>8. Held("table", t, w, q)
  BY <1>1, <1>2 DEF Held, InTable
<1>9. /\ Owned' /\ Accounting' /\ StackOK'
      /\ free' \in [0 .. FreeStackMax - 1 -> 0 .. NumPages] /\ freeCount' \in 0 .. FreeStackMax
      /\ fresh' = fresh /\ dropped' \subseteq Pages
  BY <1>2, <1>4, <1>7, <1>8, Freed
<1>10. PageTypes'
  BY <1>0, <1>2, <1>5, <1>9 DEF PageTypes
<1>11. SizeOK(t)' /\ LoadOK(t)'
  BY <1>0, <1>2 DEF SizeOK, LoadOK
<1> QED
  BY <1>3, <1>9, <1>10, <1>11, OneTaskP
-----------------------------------------------------------------------------
LEMMA InitP == Init => PInv
<1> SUFFICES ASSUME Init PROVE PInv
  OBVIOUS
<1>1. \A u \in Tasks : pc[u] = "dead" /\ space[u] = <<>> /\ op[u].page = 0 /\ mappings[u] = {}
  BY DEF Init, NoOp
<1>2. Cells = {} /\ freeCount = 0 /\ fresh = 1
  BY <1>1 DEF Init, Cells
<1>3. \A k, a, b, p : ~Held(k, a, b, p)
  <2>1. /\ \A u \in Tasks, w \in Windows : table[u][w] = 0
        /\ \A u \in Tasks, w \in Windows, v \in Virts : entry[u][w][v] = 0
    BY DEF Init
  <2>2. \A k, a, p : p # 0 => ~InWalk(k, a, p)
    BY <1>1 DEF InWalk, Init
  <2> QED
    BY <1>1, <1>2, <2>1, <2>2 DEF Held, InSpace, InWindow, InTable, InHand, InStack
<1>4. Owned
  BY <1>2, <1>3 DEF Owned, Unique, Below, Covered
<1>5. PageTypes /\ Accounting /\ StackOK /\ AloneOK
  <2>1. free \in [0 .. FreeStackMax - 1 -> 0 .. NumPages]
    BY PageMemoryAssumption DEF Init
  <2>2. space \in [Tasks -> Seq(Pages)]
    BY DEF Init
  <2>3. /\ entry \in [Tasks -> [Windows -> [Virts -> 0 .. NumPages]]]
        /\ table \in [Tasks -> [Windows -> 0 .. NumPages]]
    BY PageMemoryAssumption DEF Init
  <2>4. /\ dir \in 0 .. NumPages /\ freeCount \in 0 .. FreeStackMax /\ fresh \in 1 .. NumPages + 1 /\ dropped \subseteq Pages
        /\ \A t \in Tasks : op[t].page \in 0 .. NumPages
    BY <1>1, <1>2, PageMemoryAssumption DEF Init
  <2>5. Accounting /\ StackOK /\ AloneOK
    BY <1>1, <1>2 DEF Init, Accounting, StackOK, AloneOK, Quiet
  <2> QED
    BY <2>1, <2>2, <2>3, <2>4, <2>5 DEF PageTypes
<1>6. \A t \in Tasks : SizeOK(t) /\ LoadOK(t)
  <2>1. IsFiniteSet({}) /\ Cardinality({}) = 0
    BY FS_EmptySet
  <2> QED
    <3>1. 0 <= SpacePages /\ 0 <= MappingMax
      BY PageMemoryAssumption
    <3>2. ASSUME NEW t \in Tasks PROVE SizeOK(t)
      <4>1. Len(space[t]) = 0
        BY <1>1
      <4>2. mappings[t] = {}
        BY <1>1
      <4> QED
        BY <2>1, <3>1, <4>1, <4>2 DEF SizeOK
    <3> QED
      BY <1>1, <3>2 DEF LoadOK
<1> QED
  BY <1>4, <1>5, <1>6, InitW DEF PInv

LEMMA StutterP == PInv /\ UNCHANGED vars => PInv'
<1> SUFFICES ASSUME PInv, UNCHANGED vars PROVE PInv'
  OBVIOUS
<1>1. UNCHANGED <<free, freeCount, fresh, allocated, dropped, space, entry, table, dir, mappings, pc, op>>
  BY DEF vars, alloc
<1>2. WInv'
  BY StutterW DEF PInv
<1>3. \A x, y, z, p : Held(x, y, z, p)' <=> Held(x, y, z, p)
  BY <1>1 DEF Held, InSpace, InWindow, InTable, InHand, InStack, InWalk, Cells
<1>4. Owned'
  BY <1>1, <1>3, Kept DEF PInv, SameFree
<1>5. PageTypes' /\ Accounting' /\ StackOK' /\ AloneOK'
  BY <1>1 DEF PInv, PageTypes, Accounting, StackOK, AloneOK
<1>6. \A t \in Tasks : SizeOK(t)' /\ LoadOK(t)'
  BY <1>1 DEF PInv, SizeOK, LoadOK
<1> QED
  BY <1>2, <1>4, <1>5, <1>6 DEF PInv

\* Every step preserves the owners' invariant when no tick lands inside a call.
LEMMA NextP == Preemptive = FALSE /\ PInv /\ [Next]_vars => PInv'
<1> SUFFICES ASSUME Preemptive = FALSE, PInv, [Next]_vars PROVE PInv'
  OBVIOUS
<1>0. WInv'
  BY NextW DEF PInv
<1>1. ASSUME NEW t \in Tasks, KernelStep(t) PROVE PInv'
  BY <1>0, <1>1, SpacePassP, SpaceAllocP, SpaceDropP, MapAllocP, WalkP, LinkP, RollBackP, MapPageP, UnmapPageP,
     FreeLoadP, FreeStoreP, FreeCountP, UnmapDoneP, TakeMappingP, ReclaimTableP
  DEF KernelStep
<1>2. ASSUME NEW t \in Tasks, UserStep(t) PROVE PInv'
  BY <1>0, <1>2, SpacePassP, MemMapP, TakeMappingP DEF UserStep
<1> QED
  BY <1>1, <1>2, StutterP DEF Next

-----------------------------------------------------------------------------
(***************************************************************************)
(* The third part: all of a tracked mapping is mapped.                     *)
(***************************************************************************)

\* What is not mapped of t's tracked mappings: of the one it is mapping the pages it
\* has not come to, of the one it failed to map any.
FullOK(t) ==
  Live(t) => \A m \in mappings[t], v \in Virts : Covers(m, m.w, v) =>
    \/ entry[t][m.w][v] # 0
    \/ pc[t] \in MapLabels /\ m = op[t].m /\ v >= m.base + op[t].i
    \/ pc[t] \in UnmapLabels /\ op[t].then = "failed" /\ m.w = op[t].m.w /\ m.base = op[t].m.base

\* What t is unmapping lies apart from what stays tracked.
ClearOK(t) ==
  pc[t] \in UnmapLabels /\ op[t].then # "reclaim" => \A m \in mappings[t] : m.w = op[t].m.w =>
    \/ op[t].then = "failed" /\ m.base = op[t].m.base
    \/ m.base + m.n <= op[t].m.base
    \/ op[t].m.base + op[t].m.n <= m.base

FInv == PInv /\ \A t \in Tasks : FullOK(t) /\ ClearOK(t)

LEMMA SameFull ==
  ASSUME NEW u \in Tasks, FullOK(u), ClearOK(u), Same(u)
  PROVE  FullOK(u)' /\ ClearOK(u)'
  BY DEF FullOK, ClearOK, Live, Same

\* Spawning and exiting: nothing is tracked, or nothing has to be mapped any more.
LEMMA SpaceF ==
  ASSUME FInv, NEW t \in Tasks,
         \/ SpawnStart(t) \/ SpaceAlloc(t) \/ SpaceReady(t) \/ SpaceFails(t) \/ SpaceDrop(t) \/ SpaceGone(t)
         \/ Exit(t) \/ Reclaimed(t) \/ ReclaimMapping(t) \/ \E w \in Windows : ReclaimTable(t, w)
  PROVE  FullOK(t)' /\ ClearOK(t)' /\ \A u \in Tasks \ {t} : Same(u)
<1>0. Shape /\ EmptyOK(t)
  BY Parts DEF FInv, PInv, WInv
<1>1. CASE SpaceReady(t)
  BY <1>0, <1>1 DEF SpaceReady, At, Goto, Shape, EmptyOK, FullOK, ClearOK, UnmapLabels, Same
<1>2. CASE ReclaimMapping(t)
  <2>1. PICK m \in mappings[t] :
          /\ mappings' = [mappings EXCEPT ![t] = @ \ {m}]
          /\ op' = [op EXCEPT ![t] = [NoOp EXCEPT !.m = m, !.then = "reclaim"]]
    BY <1>2 DEF ReclaimMapping
  <2>2. op'[t].then = "reclaim" /\ pc'[t] = "unmap"
    <3>1. op'[t] = [NoOp EXCEPT !.m = m, !.then = "reclaim"]
      BY <1>0, <2>1 DEF Shape
    <3> QED
      BY <1>0, <1>2, <3>1 DEF ReclaimMapping, Goto, Shape, NoOp
  <2>3. \A u \in Tasks \ {t} : Same(u)
    BY <1>0, <1>2, <2>1 DEF ReclaimMapping, Goto, Shape, Same
  <2> QED
    BY <2>2, <2>3 DEF FullOK, ClearOK, Live, MapLabels, UnmapLabels
<1>3. CASE SpawnStart(t) \/ SpaceAlloc(t) \/ SpaceFails(t) \/ SpaceDrop(t) \/ SpaceGone(t) \/ Exit(t) \/ Reclaimed(t)
  <2>1. pc'[t] \in {"dead", "space", "drop", "reclaim"}
    BY <1>0, <1>3 DEF SpawnStart, SpaceAlloc, SpaceFails, SpaceDrop, SpaceGone, Exit, Reclaimed, At, Goto, Shape
  <2>2. \A u \in Tasks \ {t} : Same(u)
    BY <1>0, <1>3 DEF SpawnStart, SpaceAlloc, SpaceFails, SpaceDrop, SpaceGone, Exit, Reclaimed, Goto, Shape, Same
  <2> QED
    BY <2>1, <2>2 DEF FullOK, ClearOK, Live, MapLabels, UnmapLabels
<1>4. ASSUME NEW w \in Windows, ReclaimTable(t, w) PROVE FullOK(t)' /\ ClearOK(t)' /\ \A u \in Tasks \ {t} : Same(u)
  BY <1>0, <1>4 DEF ReclaimTable, At, Shape, Same, FullOK, ClearOK, Live, MapLabels, UnmapLabels
<1> QED
  BY <1>1, <1>2, <1>3, <1>4

\* map_user_pages and map_page on the way to the entry, and free_page.
LEMMA CallF ==
  ASSUME FInv, NEW t \in Tasks,
         MapAlloc(t) \/ Walk(t) \/ Link(t) \/ FreeLoad(t) \/ FreeStore(t) \/ FreeCount(t)
  PROVE  FullOK(t)' /\ ClearOK(t)' /\ \A u \in Tasks \ {t} : Same(u)
<1>0. Shape /\ CallType(op[t]) /\ LoadOK(t) /\ FullOK(t) /\ ClearOK(t)
  BY DEF FInv, PInv, WInv, Shape
<1> USE DEF MapAlloc, Walk, Link, FreeLoad, FreeStore, FreeCount
<1>1. /\ UNCHANGED <<space, entry, table, next, mappings>>
      /\ (pc[t] \in MapLabels /\ pc'[t] \in MapLabels) \/ (pc[t] \in UnmapLabels /\ pc'[t] \in UnmapLabels)
      /\ DOMAIN op' = Tasks /\ \A u \in Tasks \ {t} : pc'[u] = pc[u] /\ op'[u] = op[u]
  BY <1>0 DEF At, Goto, Shape, LoadOK, MapLabels, UnmapLabels
<1>2. \/ op'[t] = op[t]
      \/ \E d : op'[t] = [op[t] EXCEPT !.page = d]
      \/ \E d : op'[t] = [op[t] EXCEPT !.dir = d]
      \/ \E d : op'[t] = [op[t] EXCEPT !.cnt = d]
  BY <1>0 DEF Shape
<1>3. op'[t].m = op[t].m /\ op'[t].i = op[t].i /\ op'[t].then = op[t].then
  BY <1>0, <1>2 DEF CallType
<1> HIDE DEF MapAlloc, Walk, Link, FreeLoad, FreeStore, FreeCount
<1>4. \A u \in Tasks \ {t} : Same(u)
  BY <1>1 DEF Same
<1>5. FullOK(t)' /\ ClearOK(t)'
  BY <1>0, <1>1, <1>3 DEF FullOK, ClearOK, Live, MapLabels, UnmapLabels
<1> QED
  BY <1>4, <1>5

\* A call tracks a mapping before it maps it.
LEMMA MemMapF ==
  ASSUME FInv, NEW t \in Tasks, NEW w \in Windows, NEW n \in 1 .. WindowPages, NEW g \in 0 .. 1,
         MemMap(t, w, n, g)
  PROVE  FullOK(t)' /\ ClearOK(t)' /\ \A u \in Tasks \ {t} : Same(u)
<1>0. Shape /\ FullOK(t) /\ ClearOK(t) /\ pc[t] = "user"
  BY DEF FInv, PInv, WInv, MemMap, At
<1>1. \A u \in Tasks \ {t} : Same(u)
  BY <1>0 DEF Shape, Same, MemMap, Goto
<1>2. entry' = entry
  BY DEF MemMap
<1>3. CASE UNCHANGED <<mappings, op, pc>>
  BY <1>0, <1>1, <1>2, <1>3 DEF FullOK, ClearOK, Live
<1>4. ASSUME NEW m, m = [w |-> w, base |-> next[t][w] + g, n |-> n, guard |-> g],
             mappings' = [mappings EXCEPT ![t] = @ \cup {m}],
             op' = [op EXCEPT ![t] = [NoOp EXCEPT !.m = m]], pc' = [pc EXCEPT ![t] = "alloc"]
      PROVE  FullOK(t)' /\ ClearOK(t)'
  <2>1. mappings'[t] = mappings[t] \cup {m} /\ pc'[t] = "alloc" /\ op'[t] = [NoOp EXCEPT !.m = m]
    BY <1>0, <1>4 DEF Shape
  <2>2. op'[t].m = m /\ op'[t].i = 0
    BY <2>1 DEF NoOp
  <2>3. m.base \in Nat
    BY <1>0, <1>4, Types
  <2>4. FullOK(t)'
    BY <1>0, <1>2, <2>1, <2>2, <2>3 DEF FullOK, Live, MapLabels, UnmapLabels, Covers, Virts
  <2> QED
    BY <2>1, <2>4 DEF ClearOK, UnmapLabels
<1> QED
  BY <1>1, <1>3, <1>4 DEF MemMap, Goto

\* map_page writes the entry.
LEMMA MapPageF ==
  ASSUME FInv, NEW t \in Tasks, MapPage(t)
  PROVE  FullOK(t)' /\ ClearOK(t)' /\ \A u \in Tasks \ {t} : Same(u)
<1>0. Shape /\ CallType(op[t]) /\ FullOK(t) /\ pc[t] = "map" /\ op[t].page # 0 /\ ~Astray(t)
  BY DEF FInv, PInv, WInv, MapPage, At, Shape, LoadOK, Astray
<1>1. PICK w, v, q : w = op[t].m.w /\ v = op[t].m.base + op[t].i /\ q = op[t].page
  OBVIOUS
<1>2. /\ entry' = [entry EXCEPT ![t][w][v] = q] /\ op' = [op EXCEPT ![t].i = @ + 1, ![t].page = 0]
      /\ pc' = [pc EXCEPT ![t] = IF op[t].i + 1 = op[t].m.n THEN "user" ELSE "alloc"]
      /\ table' = table \/ table' = [table EXCEPT ![t][w] = TopPage]
      /\ UNCHANGED <<space, next, mappings>>
  BY <1>0, <1>1 DEF MapPage, Goto
<1>3. \A u \in Tasks \ {t} : Same(u)
  BY <1>0, <1>2 DEF Shape, Same
<1>4. op'[t] = [op[t] EXCEPT !.i = @ + 1, !.page = 0]
  BY <1>0, <1>2 DEF Shape
<1>5. /\ op'[t].m = op[t].m /\ op'[t].i = op[t].i + 1
      /\ pc'[t] = IF op[t].i + 1 = op[t].m.n THEN "user" ELSE "alloc"
  BY <1>0, <1>2, <1>4 DEF CallType, Shape
<1>6. w \in Windows /\ v \in Virts /\ op[t].i < op[t].m.n
  <2>1. op[t].i < op[t].m.n
    BY <1>0, Parts DEF FInv, PInv, CallOK, MapLabels
  <2> QED
    BY <1>0, <1>1, <2>1, Types, PageMemoryAssumption DEF Virts
<1>7. \A a \in Windows, b \in Virts : entry'[t][a][b] = IF a = w /\ b = v THEN q ELSE entry[t][a][b]
  BY <1>0, <1>2, <1>6 DEF Shape
<1>8. ASSUME NEW m \in mappings[t], NEW b \in Virts, Covers(m, m.w, b), entry'[t][m.w][b] = 0
      PROVE  pc'[t] \in MapLabels /\ m = op'[t].m /\ b >= m.base + op'[t].i
  <2>1. m.w \in Windows /\ m.base \in Nat /\ m.n \in Nat /\ b \in Nat
    BY <1>0, Types DEF Virts
  <2>2. ~(m.w = w /\ b = v) /\ entry[t][m.w][b] = 0
    BY <1>0, <1>1, <1>7, <1>8, <2>1
  <2>3. m = op[t].m /\ b >= m.base + op[t].i
    BY <1>0, <1>8, <2>2 DEF FullOK, Live, MapLabels, UnmapLabels
  <2>4. b >= m.base + (op[t].i + 1)
    BY <1>0, <1>1, <2>1, <2>2, <2>3, Types
  <2>5. op[t].i + 1 # op[t].m.n
    BY <1>0, <1>8, <2>1, <2>3, <2>4, Types DEF Covers
  <2> QED
    BY <1>5, <2>3, <2>4, <2>5 DEF MapLabels
<1>9. FullOK(t)'
  BY <1>2, <1>8 DEF FullOK, Covers
<1>10. ClearOK(t)'
  BY <1>5 DEF ClearOK, UnmapLabels
<1> QED
  BY <1>3, <1>9, <1>10

\* A call that fails gives up all of its mapping, and no other.
LEMMA RollBackF ==
  ASSUME FInv, NEW t \in Tasks, MapAllocFails(t) \/ MapPageFails(t)
  PROVE  FullOK(t)' /\ ClearOK(t)' /\ \A u \in Tasks \ {t} : Same(u)
<1>0. /\ Shape /\ CallType(op[t]) /\ FullOK(t) /\ ApartOK(t) /\ pc[t] \in MapLabels
      /\ op[t].m \in mappings[t] /\ op[t].i < op[t].m.n
  BY Parts DEF FInv, PInv, WInv, MapAllocFails, MapPageFails, MapRefused, At, Shape, CallOK, MapLabels
<1>1. /\ UNCHANGED <<space, entry, table, next, mappings>>
      /\ DOMAIN op' = Tasks /\ \A u \in Tasks \ {t} : op'[u] = op[u] /\ pc'[u] = pc[u]
      /\ pc'[t] \in {"unmap", "load"}
      /\ \/ op'[t] = [op[t] EXCEPT !.m.n = op[t].i, !.i = 0, !.page = 0, !.then = "failed"]
         \/ op'[t] = [op[t] EXCEPT !.m.n = op[t].i, !.i = 0, !.then = "failed"]
  BY <1>0 DEF MapAllocFails, MapPageFails, RollBack, RollBackWith, Goto, Shape
<1>2. op'[t].m = [op[t].m EXCEPT !.n = op[t].i] /\ op'[t].then = "failed"
  <2> DEFINE k == [op[t].m EXCEPT !.n = op[t].i]
  <2>1. \/ op'[t] = [op[t] EXCEPT !.m = k, !.i = 0, !.page = 0, !.then = "failed"]
        \/ op'[t] = [op[t] EXCEPT !.m = k, !.i = 0, !.then = "failed"]
    BY <1>1
  <2> HIDE DEF k
  <2>2. op'[t].m = k /\ op'[t].then = "failed"
    BY <1>0, <2>1 DEF CallType
  <2> QED
    BY <2>2 DEF k
<1>3. op'[t].m.w = op[t].m.w /\ op'[t].m.base = op[t].m.base /\ op'[t].m.n = op[t].i
  BY <1>0, <1>2 DEF CallType
<1>4. FullOK(t)'
  BY <1>0, <1>1, <1>2, <1>3 DEF FullOK, Live, MapLabels, UnmapLabels
<1>5. ClearOK(t)'
  <2>1. ASSUME NEW m \in mappings[t], m.w = op[t].m.w, m.base # op[t].m.base
        PROVE  m.base + m.n <= op[t].m.base \/ op[t].m.base + op[t].i <= m.base
    <3>1. m # op[t].m
      BY <2>1
    <3> QED
      BY <1>0, <2>1, <3>1, Types DEF ApartOK
  <2> QED
    BY <1>1, <1>2, <1>3, <2>1 DEF ClearOK
<1> QED
  BY <1>1, <1>4, <1>5 DEF Same

\* abi_mem_unmap_pages takes one mapping off the tracker; the others lie apart from it.
LEMMA MemUnmapF ==
  ASSUME FInv, NEW t \in Tasks, MemUnmap(t)
  PROVE  FullOK(t)' /\ ClearOK(t)' /\ \A u \in Tasks \ {t} : Same(u)
<1>0. Shape /\ FullOK(t) /\ ApartOK(t) /\ pc[t] = "user"
  BY Parts DEF FInv, PInv, WInv, MemUnmap, At
<1>1. PICK m \in mappings[t] :
        /\ mappings' = [mappings EXCEPT ![t] = @ \ {m}]
        /\ op' = [op EXCEPT ![t] = [NoOp EXCEPT !.m = m]]
  BY DEF MemUnmap
<1>2. UNCHANGED <<space, entry, table, next>> /\ pc' = [pc EXCEPT ![t] = "unmap"]
  BY DEF MemUnmap, Goto
<1>3. \A u \in Tasks \ {t} : Same(u)
  BY <1>0, <1>1, <1>2 DEF Shape, Same
<1>4. mappings'[t] = mappings[t] \ {m} /\ op'[t] = [NoOp EXCEPT !.m = m] /\ pc'[t] = "unmap"
  BY <1>0, <1>1, <1>2 DEF Shape
<1>5. op'[t].m = m
  BY <1>4 DEF NoOp
<1>6. FullOK(t)'
  BY <1>0, <1>2, <1>4 DEF FullOK, Live, MapLabels, UnmapLabels
<1>7. \A a \in mappings[t] \ {m} : a.w = m.w => a.base + a.n <= m.base \/ m.base + m.n <= a.base
  BY <1>0, Types DEF ApartOK
<1>8. ClearOK(t)'
  BY <1>4, <1>5, <1>7 DEF ClearOK
<1> QED
  BY <1>3, <1>6, <1>8

\* unmap_user_pages clears an entry: of no mapping that stays tracked.
LEMMA UnmapPageF ==
  ASSUME FInv, NEW t \in Tasks, UnmapPage(t)
  PROVE  FullOK(t)' /\ ClearOK(t)' /\ \A u \in Tasks \ {t} : Same(u)
<1>0. Shape /\ CallType(op[t]) /\ FullOK(t) /\ ClearOK(t) /\ pc[t] = "unmap" /\ op[t].i < op[t].m.n
  BY DEF FInv, PInv, WInv, UnmapPage, At, Shape
<1>1. PICK w, v, q : w = op[t].m.w /\ v = op[t].m.base + op[t].i /\ q = entry[t][w][v]
  OBVIOUS
<1>2. /\ entry' = [entry EXCEPT ![t][w][v] = 0] /\ op' = [op EXCEPT ![t].i = @ + 1, ![t].page = q]
      /\ pc' = [pc EXCEPT ![t] = IF q = 0 THEN "unmap" ELSE "load"]
      /\ UNCHANGED <<space, table, next, mappings>>
  BY <1>1 DEF UnmapPage, Goto
<1>3. \A u \in Tasks \ {t} : Same(u)
  BY <1>0, <1>2 DEF Shape, Same
<1>4. op'[t] = [op[t] EXCEPT !.i = @ + 1, !.page = q] /\ pc'[t] \in {"unmap", "load"}
  BY <1>0, <1>2 DEF Shape
<1>5. op'[t].m = op[t].m /\ op'[t].then = op[t].then
  BY <1>0, <1>4 DEF CallType
<1>6. w \in Windows /\ v \in Virts
  BY <1>0, <1>1, Types, PageMemoryAssumption DEF Virts
<1>7. \A a \in Windows, b \in Virts : entry'[t][a][b] = IF a = w /\ b = v THEN 0 ELSE entry[t][a][b]
  BY <1>0, <1>2, <1>6 DEF Shape
<1>8. ClearOK(t)'
  BY <1>0, <1>2, <1>4, <1>5 DEF ClearOK, UnmapLabels
<1>9. ASSUME op[t].then # "reclaim", NEW m \in mappings[t], NEW b \in Virts, Covers(m, m.w, b), entry'[t][m.w][b] = 0
      PROVE  op[t].then = "failed" /\ m.w = op[t].m.w /\ m.base = op[t].m.base
  <2>1. m.w \in Windows /\ m.base \in Nat /\ m.n \in Nat /\ b \in Nat
    BY <1>0, Types DEF Virts
  <2>2. CASE m.w = w /\ b = v
    BY <1>0, <1>1, <1>9, <2>1, <2>2, Types DEF ClearOK, UnmapLabels, Covers
  <2>3. CASE ~(m.w = w /\ b = v)
    <3>1. entry[t][m.w][b] = 0
      BY <1>7, <1>9, <2>1, <2>3
    <3> QED
      BY <1>0, <1>9, <3>1 DEF FullOK, Live, MapLabels, UnmapLabels
  <2> QED
    BY <2>2, <2>3
<1>10. FullOK(t)'
  BY <1>2, <1>4, <1>5, <1>9 DEF FullOK, Live, MapLabels, UnmapLabels, Covers
<1> QED
  BY <1>3, <1>8, <1>10

\* The call returns; a failed one has forgotten its mapping.
LEMMA UnmapDoneF ==
  ASSUME FInv, NEW t \in Tasks, UnmapDone(t)
  PROVE  FullOK(t)' /\ ClearOK(t)' /\ \A u \in Tasks \ {t} : Same(u)
<1>0. Shape /\ FullOK(t) /\ pc[t] = "unmap"
  BY DEF FInv, PInv, WInv, UnmapDone, At
<1>1. /\ UNCHANGED <<space, entry, table, next>>
      /\ op' = [op EXCEPT ![t] = NoOp]
      /\ pc' = [pc EXCEPT ![t] = IF op[t].then = "reclaim" THEN "reclaim" ELSE "user"]
      /\ \A u \in Tasks \ {t} : mappings'[u] = mappings[u]
      /\ mappings'[t] = IF op[t].then = "failed"
                        THEN {m \in mappings[t] : m.w # op[t].m.w \/ m.base # op[t].m.base} ELSE mappings[t]
  BY <1>0 DEF UnmapDone, Untracked, Goto, Shape
<1>2. \A u \in Tasks \ {t} : Same(u)
  BY <1>0, <1>1 DEF Shape, Same
<1>3. pc'[t] = IF op[t].then = "reclaim" THEN "reclaim" ELSE "user"
  BY <1>0, <1>1 DEF Shape
<1>4. ClearOK(t)'
  BY <1>3 DEF ClearOK, UnmapLabels
<1>5. FullOK(t)'
  BY <1>0, <1>1, <1>3 DEF FullOK, Live, MapLabels, UnmapLabels
<1> QED
  BY <1>2, <1>4, <1>5

LEMMA NextF == Preemptive = FALSE /\ FInv /\ [Next]_vars => FInv'
<1> SUFFICES ASSUME Preemptive = FALSE, FInv, [Next]_vars PROVE FInv'
  OBVIOUS
<1>0. PInv'
  BY NextP DEF FInv
<1>1. ASSUME NEW t \in Tasks, FullOK(t)' /\ ClearOK(t)' /\ \A u \in Tasks \ {t} : Same(u) PROVE FInv'
  BY <1>0, <1>1, SameFull DEF FInv
<1>2. ASSUME NEW t \in Tasks, KernelStep(t) \/ UserStep(t)
      PROVE  FullOK(t)' /\ ClearOK(t)' /\ \A u \in Tasks \ {t} : Same(u)
  BY <1>2, SpaceF, CallF, MemMapF, MapPageF, RollBackF, MemUnmapF, UnmapPageF, UnmapDoneF
  DEF KernelStep, UserStep
<1>3. ASSUME UNCHANGED vars PROVE FInv'
  BY <1>0, <1>3, SameFull DEF FInv, vars, Same
<1> QED
  BY <1>1, <1>2, <1>3 DEF Next

-----------------------------------------------------------------------------
(* The places of the properties are the ones of Held *)

LEMMA PlaceHolds ==
  ASSUME NEW x \in Places
  PROVE  /\ x = <<x[1], x[2], x[3]>>
         /\ PageAt(x) # 0 => Held(x[1], x[2], x[3], PageAt(x))
<1> DEFINE
     InSpaces == x \in {<<"space", t, k>> : t \in Tasks, k \in 1 .. SpacePages}
     InWindows == x \in {<<w, t, v>> : w \in Windows, t \in Tasks, v \in Virts}
     InTables == x \in {<<"table", t, w>> : t \in Tasks, w \in Windows}
     InLocals == x \in {<<"local", t, 0>> : t \in Tasks}
     InDir == x \in {<<"dir", 0, 0>>} \cup {<<"link", t, 0>> : t \in {u \in Tasks : pc[u] = "link"}}
     InFree == x \in {<<"free", k, 0>> : k \in 0 .. freeCount - 1} \cup {<<"free", op[t].cnt, 0>> : t \in {u \in Tasks : pc[u] = "count"}}
<1> USE DEF PageAt, Held, Windows
<1>1. CASE InSpaces
  <2>1. PICK t \in Tasks, k \in 1 .. SpacePages : x = <<"space", t, k>>
    BY <1>1
  <2> QED
    BY <2>1 DEF InSpace
<1>2. CASE InWindows
  <2>1. PICK w \in Windows, t \in Tasks, v \in Virts : x = <<w, t, v>>
    BY <1>2
  <2> QED
    BY <2>1 DEF InWindow
<1>3. CASE InTables
  <2>1. PICK t \in Tasks, w \in Windows : x = <<"table", t, w>>
    BY <1>3
  <2> QED
    BY <2>1 DEF InTable
<1>4. CASE InLocals
  <2>1. PICK t \in Tasks : x = <<"local", t, 0>>
    BY <1>4
  <2> QED
    BY <2>1 DEF InHand
<1>5. CASE InFree
  <2>1. PICK k \in Cells : x = <<"free", k, 0>>
    BY <1>5 DEF Cells
  <2> QED
    BY <2>1 DEF InStack
<1>6. CASE InDir
  <2>1. CASE x = <<"dir", 0, 0>>
    BY <2>1 DEF InWalk
  <2>2. ASSUME NEW t \in Tasks, pc[t] = "link", x = <<"link", t, 0>>
        PROVE  x = <<x[1], x[2], x[3]>> /\ (PageAt(x) # 0 => Held(x[1], x[2], x[3], PageAt(x)))
    BY <2>2 DEF InWalk
  <2> QED
    BY <1>6, <2>1, <2>2
<1> HIDE DEF PageAt, Held, Windows
<1>7. InSpaces \/ InWindows \/ InTables \/ InLocals \/ InFree \/ InDir
  BY DEF Places
<1> HIDE DEF InSpaces, InWindows, InTables, InLocals, InFree, InDir
<1> QED
  BY <1>1, <1>2, <1>3, <1>4, <1>5, <1>6, <1>7

LEMMA HeldPlace ==
  ASSUME \A t \in Tasks : SizeOK(t), NEW k, NEW a, NEW b, NEW p, Held(k, a, b, p)
  PROVE  \E x \in Places : PageAt(x) = p
<1> DEFINE x == <<k, a, b>>
<1>0. x[1] = k /\ x[2] = a /\ x[3] = b
  OBVIOUS
<1> SUFFICES x \in Places /\ PageAt(x) = p
  OBVIOUS
<1>1. CASE k = "space" /\ InSpace(a, b, p)
  <2>1. a \in Tasks /\ b \in 1 .. SpacePages /\ b <= Len(space[a]) /\ space[a][b] = p
    BY <1>1, PageMemoryAssumption DEF InSpace, SizeOK
  <2>2. PageAt(x) = p
    BY <1>0, <1>1, <2>1 DEF PageAt, Windows
  <2> QED
    BY <1>1, <2>1, <2>2 DEF Places
<1>2. CASE k \in Windows /\ InWindow(k, a, b, p)
  <2>1. PageAt(x) = p
    BY <1>0, <1>2 DEF InWindow, PageAt, Windows
  <2> QED
    BY <1>2, <2>1 DEF InWindow, Places
<1>3. CASE k = "table" /\ InTable(a, b, p)
  <2>1. PageAt(x) = p
    BY <1>0, <1>3 DEF InTable, PageAt, Windows
  <2> QED
    BY <1>3, <2>1 DEF InTable, Places
<1>4. CASE k = "local" /\ b = 0 /\ InHand(a, p)
  <2>1. PageAt(x) = p
    BY <1>0, <1>4 DEF InHand, PageAt, Windows
  <2> QED
    BY <1>4, <2>1 DEF InHand, Places
<1>5. CASE k = "free" /\ b = 0 /\ InStack(a, p)
  <2>1. PageAt(x) = p
    BY <1>0, <1>5 DEF InStack, PageAt, Windows
  <2> QED
    BY <1>5, <2>1 DEF InStack, Cells, Places
<1>6. CASE k \in {"dir", "link"} /\ b = 0 /\ InWalk(k, a, p)
  <2>1. PageAt(x) = p
    BY <1>0, <1>6 DEF InWalk, PageAt, Windows
  <2> QED
    BY <1>6, <2>1 DEF InWalk, Places
<1> QED
  BY <1>1, <1>2, <1>3, <1>4, <1>5, <1>6 DEF Held

-----------------------------------------------------------------------------
(* What the runs check *)

\* Whatever map_user_pages maps is tracked or is being unmapped, for every size of
\* the machine and wherever ticks fall.
THEOREM TrackedHolds == Spec => []MappedIsTracked
<1>1. WInv => MappedIsTracked
  BY DEF WInv, TaskInv, TrackedOK, MappedIsTracked, UnmapLabels
<1> QED
  BY <1>1, WindowsHold, PTL

\* The guard pages of a MEM_MAP_GUARD mapping are never mapped.
THEOREM GuardsHold == Spec => []GuardsUnmapped
<1>1. WInv => GuardsUnmapped
  BY DEF WInv, TaskInv, GuardOK, GuardsUnmapped
<1> QED
  BY <1>1, WindowsHold, PTL

\* A process that is gone has given every page back or passed it on.
THEOREM DeadHolds == Spec => []DeadHoldsNothing
<1>1. ASSUME WInv, NEW t \in Tasks, pc[t] = "dead", NEW x \in Places, x[1] \notin {"free", "dir"}, x[2] = t
      PROVE  PageAt(x) = 0
  <2>1. \A k, b, p : k \notin {"free", "dir"} => ~Held(k, t, b, p)
    <3>1. /\ space[t] = <<>> /\ op[t].page = 0
          /\ \A w \in Windows : table[t][w] = 0 /\ \A v \in Virts : entry[t][w][v] = 0
      BY <1>1, Parts DEF EmptyOK, HandOK
    <3> QED
      BY <1>1, <3>1 DEF Held, InSpace, InWindow, InTable, InHand, InWalk
  <2> QED
    BY <1>1, <2>1, PlaceHolds
<1>2. WInv => DeadHoldsNothing
  BY <1>1 DEF DeadHoldsNothing
<1> QED
  BY <1>2, WindowsHold, PTL

\* With calls that no tick interrupts, the owners' invariant holds.
THEOREM OwnersHold == ASSUME Preemptive = FALSE PROVE Spec => []PInv
  BY InitP, NextP, PTL DEF Spec

\* With calls that no tick interrupts, the variables keep their types: the free
\* stack and the tables of tracked mappings stay within their bounds.
THEOREM TypesHold == ASSUME Preemptive = FALSE PROVE Spec => []TypeOK
<1>1. PInv => TypeOK
  <2> SUFFICES ASSUME PInv PROVE TypeOK
    OBVIOUS
  <2>1. Shape /\ PageTypes /\ Accounting /\ \A t \in Tasks : SizeOK(t)
    BY DEF PInv, WInv
  <2>2. allocated \in 0 .. NumPages
    BY <2>1, PageMemoryAssumption DEF PageTypes, Accounting
  <2>3. \A t \in Tasks : mappings[t] \subseteq Mapping /\ Cardinality(mappings[t]) <= MappingMax
    BY <2>1 DEF Shape, SizeOK
  <2>4. \A t \in Tasks : Len(space[t]) <= SpacePages /\ \A k \in DOMAIN space[t] : space[t][k] \in Pages
    BY <2>1 DEF PageTypes, SizeOK
  <2> QED
    BY <2>1, <2>2, <2>3, <2>4 DEF TypeOK, Shape, PageTypes
<1> QED
  BY <1>1, OwnersHold, PTL

\* With calls that no tick interrupts, a physical page has one owner, for every
\* number of tasks, pages and window lengths.
THEOREM OneOwner == ASSUME Preemptive = FALSE PROVE Spec => []NoPageTwice
<1>1. PInv => NoPageTwice
  <2> SUFFICES ASSUME PInv PROVE NoPageTwice
    OBVIOUS
  <2>1. Owned /\ StackOK /\ PageTypes
    BY DEF PInv
  <2>2. ASSUME NEW x \in Places, NEW y \in Places, PageAt(x) # 0, PageAt(y) # 0
        PROVE  PageAt(x) < fresh /\ (PageAt(x) = PageAt(y) => x = y)
    <3>1. Held(x[1], x[2], x[3], PageAt(x)) /\ Held(y[1], y[2], y[3], PageAt(y))
      BY <2>2, PlaceHolds
    <3>2. PageAt(x) \in 1 .. fresh - 1 /\ fresh \in Nat
      BY <2>1, <3>1, PageMemoryAssumption DEF Owned, Below, PageTypes
    <3>3. PageAt(x) < fresh
      BY <3>2
    <3>4. PageAt(x) = PageAt(y) => x[1] = y[1] /\ x[2] = y[2] /\ x[3] = y[3]
      BY <2>1, <3>1 DEF Owned, Unique
    <3> QED
      BY <3>3, <3>4, PlaceHolds
  <2> QED
    BY <2>1, <2>2 DEF NoPageTwice, StackOK
<1> QED
  BY <1>1, OwnersHold, PTL

\* With calls that no tick interrupts, all of a tracked mapping is mapped once the call
\* that asked for it has returned, whatever other calls fail or unmap.
THEOREM AllMapped == ASSUME Preemptive = FALSE PROVE Spec => []TrackedIsMapped
<1>1. Init => FInv
  BY InitP DEF FInv, Init, FullOK, ClearOK, Live, MapLabels, UnmapLabels
<1>2. FInv => TrackedIsMapped
  BY DEF FInv, FullOK, TrackedIsMapped, Live, MapLabels, UnmapLabels
<1> QED
  BY <1>1, <1>2, NextF, PTL DEF Spec

\* With calls that no tick interrupts, no page is lost on the paths of PageMemory but
\* those a full free stack refuses.
THEOREM NothingLost == ASSUME Preemptive = FALSE PROVE Spec => []NoLeak
<1>1. PInv => NoLeak
  BY HeldPlace DEF PInv, Owned, Covered, NoLeak
<1> QED
  BY <1>1, OwnersHold, PTL
=============================================================================
