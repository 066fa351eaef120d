----------------------------- MODULE PageMemory -----------------------------
(***************************************************************************)
(* Physical pages and the memory of processes, from kernel/src/main.rs:    *)
(* PhysPageAllocator, the private address space a process is given, its    *)
(* heap and mmap windows (mem_alloc_pages, mem_map_pages, mem_unmap_pages) *)
(* and what its exit gives back.                                           *)
(*                                                                         *)
(* A task is one slot of PROCESS_TABLE; a new pid in the slot gets new     *)
(* windows, so a window starts empty.  alloc_zeroed_page and               *)
(* free_phys_page disable interrupts and are single steps; unmap_user_pages*)
(* and the error path of map_user_pages call free_page with interrupts     *)
(* enabled, and take one step per access to the allocator.                 *)
(*                                                                         *)
(* Page tables: create_process_address_space has made the PDPTs of both    *)
(* windows.  The page directory below is shared by the heap windows of     *)
(* four pids, here of all tasks, and is never freed; map_page reads its    *)
(* entry, allocates and writes it in separate steps.  Below it a heap      *)
(* window has a page table of its own.  An mmap window has a directory and *)
(* a page table of its own, freed together: one page here.                 *)
(***************************************************************************)
EXTENDS Integers, Sequences, FiniteSets

CONSTANTS Tasks,
          NumPages,      \* bound: physical pages the allocator was given
          FreeStackMax,  \* FREE_PAGE_STACK_MAX
          SpacePages,    \* pages of an address space: PML4, PDPT, PD and image
          WindowPages,   \* bound: length of a heap or mmap window
          MappingMax,    \* PROCESS_MAPPING_MAX
          Preemptive     \* FALSE: no tick lands inside a kernel call

ASSUME PageMemoryAssumption ==
  /\ NumPages \in Nat \ {0}
  /\ FreeStackMax \in Nat \ {0}
  /\ SpacePages \in Nat \ {0}
  /\ WindowPages \in Nat
  /\ MappingMax \in Nat
  /\ Preemptive \in BOOLEAN

Pages   == 1 .. NumPages
Windows == {"heap", "mmap"}
Virts   == 0 .. WindowPages - 1

VARIABLES
  free, freeCount,   \* free_stack, free_count
  fresh,             \* the lowest page no range has handed out yet
  allocated,         \* allocated_pages
  dropped,           \* auxiliary: pages free_page refused
  space,             \* pages of the private address space, in order
  entry,             \* entry[t][w][v]: the page mapped at v, 0 for none
  table,             \* table[t][w]: the window's page-table page, 0 for none
  dir,               \* the page directory of the heap windows, 0 for none
  next,              \* heap_next, mmap_next
  mappings,          \* the tracked mappings
  pc,
  op                 \* locals of the call in progress

alloc == <<free, freeCount, fresh, allocated, dropped>>
vars  == <<alloc, space, entry, table, dir, next, mappings, pc, op>>

Mapping == [w : Windows, base : Virts, n : 1 .. WindowPages, guard : 0 .. 1]
NoOp    == [m |-> [w |-> "heap", base |-> 0, n |-> 0, guard |-> 0],
            i |-> 0, page |-> 0, dir |-> 0, cnt |-> 0, then |-> "user"]

Labels == {"dead", "space", "drop", "user", "alloc", "walk", "link", "map", "unmap", "load",
           "store", "count", "reclaim"}

TypeOK ==
  /\ free \in [0 .. FreeStackMax - 1 -> 0 .. NumPages]
  /\ freeCount \in 0 .. FreeStackMax
  /\ fresh \in 1 .. NumPages + 1
  /\ allocated \in 0 .. NumPages
  /\ dropped \subseteq Pages
  /\ \A t \in Tasks : Len(space[t]) <= SpacePages /\ \A k \in DOMAIN space[t] : space[t][k] \in Pages
  /\ entry \in [Tasks -> [Windows -> [Virts -> 0 .. NumPages]]]
  /\ table \in [Tasks -> [Windows -> 0 .. NumPages]]
  /\ dir \in 0 .. NumPages
  /\ next \in [Tasks -> [Windows -> 0 .. WindowPages]]
  /\ \A t \in Tasks : mappings[t] \subseteq Mapping /\ Cardinality(mappings[t]) <= MappingMax
  /\ pc \in [Tasks -> Labels]

Init ==
  /\ free = [k \in 0 .. FreeStackMax - 1 |-> 0]
  /\ freeCount = 0
  /\ fresh = 1
  /\ allocated = 0
  /\ dropped = {}
  /\ space = [t \in Tasks |-> <<>>]
  /\ entry = [t \in Tasks |-> [w \in Windows |-> [v \in Virts |-> 0]]]
  /\ table = [t \in Tasks |-> [w \in Windows |-> 0]]
  /\ dir = 0
  /\ next = [t \in Tasks |-> [w \in Windows |-> 0]]
  /\ mappings = [t \in Tasks |-> {}]
  /\ pc = [t \in Tasks |-> "dead"]
  /\ op = [t \in Tasks |-> NoOp]

-----------------------------------------------------------------------------
(* The allocator.  Ranges are scanned in order and each is used up before   *)
(* the next, so together they are one run of pages.                         *)

OutOfPages == freeCount = 0 /\ fresh > NumPages

MutantTopPage == IF freeCount > 0 THEN free[0] ELSE fresh
\* The page alloc_page returns
TopPage == IF freeCount > 0 THEN free[freeCount - 1] ELSE fresh

\* alloc_page
AllocPage ==
  /\ ~OutOfPages
  /\ IF freeCount > 0
     THEN /\ freeCount' = freeCount - 1
          /\ free' = [free EXCEPT ![freeCount - 1] = 0]
          /\ UNCHANGED fresh
     ELSE fresh' = fresh + 1 /\ UNCHANGED <<free, freeCount>>
  /\ allocated' = allocated + 1
  /\ UNCHANGED dropped

MonusOne(n) == IF n = 0 THEN 0 ELSE n - 1

\* free_page under without_interrupts: a full stack refuses the page
FreePage(p) ==
  /\ IF freeCount >= FreeStackMax
     THEN dropped' = dropped \cup {p} /\ UNCHANGED <<free, freeCount, allocated>>
     ELSE /\ free' = [free EXCEPT ![freeCount] = p]
          /\ freeCount' = freeCount + 1
          /\ allocated' = MonusOne(allocated)
          /\ UNCHANGED dropped
  /\ UNCHANGED fresh

\* t may take a step: another task is inside a kernel call only if a tick
\* took it out of it.
At(t, l) ==
  /\ pc[t] = l
  /\ Preemptive \/ \A u \in Tasks \ {t} : pc[u] \in {"dead", "user"}

Goto(t, l) == pc' = [pc EXCEPT ![t] = l]

-----------------------------------------------------------------------------
(* Address spaces: create_process_address_space and the image pages of the  *)
(* loader, and destroy_process_address_space.                               *)

SpawnStart(t) ==
  /\ At(t, "dead")
  /\ Goto(t, "space")
  /\ UNCHANGED <<alloc, space, entry, table, dir, next, mappings, op>>

SpaceAlloc(t) ==
  /\ At(t, "space") /\ Len(space[t]) < SpacePages
  /\ AllocPage
  /\ space' = [space EXCEPT ![t] = Append(@, TopPage)]
  /\ UNCHANGED <<entry, table, dir, next, mappings, pc, op>>

SpaceReady(t) ==
  /\ At(t, "space") /\ Len(space[t]) = SpacePages
  /\ Goto(t, "user")
  /\ UNCHANGED <<alloc, space, entry, table, dir, next, mappings, op>>

MutantSpaceFails(t) ==
  /\ At(t, "space")
  /\ space' = [space EXCEPT ![t] = <<>>]
  /\ Goto(t, "drop")
  /\ UNCHANGED <<alloc, entry, table, dir, next, mappings, op>>

\* No page left, a bad image, or, after the last page of the image, no kernel stack
SpaceFails(t) ==
  /\ At(t, "space")
  /\ Goto(t, "drop")
  /\ UNCHANGED <<alloc, space, entry, table, dir, next, mappings, op>>

\* free_phys_page of the last page of the address space
SpaceDrop(t) ==
  /\ At(t, "drop") /\ space[t] # <<>>
  /\ FreePage(space[t][Len(space[t])])
  /\ space' = [space EXCEPT ![t] = SubSeq(@, 1, Len(@) - 1)]
  /\ UNCHANGED <<entry, table, dir, next, mappings, pc, op>>

SpaceGone(t) ==
  /\ At(t, "drop") /\ space[t] = <<>>
  /\ Goto(t, "dead")
  /\ UNCHANGED <<alloc, space, entry, table, dir, next, mappings, op>>

-----------------------------------------------------------------------------
(* Windows *)

MutantReserved(n, g) == n + g
\* total_pages: a guard page on either side
Reserved(n, g) == n + 2 * g

MutantFits(t, w, total) == next[t][w] < WindowPages
\* next > heap_limit, next > mmap_limit
Fits(t, w, total) == next[t][w] + total <= WindowPages

\* abi_mem_alloc_pages and abi_mem_map_pages up to map_user_pages.  The bump
\* pointer moves before the mapping is tracked, and does not move back when
\* the tracker is full.
MemMap(t, w, n, g) ==
  /\ At(t, "user")
  /\ g = 1 => w = "mmap"
  /\ Fits(t, w, Reserved(n, g))
  /\ next' = [next EXCEPT ![t][w] = @ + Reserved(n, g)]
  /\ LET m == [w |-> w, base |-> next[t][w] + g, n |-> n, guard |-> g]
     IN  IF Cardinality(mappings[t]) < MappingMax
         THEN /\ mappings' = [mappings EXCEPT ![t] = @ \cup {m}]
              /\ op' = [op EXCEPT ![t] = [NoOp EXCEPT !.m = m]]
              /\ Goto(t, "alloc")
         ELSE UNCHANGED <<mappings, op, pc>>
  /\ UNCHANGED <<alloc, space, entry, table, dir>>

\* map_user_pages: a page for the next virtual address
MapAlloc(t) ==
  /\ At(t, "alloc")
  /\ AllocPage
  /\ op' = [op EXCEPT ![t].page = TopPage]
  /\ Goto(t, IF op[t].m.w = "heap" THEN "walk" ELSE "map")
  /\ UNCHANGED <<space, entry, table, dir, next, mappings>>

RollBackWith(t, from) ==
  op' = [op EXCEPT ![t].m.n = op[t].i, ![t].i = from, ![t].page = 0, ![t].then = "failed"]

MutantRollBack(t) == RollBackWith(t, 1)
\* unmap_user_pages(base, index): from here on only the i pages mapped so far
RollBack(t) == RollBackWith(t, 0)

MapAllocFails(t) ==
  /\ At(t, "alloc") /\ OutOfPages
  /\ RollBack(t)
  /\ Goto(t, "unmap")
  /\ UNCHANGED <<alloc, space, entry, table, dir, next, mappings>>

\* map_page as far as the directory: ensure_next_table reads its entry and, where
\* there is none, allocates
Walk(t) ==
  /\ At(t, "walk")
  /\ IF dir # 0
     THEN op' = [op EXCEPT ![t].dir = dir] /\ Goto(t, "map") /\ UNCHANGED alloc
     ELSE AllocPage /\ op' = [op EXCEPT ![t].dir = TopPage] /\ Goto(t, "link")
  /\ UNCHANGED <<space, entry, table, dir, next, mappings>>

\* ensure_next_table writes the entry.  Another task may have done so since: what the
\* heap windows have below the directory of that one is out of reach from here on.
Link(t) ==
  /\ At(t, "link")
  /\ dir' = op[t].dir
  /\ IF dir = 0 THEN UNCHANGED <<entry, table>>
     ELSE /\ entry' = [u \in Tasks |-> [entry[u] EXCEPT !["heap"] = [v \in Virts |-> 0]]]
          /\ table' = [u \in Tasks |-> [table[u] EXCEPT !["heap"] = 0]]
  /\ Goto(t, "map")
  /\ UNCHANGED <<alloc, space, next, mappings, op>>

\* The walk of t came by a directory that is not linked any more
Astray(t) == op[t].m.w = "heap" /\ op[t].dir # dir

\* The rest of map_page: ensure_next_table for the page table, then the entry.  On a
\* walk gone astray both are lost; whether that page table existed the model forgot.
MapPage(t) ==
  LET w == op[t].m.w
      v == op[t].m.base + op[t].i
  IN  /\ At(t, "map") /\ entry[t][w][v] = 0
      /\ IF Astray(t)
         THEN (AllocPage \/ UNCHANGED alloc) /\ UNCHANGED <<entry, table>>
         ELSE /\ IF table[t][w] = 0
                 THEN AllocPage /\ table' = [table EXCEPT ![t][w] = TopPage]
                 ELSE UNCHANGED <<alloc, table>>
              /\ entry' = [entry EXCEPT ![t][w][v] = op[t].page]
      /\ op' = [op EXCEPT ![t].i = @ + 1, ![t].page = 0]
      /\ Goto(t, IF op[t].i + 1 = op[t].m.n THEN "user" ELSE "alloc")
      /\ UNCHANGED <<space, dir, next, mappings>>

\* No page for a directory or a page table, or the entry is present already
MapRefused(t) ==
  LET w == op[t].m.w
  IN  CASE pc[t] = "walk" -> dir = 0 /\ OutOfPages
        [] pc[t] = "map"  -> \/ entry[t][w][op[t].m.base + op[t].i] # 0
                             \/ (table[t][w] = 0 \/ Astray(t)) /\ OutOfPages
        [] OTHER          -> FALSE

\* map_page fails: free_page(phys), interrupts enabled, then roll back
MapPageFails(t) ==
  /\ At(t, pc[t]) /\ MapRefused(t)
  /\ op' = [op EXCEPT ![t].m.n = op[t].i, ![t].i = 0, ![t].then = "failed"]
  /\ Goto(t, "load")
  /\ UNCHANGED <<alloc, space, entry, table, dir, next, mappings>>

\* abi_mem_unmap_pages: only an exact tracked mapping is accepted
MemUnmap(t) ==
  /\ At(t, "user")
  /\ \E m \in mappings[t] :
       /\ mappings' = [mappings EXCEPT ![t] = @ \ {m}]
       /\ op' = [op EXCEPT ![t] = [NoOp EXCEPT !.m = m]]
  /\ Goto(t, "unmap")
  /\ UNCHANGED <<alloc, space, entry, table, dir, next>>

-----------------------------------------------------------------------------
(* unmap_user_pages, with free_page inlined *)

UnmapPage(t) ==
  LET w == op[t].m.w
      v == op[t].m.base + op[t].i
  IN  /\ At(t, "unmap") /\ op[t].i < op[t].m.n
      /\ entry' = [entry EXCEPT ![t][w][v] = 0]
      /\ op' = [op EXCEPT ![t].i = @ + 1, ![t].page = entry[t][w][v]]
      /\ Goto(t, IF entry[t][w][v] = 0 THEN "unmap" ELSE "load")
      /\ UNCHANGED <<alloc, space, table, dir, next, mappings>>

\* self.free_count, once for the test and the store
FreeLoad(t) ==
  /\ At(t, "load")
  /\ IF freeCount >= FreeStackMax
     THEN /\ dropped' = dropped \cup {op[t].page}
          /\ op' = [op EXCEPT ![t].page = 0]
          /\ Goto(t, "unmap")
     ELSE /\ op' = [op EXCEPT ![t].cnt = freeCount]
          /\ Goto(t, "store")
          /\ UNCHANGED dropped
  /\ UNCHANGED <<free, freeCount, fresh, allocated, space, entry, table, dir, next, mappings>>

FreeStore(t) ==
  /\ At(t, "store")
  /\ free' = [free EXCEPT ![op[t].cnt] = op[t].page]
  /\ op' = [op EXCEPT ![t].page = 0]
  /\ Goto(t, "count")
  /\ UNCHANGED <<freeCount, fresh, allocated, dropped, space, entry, table, dir, next, mappings>>

\* self.free_count += 1 on the value loaded before, or on memory
FreeCount(t) ==
  /\ At(t, "count")
  /\ freeCount' \in {op[t].cnt + 1, freeCount + 1}
  /\ allocated' = MonusOne(allocated)
  /\ Goto(t, "unmap")
  /\ UNCHANGED <<free, fresh, dropped, space, entry, table, dir, next, mappings, op>>

MutantUntracked(t) == mappings
\* A failed call untracks its mapping
Untracked(t) ==
  IF op[t].then = "failed"
  THEN [mappings EXCEPT ![t] = {m \in @ : m.w # op[t].m.w \/ m.base # op[t].m.base}]
  ELSE mappings

\* The end of unmap_user_pages
UnmapDone(t) ==
  /\ At(t, "unmap") /\ op[t].i = op[t].m.n
  /\ mappings' = Untracked(t)
  /\ op' = [op EXCEPT ![t] = NoOp]
  /\ Goto(t, IF op[t].then = "reclaim" THEN "reclaim" ELSE "user")
  /\ UNCHANGED <<alloc, space, entry, table, dir, next>>

-----------------------------------------------------------------------------
(* Exit: process_reclaim_mappings, reclaim_process_window_tables,           *)
(* destroy_process_address_space.                                           *)

\* The bump pointers are of no use any more; app_set_heap_window starts the next
\* process at the bases of its windows.
Exit(t) ==
  /\ At(t, "user")
  /\ next' = [next EXCEPT ![t] = [w \in Windows |-> 0]]
  /\ Goto(t, "reclaim")
  /\ UNCHANGED <<alloc, space, entry, table, dir, mappings, op>>

ReclaimMapping(t) ==
  /\ At(t, "reclaim")
  /\ \E m \in mappings[t] :
       /\ mappings' = [mappings EXCEPT ![t] = @ \ {m}]
       /\ op' = [op EXCEPT ![t] = [NoOp EXCEPT !.m = m, !.then = "reclaim"]]
  /\ Goto(t, "unmap")
  /\ UNCHANGED <<alloc, space, entry, table, dir, next>>

\* reclaim_process_window_tables
ReclaimTable(t, w) ==
  /\ At(t, "reclaim") /\ mappings[t] = {} /\ table[t][w] # 0
  /\ w = "mmap" => table[t]["heap"] = 0
  /\ FreePage(table[t][w])
  /\ table' = [table EXCEPT ![t][w] = 0]
  /\ UNCHANGED <<space, entry, dir, next, mappings, pc, op>>

MutantReclaimed(t) ==
  /\ At(t, "reclaim") /\ mappings[t] = {}
  /\ Goto(t, "drop")
  /\ UNCHANGED <<alloc, space, entry, table, dir, next, mappings, op>>

Reclaimed(t) ==
  /\ At(t, "reclaim") /\ mappings[t] = {} /\ \A w \in Windows : table[t][w] = 0
  /\ Goto(t, "drop")
  /\ UNCHANGED <<alloc, space, entry, table, dir, next, mappings, op>>

-----------------------------------------------------------------------------
KernelStep(t) ==
  \/ SpaceAlloc(t) \/ SpaceReady(t) \/ SpaceFails(t) \/ SpaceDrop(t) \/ SpaceGone(t)
  \/ MapAlloc(t) \/ MapAllocFails(t) \/ Walk(t) \/ Link(t) \/ MapPage(t) \/ MapPageFails(t)
  \/ UnmapPage(t) \/ FreeLoad(t) \/ FreeStore(t) \/ FreeCount(t) \/ UnmapDone(t)
  \/ ReclaimMapping(t) \/ (\E w \in Windows : ReclaimTable(t, w)) \/ Reclaimed(t)

UserStep(t) ==
  \/ SpawnStart(t)
  \/ \E w \in Windows, n \in 1 .. WindowPages, g \in 0 .. 1 : MemMap(t, w, n, g)
  \/ MemUnmap(t)
  \/ Exit(t)

Next == \E t \in Tasks : KernelStep(t) \/ UserStep(t)

Spec == Init /\ [][Next]_vars

-----------------------------------------------------------------------------
(* Vocabulary of the properties *)

\* Every place that can hold a page, and the page it holds (0 for none).  A page
\* a call is working on is held by its local, or by the cell it just stored it in.
Places ==
  {<<"space", t, k>> : t \in Tasks, k \in 1 .. SpacePages}
    \cup {<<w, t, v>> : w \in Windows, t \in Tasks, v \in Virts}
    \cup {<<"table", t, w>> : t \in Tasks, w \in Windows}
    \cup {<<"dir", 0, 0>>}
    \cup {<<"local", t, 0>> : t \in Tasks}
    \cup {<<"link", t, 0>> : t \in {u \in Tasks : pc[u] = "link"}}
    \cup {<<"free", k, 0>> : k \in 0 .. freeCount - 1}
    \cup {<<"free", op[t].cnt, 0>> : t \in {u \in Tasks : pc[u] = "count"}}

PageAt(x) ==
  CASE x[1] = "space" -> IF x[3] <= Len(space[x[2]]) THEN space[x[2]][x[3]] ELSE 0
    [] x[1] \in Windows -> entry[x[2]][x[1]][x[3]]
    [] x[1] = "table" -> table[x[2]][x[3]]
    [] x[1] = "dir" -> dir
    [] x[1] = "local" -> op[x[2]].page
    [] x[1] = "link" -> op[x[2]].dir
    [] x[1] = "free" -> free[x[2]]

Covers(m, w, v) == m.w = w /\ m.base <= v /\ v < m.base + m.n

\* A physical page has one owner: one window entry, one page table, one address
\* space, one call in progress or the free stack, never two of them, and the
\* free stack holds no null page.
NoPageTwice ==
  /\ LET held == {x \in Places : PageAt(x) # 0}
     IN  \A x, y \in held : PageAt(x) < fresh /\ (PageAt(x) = PageAt(y) => x = y)
  /\ \A k \in 0 .. freeCount - 1 : free[k] # 0

\* No page is lost, on the error paths of map_user_pages and
\* create_process_address_space neither, unless the free stack was full.  (Kernel
\* stacks are not among the pages here.)
NoLeak ==
  \A p \in 1 .. fresh - 1 : p \in dropped \/ \E x \in Places : PageAt(x) = p

\* Whatever is mapped in a window is tracked, so that exit finds it, or is being
\* unmapped right now; a call that failed half way leaves nothing mapped.
MappedIsTracked ==
  \A t \in Tasks, w \in Windows, v \in Virts :
    entry[t][w][v] # 0 =>
      \/ \E m \in mappings[t] : Covers(m, w, v)
      \/ pc[t] \in {"unmap", "load", "store", "count"}
           /\ Covers(op[t].m, w, v) /\ v >= op[t].m.base + op[t].i

\* And the other way round: all of a tracked mapping is mapped, once the call that
\* asked for it has returned, whatever other calls fail or take away.
TrackedIsMapped ==
  \A t \in Tasks : pc[t] = "user" =>
    \A m \in mappings[t], v \in Virts : Covers(m, m.w, v) => entry[t][m.w][v] # 0

\* The pages on either side of a MEM_MAP_GUARD mapping stay unmapped, whatever is
\* mapped before or after it.
GuardsUnmapped ==
  \A t \in Tasks : \A m \in mappings[t] :
    m.guard = 1 => \A v \in {m.base - 1, m.base + m.n} \cap Virts : entry[t][m.w][v] = 0

\* A process that is gone holds no page: not in its windows, not in their page
\* tables, not in its address space.  (The directory of the heap windows is not its.)
DeadHoldsNothing ==
  \A t \in Tasks : pc[t] = "dead" =>
    \A x \in Places : x[1] \notin {"free", "dir"} /\ x[2] = t => PageAt(x) = 0
=============================================================================
