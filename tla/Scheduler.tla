------------------------------ MODULE Scheduler ------------------------------
(***************************************************************************)
(* The process table and the scheduler of kernel/src/main.rs: spawn, the   *)
(* staged preparation of a process, blocking wait, exit, the deferred      *)
(* reclaim of kernel stacks, the console's `run' and `wait', and the       *)
(* preempting timer tick.                                                  *)
(*                                                                         *)
(* One CPU.  A context is a slot of PROCESS_TABLE or the reserved idle     *)
(* slot PROCESS_COUNT in which the kernel console runs.  Only the current  *)
(* context takes steps; pc[c] is where it stands in kernel code.  A label  *)
(* separates two steps wherever the code runs with interrupts enabled and  *)
(* a tick in between can be observed; a `without_interrupts' section is    *)
(* one step.                                                               *)
(***************************************************************************)
EXTENDS Integers, FiniteSets

CONSTANTS ProcessCount,  \* PROCESS_COUNT
          PidBound,      \* bound: NEXT_PID is not allowed past this value
          Preemptive     \* FALSE: only the behaviours in which no tick moves the CPU

ASSUME SchedulerAssumption ==
  /\ ProcessCount \in Nat \ {0}
  /\ PidBound \in Nat \ {0}
  /\ Preemptive \in BOOLEAN

Procs == 0 .. ProcessCount - 1
Idle  == ProcessCount
Ctx   == 0 .. ProcessCount
Pids  == 1 .. PidBound

\* WaitTarget: a pid, or one of these.
None     == 0
AnyChild == -1
Targets  == {None, AnyChild} \cup Pids

States == {"Empty", "Ready", "Running", "Exited", "Failed", "Blocked", "Loading"}

Labels == {"none",                                          \* no context built
           "shell", "runDone",                              \* idle only
           "fresh", "user",                                 \* processes only
           "claimed", "loading", "stack", "publish",        \* prepare_process
           "test", "collect", "find", "block",              \* blocking wait
           "pick", "switch",                                \* run_scheduler_step
           "resumed", "take", "reclaim",                    \* reclaim_pending_stacks
           "destroy", "cr3", "unlink",                      \* process_trampoline
           "queue", "store", "exit"}

VARIABLES
  \* fields of PROCESS_TABLE[i]
  state, pid, parent, waited, waitingFor,
  pml4,      \* whose address space pml4_phys names (by pid), 0 for none
  rsp,       \* whose kernel stack context.rsp points into, 0 for null
  \* other globals
  nextPid, current,
  cr3,       \* whose address space CR3 names, 0 for KERNEL_PML4_PHYS
  spaces,    \* pids whose private PML4 is allocated
  stacks,    \* pids whose kernel stack is mapped
  pending,   \* PENDING_STACK_RECLAIMS, 0 for None
  halted,    \* a fault handler has stopped the machine
  \* control state and locals of each context
  pc, target, slot, next,
  cell,      \* how far a loop over PENDING_STACK_RECLAIMS has come
  taken,     \* the pid reclaim_pending_stacks has read from that cell
  runSlot,   \* run_program's process_index, Idle when no `run' is waiting
  inIsr      \* contexts suspended inside the timer interrupt

table  == <<state, pid, parent, waited, waitingFor, pml4, rsp>>
memory == <<cr3, spaces, stacks, pending, halted>>
drain  == <<cell, taken>>
locals == <<target, slot, next, runSlot, drain>>
vars   == <<table, nextPid, current, memory, pc, locals, inIsr>>

TypeOK ==
  /\ state \in [Procs -> States]
  /\ pid \in [Procs -> 0 .. PidBound]
  /\ parent \in [Procs -> 0 .. PidBound]
  /\ waited \in [Procs -> BOOLEAN]
  /\ waitingFor \in [Procs -> Targets]
  /\ pml4 \in [Procs -> 0 .. PidBound]
  /\ rsp \in [Procs -> 0 .. PidBound]
  /\ nextPid \in 1 .. PidBound + 1
  /\ current \in Ctx
  /\ cr3 \in 0 .. PidBound
  /\ spaces \subseteq Pids
  /\ stacks \subseteq Pids
  /\ pending \in [Procs -> 0 .. PidBound]
  /\ halted \in BOOLEAN
  /\ pc \in [Ctx -> Labels]
  /\ target \in [Ctx -> Targets]
  /\ slot \in [Ctx -> Ctx]
  /\ next \in [Ctx -> Ctx]
  /\ cell \in [Ctx -> Ctx]
  /\ taken \in [Ctx -> 0 .. PidBound]
  /\ runSlot \in Ctx
  /\ inIsr \subseteq Ctx

Init ==
  /\ state = [i \in Procs |-> "Empty"]
  /\ pid = [i \in Procs |-> 0]
  /\ parent = [i \in Procs |-> 0]
  /\ waited = [i \in Procs |-> FALSE]
  /\ waitingFor = [i \in Procs |-> None]
  /\ pml4 = [i \in Procs |-> 0]
  /\ rsp = [i \in Procs |-> 0]
  /\ nextPid = 1
  /\ current = Idle
  /\ cr3 = 0
  /\ spaces = {}
  /\ stacks = {}
  /\ pending = [k \in Procs |-> 0]
  /\ halted = FALSE
  /\ pc = [c \in Ctx |-> IF c = Idle THEN "shell" ELSE "none"]
  /\ target = [c \in Ctx |-> None]
  /\ slot = [c \in Ctx |-> Idle]
  /\ next = [c \in Ctx |-> Idle]
  /\ cell = [c \in Ctx |-> 0]
  /\ taken = [c \in Ctx |-> 0]
  /\ runSlot = Idle
  /\ inIsr = {}

-----------------------------------------------------------------------------
\* The table scans all return the first match in index order.
MutantIsLowest(i, S) == i \in S /\ \A j \in S : i >= j
IsLowest(i, S) == i \in S /\ \A j \in S : i <= j

Zombie(i) == state[i] \in {"Exited", "Failed"}
Ready     == {i \in Procs : state[i] = "Ready"}

\* process_find_slot(Empty).or_else(process_find_reapable_slot)
EmptySlots    == {i \in Procs : state[i] = "Empty"}
MutantReapableSlots == {i \in Procs : Zombie(i)}
ReapableSlots == {i \in Procs : waited[i] /\ Zombie(i)}
Claimable     == IF EmptySlots # {} THEN EmptySlots ELSE ReapableSlots

\* current_pid, and current_pml4_or_kernel
PidOf(c)  == IF c = Idle THEN 0 ELSE pid[c]
Pml4Of(c) == IF c = Idle THEN 0 ELSE pml4[c]

\* c is the running context and stands at l
At(c, l) == ~halted /\ current = c /\ pc[c] = l

Goto(c, l) == pc' = [pc EXCEPT ![c] = l]

\* The pids whose stacks wait to be reclaimed
Queued == {pending[k] : k \in Procs} \ {0}

-----------------------------------------------------------------------------
(* switch_to, called by c, up to the instruction at which n continues.  st  *)
(* and isr are the states and the interrupted contexts as the caller leaves *)
(* them.  A context suspended inside the interrupt drains the reclaim queue *)
(* before interrupts come back on; one that yielded drains it with them on  *)
(* (Resumed, Take, Reclaim); a new one enters process_trampoline and drains *)
(* nothing.  Popping registers off an unmapped stack faults.  Running on a  *)
(* freed PML4 faults only if its page has been reused since.                *)
SwitchTo(n, st, isr) ==
  LET drains == n \in inIsr
      mapped == IF drains THEN stacks \ Queued ELSE stacks
      stackOk == n = Idle \/ rsp[n] \in mapped
      spaceOk == Pml4Of(n) \in spaces \cup {0}
  IN  /\ state' = IF n = Idle THEN st ELSE [st EXCEPT ![n] = "Running"]
      /\ current' = n
      /\ cr3' = Pml4Of(n)
      /\ stacks' = mapped
      /\ pending' = IF drains THEN [k \in Procs |-> 0] ELSE pending
      /\ inIsr' = isr \ {n}
      /\ halted' \in BOOLEAN
      /\ ~stackOk => halted'
      /\ stackOk /\ spaceOk => ~halted'
      /\ UNCHANGED <<pid, parent, waited, waitingFor, pml4, rsp, nextPid, spaces>>

MutantPreemptible == Preemptive /\ ~halted /\ pc[current] # "fresh"

\* The part of maybe_preempt every tick goes through.  A context that has already
\* left Running is never disturbed, nor one that has not reached
\* process_trampoline's `sti'.
Preemptible ==
  /\ Preemptive
  /\ ~halted
  /\ pc[current] # "fresh"
  /\ current # Idle => state[current] = "Running"

MutantTick ==
  /\ Preemptible
  /\ \E n \in Procs : IsLowest(n, Ready) /\ SwitchTo(n, state, inIsr \cup {current})
  /\ UNCHANGED <<pc, locals>>

\* timer_tick_isr, maybe_preempt
Tick ==
  /\ Preemptible
  /\ \E n \in Procs :
       /\ IsLowest(n, Ready)
       /\ SwitchTo(n,
                   IF current = Idle THEN state ELSE [state EXCEPT ![current] = "Ready"],
                   inIsr \cup {current})
  /\ UNCHANGED <<pc, locals>>

-----------------------------------------------------------------------------
(* Spawning *)

\* *process = Process::empty(), then the new pid, parent and state.  The
\* context that lived in the slot is gone.
ClaimWith(c, i, st, w) ==
  /\ state' = [state EXCEPT ![i] = st]
  /\ pid' = [pid EXCEPT ![i] = nextPid]
  /\ parent' = [parent EXCEPT ![i] = PidOf(c)]
  /\ waited' = [waited EXCEPT ![i] = w]
  /\ waitingFor' = [waitingFor EXCEPT ![i] = None]
  /\ pml4' = [pml4 EXCEPT ![i] = 0]
  /\ rsp' = [rsp EXCEPT ![i] = 0]
  /\ pc' = [pc EXCEPT ![i] = "none", ![c] = "claimed"]
  /\ target' = [target EXCEPT ![i] = None]
  /\ slot' = [slot EXCEPT ![i] = Idle, ![c] = i]
  /\ next' = [next EXCEPT ![i] = Idle]
  /\ cell' = [cell EXCEPT ![i] = 0]
  /\ taken' = [taken EXCEPT ![i] = 0]
  /\ inIsr' = inIsr \ {i}

MutantClaimReady(c, i) == ClaimWith(c, i, "Ready", FALSE)
MutantClaimWaited(c, i) == ClaimWith(c, i, "Loading", waited[i])
Claim(c, i) == ClaimWith(c, i, "Loading", FALSE)

\* process_spawn_with_argv: one critical section.  The pid is consumed even
\* when no slot is free.
ProcessSpawn(c) ==
  /\ nextPid <= PidBound
  /\ nextPid' = nextPid + 1
  /\ \/ \E i \in Procs : IsLowest(i, Claimable) /\ Claim(c, i)
     \/ Claimable = {} /\ UNCHANGED <<table, pc, target, slot, next, drain, inIsr>>
  /\ UNCHANGED <<current, memory, runSlot>>

RunProgram  == At(Idle, "shell") /\ ProcessSpawn(Idle)
UserSpawn(c) == At(c, "user") /\ ProcessSpawn(c)

\* run_program, no such image: process_fail_unwaited
RunNotFound ==
  /\ At(Idle, "claimed")
  /\ state' = [state EXCEPT ![slot[Idle]] = "Failed"]
  /\ waited' = [waited EXCEPT ![slot[Idle]] = TRUE]
  /\ slot' = [slot EXCEPT ![Idle] = Idle]
  /\ Goto(Idle, "shell")
  /\ UNCHANGED <<pid, parent, waitingFor, pml4, rsp, nextPid, current, memory,
                 target, next, runSlot, drain, inIsr>>

PrepareFailsWith(c, space) ==
  /\ state' = [state EXCEPT ![slot[c]] = "Failed"]
  /\ spaces' = spaces \ {space}
  /\ slot' = [slot EXCEPT ![c] = Idle]
  /\ Goto(c, IF c = Idle THEN "shell" ELSE "user")
  /\ UNCHANGED <<pid, parent, waited, waitingFor, pml4, rsp, nextPid, current,
                 stacks, pending, halted, target, next, runSlot, drain, inIsr>>

MutantPrepareFails(c) == PrepareFailsWith(c, Pml4Of(c))
\* Every failure of prepare_process: give back the address space if there is
\* one, mark the child Failed, return to the caller of spawn or run.
PrepareFails(c) == PrepareFailsWith(c, pid[slot[c]])

\* create_process_address_space, then write_cr3(child_pml4)
PrepareSpace(c) ==
  /\ At(c, "claimed")
  /\ spaces' = spaces \cup {pid[slot[c]]}
  /\ cr3' = pid[slot[c]]
  /\ Goto(c, "loading")
  /\ UNCHANGED <<table, nextPid, current, stacks, pending, halted, locals, inIsr>>

PrepareSpaceFails(c) == At(c, "claimed") /\ UNCHANGED cr3 /\ PrepareFails(c)

MutantLoadElf(c) ==
  /\ At(c, "loading")
  /\ Goto(c, "stack")
  /\ UNCHANGED <<table, nextPid, current, memory, locals, inIsr>>

\* load_program_elf_isolated, then write_cr3(parent_pml4)
LoadElf(c) ==
  /\ At(c, "loading")
  /\ cr3' = Pml4Of(c)
  /\ Goto(c, "stack")
  /\ UNCHANGED <<table, nextPid, current, spaces, stacks, pending, halted, locals, inIsr>>

LoadElfFails(c) == At(c, "loading") /\ cr3' = Pml4Of(c) /\ PrepareFails(c)

StackWith(c, top) ==
  /\ At(c, "stack")
  /\ stacks' = stacks \cup {pid[slot[c]]}
  /\ pml4' = [pml4 EXCEPT ![slot[c]] = pid[slot[c]]]
  /\ rsp' = [rsp EXCEPT ![slot[c]] = top]
  /\ pc' = [pc EXCEPT ![slot[c]] = "fresh", ![c] = "publish"]
  /\ target' = [target EXCEPT ![slot[c]] = None]
  /\ UNCHANGED <<state, pid, parent, waited, waitingFor, nextPid, current, cr3,
                 spaces, pending, halted, slot, next, runSlot, drain, inIsr>>

\* create_process_stack, build_initial_stack_frame and the entry, pml4_phys
\* and context.rsp stores
CreateStack(c) == StackWith(c, pid[slot[c]])

MutantCreateStackFails(c) ==
  /\ At(c, "stack")
  /\ state' = [state EXCEPT ![slot[c]] = "Failed"]
  /\ slot' = [slot EXCEPT ![c] = Idle]
  /\ Goto(c, IF c = Idle THEN "shell" ELSE "user")
  /\ UNCHANGED <<pid, parent, waited, waitingFor, pml4, rsp, nextPid, current,
                 memory, target, next, runSlot, drain, inIsr>>

CreateStackFails(c) == At(c, "stack") /\ UNCHANGED cr3 /\ PrepareFails(c)

\* process_set_state(Ready).  spawn returns the pid; run goes on to wait for it.
Publish(c) ==
  /\ At(c, "publish")
  /\ state' = [state EXCEPT ![slot[c]] = "Ready"]
  /\ Goto(c, IF c = Idle THEN "test" ELSE "user")
  /\ IF c = Idle
     THEN /\ target' = [target EXCEPT ![c] = pid[slot[c]]]
          /\ runSlot' = slot[c]
     ELSE UNCHANGED <<target, runSlot>>
  /\ slot' = [slot EXCEPT ![c] = Idle]
  /\ UNCHANGED <<pid, parent, waited, waitingFor, pml4, rsp, nextPid, current,
                 memory, next, drain, inIsr>>

-----------------------------------------------------------------------------
(* Waiting: wait_for_pid_blocking, wait_for_any_child_blocking, and the      *)
(* console's non-blocking `wait'.                                            *)

\* process_wait_by_pid and process_wait_any_child: what the scan looks for
Collectable(t, me) ==
  {i \in Procs : /\ ~waited[i]
                 /\ Zombie(i)
                 /\ IF t = AnyChild THEN parent[i] = me ELSE pid[i] = t}

\* find_process_index_by_pid and has_live_child: is waiting any use?
Awaitable(t, me) ==
  IF t = AnyChild
  THEN \E i \in Procs : parent[i] = me /\ state[i] \in {"Ready", "Running", "Blocked"}
  ELSE \E i \in Procs : pid[i] = t /\ state[i] # "Empty"

UserWait(c, t) ==
  /\ At(c, "user")
  /\ target' = [target EXCEPT ![c] = t]
  /\ Goto(c, "test")
  /\ UNCHANGED <<table, nextPid, current, memory, slot, next, runSlot, drain, inIsr>>

ShellWait(t) ==
  /\ At(Idle, "shell")
  /\ target' = [target EXCEPT ![Idle] = t]
  /\ Goto(Idle, "test")
  /\ UNCHANGED <<table, nextPid, current, memory, slot, next, runSlot, drain, inIsr>>

WaitReturns(c) ==
  /\ Goto(c, IF c # Idle THEN "user" ELSE IF runSlot # Idle THEN "runDone" ELSE "shell")
  /\ target' = [target EXCEPT ![c] = None]

\* The scan finds a zombie; the store to `waited' and the read of the status
\* follow with interrupts enabled.
WaitTest(c) ==
  /\ At(c, "test")
  /\ \E i \in Procs :
       IsLowest(i, Collectable(target[c], PidOf(c))) /\ slot' = [slot EXCEPT ![c] = i]
  /\ Goto(c, "collect")
  /\ UNCHANGED <<table, nextPid, current, memory, target, next, runSlot, drain, inIsr>>

WaitCollect(c) ==
  /\ At(c, "collect")
  /\ waited' = [waited EXCEPT ![slot[c]] = TRUE]
  /\ slot' = [slot EXCEPT ![c] = Idle]
  /\ WaitReturns(c)
  /\ UNCHANGED <<state, pid, parent, waitingFor, pml4, rsp, nextPid, current,
                 memory, next, runSlot, drain, inIsr>>

WaitMiss(c) ==
  /\ At(c, "test")
  /\ Collectable(target[c], PidOf(c)) = {}
  /\ IF c = Idle /\ runSlot = Idle
     THEN WaitReturns(c)
     ELSE Goto(c, "find") /\ UNCHANGED target
  /\ UNCHANGED <<table, nextPid, current, memory, slot, next, runSlot, drain, inIsr>>

WaitFind(c) ==
  /\ At(c, "find")
  /\ IF Awaitable(target[c], PidOf(c))
     THEN Goto(c, "block") /\ UNCHANGED target
     ELSE WaitReturns(c)
  /\ UNCHANGED <<table, nextPid, current, memory, slot, next, runSlot, drain, inIsr>>

\* block_current_on: does nothing for the idle context
WaitBlock(c) ==
  /\ At(c, "block")
  /\ Goto(c, "pick")
  /\ IF c = Idle
     THEN UNCHANGED <<state, waitingFor>>
     ELSE /\ state' = [state EXCEPT ![c] = "Blocked"]
          /\ waitingFor' = [waitingFor EXCEPT ![c] = target[c]]
  /\ UNCHANGED <<pid, parent, waited, pml4, rsp, nextPid, current, memory, locals, inIsr>>

\* run_program marks its slot once the wait is over
RunDone ==
  /\ At(Idle, "runDone")
  /\ waited' = [waited EXCEPT ![runSlot] = TRUE]
  /\ runSlot' = Idle
  /\ Goto(Idle, "shell")
  /\ UNCHANGED <<state, pid, parent, waitingFor, pml4, rsp, nextPid, current,
                 memory, target, slot, next, drain, inIsr>>

-----------------------------------------------------------------------------
(* Yielding: run_scheduler_step and the loop of exit_and_yield *)

PickWith(c, S, otherwise) ==
  /\ At(c, "pick")
  /\ \/ \E n \in Procs : IsLowest(n, S) /\ next' = [next EXCEPT ![c] = n]
     \/ S = {} /\ next' = [next EXCEPT ![c] = otherwise]
  /\ Goto(c, "switch")
  /\ UNCHANGED <<table, nextPid, current, memory, target, slot, runSlot, drain, inIsr>>

MutantPickFallback(c) == PickWith(c, Ready, ProcessCount + 1)
\* pick_next_ready().unwrap_or(PROCESS_COUNT)
PickNextReady(c) == PickWith(c, Ready, Idle)

Switch(c) ==
  /\ At(c, "switch")
  /\ SwitchTo(next[c], state, inIsr)
  /\ Goto(c, "resumed")
  /\ next' = [next EXCEPT ![c] = Idle]
  /\ UNCHANGED <<target, slot, runSlot, drain>>

\* The rest of switch_to in a context that yielded: reclaim_pending_stacks, with
\* interrupts enabled.  One step reads a cell.
Resumed(c) ==
  /\ At(c, "resumed") /\ cell[c] # ProcessCount
  /\ IF pending[cell[c]] = 0
     THEN cell' = [cell EXCEPT ![c] = @ + 1] /\ UNCHANGED <<pc, taken>>
     ELSE taken' = [taken EXCEPT ![c] = pending[cell[c]]] /\ Goto(c, "take") /\ UNCHANGED cell
  /\ UNCHANGED <<table, nextPid, current, memory, target, slot, next, runSlot, inIsr>>

\* slot.take() stores None, whatever the cell holds by now
Take(c) ==
  /\ At(c, "take")
  /\ pending' = [pending EXCEPT ![cell[c]] = 0]
  /\ Goto(c, "reclaim")
  /\ UNCHANGED <<table, nextPid, current, cr3, spaces, stacks, halted, locals, inIsr>>

\* reclaim_process_stack, as of the page its owner stands on
Reclaim(c) ==
  /\ At(c, "reclaim")
  /\ stacks' = stacks \ {taken[c]}
  /\ halted' = (c # Idle /\ rsp[c] \notin stacks \ {taken[c]})
  /\ taken' = [taken EXCEPT ![c] = 0]
  /\ cell' = [cell EXCEPT ![c] = @ + 1]
  /\ Goto(c, "resumed")
  /\ UNCHANGED <<table, nextPid, current, cr3, spaces, pending, target, slot, next,
                 runSlot, inIsr>>

\* switch_to returns, and the caller goes back round the loop it yielded from.
Yielded(c) ==
  /\ At(c, "resumed") /\ cell[c] = ProcessCount
  /\ cell' = [cell EXCEPT ![c] = 0]
  /\ Goto(c, IF target[c] = None THEN "pick" ELSE "test")
  /\ UNCHANGED <<table, nextPid, current, memory, target, slot, next, runSlot, taken, inIsr>>

-----------------------------------------------------------------------------
(* A process's life: process_trampoline and exit_and_yield *)

Trampoline(c) ==
  /\ At(c, "fresh")
  /\ Goto(c, "user")
  /\ UNCHANGED <<table, nextPid, current, memory, locals, inIsr>>

MutantUserExit(c) ==
  /\ At(c, "user")
  /\ \E k \in Procs :
       pending[k] = 0 /\ pending' = [pending EXCEPT ![k] = pid[c]]
  /\ Goto(c, "destroy")
  /\ UNCHANGED <<table, nextPid, current, cr3, spaces, stacks, halted, locals, inIsr>>

\* The program returns; its heap and mmap windows are reclaimed.
UserExit(c) ==
  /\ At(c, "user")
  /\ Goto(c, "destroy")
  /\ UNCHANGED <<table, nextPid, current, memory, locals, inIsr>>

\* destroy_process_address_space, with CR3 still on it
ExitDestroy(c) ==
  /\ At(c, "destroy")
  /\ spaces' = spaces \ {pml4[c]}
  /\ Goto(c, "cr3")
  /\ UNCHANGED <<table, nextPid, current, cr3, stacks, pending, halted, locals, inIsr>>

ExitCr3(c) ==
  /\ At(c, "cr3")
  /\ cr3' = 0
  /\ Goto(c, "unlink")
  /\ UNCHANGED <<table, nextPid, current, spaces, stacks, pending, halted, locals, inIsr>>

ExitUnlink(c) ==
  /\ At(c, "unlink")
  /\ pml4' = [pml4 EXCEPT ![c] = 0]
  /\ Goto(c, "queue")
  /\ UNCHANGED <<state, pid, parent, waited, waitingFor, rsp, nextPid, current,
                 memory, locals, inIsr>>

\* queue_stack_reclaim looks for an empty cell, one at a time and with interrupts
\* enabled; the pid is dropped when there is none.
ExitQueue(c) ==
  /\ At(c, "queue")
  /\ IF cell[c] = ProcessCount
     THEN cell' = [cell EXCEPT ![c] = 0] /\ Goto(c, "exit")
     ELSE IF pending[cell[c]] = 0
     THEN Goto(c, "store") /\ UNCHANGED cell
     ELSE cell' = [cell EXCEPT ![c] = @ + 1] /\ UNCHANGED pc
  /\ UNCHANGED <<table, nextPid, current, memory, target, slot, next, runSlot, taken, inIsr>>

StoreWith(c, p) ==
  /\ At(c, "store")
  /\ pending' = [pending EXCEPT ![cell[c]] = p]
  /\ cell' = [cell EXCEPT ![c] = 0]
  /\ Goto(c, "exit")
  /\ UNCHANGED <<table, nextPid, current, cr3, spaces, stacks, halted, target, slot, next,
                 runSlot, taken, inIsr>>

MutantExitStore(c) == StoreWith(c, IF parent[c] = 0 THEN pid[c] ELSE parent[c])

\* The store to the cell that was found empty
ExitStore(c) == StoreWith(c, pid[c])

MutantWoken(p) == {i \in Procs : state[i] = "Blocked" /\ waitingFor[i] = AnyChild}
\* wake_waiters_for(p): who gets woken
Woken(p) == {i \in Procs : state[i] = "Blocked" /\ waitingFor[i] \in {p, AnyChild}}

\* exit_and_yield: process_set_state(Exited) and wake_waiters_for.  One step:
\* from the moment the state is Exited no tick takes the CPU away.
ExitProcess(c) ==
  /\ At(c, "exit")
  /\ state' = [i \in Procs |-> IF i = c THEN "Exited"
                               ELSE IF i \in Woken(pid[c]) THEN "Ready" ELSE state[i]]
  /\ waitingFor' = [i \in Procs |-> IF i \in Woken(pid[c]) THEN None ELSE waitingFor[i]]
  /\ Goto(c, "pick")
  /\ UNCHANGED <<pid, parent, waited, pml4, rsp, nextPid, current, memory, locals, inIsr>>

-----------------------------------------------------------------------------
\* Steps the kernel takes by itself once it is in the middle of something
KernelStep(c) ==
  \/ PrepareSpace(c) \/ PrepareSpaceFails(c)
  \/ LoadElf(c) \/ LoadElfFails(c)
  \/ CreateStack(c) \/ CreateStackFails(c)
  \/ Publish(c)
  \/ WaitTest(c) \/ WaitCollect(c) \/ WaitMiss(c) \/ WaitFind(c) \/ WaitBlock(c)
  \/ PickNextReady(c) \/ Switch(c)
  \/ Resumed(c) \/ Take(c) \/ Reclaim(c) \/ Yielded(c)
  \/ Trampoline(c)
  \/ ExitDestroy(c) \/ ExitCr3(c) \/ ExitUnlink(c)
  \/ ExitQueue(c) \/ ExitStore(c) \/ ExitProcess(c)

\* What a program may ask for
UserStep(c) ==
  \/ UserSpawn(c)
  \/ \E t \in Pids \cup {AnyChild} : UserWait(c, t)
  \/ UserExit(c)

\* What the console does
ShellStep ==
  \/ RunProgram
  \/ RunNotFound
  \/ \E t \in Pids \cup {AnyChild} : ShellWait(t)
  \/ RunDone

Next ==
  \/ Tick
  \/ ShellStep
  \/ \E c \in Ctx : KernelStep(c)
  \/ \E c \in Procs : UserStep(c)

Spec == Init /\ [][Next]_vars

(* The CPU executes the current context's kernel code, and the PIT keeps    *)
(* raising IRQ0.  Programs and the person at the console owe nothing.       *)
Fairness ==
  /\ WF_vars(Tick)
  /\ WF_vars(\E c \in Ctx : KernelStep(c))
  /\ WF_vars(RunDone)

FairSpec == Spec /\ Fairness

(* Stronger: a context that gets the CPU again and again does move on (a    *)
(* 10 ms tick is far longer than any kernel step).                          *)
ProgressSpec == FairSpec /\ \A c \in Ctx : SF_vars(KernelStep(c))
-----------------------------------------------------------------------------
(* Vocabulary of the properties *)

\* c has finished exit_and_yield's bookkeeping and only loops in it
InExitLoop(c) ==
  pc[c] \in {"pick", "switch", "resumed", "take", "reclaim"} /\ target[c] = None

\* c has given up its address space, or its stack, on the way out
PastDestroy(c) == pc[c] \in {"cr3", "unlink", "queue", "store", "exit"} \/ InExitLoop(c)
PastQueue(c)   == pc[c] = "exit" \/ InExitLoop(c)

Live(i) == state[i] \in {"Ready", "Running", "Blocked"}

\* Single CPU: a slot marked Running is the one CURRENT_PROCESS_INDEX names,
\* whatever mix of ticks, yields and exits led here.  The exception is a dead
\* context that was switched to again.
RunningIsCurrent ==
  \A i \in Procs : state[i] = "Running" => current = i \/ InExitLoop(i)

\* ProcessState::Loading exists so that the tick can never pick a slot whose
\* context.rsp is still zero: every Ready slot has a saved stack pointer on
\* its own pid's stack and code to resume.
ReadyHasContext ==
  \A i \in Procs : state[i] = "Ready" => rsp[i] = pid[i] /\ pc[i] # "none"

\* The deferred reclaim of kernel stacks never takes the stack of a process
\* that has not itself queued it.
LiveStackMapped ==
  ~halted => \A i \in Procs : Live(i) /\ ~PastQueue(i) => pid[i] \in stacks

\* Up to the tail of process_trampoline the running context executes on an allocated
\* PML4, its own; in the load of prepare_process it is the child's, or its own again
\* once a tick has come between (which is where the ELF is then written): never that
\* of a third process.
Cr3Follows ==
  ~halted /\ ~PastDestroy(current)
    => /\ cr3 \in spaces \cup {0}
       /\ \/ cr3 = Pml4Of(current)
          \/ pc[current] = "loading" /\ cr3 = pid[slot[current]]

\* Every private PML4 still allocated belongs to a slot of the table that has
\* not failed and has not torn it down: no path of prepare_process leaks one.
AddressSpaceOwned ==
  \A p \in spaces : \E i \in Procs :
    pid[i] = p /\ (state[i] = "Loading" \/ Live(i)) /\ ~PastDestroy(i)

\* A process Blocked on a pid is blocked on one that can still wake it: no
\* zombie whose status has yet to be collected is being waited for by a
\* process nobody will wake.
NoLostWakeup ==
  \A i, j \in Procs :
    state[i] = "Blocked" /\ waitingFor[i] = pid[j] /\ Zombie(j) => waited[j]

\* A process that exits leaves a status to be collected: it never becomes a
\* zombie that already looks reaped, whose slot is handed out (and whose
\* parent's wait never returns) with the status still in it.
ExitLeavesStatus ==
  [][\A i \in Procs : Live(i) /\ state'[i] = "Exited" => ~waited'[i]]_vars

\* CR3 is never left on a freed PML4 by a switch.
NoDanglingSwitch ==
  [][current' # current => cr3' \in spaces \cup {0}]_vars

\* A stack is reclaimed only once its owner is Exited.
ReclaimsExitedOnly ==
  [][\A i \in Procs : pid[i] \in stacks \ stacks' => state[i] = "Exited"]_vars

\* A tick never brings a dead context back, and neither does a process that yields:
\* only the console can, whose pick of run_scheduler_step a tick may have made stale.
OnlyConsoleRevives ==
  [][\A i \in Procs : current # i /\ current' = i /\ Zombie(i) => current = Idle]_vars

\* Slot 0 cannot starve: once Ready it is eventually run (the scan of
\* pick_next_ready starts there), unless the machine stops.
SlotZeroRuns == (state[0] = "Ready") ~> (state[0] # "Ready" \/ halted)

\* Every Ready process is eventually run, whichever slot it sits in, unless
\* the machine stops.
ReadyRuns == \A i \in Procs : (state[i] = "Ready") ~> (state[i] # "Ready" \/ halted)

-----------------------------------------------------------------------------
\* The table as ProcLife sees it.
Life ==
  [p \in Pids |->
     IF p >= nextPid THEN "unborn"
     ELSE IF ~\E i \in Procs : state[i] # "Empty" /\ pid[i] = p THEN "gone"
     ELSE LET i == CHOOSE i \in Procs : state[i] # "Empty" /\ pid[i] = p
          IN  CASE state[i] = "Loading" -> "loading"
                [] Live(i) -> "live"
                [] Zombie(i) /\ ~waited[i] -> "zombie"
                [] OTHER -> "reaped"]

Lifecycle == INSTANCE ProcLife WITH life <- Life

\* A process's exit status stays in its slot until someone has waited for it:
\* the table implements ProcLife.
LifecycleSpec == Lifecycle!Spec
=============================================================================
