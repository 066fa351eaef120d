--------------------------- MODULE SchedulerProofs ---------------------------
(***************************************************************************)
(* For every number of slots, every bound on pids, with and without the    *)
(* preempting tick: the scheduler's variables keep their types, and at     *)
(* most one slot is Running, the current one; a Ready slot has a context   *)
(* whose stack and address space are its own.  Without the tick, nobody    *)
(* sleeps through the exit it waits for.                                   *)
(***************************************************************************)
EXTENDS Scheduler, TLAPS

\* Labels at which a context works on the slot its local `slot' names
PreLabels     == {"claimed", "loading", "stack"}
PrepareLabels == {"claimed", "loading", "stack", "publish"}
SlotLabels    == PrepareLabels \cup {"collect"}

\* Labels in switch_to after the switch back, while it drains the reclaim queue
BackLabels == {"resumed", "take", "reclaim"}

\* Labels inside a blocking wait, or in the yield it shares with exit
WaitLabels == {"test", "collect", "find", "block", "pick", "switch"} \cup BackLabels

IdleLabels == {"shell", "runDone"} \cup PrepareLabels \cup WaitLabels

\* The console never stands in code only a process runs.
IdleOK == pc[Idle] \in IdleLabels

\* The slot a context works on is a slot of the table, and once claimed it has
\* a pid; so does any slot with a context.
SlotOK ==
  /\ \A c \in Ctx : pc[c] \in SlotLabels => slot[c] \in Procs
  /\ \A c \in Ctx : pc[c] \in PrepareLabels => pid[slot[c]] # 0
  /\ \A i \in Procs : pc[i] # "none" => pid[i] # 0

\* A process has a wait target only inside a wait.
TargetOK == \A c \in Procs : pc[c] \notin WaitLabels => target[c] = None

\* A process about to yield from a wait is current and already Blocked, so no
\* tick gets in between.
YieldOK ==
  \A c \in Procs :
    pc[c] \in {"pick", "switch"} /\ target[c] # None => current = c /\ state[c] = "Blocked"

\* The CPU belongs to a process with a context, marked Running until it gives
\* the CPU up by itself.
CurrentOK ==
  ~halted /\ current # Idle =>
    rsp[current] # 0 /\ (pc[current] \notin {"pick", "switch"} => state[current] = "Running")

\* Until the context of a new process is built, its slot belongs to the one
\* context preparing it: not claimable by another, not runnable without a fault.
OwnOK ==
  /\ \A c \in Ctx : pc[c] \in PrepareLabels => slot[c] # c
  /\ \A c \in Ctx : pc[c] \in PreLabels =>
       halted \/ (rsp[slot[c]] = 0 /\ state[slot[c]] \in {"Loading", "Ready"})
  /\ \A c, d \in Ctx : pc[c] \in PreLabels /\ pc[d] \in PreLabels /\ c # d => slot[c] # slot[d]

\* Whoever works on a cell of PENDING_STACK_RECLAIMS has found one.
CellOK == \A c \in Ctx : pc[c] \in {"take", "reclaim", "store"} => cell[c] \in Procs

IInv ==
  /\ TypeOK /\ IdleOK /\ SlotOK /\ TargetOK /\ YieldOK /\ CurrentOK /\ OwnOK
  /\ RunningIsCurrent /\ CellOK

-----------------------------------------------------------------------------
\* What the provers need to know of the index and pid sets
LEMMA Domains ==
  /\ Ctx = Procs \cup {Idle}
  /\ Idle \notin Procs
  /\ 0 \in 0 .. PidBound
  /\ Pids \subseteq 0 .. PidBound
  /\ 0 \notin Pids
  /\ \A p \in 0 .. PidBound : p # 0 => p \in Pids
  /\ None \in Targets /\ AnyChild \in Targets
  /\ \A p \in 0 .. PidBound : p \in Targets
  /\ 1 \in 1 .. PidBound + 1
  /\ \A n \in 1 .. PidBound + 1 : n <= PidBound => n \in Pids /\ n + 1 \in 1 .. PidBound + 1
  BY SchedulerAssumption DEF Ctx, Procs, Idle, Pids, Targets, None, AnyChild

\* ... and of the cells of PENDING_STACK_RECLAIMS
LEMMA Cells ==
  /\ 0 \in Procs /\ 0 \in Ctx
  /\ \A k \in Procs : k + 1 \in Ctx
  /\ \A k \in Ctx : k # ProcessCount => k \in Procs
  BY SchedulerAssumption DEF Ctx, Procs

USE Domains DEF PreLabels, PrepareLabels, SlotLabels, BackLabels, WaitLabels, IdleLabels

\* The initial state satisfies the invariant.
LEMMA InitInv == Init => IInv
<1> SUFFICES ASSUME Init PROVE IInv
  OBVIOUS
<1> USE DEF Init
<1>1. TypeOK
  BY Cells DEF TypeOK, States, Labels
<1>2. IdleOK /\ SlotOK /\ TargetOK
  BY DEF IdleOK, SlotOK, TargetOK
<1>3. YieldOK /\ CurrentOK /\ OwnOK /\ RunningIsCurrent /\ CellOK
  BY DEF YieldOK, CurrentOK, OwnOK, RunningIsCurrent, CellOK
<1> QED
  BY <1>1, <1>2, <1>3 DEF IInv

-----------------------------------------------------------------------------
(* One lemma per action: it preserves every part of the invariant. *)

\* What switch_to leaves behind, whoever calls it
LEMMA SwitchFacts ==
  ASSUME TypeOK, NEW n \in Ctx, NEW st \in [Procs -> States], NEW isr \in SUBSET Ctx,
         SwitchTo(n, st, isr)
  PROVE  /\ state' = [i \in Procs |-> IF i = n THEN "Running" ELSE st[i]]
         /\ current' = n
         /\ cr3' \in 0 .. PidBound
         /\ stacks' \subseteq Pids /\ pending' \in [Procs -> 0 .. PidBound] /\ inIsr' \subseteq Ctx
         /\ halted' \in BOOLEAN
         /\ ~halted' /\ n # Idle => rsp[n] # 0
         /\ UNCHANGED <<pid, parent, waited, waitingFor, pml4, rsp, nextPid, spaces>>
<1> USE DEF SwitchTo, TypeOK
<1>1. state' = [i \in Procs |-> IF i = n THEN "Running" ELSE st[i]]
  <2>1. CASE n = Idle
    BY <2>1
  <2>2. CASE n \in Procs
    BY <2>2
  <2> QED
    BY <2>1, <2>2
<1>2. cr3' \in 0 .. PidBound
  BY DEF Pml4Of
<1>3. stacks' \subseteq Pids /\ pending' \in [Procs -> 0 .. PidBound] /\ inIsr' \subseteq Ctx
  OBVIOUS
<1>4. ~halted' /\ n # Idle => rsp[n] # 0
  OBVIOUS
<1> QED
  BY <1>1, <1>2, <1>3, <1>4

\* The timer tick
LEMMA TickInv == ASSUME IInv, Tick PROVE IInv'
<1>0. TypeOK /\ IdleOK /\ SlotOK /\ TargetOK /\ YieldOK /\ CurrentOK /\ OwnOK /\ RunningIsCurrent /\ CellOK
  BY DEF IInv
<1> DEFINE st == IF current = Idle THEN state ELSE [state EXCEPT ![current] = "Ready"]
<1>1. st \in [Procs -> States] /\ inIsr \cup {current} \in SUBSET Ctx
  BY <1>0 DEF TypeOK, States
<1>2. PICK n \in Procs : SwitchTo(n, st, inIsr \cup {current})
  BY DEF Tick
<1>3. UNCHANGED <<pc, target, slot, next, runSlot, cell, taken>>
  BY DEF Tick, locals, drain
<1>4. ~halted /\ (current \in Procs => state[current] = "Running")
  BY DEF Tick, Preemptible
<1>5. /\ state' = [i \in Procs |-> IF i = n THEN "Running" ELSE st[i]]
      /\ current' = n
      /\ cr3' \in 0 .. PidBound
      /\ stacks' \subseteq Pids /\ pending' \in [Procs -> 0 .. PidBound] /\ inIsr' \subseteq Ctx
      /\ halted' \in BOOLEAN
      /\ ~halted' => rsp[n] # 0
      /\ UNCHANGED <<pid, parent, waited, waitingFor, pml4, rsp, nextPid, spaces>>
  BY <1>0, <1>1, <1>2, SwitchFacts
<1> HIDE DEF st
<1>6. \A i \in Procs : st[i] = IF i = current THEN "Ready" ELSE state[i]
  BY <1>0 DEF st, TypeOK
<1>7. TypeOK'
  BY <1>0, <1>1, <1>3, <1>5 DEF TypeOK, States
<1>8. IdleOK' /\ SlotOK' /\ TargetOK'
  BY <1>0, <1>3, <1>5 DEF IdleOK, SlotOK, TargetOK
<1>9. YieldOK'
  BY <1>0, <1>3, <1>4, <1>5 DEF YieldOK
<1>10. CurrentOK'
  BY <1>0, <1>3, <1>5 DEF CurrentOK, TypeOK
<1>11. OwnOK'
  BY <1>0, <1>3, <1>4, <1>5, <1>6 DEF OwnOK, SlotOK, TypeOK
<1>12. RunningIsCurrent'
  BY <1>0, <1>3, <1>4, <1>5, <1>6 DEF RunningIsCurrent, InExitLoop, TypeOK
<1>c. CellOK'
  BY <1>0, <1>3 DEF CellOK
<1> QED
  BY <1>c, <1>7, <1>8, <1>9, <1>10, <1>11, <1>12 DEF IInv

\* A voluntary switch
LEMMA SwitchInv == ASSUME NEW c \in Ctx, IInv, Switch(c) PROVE IInv'
<1>0. TypeOK /\ IdleOK /\ SlotOK /\ TargetOK /\ YieldOK /\ CurrentOK /\ OwnOK /\ RunningIsCurrent /\ CellOK
  BY DEF IInv
<1>1. ~halted /\ current = c /\ pc[c] = "switch"
  BY DEF Switch, At
<1>2. pc' = [pc EXCEPT ![c] = "resumed"] /\ next' = [next EXCEPT ![c] = Idle]
      /\ UNCHANGED <<target, slot, runSlot, cell, taken>>
  BY DEF Switch, Goto, drain
<1>3. PICK n \in Ctx : n = next[c]
  BY <1>0 DEF TypeOK
<1>4. SwitchTo(n, state, inIsr)
  BY <1>3 DEF Switch
<1>5. /\ state' = [i \in Procs |-> IF i = n THEN "Running" ELSE state[i]]
      /\ current' = n
      /\ cr3' \in 0 .. PidBound
      /\ stacks' \subseteq Pids /\ pending' \in [Procs -> 0 .. PidBound] /\ inIsr' \subseteq Ctx
      /\ halted' \in BOOLEAN
      /\ ~halted' /\ n # Idle => rsp[n] # 0
      /\ UNCHANGED <<pid, parent, waited, waitingFor, pml4, rsp, nextPid, spaces>>
  BY <1>0, <1>4, SwitchFacts DEF TypeOK
<1>6. TypeOK'
  BY <1>0, <1>2, <1>5 DEF TypeOK, States, Labels
<1>7. IdleOK' /\ SlotOK' /\ TargetOK'
  BY <1>0, <1>1, <1>2, <1>5 DEF IdleOK, SlotOK, TargetOK, TypeOK
<1>8. YieldOK'
  BY <1>0, <1>1, <1>2, <1>5 DEF YieldOK, TypeOK
<1>9. CurrentOK'
  BY <1>0, <1>2, <1>5 DEF CurrentOK, TypeOK
<1>10. OwnOK'
  BY <1>0, <1>1, <1>2, <1>5 DEF OwnOK, SlotOK, TypeOK
<1>11. RunningIsCurrent'
  BY <1>0, <1>1, <1>2, <1>5 DEF RunningIsCurrent, InExitLoop, YieldOK, TypeOK
<1>c. CellOK'
  BY <1>0, <1>2 DEF CellOK, TypeOK
<1> QED
  BY <1>c, <1>6, <1>7, <1>8, <1>9, <1>10, <1>11 DEF IInv

\* A spawn, from the console or from a program
LEMMA SpawnInv ==
  ASSUME NEW c \in Ctx, IInv, ~halted, current = c, ProcessSpawn(c),
         IF c = Idle THEN pc[c] = "shell" ELSE pc[c] = "user"
  PROVE  IInv'
<1>0. TypeOK /\ IdleOK /\ SlotOK /\ TargetOK /\ YieldOK /\ CurrentOK /\ OwnOK /\ RunningIsCurrent /\ CellOK
  BY DEF IInv
<1>1. nextPid \in Pids /\ nextPid' \in 1 .. PidBound + 1
      /\ UNCHANGED <<current, cr3, spaces, stacks, pending, halted, runSlot>>
  BY <1>0 DEF ProcessSpawn, memory, TypeOK
<1>2. CASE UNCHANGED <<table, pc, target, slot, next, drain, inIsr>>
  <2> USE <1>0, <1>1, <1>2 DEF table, drain
  <2>1. TypeOK'
    BY DEF TypeOK
  <2>2. IdleOK' /\ SlotOK' /\ TargetOK' /\ YieldOK'
    BY DEF IdleOK, SlotOK, TargetOK, YieldOK
  <2>3. CurrentOK' /\ OwnOK' /\ RunningIsCurrent' /\ CellOK'
    BY DEF CurrentOK, OwnOK, RunningIsCurrent, InExitLoop, CellOK
  <2> QED
    BY <2>1, <2>2, <2>3 DEF IInv
<1>3. ASSUME NEW i \in Procs, IsLowest(i, Claimable), Claim(c, i) PROVE IInv'
  <2>1. state[i] \in {"Empty", "Exited", "Failed"}
    BY <1>3 DEF IsLowest, Claimable, EmptySlots, ReapableSlots, Zombie
  <2>2. i # c
    BY <1>0, <2>1 DEF CurrentOK
  <2> USE <1>0, <1>1, <1>3 DEF Claim, ClaimWith
  <2>3. TypeOK'
    BY Cells DEF TypeOK, States, Labels, PidOf
  <2>4. IdleOK'
    BY <2>2 DEF IdleOK, TypeOK
  <2>5. SlotOK'
    BY <2>2 DEF SlotOK, TypeOK
  <2>6. TargetOK'
    BY <2>2 DEF TargetOK, TypeOK
  <2>7. YieldOK'
    BY <2>2 DEF YieldOK, TypeOK
  <2>8. CurrentOK'
    BY <2>2 DEF CurrentOK, TypeOK
  <2>9. OwnOK'
    <3>1. \A d \in Ctx : pc'[d] \in PreLabels => d = c \/ (d # i /\ pc[d] \in PreLabels)
      BY <2>2 DEF TypeOK
    <3>2. \A d \in Ctx : pc'[d] \in PrepareLabels => d = c \/ (d # i /\ pc[d] \in PrepareLabels)
      BY <2>2 DEF TypeOK
    <3>3. \A d \in Ctx : d \notin {c, i} => slot'[d] = slot[d]
      BY DEF TypeOK
    <3>4. slot'[c] = i /\ state'[i] = "Loading" /\ rsp'[i] = 0
      BY <2>2 DEF TypeOK
    <3>5. \A j \in Procs : j # i => state'[j] = state[j] /\ rsp'[j] = rsp[j]
      BY DEF TypeOK
    <3>6. \A d \in Ctx : pc[d] \in PreLabels => slot[d] \in Procs /\ slot[d] # i
      BY <2>1 DEF OwnOK, SlotOK
    <3> HIDE DEF Claim, ClaimWith
    <3>7. \A d \in Ctx : pc'[d] \in PrepareLabels => slot'[d] # d
      BY <2>2, <3>2, <3>3, <3>4 DEF OwnOK
    <3>8. ASSUME NEW d \in Ctx, pc'[d] \in PreLabels
          PROVE  rsp'[slot'[d]] = 0 /\ state'[slot'[d]] \in {"Loading", "Ready"}
      BY <2>2, <3>1, <3>3, <3>4, <3>5, <3>6, <3>8 DEF OwnOK
    <3>9. ASSUME NEW d \in Ctx, NEW e \in Ctx, pc'[d] \in PreLabels, pc'[e] \in PreLabels, d # e
          PROVE  slot'[d] # slot'[e]
      BY <2>2, <3>1, <3>3, <3>4, <3>6, <3>9 DEF OwnOK
    <3> QED
      BY <3>7, <3>8, <3>9 DEF OwnOK
  <2>10. RunningIsCurrent'
    BY <2>2 DEF RunningIsCurrent, InExitLoop, TypeOK
  <2>11. CellOK'
    BY <2>2 DEF CellOK, TypeOK
  <2> QED
    BY <2>11, <2>3, <2>4, <2>5, <2>6, <2>7, <2>8, <2>9, <2>10 DEF IInv
<1> QED
  BY <1>2, <1>3 DEF ProcessSpawn

\* A missing image preserves the invariant.
LEMMA RunNotFoundInv == ASSUME IInv, RunNotFound PROVE IInv'
<1> USE DEF RunNotFound, At, Goto, table, memory, locals, drain
<1>0. TypeOK /\ IdleOK /\ SlotOK /\ TargetOK /\ YieldOK /\ CurrentOK /\ OwnOK /\ RunningIsCurrent /\ CellOK
  BY DEF IInv
<1>1. slot[Idle] \in Procs /\ pid[slot[Idle]] \in Pids
  BY <1>0 DEF SlotOK, TypeOK
<1>2. TypeOK'
  BY <1>0, <1>1 DEF TypeOK, States, Labels
<1>3. IdleOK' /\ TargetOK'
  BY <1>0, <1>1 DEF TypeOK, IdleOK, TargetOK
<1>4. SlotOK'
  BY <1>0, <1>1 DEF TypeOK, SlotOK
<1>5. YieldOK'
  BY <1>0, <1>1 DEF TypeOK, YieldOK, TargetOK
<1>6. CurrentOK'
  BY <1>0, <1>1 DEF TypeOK, CurrentOK, OwnOK
<1>7. OwnOK'
  BY <1>0, <1>1 DEF TypeOK, OwnOK, SlotOK, CurrentOK
<1>8. RunningIsCurrent'
  BY <1>0, <1>1 DEF TypeOK, RunningIsCurrent, YieldOK, InExitLoop, OwnOK
<1>c. CellOK'
  BY <1>0 DEF TypeOK, CellOK
<1> QED
  BY <1>c, <1>2, <1>3, <1>4, <1>5, <1>6, <1>7, <1>8 DEF IInv

\* The end of a run preserves the invariant.
LEMMA RunDoneInv == ASSUME IInv, RunDone PROVE IInv'
<1> USE DEF RunDone, At, Goto, table, memory, locals, drain
<1>0. TypeOK /\ IdleOK /\ SlotOK /\ TargetOK /\ YieldOK /\ CurrentOK /\ OwnOK /\ RunningIsCurrent /\ CellOK
  BY DEF IInv
<1>2. TypeOK'
  BY <1>0 DEF TypeOK, States, Labels
<1>3. IdleOK' /\ TargetOK'
  BY <1>0 DEF TypeOK, IdleOK, TargetOK
<1>4. SlotOK'
  BY <1>0 DEF TypeOK, SlotOK
<1>5. YieldOK'
  BY <1>0 DEF TypeOK, YieldOK, TargetOK
<1>6. CurrentOK'
  BY <1>0 DEF TypeOK, CurrentOK, OwnOK
<1>7. OwnOK'
  BY <1>0 DEF TypeOK, OwnOK, SlotOK, CurrentOK
<1>8. RunningIsCurrent'
  BY <1>0 DEF TypeOK, RunningIsCurrent, YieldOK, InExitLoop, OwnOK
<1>c. CellOK'
  BY <1>0 DEF TypeOK, CellOK
<1> QED
  BY <1>c, <1>2, <1>3, <1>4, <1>5, <1>6, <1>7, <1>8 DEF IInv

\* A new address space preserves the invariant.
LEMMA PrepareSpaceInv == ASSUME NEW c \in Ctx, IInv, PrepareSpace(c) PROVE IInv'
<1> USE DEF PrepareSpace, At, Goto, table, memory, locals, drain
<1>0. TypeOK /\ IdleOK /\ SlotOK /\ TargetOK /\ YieldOK /\ CurrentOK /\ OwnOK /\ RunningIsCurrent /\ CellOK
  BY DEF IInv
<1>1. slot[c] \in Procs /\ pid[slot[c]] \in Pids
  BY <1>0 DEF SlotOK, TypeOK
<1>2. TypeOK'
  BY <1>0, <1>1 DEF TypeOK, States, Labels
<1>3. IdleOK' /\ TargetOK'
  BY <1>0, <1>1 DEF TypeOK, IdleOK, TargetOK
<1>4. SlotOK'
  BY <1>0, <1>1 DEF TypeOK, SlotOK
<1>5. YieldOK'
  BY <1>0, <1>1 DEF TypeOK, YieldOK, TargetOK
<1>6. CurrentOK'
  BY <1>0, <1>1 DEF TypeOK, CurrentOK, OwnOK
<1>7. OwnOK'
  BY <1>0, <1>1 DEF TypeOK, OwnOK, SlotOK, CurrentOK
<1>8. RunningIsCurrent'
  BY <1>0, <1>1 DEF TypeOK, RunningIsCurrent, YieldOK, InExitLoop, OwnOK
<1>c. CellOK'
  BY <1>0 DEF TypeOK, CellOK
<1> QED
  BY <1>c, <1>2, <1>3, <1>4, <1>5, <1>6, <1>7, <1>8 DEF IInv

\* No address space preserves the invariant.
LEMMA PrepareSpaceFailsInv == ASSUME NEW c \in Ctx, IInv, PrepareSpaceFails(c) PROVE IInv'
<1> USE DEF PrepareSpaceFails, PrepareFails, PrepareFailsWith, At, Goto, table, memory, locals, drain
<1>0. TypeOK /\ IdleOK /\ SlotOK /\ TargetOK /\ YieldOK /\ CurrentOK /\ OwnOK /\ RunningIsCurrent /\ CellOK
  BY DEF IInv
<1>1. slot[c] \in Procs /\ pid[slot[c]] \in Pids
  BY <1>0 DEF SlotOK, TypeOK
<1>2. TypeOK'
  BY <1>0, <1>1 DEF TypeOK, States, Labels
<1>3. IdleOK' /\ TargetOK'
  BY <1>0, <1>1 DEF TypeOK, IdleOK, TargetOK
<1>4. SlotOK'
  BY <1>0, <1>1 DEF TypeOK, SlotOK
<1>5. YieldOK'
  BY <1>0, <1>1 DEF TypeOK, YieldOK, TargetOK
<1>6. CurrentOK'
  BY <1>0, <1>1 DEF TypeOK, CurrentOK, OwnOK
<1>7. OwnOK'
  BY <1>0, <1>1 DEF TypeOK, OwnOK, SlotOK, CurrentOK
<1>8. RunningIsCurrent'
  BY <1>0, <1>1 DEF TypeOK, RunningIsCurrent, YieldOK, InExitLoop, OwnOK
<1>c. CellOK'
  BY <1>0 DEF TypeOK, CellOK
<1> QED
  BY <1>c, <1>2, <1>3, <1>4, <1>5, <1>6, <1>7, <1>8 DEF IInv

\* A loaded image preserves the invariant.
LEMMA LoadElfInv == ASSUME NEW c \in Ctx, IInv, LoadElf(c) PROVE IInv'
<1> USE DEF LoadElf, Pml4Of, At, Goto, table, memory, locals, drain
<1>0. TypeOK /\ IdleOK /\ SlotOK /\ TargetOK /\ YieldOK /\ CurrentOK /\ OwnOK /\ RunningIsCurrent /\ CellOK
  BY DEF IInv
<1>1. slot[c] \in Procs /\ pid[slot[c]] \in Pids
  BY <1>0 DEF SlotOK, TypeOK
<1>2. TypeOK'
  BY <1>0, <1>1 DEF TypeOK, States, Labels
<1>3. IdleOK' /\ TargetOK'
  BY <1>0, <1>1 DEF TypeOK, IdleOK, TargetOK
<1>4. SlotOK'
  BY <1>0, <1>1 DEF TypeOK, SlotOK
<1>5. YieldOK'
  BY <1>0, <1>1 DEF TypeOK, YieldOK, TargetOK
<1>6. CurrentOK'
  BY <1>0, <1>1 DEF TypeOK, CurrentOK, OwnOK
<1>7. OwnOK'
  BY <1>0, <1>1 DEF TypeOK, OwnOK, SlotOK, CurrentOK
<1>8. RunningIsCurrent'
  BY <1>0, <1>1 DEF TypeOK, RunningIsCurrent, YieldOK, InExitLoop, OwnOK
<1>c. CellOK'
  BY <1>0 DEF TypeOK, CellOK
<1> QED
  BY <1>c, <1>2, <1>3, <1>4, <1>5, <1>6, <1>7, <1>8 DEF IInv

\* A bad image preserves the invariant.
LEMMA LoadElfFailsInv == ASSUME NEW c \in Ctx, IInv, LoadElfFails(c) PROVE IInv'
<1> USE DEF LoadElfFails, PrepareFails, PrepareFailsWith, Pml4Of, At, Goto, table, memory, locals, drain
<1>0. TypeOK /\ IdleOK /\ SlotOK /\ TargetOK /\ YieldOK /\ CurrentOK /\ OwnOK /\ RunningIsCurrent /\ CellOK
  BY DEF IInv
<1>1. slot[c] \in Procs /\ pid[slot[c]] \in Pids
  BY <1>0 DEF SlotOK, TypeOK
<1>2. TypeOK'
  BY <1>0, <1>1 DEF TypeOK, States, Labels
<1>3. IdleOK' /\ TargetOK'
  BY <1>0, <1>1 DEF TypeOK, IdleOK, TargetOK
<1>4. SlotOK'
  BY <1>0, <1>1 DEF TypeOK, SlotOK
<1>5. YieldOK'
  BY <1>0, <1>1 DEF TypeOK, YieldOK, TargetOK
<1>6. CurrentOK'
  BY <1>0, <1>1 DEF TypeOK, CurrentOK, OwnOK
<1>7. OwnOK'
  BY <1>0, <1>1 DEF TypeOK, OwnOK, SlotOK, CurrentOK
<1>8. RunningIsCurrent'
  BY <1>0, <1>1 DEF TypeOK, RunningIsCurrent, YieldOK, InExitLoop, OwnOK
<1>c. CellOK'
  BY <1>0 DEF TypeOK, CellOK
<1> QED
  BY <1>c, <1>2, <1>3, <1>4, <1>5, <1>6, <1>7, <1>8 DEF IInv

\* A new kernel stack preserves the invariant.
LEMMA CreateStackInv == ASSUME NEW c \in Ctx, IInv, CreateStack(c) PROVE IInv'
<1> USE DEF CreateStack, StackWith, At, Goto, table, memory, locals, drain
<1>0. TypeOK /\ IdleOK /\ SlotOK /\ TargetOK /\ YieldOK /\ CurrentOK /\ OwnOK /\ RunningIsCurrent /\ CellOK
  BY DEF IInv
<1>1. slot[c] \in Procs /\ pid[slot[c]] \in Pids
  BY <1>0 DEF SlotOK, TypeOK
<1>2. TypeOK'
  BY <1>0, <1>1 DEF TypeOK, States, Labels
<1>3. IdleOK' /\ TargetOK'
  BY <1>0, <1>1 DEF TypeOK, IdleOK, TargetOK
<1>4. SlotOK'
  BY <1>0, <1>1 DEF TypeOK, SlotOK
<1>5. YieldOK'
  BY <1>0, <1>1 DEF TypeOK, YieldOK, TargetOK
<1>6. CurrentOK'
  BY <1>0, <1>1 DEF TypeOK, CurrentOK, OwnOK
<1>7. OwnOK'
  <2>1. slot[c] # c /\ \A d \in Ctx : pc'[d] \in PreLabels => d # c /\ d # slot[c] /\ pc[d] \in PreLabels
    BY <1>0, <1>1 DEF TypeOK, OwnOK
  <2>2. \A d \in Ctx : pc'[d] \in PrepareLabels => pc[d] \in PrepareLabels
    BY <1>0, <1>1, <2>1 DEF TypeOK
  <2>3. slot' = slot /\ state' = state /\ halted' = halted
    OBVIOUS
  <2>4. \A j \in Procs : j # slot[c] => rsp'[j] = rsp[j]
    BY <1>0, <1>1 DEF TypeOK
  <2>5. \A d \in Ctx : pc[d] \in PreLabels /\ d # c => slot[d] \in Procs /\ slot[d] # slot[c]
    BY <1>0 DEF OwnOK, SlotOK
  <2> HIDE DEF CreateStack, StackWith
  <2>6. ASSUME NEW d \in Ctx, pc'[d] \in PreLabels
        PROVE  halted' \/ (rsp'[slot'[d]] = 0 /\ state'[slot'[d]] \in {"Loading", "Ready"})
    BY <1>0, <2>1, <2>3, <2>4, <2>5, <2>6 DEF OwnOK
  <2> QED
    BY <1>0, <2>1, <2>2, <2>3, <2>6 DEF OwnOK
<1>8. RunningIsCurrent'
  BY <1>0, <1>1 DEF TypeOK, RunningIsCurrent, YieldOK, InExitLoop, OwnOK
<1>c. CellOK'
  BY <1>0 DEF TypeOK, CellOK
<1> QED
  BY <1>c, <1>2, <1>3, <1>4, <1>5, <1>6, <1>7, <1>8 DEF IInv

\* No kernel stack preserves the invariant.
LEMMA CreateStackFailsInv == ASSUME NEW c \in Ctx, IInv, CreateStackFails(c) PROVE IInv'
<1> USE DEF CreateStackFails, PrepareFails, PrepareFailsWith, At, Goto, table, memory, locals, drain
<1>0. TypeOK /\ IdleOK /\ SlotOK /\ TargetOK /\ YieldOK /\ CurrentOK /\ OwnOK /\ RunningIsCurrent /\ CellOK
  BY DEF IInv
<1>1. slot[c] \in Procs /\ pid[slot[c]] \in Pids
  BY <1>0 DEF SlotOK, TypeOK
<1>2. TypeOK'
  BY <1>0, <1>1 DEF TypeOK, States, Labels
<1>3. IdleOK' /\ TargetOK'
  BY <1>0, <1>1 DEF TypeOK, IdleOK, TargetOK
<1>4. SlotOK'
  BY <1>0, <1>1 DEF TypeOK, SlotOK
<1>5. YieldOK'
  BY <1>0, <1>1 DEF TypeOK, YieldOK, TargetOK
<1>6. CurrentOK'
  BY <1>0, <1>1 DEF TypeOK, CurrentOK, OwnOK
<1>7. OwnOK'
  BY <1>0, <1>1 DEF TypeOK, OwnOK, SlotOK, CurrentOK
<1>8. RunningIsCurrent'
  BY <1>0, <1>1 DEF TypeOK, RunningIsCurrent, YieldOK, InExitLoop, OwnOK
<1>c. CellOK'
  BY <1>0 DEF TypeOK, CellOK
<1> QED
  BY <1>c, <1>2, <1>3, <1>4, <1>5, <1>6, <1>7, <1>8 DEF IInv

\* A child made Ready preserves the invariant.
LEMMA PublishInv == ASSUME NEW c \in Ctx, IInv, Publish(c) PROVE IInv'
<1> USE DEF Publish, At, Goto, table, memory, locals, drain
<1>0. TypeOK /\ IdleOK /\ SlotOK /\ TargetOK /\ YieldOK /\ CurrentOK /\ OwnOK /\ RunningIsCurrent /\ CellOK
  BY DEF IInv
<1>1. slot[c] \in Procs /\ pid[slot[c]] \in Pids
  BY <1>0 DEF SlotOK, TypeOK
<1>2. TypeOK'
  BY <1>0, <1>1 DEF TypeOK, States, Labels
<1>3. IdleOK' /\ TargetOK'
  BY <1>0, <1>1 DEF TypeOK, IdleOK, TargetOK
<1>4. SlotOK'
  BY <1>0, <1>1 DEF TypeOK, SlotOK
<1>5. YieldOK'
  BY <1>0, <1>1 DEF TypeOK, YieldOK, TargetOK
<1>6. CurrentOK'
  BY <1>0, <1>1 DEF TypeOK, CurrentOK, OwnOK
<1>7. OwnOK'
  BY <1>0, <1>1 DEF TypeOK, OwnOK, SlotOK, CurrentOK
<1>8. RunningIsCurrent'
  BY <1>0, <1>1 DEF TypeOK, RunningIsCurrent, YieldOK, InExitLoop, OwnOK
<1>c. CellOK'
  BY <1>0 DEF TypeOK, CellOK
<1> QED
  BY <1>c, <1>2, <1>3, <1>4, <1>5, <1>6, <1>7, <1>8 DEF IInv

\* The console's wait preserves the invariant.
LEMMA ShellWaitInv == ASSUME NEW t \in Pids \cup {AnyChild}, IInv, ShellWait(t) PROVE IInv'
<1> USE DEF ShellWait, At, Goto, table, memory, locals, drain
<1>0. TypeOK /\ IdleOK /\ SlotOK /\ TargetOK /\ YieldOK /\ CurrentOK /\ OwnOK /\ RunningIsCurrent /\ CellOK
  BY DEF IInv
<1>2. TypeOK'
  BY <1>0 DEF TypeOK, States, Labels
<1>3. IdleOK' /\ TargetOK'
  BY <1>0 DEF TypeOK, IdleOK, TargetOK
<1>4. SlotOK'
  BY <1>0 DEF TypeOK, SlotOK
<1>5. YieldOK'
  BY <1>0 DEF TypeOK, YieldOK, TargetOK
<1>6. CurrentOK'
  BY <1>0 DEF TypeOK, CurrentOK, OwnOK
<1>7. OwnOK'
  BY <1>0 DEF TypeOK, OwnOK, SlotOK, CurrentOK
<1>8. RunningIsCurrent'
  BY <1>0 DEF TypeOK, RunningIsCurrent, YieldOK, InExitLoop, OwnOK
<1>c. CellOK'
  BY <1>0 DEF TypeOK, CellOK
<1> QED
  BY <1>c, <1>2, <1>3, <1>4, <1>5, <1>6, <1>7, <1>8 DEF IInv

\* A program's wait preserves the invariant.
LEMMA UserWaitInv == ASSUME NEW c \in Procs, NEW t \in Pids \cup {AnyChild}, IInv, UserWait(c, t) PROVE IInv'
<1> USE DEF UserWait, At, Goto, table, memory, locals, drain
<1>0. TypeOK /\ IdleOK /\ SlotOK /\ TargetOK /\ YieldOK /\ CurrentOK /\ OwnOK /\ RunningIsCurrent /\ CellOK
  BY DEF IInv
<1>2. TypeOK'
  BY <1>0 DEF TypeOK, States, Labels
<1>3. IdleOK' /\ TargetOK'
  BY <1>0 DEF TypeOK, IdleOK, TargetOK
<1>4. SlotOK'
  BY <1>0 DEF TypeOK, SlotOK
<1>5. YieldOK'
  BY <1>0 DEF TypeOK, YieldOK, TargetOK
<1>6. CurrentOK'
  BY <1>0 DEF TypeOK, CurrentOK, OwnOK
<1>7. OwnOK'
  BY <1>0 DEF TypeOK, OwnOK, SlotOK, CurrentOK
<1>8. RunningIsCurrent'
  BY <1>0 DEF TypeOK, RunningIsCurrent, YieldOK, InExitLoop, OwnOK
<1>c. CellOK'
  BY <1>0 DEF TypeOK, CellOK
<1> QED
  BY <1>c, <1>2, <1>3, <1>4, <1>5, <1>6, <1>7, <1>8 DEF IInv

\* A status found preserves the invariant.
LEMMA WaitTestInv == ASSUME NEW c \in Ctx, IInv, WaitTest(c) PROVE IInv'
<1> USE DEF WaitTest, At, Goto, table, memory, locals, drain
<1>0. TypeOK /\ IdleOK /\ SlotOK /\ TargetOK /\ YieldOK /\ CurrentOK /\ OwnOK /\ RunningIsCurrent /\ CellOK
  BY DEF IInv
<1>2. TypeOK'
  BY <1>0 DEF TypeOK, States, Labels
<1>3. IdleOK' /\ TargetOK'
  BY <1>0 DEF TypeOK, IdleOK, TargetOK
<1>4. SlotOK'
  BY <1>0 DEF TypeOK, SlotOK
<1>5. YieldOK'
  BY <1>0 DEF TypeOK, YieldOK, TargetOK
<1>6. CurrentOK'
  BY <1>0 DEF TypeOK, CurrentOK, OwnOK
<1>7. OwnOK'
  BY <1>0 DEF TypeOK, OwnOK, SlotOK, CurrentOK
<1>8. RunningIsCurrent'
  BY <1>0 DEF TypeOK, RunningIsCurrent, YieldOK, InExitLoop, OwnOK
<1>c. CellOK'
  BY <1>0 DEF TypeOK, CellOK
<1> QED
  BY <1>c, <1>2, <1>3, <1>4, <1>5, <1>6, <1>7, <1>8 DEF IInv

\* A status collected preserves the invariant.
LEMMA WaitCollectInv == ASSUME NEW c \in Ctx, IInv, WaitCollect(c) PROVE IInv'
<1> USE DEF WaitCollect, WaitReturns, At, Goto, table, memory, locals, drain
<1>0. TypeOK /\ IdleOK /\ SlotOK /\ TargetOK /\ YieldOK /\ CurrentOK /\ OwnOK /\ RunningIsCurrent /\ CellOK
  BY DEF IInv
<1>2. TypeOK'
  BY <1>0 DEF TypeOK, States, Labels
<1>3. IdleOK' /\ TargetOK'
  BY <1>0 DEF TypeOK, IdleOK, TargetOK
<1>4. SlotOK'
  BY <1>0 DEF TypeOK, SlotOK
<1>5. YieldOK'
  BY <1>0 DEF TypeOK, YieldOK, TargetOK
<1>6. CurrentOK'
  BY <1>0 DEF TypeOK, CurrentOK, OwnOK
<1>7. OwnOK'
  BY <1>0 DEF TypeOK, OwnOK, SlotOK, CurrentOK
<1>8. RunningIsCurrent'
  BY <1>0 DEF TypeOK, RunningIsCurrent, YieldOK, InExitLoop, OwnOK
<1>c. CellOK'
  BY <1>0 DEF TypeOK, CellOK
<1> QED
  BY <1>c, <1>2, <1>3, <1>4, <1>5, <1>6, <1>7, <1>8 DEF IInv

\* No status found preserves the invariant.
LEMMA WaitMissInv == ASSUME NEW c \in Ctx, IInv, WaitMiss(c) PROVE IInv'
<1> USE DEF WaitMiss, WaitReturns, At, Goto, table, memory, locals, drain
<1>0. TypeOK /\ IdleOK /\ SlotOK /\ TargetOK /\ YieldOK /\ CurrentOK /\ OwnOK /\ RunningIsCurrent /\ CellOK
  BY DEF IInv
<1>2. TypeOK'
  BY <1>0 DEF TypeOK, States, Labels
<1>3. IdleOK' /\ TargetOK'
  BY <1>0 DEF TypeOK, IdleOK, TargetOK
<1>4. SlotOK'
  BY <1>0 DEF TypeOK, SlotOK
<1>5. YieldOK'
  BY <1>0 DEF TypeOK, YieldOK, TargetOK
<1>6. CurrentOK'
  BY <1>0 DEF TypeOK, CurrentOK, OwnOK
<1>7. OwnOK'
  BY SMTT(90), <1>0 DEF TypeOK, OwnOK, SlotOK, CurrentOK
<1>8. RunningIsCurrent'
  BY <1>0 DEF TypeOK, RunningIsCurrent, YieldOK, InExitLoop, OwnOK
<1>c. CellOK'
  BY <1>0 DEF TypeOK, CellOK
<1> QED
  BY <1>c, <1>2, <1>3, <1>4, <1>5, <1>6, <1>7, <1>8 DEF IInv

\* The second scan of wait preserves the invariant.
LEMMA WaitFindInv == ASSUME NEW c \in Ctx, IInv, WaitFind(c) PROVE IInv'
<1> USE DEF WaitFind, WaitReturns, At, Goto, table, memory, locals, drain
<1>0. TypeOK /\ IdleOK /\ SlotOK /\ TargetOK /\ YieldOK /\ CurrentOK /\ OwnOK /\ RunningIsCurrent /\ CellOK
  BY DEF IInv
<1>2. TypeOK'
  BY <1>0 DEF TypeOK, States, Labels
<1>3. IdleOK' /\ TargetOK'
  BY <1>0 DEF TypeOK, IdleOK, TargetOK
<1>4. SlotOK'
  BY <1>0 DEF TypeOK, SlotOK
<1>5. YieldOK'
  BY <1>0 DEF TypeOK, YieldOK, TargetOK
<1>6. CurrentOK'
  BY <1>0 DEF TypeOK, CurrentOK, OwnOK
<1>7. OwnOK'
  BY <1>0 DEF TypeOK, OwnOK, SlotOK, CurrentOK
<1>8. RunningIsCurrent'
  BY <1>0 DEF TypeOK, RunningIsCurrent, YieldOK, InExitLoop, OwnOK
<1>c. CellOK'
  BY <1>0 DEF TypeOK, CellOK
<1> QED
  BY <1>c, <1>2, <1>3, <1>4, <1>5, <1>6, <1>7, <1>8 DEF IInv

\* Blocking preserves the invariant.
LEMMA WaitBlockInv == ASSUME NEW c \in Ctx, IInv, WaitBlock(c) PROVE IInv'
<1> USE DEF WaitBlock, At, Goto, table, memory, locals, drain
<1>0. TypeOK /\ IdleOK /\ SlotOK /\ TargetOK /\ YieldOK /\ CurrentOK /\ OwnOK /\ RunningIsCurrent /\ CellOK
  BY DEF IInv
<1>2. TypeOK'
  BY <1>0 DEF TypeOK, States, Labels
<1>3. IdleOK' /\ TargetOK'
  BY <1>0 DEF TypeOK, IdleOK, TargetOK
<1>4. SlotOK'
  BY <1>0 DEF TypeOK, SlotOK
<1>5. YieldOK'
  BY <1>0 DEF TypeOK, YieldOK, TargetOK
<1>6. CurrentOK'
  BY <1>0 DEF TypeOK, CurrentOK, OwnOK
<1>7. OwnOK'
  BY <1>0 DEF TypeOK, OwnOK, SlotOK, CurrentOK
<1>8. RunningIsCurrent'
  BY <1>0 DEF TypeOK, RunningIsCurrent, YieldOK, InExitLoop, OwnOK
<1>c. CellOK'
  BY <1>0 DEF TypeOK, CellOK
<1> QED
  BY <1>c, <1>2, <1>3, <1>4, <1>5, <1>6, <1>7, <1>8 DEF IInv

\* The scheduler's choice preserves the invariant.
LEMMA PickNextReadyInv == ASSUME NEW c \in Ctx, IInv, PickNextReady(c) PROVE IInv'
<1> USE DEF PickNextReady, PickWith, At, Goto, table, memory, locals, drain
<1>0. TypeOK /\ IdleOK /\ SlotOK /\ TargetOK /\ YieldOK /\ CurrentOK /\ OwnOK /\ RunningIsCurrent /\ CellOK
  BY DEF IInv
<1>2. TypeOK'
  BY <1>0 DEF TypeOK, States, Labels
<1>3. IdleOK' /\ TargetOK'
  BY <1>0 DEF TypeOK, IdleOK, TargetOK
<1>4. SlotOK'
  BY <1>0 DEF TypeOK, SlotOK
<1>5. YieldOK'
  BY <1>0 DEF TypeOK, YieldOK, TargetOK
<1>6. CurrentOK'
  BY <1>0 DEF TypeOK, CurrentOK, OwnOK
<1>7. OwnOK'
  BY <1>0 DEF TypeOK, OwnOK, SlotOK, CurrentOK
<1>8. RunningIsCurrent'
  BY <1>0 DEF TypeOK, RunningIsCurrent, YieldOK, InExitLoop, OwnOK
<1>c. CellOK'
  BY <1>0 DEF TypeOK, CellOK
<1> QED
  BY <1>c, <1>2, <1>3, <1>4, <1>5, <1>6, <1>7, <1>8 DEF IInv

\* Resuming from a yield preserves the invariant.
LEMMA ResumedInv == ASSUME NEW c \in Ctx, IInv, Resumed(c) PROVE IInv'
<1> USE DEF Resumed, At, Goto, table, memory, locals, drain
<1>0. TypeOK /\ IdleOK /\ SlotOK /\ TargetOK /\ YieldOK /\ CurrentOK /\ OwnOK /\ RunningIsCurrent /\ CellOK
  BY DEF IInv
<1>2. TypeOK'
  BY Cells, <1>0 DEF CellOK, TypeOK, States, Labels
<1>3. IdleOK' /\ TargetOK'
  BY <1>0 DEF TypeOK, IdleOK, TargetOK
<1>4. SlotOK'
  BY <1>0 DEF TypeOK, SlotOK
<1>5. YieldOK'
  BY <1>0 DEF TypeOK, YieldOK, TargetOK
<1>6. CurrentOK'
  BY <1>0 DEF TypeOK, CurrentOK, OwnOK
<1>7. OwnOK'
  BY <1>0 DEF TypeOK, OwnOK, SlotOK, CurrentOK
<1>8. RunningIsCurrent'
  BY <1>0 DEF TypeOK, RunningIsCurrent, YieldOK, InExitLoop, OwnOK
<1>c. CellOK'
  BY Cells, <1>0 DEF TypeOK, CellOK
<1> QED
  BY <1>c, <1>2, <1>3, <1>4, <1>5, <1>6, <1>7, <1>8 DEF IInv

\* Emptying a cell preserves the invariant.
LEMMA TakeInv == ASSUME NEW c \in Ctx, IInv, Take(c) PROVE IInv'
<1> USE DEF Take, At, Goto, table, memory, locals, drain
<1>0. TypeOK /\ IdleOK /\ SlotOK /\ TargetOK /\ YieldOK /\ CurrentOK /\ OwnOK /\ RunningIsCurrent /\ CellOK
  BY DEF IInv
<1>2. TypeOK'
  BY <1>0 DEF TypeOK, States, Labels
<1>3. IdleOK' /\ TargetOK'
  BY <1>0 DEF TypeOK, IdleOK, TargetOK
<1>4. SlotOK'
  BY <1>0 DEF TypeOK, SlotOK
<1>5. YieldOK'
  BY <1>0 DEF TypeOK, YieldOK, TargetOK
<1>6. CurrentOK'
  BY <1>0 DEF TypeOK, CurrentOK, OwnOK
<1>7. OwnOK'
  BY <1>0 DEF TypeOK, OwnOK, SlotOK, CurrentOK
<1>8. RunningIsCurrent'
  BY <1>0 DEF TypeOK, RunningIsCurrent, YieldOK, InExitLoop, OwnOK
<1>c. CellOK'
  BY <1>0 DEF TypeOK, CellOK
<1> QED
  BY <1>c, <1>2, <1>3, <1>4, <1>5, <1>6, <1>7, <1>8 DEF IInv

\* Unmapping a stack preserves the invariant.
LEMMA ReclaimInv == ASSUME NEW c \in Ctx, IInv, Reclaim(c) PROVE IInv'
<1> USE DEF Reclaim, At, Goto, table, memory, locals, drain
<1>0. TypeOK /\ IdleOK /\ SlotOK /\ TargetOK /\ YieldOK /\ CurrentOK /\ OwnOK /\ RunningIsCurrent /\ CellOK
  BY DEF IInv
<1>2. TypeOK'
  BY Cells, <1>0 DEF CellOK, TypeOK, States, Labels
<1>3. IdleOK' /\ TargetOK'
  BY <1>0 DEF TypeOK, IdleOK, TargetOK
<1>4. SlotOK'
  BY <1>0 DEF TypeOK, SlotOK
<1>5. YieldOK'
  BY <1>0 DEF TypeOK, YieldOK, TargetOK
<1>6. CurrentOK'
  BY <1>0 DEF TypeOK, CurrentOK, OwnOK
<1>7. OwnOK'
  BY <1>0 DEF TypeOK, OwnOK, SlotOK, CurrentOK
<1>8. RunningIsCurrent'
  BY <1>0 DEF TypeOK, RunningIsCurrent, YieldOK, InExitLoop, OwnOK
<1>c. CellOK'
  BY Cells, <1>0 DEF TypeOK, CellOK
<1> QED
  BY <1>c, <1>2, <1>3, <1>4, <1>5, <1>6, <1>7, <1>8 DEF IInv

\* The end of the drain preserves the invariant.
LEMMA YieldedInv == ASSUME NEW c \in Ctx, IInv, Yielded(c) PROVE IInv'
<1> USE DEF Yielded, At, Goto, table, memory, locals, drain
<1>0. TypeOK /\ IdleOK /\ SlotOK /\ TargetOK /\ YieldOK /\ CurrentOK /\ OwnOK /\ RunningIsCurrent /\ CellOK
  BY DEF IInv
<1>2. TypeOK'
  BY Cells, <1>0 DEF CellOK, TypeOK, States, Labels
<1>3. IdleOK' /\ TargetOK'
  BY <1>0 DEF TypeOK, IdleOK, TargetOK
<1>4. SlotOK'
  BY <1>0 DEF TypeOK, SlotOK
<1>5. YieldOK'
  BY <1>0 DEF TypeOK, YieldOK, TargetOK
<1>6. CurrentOK'
  BY <1>0 DEF TypeOK, CurrentOK, OwnOK
<1>7. OwnOK'
  BY <1>0 DEF TypeOK, OwnOK, SlotOK, CurrentOK
<1>8. RunningIsCurrent'
  BY <1>0 DEF TypeOK, RunningIsCurrent, YieldOK, InExitLoop, OwnOK
<1>c. CellOK'
  BY Cells, <1>0 DEF TypeOK, CellOK
<1> QED
  BY <1>c, <1>2, <1>3, <1>4, <1>5, <1>6, <1>7, <1>8 DEF IInv

\* A first entry preserves the invariant.
LEMMA TrampolineInv == ASSUME NEW c \in Ctx, IInv, Trampoline(c) PROVE IInv'
<1> USE DEF Trampoline, At, Goto, table, memory, locals, drain
<1>0. TypeOK /\ IdleOK /\ SlotOK /\ TargetOK /\ YieldOK /\ CurrentOK /\ OwnOK /\ RunningIsCurrent /\ CellOK
  BY DEF IInv
<1>2. TypeOK'
  BY <1>0 DEF TypeOK, States, Labels
<1>3. IdleOK' /\ TargetOK'
  BY <1>0 DEF TypeOK, IdleOK, TargetOK
<1>4. SlotOK'
  BY <1>0 DEF TypeOK, SlotOK
<1>5. YieldOK'
  BY <1>0 DEF TypeOK, YieldOK, TargetOK
<1>6. CurrentOK'
  BY <1>0 DEF TypeOK, CurrentOK, OwnOK
<1>7. OwnOK'
  BY <1>0 DEF TypeOK, OwnOK, SlotOK, CurrentOK
<1>8. RunningIsCurrent'
  BY <1>0 DEF TypeOK, RunningIsCurrent, YieldOK, InExitLoop, OwnOK
<1>c. CellOK'
  BY <1>0 DEF TypeOK, CellOK
<1> QED
  BY <1>c, <1>2, <1>3, <1>4, <1>5, <1>6, <1>7, <1>8 DEF IInv

\* A program's return preserves the invariant.
LEMMA UserExitInv == ASSUME NEW c \in Procs, IInv, UserExit(c) PROVE IInv'
<1> USE DEF UserExit, At, Goto, table, memory, locals, drain
<1>0. TypeOK /\ IdleOK /\ SlotOK /\ TargetOK /\ YieldOK /\ CurrentOK /\ OwnOK /\ RunningIsCurrent /\ CellOK
  BY DEF IInv
<1>2. TypeOK'
  BY <1>0 DEF TypeOK, States, Labels
<1>3. IdleOK' /\ TargetOK'
  BY <1>0 DEF TypeOK, IdleOK, TargetOK
<1>4. SlotOK'
  BY <1>0 DEF TypeOK, SlotOK
<1>5. YieldOK'
  BY <1>0 DEF TypeOK, YieldOK, TargetOK
<1>6. CurrentOK'
  BY <1>0 DEF TypeOK, CurrentOK, OwnOK
<1>7. OwnOK'
  BY <1>0 DEF TypeOK, OwnOK, SlotOK, CurrentOK
<1>8. RunningIsCurrent'
  BY <1>0 DEF TypeOK, RunningIsCurrent, YieldOK, InExitLoop, OwnOK
<1>c. CellOK'
  BY <1>0 DEF TypeOK, CellOK
<1> QED
  BY <1>c, <1>2, <1>3, <1>4, <1>5, <1>6, <1>7, <1>8 DEF IInv

\* Freeing the address space preserves the invariant.
LEMMA ExitDestroyInv == ASSUME NEW c \in Ctx, IInv, ExitDestroy(c) PROVE IInv'
<1> USE DEF ExitDestroy, At, Goto, table, memory, locals, drain
<1>0. TypeOK /\ IdleOK /\ SlotOK /\ TargetOK /\ YieldOK /\ CurrentOK /\ OwnOK /\ RunningIsCurrent /\ CellOK
  BY DEF IInv
<1>2. TypeOK'
  BY <1>0 DEF TypeOK, States, Labels
<1>3. IdleOK' /\ TargetOK'
  BY <1>0 DEF TypeOK, IdleOK, TargetOK
<1>4. SlotOK'
  BY <1>0 DEF TypeOK, SlotOK
<1>5. YieldOK'
  BY <1>0 DEF TypeOK, YieldOK, TargetOK
<1>6. CurrentOK'
  BY <1>0 DEF TypeOK, CurrentOK, OwnOK
<1>7. OwnOK'
  BY <1>0 DEF TypeOK, OwnOK, SlotOK, CurrentOK
<1>8. RunningIsCurrent'
  BY <1>0 DEF TypeOK, RunningIsCurrent, YieldOK, InExitLoop, OwnOK
<1>c. CellOK'
  BY <1>0 DEF TypeOK, CellOK
<1> QED
  BY <1>c, <1>2, <1>3, <1>4, <1>5, <1>6, <1>7, <1>8 DEF IInv

\* Leaving the address space preserves the invariant.
LEMMA ExitCr3Inv == ASSUME NEW c \in Ctx, IInv, ExitCr3(c) PROVE IInv'
<1> USE DEF ExitCr3, At, Goto, table, memory, locals, drain
<1>0. TypeOK /\ IdleOK /\ SlotOK /\ TargetOK /\ YieldOK /\ CurrentOK /\ OwnOK /\ RunningIsCurrent /\ CellOK
  BY DEF IInv
<1>2. TypeOK'
  BY <1>0 DEF TypeOK, States, Labels
<1>3. IdleOK' /\ TargetOK'
  BY <1>0 DEF TypeOK, IdleOK, TargetOK
<1>4. SlotOK'
  BY <1>0 DEF TypeOK, SlotOK
<1>5. YieldOK'
  BY <1>0 DEF TypeOK, YieldOK, TargetOK
<1>6. CurrentOK'
  BY <1>0 DEF TypeOK, CurrentOK, OwnOK
<1>7. OwnOK'
  BY <1>0 DEF TypeOK, OwnOK, SlotOK, CurrentOK
<1>8. RunningIsCurrent'
  BY <1>0 DEF TypeOK, RunningIsCurrent, YieldOK, InExitLoop, OwnOK
<1>c. CellOK'
  BY <1>0 DEF TypeOK, CellOK
<1> QED
  BY <1>c, <1>2, <1>3, <1>4, <1>5, <1>6, <1>7, <1>8 DEF IInv

\* Forgetting the address space preserves the invariant.
LEMMA ExitUnlinkInv == ASSUME NEW c \in Ctx, IInv, ExitUnlink(c) PROVE IInv'
<1> USE DEF ExitUnlink, At, Goto, table, memory, locals, drain
<1>0. TypeOK /\ IdleOK /\ SlotOK /\ TargetOK /\ YieldOK /\ CurrentOK /\ OwnOK /\ RunningIsCurrent /\ CellOK
  BY DEF IInv
<1>2. TypeOK'
  BY <1>0 DEF TypeOK, States, Labels
<1>3. IdleOK' /\ TargetOK'
  BY <1>0 DEF TypeOK, IdleOK, TargetOK
<1>4. SlotOK'
  BY <1>0 DEF TypeOK, SlotOK
<1>5. YieldOK'
  BY <1>0 DEF TypeOK, YieldOK, TargetOK
<1>6. CurrentOK'
  BY <1>0 DEF TypeOK, CurrentOK, OwnOK
<1>7. OwnOK'
  BY <1>0 DEF TypeOK, OwnOK, SlotOK, CurrentOK
<1>8. RunningIsCurrent'
  BY <1>0 DEF TypeOK, RunningIsCurrent, YieldOK, InExitLoop, OwnOK
<1>c. CellOK'
  BY <1>0 DEF TypeOK, CellOK
<1> QED
  BY <1>c, <1>2, <1>3, <1>4, <1>5, <1>6, <1>7, <1>8 DEF IInv

\* Queueing the stack preserves the invariant.
LEMMA ExitQueueInv == ASSUME NEW c \in Ctx, IInv, ExitQueue(c) PROVE IInv'
<1> USE DEF ExitQueue, At, Goto, table, memory, locals, drain
<1>0. TypeOK /\ IdleOK /\ SlotOK /\ TargetOK /\ YieldOK /\ CurrentOK /\ OwnOK /\ RunningIsCurrent /\ CellOK
  BY DEF IInv
<1>1. c \in Procs /\ pid[c] \in Pids
  BY <1>0 DEF SlotOK, IdleOK, TypeOK
<1>2. TypeOK'
  BY Cells, <1>0, <1>1 DEF CellOK, TypeOK, States, Labels
<1>3. IdleOK' /\ TargetOK'
  BY <1>0, <1>1 DEF TypeOK, IdleOK, TargetOK
<1>4. SlotOK'
  BY <1>0, <1>1 DEF TypeOK, SlotOK
<1>5. YieldOK'
  BY <1>0, <1>1 DEF TypeOK, YieldOK, TargetOK
<1>6. CurrentOK'
  BY <1>0, <1>1 DEF TypeOK, CurrentOK, OwnOK
<1>7. OwnOK'
  BY <1>0, <1>1 DEF TypeOK, OwnOK, SlotOK, CurrentOK
<1>8. RunningIsCurrent'
  BY <1>0, <1>1 DEF TypeOK, RunningIsCurrent, YieldOK, InExitLoop, OwnOK
<1>c. CellOK'
  BY Cells, <1>0 DEF TypeOK, CellOK
<1> QED
  BY <1>c, <1>2, <1>3, <1>4, <1>5, <1>6, <1>7, <1>8 DEF IInv

\* The store to the empty cell preserves the invariant.
LEMMA ExitStoreInv == ASSUME NEW c \in Ctx, IInv, ExitStore(c) PROVE IInv'
<1> USE DEF ExitStore, StoreWith, At, Goto, table, memory, locals, drain
<1>0. TypeOK /\ IdleOK /\ SlotOK /\ TargetOK /\ YieldOK /\ CurrentOK /\ OwnOK /\ RunningIsCurrent /\ CellOK
  BY DEF IInv
<1>1. c \in Procs /\ pid[c] \in Pids
  BY <1>0 DEF SlotOK, IdleOK, TypeOK
<1>2. TypeOK'
  BY Cells, <1>0, <1>1 DEF CellOK, TypeOK, States, Labels
<1>3. IdleOK' /\ TargetOK'
  BY <1>0, <1>1 DEF TypeOK, IdleOK, TargetOK
<1>4. SlotOK'
  BY <1>0, <1>1 DEF TypeOK, SlotOK
<1>5. YieldOK'
  BY <1>0, <1>1 DEF TypeOK, YieldOK, TargetOK
<1>6. CurrentOK'
  BY <1>0, <1>1 DEF TypeOK, CurrentOK, OwnOK
<1>7. OwnOK'
  BY <1>0, <1>1 DEF TypeOK, OwnOK, SlotOK, CurrentOK
<1>8. RunningIsCurrent'
  BY <1>0, <1>1 DEF TypeOK, RunningIsCurrent, YieldOK, InExitLoop, OwnOK
<1>c. CellOK'
  BY Cells, <1>0 DEF TypeOK, CellOK
<1> QED
  BY <1>c, <1>2, <1>3, <1>4, <1>5, <1>6, <1>7, <1>8 DEF IInv

\* An exit preserves the invariant.
LEMMA ExitProcessInv == ASSUME NEW c \in Ctx, IInv, ExitProcess(c) PROVE IInv'
<1> USE DEF ExitProcess, Woken, At, Goto, table, memory, locals, drain
<1>0. TypeOK /\ IdleOK /\ SlotOK /\ TargetOK /\ YieldOK /\ CurrentOK /\ OwnOK /\ RunningIsCurrent /\ CellOK
  BY DEF IInv
<1>2. TypeOK'
  BY <1>0 DEF TypeOK, States, Labels
<1>3. IdleOK' /\ TargetOK'
  BY <1>0 DEF TypeOK, IdleOK, TargetOK
<1>4. SlotOK'
  BY <1>0 DEF TypeOK, SlotOK
<1>5. YieldOK'
  BY <1>0 DEF TypeOK, YieldOK, TargetOK
<1>6. CurrentOK'
  BY <1>0 DEF TypeOK, CurrentOK, OwnOK
<1>7. OwnOK'
  BY <1>0 DEF TypeOK, OwnOK, SlotOK, CurrentOK
<1>8. RunningIsCurrent'
  BY <1>0 DEF TypeOK, RunningIsCurrent, YieldOK, InExitLoop, OwnOK
<1>c. CellOK'
  BY <1>0 DEF TypeOK, CellOK
<1> QED
  BY <1>c, <1>2, <1>3, <1>4, <1>5, <1>6, <1>7, <1>8 DEF IInv

-----------------------------------------------------------------------------
\* Every step of the scheduler, by any context, preserves the invariant.
LEMMA NextInv == IInv /\ [Next]_vars => IInv'
<1> SUFFICES ASSUME IInv, [Next]_vars PROVE IInv'
  OBVIOUS
<1>1. CASE Tick
  BY <1>1, TickInv
<1>2. CASE ShellStep
  <2>1. CASE RunProgram
    BY <2>1, SpawnInv DEF RunProgram, At
  <2> QED
    BY <1>2, <2>1, RunNotFoundInv, RunDoneInv, ShellWaitInv DEF ShellStep
<1>3. ASSUME NEW c \in Ctx, KernelStep(c) PROVE IInv'
  BY <1>3, PrepareSpaceInv, PrepareSpaceFailsInv, LoadElfInv, LoadElfFailsInv, CreateStackInv, CreateStackFailsInv, PublishInv,
     WaitTestInv, WaitCollectInv, WaitMissInv, WaitFindInv, WaitBlockInv, PickNextReadyInv, SwitchInv,
     ResumedInv, TakeInv, ReclaimInv, YieldedInv, TrampolineInv, ExitDestroyInv, ExitCr3Inv, ExitUnlinkInv, ExitQueueInv, ExitStoreInv, ExitProcessInv
  DEF KernelStep
<1>4. ASSUME NEW c \in Procs, UserStep(c) PROVE IInv'
  <2>1. CASE UserSpawn(c)
    BY <2>1, SpawnInv DEF UserSpawn, At
  <2> QED
    BY <1>4, <2>1, UserWaitInv, UserExitInv DEF UserStep
<1>5. CASE UNCHANGED vars
  <2>0. TypeOK /\ IdleOK /\ SlotOK /\ TargetOK /\ YieldOK /\ CurrentOK /\ OwnOK /\ RunningIsCurrent /\ CellOK
    BY DEF IInv
  <2> USE <1>5, <2>0 DEF vars, table, memory, locals, drain
  <2>1. TypeOK'
    BY DEF TypeOK
  <2>2. IdleOK' /\ SlotOK' /\ TargetOK' /\ YieldOK'
    BY DEF IdleOK, SlotOK, TargetOK, YieldOK
  <2>3. CurrentOK' /\ OwnOK' /\ RunningIsCurrent' /\ CellOK'
    BY DEF CurrentOK, OwnOK, RunningIsCurrent, InExitLoop, CellOK
  <2> QED
    BY <2>1, <2>2, <2>3 DEF IInv
<1> QED
  BY <1>1, <1>2, <1>3, <1>4, <1>5 DEF Next

\* The inductive invariant holds in every reachable state.
THEOREM InvHolds == Spec => []IInv
<1> QED
  BY InitInv, NextInv, PTL DEF Spec

\* Type correctness of the process table, the globals and every context's
\* locals, drain, for every PROCESS_COUNT.
THEOREM TypeCorrect == Spec => []TypeOK
<1>1. IInv => TypeOK
  BY DEF IInv
<1> QED
  BY <1>1, InvHolds, PTL

\* switch_to, maybe_preempt and exit_and_yield keep the CPU exclusive: a slot
\* marked Running is the current one, for every PROCESS_COUNT and however
\* ticks fall.
THEOREM CpuExclusive == Spec => []RunningIsCurrent
<1>1. IInv => RunningIsCurrent
  BY DEF IInv
<1> QED
  BY <1>1, InvHolds, PTL

-----------------------------------------------------------------------------
(* The behaviours in which no tick moves the CPU: a process that blocks in  *)
(* wait is always woken by the exit it waits for.  What goes wrong with the *)
(* tick is thereby due to the tick.                                         *)

\* Only the current context is in the middle of anything; the others wait at
\* the switch they yielded in, or have never run.
Suspended == \A c \in Ctx : c # current => pc[c] \in {"none", "fresh", "resumed"}

\* Every pid in the table has been handed out.
PidOK == \A i \in Procs : pid[i] < nextPid

\* A slot being loaded is being loaded by the current context, and a slot being
\* prepared is Loading.
LoadOK ==
  /\ \A i \in Procs : state[i] = "Loading" => pc[current] \in PrepareLabels /\ slot[current] = i
  /\ pc[current] \in PrepareLabels => state[slot[current]] = "Loading"

\* Between the scan that found nothing and the block, there is still nothing.
MissOK == pc[current] \in {"find", "block"} => Collectable(target[current], PidOf(current)) = {}

\* Nobody waits for a pid that has not been handed out, nor for one that is
\* still being prepared.
BlockOK ==
  /\ pc[current] = "block" => target[current] < nextPid
  /\ \A i \in Procs : state[i] = "Blocked" => waitingFor[i] < nextPid
  /\ \A i, j \in Procs :
       state[i] = "Blocked" /\ waitingFor[i] = pid[j] => state[j] # "Loading"

CInv == IInv /\ Suspended /\ PidOK /\ LoadOK /\ MissOK /\ BlockOK /\ NoLostWakeup

-----------------------------------------------------------------------------
\* Order facts about the bounded pids
LEMMA Order ==
  /\ \A n \in 1 .. PidBound + 1 : 0 < n /\ AnyChild < n /\ n < n + 1 /\ ~(n < n)
  /\ \A n \in 1 .. PidBound + 1 : \A t \in Targets : t < n => t < n + 1
  /\ 0 .. PidBound \subseteq Targets
  /\ AnyChild \notin 0 .. PidBound
  BY SchedulerAssumption DEF Targets, Pids, None, AnyChild

USE Domains, Order DEF PreLabels, PrepareLabels, SlotLabels, BackLabels, WaitLabels, IdleLabels

\* The initial state satisfies the cooperative invariant.
LEMMA CoopInit == Init => CInv
<1> SUFFICES ASSUME Init PROVE CInv
  OBVIOUS
<1>1. IInv
  BY InitInv
<1> USE DEF Init
<1>2. Suspended /\ PidOK /\ LoadOK
  BY DEF Suspended, PidOK, LoadOK
<1>3. MissOK /\ BlockOK
  BY DEF MissOK, BlockOK
<1>4. NoLostWakeup
  BY DEF NoLostWakeup, Zombie
<1> QED
  BY <1>1, <1>2, <1>3, <1>4 DEF CInv

\* A missing image preserves the cooperative invariant.
LEMMA CoopRunNotFound == ASSUME CInv, RunNotFound PROVE CInv'
<1>0. /\ TypeOK /\ SlotOK /\ OwnOK /\ CurrentOK
      /\ Suspended /\ PidOK /\ LoadOK /\ MissOK /\ BlockOK /\ NoLostWakeup
  BY DEF CInv, IInv
<1>1. IInv'
  BY RunNotFoundInv DEF CInv
<1> USE DEF RunNotFound, At, Goto, table, memory, locals, drain
<1>2. Suspended'
  BY <1>0 DEF TypeOK, Suspended
<1>3a. PidOK'
  BY <1>0 DEF TypeOK, SlotOK, PidOK
<1>3b. LoadOK'
  BY <1>0 DEF TypeOK, SlotOK, OwnOK, LoadOK
<1>4. MissOK'
  BY <1>0 DEF TypeOK, MissOK, Collectable, PidOf, Zombie
<1>5. BlockOK'
  BY <1>0 DEF TypeOK, SlotOK, BlockOK, PidOK, LoadOK
<1>6. NoLostWakeup'
  BY <1>0 DEF TypeOK, SlotOK, NoLostWakeup, Zombie, BlockOK, MissOK, LoadOK, Collectable
<1> QED
  BY <1>1, <1>2, <1>3a, <1>3b, <1>4, <1>5, <1>6 DEF CInv

\* The end of a run preserves the cooperative invariant.
LEMMA CoopRunDone == ASSUME CInv, RunDone PROVE CInv'
<1>0. /\ TypeOK /\ SlotOK /\ OwnOK /\ CurrentOK
      /\ Suspended /\ PidOK /\ LoadOK /\ MissOK /\ BlockOK /\ NoLostWakeup
  BY DEF CInv, IInv
<1>1. IInv'
  BY RunDoneInv DEF CInv
<1> USE DEF RunDone, At, Goto, table, memory, locals, drain
<1>2. Suspended'
  BY <1>0 DEF TypeOK, Suspended
<1>3a. PidOK'
  BY <1>0 DEF TypeOK, SlotOK, PidOK
<1>3b. LoadOK'
  BY <1>0 DEF TypeOK, SlotOK, OwnOK, LoadOK
<1>4. MissOK'
  BY <1>0 DEF TypeOK, MissOK, Collectable, PidOf, Zombie
<1>5. BlockOK'
  BY <1>0 DEF TypeOK, SlotOK, BlockOK, PidOK, LoadOK
<1>6. NoLostWakeup'
  BY <1>0 DEF TypeOK, SlotOK, NoLostWakeup, Zombie, BlockOK, MissOK, LoadOK, Collectable
<1> QED
  BY <1>1, <1>2, <1>3a, <1>3b, <1>4, <1>5, <1>6 DEF CInv

\* A new address space preserves the cooperative invariant.
LEMMA CoopPrepareSpace == ASSUME NEW c \in Ctx, CInv, PrepareSpace(c) PROVE CInv'
<1>0. /\ TypeOK /\ SlotOK /\ OwnOK /\ CurrentOK
      /\ Suspended /\ PidOK /\ LoadOK /\ MissOK /\ BlockOK /\ NoLostWakeup
  BY DEF CInv, IInv
<1>1. IInv'
  BY PrepareSpaceInv DEF CInv
<1> USE DEF PrepareSpace, At, Goto, table, memory, locals, drain
<1>2. Suspended'
  BY <1>0 DEF TypeOK, Suspended
<1>3a. PidOK'
  BY <1>0 DEF TypeOK, SlotOK, PidOK
<1>3b. LoadOK'
  BY <1>0 DEF TypeOK, SlotOK, OwnOK, LoadOK
<1>4. MissOK'
  BY <1>0 DEF TypeOK, MissOK, Collectable, PidOf, Zombie
<1>5. BlockOK'
  BY <1>0 DEF TypeOK, SlotOK, BlockOK, PidOK, LoadOK
<1>6. NoLostWakeup'
  BY <1>0 DEF TypeOK, SlotOK, NoLostWakeup, Zombie, BlockOK, MissOK, LoadOK, Collectable
<1> QED
  BY <1>1, <1>2, <1>3a, <1>3b, <1>4, <1>5, <1>6 DEF CInv

\* No address space preserves the cooperative invariant.
LEMMA CoopPrepareSpaceFails == ASSUME NEW c \in Ctx, CInv, PrepareSpaceFails(c) PROVE CInv'
<1>0. /\ TypeOK /\ SlotOK /\ OwnOK /\ CurrentOK
      /\ Suspended /\ PidOK /\ LoadOK /\ MissOK /\ BlockOK /\ NoLostWakeup
  BY DEF CInv, IInv
<1>1. IInv'
  BY PrepareSpaceFailsInv DEF CInv
<1> USE DEF PrepareSpaceFails, PrepareFails, PrepareFailsWith, At, Goto, table, memory, locals, drain
<1>2. Suspended'
  BY <1>0 DEF TypeOK, Suspended
<1>3a. PidOK'
  BY <1>0 DEF TypeOK, SlotOK, PidOK
<1>3b. LoadOK'
  BY <1>0 DEF TypeOK, SlotOK, OwnOK, LoadOK
<1>4. MissOK'
  BY <1>0 DEF TypeOK, MissOK, Collectable, PidOf, Zombie
<1>5. BlockOK'
  BY <1>0 DEF TypeOK, SlotOK, BlockOK, PidOK, LoadOK
<1>6. NoLostWakeup'
  BY <1>0 DEF TypeOK, SlotOK, NoLostWakeup, Zombie, BlockOK, MissOK, LoadOK, Collectable
<1> QED
  BY <1>1, <1>2, <1>3a, <1>3b, <1>4, <1>5, <1>6 DEF CInv

\* A loaded image preserves the cooperative invariant.
LEMMA CoopLoadElf == ASSUME NEW c \in Ctx, CInv, LoadElf(c) PROVE CInv'
<1>0. /\ TypeOK /\ SlotOK /\ OwnOK /\ CurrentOK
      /\ Suspended /\ PidOK /\ LoadOK /\ MissOK /\ BlockOK /\ NoLostWakeup
  BY DEF CInv, IInv
<1>1. IInv'
  BY LoadElfInv DEF CInv
<1> USE DEF LoadElf, At, Goto, table, memory, locals, drain
<1>2. Suspended'
  BY <1>0 DEF TypeOK, Suspended
<1>3a. PidOK'
  BY <1>0 DEF TypeOK, SlotOK, PidOK
<1>3b. LoadOK'
  BY <1>0 DEF TypeOK, SlotOK, OwnOK, LoadOK
<1>4. MissOK'
  BY <1>0 DEF TypeOK, MissOK, Collectable, PidOf, Zombie
<1>5. BlockOK'
  BY <1>0 DEF TypeOK, SlotOK, BlockOK, PidOK, LoadOK
<1>6. NoLostWakeup'
  BY <1>0 DEF TypeOK, SlotOK, NoLostWakeup, Zombie, BlockOK, MissOK, LoadOK, Collectable
<1> QED
  BY <1>1, <1>2, <1>3a, <1>3b, <1>4, <1>5, <1>6 DEF CInv

\* A bad image preserves the cooperative invariant.
LEMMA CoopLoadElfFails == ASSUME NEW c \in Ctx, CInv, LoadElfFails(c) PROVE CInv'
<1>0. /\ TypeOK /\ SlotOK /\ OwnOK /\ CurrentOK
      /\ Suspended /\ PidOK /\ LoadOK /\ MissOK /\ BlockOK /\ NoLostWakeup
  BY DEF CInv, IInv
<1>1. IInv'
  BY LoadElfFailsInv DEF CInv
<1> USE DEF LoadElfFails, PrepareFails, PrepareFailsWith, At, Goto, table, memory, locals, drain
<1>2. Suspended'
  BY <1>0 DEF TypeOK, Suspended
<1>3a. PidOK'
  BY <1>0 DEF TypeOK, SlotOK, PidOK
<1>3b. LoadOK'
  BY <1>0 DEF TypeOK, SlotOK, OwnOK, LoadOK
<1>4. MissOK'
  BY <1>0 DEF TypeOK, MissOK, Collectable, PidOf, Zombie
<1>5. BlockOK'
  BY <1>0 DEF TypeOK, SlotOK, BlockOK, PidOK, LoadOK
<1>6. NoLostWakeup'
  BY <1>0 DEF TypeOK, SlotOK, NoLostWakeup, Zombie, BlockOK, MissOK, LoadOK, Collectable
<1> QED
  BY <1>1, <1>2, <1>3a, <1>3b, <1>4, <1>5, <1>6 DEF CInv

\* A new kernel stack preserves the cooperative invariant.
LEMMA CoopCreateStack == ASSUME NEW c \in Ctx, CInv, CreateStack(c) PROVE CInv'
<1>0. /\ TypeOK /\ SlotOK /\ OwnOK /\ CurrentOK
      /\ Suspended /\ PidOK /\ LoadOK /\ MissOK /\ BlockOK /\ NoLostWakeup
  BY DEF CInv, IInv
<1>1. IInv'
  BY CreateStackInv DEF CInv
<1> USE DEF CreateStack, StackWith, At, Goto, table, memory, locals, drain
<1>2. Suspended'
  BY <1>0 DEF TypeOK, Suspended
<1>3a. PidOK'
  BY <1>0 DEF TypeOK, SlotOK, PidOK
<1>3b. LoadOK'
  BY <1>0 DEF TypeOK, SlotOK, OwnOK, LoadOK
<1>4. MissOK'
  BY <1>0 DEF TypeOK, MissOK, Collectable, PidOf, Zombie
<1>5. BlockOK'
  BY <1>0 DEF TypeOK, SlotOK, BlockOK, PidOK, LoadOK
<1>6. NoLostWakeup'
  BY <1>0 DEF TypeOK, SlotOK, NoLostWakeup, Zombie, BlockOK, MissOK, LoadOK, Collectable
<1> QED
  BY <1>1, <1>2, <1>3a, <1>3b, <1>4, <1>5, <1>6 DEF CInv

\* No kernel stack preserves the cooperative invariant.
LEMMA CoopCreateStackFails == ASSUME NEW c \in Ctx, CInv, CreateStackFails(c) PROVE CInv'
<1>0. /\ TypeOK /\ SlotOK /\ OwnOK /\ CurrentOK
      /\ Suspended /\ PidOK /\ LoadOK /\ MissOK /\ BlockOK /\ NoLostWakeup
  BY DEF CInv, IInv
<1>1. IInv'
  BY CreateStackFailsInv DEF CInv
<1> USE DEF CreateStackFails, PrepareFails, PrepareFailsWith, At, Goto, table, memory, locals, drain
<1>2. Suspended'
  BY <1>0 DEF TypeOK, Suspended
<1>3a. PidOK'
  BY <1>0 DEF TypeOK, SlotOK, PidOK
<1>3b. LoadOK'
  BY <1>0 DEF TypeOK, SlotOK, OwnOK, LoadOK
<1>4. MissOK'
  BY <1>0 DEF TypeOK, MissOK, Collectable, PidOf, Zombie
<1>5. BlockOK'
  BY <1>0 DEF TypeOK, SlotOK, BlockOK, PidOK, LoadOK
<1>6. NoLostWakeup'
  BY <1>0 DEF TypeOK, SlotOK, NoLostWakeup, Zombie, BlockOK, MissOK, LoadOK, Collectable
<1> QED
  BY <1>1, <1>2, <1>3a, <1>3b, <1>4, <1>5, <1>6 DEF CInv

\* A child made Ready preserves the cooperative invariant.
LEMMA CoopPublish == ASSUME NEW c \in Ctx, CInv, Publish(c) PROVE CInv'
<1>0. /\ TypeOK /\ SlotOK /\ OwnOK /\ CurrentOK
      /\ Suspended /\ PidOK /\ LoadOK /\ MissOK /\ BlockOK /\ NoLostWakeup
  BY DEF CInv, IInv
<1>1. IInv'
  BY PublishInv DEF CInv
<1> USE DEF Publish, At, Goto, table, memory, locals, drain
<1>2. Suspended'
  BY <1>0 DEF TypeOK, Suspended
<1>3a. PidOK'
  BY <1>0 DEF TypeOK, SlotOK, PidOK
<1>3b. LoadOK'
  BY <1>0 DEF TypeOK, SlotOK, OwnOK, LoadOK
<1>4. MissOK'
  BY <1>0 DEF TypeOK, MissOK, Collectable, PidOf, Zombie
<1>5. BlockOK'
  BY <1>0 DEF TypeOK, SlotOK, BlockOK, PidOK, LoadOK
<1>6. NoLostWakeup'
  BY <1>0 DEF TypeOK, SlotOK, NoLostWakeup, Zombie, BlockOK, MissOK, LoadOK, Collectable
<1> QED
  BY <1>1, <1>2, <1>3a, <1>3b, <1>4, <1>5, <1>6 DEF CInv

\* The console's wait preserves the cooperative invariant.
LEMMA CoopShellWait == ASSUME NEW t \in Pids \cup {AnyChild}, CInv, ShellWait(t) PROVE CInv'
<1>0. /\ TypeOK /\ SlotOK /\ OwnOK /\ CurrentOK
      /\ Suspended /\ PidOK /\ LoadOK /\ MissOK /\ BlockOK /\ NoLostWakeup
  BY DEF CInv, IInv
<1>1. IInv'
  BY ShellWaitInv DEF CInv
<1> USE DEF ShellWait, At, Goto, table, memory, locals, drain
<1>2. Suspended'
  BY <1>0 DEF TypeOK, Suspended
<1>3a. PidOK'
  BY <1>0 DEF TypeOK, SlotOK, PidOK
<1>3b. LoadOK'
  BY <1>0 DEF TypeOK, SlotOK, OwnOK, LoadOK
<1>4. MissOK'
  BY <1>0 DEF TypeOK, MissOK, Collectable, PidOf, Zombie
<1>5. BlockOK'
  BY <1>0 DEF TypeOK, SlotOK, BlockOK, PidOK, LoadOK
<1>6. NoLostWakeup'
  BY <1>0 DEF TypeOK, SlotOK, NoLostWakeup, Zombie, BlockOK, MissOK, LoadOK, Collectable
<1> QED
  BY <1>1, <1>2, <1>3a, <1>3b, <1>4, <1>5, <1>6 DEF CInv

\* A program's wait preserves the cooperative invariant.
LEMMA CoopUserWait == ASSUME NEW c \in Procs, NEW t \in Pids \cup {AnyChild}, CInv, UserWait(c, t) PROVE CInv'
<1>0. /\ TypeOK /\ SlotOK /\ OwnOK /\ CurrentOK
      /\ Suspended /\ PidOK /\ LoadOK /\ MissOK /\ BlockOK /\ NoLostWakeup
  BY DEF CInv, IInv
<1>1. IInv'
  BY UserWaitInv DEF CInv
<1> USE DEF UserWait, At, Goto, table, memory, locals, drain
<1>2. Suspended'
  BY <1>0 DEF TypeOK, Suspended
<1>3a. PidOK'
  BY <1>0 DEF TypeOK, SlotOK, PidOK
<1>3b. LoadOK'
  BY <1>0 DEF TypeOK, SlotOK, OwnOK, LoadOK
<1>4. MissOK'
  BY <1>0 DEF TypeOK, MissOK, Collectable, PidOf, Zombie
<1>5. BlockOK'
  BY <1>0 DEF TypeOK, SlotOK, BlockOK, PidOK, LoadOK
<1>6. NoLostWakeup'
  BY <1>0 DEF TypeOK, SlotOK, NoLostWakeup, Zombie, BlockOK, MissOK, LoadOK, Collectable
<1> QED
  BY <1>1, <1>2, <1>3a, <1>3b, <1>4, <1>5, <1>6 DEF CInv

\* A status found preserves the cooperative invariant.
LEMMA CoopWaitTest == ASSUME NEW c \in Ctx, CInv, WaitTest(c) PROVE CInv'
<1>0. /\ TypeOK /\ SlotOK /\ OwnOK /\ CurrentOK
      /\ Suspended /\ PidOK /\ LoadOK /\ MissOK /\ BlockOK /\ NoLostWakeup
  BY DEF CInv, IInv
<1>1. IInv'
  BY WaitTestInv DEF CInv
<1> USE DEF WaitTest, At, Goto, table, memory, locals, drain
<1>2. Suspended'
  BY <1>0 DEF TypeOK, Suspended
<1>3a. PidOK'
  BY <1>0 DEF TypeOK, SlotOK, PidOK
<1>3b. LoadOK'
  BY <1>0 DEF TypeOK, SlotOK, OwnOK, LoadOK
<1>4. MissOK'
  BY <1>0 DEF TypeOK, MissOK, Collectable, PidOf, Zombie
<1>5. BlockOK'
  BY <1>0 DEF TypeOK, SlotOK, BlockOK, PidOK, LoadOK
<1>6. NoLostWakeup'
  BY <1>0 DEF TypeOK, SlotOK, NoLostWakeup, Zombie, BlockOK, MissOK, LoadOK, Collectable
<1> QED
  BY <1>1, <1>2, <1>3a, <1>3b, <1>4, <1>5, <1>6 DEF CInv

\* A status collected preserves the cooperative invariant.
LEMMA CoopWaitCollect == ASSUME NEW c \in Ctx, CInv, WaitCollect(c) PROVE CInv'
<1>0. /\ TypeOK /\ SlotOK /\ OwnOK /\ CurrentOK
      /\ Suspended /\ PidOK /\ LoadOK /\ MissOK /\ BlockOK /\ NoLostWakeup
  BY DEF CInv, IInv
<1>1. IInv'
  BY WaitCollectInv DEF CInv
<1> USE DEF WaitCollect, WaitReturns, At, Goto, table, memory, locals, drain
<1>2. Suspended'
  BY <1>0 DEF TypeOK, Suspended
<1>3a. PidOK'
  BY <1>0 DEF TypeOK, SlotOK, PidOK
<1>3b. LoadOK'
  BY <1>0 DEF TypeOK, SlotOK, OwnOK, LoadOK
<1>4. MissOK'
  BY <1>0 DEF TypeOK, MissOK, Collectable, PidOf, Zombie
<1>5. BlockOK'
  BY <1>0 DEF TypeOK, SlotOK, BlockOK, PidOK, LoadOK
<1>6. NoLostWakeup'
  BY <1>0 DEF TypeOK, SlotOK, NoLostWakeup, Zombie, BlockOK, MissOK, LoadOK, Collectable
<1> QED
  BY <1>1, <1>2, <1>3a, <1>3b, <1>4, <1>5, <1>6 DEF CInv

\* No status found preserves the cooperative invariant.
LEMMA CoopWaitMiss == ASSUME NEW c \in Ctx, CInv, WaitMiss(c) PROVE CInv'
<1>0. /\ TypeOK /\ SlotOK /\ OwnOK /\ CurrentOK
      /\ Suspended /\ PidOK /\ LoadOK /\ MissOK /\ BlockOK /\ NoLostWakeup
  BY DEF CInv, IInv
<1>1. IInv'
  BY WaitMissInv DEF CInv
<1> USE DEF WaitMiss, WaitReturns, At, Goto, table, memory, locals, drain
<1>2. Suspended'
  BY <1>0 DEF TypeOK, Suspended
<1>3a. PidOK'
  BY <1>0 DEF TypeOK, SlotOK, PidOK
<1>3b. LoadOK'
  BY <1>0 DEF TypeOK, SlotOK, OwnOK, LoadOK
<1>4. MissOK'
  BY <1>0 DEF TypeOK, MissOK, Collectable, PidOf, Zombie
<1>5. BlockOK'
  BY <1>0 DEF TypeOK, SlotOK, BlockOK, PidOK, LoadOK
<1>6. NoLostWakeup'
  BY <1>0 DEF TypeOK, SlotOK, NoLostWakeup, Zombie, BlockOK, MissOK, LoadOK, Collectable
<1> QED
  BY <1>1, <1>2, <1>3a, <1>3b, <1>4, <1>5, <1>6 DEF CInv

\* The second scan of wait preserves the cooperative invariant.
LEMMA CoopWaitFind == ASSUME NEW c \in Ctx, CInv, WaitFind(c) PROVE CInv'
<1>0. /\ TypeOK /\ SlotOK /\ OwnOK /\ CurrentOK
      /\ Suspended /\ PidOK /\ LoadOK /\ MissOK /\ BlockOK /\ NoLostWakeup
  BY DEF CInv, IInv
<1>1. IInv'
  BY WaitFindInv DEF CInv
<1> USE DEF WaitFind, WaitReturns, Awaitable, At, Goto, table, memory, locals, drain
<1>2. Suspended'
  BY <1>0 DEF TypeOK, Suspended
<1>3a. PidOK'
  BY <1>0 DEF TypeOK, SlotOK, PidOK
<1>3b. LoadOK'
  BY <1>0 DEF TypeOK, SlotOK, OwnOK, LoadOK
<1>4. MissOK'
  BY <1>0 DEF TypeOK, MissOK, Collectable, PidOf, Zombie
<1>5. BlockOK'
  BY <1>0 DEF TypeOK, SlotOK, BlockOK, PidOK, LoadOK
<1>6. NoLostWakeup'
  BY <1>0 DEF TypeOK, SlotOK, NoLostWakeup, Zombie, BlockOK, MissOK, LoadOK, Collectable
<1> QED
  BY <1>1, <1>2, <1>3a, <1>3b, <1>4, <1>5, <1>6 DEF CInv

\* Blocking preserves the cooperative invariant.
LEMMA CoopWaitBlock == ASSUME NEW c \in Ctx, CInv, WaitBlock(c) PROVE CInv'
<1>0. /\ TypeOK /\ SlotOK /\ OwnOK /\ CurrentOK
      /\ Suspended /\ PidOK /\ LoadOK /\ MissOK /\ BlockOK /\ NoLostWakeup
  BY DEF CInv, IInv
<1>1. IInv'
  BY WaitBlockInv DEF CInv
<1> USE DEF WaitBlock, At, Goto, table, memory, locals, drain
<1>2. Suspended'
  BY <1>0 DEF TypeOK, Suspended
<1>3a. PidOK'
  BY <1>0 DEF TypeOK, SlotOK, PidOK
<1>3b. LoadOK'
  BY <1>0 DEF TypeOK, SlotOK, OwnOK, LoadOK
<1>4. MissOK'
  BY <1>0 DEF TypeOK, MissOK, Collectable, PidOf, Zombie
<1>5. BlockOK'
  BY <1>0 DEF TypeOK, SlotOK, BlockOK, PidOK, LoadOK
<1>6. NoLostWakeup'
  <2> SUFFICES ASSUME NEW i \in Procs, NEW j \in Procs,
                      state'[i] = "Blocked", waitingFor'[i] = pid[j], Zombie(j)'
               PROVE  waited[j]
    BY DEF NoLostWakeup
  <2>1. j # c /\ Zombie(j)
    BY <1>0 DEF TypeOK, Zombie
  <2>2. CASE i # c
    BY <1>0, <2>1, <2>2 DEF TypeOK, NoLostWakeup
  <2>3. CASE i = c
    <3>1. pid[j] = target[c] /\ target[c] # AnyChild
      BY <1>0, <2>3 DEF TypeOK
    <3> QED
      BY <1>0, <2>1, <3>1 DEF MissOK, Collectable
  <2> QED
    BY <2>2, <2>3
<1> QED
  BY <1>1, <1>2, <1>3a, <1>3b, <1>4, <1>5, <1>6 DEF CInv

\* The scheduler's choice preserves the cooperative invariant.
LEMMA CoopPickNextReady == ASSUME NEW c \in Ctx, CInv, PickNextReady(c) PROVE CInv'
<1>0. /\ TypeOK /\ SlotOK /\ OwnOK /\ CurrentOK
      /\ Suspended /\ PidOK /\ LoadOK /\ MissOK /\ BlockOK /\ NoLostWakeup
  BY DEF CInv, IInv
<1>1. IInv'
  BY PickNextReadyInv DEF CInv
<1> USE DEF PickNextReady, PickWith, At, Goto, table, memory, locals, drain
<1>2. Suspended'
  BY <1>0 DEF TypeOK, Suspended
<1>3a. PidOK'
  BY <1>0 DEF TypeOK, SlotOK, PidOK
<1>3b. LoadOK'
  BY <1>0 DEF TypeOK, SlotOK, OwnOK, LoadOK
<1>4. MissOK'
  BY <1>0 DEF TypeOK, MissOK, Collectable, PidOf, Zombie
<1>5. BlockOK'
  BY <1>0 DEF TypeOK, SlotOK, BlockOK, PidOK, LoadOK
<1>6. NoLostWakeup'
  BY <1>0 DEF TypeOK, SlotOK, NoLostWakeup, Zombie, BlockOK, MissOK, LoadOK, Collectable
<1> QED
  BY <1>1, <1>2, <1>3a, <1>3b, <1>4, <1>5, <1>6 DEF CInv

\* Resuming from a yield preserves the cooperative invariant.
LEMMA CoopResumed == ASSUME NEW c \in Ctx, CInv, Resumed(c) PROVE CInv'
<1>0. /\ TypeOK /\ SlotOK /\ OwnOK /\ CurrentOK
      /\ Suspended /\ PidOK /\ LoadOK /\ MissOK /\ BlockOK /\ NoLostWakeup
  BY DEF CInv, IInv
<1>1. IInv'
  BY ResumedInv DEF CInv
<1> USE DEF Resumed, At, Goto, table, memory, locals, drain
<1>2. Suspended'
  BY <1>0 DEF TypeOK, Suspended
<1>3a. PidOK'
  BY <1>0 DEF TypeOK, SlotOK, PidOK
<1>3b. LoadOK'
  BY <1>0 DEF TypeOK, SlotOK, OwnOK, LoadOK
<1>4. MissOK'
  BY <1>0 DEF TypeOK, MissOK, Collectable, PidOf, Zombie
<1>5. BlockOK'
  BY <1>0 DEF TypeOK, SlotOK, BlockOK, PidOK, LoadOK
<1>6. NoLostWakeup'
  BY <1>0 DEF TypeOK, SlotOK, NoLostWakeup, Zombie, BlockOK, MissOK, LoadOK, Collectable
<1> QED
  BY <1>1, <1>2, <1>3a, <1>3b, <1>4, <1>5, <1>6 DEF CInv

\* Emptying a cell preserves the cooperative invariant.
LEMMA CoopTake == ASSUME NEW c \in Ctx, CInv, Take(c) PROVE CInv'
<1>0. /\ TypeOK /\ SlotOK /\ OwnOK /\ CurrentOK
      /\ Suspended /\ PidOK /\ LoadOK /\ MissOK /\ BlockOK /\ NoLostWakeup
  BY DEF CInv, IInv
<1>1. IInv'
  BY TakeInv DEF CInv
<1> USE DEF Take, At, Goto, table, memory, locals, drain
<1>2. Suspended'
  BY <1>0 DEF TypeOK, Suspended
<1>3a. PidOK'
  BY <1>0 DEF TypeOK, SlotOK, PidOK
<1>3b. LoadOK'
  BY <1>0 DEF TypeOK, SlotOK, OwnOK, LoadOK
<1>4. MissOK'
  BY <1>0 DEF TypeOK, MissOK, Collectable, PidOf, Zombie
<1>5. BlockOK'
  BY <1>0 DEF TypeOK, SlotOK, BlockOK, PidOK, LoadOK
<1>6. NoLostWakeup'
  BY <1>0 DEF TypeOK, SlotOK, NoLostWakeup, Zombie, BlockOK, MissOK, LoadOK, Collectable
<1> QED
  BY <1>1, <1>2, <1>3a, <1>3b, <1>4, <1>5, <1>6 DEF CInv

\* Unmapping a stack preserves the cooperative invariant.
LEMMA CoopReclaim == ASSUME NEW c \in Ctx, CInv, Reclaim(c) PROVE CInv'
<1>0. /\ TypeOK /\ SlotOK /\ OwnOK /\ CurrentOK
      /\ Suspended /\ PidOK /\ LoadOK /\ MissOK /\ BlockOK /\ NoLostWakeup
  BY DEF CInv, IInv
<1>1. IInv'
  BY ReclaimInv DEF CInv
<1> USE DEF Reclaim, At, Goto, table, memory, locals, drain
<1>2. Suspended'
  BY <1>0 DEF TypeOK, Suspended
<1>3a. PidOK'
  BY <1>0 DEF TypeOK, SlotOK, PidOK
<1>3b. LoadOK'
  BY <1>0 DEF TypeOK, SlotOK, OwnOK, LoadOK
<1>4. MissOK'
  BY <1>0 DEF TypeOK, MissOK, Collectable, PidOf, Zombie
<1>5. BlockOK'
  BY <1>0 DEF TypeOK, SlotOK, BlockOK, PidOK, LoadOK
<1>6. NoLostWakeup'
  BY <1>0 DEF TypeOK, SlotOK, NoLostWakeup, Zombie, BlockOK, MissOK, LoadOK, Collectable
<1> QED
  BY <1>1, <1>2, <1>3a, <1>3b, <1>4, <1>5, <1>6 DEF CInv

\* The end of the drain preserves the cooperative invariant.
LEMMA CoopYielded == ASSUME NEW c \in Ctx, CInv, Yielded(c) PROVE CInv'
<1>0. /\ TypeOK /\ SlotOK /\ OwnOK /\ CurrentOK
      /\ Suspended /\ PidOK /\ LoadOK /\ MissOK /\ BlockOK /\ NoLostWakeup
  BY DEF CInv, IInv
<1>1. IInv'
  BY YieldedInv DEF CInv
<1> USE DEF Yielded, At, Goto, table, memory, locals, drain
<1>2. Suspended'
  BY <1>0 DEF TypeOK, Suspended
<1>3a. PidOK'
  BY <1>0 DEF TypeOK, SlotOK, PidOK
<1>3b. LoadOK'
  BY <1>0 DEF TypeOK, SlotOK, OwnOK, LoadOK
<1>4. MissOK'
  BY <1>0 DEF TypeOK, MissOK, Collectable, PidOf, Zombie
<1>5. BlockOK'
  BY <1>0 DEF TypeOK, SlotOK, BlockOK, PidOK, LoadOK
<1>6. NoLostWakeup'
  BY <1>0 DEF TypeOK, SlotOK, NoLostWakeup, Zombie, BlockOK, MissOK, LoadOK, Collectable
<1> QED
  BY <1>1, <1>2, <1>3a, <1>3b, <1>4, <1>5, <1>6 DEF CInv

\* A first entry preserves the cooperative invariant.
LEMMA CoopTrampoline == ASSUME NEW c \in Ctx, CInv, Trampoline(c) PROVE CInv'
<1>0. /\ TypeOK /\ SlotOK /\ OwnOK /\ CurrentOK
      /\ Suspended /\ PidOK /\ LoadOK /\ MissOK /\ BlockOK /\ NoLostWakeup
  BY DEF CInv, IInv
<1>1. IInv'
  BY TrampolineInv DEF CInv
<1> USE DEF Trampoline, At, Goto, table, memory, locals, drain
<1>2. Suspended'
  BY <1>0 DEF TypeOK, Suspended
<1>3a. PidOK'
  BY <1>0 DEF TypeOK, SlotOK, PidOK
<1>3b. LoadOK'
  BY <1>0 DEF TypeOK, SlotOK, OwnOK, LoadOK
<1>4. MissOK'
  BY <1>0 DEF TypeOK, MissOK, Collectable, PidOf, Zombie
<1>5. BlockOK'
  BY <1>0 DEF TypeOK, SlotOK, BlockOK, PidOK, LoadOK
<1>6. NoLostWakeup'
  BY <1>0 DEF TypeOK, SlotOK, NoLostWakeup, Zombie, BlockOK, MissOK, LoadOK, Collectable
<1> QED
  BY <1>1, <1>2, <1>3a, <1>3b, <1>4, <1>5, <1>6 DEF CInv

\* A program's return preserves the cooperative invariant.
LEMMA CoopUserExit == ASSUME NEW c \in Procs, CInv, UserExit(c) PROVE CInv'
<1>0. /\ TypeOK /\ SlotOK /\ OwnOK /\ CurrentOK
      /\ Suspended /\ PidOK /\ LoadOK /\ MissOK /\ BlockOK /\ NoLostWakeup
  BY DEF CInv, IInv
<1>1. IInv'
  BY UserExitInv DEF CInv
<1> USE DEF UserExit, At, Goto, table, memory, locals, drain
<1>2. Suspended'
  BY <1>0 DEF TypeOK, Suspended
<1>3a. PidOK'
  BY <1>0 DEF TypeOK, SlotOK, PidOK
<1>3b. LoadOK'
  BY <1>0 DEF TypeOK, SlotOK, OwnOK, LoadOK
<1>4. MissOK'
  BY <1>0 DEF TypeOK, MissOK, Collectable, PidOf, Zombie
<1>5. BlockOK'
  BY <1>0 DEF TypeOK, SlotOK, BlockOK, PidOK, LoadOK
<1>6. NoLostWakeup'
  BY <1>0 DEF TypeOK, SlotOK, NoLostWakeup, Zombie, BlockOK, MissOK, LoadOK, Collectable
<1> QED
  BY <1>1, <1>2, <1>3a, <1>3b, <1>4, <1>5, <1>6 DEF CInv

\* Freeing the address space preserves the cooperative invariant.
LEMMA CoopExitDestroy == ASSUME NEW c \in Ctx, CInv, ExitDestroy(c) PROVE CInv'
<1>0. /\ TypeOK /\ SlotOK /\ OwnOK /\ CurrentOK
      /\ Suspended /\ PidOK /\ LoadOK /\ MissOK /\ BlockOK /\ NoLostWakeup
  BY DEF CInv, IInv
<1>1. IInv'
  BY ExitDestroyInv DEF CInv
<1> USE DEF ExitDestroy, At, Goto, table, memory, locals, drain
<1>2. Suspended'
  BY <1>0 DEF TypeOK, Suspended
<1>3a. PidOK'
  BY <1>0 DEF TypeOK, SlotOK, PidOK
<1>3b. LoadOK'
  BY <1>0 DEF TypeOK, SlotOK, OwnOK, LoadOK
<1>4. MissOK'
  BY <1>0 DEF TypeOK, MissOK, Collectable, PidOf, Zombie
<1>5. BlockOK'
  BY <1>0 DEF TypeOK, SlotOK, BlockOK, PidOK, LoadOK
<1>6. NoLostWakeup'
  BY <1>0 DEF TypeOK, SlotOK, NoLostWakeup, Zombie, BlockOK, MissOK, LoadOK, Collectable
<1> QED
  BY <1>1, <1>2, <1>3a, <1>3b, <1>4, <1>5, <1>6 DEF CInv

\* Leaving the address space preserves the cooperative invariant.
LEMMA CoopExitCr3 == ASSUME NEW c \in Ctx, CInv, ExitCr3(c) PROVE CInv'
<1>0. /\ TypeOK /\ SlotOK /\ OwnOK /\ CurrentOK
      /\ Suspended /\ PidOK /\ LoadOK /\ MissOK /\ BlockOK /\ NoLostWakeup
  BY DEF CInv, IInv
<1>1. IInv'
  BY ExitCr3Inv DEF CInv
<1> USE DEF ExitCr3, At, Goto, table, memory, locals, drain
<1>2. Suspended'
  BY <1>0 DEF TypeOK, Suspended
<1>3a. PidOK'
  BY <1>0 DEF TypeOK, SlotOK, PidOK
<1>3b. LoadOK'
  BY <1>0 DEF TypeOK, SlotOK, OwnOK, LoadOK
<1>4. MissOK'
  BY <1>0 DEF TypeOK, MissOK, Collectable, PidOf, Zombie
<1>5. BlockOK'
  BY <1>0 DEF TypeOK, SlotOK, BlockOK, PidOK, LoadOK
<1>6. NoLostWakeup'
  BY <1>0 DEF TypeOK, SlotOK, NoLostWakeup, Zombie, BlockOK, MissOK, LoadOK, Collectable
<1> QED
  BY <1>1, <1>2, <1>3a, <1>3b, <1>4, <1>5, <1>6 DEF CInv

\* Forgetting the address space preserves the cooperative invariant.
LEMMA CoopExitUnlink == ASSUME NEW c \in Ctx, CInv, ExitUnlink(c) PROVE CInv'
<1>0. /\ TypeOK /\ SlotOK /\ OwnOK /\ CurrentOK
      /\ Suspended /\ PidOK /\ LoadOK /\ MissOK /\ BlockOK /\ NoLostWakeup
  BY DEF CInv, IInv
<1>1. IInv'
  BY ExitUnlinkInv DEF CInv
<1> USE DEF ExitUnlink, At, Goto, table, memory, locals, drain
<1>2. Suspended'
  BY <1>0 DEF TypeOK, Suspended
<1>3a. PidOK'
  BY <1>0 DEF TypeOK, SlotOK, PidOK
<1>3b. LoadOK'
  BY <1>0 DEF TypeOK, SlotOK, OwnOK, LoadOK
<1>4. MissOK'
  BY <1>0 DEF TypeOK, MissOK, Collectable, PidOf, Zombie
<1>5. BlockOK'
  BY <1>0 DEF TypeOK, SlotOK, BlockOK, PidOK, LoadOK
<1>6. NoLostWakeup'
  BY <1>0 DEF TypeOK, SlotOK, NoLostWakeup, Zombie, BlockOK, MissOK, LoadOK, Collectable
<1> QED
  BY <1>1, <1>2, <1>3a, <1>3b, <1>4, <1>5, <1>6 DEF CInv

\* Queueing the stack preserves the cooperative invariant.
LEMMA CoopExitQueue == ASSUME NEW c \in Ctx, CInv, ExitQueue(c) PROVE CInv'
<1>0. /\ TypeOK /\ SlotOK /\ OwnOK /\ CurrentOK
      /\ Suspended /\ PidOK /\ LoadOK /\ MissOK /\ BlockOK /\ NoLostWakeup
  BY DEF CInv, IInv
<1>1. IInv'
  BY ExitQueueInv DEF CInv
<1> USE DEF ExitQueue, At, Goto, table, memory, locals, drain
<1>2. Suspended'
  BY <1>0 DEF TypeOK, Suspended
<1>3a. PidOK'
  BY <1>0 DEF TypeOK, SlotOK, PidOK
<1>3b. LoadOK'
  BY <1>0 DEF TypeOK, SlotOK, OwnOK, LoadOK
<1>4. MissOK'
  BY <1>0 DEF TypeOK, MissOK, Collectable, PidOf, Zombie
<1>5. BlockOK'
  BY <1>0 DEF TypeOK, SlotOK, BlockOK, PidOK, LoadOK
<1>6. NoLostWakeup'
  BY <1>0 DEF TypeOK, SlotOK, NoLostWakeup, Zombie, BlockOK, MissOK, LoadOK, Collectable
<1> QED
  BY <1>1, <1>2, <1>3a, <1>3b, <1>4, <1>5, <1>6 DEF CInv

\* The store to the empty cell preserves the cooperative invariant.
LEMMA CoopExitStore == ASSUME NEW c \in Ctx, CInv, ExitStore(c) PROVE CInv'
<1>0. /\ TypeOK /\ SlotOK /\ OwnOK /\ CurrentOK
      /\ Suspended /\ PidOK /\ LoadOK /\ MissOK /\ BlockOK /\ NoLostWakeup
  BY DEF CInv, IInv
<1>1. IInv'
  BY ExitStoreInv DEF CInv
<1> USE DEF ExitStore, StoreWith, At, Goto, table, memory, locals, drain
<1>2. Suspended'
  BY <1>0 DEF TypeOK, Suspended
<1>3a. PidOK'
  BY <1>0 DEF TypeOK, SlotOK, PidOK
<1>3b. LoadOK'
  BY <1>0 DEF TypeOK, SlotOK, OwnOK, LoadOK
<1>4. MissOK'
  BY <1>0 DEF TypeOK, MissOK, Collectable, PidOf, Zombie
<1>5. BlockOK'
  BY <1>0 DEF TypeOK, SlotOK, BlockOK, PidOK, LoadOK
<1>6. NoLostWakeup'
  BY <1>0 DEF TypeOK, SlotOK, NoLostWakeup, Zombie, BlockOK, MissOK, LoadOK, Collectable
<1> QED
  BY <1>1, <1>2, <1>3a, <1>3b, <1>4, <1>5, <1>6 DEF CInv

\* An exit preserves the cooperative invariant.
LEMMA CoopExitProcess == ASSUME NEW c \in Ctx, CInv, ExitProcess(c) PROVE CInv'
<1>0. /\ TypeOK /\ SlotOK /\ OwnOK /\ CurrentOK
      /\ Suspended /\ PidOK /\ LoadOK /\ MissOK /\ BlockOK /\ NoLostWakeup
  BY DEF CInv, IInv
<1>1. IInv'
  BY ExitProcessInv DEF CInv
<1> USE DEF ExitProcess, Woken, At, Goto, table, memory, locals, drain
<1>2. Suspended'
  BY <1>0 DEF TypeOK, Suspended
<1>3a. PidOK'
  BY <1>0 DEF TypeOK, SlotOK, PidOK
<1>3b. LoadOK'
  BY <1>0 DEF TypeOK, SlotOK, OwnOK, LoadOK
<1>4. MissOK'
  BY <1>0 DEF TypeOK, MissOK, Collectable, PidOf, Zombie
<1>5. BlockOK'
  BY <1>0 DEF TypeOK, SlotOK, BlockOK, PidOK, LoadOK
<1>6. NoLostWakeup'
  BY <1>0 DEF TypeOK, SlotOK, NoLostWakeup, Zombie, BlockOK, MissOK, LoadOK, Collectable
<1> QED
  BY <1>1, <1>2, <1>3a, <1>3b, <1>4, <1>5, <1>6 DEF CInv

\* A voluntary switch preserves the cooperative invariant.
LEMMA CoopSwitch == ASSUME NEW c \in Ctx, CInv, Switch(c) PROVE CInv'
<1>0. /\ TypeOK /\ SlotOK /\ OwnOK /\ CurrentOK
      /\ Suspended /\ PidOK /\ LoadOK /\ MissOK /\ BlockOK /\ NoLostWakeup
  BY DEF CInv, IInv
<1>1. IInv'
  BY SwitchInv DEF CInv
<1>2. current = c /\ pc[c] = "switch" /\ pc' = [pc EXCEPT ![c] = "resumed"]
      /\ UNCHANGED <<target, slot>>
  BY DEF Switch, At, Goto
<1>3. PICK n \in Ctx : n = next[c]
  BY <1>0 DEF TypeOK
<1>4. SwitchTo(n, state, inIsr)
  BY <1>3 DEF Switch
<1>5. /\ state' = [i \in Procs |-> IF i = n THEN "Running" ELSE state[i]]
      /\ current' = n
      /\ UNCHANGED <<pid, parent, waited, waitingFor, nextPid>>
  BY <1>0, <1>4, SwitchFacts DEF TypeOK
<1>6. Suspended'
  BY <1>0, <1>2, <1>5 DEF TypeOK, Suspended
<1>7. pc'[n] \in {"none", "fresh", "resumed"}
  BY <1>0, <1>2 DEF TypeOK, Suspended
<1>8. PidOK'
  BY <1>0, <1>5 DEF PidOK
<1>9. LoadOK'
  BY <1>0, <1>2, <1>5, <1>7 DEF TypeOK, LoadOK
<1>10. MissOK'
  BY <1>5, <1>7 DEF MissOK
<1>11. BlockOK'
  BY <1>0, <1>5, <1>7 DEF BlockOK, TypeOK
<1>12. NoLostWakeup'
  BY <1>0, <1>5 DEF NoLostWakeup, Zombie, TypeOK
<1> QED
  BY <1>1, <1>6, <1>8, <1>9, <1>10, <1>11, <1>12 DEF CInv

\* A spawn preserves the cooperative invariant: nobody can be waiting for the
\* pid it hands out.
LEMMA CoopSpawn ==
  ASSUME NEW c \in Ctx, CInv, ~halted, current = c, ProcessSpawn(c),
         IF c = Idle THEN pc[c] = "shell" ELSE pc[c] = "user"
  PROVE  CInv'
<1>0. /\ TypeOK /\ SlotOK /\ OwnOK /\ CurrentOK
      /\ Suspended /\ PidOK /\ LoadOK /\ MissOK /\ BlockOK /\ NoLostWakeup
  BY DEF CInv, IInv
<1>1. IInv'
  BY SpawnInv DEF CInv
<1>2. nextPid' = nextPid + 1 /\ current' = c /\ nextPid \in Pids
  BY <1>0 DEF ProcessSpawn, TypeOK
<1>3. CASE UNCHANGED <<table, pc, target, slot, next, inIsr>>
  <2> USE <1>0, <1>2, <1>3 DEF table
  <2>1. Suspended' /\ LoadOK' /\ MissOK'
    BY DEF Suspended, LoadOK, MissOK
  <2>2. PidOK'
    BY DEF PidOK, TypeOK
  <2>3. BlockOK'
    BY DEF BlockOK, TypeOK
  <2>4. NoLostWakeup'
    BY DEF NoLostWakeup, Zombie
  <2> QED
    BY <1>1, <2>1, <2>2, <2>3, <2>4 DEF CInv
<1>4. ASSUME NEW i \in Procs, IsLowest(i, Claimable), Claim(c, i) PROVE CInv'
  <2>1. i # c
    BY <1>0, <1>4 DEF CurrentOK, IsLowest, Claimable, EmptySlots, ReapableSlots, Zombie
  <2>2. \A j \in Procs : state[j] # "Loading"
    BY <1>0 DEF LoadOK
  <2> USE <1>0, <1>2, <1>4, <2>1 DEF Claim, ClaimWith
  <2>3. Suspended'
    BY DEF Suspended, TypeOK
  <2>4. PidOK'
    BY DEF PidOK, TypeOK
  <2>5. LoadOK'
    BY <2>2 DEF LoadOK, TypeOK
  <2>6. MissOK'
    BY DEF MissOK, TypeOK
  <2>7. BlockOK'
    BY <2>2 DEF BlockOK, TypeOK
  <2>8. NoLostWakeup'
    BY DEF NoLostWakeup, Zombie, BlockOK, TypeOK
  <2> QED
    BY <1>1, <2>3, <2>4, <2>5, <2>6, <2>7, <2>8 DEF CInv
<1> QED
  BY <1>3, <1>4 DEF ProcessSpawn

\* Every step taken without the tick preserves the cooperative invariant.
LEMMA CoopNext == ASSUME Preemptive = FALSE PROVE CInv /\ [Next]_vars => CInv'
<1> SUFFICES ASSUME CInv, [Next]_vars PROVE CInv'
  OBVIOUS
<1>1. ~Tick
  BY DEF Tick, Preemptible
<1>2. CASE ShellStep
  <2>1. CASE RunProgram
    BY <2>1, CoopSpawn DEF RunProgram, At
  <2> QED
    BY <1>2, <2>1, CoopRunNotFound, CoopRunDone, CoopShellWait DEF ShellStep
<1>3. ASSUME NEW c \in Ctx, KernelStep(c) PROVE CInv'
  BY <1>3, CoopPrepareSpace, CoopPrepareSpaceFails, CoopLoadElf, CoopLoadElfFails,
     CoopCreateStack, CoopCreateStackFails, CoopPublish, CoopWaitTest, CoopWaitCollect,
     CoopWaitMiss, CoopWaitFind, CoopWaitBlock, CoopPickNextReady, CoopSwitch,
     CoopResumed, CoopTake, CoopReclaim, CoopYielded, CoopTrampoline, CoopExitDestroy, CoopExitCr3, CoopExitUnlink,
     CoopExitQueue, CoopExitStore, CoopExitProcess
  DEF KernelStep
<1>4. ASSUME NEW c \in Procs, UserStep(c) PROVE CInv'
  <2>1. CASE UserSpawn(c)
    BY <2>1, CoopSpawn DEF UserSpawn, At
  <2> QED
    BY <1>4, <2>1, CoopUserWait, CoopUserExit DEF UserStep
<1>5. CASE UNCHANGED vars
  <2>0. /\ IInv
        /\ Suspended /\ PidOK /\ LoadOK /\ MissOK /\ BlockOK /\ NoLostWakeup
    BY DEF CInv
  <2>1. IInv'
    BY <2>0, <1>5, NextInv
  <2> USE <1>5, <2>0 DEF vars, table, memory, locals, drain
  <2>2. Suspended' /\ PidOK' /\ LoadOK'
    BY DEF Suspended, PidOK, LoadOK
  <2>3. MissOK'
    BY DEF MissOK, Collectable, PidOf, Zombie
  <2>4. BlockOK' /\ NoLostWakeup'
    BY DEF BlockOK, NoLostWakeup, Zombie
  <2> QED
    BY <2>1, <2>2, <2>3, <2>4 DEF CInv
<1> QED
  BY <1>1, <1>2, <1>3, <1>4, <1>5 DEF Next

\* wait_for_pid_blocking: as long as no tick takes the CPU away between its scan
\* and its block, nobody stays Blocked on an exit that has already happened,
\* for every PROCESS_COUNT.
THEOREM CooperativeWakeups ==
  ASSUME Preemptive = FALSE PROVE Spec => []NoLostWakeup
<1>1. CInv => NoLostWakeup
  BY DEF CInv
<1>2. CInv /\ [Next]_vars => CInv'
  BY CoopNext
<1> QED
  BY <1>1, <1>2, CoopInit, PTL DEF Spec

-----------------------------------------------------------------------------
(* The memory of the contexts, wherever ticks fall and for every number of *)
(* slots: a Ready slot has a context to resume, its stack stays mapped     *)
(* until its owner queues it, its address space is allocated, nobody else  *)
(* owns one, and CR3 follows the CPU.                                      *)
(*                                                                         *)
(* run_scheduler_step chooses with interrupts enabled and switches later,  *)
(* so the choice can be stale.  Only the console's can: a process yields   *)
(* Blocked or Exited, and a tick disturbs neither.  The console in turn    *)
(* gets the CPU back only from a yield that found nobody Ready.  So the    *)
(* slot it switches to is still the Ready one it chose, or nobody is Ready *)
(* and the slot is Blocked, or its context loops in exit_and_yield, or it  *)
(* has no stack and the switch faults.  Running a dead context again is    *)
(* harmless to memory: nobody is Ready, so no tick marks it Ready, and it  *)
(* owns nothing any more.                                                  *)

\* Where a context that is not yielding may stand
MidLabels == PrepareLabels \cup
  {"user", "test", "collect", "find", "block", "destroy", "cr3", "unlink", "queue",
   "store", "exit"}

\* The pids whose stacks are queued, or have been taken from the queue
Doomed == Queued \cup ({taken[c] : c \in Ctx} \ {0})

\* Pids are handed out once: no two slots share one, and no address space, stack
\* or queue entry belongs to a pid that is still to come.
PidsOK ==
  /\ \A i \in Procs : pid[i] < nextPid
  /\ \A i, j \in Procs : pid[i] = pid[j] /\ pid[i] # 0 => i = j
  /\ \A p \in spaces \cup stacks \cup Doomed : p < nextPid

\* What a slot's state says about where its context stands.  A context that the
\* console switched to after its death is Running and in its exit loop; a slot
\* switched to with no context at all stops the machine.
PhaseOK ==
  \A i \in Procs :
    /\ pc[i] \notin {"shell", "runDone"}
    /\ pc[i] \in MidLabels => state[i] \in {"Ready", "Running"}
    /\ InExitLoop(i) => state[i] \in {"Exited", "Running"}
    /\ pc[i] \in {"pick", "switch"} => current = i
    /\ pc[i] \in BackLabels /\ target[i] # None => Live(i)
    /\ pc[i] = "fresh" => state[i] \in {"Loading", "Ready", "Running"}
    /\ pc[i] = "none" => state[i] \in {"Empty", "Loading", "Failed"} \/ (halted /\ state[i] = "Running")

\* Each slot that is Loading is prepared by exactly one context, and has the
\* address space, the stack and the context that context has given it so far.
PrepOK ==
  /\ \A i \in Procs : state[i] = "Loading" => \E c \in Ctx : pc[c] \in PrepareLabels /\ slot[c] = i
  /\ \A c \in Ctx : pc[c] \in PrepareLabels => state[slot[c]] = "Loading"
  /\ \A c, d \in Ctx : pc[c] \in PrepareLabels /\ pc[d] \in PrepareLabels /\ slot[c] = slot[d] => c = d
  /\ \A c \in Ctx : pc[c] \in PreLabels =>
       /\ pc[slot[c]] = "none"
       /\ pc[c] = "claimed" <=> pid[slot[c]] \notin spaces
  /\ \A c \in Ctx : pc[c] = "publish" =>
       LET s == slot[c] IN pc[s] = "fresh" /\ pml4[s] = pid[s] /\ pid[s] \in spaces /\ pid[s] \in stacks

\* A choice is stale only if nobody is Ready; a process's choice never is.  A
\* dead context runs only while nobody is Ready.
SwitchOK ==
  /\ \A c \in Ctx : current = c /\ pc[c] = "switch" => next[c] \in Ready \/ Ready = {}
  /\ \A c \in Procs : pc[c] = "switch" => next[c] \in Ready \cup {Idle}
  /\ current # Idle /\ InExitLoop(current) /\ state[current] = "Running" => Ready = {}

\* The saved stack pointer, the stack and the address space of each slot
MemOK ==
  \A i \in Procs :
    /\ IF pc[i] = "none" THEN rsp[i] = 0 ELSE rsp[i] = pid[i]
    /\ pid[i] \in Doomed => PastQueue(i)
    /\ Live(i) /\ ~halted /\ ~PastQueue(i) => pid[i] \in stacks
    /\ Live(i) /\ ~halted /\ ~PastDestroy(i) => pml4[i] = pid[i] /\ pid[i] \in spaces

\* A context in the middle of wait knows what it waits for, and the console
\* yields only in wait.
WaitOK ==
  /\ \A c \in Ctx : pc[c] \in {"test", "collect", "find", "block"} => target[c] # None
  /\ pc[Idle] \in {"pick", "switch"} \cup BackLabels => target[Idle] # None

\* The inductive invariant
MInv ==
  /\ IInv /\ PidsOK /\ PhaseOK /\ PrepOK /\ SwitchOK /\ MemOK /\ WaitOK
  /\ AddressSpaceOwned /\ Cr3Follows
-----------------------------------------------------------------------------
USE Domains DEF PreLabels, PrepareLabels, SlotLabels, BackLabels, WaitLabels, IdleLabels, MidLabels


\* A missing image preserves the invariant.
LEMMA MemRunNotFound == ASSUME MInv, RunNotFound PROVE MInv'
<1>0. /\ TypeOK /\ IdleOK /\ SlotOK /\ TargetOK /\ YieldOK /\ CurrentOK /\ OwnOK /\ RunningIsCurrent /\ CellOK
      /\ PidsOK /\ PhaseOK /\ PrepOK /\ SwitchOK /\ MemOK /\ WaitOK /\ AddressSpaceOwned /\ Cr3Follows
  BY DEF MInv, IInv
<1>1. IInv'
  BY RunNotFoundInv DEF MInv
<1> USE DEF RunNotFound, At, Goto, table, memory, locals, drain
<1> Doomed' = Doomed
  BY DEF Doomed, Queued
<1>2. PidsOK'
  BY <1>0 DEF TypeOK, SlotOK, IdleOK, PidsOK
<1>3. PhaseOK'
  BY <1>0 DEF TypeOK, SlotOK, PhaseOK, PrepOK, InExitLoop, Live, TargetOK, CurrentOK, YieldOK, WaitOK, IdleOK
<1>4. PrepOK'
  BY <1>0 DEF TypeOK, SlotOK, PrepOK, OwnOK, PidsOK, CurrentOK, IdleOK
<1>5. SwitchOK'
  BY <1>0 DEF TypeOK, SwitchOK, PhaseOK, PrepOK, InExitLoop, Ready
<1>6. MemOK'
  BY <1>0 DEF TypeOK, SlotOK, PidsOK, PhaseOK, PrepOK, MemOK, PastQueue, PastDestroy, InExitLoop, Live, CurrentOK, IdleOK, WaitOK
<1>7. WaitOK'
  BY <1>0 DEF TypeOK, SlotOK, IdleOK, WaitOK, None, AnyChild
<1>8. AddressSpaceOwned'
  BY <1>0 DEF TypeOK, SlotOK, PidsOK, PhaseOK, PrepOK, MemOK, AddressSpaceOwned, PastDestroy, InExitLoop, Live, WaitOK
<1>9. Cr3Follows'
  BY <1>0 DEF TypeOK, SlotOK, PidsOK, OwnOK, PhaseOK, PrepOK, MemOK, Live, WaitOK, Cr3Follows, PastDestroy, InExitLoop, Pml4Of, IdleOK
<1> QED
  BY <1>1, <1>2, <1>3, <1>4, <1>5, <1>6, <1>7, <1>8, <1>9 DEF MInv

\* The end of a run preserves the invariant.
LEMMA MemRunDone == ASSUME MInv, RunDone PROVE MInv'
<1>0. /\ TypeOK /\ IdleOK /\ SlotOK /\ TargetOK /\ YieldOK /\ CurrentOK /\ OwnOK /\ RunningIsCurrent /\ CellOK
      /\ PidsOK /\ PhaseOK /\ PrepOK /\ SwitchOK /\ MemOK /\ WaitOK /\ AddressSpaceOwned /\ Cr3Follows
  BY DEF MInv, IInv
<1>1. IInv'
  BY RunDoneInv DEF MInv
<1> USE DEF RunDone, At, Goto, table, memory, locals, drain
<1> Doomed' = Doomed
  BY DEF Doomed, Queued
<1>2. PidsOK'
  BY <1>0 DEF TypeOK, SlotOK, IdleOK, PidsOK
<1>3. PhaseOK'
  BY <1>0 DEF TypeOK, SlotOK, PhaseOK, PrepOK, InExitLoop, Live, TargetOK, CurrentOK, YieldOK, WaitOK, IdleOK
<1>4. PrepOK'
  BY <1>0 DEF TypeOK, SlotOK, PrepOK, OwnOK, PidsOK, CurrentOK, IdleOK
<1>5. SwitchOK'
  BY <1>0 DEF TypeOK, SwitchOK, PhaseOK, PrepOK, InExitLoop, Ready
<1>6. MemOK'
  BY <1>0 DEF TypeOK, SlotOK, PidsOK, PhaseOK, PrepOK, MemOK, PastQueue, PastDestroy, InExitLoop, Live, CurrentOK, IdleOK, WaitOK
<1>7. WaitOK'
  BY <1>0 DEF TypeOK, SlotOK, IdleOK, WaitOK, None, AnyChild
<1>8. AddressSpaceOwned'
  BY <1>0 DEF TypeOK, SlotOK, PidsOK, PhaseOK, PrepOK, MemOK, AddressSpaceOwned, PastDestroy, InExitLoop, Live, WaitOK
<1>9. Cr3Follows'
  BY <1>0 DEF TypeOK, SlotOK, PidsOK, OwnOK, PhaseOK, PrepOK, MemOK, Live, WaitOK, Cr3Follows, PastDestroy, InExitLoop, Pml4Of, IdleOK
<1> QED
  BY <1>1, <1>2, <1>3, <1>4, <1>5, <1>6, <1>7, <1>8, <1>9 DEF MInv

\* A new address space preserves the invariant.
LEMMA MemPrepareSpace == ASSUME NEW c \in Ctx, MInv, PrepareSpace(c) PROVE MInv'
<1>0. /\ TypeOK /\ IdleOK /\ SlotOK /\ TargetOK /\ YieldOK /\ CurrentOK /\ OwnOK /\ RunningIsCurrent /\ CellOK
      /\ PidsOK /\ PhaseOK /\ PrepOK /\ SwitchOK /\ MemOK /\ WaitOK /\ AddressSpaceOwned /\ Cr3Follows
  BY DEF MInv, IInv
<1>1. IInv'
  BY PrepareSpaceInv DEF MInv
<1> USE DEF PrepareSpace, At, Goto, table, memory, locals, drain
<1> Doomed' = Doomed
  BY DEF Doomed, Queued
<1>2. PidsOK'
  BY <1>0 DEF TypeOK, SlotOK, IdleOK, PidsOK
<1>3. PhaseOK'
  BY <1>0 DEF TypeOK, SlotOK, PhaseOK, PrepOK, InExitLoop, Live, TargetOK, CurrentOK, YieldOK, WaitOK, IdleOK
<1>4. PrepOK'
  BY <1>0 DEF TypeOK, SlotOK, PrepOK, OwnOK, PidsOK, CurrentOK, IdleOK
<1>5. SwitchOK'
  BY <1>0 DEF TypeOK, SwitchOK, PhaseOK, PrepOK, InExitLoop, Ready
<1>6. MemOK'
  BY <1>0 DEF TypeOK, SlotOK, PidsOK, PhaseOK, PrepOK, MemOK, PastQueue, PastDestroy, InExitLoop, Live, CurrentOK, IdleOK, WaitOK
<1>7. WaitOK'
  BY <1>0 DEF TypeOK, SlotOK, IdleOK, WaitOK, None, AnyChild
<1>8. AddressSpaceOwned'
  BY SMTT(60), <1>0 DEF TypeOK, SlotOK, PidsOK, PhaseOK, PrepOK, MemOK, AddressSpaceOwned, PastDestroy, InExitLoop, Live, WaitOK
<1>9. Cr3Follows'
  BY <1>0 DEF TypeOK, SlotOK, PidsOK, OwnOK, PhaseOK, PrepOK, MemOK, Live, WaitOK, Cr3Follows, PastDestroy, InExitLoop, Pml4Of, IdleOK
<1> QED
  BY <1>1, <1>2, <1>3, <1>4, <1>5, <1>6, <1>7, <1>8, <1>9 DEF MInv

\* No address space preserves the invariant.
LEMMA MemPrepareSpaceFails == ASSUME NEW c \in Ctx, MInv, PrepareSpaceFails(c) PROVE MInv'
<1>0. /\ TypeOK /\ IdleOK /\ SlotOK /\ TargetOK /\ YieldOK /\ CurrentOK /\ OwnOK /\ RunningIsCurrent /\ CellOK
      /\ PidsOK /\ PhaseOK /\ PrepOK /\ SwitchOK /\ MemOK /\ WaitOK /\ AddressSpaceOwned /\ Cr3Follows
  BY DEF MInv, IInv
<1>1. IInv'
  BY PrepareSpaceFailsInv DEF MInv
<1> USE DEF PrepareSpaceFails, PrepareFails, PrepareFailsWith, At, Goto, table, memory, locals, drain
<1> Doomed' = Doomed
  BY DEF Doomed, Queued
<1>2. PidsOK'
  BY <1>0 DEF TypeOK, SlotOK, IdleOK, PidsOK
<1>3. PhaseOK'
  BY <1>0 DEF TypeOK, SlotOK, PhaseOK, PrepOK, InExitLoop, Live, TargetOK, CurrentOK, YieldOK, WaitOK, IdleOK
<1>4. PrepOK'
  BY <1>0 DEF TypeOK, SlotOK, PrepOK, OwnOK, PidsOK, CurrentOK, IdleOK
<1>5. SwitchOK'
  BY <1>0 DEF TypeOK, SwitchOK, PhaseOK, PrepOK, InExitLoop, Ready
<1>6. MemOK'
  BY <1>0 DEF TypeOK, SlotOK, PidsOK, PhaseOK, PrepOK, MemOK, PastQueue, PastDestroy, InExitLoop, Live, CurrentOK, IdleOK, WaitOK
<1>7. WaitOK'
  BY <1>0 DEF TypeOK, SlotOK, IdleOK, WaitOK, None, AnyChild
<1>8. AddressSpaceOwned'
  BY <1>0 DEF TypeOK, SlotOK, PidsOK, PhaseOK, PrepOK, MemOK, AddressSpaceOwned, PastDestroy, InExitLoop, Live, WaitOK
<1>9. Cr3Follows'
  BY <1>0 DEF TypeOK, SlotOK, PidsOK, OwnOK, PhaseOK, PrepOK, MemOK, Live, WaitOK, Cr3Follows, PastDestroy, InExitLoop, Pml4Of, IdleOK
<1> QED
  BY <1>1, <1>2, <1>3, <1>4, <1>5, <1>6, <1>7, <1>8, <1>9 DEF MInv

\* A loaded image preserves the invariant.
LEMMA MemLoadElf == ASSUME NEW c \in Ctx, MInv, LoadElf(c) PROVE MInv'
<1>0. /\ TypeOK /\ IdleOK /\ SlotOK /\ TargetOK /\ YieldOK /\ CurrentOK /\ OwnOK /\ RunningIsCurrent /\ CellOK
      /\ PidsOK /\ PhaseOK /\ PrepOK /\ SwitchOK /\ MemOK /\ WaitOK /\ AddressSpaceOwned /\ Cr3Follows
  BY DEF MInv, IInv
<1>1. IInv'
  BY LoadElfInv DEF MInv
<1> USE DEF LoadElf, At, Goto, table, memory, locals, drain
<1> Doomed' = Doomed
  BY DEF Doomed, Queued
<1>2. PidsOK'
  BY <1>0 DEF TypeOK, SlotOK, IdleOK, PidsOK
<1>3. PhaseOK'
  BY <1>0 DEF TypeOK, SlotOK, PhaseOK, PrepOK, InExitLoop, Live, TargetOK, CurrentOK, YieldOK, WaitOK, IdleOK
<1>4. PrepOK'
  BY <1>0 DEF TypeOK, SlotOK, PrepOK, OwnOK, PidsOK, CurrentOK, IdleOK
<1>5. SwitchOK'
  BY <1>0 DEF TypeOK, SwitchOK, PhaseOK, PrepOK, InExitLoop, Ready
<1>6. MemOK'
  BY <1>0 DEF TypeOK, SlotOK, PidsOK, PhaseOK, PrepOK, MemOK, PastQueue, PastDestroy, InExitLoop, Live, CurrentOK, IdleOK, WaitOK
<1>7. WaitOK'
  BY <1>0 DEF TypeOK, SlotOK, IdleOK, WaitOK, None, AnyChild
<1>8. AddressSpaceOwned'
  BY <1>0 DEF TypeOK, SlotOK, PidsOK, PhaseOK, PrepOK, MemOK, AddressSpaceOwned, PastDestroy, InExitLoop, Live, WaitOK
<1>9. Cr3Follows'
  BY <1>0 DEF TypeOK, SlotOK, PidsOK, OwnOK, PhaseOK, PrepOK, MemOK, Live, WaitOK, Cr3Follows, PastDestroy, InExitLoop, Pml4Of, IdleOK
<1> QED
  BY <1>1, <1>2, <1>3, <1>4, <1>5, <1>6, <1>7, <1>8, <1>9 DEF MInv

\* A bad image preserves the invariant.
LEMMA MemLoadElfFails == ASSUME NEW c \in Ctx, MInv, LoadElfFails(c) PROVE MInv'
<1>0. /\ TypeOK /\ IdleOK /\ SlotOK /\ TargetOK /\ YieldOK /\ CurrentOK /\ OwnOK /\ RunningIsCurrent /\ CellOK
      /\ PidsOK /\ PhaseOK /\ PrepOK /\ SwitchOK /\ MemOK /\ WaitOK /\ AddressSpaceOwned /\ Cr3Follows
  BY DEF MInv, IInv
<1>1. IInv'
  BY LoadElfFailsInv DEF MInv
<1> USE DEF LoadElfFails, PrepareFails, PrepareFailsWith, At, Goto, table, memory, locals, drain
<1> Doomed' = Doomed
  BY DEF Doomed, Queued
<1>2. PidsOK'
  BY <1>0 DEF TypeOK, SlotOK, IdleOK, PidsOK
<1>3. PhaseOK'
  BY <1>0 DEF TypeOK, SlotOK, PhaseOK, PrepOK, InExitLoop, Live, TargetOK, CurrentOK, YieldOK, WaitOK, IdleOK
<1>4. PrepOK'
  BY <1>0 DEF TypeOK, SlotOK, PrepOK, OwnOK, PidsOK, CurrentOK, IdleOK
<1>5. SwitchOK'
  BY <1>0 DEF TypeOK, SwitchOK, PhaseOK, PrepOK, InExitLoop, Ready
<1>6. MemOK'
  BY <1>0 DEF TypeOK, SlotOK, PidsOK, PhaseOK, PrepOK, MemOK, PastQueue, PastDestroy, InExitLoop, Live, CurrentOK, IdleOK, WaitOK
<1>7. WaitOK'
  BY <1>0 DEF TypeOK, SlotOK, IdleOK, WaitOK, None, AnyChild
<1>8. AddressSpaceOwned'
  BY <1>0 DEF TypeOK, SlotOK, PidsOK, PhaseOK, PrepOK, MemOK, AddressSpaceOwned, PastDestroy, InExitLoop, Live, WaitOK
<1>9. Cr3Follows'
  BY SMTT(40), <1>0 DEF TypeOK, SlotOK, PidsOK, OwnOK, PhaseOK, PrepOK, MemOK, Live, WaitOK, Cr3Follows, PastDestroy, InExitLoop, Pml4Of, IdleOK
<1> QED
  BY <1>1, <1>2, <1>3, <1>4, <1>5, <1>6, <1>7, <1>8, <1>9 DEF MInv

\* A new kernel stack preserves the invariant.
LEMMA MemCreateStack == ASSUME NEW c \in Ctx, MInv, CreateStack(c) PROVE MInv'
<1>0. /\ TypeOK /\ IdleOK /\ SlotOK /\ TargetOK /\ YieldOK /\ CurrentOK /\ OwnOK /\ RunningIsCurrent /\ CellOK
      /\ PidsOK /\ PhaseOK /\ PrepOK /\ SwitchOK /\ MemOK /\ WaitOK /\ AddressSpaceOwned /\ Cr3Follows
  BY DEF MInv, IInv
<1>1. IInv'
  BY CreateStackInv DEF MInv
<1> USE DEF CreateStack, StackWith, At, Goto, table, memory, locals, drain
<1> Doomed' = Doomed
  BY DEF Doomed, Queued
<1>2. PidsOK'
  BY <1>0 DEF TypeOK, SlotOK, IdleOK, PidsOK
<1>3. PhaseOK'
  BY <1>0 DEF TypeOK, SlotOK, PhaseOK, PrepOK, InExitLoop, Live, TargetOK, CurrentOK, YieldOK, WaitOK, IdleOK
<1>4. PrepOK'
  <2>1. PICK s \in Procs : s = slot[c]
    BY <1>0 DEF SlotOK
  <2>2. pc[c] = "stack" /\ s # c /\ pc[s] = "none" /\ pid[s] \in spaces /\ pid[s] \in Pids
    BY <1>0, <2>1 DEF PrepOK, OwnOK, SlotOK, TypeOK
  <2>3. /\ \A d \in Ctx : pc'[d] = IF d = c THEN "publish" ELSE IF d = s THEN "fresh" ELSE pc[d]
        /\ \A i \in Procs : pml4'[i] = IF i = s THEN pid[s] ELSE pml4[i]
        /\ UNCHANGED <<state, pid, slot, spaces>> /\ stacks' = stacks \cup {pid[s]}
    BY <1>0, <2>1, <2>2 DEF TypeOK
  <2>4. \A d \in Ctx : pc[d] \in PrepareLabels /\ d # c => slot[d] \in Procs /\ slot[d] # s /\ slot[d] # c
    BY <1>0, <2>1, <2>2 DEF PrepOK, SlotOK
  <2> HIDE DEF CreateStack
  <2> QED
    BY <1>0, <2>1, <2>2, <2>3, <2>4 DEF PrepOK
<1>5. SwitchOK'
  BY <1>0 DEF TypeOK, SwitchOK, PhaseOK, PrepOK, InExitLoop, Ready
<1>6. MemOK'
  BY <1>0 DEF TypeOK, SlotOK, PidsOK, PhaseOK, PrepOK, MemOK, PastQueue, PastDestroy, InExitLoop, Live, CurrentOK, IdleOK, WaitOK
<1>7. WaitOK'
  BY <1>0 DEF TypeOK, SlotOK, IdleOK, WaitOK, None, AnyChild
<1>8. AddressSpaceOwned'
  BY SMTT(60), <1>0 DEF TypeOK, SlotOK, PidsOK, PhaseOK, PrepOK, MemOK, AddressSpaceOwned, PastDestroy, InExitLoop, Live, WaitOK
<1>9. Cr3Follows'
  BY <1>0 DEF TypeOK, SlotOK, PidsOK, OwnOK, PhaseOK, PrepOK, MemOK, Live, WaitOK, Cr3Follows, PastDestroy, InExitLoop, Pml4Of, IdleOK
<1> QED
  BY <1>1, <1>2, <1>3, <1>4, <1>5, <1>6, <1>7, <1>8, <1>9 DEF MInv

\* No kernel stack preserves the invariant.
LEMMA MemCreateStackFails == ASSUME NEW c \in Ctx, MInv, CreateStackFails(c) PROVE MInv'
<1>0. /\ TypeOK /\ IdleOK /\ SlotOK /\ TargetOK /\ YieldOK /\ CurrentOK /\ OwnOK /\ RunningIsCurrent /\ CellOK
      /\ PidsOK /\ PhaseOK /\ PrepOK /\ SwitchOK /\ MemOK /\ WaitOK /\ AddressSpaceOwned /\ Cr3Follows
  BY DEF MInv, IInv
<1>1. IInv'
  BY CreateStackFailsInv DEF MInv
<1> USE DEF CreateStackFails, PrepareFails, PrepareFailsWith, At, Goto, table, memory, locals, drain
<1> Doomed' = Doomed
  BY DEF Doomed, Queued
<1>2. PidsOK'
  BY <1>0 DEF TypeOK, SlotOK, IdleOK, PidsOK
<1>3. PhaseOK'
  BY <1>0 DEF TypeOK, SlotOK, PhaseOK, PrepOK, InExitLoop, Live, TargetOK, CurrentOK, YieldOK, WaitOK, IdleOK
<1>4. PrepOK'
  BY <1>0 DEF TypeOK, SlotOK, PrepOK, OwnOK, PidsOK, CurrentOK, IdleOK
<1>5. SwitchOK'
  BY <1>0 DEF TypeOK, SwitchOK, PhaseOK, PrepOK, InExitLoop, Ready
<1>6. MemOK'
  BY <1>0 DEF TypeOK, SlotOK, PidsOK, PhaseOK, PrepOK, MemOK, PastQueue, PastDestroy, InExitLoop, Live, CurrentOK, IdleOK, WaitOK
<1>7. WaitOK'
  BY <1>0 DEF TypeOK, SlotOK, IdleOK, WaitOK, None, AnyChild
<1>8. AddressSpaceOwned'
  BY <1>0 DEF TypeOK, SlotOK, PidsOK, PhaseOK, PrepOK, MemOK, AddressSpaceOwned, PastDestroy, InExitLoop, Live, WaitOK
<1>9. Cr3Follows'
  BY SMTT(40), <1>0 DEF TypeOK, SlotOK, PidsOK, OwnOK, PhaseOK, PrepOK, MemOK, Live, WaitOK, Cr3Follows, PastDestroy, InExitLoop, Pml4Of, IdleOK
<1> QED
  BY <1>1, <1>2, <1>3, <1>4, <1>5, <1>6, <1>7, <1>8, <1>9 DEF MInv

\* A child made Ready preserves the invariant.
LEMMA MemPublish == ASSUME NEW c \in Ctx, MInv, Publish(c) PROVE MInv'
<1>0. /\ TypeOK /\ IdleOK /\ SlotOK /\ TargetOK /\ YieldOK /\ CurrentOK /\ OwnOK /\ RunningIsCurrent /\ CellOK
      /\ PidsOK /\ PhaseOK /\ PrepOK /\ SwitchOK /\ MemOK /\ WaitOK /\ AddressSpaceOwned /\ Cr3Follows
  BY DEF MInv, IInv
<1>1. IInv'
  BY PublishInv DEF MInv
<1> USE DEF Publish, At, Goto, table, memory, locals, drain
<1> Doomed' = Doomed
  BY DEF Doomed, Queued
<1>2. PidsOK'
  BY <1>0 DEF TypeOK, SlotOK, IdleOK, PidsOK
<1>3. PhaseOK'
  BY <1>0 DEF TypeOK, SlotOK, PhaseOK, PrepOK, InExitLoop, Live, TargetOK, CurrentOK, YieldOK, WaitOK, IdleOK
<1>4. PrepOK'
  BY <1>0 DEF TypeOK, SlotOK, PrepOK, OwnOK, PidsOK, CurrentOK, IdleOK
<1>5. SwitchOK'
  BY <1>0 DEF TypeOK, SwitchOK, PhaseOK, PrepOK, InExitLoop, Ready
<1>6. MemOK'
  BY <1>0 DEF TypeOK, SlotOK, PidsOK, PhaseOK, PrepOK, MemOK, PastQueue, PastDestroy, InExitLoop, Live, CurrentOK, IdleOK, WaitOK
<1>7. WaitOK'
  BY <1>0 DEF TypeOK, SlotOK, IdleOK, WaitOK, None, AnyChild
<1>8. AddressSpaceOwned'
  BY <1>0 DEF TypeOK, SlotOK, PidsOK, PhaseOK, PrepOK, MemOK, AddressSpaceOwned, PastDestroy, InExitLoop, Live, WaitOK
<1>9. Cr3Follows'
  BY <1>0 DEF TypeOK, SlotOK, PidsOK, OwnOK, PhaseOK, PrepOK, MemOK, Live, WaitOK, Cr3Follows, PastDestroy, InExitLoop, Pml4Of, IdleOK
<1> QED
  BY <1>1, <1>2, <1>3, <1>4, <1>5, <1>6, <1>7, <1>8, <1>9 DEF MInv

\* The console's wait preserves the invariant.
LEMMA MemShellWait == ASSUME NEW t \in Pids \cup {AnyChild}, MInv, ShellWait(t) PROVE MInv'
<1>0. /\ TypeOK /\ IdleOK /\ SlotOK /\ TargetOK /\ YieldOK /\ CurrentOK /\ OwnOK /\ RunningIsCurrent /\ CellOK
      /\ PidsOK /\ PhaseOK /\ PrepOK /\ SwitchOK /\ MemOK /\ WaitOK /\ AddressSpaceOwned /\ Cr3Follows
  BY DEF MInv, IInv
<1>1. IInv'
  BY ShellWaitInv DEF MInv
<1> USE DEF ShellWait, At, Goto, table, memory, locals, drain
<1> Doomed' = Doomed
  BY DEF Doomed, Queued
<1>2. PidsOK'
  BY <1>0 DEF TypeOK, SlotOK, IdleOK, PidsOK
<1>3. PhaseOK'
  BY <1>0 DEF TypeOK, SlotOK, PhaseOK, PrepOK, InExitLoop, Live, TargetOK, CurrentOK, YieldOK, WaitOK, IdleOK
<1>4. PrepOK'
  BY <1>0 DEF TypeOK, SlotOK, PrepOK, OwnOK, PidsOK, CurrentOK, IdleOK
<1>5. SwitchOK'
  BY <1>0 DEF TypeOK, SwitchOK, PhaseOK, PrepOK, InExitLoop, Ready
<1>6. MemOK'
  BY <1>0 DEF TypeOK, SlotOK, PidsOK, PhaseOK, PrepOK, MemOK, PastQueue, PastDestroy, InExitLoop, Live, CurrentOK, IdleOK, WaitOK
<1>7. WaitOK'
  BY <1>0 DEF TypeOK, SlotOK, IdleOK, WaitOK, None, AnyChild
<1>8. AddressSpaceOwned'
  BY <1>0 DEF TypeOK, SlotOK, PidsOK, PhaseOK, PrepOK, MemOK, AddressSpaceOwned, PastDestroy, InExitLoop, Live, WaitOK
<1>9. Cr3Follows'
  BY <1>0 DEF TypeOK, SlotOK, PidsOK, OwnOK, PhaseOK, PrepOK, MemOK, Live, WaitOK, Cr3Follows, PastDestroy, InExitLoop, Pml4Of, IdleOK
<1> QED
  BY <1>1, <1>2, <1>3, <1>4, <1>5, <1>6, <1>7, <1>8, <1>9 DEF MInv

\* A program's wait preserves the invariant.
LEMMA MemUserWait == ASSUME NEW c \in Procs, NEW t \in Pids \cup {AnyChild}, MInv, UserWait(c, t) PROVE MInv'
<1>0. /\ TypeOK /\ IdleOK /\ SlotOK /\ TargetOK /\ YieldOK /\ CurrentOK /\ OwnOK /\ RunningIsCurrent /\ CellOK
      /\ PidsOK /\ PhaseOK /\ PrepOK /\ SwitchOK /\ MemOK /\ WaitOK /\ AddressSpaceOwned /\ Cr3Follows
  BY DEF MInv, IInv
<1>1. IInv'
  BY UserWaitInv DEF MInv
<1> USE DEF UserWait, At, Goto, table, memory, locals, drain
<1> Doomed' = Doomed
  BY DEF Doomed, Queued
<1>2. PidsOK'
  BY <1>0 DEF TypeOK, SlotOK, IdleOK, PidsOK
<1>3. PhaseOK'
  BY <1>0 DEF TypeOK, SlotOK, PhaseOK, PrepOK, InExitLoop, Live, TargetOK, CurrentOK, YieldOK, WaitOK, IdleOK
<1>4. PrepOK'
  BY <1>0 DEF TypeOK, SlotOK, PrepOK, OwnOK, PidsOK, CurrentOK, IdleOK
<1>5. SwitchOK'
  BY <1>0 DEF TypeOK, SwitchOK, PhaseOK, PrepOK, InExitLoop, Ready
<1>6. MemOK'
  BY <1>0 DEF TypeOK, SlotOK, PidsOK, PhaseOK, PrepOK, MemOK, PastQueue, PastDestroy, InExitLoop, Live, CurrentOK, IdleOK, WaitOK
<1>7. WaitOK'
  BY <1>0 DEF TypeOK, SlotOK, IdleOK, WaitOK, None, AnyChild
<1>8. AddressSpaceOwned'
  BY <1>0 DEF TypeOK, SlotOK, PidsOK, PhaseOK, PrepOK, MemOK, AddressSpaceOwned, PastDestroy, InExitLoop, Live, WaitOK
<1>9. Cr3Follows'
  BY <1>0 DEF TypeOK, SlotOK, PidsOK, OwnOK, PhaseOK, PrepOK, MemOK, Live, WaitOK, Cr3Follows, PastDestroy, InExitLoop, Pml4Of, IdleOK
<1> QED
  BY <1>1, <1>2, <1>3, <1>4, <1>5, <1>6, <1>7, <1>8, <1>9 DEF MInv

\* A status found preserves the invariant.
LEMMA MemWaitTest == ASSUME NEW c \in Ctx, MInv, WaitTest(c) PROVE MInv'
<1>0. /\ TypeOK /\ IdleOK /\ SlotOK /\ TargetOK /\ YieldOK /\ CurrentOK /\ OwnOK /\ RunningIsCurrent /\ CellOK
      /\ PidsOK /\ PhaseOK /\ PrepOK /\ SwitchOK /\ MemOK /\ WaitOK /\ AddressSpaceOwned /\ Cr3Follows
  BY DEF MInv, IInv
<1>1. IInv'
  BY WaitTestInv DEF MInv
<1> USE DEF WaitTest, At, Goto, table, memory, locals, drain
<1> Doomed' = Doomed
  BY DEF Doomed, Queued
<1>2. PidsOK'
  BY <1>0 DEF TypeOK, SlotOK, IdleOK, PidsOK
<1>3. PhaseOK'
  BY <1>0 DEF TypeOK, SlotOK, PhaseOK, PrepOK, InExitLoop, Live, TargetOK, CurrentOK, YieldOK, WaitOK, IdleOK
<1>4. PrepOK'
  BY <1>0 DEF TypeOK, SlotOK, PrepOK, OwnOK, PidsOK, CurrentOK, IdleOK
<1>5. SwitchOK'
  BY <1>0 DEF TypeOK, SwitchOK, PhaseOK, PrepOK, InExitLoop, Ready
<1>6. MemOK'
  BY <1>0 DEF TypeOK, SlotOK, PidsOK, PhaseOK, PrepOK, MemOK, PastQueue, PastDestroy, InExitLoop, Live, CurrentOK, IdleOK, WaitOK
<1>7. WaitOK'
  BY <1>0 DEF TypeOK, SlotOK, IdleOK, WaitOK, None, AnyChild
<1>8. AddressSpaceOwned'
  BY <1>0 DEF TypeOK, SlotOK, PidsOK, PhaseOK, PrepOK, MemOK, AddressSpaceOwned, PastDestroy, InExitLoop, Live, WaitOK
<1>9. Cr3Follows'
  BY <1>0 DEF TypeOK, SlotOK, PidsOK, OwnOK, PhaseOK, PrepOK, MemOK, Live, WaitOK, Cr3Follows, PastDestroy, InExitLoop, Pml4Of, IdleOK
<1> QED
  BY <1>1, <1>2, <1>3, <1>4, <1>5, <1>6, <1>7, <1>8, <1>9 DEF MInv

\* A status collected preserves the invariant.
LEMMA MemWaitCollect == ASSUME NEW c \in Ctx, MInv, WaitCollect(c) PROVE MInv'
<1>0. /\ TypeOK /\ IdleOK /\ SlotOK /\ TargetOK /\ YieldOK /\ CurrentOK /\ OwnOK /\ RunningIsCurrent /\ CellOK
      /\ PidsOK /\ PhaseOK /\ PrepOK /\ SwitchOK /\ MemOK /\ WaitOK /\ AddressSpaceOwned /\ Cr3Follows
  BY DEF MInv, IInv
<1>1. IInv'
  BY WaitCollectInv DEF MInv
<1> USE DEF WaitCollect, WaitReturns, At, Goto, table, memory, locals, drain
<1> Doomed' = Doomed
  BY DEF Doomed, Queued
<1>2. PidsOK'
  BY <1>0 DEF TypeOK, SlotOK, IdleOK, PidsOK
<1>3. PhaseOK'
  BY <1>0 DEF TypeOK, SlotOK, PhaseOK, PrepOK, InExitLoop, Live, TargetOK, CurrentOK, YieldOK, WaitOK, IdleOK
<1>4. PrepOK'
  BY SMTT(40), <1>0 DEF TypeOK, SlotOK, PrepOK, OwnOK, PidsOK, CurrentOK, IdleOK
<1>5. SwitchOK'
  BY <1>0 DEF TypeOK, SwitchOK, PhaseOK, PrepOK, InExitLoop, Ready
<1>6. MemOK'
  BY <1>0 DEF TypeOK, SlotOK, PidsOK, PhaseOK, PrepOK, MemOK, PastQueue, PastDestroy, InExitLoop, Live, CurrentOK, IdleOK, WaitOK
<1>7. WaitOK'
  BY <1>0 DEF TypeOK, SlotOK, IdleOK, WaitOK, None, AnyChild
<1>8. AddressSpaceOwned'
  BY <1>0 DEF TypeOK, SlotOK, PidsOK, PhaseOK, PrepOK, MemOK, AddressSpaceOwned, PastDestroy, InExitLoop, Live, WaitOK
<1>9. Cr3Follows'
  BY <1>0 DEF TypeOK, SlotOK, PidsOK, OwnOK, PhaseOK, PrepOK, MemOK, Live, WaitOK, Cr3Follows, PastDestroy, InExitLoop, Pml4Of, IdleOK
<1> QED
  BY <1>1, <1>2, <1>3, <1>4, <1>5, <1>6, <1>7, <1>8, <1>9 DEF MInv

\* No status found preserves the invariant.
LEMMA MemWaitMiss == ASSUME NEW c \in Ctx, MInv, WaitMiss(c) PROVE MInv'
<1>0. /\ TypeOK /\ IdleOK /\ SlotOK /\ TargetOK /\ YieldOK /\ CurrentOK /\ OwnOK /\ RunningIsCurrent /\ CellOK
      /\ PidsOK /\ PhaseOK /\ PrepOK /\ SwitchOK /\ MemOK /\ WaitOK /\ AddressSpaceOwned /\ Cr3Follows
  BY DEF MInv, IInv
<1>1. IInv'
  BY WaitMissInv DEF MInv
<1> USE DEF WaitMiss, WaitReturns, At, Goto, table, memory, locals, drain
<1> Doomed' = Doomed
  BY DEF Doomed, Queued
<1>2. PidsOK'
  BY <1>0 DEF TypeOK, SlotOK, IdleOK, PidsOK
<1>3. PhaseOK'
  BY <1>0 DEF TypeOK, SlotOK, PhaseOK, PrepOK, InExitLoop, Live, TargetOK, CurrentOK, YieldOK, WaitOK, IdleOK
<1>4. PrepOK'
  BY SMTT(90), <1>0 DEF TypeOK, SlotOK, PrepOK, OwnOK, PidsOK, CurrentOK, IdleOK
<1>5. SwitchOK'
  BY <1>0 DEF TypeOK, SwitchOK, PhaseOK, PrepOK, InExitLoop, Ready
<1>6. MemOK'
  BY <1>0 DEF TypeOK, SlotOK, PidsOK, PhaseOK, PrepOK, MemOK, PastQueue, PastDestroy, InExitLoop, Live, CurrentOK, IdleOK, WaitOK
<1>7. WaitOK'
  BY <1>0 DEF TypeOK, SlotOK, IdleOK, WaitOK, None, AnyChild
<1>8. AddressSpaceOwned'
  BY SMTT(90), <1>0 DEF TypeOK, SlotOK, PidsOK, PhaseOK, PrepOK, MemOK, AddressSpaceOwned, PastDestroy, InExitLoop, Live, WaitOK
<1>9. Cr3Follows'
  BY <1>0 DEF TypeOK, SlotOK, PidsOK, OwnOK, PhaseOK, PrepOK, MemOK, Live, WaitOK, Cr3Follows, PastDestroy, InExitLoop, Pml4Of, IdleOK
<1> QED
  BY <1>1, <1>2, <1>3, <1>4, <1>5, <1>6, <1>7, <1>8, <1>9 DEF MInv

\* The second scan of wait preserves the invariant.
LEMMA MemWaitFind == ASSUME NEW c \in Ctx, MInv, WaitFind(c) PROVE MInv'
<1>0. /\ TypeOK /\ IdleOK /\ SlotOK /\ TargetOK /\ YieldOK /\ CurrentOK /\ OwnOK /\ RunningIsCurrent /\ CellOK
      /\ PidsOK /\ PhaseOK /\ PrepOK /\ SwitchOK /\ MemOK /\ WaitOK /\ AddressSpaceOwned /\ Cr3Follows
  BY DEF MInv, IInv
<1>1. IInv'
  BY WaitFindInv DEF MInv
<1> USE DEF WaitFind, WaitReturns, At, Goto, table, memory, locals, drain
<1> Doomed' = Doomed
  BY DEF Doomed, Queued
<1>2. PidsOK'
  BY <1>0 DEF TypeOK, SlotOK, IdleOK, PidsOK
<1>3. PhaseOK'
  BY <1>0 DEF TypeOK, SlotOK, PhaseOK, PrepOK, InExitLoop, Live, TargetOK, CurrentOK, YieldOK, WaitOK, IdleOK
<1>4. PrepOK'
  BY SMTT(40), <1>0 DEF TypeOK, SlotOK, PrepOK, OwnOK, PidsOK, CurrentOK, IdleOK
<1>5. SwitchOK'
  BY <1>0 DEF TypeOK, SwitchOK, PhaseOK, PrepOK, InExitLoop, Ready
<1>6. MemOK'
  BY <1>0 DEF TypeOK, SlotOK, PidsOK, PhaseOK, PrepOK, MemOK, PastQueue, PastDestroy, InExitLoop, Live, CurrentOK, IdleOK, WaitOK
<1>7. WaitOK'
  BY <1>0 DEF TypeOK, SlotOK, IdleOK, WaitOK, None, AnyChild
<1>8. AddressSpaceOwned'
  BY SMTT(60), <1>0 DEF TypeOK, SlotOK, PidsOK, PhaseOK, PrepOK, MemOK, AddressSpaceOwned, PastDestroy, InExitLoop, Live, WaitOK
<1>9. Cr3Follows'
  BY <1>0 DEF TypeOK, SlotOK, PidsOK, OwnOK, PhaseOK, PrepOK, MemOK, Live, WaitOK, Cr3Follows, PastDestroy, InExitLoop, Pml4Of, IdleOK
<1> QED
  BY <1>1, <1>2, <1>3, <1>4, <1>5, <1>6, <1>7, <1>8, <1>9 DEF MInv

\* A block preserves the invariant.
LEMMA MemWaitBlock == ASSUME NEW c \in Ctx, MInv, WaitBlock(c) PROVE MInv'
<1>0. /\ TypeOK /\ IdleOK /\ SlotOK /\ TargetOK /\ YieldOK /\ CurrentOK /\ OwnOK /\ RunningIsCurrent /\ CellOK
      /\ PidsOK /\ PhaseOK /\ PrepOK /\ SwitchOK /\ MemOK /\ WaitOK /\ AddressSpaceOwned /\ Cr3Follows
  BY DEF MInv, IInv
<1>1. IInv'
  BY WaitBlockInv DEF MInv
<1> USE DEF WaitBlock, At, Goto, table, memory, locals, drain
<1> Doomed' = Doomed
  BY DEF Doomed, Queued
<1>2. PidsOK'
  BY <1>0 DEF TypeOK, SlotOK, IdleOK, PidsOK
<1>3. PhaseOK'
  BY <1>0 DEF TypeOK, SlotOK, PhaseOK, PrepOK, InExitLoop, Live, TargetOK, CurrentOK, YieldOK, WaitOK, IdleOK
<1>4. PrepOK'
  BY <1>0, SMTT(30) DEF TypeOK, SlotOK, PrepOK, OwnOK, PidsOK, CurrentOK, IdleOK
<1>5. SwitchOK'
  BY <1>0 DEF TypeOK, SwitchOK, PhaseOK, PrepOK, InExitLoop, Ready
<1>6. MemOK'
  BY <1>0 DEF TypeOK, SlotOK, PidsOK, PhaseOK, PrepOK, MemOK, PastQueue, PastDestroy, InExitLoop, Live, CurrentOK, IdleOK, WaitOK
<1>7. WaitOK'
  BY <1>0 DEF TypeOK, SlotOK, IdleOK, WaitOK, None, AnyChild
<1>8. AddressSpaceOwned'
  BY <1>0 DEF TypeOK, SlotOK, PidsOK, PhaseOK, PrepOK, MemOK, AddressSpaceOwned, PastDestroy, InExitLoop, Live, WaitOK
<1>9. Cr3Follows'
  BY <1>0 DEF TypeOK, SlotOK, PidsOK, OwnOK, PhaseOK, PrepOK, MemOK, Live, WaitOK, Cr3Follows, PastDestroy, InExitLoop, Pml4Of, IdleOK
<1> QED
  BY <1>1, <1>2, <1>3, <1>4, <1>5, <1>6, <1>7, <1>8, <1>9 DEF MInv

\* The scheduler's choice preserves the invariant.
LEMMA MemPickNextReady == ASSUME NEW c \in Ctx, MInv, PickNextReady(c) PROVE MInv'
<1>0. /\ TypeOK /\ IdleOK /\ SlotOK /\ TargetOK /\ YieldOK /\ CurrentOK /\ OwnOK /\ RunningIsCurrent /\ CellOK
      /\ PidsOK /\ PhaseOK /\ PrepOK /\ SwitchOK /\ MemOK /\ WaitOK /\ AddressSpaceOwned /\ Cr3Follows
  BY DEF MInv, IInv
<1>1. IInv'
  BY PickNextReadyInv DEF MInv
<1> USE DEF PickNextReady, PickWith, IsLowest, At, Goto, table, memory, locals, drain
<1> Doomed' = Doomed
  BY DEF Doomed, Queued
<1>2. PidsOK'
  BY <1>0 DEF TypeOK, SlotOK, IdleOK, PidsOK
<1>3. PhaseOK'
  BY <1>0 DEF TypeOK, SlotOK, PhaseOK, PrepOK, InExitLoop, Live, TargetOK, CurrentOK, YieldOK, WaitOK, IdleOK
<1>4. PrepOK'
  BY <1>0 DEF TypeOK, SlotOK, PrepOK, OwnOK, PidsOK, CurrentOK, IdleOK
<1>5. SwitchOK'
  BY <1>0 DEF TypeOK, SwitchOK, PhaseOK, PrepOK, InExitLoop, Ready
<1>6. MemOK'
  BY <1>0 DEF TypeOK, SlotOK, PidsOK, PhaseOK, PrepOK, MemOK, PastQueue, PastDestroy, InExitLoop, Live, CurrentOK, IdleOK, WaitOK
<1>7. WaitOK'
  BY <1>0 DEF TypeOK, SlotOK, IdleOK, WaitOK, None, AnyChild
<1>8. AddressSpaceOwned'
  BY <1>0 DEF TypeOK, SlotOK, PidsOK, PhaseOK, PrepOK, MemOK, AddressSpaceOwned, PastDestroy, InExitLoop, Live, WaitOK
<1>9. Cr3Follows'
  BY <1>0 DEF TypeOK, SlotOK, PidsOK, OwnOK, PhaseOK, PrepOK, MemOK, Live, WaitOK, Cr3Follows, PastDestroy, InExitLoop, Pml4Of, IdleOK
<1> QED
  BY <1>1, <1>2, <1>3, <1>4, <1>5, <1>6, <1>7, <1>8, <1>9 DEF MInv

\* Resuming from a yield preserves the invariant.
LEMMA MemResumed == ASSUME NEW c \in Ctx, MInv, Resumed(c) PROVE MInv'
<1>0. /\ TypeOK /\ IdleOK /\ SlotOK /\ TargetOK /\ YieldOK /\ CurrentOK /\ OwnOK /\ RunningIsCurrent /\ CellOK
      /\ PidsOK /\ PhaseOK /\ PrepOK /\ SwitchOK /\ MemOK /\ WaitOK /\ AddressSpaceOwned /\ Cr3Follows
  BY DEF MInv, IInv
<1>1. IInv'
  BY ResumedInv DEF MInv
<1> USE DEF Resumed, At, Goto, table, memory, locals, drain
<1> Doomed' \subseteq Doomed
  BY Cells, <1>0 DEF Doomed, Queued, TypeOK
<1>2. PidsOK'
  BY <1>0 DEF TypeOK, SlotOK, IdleOK, PidsOK
<1>3. PhaseOK'
  BY <1>0 DEF TypeOK, SlotOK, PhaseOK, PrepOK, InExitLoop, Live, TargetOK, CurrentOK, YieldOK, WaitOK, IdleOK
<1>4. PrepOK'
  <2>1. /\ pc[c] \notin PrepareLabels \cup {"none", "fresh"} /\ pc'[c] \notin PrepareLabels
        /\ \A d \in Ctx \ {c} : pc'[d] = pc[d]
        /\ UNCHANGED <<state, pid, pml4, slot>>
    BY <1>0 DEF TypeOK
  <2>2. \A d \in Ctx : pc[d] \in PrepareLabels => slot[d] \in Procs /\ pid[slot[d]] \in Pids
    BY <1>0 DEF SlotOK, TypeOK
  <2>3. \A d \in Ctx : pc[d] \in PrepareLabels => (pid[slot[d]] \in spaces' <=> pid[slot[d]] \in spaces)
    OBVIOUS
  <2>4. \A d \in Ctx : pc[d] = "publish" => pid[slot[d]] \in stacks'
    BY <1>0, <2>2 DEF PrepOK, MemOK, PastQueue, InExitLoop
  <2> HIDE DEF Resumed
  <2> QED
    BY <1>0, <2>1, <2>2, <2>3, <2>4 DEF PrepOK
<1>5. SwitchOK'
  BY <1>0 DEF TypeOK, SwitchOK, PhaseOK, PrepOK, InExitLoop, Ready
<1>6. MemOK'
  BY <1>0 DEF TypeOK, SlotOK, PidsOK, PhaseOK, PrepOK, MemOK, PastQueue, PastDestroy, InExitLoop, Live, CurrentOK, IdleOK, WaitOK
<1>7. WaitOK'
  BY <1>0 DEF TypeOK, SlotOK, IdleOK, WaitOK, None, AnyChild
<1>8. AddressSpaceOwned'
  BY <1>0 DEF TypeOK, SlotOK, PidsOK, PhaseOK, PrepOK, MemOK, AddressSpaceOwned, PastDestroy, InExitLoop, Live, WaitOK
<1>9. Cr3Follows'
  BY <1>0 DEF TypeOK, SlotOK, PidsOK, OwnOK, PhaseOK, PrepOK, MemOK, Live, WaitOK, Cr3Follows, PastDestroy, InExitLoop, Pml4Of, IdleOK
<1> QED
  BY <1>1, <1>2, <1>3, <1>4, <1>5, <1>6, <1>7, <1>8, <1>9 DEF MInv

\* Emptying a cell preserves the invariant.
LEMMA MemTake == ASSUME NEW c \in Ctx, MInv, Take(c) PROVE MInv'
<1>0. /\ TypeOK /\ IdleOK /\ SlotOK /\ TargetOK /\ YieldOK /\ CurrentOK /\ OwnOK /\ RunningIsCurrent /\ CellOK
      /\ PidsOK /\ PhaseOK /\ PrepOK /\ SwitchOK /\ MemOK /\ WaitOK /\ AddressSpaceOwned /\ Cr3Follows
  BY DEF MInv, IInv
<1>1. IInv'
  BY TakeInv DEF MInv
<1> USE DEF Take, At, Goto, table, memory, locals, drain
<1> Doomed' \subseteq Doomed
  BY <1>0 DEF Doomed, Queued, TypeOK, CellOK
<1>2. PidsOK'
  BY <1>0 DEF TypeOK, SlotOK, IdleOK, PidsOK
<1>3. PhaseOK'
  BY <1>0 DEF TypeOK, SlotOK, PhaseOK, PrepOK, InExitLoop, Live, TargetOK, CurrentOK, YieldOK, WaitOK, IdleOK
<1>4. PrepOK'
  <2>1. /\ pc[c] \notin PrepareLabels \cup {"none", "fresh"} /\ pc'[c] \notin PrepareLabels
        /\ \A d \in Ctx \ {c} : pc'[d] = pc[d]
        /\ UNCHANGED <<state, pid, pml4, slot>>
    BY <1>0 DEF TypeOK
  <2>2. \A d \in Ctx : pc[d] \in PrepareLabels => slot[d] \in Procs /\ pid[slot[d]] \in Pids
    BY <1>0 DEF SlotOK, TypeOK
  <2>3. \A d \in Ctx : pc[d] \in PrepareLabels => (pid[slot[d]] \in spaces' <=> pid[slot[d]] \in spaces)
    OBVIOUS
  <2>4. \A d \in Ctx : pc[d] = "publish" => pid[slot[d]] \in stacks'
    BY <1>0, <2>2 DEF PrepOK, MemOK, PastQueue, InExitLoop
  <2> HIDE DEF Take
  <2> QED
    BY <1>0, <2>1, <2>2, <2>3, <2>4 DEF PrepOK
<1>5. SwitchOK'
  BY <1>0 DEF TypeOK, SwitchOK, PhaseOK, PrepOK, InExitLoop, Ready
<1>6. MemOK'
  BY <1>0 DEF TypeOK, SlotOK, PidsOK, PhaseOK, PrepOK, MemOK, PastQueue, PastDestroy, InExitLoop, Live, CurrentOK, IdleOK, WaitOK
<1>7. WaitOK'
  BY <1>0 DEF TypeOK, SlotOK, IdleOK, WaitOK, None, AnyChild
<1>8. AddressSpaceOwned'
  BY <1>0 DEF TypeOK, SlotOK, PidsOK, PhaseOK, PrepOK, MemOK, AddressSpaceOwned, PastDestroy, InExitLoop, Live, WaitOK
<1>9. Cr3Follows'
  BY <1>0 DEF TypeOK, SlotOK, PidsOK, OwnOK, PhaseOK, PrepOK, MemOK, Live, WaitOK, Cr3Follows, PastDestroy, InExitLoop, Pml4Of, IdleOK
<1> QED
  BY <1>1, <1>2, <1>3, <1>4, <1>5, <1>6, <1>7, <1>8, <1>9 DEF MInv

\* Unmapping a stack preserves the invariant.
LEMMA MemReclaim == ASSUME NEW c \in Ctx, MInv, Reclaim(c) PROVE MInv'
<1>0. /\ TypeOK /\ IdleOK /\ SlotOK /\ TargetOK /\ YieldOK /\ CurrentOK /\ OwnOK /\ RunningIsCurrent /\ CellOK
      /\ PidsOK /\ PhaseOK /\ PrepOK /\ SwitchOK /\ MemOK /\ WaitOK /\ AddressSpaceOwned /\ Cr3Follows
  BY DEF MInv, IInv
<1>1. IInv'
  BY ReclaimInv DEF MInv
<1> USE DEF Reclaim, At, Goto, table, memory, locals, drain
<1> Doomed' \subseteq Doomed /\ stacks \ Doomed \subseteq stacks'
  BY <1>0 DEF Doomed, Queued, TypeOK
<1>2. PidsOK'
  BY <1>0 DEF TypeOK, SlotOK, IdleOK, PidsOK
<1>3. PhaseOK'
  BY <1>0 DEF TypeOK, SlotOK, PhaseOK, PrepOK, InExitLoop, Live, TargetOK, CurrentOK, YieldOK, WaitOK, IdleOK
<1>4. PrepOK'
  <2>1. /\ pc[c] \notin PrepareLabels \cup {"none", "fresh"} /\ pc'[c] \notin PrepareLabels
        /\ \A d \in Ctx \ {c} : pc'[d] = pc[d]
        /\ UNCHANGED <<state, pid, pml4, slot>>
    BY <1>0 DEF TypeOK
  <2>2. \A d \in Ctx : pc[d] \in PrepareLabels => slot[d] \in Procs /\ pid[slot[d]] \in Pids
    BY <1>0 DEF SlotOK, TypeOK
  <2>3. \A d \in Ctx : pc[d] \in PrepareLabels => (pid[slot[d]] \in spaces' <=> pid[slot[d]] \in spaces)
    OBVIOUS
  <2>4. \A d \in Ctx : pc[d] = "publish" => pid[slot[d]] \in stacks'
    BY <1>0, <2>2 DEF PrepOK, MemOK, PastQueue, InExitLoop
  <2> HIDE DEF Reclaim
  <2> QED
    BY <1>0, <2>1, <2>2, <2>3, <2>4 DEF PrepOK
<1>5. SwitchOK'
  BY <1>0 DEF TypeOK, SwitchOK, PhaseOK, PrepOK, InExitLoop, Ready
<1>6. MemOK'
  BY <1>0 DEF TypeOK, SlotOK, PidsOK, PhaseOK, PrepOK, MemOK, PastQueue, PastDestroy, InExitLoop, Live, CurrentOK, IdleOK, WaitOK
<1>7. WaitOK'
  BY <1>0 DEF TypeOK, SlotOK, IdleOK, WaitOK, None, AnyChild
<1>8. AddressSpaceOwned'
  BY <1>0 DEF TypeOK, SlotOK, PidsOK, PhaseOK, PrepOK, MemOK, AddressSpaceOwned, PastDestroy, InExitLoop, Live, WaitOK
<1>9. Cr3Follows'
  BY <1>0 DEF TypeOK, SlotOK, PidsOK, OwnOK, PhaseOK, PrepOK, MemOK, Live, WaitOK, Cr3Follows, PastDestroy, InExitLoop, Pml4Of, IdleOK
<1> QED
  BY <1>1, <1>2, <1>3, <1>4, <1>5, <1>6, <1>7, <1>8, <1>9 DEF MInv

\* The end of the drain preserves the invariant.
LEMMA MemYielded == ASSUME NEW c \in Ctx, MInv, Yielded(c) PROVE MInv'
<1>0. /\ TypeOK /\ IdleOK /\ SlotOK /\ TargetOK /\ YieldOK /\ CurrentOK /\ OwnOK /\ RunningIsCurrent /\ CellOK
      /\ PidsOK /\ PhaseOK /\ PrepOK /\ SwitchOK /\ MemOK /\ WaitOK /\ AddressSpaceOwned /\ Cr3Follows
  BY DEF MInv, IInv
<1>1. IInv'
  BY YieldedInv DEF MInv
<1> USE DEF Yielded, At, Goto, table, memory, locals, drain
<1> Doomed' = Doomed
  BY DEF Doomed, Queued
<1>2. PidsOK'
  BY <1>0 DEF TypeOK, SlotOK, IdleOK, PidsOK
<1>3. PhaseOK'
  BY <1>0 DEF TypeOK, SlotOK, PhaseOK, PrepOK, InExitLoop, Live, TargetOK, CurrentOK, YieldOK, WaitOK, IdleOK
<1>4. PrepOK'
  <2>1. /\ pc[c] \notin PrepareLabels \cup {"none", "fresh"} /\ pc'[c] \notin PrepareLabels
        /\ \A d \in Ctx \ {c} : pc'[d] = pc[d]
        /\ UNCHANGED <<state, pid, pml4, slot>>
    BY <1>0 DEF TypeOK
  <2>2. \A d \in Ctx : pc[d] \in PrepareLabels => slot[d] \in Procs /\ pid[slot[d]] \in Pids
    BY <1>0 DEF SlotOK, TypeOK
  <2>3. \A d \in Ctx : pc[d] \in PrepareLabels => (pid[slot[d]] \in spaces' <=> pid[slot[d]] \in spaces)
    OBVIOUS
  <2>4. \A d \in Ctx : pc[d] = "publish" => pid[slot[d]] \in stacks'
    BY <1>0, <2>2 DEF PrepOK, MemOK, PastQueue, InExitLoop
  <2> HIDE DEF Yielded
  <2> QED
    BY <1>0, <2>1, <2>2, <2>3, <2>4 DEF PrepOK
<1>5. SwitchOK'
  BY <1>0 DEF TypeOK, SwitchOK, PhaseOK, PrepOK, InExitLoop, Ready
<1>6. MemOK'
  BY <1>0 DEF TypeOK, SlotOK, PidsOK, PhaseOK, PrepOK, MemOK, PastQueue, PastDestroy, InExitLoop, Live, CurrentOK, IdleOK, WaitOK
<1>7. WaitOK'
  BY <1>0 DEF TypeOK, SlotOK, IdleOK, WaitOK, None, AnyChild
<1>8. AddressSpaceOwned'
  BY <1>0 DEF TypeOK, SlotOK, PidsOK, PhaseOK, PrepOK, MemOK, AddressSpaceOwned, PastDestroy, InExitLoop, Live, WaitOK
<1>9. Cr3Follows'
  BY <1>0 DEF TypeOK, SlotOK, PidsOK, OwnOK, PhaseOK, PrepOK, MemOK, Live, WaitOK, Cr3Follows, PastDestroy, InExitLoop, Pml4Of, IdleOK
<1> QED
  BY <1>1, <1>2, <1>3, <1>4, <1>5, <1>6, <1>7, <1>8, <1>9 DEF MInv

\* A first entry preserves the invariant.
LEMMA MemTrampoline == ASSUME NEW c \in Ctx, MInv, Trampoline(c) PROVE MInv'
<1>0. /\ TypeOK /\ IdleOK /\ SlotOK /\ TargetOK /\ YieldOK /\ CurrentOK /\ OwnOK /\ RunningIsCurrent /\ CellOK
      /\ PidsOK /\ PhaseOK /\ PrepOK /\ SwitchOK /\ MemOK /\ WaitOK /\ AddressSpaceOwned /\ Cr3Follows
  BY DEF MInv, IInv
<1>1. IInv'
  BY TrampolineInv DEF MInv
<1> USE DEF Trampoline, At, Goto, table, memory, locals, drain
<1> Doomed' = Doomed
  BY DEF Doomed, Queued
<1>2. PidsOK'
  BY <1>0 DEF TypeOK, SlotOK, IdleOK, PidsOK
<1>3. PhaseOK'
  BY <1>0 DEF TypeOK, SlotOK, PhaseOK, PrepOK, InExitLoop, Live, TargetOK, CurrentOK, YieldOK, WaitOK, IdleOK
<1>4. PrepOK'
  BY <1>0 DEF TypeOK, SlotOK, PrepOK, OwnOK, PidsOK, CurrentOK, IdleOK
<1>5. SwitchOK'
  BY <1>0 DEF TypeOK, SwitchOK, PhaseOK, PrepOK, InExitLoop, Ready
<1>6. MemOK'
  BY <1>0 DEF TypeOK, SlotOK, PidsOK, PhaseOK, PrepOK, MemOK, PastQueue, PastDestroy, InExitLoop, Live, CurrentOK, IdleOK, WaitOK
<1>7. WaitOK'
  BY <1>0 DEF TypeOK, SlotOK, IdleOK, WaitOK, None, AnyChild
<1>8. AddressSpaceOwned'
  BY <1>0 DEF TypeOK, SlotOK, PidsOK, PhaseOK, PrepOK, MemOK, AddressSpaceOwned, PastDestroy, InExitLoop, Live, WaitOK
<1>9. Cr3Follows'
  BY <1>0 DEF TypeOK, SlotOK, PidsOK, OwnOK, PhaseOK, PrepOK, MemOK, Live, WaitOK, Cr3Follows, PastDestroy, InExitLoop, Pml4Of, IdleOK
<1> QED
  BY <1>1, <1>2, <1>3, <1>4, <1>5, <1>6, <1>7, <1>8, <1>9 DEF MInv

\* A program's return preserves the invariant.
LEMMA MemUserExit == ASSUME NEW c \in Procs, MInv, UserExit(c) PROVE MInv'
<1>0. /\ TypeOK /\ IdleOK /\ SlotOK /\ TargetOK /\ YieldOK /\ CurrentOK /\ OwnOK /\ RunningIsCurrent /\ CellOK
      /\ PidsOK /\ PhaseOK /\ PrepOK /\ SwitchOK /\ MemOK /\ WaitOK /\ AddressSpaceOwned /\ Cr3Follows
  BY DEF MInv, IInv
<1>1. IInv'
  BY UserExitInv DEF MInv
<1> USE DEF UserExit, At, Goto, table, memory, locals, drain
<1> Doomed' = Doomed
  BY DEF Doomed, Queued
<1>2. PidsOK'
  BY <1>0 DEF TypeOK, SlotOK, IdleOK, PidsOK
<1>3. PhaseOK'
  BY <1>0 DEF TypeOK, SlotOK, PhaseOK, PrepOK, InExitLoop, Live, TargetOK, CurrentOK, YieldOK, WaitOK, IdleOK
<1>4. PrepOK'
  BY <1>0 DEF TypeOK, SlotOK, PrepOK, OwnOK, PidsOK, CurrentOK, IdleOK
<1>5. SwitchOK'
  BY <1>0 DEF TypeOK, SwitchOK, PhaseOK, PrepOK, InExitLoop, Ready
<1>6. MemOK'
  BY <1>0 DEF TypeOK, SlotOK, PidsOK, PhaseOK, PrepOK, MemOK, PastQueue, PastDestroy, InExitLoop, Live, CurrentOK, IdleOK, WaitOK
<1>7. WaitOK'
  BY <1>0 DEF TypeOK, SlotOK, IdleOK, WaitOK, None, AnyChild
<1>8. AddressSpaceOwned'
  BY <1>0 DEF TypeOK, SlotOK, PidsOK, PhaseOK, PrepOK, MemOK, AddressSpaceOwned, PastDestroy, InExitLoop, Live, WaitOK
<1>9. Cr3Follows'
  BY <1>0 DEF TypeOK, SlotOK, PidsOK, OwnOK, PhaseOK, PrepOK, MemOK, Live, WaitOK, Cr3Follows, PastDestroy, InExitLoop, Pml4Of, IdleOK
<1> QED
  BY <1>1, <1>2, <1>3, <1>4, <1>5, <1>6, <1>7, <1>8, <1>9 DEF MInv

\* Freeing the address space preserves the invariant.
LEMMA MemExitDestroy == ASSUME NEW c \in Ctx, MInv, ExitDestroy(c) PROVE MInv'
<1>0. /\ TypeOK /\ IdleOK /\ SlotOK /\ TargetOK /\ YieldOK /\ CurrentOK /\ OwnOK /\ RunningIsCurrent /\ CellOK
      /\ PidsOK /\ PhaseOK /\ PrepOK /\ SwitchOK /\ MemOK /\ WaitOK /\ AddressSpaceOwned /\ Cr3Follows
  BY DEF MInv, IInv
<1>1. IInv'
  BY ExitDestroyInv DEF MInv
<1> USE DEF ExitDestroy, At, Goto, table, memory, locals, drain
<1> Doomed' = Doomed
  BY DEF Doomed, Queued
<1>2. PidsOK'
  BY <1>0 DEF TypeOK, SlotOK, IdleOK, PidsOK
<1>3. PhaseOK'
  BY <1>0 DEF TypeOK, SlotOK, PhaseOK, PrepOK, InExitLoop, Live, TargetOK, CurrentOK, YieldOK, WaitOK, IdleOK
<1>4. PrepOK'
  <2>1. /\ pc[c] \notin PrepareLabels \cup {"none", "fresh"} /\ pc'[c] \notin PrepareLabels
        /\ \A d \in Ctx \ {c} : pc'[d] = pc[d]
        /\ UNCHANGED <<state, pid, pml4, slot>>
    BY <1>0 DEF TypeOK
  <2>2. \A d \in Ctx : pc[d] \in PrepareLabels => slot[d] \in Procs /\ pid[slot[d]] \in Pids
    BY <1>0 DEF SlotOK, TypeOK
  <2>3. \A d \in Ctx : pc[d] \in PrepareLabels => (pid[slot[d]] \in spaces' <=> pid[slot[d]] \in spaces)
    BY <1>0, <2>1, <2>2 DEF PrepOK, MemOK, PidsOK, PhaseOK, IdleOK, PastDestroy, InExitLoop, Live
  <2>4. \A d \in Ctx : pc[d] = "publish" => pid[slot[d]] \in stacks'
    BY <1>0 DEF PrepOK
  <2> HIDE DEF ExitDestroy
  <2> QED
    BY <1>0, <2>1, <2>2, <2>3, <2>4 DEF PrepOK
<1>5. SwitchOK'
  BY <1>0 DEF TypeOK, SwitchOK, PhaseOK, PrepOK, InExitLoop, Ready
<1>6. MemOK'
  BY SMTT(40), <1>0 DEF TypeOK, SlotOK, PidsOK, PhaseOK, PrepOK, MemOK, PastQueue, PastDestroy, InExitLoop, Live, CurrentOK, IdleOK, WaitOK
<1>7. WaitOK'
  BY <1>0 DEF TypeOK, SlotOK, IdleOK, WaitOK, None, AnyChild
<1>8. AddressSpaceOwned'
  BY <1>0 DEF TypeOK, SlotOK, PidsOK, PhaseOK, PrepOK, MemOK, AddressSpaceOwned, PastDestroy, InExitLoop, Live, WaitOK
<1>9. Cr3Follows'
  BY <1>0 DEF TypeOK, SlotOK, PidsOK, OwnOK, PhaseOK, PrepOK, MemOK, Live, WaitOK, Cr3Follows, PastDestroy, InExitLoop, Pml4Of, IdleOK
<1> QED
  BY <1>1, <1>2, <1>3, <1>4, <1>5, <1>6, <1>7, <1>8, <1>9 DEF MInv

\* Leaving the address space preserves the invariant.
LEMMA MemExitCr3 == ASSUME NEW c \in Ctx, MInv, ExitCr3(c) PROVE MInv'
<1>0. /\ TypeOK /\ IdleOK /\ SlotOK /\ TargetOK /\ YieldOK /\ CurrentOK /\ OwnOK /\ RunningIsCurrent /\ CellOK
      /\ PidsOK /\ PhaseOK /\ PrepOK /\ SwitchOK /\ MemOK /\ WaitOK /\ AddressSpaceOwned /\ Cr3Follows
  BY DEF MInv, IInv
<1>1. IInv'
  BY ExitCr3Inv DEF MInv
<1> USE DEF ExitCr3, At, Goto, table, memory, locals, drain
<1> Doomed' = Doomed
  BY DEF Doomed, Queued
<1>2. PidsOK'
  BY <1>0 DEF TypeOK, SlotOK, IdleOK, PidsOK
<1>3. PhaseOK'
  BY <1>0 DEF TypeOK, SlotOK, PhaseOK, PrepOK, InExitLoop, Live, TargetOK, CurrentOK, YieldOK, WaitOK, IdleOK
<1>4. PrepOK'
  BY <1>0 DEF TypeOK, SlotOK, PrepOK, OwnOK, PidsOK, CurrentOK, IdleOK
<1>5. SwitchOK'
  BY <1>0 DEF TypeOK, SwitchOK, PhaseOK, PrepOK, InExitLoop, Ready
<1>6. MemOK'
  BY <1>0 DEF TypeOK, SlotOK, PidsOK, PhaseOK, PrepOK, MemOK, PastQueue, PastDestroy, InExitLoop, Live, CurrentOK, IdleOK, WaitOK
<1>7. WaitOK'
  BY <1>0 DEF TypeOK, SlotOK, IdleOK, WaitOK, None, AnyChild
<1>8. AddressSpaceOwned'
  BY <1>0 DEF TypeOK, SlotOK, PidsOK, PhaseOK, PrepOK, MemOK, AddressSpaceOwned, PastDestroy, InExitLoop, Live, WaitOK
<1>9. Cr3Follows'
  BY <1>0 DEF TypeOK, SlotOK, PidsOK, OwnOK, PhaseOK, PrepOK, MemOK, Live, WaitOK, Cr3Follows, PastDestroy, InExitLoop, Pml4Of, IdleOK
<1> QED
  BY <1>1, <1>2, <1>3, <1>4, <1>5, <1>6, <1>7, <1>8, <1>9 DEF MInv

\* Forgetting the address space preserves the invariant.
LEMMA MemExitUnlink == ASSUME NEW c \in Ctx, MInv, ExitUnlink(c) PROVE MInv'
<1>0. /\ TypeOK /\ IdleOK /\ SlotOK /\ TargetOK /\ YieldOK /\ CurrentOK /\ OwnOK /\ RunningIsCurrent /\ CellOK
      /\ PidsOK /\ PhaseOK /\ PrepOK /\ SwitchOK /\ MemOK /\ WaitOK /\ AddressSpaceOwned /\ Cr3Follows
  BY DEF MInv, IInv
<1>1. IInv'
  BY ExitUnlinkInv DEF MInv
<1> USE DEF ExitUnlink, At, Goto, table, memory, locals, drain
<1> Doomed' = Doomed
  BY DEF Doomed, Queued
<1>2. PidsOK'
  BY <1>0 DEF TypeOK, SlotOK, IdleOK, PidsOK
<1>3. PhaseOK'
  BY <1>0 DEF TypeOK, SlotOK, PhaseOK, PrepOK, InExitLoop, Live, TargetOK, CurrentOK, YieldOK, WaitOK, IdleOK
<1>4. PrepOK'
  BY <1>0 DEF TypeOK, SlotOK, PrepOK, OwnOK, PidsOK, CurrentOK, IdleOK
<1>5. SwitchOK'
  BY <1>0 DEF TypeOK, SwitchOK, PhaseOK, PrepOK, InExitLoop, Ready
<1>6. MemOK'
  BY <1>0 DEF TypeOK, SlotOK, PidsOK, PhaseOK, PrepOK, MemOK, PastQueue, PastDestroy, InExitLoop, Live, CurrentOK, IdleOK, WaitOK
<1>7. WaitOK'
  BY <1>0 DEF TypeOK, SlotOK, IdleOK, WaitOK, None, AnyChild
<1>8. AddressSpaceOwned'
  BY <1>0 DEF TypeOK, SlotOK, PidsOK, PhaseOK, PrepOK, MemOK, AddressSpaceOwned, PastDestroy, InExitLoop, Live, WaitOK
<1>9. Cr3Follows'
  BY <1>0 DEF TypeOK, SlotOK, PidsOK, OwnOK, PhaseOK, PrepOK, MemOK, Live, WaitOK, Cr3Follows, PastDestroy, InExitLoop, Pml4Of, IdleOK
<1> QED
  BY <1>1, <1>2, <1>3, <1>4, <1>5, <1>6, <1>7, <1>8, <1>9 DEF MInv

\* Queueing the stack preserves the invariant.
LEMMA MemExitQueue == ASSUME NEW c \in Ctx, MInv, ExitQueue(c) PROVE MInv'
<1>0. /\ TypeOK /\ IdleOK /\ SlotOK /\ TargetOK /\ YieldOK /\ CurrentOK /\ OwnOK /\ RunningIsCurrent /\ CellOK
      /\ PidsOK /\ PhaseOK /\ PrepOK /\ SwitchOK /\ MemOK /\ WaitOK /\ AddressSpaceOwned /\ Cr3Follows
  BY DEF MInv, IInv
<1>1. IInv'
  BY ExitQueueInv DEF MInv
<1> USE DEF ExitQueue, At, Goto, table, memory, locals, drain
<1> Doomed' = Doomed
  BY DEF Doomed, Queued
<1>2. PidsOK'
  BY <1>0 DEF TypeOK, SlotOK, IdleOK, PidsOK
<1>3. PhaseOK'
  BY <1>0 DEF TypeOK, SlotOK, PhaseOK, PrepOK, InExitLoop, Live, TargetOK, CurrentOK, YieldOK, WaitOK, IdleOK
<1>4. PrepOK'
  BY SMTT(40), <1>0 DEF TypeOK, SlotOK, PrepOK, OwnOK, PidsOK, CurrentOK, IdleOK
<1>5. SwitchOK'
  BY <1>0 DEF TypeOK, SwitchOK, PhaseOK, PrepOK, InExitLoop, Ready
<1>6. MemOK'
  BY <1>0 DEF TypeOK, SlotOK, PidsOK, PhaseOK, PrepOK, MemOK, PastQueue, PastDestroy, InExitLoop, Live, CurrentOK, IdleOK, WaitOK
<1>7. WaitOK'
  BY <1>0 DEF TypeOK, SlotOK, IdleOK, WaitOK, None, AnyChild
<1>8. AddressSpaceOwned'
  BY <1>0 DEF TypeOK, SlotOK, PidsOK, PhaseOK, PrepOK, MemOK, AddressSpaceOwned, PastDestroy, InExitLoop, Live, WaitOK
<1>9. Cr3Follows'
  BY <1>0 DEF TypeOK, SlotOK, PidsOK, OwnOK, PhaseOK, PrepOK, MemOK, Live, WaitOK, Cr3Follows, PastDestroy, InExitLoop, Pml4Of, IdleOK
<1> QED
  BY <1>1, <1>2, <1>3, <1>4, <1>5, <1>6, <1>7, <1>8, <1>9 DEF MInv

\* The store to the empty cell preserves the invariant.
LEMMA MemExitStore == ASSUME NEW c \in Ctx, MInv, ExitStore(c) PROVE MInv'
<1>0. /\ TypeOK /\ IdleOK /\ SlotOK /\ TargetOK /\ YieldOK /\ CurrentOK /\ OwnOK /\ RunningIsCurrent /\ CellOK
      /\ PidsOK /\ PhaseOK /\ PrepOK /\ SwitchOK /\ MemOK /\ WaitOK /\ AddressSpaceOwned /\ Cr3Follows
  BY DEF MInv, IInv
<1>1. IInv'
  BY ExitStoreInv DEF MInv
<1> USE DEF ExitStore, StoreWith, At, Goto, table, memory, locals, drain
<1> Doomed' \subseteq Doomed \cup {pid[c]} /\ c \in Procs
  BY <1>0 DEF Doomed, Queued, TypeOK, IdleOK, CellOK
<1>2. PidsOK'
  BY <1>0 DEF TypeOK, SlotOK, IdleOK, PidsOK
<1>3. PhaseOK'
  BY <1>0 DEF TypeOK, SlotOK, PhaseOK, PrepOK, InExitLoop, Live, TargetOK, CurrentOK, YieldOK, WaitOK, IdleOK
<1>4. PrepOK'
  BY SMTT(40), <1>0 DEF TypeOK, SlotOK, PrepOK, OwnOK, PidsOK, CurrentOK, IdleOK
<1>5. SwitchOK'
  BY <1>0 DEF TypeOK, SwitchOK, PhaseOK, PrepOK, InExitLoop, Ready
<1>6. MemOK'
  BY <1>0 DEF TypeOK, SlotOK, PidsOK, PhaseOK, PrepOK, MemOK, PastQueue, PastDestroy, InExitLoop, Live, CurrentOK, IdleOK, WaitOK
<1>7. WaitOK'
  BY <1>0 DEF TypeOK, SlotOK, IdleOK, WaitOK, None, AnyChild
<1>8. AddressSpaceOwned'
  BY <1>0 DEF TypeOK, SlotOK, PidsOK, PhaseOK, PrepOK, MemOK, AddressSpaceOwned, PastDestroy, InExitLoop, Live, WaitOK
<1>9. Cr3Follows'
  BY <1>0 DEF TypeOK, SlotOK, PidsOK, OwnOK, PhaseOK, PrepOK, MemOK, Live, WaitOK, Cr3Follows, PastDestroy, InExitLoop, Pml4Of, IdleOK
<1> QED
  BY <1>1, <1>2, <1>3, <1>4, <1>5, <1>6, <1>7, <1>8, <1>9 DEF MInv

\* An exit preserves the invariant.
LEMMA MemExitProcess == ASSUME NEW c \in Ctx, MInv, ExitProcess(c) PROVE MInv'
<1>0. /\ TypeOK /\ IdleOK /\ SlotOK /\ TargetOK /\ YieldOK /\ CurrentOK /\ OwnOK /\ RunningIsCurrent /\ CellOK
      /\ PidsOK /\ PhaseOK /\ PrepOK /\ SwitchOK /\ MemOK /\ WaitOK /\ AddressSpaceOwned /\ Cr3Follows
  BY DEF MInv, IInv
<1>1. IInv'
  BY ExitProcessInv DEF MInv
<1>a. c \in Procs /\ pc[c] = "exit" /\ current = c /\ state[c] \in {"Ready", "Running"} /\ pid[c] \in Pids
  BY <1>0 DEF ExitProcess, At, IdleOK, PhaseOK, SlotOK, TypeOK
<1>b. /\ \A i \in Procs : state'[i] = IF i = c THEN "Exited" ELSE IF state[i] = "Blocked" /\ waitingFor[i] \in {pid[c], AnyChild} THEN "Ready" ELSE state[i]
      /\ pc' = [pc EXCEPT ![c] = "pick"] /\ target[c] = None
      /\ UNCHANGED <<pid, pml4, rsp, current, memory, target>>
  BY <1>0, <1>a DEF ExitProcess, Woken, Goto, locals, drain, TargetOK
<1> USE DEF ExitProcess, Woken, At, Goto, table, memory, locals, drain
<1> Doomed' = Doomed
  BY DEF Doomed, Queued
<1>2. PidsOK'
  BY <1>0 DEF TypeOK, SlotOK, IdleOK, PidsOK
<1>3. PhaseOK'
  BY <1>0 DEF TypeOK, SlotOK, PhaseOK, PrepOK, InExitLoop, Live, TargetOK, CurrentOK, YieldOK, WaitOK, IdleOK
<1>4. PrepOK'
  BY <1>0 DEF TypeOK, SlotOK, PrepOK, OwnOK, PidsOK, CurrentOK, IdleOK
<1>5. SwitchOK'
  BY <1>0 DEF TypeOK, SwitchOK, PhaseOK, PrepOK, InExitLoop, Ready
<1>6. MemOK'
  <2> HIDE DEF ExitProcess
  <2>1. \A i \in Procs : pc'[i] = (IF i = c THEN "pick" ELSE pc[i]) /\ (i # c => (Live(i)' <=> Live(i)))
    BY <1>0, <1>a, <1>b DEF TypeOK, Live
  <2>2. ASSUME NEW i \in Procs, i # c
        PROVE  (PastQueue(i)' <=> PastQueue(i)) /\ (PastDestroy(i)' <=> PastDestroy(i))
    BY <1>b, <2>1, <2>2 DEF PastQueue, PastDestroy, InExitLoop
  <2>3. PastQueue(c)' /\ PastDestroy(c)'
    BY <1>a, <1>b, <2>1 DEF PastQueue, PastDestroy, InExitLoop
  <2> QED
    BY <1>0, <1>a, <1>b, <2>1, <2>2, <2>3 DEF MemOK
<1>7. WaitOK'
  BY <1>0 DEF TypeOK, SlotOK, IdleOK, WaitOK, None, AnyChild
<1>8. AddressSpaceOwned'
  BY <1>0 DEF TypeOK, SlotOK, PidsOK, PhaseOK, PrepOK, MemOK, AddressSpaceOwned, PastDestroy, InExitLoop, Live, WaitOK
<1>9. Cr3Follows'
  BY <1>0, <1>a, <1>b DEF TypeOK, Cr3Follows, PastDestroy, InExitLoop
<1> QED
  BY <1>1, <1>2, <1>3, <1>4, <1>5, <1>6, <1>7, <1>8, <1>9 DEF MInv

-----------------------------------------------------------------------------
(* The steps that move the CPU, and spawn *)

\* What switch_to does to the memory of the contexts: it reclaims queued stacks
\* only, and a stack that is not mapped halts the machine.
LEMMA SwitchMem ==
  ASSUME NEW n \in Ctx, NEW st, NEW isr, SwitchTo(n, st, isr)
  PROVE  /\ cr3' = Pml4Of(n)
         /\ stacks \ Queued \subseteq stacks' /\ stacks' \subseteq stacks /\ Queued' \subseteq Queued
         /\ ~halted' /\ n # Idle => rsp[n] \in stacks
  BY DEF SwitchTo, Queued

\* A slot that is neither alive nor being prepared has no context but one that
\* loops in exit_and_yield.
LEMMA NotLive ==
  ASSUME TypeOK, YieldOK, PhaseOK, NEW i \in Procs, ~Live(i), state[i] # "Loading"
  PROVE  pc[i] = "none" \/ InExitLoop(i)
<1>1. pc[i] \in Labels \ {"shell", "runDone", "fresh"} /\ pc[i] \notin MidLabels
  BY DEF PhaseOK, TypeOK, Live
<1>2. pc[i] \in {"none", "pick", "switch"} \cup BackLabels
  BY <1>1 DEF Labels
<1>3. pc[i] # "none" => target[i] = None
  BY <1>2 DEF PhaseOK, YieldOK, Live
<1> QED
  BY <1>2, <1>3 DEF InExitLoop

\* The timer tick preserves the invariant: a context that loops in exit_and_yield
\* is not preempted, since nobody is Ready when it runs.
LEMMA MemTick == ASSUME MInv, Tick PROVE MInv'
<1>0. /\ TypeOK /\ IdleOK /\ SlotOK /\ TargetOK /\ YieldOK /\ CurrentOK /\ OwnOK /\ RunningIsCurrent /\ CellOK
      /\ PidsOK /\ PhaseOK /\ PrepOK /\ SwitchOK /\ MemOK /\ WaitOK /\ AddressSpaceOwned /\ Cr3Follows
  BY DEF MInv, IInv
<1>1. IInv'
  BY TickInv DEF MInv
<1> DEFINE st == IF current = Idle THEN state ELSE [state EXCEPT ![current] = "Ready"]
<1>a. st \in [Procs -> States] /\ inIsr \cup {current} \in SUBSET Ctx
  BY <1>0 DEF TypeOK, States
<1>b. PICK n \in Procs : state[n] = "Ready" /\ SwitchTo(n, st, inIsr \cup {current})
  BY DEF Tick, IsLowest, Ready
<1>c. /\ UNCHANGED <<pc, target, slot, next, pid, pml4, rsp, nextPid, spaces>>
      /\ ~halted /\ (current \in Procs => state[current] = "Running") /\ current' = n
      /\ cr3' = pml4[n] /\ stacks \ Doomed \subseteq stacks' /\ stacks' \subseteq stacks /\ Doomed' \subseteq Doomed
      /\ state' = [i \in Procs |-> IF i = n THEN "Running" ELSE st[i]]
  BY <1>0, <1>a, <1>b, SwitchFacts, SwitchMem DEF Tick, Preemptible, locals, drain, Pml4Of, Doomed
<1> HIDE DEF st
<1>d. \A i \in Procs : state'[i] = IF i = n THEN "Running" ELSE IF i = current THEN "Ready" ELSE state[i]
  BY <1>0, <1>c DEF st, TypeOK
<1>e. /\ \A i \in Procs : (Live(i)' <=> Live(i)) /\ (state'[i] = "Loading" <=> state[i] = "Loading")
      /\ \A c \in Ctx : (InExitLoop(c)' <=> InExitLoop(c)) /\ (PastQueue(c)' <=> PastQueue(c))
                        /\ (PastDestroy(c)' <=> PastDestroy(c))
  BY <1>b, <1>c, <1>d DEF Live, InExitLoop, PastQueue, PastDestroy
<1>f. \A i \in Procs : pc[i] \notin {"pick", "switch"} /\ (InExitLoop(i) => i # current /\ i # n)
  <2>1. Ready # {} /\ current # n
    BY <1>0, <1>b, <1>c DEF Ready
  <2> QED
    BY <1>0, <1>b, <1>c, <2>1 DEF PhaseOK, YieldOK, SwitchOK, InExitLoop
<1>2. PidsOK'
  BY <1>0, <1>c DEF PidsOK
<1>3. PhaseOK'
  BY <1>0, <1>b, <1>c, <1>d, <1>e, <1>f DEF PhaseOK
<1>4. PrepOK'
  <2>1. \A c \in Ctx : pc[c] \in PrepareLabels => slot[c] \in Procs
    BY <1>0 DEF SlotOK
  <2>2. \A c \in Ctx : pc[c] = "publish" => pid[slot[c]] \in stacks'
    BY <1>0, <1>c, <2>1 DEF PrepOK, MemOK, PastQueue, InExitLoop
  <2> QED
    BY <1>0, <1>c, <1>e, <2>1, <2>2 DEF PrepOK
<1>5. SwitchOK'
  BY <1>0, <1>c, <1>e, <1>f DEF SwitchOK
<1>6. MemOK'
  BY <1>0, <1>c, <1>e DEF MemOK
<1>7. WaitOK'
  BY <1>0, <1>c DEF WaitOK
<1>8. AddressSpaceOwned'
  BY <1>0, <1>c, <1>e DEF AddressSpaceOwned
<1>9. Cr3Follows'
  BY <1>0, <1>b, <1>c, <1>e DEF Cr3Follows, MemOK, Live, Pml4Of
<1> QED
  BY <1>1, <1>2, <1>3, <1>4, <1>5, <1>6, <1>7, <1>8, <1>9 DEF MInv

\* A voluntary switch preserves the invariant: the context it goes to is Ready, or
\* the console chose it long ago and it is Blocked, looping in exit_and_yield, or
\* has no stack to run on.
LEMMA MemSwitch == ASSUME NEW c \in Ctx, MInv, Switch(c) PROVE MInv'
<1>0. /\ TypeOK /\ IdleOK /\ SlotOK /\ TargetOK /\ YieldOK /\ CurrentOK /\ OwnOK /\ RunningIsCurrent /\ CellOK
      /\ PidsOK /\ PhaseOK /\ PrepOK /\ SwitchOK /\ MemOK /\ WaitOK /\ AddressSpaceOwned /\ Cr3Follows
  BY DEF MInv, IInv
<1>1. IInv'
  BY SwitchInv DEF MInv
<1>a. PICK n \in Ctx : n = next[c]
  BY <1>0 DEF TypeOK
<1>b. SwitchTo(n, state, inIsr)
  BY <1>a DEF Switch
<1>c. /\ UNCHANGED <<target, slot, pid, pml4, rsp, nextPid, spaces>>
      /\ ~halted /\ current = c /\ pc[c] = "switch" /\ current' = n
      /\ pc' = [pc EXCEPT ![c] = "resumed"]
      /\ cr3' = Pml4Of(n) /\ stacks \ Doomed \subseteq stacks' /\ stacks' \subseteq stacks /\ Doomed' \subseteq Doomed
      /\ ~halted' /\ n # Idle => rsp[n] \in stacks
      /\ state' = [i \in Procs |-> IF i = n THEN "Running" ELSE state[i]]
  BY <1>0, <1>b, SwitchFacts, SwitchMem DEF Switch, At, Goto, TypeOK, drain, Doomed
<1>d. /\ \A d \in Ctx : pc'[d] = IF d = c THEN "resumed" ELSE pc[d]
      /\ \A d \in Ctx : (InExitLoop(d)' <=> InExitLoop(d)) /\ (PastQueue(d)' <=> PastQueue(d))
                        /\ (PastDestroy(d)' <=> PastDestroy(d))
  BY <1>0, <1>c DEF TypeOK, InExitLoop, PastQueue, PastDestroy
<1>e. c \in Procs => n # c /\ n \in Ready \cup {Idle} /\ ~(state[c] = "Ready")
  BY <1>0, <1>a, <1>c DEF SwitchOK, PhaseOK, YieldOK, InExitLoop, Ready
<1>f. n \in Procs => state[n] # "Loading"
  <2> SUFFICES ASSUME n \in Procs, state[n] = "Loading" PROVE FALSE
    OBVIOUS
  <2>1. Ready = {} /\ c = Idle
    BY <1>0, <1>a, <1>c, <1>e DEF SwitchOK, Ready
  <2>2. PICK d \in Ctx : pc[d] \in PrepareLabels
    BY <1>0 DEF PrepOK
  <2> QED
    BY <1>0, <1>c, <2>1, <2>2 DEF PhaseOK, RunningIsCurrent, InExitLoop, Ready
<1>g. n \in Procs /\ ~halted' => pc[n] # "none" /\ (Live(n) \/ InExitLoop(n))
  <2>1. 0 \notin stacks
    BY <1>0 DEF TypeOK
  <2>2. n \in Procs /\ ~halted' => pc[n] # "none"
    BY <1>0, <1>c, <2>1 DEF MemOK
  <2> QED
    BY <1>0, <1>f, <2>2, NotLive
<1>h. n \in Procs => n # c /\ pc[n] \notin {"pick", "switch"}
  BY <1>0, <1>c, <1>e DEF PhaseOK
<1>i. \A i \in Procs : i # n => state'[i] = state[i] /\ (Live(i)' <=> Live(i))
  BY <1>c DEF Live
<1>j. n \in Procs => state'[n] = "Running" /\ Live(n)'
  BY <1>c DEF Live
<1>2. PidsOK'
  BY <1>0, <1>c DEF PidsOK
<1>3. PhaseOK'
  <2>1. ASSUME NEW i \in Procs, i = c
        PROVE  InExitLoop(i) => state'[i] \in {"Exited", "Running"}
    BY <1>0, <1>e, <1>i, <2>1 DEF PhaseOK
  <2>2. ASSUME NEW i \in Procs, i = c, target[i] # None PROVE Live(i)'
    BY <1>0, <1>c, <1>e, <1>i, <2>2 DEF YieldOK, Live
  <2>3. ASSUME NEW i \in Procs, i # c PROVE pc[i] \notin {"pick", "switch"}
    BY <1>0, <1>c, <2>3 DEF PhaseOK
  <2> QED
    BY <1>0, <1>c, <1>d, <1>g, <1>h, <1>i, <1>j, <2>1, <2>2, <2>3 DEF PhaseOK
<1>4. PrepOK'
  <2>1. \A d \in Ctx : pc[d] \in PrepareLabels => slot[d] \in Procs /\ slot[d] # n
    BY <1>0, <1>f DEF SlotOK, PrepOK
  <2>2. \A d \in Ctx : pc[d] = "publish" => pid[slot[d]] \in stacks'
    BY <1>0, <1>c, <2>1 DEF PrepOK, MemOK, PastQueue, InExitLoop
  <2>3. \A d \in Ctx : pc[d] \in PrepareLabels => slot[d] # c
    BY <1>0, <1>c DEF PrepOK
  <2>4. \A i \in Procs : state'[i] = "Loading" => state[i] = "Loading"
    BY <1>i, <1>j
  <2> QED
    BY <1>0, <1>c, <1>d, <1>i, <2>1, <2>2, <2>3, <2>4 DEF PrepOK
<1>5. SwitchOK'
  <2>1. n = Idle \/ n \notin Ready => Ready = {}
    BY <1>0, <1>a, <1>c DEF SwitchOK, Ready
  <2>2. Ready' \subseteq Ready
    BY <1>i, <1>j DEF Ready
  <2>3. n \in Ready => ~InExitLoop(n)
    BY <1>0 DEF PhaseOK, Ready
  <2>4. \A d \in Procs : pc'[d] # "switch"
    BY <1>0, <1>c, <1>d DEF PhaseOK
  <2> QED
    BY <1>c, <1>d, <2>1, <2>2, <2>3, <2>4 DEF SwitchOK
<1>6. MemOK'
  <2>1. ASSUME NEW i \in Procs, Live(i)', ~halted', ~PastQueue(i) \/ ~PastDestroy(i) PROVE Live(i)
    BY <1>g, <1>i, <2>1 DEF PastQueue, PastDestroy
  <2>2. \A i \in Procs : (pc'[i] = "none" <=> pc[i] = "none")
    BY <1>c, <1>d
  <2> QED
    BY <1>0, <1>c, <1>d, <2>1, <2>2 DEF MemOK
<1>7. WaitOK'
  BY <1>0, <1>c, <1>d DEF WaitOK
<1>8. AddressSpaceOwned'
  BY <1>0, <1>c, <1>d, <1>i, <1>j DEF AddressSpaceOwned
<1>9. Cr3Follows'
  BY <1>0, <1>c, <1>d, <1>g DEF Cr3Follows, MemOK, Pml4Of, PastDestroy
<1> QED
  BY <1>1, <1>2, <1>3, <1>4, <1>5, <1>6, <1>7, <1>8, <1>9 DEF MInv

\* A spawn preserves the invariant: the slot it takes is empty or a reaped zombie.
LEMMA MemSpawn ==
  ASSUME NEW c \in Ctx, MInv, ~halted, current = c, ProcessSpawn(c),
         IF c = Idle THEN pc[c] = "shell" ELSE pc[c] = "user"
  PROVE  MInv'
<1>0. /\ TypeOK /\ IdleOK /\ SlotOK /\ TargetOK /\ YieldOK /\ CurrentOK /\ OwnOK /\ RunningIsCurrent /\ CellOK
      /\ PidsOK /\ PhaseOK /\ PrepOK /\ SwitchOK /\ MemOK /\ WaitOK /\ AddressSpaceOwned /\ Cr3Follows
  BY DEF MInv, IInv
<1>1. IInv'
  BY SpawnInv DEF MInv
<1>a. /\ nextPid \in Pids /\ nextPid' = nextPid + 1 /\ UNCHANGED <<current, cr3, spaces, stacks, pending, halted>>
      /\ \A p \in 0 .. PidBound : p < nextPid => p < nextPid + 1 /\ p # nextPid
  BY <1>0, SchedulerAssumption DEF ProcessSpawn, memory, TypeOK, Pids
<1>b. \A i \in Procs : pid[i] \in 0 .. PidBound /\ pid[i] < nextPid /\ pid[i] # nextPid
  BY <1>0, <1>a DEF TypeOK, PidsOK
<1>c. \A p \in spaces \cup stacks \cup Doomed : p < nextPid + 1 /\ p # nextPid
  BY <1>0, <1>a DEF TypeOK, PidsOK, Doomed, Queued
<1>2. CASE UNCHANGED <<table, pc, target, slot, next, drain, inIsr>>
  <2> USE <1>0, <1>2, <1>a DEF table, drain
  <2> Doomed' = Doomed
    BY DEF Doomed, Queued
  <2>1. PidsOK'
    BY <1>b, <1>c DEF PidsOK
  <2>2. PhaseOK' /\ PrepOK' /\ SwitchOK'
    BY DEF PhaseOK, PrepOK, SwitchOK, InExitLoop, Live, Ready
  <2>3. MemOK' /\ WaitOK'
    BY DEF MemOK, WaitOK, InExitLoop, Live, PastQueue, PastDestroy
  <2>4. AddressSpaceOwned' /\ Cr3Follows'
    BY DEF AddressSpaceOwned, Cr3Follows, InExitLoop, Live, PastDestroy, Pml4Of
  <2> QED
    BY <1>1, <2>1, <2>2, <2>3, <2>4 DEF MInv
<1>3. ASSUME NEW i \in Procs, IsLowest(i, Claimable), Claim(c, i) PROVE MInv'
  <2>a. state[i] \in {"Empty", "Exited", "Failed"}
    BY <1>3 DEF IsLowest, Claimable, EmptySlots, ReapableSlots, Zombie
  <2>b. i # c /\ pc[i] \notin MidLabels /\ ~Live(i)
    BY <1>0, <2>a DEF CurrentOK, PhaseOK, Live
  <2>c. /\ \A d \in Ctx : pc'[d] = IF d = i THEN "none" ELSE IF d = c THEN "claimed" ELSE pc[d]
        /\ \A d \in Ctx : slot'[d] = IF d = i THEN Idle ELSE IF d = c THEN i ELSE slot[d]
        /\ \A d \in Ctx : target'[d] = IF d = i THEN None ELSE target[d]
        /\ \A d \in Ctx : d # i => next'[d] = next[d]
    BY <1>0, <1>3, <2>b DEF Claim, ClaimWith, TypeOK
  <2>d. /\ \A j \in Procs : state'[j] = IF j = i THEN "Loading" ELSE state[j]
        /\ \A j \in Procs : pid'[j] = IF j = i THEN nextPid ELSE pid[j]
        /\ \A j \in Procs : pml4'[j] = IF j = i THEN 0 ELSE pml4[j]
        /\ \A j \in Procs : rsp'[j] = IF j = i THEN 0 ELSE rsp[j]
    BY <1>0, <1>3 DEF Claim, ClaimWith, TypeOK
  <2>e. /\ \A d \in Ctx : d # i /\ d # c =>
             (InExitLoop(d)' <=> InExitLoop(d)) /\ (PastQueue(d)' <=> PastQueue(d)) /\ (PastDestroy(d)' <=> PastDestroy(d))
        /\ \A d \in {c, i} : ~InExitLoop(d)' /\ ~PastQueue(d)' /\ ~PastDestroy(d)'
        /\ ~InExitLoop(c) /\ ~PastQueue(c) /\ ~PastDestroy(c)
    BY <2>b, <2>c DEF InExitLoop, PastQueue, PastDestroy
  <2>f. \A j \in Procs : (Live(j)' <=> Live(j))
    BY <2>b, <2>d DEF Live
  <2> Doomed' \subseteq Doomed
    BY <1>0, <1>3, <1>a DEF Claim, ClaimWith, Doomed, Queued, TypeOK
  <2>g. Ready' = Ready
    BY <2>a, <2>d DEF Ready
  <2>2. PidsOK'
    <3>1. ASSUME NEW j \in Procs PROVE pid'[j] < nextPid'
      <4>1. pid'[j] = nextPid \/ pid'[j] = pid[j]
        BY <2>d
      <4>2. pid[j] < nextPid + 1 /\ nextPid < nextPid + 1 /\ nextPid' = nextPid + 1
        BY <1>a, <1>b DEF Pids
      <4> QED
        BY <4>1, <4>2
    <3>2. ASSUME NEW j \in Procs, NEW k \in Procs, pid'[j] = pid'[k], pid'[j] # 0 PROVE j = k
      BY <1>0, <1>b, <2>d, <3>2 DEF PidsOK
    <3>3. \A p \in (spaces \cup stacks \cup Doomed)' : p < nextPid'
      BY <1>a, <1>c
    <3> QED
      BY <3>1, <3>2, <3>3 DEF PidsOK
  <2>3. PhaseOK'
    BY <1>0, <1>a, <2>b, <2>c, <2>d, <2>e, <2>f DEF PhaseOK
  <2>4. PrepOK'
    <3>1. \A d \in Ctx : pc[d] \in PrepareLabels => d # i /\ d # c /\ slot[d] \in Procs /\ slot[d] # i /\ slot[d] # c
      BY <1>0, <2>a, <2>b DEF PrepOK, SlotOK
    <3>2. \A d \in Ctx : pc'[d] \in PrepareLabels => d = c \/ (d # i /\ pc[d] \in PrepareLabels)
      BY <2>c
    <3>3. nextPid \notin spaces
      BY <1>c
    <3>4. \A j \in Procs : state'[j] = "Loading" => j = i \/ state[j] = "Loading"
      BY <2>d
    <3> QED
      BY <1>0, <1>a, <2>b, <2>c, <2>d, <3>1, <3>2, <3>3, <3>4 DEF PrepOK
  <2>5. SwitchOK'
    <3>1. \A d \in Procs : pc[d] # "switch"
      BY <1>0 DEF PhaseOK
    <3> QED
      BY <1>0, <1>a, <2>b, <2>c, <2>e, <2>g, <3>1 DEF SwitchOK
  <2>6. MemOK'
    <3>1. nextPid \notin Doomed /\ ~Live(i)'
      BY <1>c, <2>b, <2>f
    <3>2. ASSUME NEW j \in Procs, j # i
          PROVE /\ pid'[j] = pid[j] /\ rsp'[j] = rsp[j] /\ pml4'[j] = pml4[j] /\ (pc'[j] = "none" <=> pc[j] = "none")
                /\ (PastQueue(j)' <=> PastQueue(j)) /\ (PastDestroy(j)' <=> PastDestroy(j))
      BY <2>c, <2>d, <2>e, <3>2
    <3> QED
      BY <1>0, <1>a, <2>c, <2>d, <2>f, <3>1, <3>2 DEF MemOK
  <2>7. WaitOK'
    BY <1>0, <2>b, <2>c DEF WaitOK
  <2>8. AddressSpaceOwned'
    <3>1. ASSUME NEW j \in Procs, state[j] = "Loading" \/ Live(j), ~PastDestroy(j)
          PROVE  pid'[j] = pid[j] /\ (state'[j] = "Loading" \/ Live(j)') /\ ~PastDestroy(j)'
      BY <2>a, <2>b, <2>d, <2>e, <2>f, <3>1
    <3> QED
      BY <1>0, <1>a, <3>1 DEF AddressSpaceOwned
  <2>9. Cr3Follows'
    BY <1>0, <1>a, <2>b, <2>c, <2>d, <2>e DEF Cr3Follows, Pml4Of
  <2> QED
    BY <1>1, <2>2, <2>3, <2>4, <2>5, <2>6, <2>7, <2>8, <2>9 DEF MInv
<1> QED
  BY <1>2, <1>3 DEF ProcessSpawn

-----------------------------------------------------------------------------
\* The initial state satisfies the invariant.
LEMMA MemInit == Init => MInv
<1> SUFFICES ASSUME Init PROVE MInv
  OBVIOUS
<1>1. IInv
  BY InitInv
<1> USE DEF Init
<1> Doomed = {}
  BY Cells DEF Doomed, Queued
<1>2. PidsOK /\ PhaseOK /\ PrepOK
  BY DEF PidsOK, PhaseOK, PrepOK, InExitLoop, Live
<1>3. SwitchOK /\ MemOK /\ WaitOK
  BY DEF SwitchOK, MemOK, WaitOK, InExitLoop, Live, PastQueue, PastDestroy
<1>4. AddressSpaceOwned /\ Cr3Follows
  BY DEF AddressSpaceOwned, Cr3Follows, Pml4Of
<1> QED
  BY <1>1, <1>2, <1>3, <1>4 DEF MInv

\* A stuttering step preserves the invariant.
LEMMA MemStutter == MInv /\ UNCHANGED vars => MInv'
<1> SUFFICES ASSUME MInv, UNCHANGED vars PROVE MInv'
  OBVIOUS
<1>0. /\ IInv /\ PidsOK /\ PhaseOK /\ PrepOK /\ SwitchOK /\ MemOK /\ WaitOK /\ AddressSpaceOwned /\ Cr3Follows
  BY DEF MInv
<1>1. IInv'
  BY <1>0, NextInv
<1> USE <1>0 DEF vars, table, memory, locals, drain, InExitLoop, Live, PastQueue, PastDestroy
<1> Doomed' = Doomed
  BY DEF Doomed, Queued
<1>2. PidsOK' /\ PhaseOK' /\ PrepOK'
  BY DEF PidsOK, PhaseOK, PrepOK
<1>3. SwitchOK' /\ MemOK' /\ WaitOK'
  BY DEF SwitchOK, MemOK, WaitOK, Ready
<1>4. AddressSpaceOwned' /\ Cr3Follows'
  BY DEF AddressSpaceOwned, Cr3Follows, Pml4Of
<1> QED
  BY <1>1, <1>2, <1>3, <1>4 DEF MInv

\* Every step preserves the invariant.
LEMMA MemNext == MInv /\ [Next]_vars => MInv'
<1> SUFFICES ASSUME MInv, [Next]_vars PROVE MInv'
  OBVIOUS
<1>1. CASE ShellStep
  <2>1. CASE RunProgram
    BY <2>1, MemSpawn DEF RunProgram, At
  <2> QED
    BY <1>1, <2>1, MemRunNotFound, MemRunDone, MemShellWait DEF ShellStep
<1>2. ASSUME NEW c \in Ctx, KernelStep(c) PROVE MInv'
  BY <1>2, MemPrepareSpace, MemPrepareSpaceFails, MemLoadElf, MemLoadElfFails,
     MemCreateStack, MemCreateStackFails, MemPublish, MemWaitTest, MemWaitCollect,
     MemWaitMiss, MemWaitFind, MemWaitBlock, MemPickNextReady, MemSwitch,
     MemResumed, MemTake, MemReclaim, MemYielded, MemTrampoline, MemExitDestroy, MemExitCr3, MemExitUnlink,
     MemExitQueue, MemExitStore, MemExitProcess
  DEF KernelStep
<1>3. ASSUME NEW c \in Procs, UserStep(c) PROVE MInv'
  <2>1. CASE UserSpawn(c)
    BY <2>1, MemSpawn DEF UserSpawn, At
  <2> QED
    BY <1>3, <2>1, MemUserWait, MemUserExit DEF UserStep
<1> QED
  BY <1>1, <1>2, <1>3, MemTick, MemStutter DEF Next

\* The memory invariant holds in every reachable state, wherever ticks fall.
THEOREM MemoryHolds == Spec => []MInv
  BY MemInit, MemNext, PTL DEF Spec

\* pick_next_ready never finds a slot whose context is not built, for every
\* PROCESS_COUNT and wherever ticks fall.
THEOREM ReadyIsRunnable == Spec => []ReadyHasContext
<1>1. MInv => ReadyHasContext
  <2> SUFFICES ASSUME MInv, NEW i \in Procs, state[i] = "Ready" PROVE rsp[i] = pid[i] /\ pc[i] # "none"
    BY DEF ReadyHasContext
  <2>1. PhaseOK /\ MemOK
    BY DEF MInv
  <2> QED
    BY <2>1 DEF PhaseOK, MemOK
<1> QED
  BY <1>1, MemoryHolds, PTL

\* The deferred reclaim never unmaps the stack of a process that has not queued
\* it, for every PROCESS_COUNT and wherever ticks fall.
THEOREM StacksHeld == Spec => []LiveStackMapped
<1>1. MInv => LiveStackMapped
  BY DEF MInv, MemOK, LiveStackMapped
<1> QED
  BY <1>1, MemoryHolds, PTL

\* No path of prepare_process or of the trampoline's tail leaks an address
\* space, for every PROCESS_COUNT and wherever ticks fall.
THEOREM SpacesOwned == Spec => []AddressSpaceOwned
<1>1. MInv => AddressSpaceOwned
  BY DEF MInv
<1> QED
  BY <1>1, MemoryHolds, PTL

\* The running context executes on its own, allocated address space, or on that of the
\* child it loads, for every PROCESS_COUNT and wherever ticks fall.
THEOREM Cr3Holds == Spec => []Cr3Follows
<1>1. MInv => Cr3Follows
  BY DEF MInv
<1> QED
  BY <1>1, MemoryHolds, PTL

\* CURRENT_PROCESS_INDEX is moved by switch_to alone, which a tick and a yield call.
LEMMA CpuMoves == ASSUME Next, current' # current PROVE Tick \/ \E c \in Ctx : Switch(c)
<1>1. ~ShellStep
  BY DEF ShellStep, RunProgram, RunNotFound, ShellWait, RunDone, ProcessSpawn
<1>2. ASSUME NEW c \in Procs PROVE ~UserStep(c)
  BY DEF UserStep, UserSpawn, UserWait, UserExit, ProcessSpawn
<1>3. ASSUME NEW c \in Ctx, KernelStep(c) PROVE Switch(c)
  <2>1. ~PrepareFails(c)
    BY DEF PrepareFails, PrepareFailsWith
  <2>2. ~(PrepareSpace(c) \/ LoadElf(c) \/ CreateStack(c) \/ Publish(c))
    BY DEF PrepareSpace, LoadElf, CreateStack, StackWith, Publish
  <2>3. ~(WaitTest(c) \/ WaitCollect(c) \/ WaitMiss(c) \/ WaitFind(c) \/ WaitBlock(c))
    BY DEF WaitTest, WaitCollect, WaitMiss, WaitFind, WaitBlock
  <2>4. ~(PickNextReady(c) \/ Resumed(c) \/ Take(c) \/ Reclaim(c) \/ Yielded(c))
    BY DEF PickNextReady, PickWith, Resumed, Take, Reclaim, Yielded
  <2>5. ~(Trampoline(c) \/ ExitDestroy(c) \/ ExitCr3(c) \/ ExitUnlink(c) \/ ExitQueue(c)
            \/ ExitStore(c) \/ ExitProcess(c))
    BY DEF Trampoline, ExitDestroy, ExitCr3, ExitUnlink, ExitQueue, ExitStore, StoreWith, ExitProcess
  <2> QED
    BY <1>3, <2>1, <2>2, <2>3, <2>4, <2>5
    DEF KernelStep, PrepareSpaceFails, LoadElfFails, CreateStackFails
<1> QED
  BY <1>1, <1>2, <1>3 DEF Next

\* A dead context comes back to the CPU, if at all, by the console's stale choice, for
\* every PROCESS_COUNT and wherever ticks fall.
THEOREM RevivedByConsole == Spec => OnlyConsoleRevives
<1>1. ASSUME MInv, Next, NEW i \in Procs, current # i, current' = i, Zombie(i)
      PROVE  current = Idle
  <2>1. CASE Tick
    BY <1>1, <2>1 DEF Tick, SwitchTo, IsLowest, Ready, Zombie
  <2>2. ASSUME NEW c \in Ctx, Switch(c) PROVE current = Idle
    <3>1. current = c /\ pc[c] = "switch" /\ next[c] = i
      BY <1>1, <2>2 DEF Switch, At, SwitchTo
    <3>2. i \notin Ready \cup {Idle}
      BY <1>1 DEF Ready, Zombie
    <3> QED
      BY <1>1, <3>1, <3>2 DEF MInv, SwitchOK
  <2> QED
    BY <1>1, <2>1, <2>2, CpuMoves
<1>2. MInv /\ [Next]_vars
        => [\A i \in Procs : current # i /\ current' = i /\ Zombie(i) => current = Idle]_vars
  BY <1>1
<1> QED
  BY <1>2, MemoryHolds, PTL DEF Spec, OnlyConsoleRevives
=============================================================================
