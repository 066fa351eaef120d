---------------------------- MODULE SchedulerLife ----------------------------
(***************************************************************************)
(* The behaviours in which no tick moves the CPU, for every number of      *)
(* slots: the table implements ProcLife, stacks are reclaimed from Exited  *)
(* processes only, and the machine never faults.  With the invariants      *)
(* of SchedulerProofs most of this follows.  What does not is that every   *)
(* exit leaves its status: run_program marks the slot of its child as      *)
(* waited once its own wait is over, and by then another process may have  *)
(* collected the child and the slot may hold a stranger.                   *)
(* The console gets that far only while nobody is Ready, so every live     *)
(* process is then Blocked, waiting for others that are Blocked too.  That *)
(* set of processes (Stuck) can never get out: the exit of a later process *)
(* may wake those that wait for any child, but they find nothing and block *)
(* again.  So the stranger never exits.                                    *)
(***************************************************************************)
EXTENDS SchedulerProofs

\* The machine has not stopped, and no context was interrupted.
CalmOK == ~halted /\ inIsr = {}

\* The context chosen is still Ready, or nobody is.
ChoiceOK ==
  pc[current] = "switch" => next[current] \in Ready \/ (next[current] = Idle /\ Ready = {})

\* A context that loops in exit_and_yield belongs to an Exited slot.
DeadOK == \A i \in Procs : InExitLoop(i) => state[i] = "Exited"

\* A slot is used from its first pid on; a new one has no collected status; a
\* Blocked process waits for what it said.
SlotsOK ==
  \A i \in Procs :
    /\ IF state[i] = "Empty" THEN pid[i] = 0 /\ parent[i] = 0 ELSE pid[i] # 0
    /\ state[i] = "Loading" => ~waited[i]
    /\ state[i] = "Blocked" => waitingFor[i] = target[i] /\ target[i] # None

\* The slot being prepared is a child of the one that prepares it.
ParentOK == pc[current] \in PrepareLabels => parent[slot[current]] = PidOf(current)

\* The console comes back from a yield only with nobody Ready, and run_program's
\* wait does not end before it has yielded.
RunOK ==
  /\ runSlot # Idle => state[runSlot] # "Empty"
  /\ current = Idle /\ pc[Idle] \in BackLabels => Ready = {}
  /\ runSlot # Idle /\ pc[Idle] \in {"collect", "runDone"} => Ready = {}
  /\ runSlot # Idle /\ pc[Idle] \in {"test", "find"} =>
       Ready = {} \/ (runSlot \in Ready /\ target[Idle] = pid[runSlot])
  /\ pc[Idle] \in {"shell"} \cup PrepareLabels => runSlot = Idle
  /\ pc[Idle] = "runDone" => runSlot # Idle

\* pid p has a live child, and an uncollected one
HasLive(p)   == \E k \in Procs : parent[k] = p /\ Live(k)
HasZombie(p) == \E k \in Procs : parent[k] = p /\ Zombie(k) /\ ~waited[k]

\* A process Blocked on its children has a live one and no uncollected one.
AnyOK ==
  /\ pc[current] = "block" /\ current # Idle /\ target[current] = AnyChild => HasLive(pid[current])
  /\ \A i \in Procs : state[i] = "Blocked" /\ waitingFor[i] = AnyChild =>
       HasLive(pid[i]) /\ ~HasZombie(pid[i])

\* wait takes a status that is still there, and the one it asked for.
CollectOK ==
  \A c \in Ctx : pc[c] = "collect" =>
    /\ slot[c] \in Procs /\ Zombie(slot[c]) /\ ~waited[slot[c]]
    /\ target[c] # AnyChild => pid[slot[c]] = target[c]

\* Where a context stands that goes round the loop of a blocking wait
LoopLabels == {"test", "find", "block", "pick", "switch"} \cup BackLabels

\* A set of processes none of which can get out of its wait: what each waits for
\* is in the set, or a zombie that another process has collected.
Stuck(S) ==
  \A i \in S :
    /\ Live(i) /\ target[i] # None
    /\ pc[i] \in LoopLabels
    /\ target[i] = AnyChild =>
         /\ \E k \in S : parent[k] = pid[i]
         /\ \A k \in Procs : parent[k] = pid[i] => k \in S \/ (Zombie(k) /\ waited[k])
    /\ target[i] # AnyChild =>
         /\ state[i] = "Blocked" /\ target[i] < nextPid
         /\ \A k \in Procs : pid[k] = target[i] => k \in S \/ (Zombie(k) /\ waited[k])

\* A live process whose slot is marked as waited is stuck.
StuckOK == \E S \in SUBSET Procs : Stuck(S) /\ \A i \in Procs : Live(i) /\ waited[i] => i \in S

\* The lifecycle invariant
LInv ==
  /\ CInv /\ MInv
  /\ CalmOK /\ ChoiceOK /\ DeadOK /\ SlotsOK /\ ParentOK /\ RunOK /\ AnyOK
  /\ CollectOK
  /\ StuckOK
-----------------------------------------------------------------------------
USE Domains, Order
  DEF PreLabels, PrepareLabels, SlotLabels, BackLabels, WaitLabels, IdleLabels, MidLabels, LoopLabels

\* The named parts of the invariant, for the steps that cite them
LEMMA Parts ==
  ASSUME LInv
  PROVE  /\ TypeOK /\ IdleOK /\ SlotOK /\ TargetOK /\ YieldOK /\ CurrentOK /\ RunningIsCurrent
         /\ Suspended /\ LoadOK /\ MissOK /\ BlockOK /\ NoLostWakeup
         /\ PidsOK /\ PhaseOK /\ PrepOK /\ MemOK /\ WaitOK
         /\ CalmOK /\ ChoiceOK /\ DeadOK /\ SlotsOK /\ ParentOK /\ RunOK /\ AnyOK
         /\ CollectOK /\ StuckOK
  BY DEF LInv, CInv, MInv, IInv

\* While a process has the CPU the console waits in its yield.
LEMMA IdleAway == ASSUME IdleOK, Suspended, current # Idle PROVE pc[Idle] = "resumed"
  BY DEF IdleOK, Suspended

\* A stuck set stays stuck under a step that keeps its members in their loops,
\* and that neither brings back a collected zombie nor gives a new slot a pid or
\* a parent a member waits for.
LEMMA StuckStep ==
  ASSUME TypeOK, NEW S \in SUBSET Procs, Stuck(S),
         \A i \in S : /\ Live(i)' /\ pc'[i] \in LoopLabels
                      /\ target'[i] = target[i] /\ pid'[i] = pid[i] /\ parent'[i] = parent[i]
                      /\ target[i] # AnyChild => state'[i] = "Blocked" /\ target[i] < nextPid',
         \A k \in Procs : k \notin S =>
           \/ Zombie(k)' /\ waited'[k]
           \/ pid'[k] = pid[k] /\ parent'[k] = parent[k] /\ ~(Zombie(k) /\ waited[k])
           \/ \A i \in S : pid'[k] # target[i] /\ parent'[k] # pid[i]
  PROVE  Stuck(S)'
<1> SUFFICES ASSUME NEW i \in S
             PROVE  /\ target[i] = AnyChild =>
                         /\ \E k \in S : parent'[k] = pid'[i]
                         /\ \A k \in Procs : parent'[k] = pid'[i] => k \in S \/ (Zombie(k)' /\ waited'[k])
                    /\ target[i] # AnyChild =>
                         \A k \in Procs : pid'[k] = target[i] => k \in S \/ (Zombie(k)' /\ waited'[k])
  BY DEF Stuck
<1>1. target[i] = AnyChild => \E k \in S : parent'[k] = pid'[i]
  BY DEF Stuck
<1>2. ASSUME NEW k \in Procs, k \notin S, target[i] = AnyChild, parent'[k] = pid'[i]
      PROVE  Zombie(k)' /\ waited'[k]
  BY <1>2 DEF Stuck
<1>3. ASSUME NEW k \in Procs, k \notin S, target[i] # AnyChild, pid'[k] = target[i]
      PROVE  Zombie(k)' /\ waited'[k]
  BY <1>3 DEF Stuck
<1> QED
  BY <1>1, <1>2, <1>3

\* A step of c that changes nothing shared but memory
Own(c) ==
  /\ current = c
  /\ UNCHANGED <<state, pid, parent, waited, waitingFor, nextPid, current, halted, inIsr, runSlot>>
  /\ \A d \in Ctx : d # c => pc'[d] = pc[d] /\ target'[d] = target[d] /\ slot'[d] = slot[d] /\ next'[d] = next[d]

\* What such a step has to respect
LEMMA OwnStep ==
  ASSUME NEW c \in Ctx, LInv, CInv', MInv', Own(c),
         pc'[c] = "switch" => next'[c] \in Ready \/ (next'[c] = Idle /\ Ready = {}),
         c \in Procs /\ InExitLoop(c)' => InExitLoop(c),
         c \in Procs /\ state[c] = "Blocked" => target'[c] = target[c],
         c = Idle => RunOK',
         c \in Procs /\ pc'[c] = "block" /\ target'[c] = AnyChild => HasLive(pid[c]),
         pc'[c] = "collect" => /\ slot'[c] \in Procs
                               /\ Zombie(slot'[c]) /\ ~waited[slot'[c]]
                               /\ target'[c] # AnyChild => pid[slot'[c]] = target'[c],
         pc'[c] \in PrepareLabels => pc[c] \in PrepareLabels /\ slot'[c] = slot[c],
         \A S \in SUBSET Procs : Stuck(S) /\ c \in S => pc'[c] \in LoopLabels /\ target'[c] = target[c]
  PROVE  LInv'
<1>0. /\ TypeOK /\ IdleOK /\ Suspended /\ CalmOK /\ DeadOK /\ SlotsOK /\ ParentOK /\ RunOK /\ AnyOK
      /\ CollectOK /\ StuckOK
  BY Parts
<1>1. CalmOK' /\ ChoiceOK'
  BY <1>0 DEF Own, CalmOK, ChoiceOK, Ready
<1>2. DeadOK' /\ SlotsOK' /\ ParentOK'
  BY <1>0 DEF Own, DeadOK, SlotsOK, ParentOK, InExitLoop, PidOf
<1>3. RunOK'
  <2>1. CASE c # Idle
    BY <1>0, <2>1, IdleAway DEF Own, RunOK
  <2> QED
    BY <2>1
<1>4. AnyOK'
  BY <1>0 DEF Own, AnyOK, HasLive, HasZombie, Live, Zombie
<1>5. CollectOK'
  BY <1>0 DEF Own, CollectOK, Zombie, Suspended
<1>6. StuckOK'
  <2>1. PICK S \in SUBSET Procs : Stuck(S) /\ \A i \in Procs : Live(i) /\ waited[i] => i \in S
    BY <1>0 DEF StuckOK
  <2>2. \A i \in S : pc'[i] \in LoopLabels /\ target'[i] = target[i]
    BY <2>1 DEF Own, Stuck
  <2>3. Stuck(S)'
    BY <1>0, <2>1, <2>2 DEF Own, Stuck, Live, Zombie
  <2> QED
    BY <2>1, <2>3 DEF Own, StuckOK, Live
<1> QED
  BY <1>1, <1>2, <1>3, <1>4, <1>5, <1>6 DEF LInv

-----------------------------------------------------------------------------
(* Steps that change only what is private to the context that takes them *)

\* A new address space preserves the lifecycle invariant.
LEMMA LifePrepareSpace == ASSUME NEW c \in Ctx, LInv, PrepareSpace(c) PROVE LInv'
<1>0. TypeOK /\ IdleOK /\ SlotOK /\ TargetOK /\ PhaseOK /\ CurrentOK /\ CalmOK /\ RunOK
  BY Parts
<1>1. CInv' /\ MInv'
  BY CoopPrepareSpace, MemPrepareSpace DEF LInv
<1>2. Own(c)
  BY <1>0 DEF PrepareSpace, At, Goto, table, memory, locals, drain, Own, TypeOK
<1>3. /\ pc[c] = "claimed" /\ pc'[c] = "loading"
      /\ target'[c] = target[c] /\ slot'[c] = slot[c]
  BY <1>0 DEF PrepareSpace, At, Goto, table, memory, locals, drain, TypeOK, PhaseOK
<1>4. c = Idle => RunOK'
  BY <1>0, <1>2, <1>3 DEF Own, RunOK, IdleOK, Ready
<1> QED
  BY <1>1, <1>2, <1>3, <1>4, OwnStep DEF InExitLoop, Stuck

\* A loaded image preserves the lifecycle invariant.
LEMMA LifeLoadElf == ASSUME NEW c \in Ctx, LInv, LoadElf(c) PROVE LInv'
<1>0. TypeOK /\ IdleOK /\ SlotOK /\ TargetOK /\ PhaseOK /\ CurrentOK /\ CalmOK /\ RunOK
  BY Parts
<1>1. CInv' /\ MInv'
  BY CoopLoadElf, MemLoadElf DEF LInv
<1>2. Own(c)
  BY <1>0 DEF LoadElf, At, Goto, table, memory, locals, drain, Own, TypeOK
<1>3. pc[c] = "loading" /\ pc'[c] = "stack" /\ target'[c] = target[c] /\ slot'[c] = slot[c]
  BY <1>0 DEF LoadElf, At, Goto, table, memory, locals, drain, TypeOK, PhaseOK
<1>4. c = Idle => RunOK'
  BY <1>0, <1>2, <1>3 DEF Own, RunOK, IdleOK, Ready
<1> QED
  BY <1>1, <1>2, <1>3, <1>4, OwnStep DEF InExitLoop, Stuck

\* The console's wait preserves the lifecycle invariant.
LEMMA LifeShellWait == ASSUME NEW t \in Pids \cup {AnyChild}, LInv, ShellWait(t) PROVE LInv'
<1>0. TypeOK /\ IdleOK /\ SlotOK /\ TargetOK /\ PhaseOK /\ CurrentOK /\ CalmOK /\ RunOK
  BY Parts
<1>1. CInv' /\ MInv'
  BY CoopShellWait, MemShellWait DEF LInv
<1>2. Own(Idle)
  BY <1>0 DEF ShellWait, At, Goto, table, memory, locals, drain, Own, TypeOK
<1>3. pc[Idle] = "shell" /\ pc'[Idle] = "test"
  BY <1>0 DEF ShellWait, At, Goto, table, memory, locals, drain, TypeOK, PhaseOK
<1>4. Idle = Idle => RunOK'
  BY <1>0, <1>2, <1>3 DEF Own, RunOK, IdleOK, Ready
<1> QED
  BY <1>1, <1>2, <1>3, <1>4, OwnStep DEF InExitLoop, Stuck

\* A program's wait preserves the lifecycle invariant.
LEMMA LifeUserWait == ASSUME NEW c \in Procs, NEW t \in Pids \cup {AnyChild}, LInv, UserWait(c, t) PROVE LInv'
<1>0. TypeOK /\ IdleOK /\ SlotOK /\ TargetOK /\ PhaseOK /\ CurrentOK /\ CalmOK /\ RunOK
  BY Parts
<1>1. CInv' /\ MInv'
  BY CoopUserWait, MemUserWait DEF LInv
<1>2. Own(c)
  BY <1>0 DEF UserWait, At, Goto, table, memory, locals, drain, Own, TypeOK
<1>3. pc[c] = "user" /\ pc'[c] = "test" /\ state[c] # "Blocked"
  BY <1>0 DEF UserWait, At, Goto, table, memory, locals, drain, TypeOK, PhaseOK
<1>4. c = Idle => RunOK'
  BY <1>0, <1>2, <1>3 DEF Own, RunOK, IdleOK, Ready
<1> QED
  BY <1>1, <1>2, <1>3, <1>4, OwnStep DEF InExitLoop, Stuck

\* A first entry preserves the lifecycle invariant.
LEMMA LifeTrampoline == ASSUME NEW c \in Ctx, LInv, Trampoline(c) PROVE LInv'
<1>0. TypeOK /\ IdleOK /\ SlotOK /\ TargetOK /\ PhaseOK /\ CurrentOK /\ CalmOK /\ RunOK
  BY Parts
<1>1. CInv' /\ MInv'
  BY CoopTrampoline, MemTrampoline DEF LInv
<1>2. Own(c)
  BY <1>0 DEF Trampoline, At, Goto, table, memory, locals, drain, Own, TypeOK
<1>3. pc[c] = "fresh" /\ pc'[c] = "user" /\ target'[c] = target[c]
  BY <1>0 DEF Trampoline, At, Goto, table, memory, locals, drain, TypeOK, PhaseOK
<1>4. c = Idle => RunOK'
  BY <1>0, <1>2, <1>3 DEF Own, RunOK, IdleOK, Ready
<1> QED
  BY <1>1, <1>2, <1>3, <1>4, OwnStep DEF InExitLoop, Stuck

\* A program's return preserves the lifecycle invariant.
LEMMA LifeUserExit == ASSUME NEW c \in Procs, LInv, UserExit(c) PROVE LInv'
<1>0. TypeOK /\ IdleOK /\ SlotOK /\ TargetOK /\ PhaseOK /\ CurrentOK /\ CalmOK /\ RunOK
  BY Parts
<1>1. CInv' /\ MInv'
  BY CoopUserExit, MemUserExit DEF LInv
<1>2. Own(c)
  BY <1>0 DEF UserExit, At, Goto, table, memory, locals, drain, Own, TypeOK
<1>3. pc[c] = "user" /\ pc'[c] = "destroy" /\ target'[c] = target[c]
  BY <1>0 DEF UserExit, At, Goto, table, memory, locals, drain, TypeOK, PhaseOK
<1>4. c = Idle => RunOK'
  BY <1>0, <1>2, <1>3 DEF Own, RunOK, IdleOK, Ready
<1> QED
  BY <1>1, <1>2, <1>3, <1>4, OwnStep DEF InExitLoop, Stuck

\* Freeing the address space preserves the lifecycle invariant.
LEMMA LifeExitDestroy == ASSUME NEW c \in Ctx, LInv, ExitDestroy(c) PROVE LInv'
<1>0. TypeOK /\ IdleOK /\ SlotOK /\ TargetOK /\ PhaseOK /\ CurrentOK /\ CalmOK /\ RunOK
  BY Parts
<1>1. CInv' /\ MInv'
  BY CoopExitDestroy, MemExitDestroy DEF LInv
<1>2. Own(c)
  BY <1>0 DEF ExitDestroy, At, Goto, table, memory, locals, drain, Own, TypeOK
<1>3. pc[c] = "destroy" /\ pc'[c] = "cr3" /\ target'[c] = target[c]
  BY <1>0 DEF ExitDestroy, At, Goto, table, memory, locals, drain, TypeOK, PhaseOK
<1>4. c = Idle => RunOK'
  BY <1>0, <1>2, <1>3 DEF Own, RunOK, IdleOK, Ready
<1> QED
  BY <1>1, <1>2, <1>3, <1>4, OwnStep DEF InExitLoop, Stuck

\* Leaving the address space preserves the lifecycle invariant.
LEMMA LifeExitCr3 == ASSUME NEW c \in Ctx, LInv, ExitCr3(c) PROVE LInv'
<1>0. TypeOK /\ IdleOK /\ SlotOK /\ TargetOK /\ PhaseOK /\ CurrentOK /\ CalmOK /\ RunOK
  BY Parts
<1>1. CInv' /\ MInv'
  BY CoopExitCr3, MemExitCr3 DEF LInv
<1>2. Own(c)
  BY <1>0 DEF ExitCr3, At, Goto, table, memory, locals, drain, Own, TypeOK
<1>3. pc[c] = "cr3" /\ pc'[c] = "unlink" /\ target'[c] = target[c]
  BY <1>0 DEF ExitCr3, At, Goto, table, memory, locals, drain, TypeOK, PhaseOK
<1>4. c = Idle => RunOK'
  BY <1>0, <1>2, <1>3 DEF Own, RunOK, IdleOK, Ready
<1> QED
  BY <1>1, <1>2, <1>3, <1>4, OwnStep DEF InExitLoop, Stuck

\* Forgetting the address space preserves the lifecycle invariant.
LEMMA LifeExitUnlink == ASSUME NEW c \in Ctx, LInv, ExitUnlink(c) PROVE LInv'
<1>0. TypeOK /\ IdleOK /\ SlotOK /\ TargetOK /\ PhaseOK /\ CurrentOK /\ CalmOK /\ RunOK
  BY Parts
<1>1. CInv' /\ MInv'
  BY CoopExitUnlink, MemExitUnlink DEF LInv
<1>2. Own(c)
  BY <1>0 DEF ExitUnlink, At, Goto, table, memory, locals, drain, Own, TypeOK
<1>3. pc[c] = "unlink" /\ pc'[c] = "queue" /\ target'[c] = target[c]
  BY <1>0 DEF ExitUnlink, At, Goto, table, memory, locals, drain, TypeOK, PhaseOK
<1>4. c = Idle => RunOK'
  BY <1>0, <1>2, <1>3 DEF Own, RunOK, IdleOK, Ready
<1> QED
  BY <1>1, <1>2, <1>3, <1>4, OwnStep DEF InExitLoop, Stuck

\* Queueing the stack preserves the lifecycle invariant.
LEMMA LifeExitQueue == ASSUME NEW c \in Ctx, LInv, ExitQueue(c) PROVE LInv'
<1>0. TypeOK /\ IdleOK /\ SlotOK /\ TargetOK /\ PhaseOK /\ CurrentOK /\ CalmOK /\ RunOK
  BY Parts
<1>1. CInv' /\ MInv'
  BY CoopExitQueue, MemExitQueue DEF LInv
<1>2. Own(c)
  BY <1>0 DEF ExitQueue, At, Goto, table, memory, locals, drain, Own, TypeOK
<1>3. pc[c] = "queue" /\ pc'[c] \in {"queue", "store", "exit"} /\ target'[c] = target[c]
  BY <1>0 DEF ExitQueue, At, Goto, table, memory, locals, drain, TypeOK, PhaseOK
<1>4. c = Idle => RunOK'
  BY <1>0, <1>2, <1>3 DEF Own, RunOK, IdleOK, Ready
<1> QED
  BY <1>1, <1>2, <1>3, <1>4, OwnStep DEF InExitLoop, Stuck

\* The store to the empty cell preserves the lifecycle invariant.
LEMMA LifeExitStore == ASSUME NEW c \in Ctx, LInv, ExitStore(c) PROVE LInv'
<1>0. TypeOK /\ IdleOK /\ SlotOK /\ TargetOK /\ PhaseOK /\ CurrentOK /\ CalmOK /\ RunOK
  BY Parts
<1>1. CInv' /\ MInv'
  BY CoopExitStore, MemExitStore DEF LInv
<1>2. Own(c)
  BY <1>0 DEF ExitStore, StoreWith, At, Goto, table, memory, locals, drain, Own, TypeOK
<1>3. pc[c] = "store" /\ pc'[c] = "exit" /\ target'[c] = target[c]
  BY <1>0 DEF ExitStore, StoreWith, At, Goto, table, memory, locals, drain, TypeOK, PhaseOK
<1>4. c = Idle => RunOK'
  BY <1>0, <1>2, <1>3 DEF Own, RunOK, IdleOK, Ready
<1> QED
  BY <1>1, <1>2, <1>3, <1>4, OwnStep DEF InExitLoop, Stuck

\* A status found preserves the lifecycle invariant: the scan and the store that
\* follows are not separated by another context.
LEMMA LifeWaitTest == ASSUME NEW c \in Ctx, LInv, WaitTest(c) PROVE LInv'
<1>0. TypeOK /\ IdleOK /\ PidsOK /\ CalmOK /\ RunOK /\ WaitOK /\ SlotsOK /\ CurrentOK
  BY Parts
<1>1. CInv' /\ MInv'
  BY CoopWaitTest, MemWaitTest DEF LInv
<1>2. PICK i \in Collectable(target[c], PidOf(c)) :
        /\ i \in Procs /\ slot' = [slot EXCEPT ![c] = i]
        /\ pc[c] = "test" /\ pc' = [pc EXCEPT ![c] = "collect"]
        /\ current = c /\ ~halted /\ UNCHANGED <<table, nextPid, current, memory, target, next, runSlot, inIsr>>
  BY DEF WaitTest, IsLowest, At, Goto
<1>3. Own(c) /\ pc'[c] = "collect" /\ slot'[c] = i /\ target'[c] = target[c]
  BY <1>0, <1>2 DEF Own, TypeOK, table, memory
<1>4. i \in Procs /\ Zombie(i) /\ ~waited[i] /\ (target[c] # AnyChild => pid[i] = target[c])
  BY <1>2 DEF Collectable
<1>5. c = Idle => RunOK'
  <2>1. ASSUME c = Idle, runSlot \in Ready, target[Idle] = pid[runSlot] PROVE FALSE
    <3>1. runSlot \in Procs /\ state[runSlot] = "Ready"
      BY <2>1 DEF Ready
    <3>2. target[Idle] # AnyChild /\ pid[i] = pid[runSlot]
      BY <1>0, <1>4, <2>1, <3>1 DEF TypeOK
    <3>3. i = runSlot
      BY <1>0, <1>4, <3>1, <3>2 DEF PidsOK, SlotsOK
    <3> QED
      BY <1>4, <3>1, <3>3 DEF Zombie
  <2> QED
    BY <1>0, <1>2, <1>3, <2>1 DEF Own, RunOK, IdleOK, Ready
<1>6. ASSUME NEW S \in SUBSET Procs, Stuck(S), c \in S PROVE FALSE
  <2>1. c # Idle /\ state[c] = "Running"
    BY <1>0, <1>2, <1>6 DEF CurrentOK
  <2>2. target[c] = AnyChild /\ parent[i] = pid[c]
    BY <1>2, <1>6, <2>1 DEF Stuck, Collectable, PidOf
  <2> QED
    BY <1>4, <1>6, <2>2 DEF Stuck, Zombie, Live
<1> QED
  BY <1>1, <1>2, <1>3, <1>4, <1>5, <1>6, OwnStep DEF InExitLoop

\* No status found preserves the lifecycle invariant.
LEMMA LifeWaitMiss == ASSUME NEW c \in Ctx, LInv, WaitMiss(c) PROVE LInv'
<1>0. TypeOK /\ IdleOK /\ CalmOK /\ RunOK /\ WaitOK /\ CurrentOK
  BY Parts
<1>1. CInv' /\ MInv'
  BY CoopWaitMiss, MemWaitMiss DEF LInv
<1>2. /\ Own(c) /\ pc[c] = "test" /\ (c \in Procs => state[c] # "Blocked")
      /\ IF c = Idle /\ runSlot = Idle THEN pc'[c] = "shell" ELSE pc'[c] = "find" /\ target'[c] = target[c]
  BY <1>0 DEF WaitMiss, WaitReturns, At, Goto, table, memory, Own, TypeOK, CurrentOK
<1>3. c = Idle => RunOK'
  BY <1>0, <1>2 DEF Own, RunOK, Ready
<1> QED
  BY <1>1, <1>2, <1>3, OwnStep DEF InExitLoop, Stuck

\* The second scan of wait preserves the lifecycle invariant: a stuck process has
\* a stuck child, so it goes on to block.
LEMMA LifeWaitFind == ASSUME NEW c \in Ctx, LInv, WaitFind(c) PROVE LInv'
<1>0. TypeOK /\ IdleOK /\ CalmOK /\ RunOK /\ WaitOK /\ CurrentOK
  BY Parts
<1>1. CInv' /\ MInv'
  BY CoopWaitFind, MemWaitFind DEF LInv
<1>2. /\ Own(c) /\ pc[c] = "find" /\ (c \in Procs => state[c] = "Running")
      /\ IF Awaitable(target[c], PidOf(c))
         THEN pc'[c] = "block" /\ target'[c] = target[c]
         ELSE pc'[c] = IF c # Idle THEN "user" ELSE IF runSlot # Idle THEN "runDone" ELSE "shell"
  BY <1>0 DEF WaitFind, WaitReturns, At, Goto, table, memory, Own, TypeOK, CurrentOK
<1>3. c = Idle => RunOK'
  <2>1. ASSUME runSlot \in Ready, target[Idle] = pid[runSlot]
        PROVE  Awaitable(target[Idle], PidOf(Idle))
    BY <1>0, <2>1 DEF Awaitable, Ready, TypeOK
  <2> QED
    BY <1>0, <1>2, <2>1 DEF Own, RunOK, Ready
<1>4. c \in Procs /\ pc'[c] = "block" /\ target'[c] = AnyChild => HasLive(pid[c])
  BY <1>2 DEF Awaitable, HasLive, Live, PidOf
<1>5. ASSUME NEW S \in SUBSET Procs, Stuck(S), c \in S PROVE pc'[c] \in LoopLabels /\ target'[c] = target[c]
  <2>1. c # Idle /\ target[c] = AnyChild
    BY <1>2, <1>5 DEF Stuck
  <2>2. Awaitable(target[c], PidOf(c))
    BY <1>5, <2>1 DEF Stuck, Awaitable, PidOf, Live
  <2> QED
    BY <1>2, <2>2
<1> QED
  BY <1>1, <1>2, <1>3, <1>4, <1>5, OwnStep DEF InExitLoop

\* The scheduler's choice preserves the lifecycle invariant.
LEMMA LifePickNextReady == ASSUME NEW c \in Ctx, LInv, PickNextReady(c) PROVE LInv'
<1>0. TypeOK /\ IdleOK /\ CalmOK /\ RunOK
  BY Parts
<1>1. CInv' /\ MInv'
  BY CoopPickNextReady, MemPickNextReady DEF LInv
<1>2. /\ Own(c) /\ pc[c] = "pick" /\ pc'[c] = "switch" /\ target'[c] = target[c]
      /\ next'[c] \in Ready \/ (next'[c] = Idle /\ Ready = {})
  BY <1>0 DEF PickNextReady, PickWith, IsLowest, At, Goto, table, memory, Own, TypeOK
<1>3. c = Idle => RunOK'
  BY <1>0, <1>2 DEF Own, RunOK, Ready
<1> QED
  BY <1>1, <1>2, <1>3, OwnStep DEF InExitLoop

\* Reading a cell preserves the lifecycle invariant.
LEMMA LifeResumed == ASSUME NEW c \in Ctx, LInv, Resumed(c) PROVE LInv'
<1>0. TypeOK /\ IdleOK /\ CalmOK /\ RunOK
  BY Parts
<1>1. CInv' /\ MInv'
  BY CoopResumed, MemResumed DEF LInv
<1>2. Own(c) /\ pc[c] = "resumed" /\ pc'[c] \in {"resumed", "take"} /\ target'[c] = target[c]
  BY <1>0 DEF Resumed, At, Goto, table, memory, locals, drain, Own, TypeOK
<1>3. c = Idle => RunOK'
  BY <1>0, <1>2 DEF Own, RunOK, Ready
<1> QED
  BY <1>1, <1>2, <1>3, OwnStep DEF InExitLoop

\* Emptying a cell preserves the lifecycle invariant.
LEMMA LifeTake == ASSUME NEW c \in Ctx, LInv, Take(c) PROVE LInv'
<1>0. TypeOK /\ IdleOK /\ CalmOK /\ RunOK
  BY Parts
<1>1. CInv' /\ MInv'
  BY CoopTake, MemTake DEF LInv
<1>2. Own(c) /\ pc[c] = "take" /\ pc'[c] = "reclaim" /\ target'[c] = target[c]
  BY <1>0 DEF Take, At, Goto, table, memory, locals, drain, Own, TypeOK
<1>3. c = Idle => RunOK'
  BY <1>0, <1>2 DEF Own, RunOK, Ready
<1> QED
  BY <1>1, <1>2, <1>3, OwnStep DEF InExitLoop

\* Unmapping a stack preserves the lifecycle invariant: whoever was switched to is
\* alive, so the stack it stands on is not the one reclaimed.
LEMMA LifeReclaim == ASSUME NEW c \in Ctx, LInv, Reclaim(c) PROVE LInv'
<1>0. TypeOK /\ IdleOK /\ CalmOK /\ RunOK /\ CurrentOK /\ DeadOK /\ MemOK
  BY Parts
<1>1. CInv' /\ MInv'
  BY CoopReclaim, MemReclaim DEF LInv
<1>2. /\ current = c /\ pc[c] = "reclaim" /\ ~halted
      /\ pc' = [pc EXCEPT ![c] = "resumed"]
      /\ halted' = (c # Idle /\ rsp[c] \notin stacks \ {taken[c]})
      /\ UNCHANGED <<table, nextPid, current, target, slot, next, runSlot, inIsr>>
  BY DEF Reclaim, At, Goto
<1>3. ~halted'
  <2>1. ASSUME c # Idle PROVE rsp[c] = pid[c] /\ Live(c) /\ ~PastQueue(c)
    <3>1. state[c] = "Running"
      BY <1>0, <1>2, <2>1 DEF CurrentOK
    <3> QED
      BY <1>0, <1>2, <2>1, <3>1 DEF MemOK, DeadOK, PastQueue, Live
  <2>2. c # Idle => pid[c] \in stacks /\ pid[c] \notin Doomed /\ pid[c] # 0
    BY <1>0, <1>2, <2>1 DEF MemOK, TypeOK
  <2>3. c # Idle => pid[c] # taken[c]
    BY <1>0, <2>2 DEF Doomed, TypeOK
  <2> QED
    BY <1>2, <2>1, <2>2, <2>3
<1>4. Own(c) /\ pc'[c] = "resumed" /\ target'[c] = target[c]
  BY <1>0, <1>2, <1>3 DEF Own, TypeOK, table
<1>5. c = Idle => RunOK'
  BY <1>0, <1>2, <1>4 DEF Own, RunOK, Ready
<1> QED
  BY <1>1, <1>2, <1>4, <1>5, OwnStep DEF InExitLoop

\* The end of the drain preserves the lifecycle invariant: only a wait is resumed.
LEMMA LifeYielded == ASSUME NEW c \in Ctx, LInv, Yielded(c) PROVE LInv'
<1>0. TypeOK /\ IdleOK /\ CalmOK /\ RunOK /\ WaitOK /\ CurrentOK /\ DeadOK
  BY Parts
<1>1. CInv' /\ MInv'
  BY CoopYielded, MemYielded DEF LInv
<1>2. /\ current = c /\ pc[c] = "resumed" /\ ~halted
      /\ pc' = [pc EXCEPT ![c] = IF target[c] = None THEN "pick" ELSE "test"]
      /\ UNCHANGED <<table, nextPid, current, memory, target, slot, next, runSlot, inIsr>>
  BY DEF Yielded, At, Goto
<1>3. target[c] # None
  <2>1. c # Idle => state[c] = "Running"
    BY <1>0, <1>2 DEF CurrentOK
  <2> QED
    BY <1>0, <1>2, <2>1 DEF DeadOK, WaitOK, InExitLoop
<1>4. Own(c) /\ pc'[c] = "test" /\ target'[c] = target[c]
  BY <1>0, <1>2, <1>3 DEF Own, TypeOK, table, memory
<1>5. c = Idle => RunOK'
  BY <1>0, <1>2, <1>4 DEF Own, RunOK, Ready
<1> QED
  BY <1>1, <1>2, <1>4, <1>5, OwnStep DEF InExitLoop

-----------------------------------------------------------------------------
(* Steps that change the table *)

\* A failed preparation, of whatever kind, preserves the lifecycle invariant: the
\* failed child is nobody's but the spawner's, who is not blocked.
LEMMA FailStep ==
  ASSUME NEW c \in Ctx, LInv, CInv', MInv', pc[c] \in PrepareLabels, current = c,
         NEW s \in Procs, s = slot[c],
         \A i \in Procs : state'[i] = IF i = s THEN "Failed" ELSE state[i],
         \A i \in Procs : i # s => waited'[i] = waited[i],
         \A d \in Ctx : d # c => pc'[d] = pc[d] /\ slot'[d] = slot[d],
         pc'[c] = IF c = Idle THEN "shell" ELSE "user",
         UNCHANGED <<pid, parent, waitingFor, nextPid, current, halted, target, next, runSlot, inIsr>>
  PROVE  LInv'
<1>0. /\ TypeOK /\ IdleOK /\ SlotOK /\ Suspended /\ CurrentOK /\ PidsOK /\ PrepOK /\ CalmOK /\ ChoiceOK
      /\ DeadOK /\ SlotsOK /\ ParentOK /\ RunOK /\ AnyOK /\ CollectOK /\ StuckOK
  BY Parts
<1>a. state[s] = "Loading" /\ s # c /\ parent[s] = PidOf(c)
  BY <1>0 DEF PrepOK, ParentOK, CurrentOK, CalmOK
<1>b. \A d \in Ctx : d # c => pc[d] \in {"none", "fresh", "resumed"}
  BY <1>0 DEF Suspended
<1>1. Ready' = Ready /\ \A i \in Procs : (Live(i)' <=> Live(i)) /\ (i # s => (Zombie(i)' <=> Zombie(i)))
  BY <1>a DEF Ready, Live, Zombie
<1>2. CalmOK' /\ ChoiceOK' /\ ParentOK' /\ CollectOK'
  BY <1>0, <1>b DEF CalmOK, ChoiceOK, ParentOK, CollectOK
<1>3. DeadOK' /\ SlotsOK'
  BY <1>0, <1>a, <1>b DEF DeadOK, SlotsOK, InExitLoop
<1>4. RunOK'
  <2>1. runSlot' # Idle => state'[runSlot'] # "Empty"
    BY <1>0, <1>a DEF RunOK, TypeOK
  <2>2. CASE c = Idle
    BY <1>0, <2>1, <2>2 DEF RunOK
  <2>3. CASE c # Idle
    BY <1>0, <2>1, <2>3, IdleAway DEF RunOK
  <2> QED
    BY <2>2, <2>3
<1>5. AnyOK'
  <2>1. \A i \in Procs : state[i] = "Blocked" => pid[i] # 0 /\ i # c /\ pid[i] # parent[s]
    BY <1>0, <1>a DEF SlotsOK, CurrentOK, CalmOK, PidsOK, PidOf
  <2>2. \A p : HasLive(p)' <=> HasLive(p)
    BY <1>1 DEF HasLive
  <2>3. \A p : p # parent[s] => (HasZombie(p)' <=> HasZombie(p))
    BY <1>1 DEF HasZombie
  <2> QED
    BY <1>0, <1>a, <2>1, <2>2, <2>3 DEF AnyOK
<1>6. StuckOK'
  <2>1. PICK S \in SUBSET Procs : Stuck(S) /\ \A i \in Procs : Live(i) /\ waited[i] => i \in S
    BY <1>0 DEF StuckOK
  <2>2. c \notin S /\ s \notin S
    BY <1>a, <2>1 DEF Stuck, Live
  <2>3. \A i \in S : state'[i] = state[i] /\ pc'[i] = pc[i]
    BY <2>2
  <2>4. ASSUME NEW k \in Procs, k \notin S, Zombie(k), waited[k] PROVE Zombie(k)' /\ waited'[k]
    BY <1>a, <1>1, <2>4 DEF Zombie
  <2>5. Stuck(S)'
    BY <1>0, <1>1, <2>1, <2>3, <2>4, StuckStep DEF Stuck
  <2> QED
    BY <1>a, <1>1, <2>1, <2>5 DEF StuckOK, Live
<1> QED
  BY <1>2, <1>3, <1>4, <1>5, <1>6 DEF LInv

\* Every failure of prepare_process preserves the lifecycle invariant.
LEMMA LifePrepareFails ==
  ASSUME NEW c \in Ctx, LInv, PrepareSpaceFails(c) \/ LoadElfFails(c) \/ CreateStackFails(c)
  PROVE  LInv'
<1>0. TypeOK /\ SlotOK
  BY Parts
<1>1. CInv' /\ MInv'
  BY CoopPrepareSpaceFails, CoopLoadElfFails, CoopCreateStackFails,
     MemPrepareSpaceFails, MemLoadElfFails, MemCreateStackFails DEF LInv
<1>2. current = c /\ pc[c] \in PreLabels /\ PrepareFails(c)
  BY DEF PrepareSpaceFails, LoadElfFails, CreateStackFails, At
<1>3. PICK s \in Procs : s = slot[c]
  BY <1>0, <1>2 DEF SlotOK
<1>4. /\ \A i \in Procs : state'[i] = IF i = s THEN "Failed" ELSE state[i]
      /\ waited' = waited
      /\ \A d \in Ctx : d # c => pc'[d] = pc[d] /\ slot'[d] = slot[d]
      /\ pc'[c] = IF c = Idle THEN "shell" ELSE "user"
      /\ UNCHANGED <<pid, parent, waitingFor, nextPid, current, halted, target, next, runSlot, inIsr>>
  BY <1>0, <1>2, <1>3 DEF PrepareFails, PrepareFailsWith, Goto, TypeOK
<1> QED
  BY <1>1, <1>2, <1>3, <1>4, FailStep

\* A missing image preserves the lifecycle invariant.
LEMMA LifeRunNotFound == ASSUME LInv, RunNotFound PROVE LInv'
<1>0. TypeOK /\ SlotOK
  BY Parts
<1>1. CInv' /\ MInv'
  BY CoopRunNotFound, MemRunNotFound DEF LInv
<1>2. current = Idle /\ pc[Idle] = "claimed"
  BY DEF RunNotFound, At
<1>3. PICK s \in Procs : s = slot[Idle]
  BY <1>0, <1>2 DEF SlotOK
<1>4. /\ \A i \in Procs : state'[i] = IF i = s THEN "Failed" ELSE state[i]
      /\ \A i \in Procs : i # s => waited'[i] = waited[i]
      /\ \A d \in Ctx : d # Idle => pc'[d] = pc[d] /\ slot'[d] = slot[d]
      /\ pc'[Idle] = "shell"
      /\ UNCHANGED <<pid, parent, waitingFor, nextPid, current, halted, target, next, runSlot, inIsr>>
  BY <1>0, <1>2, <1>3 DEF RunNotFound, Goto, TypeOK, memory
<1> QED
  BY <1>1, <1>2, <1>3, <1>4, FailStep

\* A new kernel stack preserves the lifecycle invariant.
LEMMA LifeCreateStack == ASSUME NEW c \in Ctx, LInv, CreateStack(c) PROVE LInv'
<1>0. /\ TypeOK /\ IdleOK /\ SlotOK /\ Suspended /\ PidsOK /\ PrepOK /\ CalmOK /\ ChoiceOK /\ CurrentOK
      /\ DeadOK /\ SlotsOK /\ ParentOK /\ RunOK /\ AnyOK /\ CollectOK /\ StuckOK
  BY Parts
<1>1. CInv' /\ MInv'
  BY CoopCreateStack, MemCreateStack DEF LInv
<1>a. PICK s \in Procs : s = slot[c]
  BY <1>0 DEF CreateStack, StackWith, At, SlotOK
<1>b. /\ current = c /\ pc[c] = "stack" /\ ~halted /\ state[s] = "Loading" /\ s # c
  BY <1>0, <1>a DEF CreateStack, StackWith, At, PrepOK, CurrentOK
<1>c. /\ \A d \in Ctx : pc'[d] = IF d = c THEN "publish" ELSE IF d = s THEN "fresh" ELSE pc[d]
      /\ \A d \in Ctx : d # s => target'[d] = target[d]
      /\ UNCHANGED <<state, pid, parent, waited, waitingFor, nextPid, current, halted, slot, next, runSlot, inIsr>>
  BY <1>0, <1>a, <1>b DEF CreateStack, StackWith, TypeOK
<1>d. \A d \in Ctx : d # c => pc[d] \in {"none", "fresh", "resumed"}
  BY <1>0, <1>b DEF Suspended
<1>2. CalmOK' /\ ChoiceOK' /\ CollectOK' /\ ParentOK'
  BY <1>0, <1>b, <1>c, <1>d DEF CalmOK, ChoiceOK, CollectOK, ParentOK, PidOf
<1>3. DeadOK' /\ SlotsOK'
  BY <1>0, <1>b, <1>c DEF DeadOK, SlotsOK, InExitLoop
<1>4. RunOK'
  BY <1>0, <1>b, <1>c, IdleAway DEF RunOK, Ready
<1>5. AnyOK'
  BY <1>0, <1>b, <1>c DEF AnyOK, HasLive, HasZombie, Live, Zombie
<1>6. StuckOK'
  <2>1. PICK S \in SUBSET Procs : Stuck(S) /\ \A i \in Procs : Live(i) /\ waited[i] => i \in S
    BY <1>0 DEF StuckOK
  <2>2. c \notin S /\ s \notin S
    BY <1>b, <2>1 DEF Stuck, Live
  <2>3. Stuck(S)'
    BY <1>c, <2>1, <2>2 DEF Stuck, Zombie, Live
  <2> QED
    BY <1>c, <2>1, <2>3 DEF StuckOK, Live
<1> QED
  BY <1>1, <1>2, <1>3, <1>4, <1>5, <1>6 DEF LInv

\* A child made Ready preserves the lifecycle invariant.
LEMMA LifePublish == ASSUME NEW c \in Ctx, LInv, Publish(c) PROVE LInv'
<1>0. /\ TypeOK /\ IdleOK /\ SlotOK /\ Suspended /\ PidsOK /\ PrepOK /\ CalmOK /\ ChoiceOK /\ CurrentOK
      /\ DeadOK /\ SlotsOK /\ ParentOK /\ RunOK /\ AnyOK /\ CollectOK /\ StuckOK
  BY Parts
<1>1. CInv' /\ MInv'
  BY CoopPublish, MemPublish DEF LInv
<1>a. PICK s \in Procs : s = slot[c]
  BY <1>0 DEF Publish, At, SlotOK
<1>b. /\ current = c /\ pc[c] = "publish" /\ ~halted /\ state[s] = "Loading" /\ s # c /\ pc[s] = "fresh"
  BY <1>0, <1>a DEF Publish, At, PrepOK, CurrentOK
<1>c. /\ \A d \in Ctx : pc'[d] = IF d # c THEN pc[d] ELSE IF c = Idle THEN "test" ELSE "user"
      /\ \A d \in Procs : target'[d] = target[d]
      /\ \A i \in Procs : state'[i] = IF i = s THEN "Ready" ELSE state[i]
      /\ IF c = Idle THEN target'[c] = pid[s] /\ runSlot' = s ELSE runSlot' = runSlot
      /\ UNCHANGED <<pid, parent, waited, waitingFor, nextPid, current, halted, next, inIsr>>
  BY <1>0, <1>a, <1>b DEF Publish, Goto, TypeOK, memory
<1>d. \A d \in Ctx : d # c => pc[d] \in {"none", "fresh", "resumed"}
  BY <1>0, <1>b DEF Suspended
<1>2. CalmOK' /\ ChoiceOK' /\ CollectOK' /\ ParentOK'
  BY <1>0, <1>b, <1>c, <1>d DEF CalmOK, ChoiceOK, CollectOK, ParentOK
<1>3. DeadOK' /\ SlotsOK'
  BY <1>0, <1>b, <1>c DEF DeadOK, SlotsOK, InExitLoop
<1>4. RunOK'
  <2>1. runSlot' # Idle => state'[runSlot'] # "Empty"
    BY <1>0, <1>b, <1>c DEF RunOK, TypeOK
  <2>2. CASE c = Idle
    BY <1>0, <1>c, <2>1, <2>2 DEF RunOK, Ready
  <2>3. CASE c # Idle
    BY <1>0, <1>b, <1>c, <2>1, <2>3, IdleAway DEF RunOK
  <2> QED
    BY <2>2, <2>3
<1>5. AnyOK'
  BY <1>0, <1>b, <1>c DEF AnyOK, HasLive, HasZombie, Live, Zombie
<1>6. StuckOK'
  <2>1. PICK S \in SUBSET Procs : Stuck(S) /\ \A i \in Procs : Live(i) /\ waited[i] => i \in S
    BY <1>0 DEF StuckOK
  <2>2. c \notin S /\ s \notin S /\ ~waited[s]
    BY <1>0, <1>b, <2>1 DEF Stuck, Live, SlotsOK
  <2>3. \A i \in Procs : i # s => (Live(i)' <=> Live(i)) /\ (Zombie(i)' <=> Zombie(i))
    BY <1>c DEF Live, Zombie
  <2>4. Stuck(S)'
    BY SMTT(90), <1>0, <1>b, <1>c, <2>1, <2>2, <2>3, StuckStep DEF Stuck, Zombie
  <2> QED
    BY <1>c, <2>1, <2>2, <2>3, <2>4 DEF StuckOK
<1> QED
  BY <1>1, <1>2, <1>3, <1>4, <1>5, <1>6 DEF LInv

\* A status collected preserves the lifecycle invariant.
LEMMA LifeWaitCollect == ASSUME NEW c \in Ctx, LInv, WaitCollect(c) PROVE LInv'
<1>0. /\ TypeOK /\ IdleOK /\ SlotOK /\ Suspended /\ CalmOK /\ ChoiceOK /\ CurrentOK
      /\ DeadOK /\ SlotsOK /\ ParentOK /\ RunOK /\ AnyOK /\ CollectOK /\ StuckOK
  BY Parts
<1>1. CInv' /\ MInv'
  BY CoopWaitCollect, MemWaitCollect DEF LInv
<1>a. PICK s \in Procs : s = slot[c]
  BY <1>0 DEF WaitCollect, At, SlotOK
<1>b. current = c /\ pc[c] = "collect" /\ ~halted /\ Zombie(s) /\ (c # Idle => state[c] = "Running")
  BY <1>0, <1>a DEF WaitCollect, At, CollectOK, CurrentOK
<1>c. /\ \A d \in Ctx : pc'[d] = IF d # c THEN pc[d] ELSE IF c # Idle THEN "user" ELSE IF runSlot # Idle THEN "runDone" ELSE "shell"
      /\ \A d \in Ctx : d # c => target'[d] = target[d]
      /\ waited'[s] /\ \A i \in Procs : i # s => waited'[i] = waited[i]
      /\ UNCHANGED <<state, pid, parent, waitingFor, nextPid, current, halted, next, runSlot, inIsr>>
  BY <1>0, <1>a, <1>b DEF WaitCollect, WaitReturns, Goto, TypeOK, memory
<1>d. \A d \in Ctx : d # c => pc[d] \in {"none", "fresh", "resumed"}
  BY <1>0, <1>b DEF Suspended
<1>2. CalmOK' /\ ChoiceOK' /\ CollectOK' /\ ParentOK'
  BY <1>0, <1>b, <1>c, <1>d DEF CalmOK, ChoiceOK, CollectOK, ParentOK
<1>3. DeadOK' /\ SlotsOK'
  <2>1. state[s] # "Loading"
    BY <1>b DEF Zombie
  <2> QED
    BY <1>0, <1>b, <1>c, <2>1 DEF DeadOK, SlotsOK, InExitLoop
<1>4. RunOK'
  <2>1. CASE c = Idle
    BY <1>0, <1>b, <1>c, <2>1 DEF RunOK, Ready
  <2>2. CASE c # Idle
    BY <1>0, <1>b, <1>c, <2>2, IdleAway DEF RunOK
  <2> QED
    BY <2>1, <2>2
<1>5. AnyOK'
  <2>1. \A p : (HasLive(p)' <=> HasLive(p)) /\ (HasZombie(p)' => HasZombie(p))
    BY <1>c DEF HasLive, HasZombie, Live, Zombie
  <2> QED
    BY <1>0, <1>b, <1>c, <2>1 DEF AnyOK
<1>6. StuckOK'
  <2>1. PICK S \in SUBSET Procs : Stuck(S) /\ \A i \in Procs : Live(i) /\ waited[i] => i \in S
    BY <1>0 DEF StuckOK
  <2>2. c \notin S /\ s \notin S /\ ~Live(s)
    BY <1>b, <2>1 DEF Stuck, Live, Zombie
  <2>3. \A i \in Procs : (Live(i)' <=> Live(i)) /\ (Zombie(i)' <=> Zombie(i))
    BY <1>c DEF Live, Zombie
  <2>4. ASSUME NEW k \in Procs, Zombie(k), waited[k] PROVE Zombie(k)' /\ waited'[k]
    BY <1>c, <2>3, <2>4
  <2>4a. \A i \in S : pc'[i] = pc[i] /\ target'[i] = target[i]
    BY <1>c, <2>2
  <2>5. Stuck(S)'
    BY <1>0, <1>c, <2>1, <2>3, <2>4, <2>4a, StuckStep DEF Stuck
  <2> QED
    BY <1>c, <2>1, <2>2, <2>3, <2>5 DEF StuckOK
<1> QED
  BY <1>1, <1>2, <1>3, <1>4, <1>5, <1>6 DEF LInv

\* With nobody Ready and the console running, every live process is stuck: it is
\* Blocked, on its children or on a pid, and all it waits for are live processes
\* that are Blocked themselves and zombies collected by others.
LEMMA AllStuck ==
  ASSUME LInv, current = Idle, pc[Idle] = "runDone", NEW S, S = {i \in Procs : Live(i)}
  PROVE  Stuck(S)
<1>0. /\ TypeOK /\ RunningIsCurrent /\ Suspended /\ LoadOK /\ BlockOK /\ NoLostWakeup /\ PhaseOK
      /\ DeadOK /\ SlotsOK /\ RunOK /\ AnyOK
  BY Parts
<1>1. \A k \in Procs : state[k] \notin {"Ready", "Loading", "Running"}
  BY <1>0 DEF RunOK, Ready, LoadOK, RunningIsCurrent, DeadOK
<1> SUFFICES ASSUME NEW i \in S
             PROVE  /\ Live(i) /\ target[i] # None /\ pc[i] = "resumed"
                    /\ target[i] = AnyChild =>
                         /\ \E k \in S : parent[k] = pid[i]
                         /\ \A k \in Procs : parent[k] = pid[i] => k \in S \/ (Zombie(k) /\ waited[k])
                    /\ target[i] # AnyChild =>
                         /\ state[i] = "Blocked" /\ target[i] < nextPid
                         /\ \A k \in Procs : pid[k] = target[i] => k \in S \/ (Zombie(k) /\ waited[k])
  BY DEF Stuck
<1>2. i \in Procs /\ Live(i) /\ state[i] = "Blocked" /\ waitingFor[i] = target[i] /\ target[i] # None /\ pid[i] # 0
  BY <1>0, <1>1 DEF Live, SlotsOK
<1>3. pc[i] = "resumed"
  <2>1. pc[i] \in {"none", "fresh", "resumed"}
    BY <1>0, <1>2 DEF Suspended
  <2> QED
    BY <1>0, <1>2, <2>1 DEF PhaseOK
<1>4. \A k \in Procs : Live(k) \/ Zombie(k) \/ (state[k] = "Empty" /\ pid[k] = 0 /\ parent[k] = 0)
  BY <1>0, <1>1 DEF TypeOK, States, Live, Zombie, SlotsOK
<1>5. ASSUME target[i] = AnyChild
      PROVE  /\ \E k \in S : parent[k] = pid[i]
             /\ \A k \in Procs : parent[k] = pid[i] => k \in S \/ (Zombie(k) /\ waited[k])
  BY <1>0, <1>2, <1>4, <1>5 DEF AnyOK, HasLive, HasZombie
<1>6. ASSUME NEW k \in Procs, pid[k] = target[i] PROVE k \in S \/ (Zombie(k) /\ waited[k])
  BY <1>0, <1>2, <1>4, <1>6 DEF NoLostWakeup, None
<1> QED
  BY <1>0, <1>2, <1>3, <1>5, <1>6 DEF BlockOK

\* The end of a run preserves the lifecycle invariant: if the slot it marks has
\* been given to another process by then, that process is stuck.
LEMMA LifeRunDone == ASSUME LInv, RunDone PROVE LInv'
<1>0. /\ TypeOK /\ IdleOK /\ Suspended /\ LoadOK /\ CalmOK /\ ChoiceOK /\ CurrentOK
      /\ DeadOK /\ SlotsOK /\ ParentOK /\ RunOK /\ AnyOK /\ CollectOK
  BY Parts
<1>1. CInv' /\ MInv'
  BY CoopRunDone, MemRunDone DEF LInv
<1>a. PICK s \in Procs : s = runSlot
  BY <1>0 DEF RunDone, At, RunOK, TypeOK
<1>b. current = Idle /\ pc[Idle] = "runDone" /\ ~halted /\ state[s] # "Loading"
  BY <1>0 DEF RunDone, At, LoadOK
<1>c. /\ \A d \in Ctx : pc'[d] = IF d # Idle THEN pc[d] ELSE "shell"
      /\ waited'[s] /\ \A i \in Procs : i # s => waited'[i] = waited[i]
      /\ runSlot' = Idle
      /\ UNCHANGED <<state, pid, parent, waitingFor, nextPid, current, halted, target, slot, next, inIsr>>
  BY <1>0, <1>a DEF RunDone, Goto, TypeOK, memory
<1>d. \A d \in Ctx : d # Idle => pc[d] \in {"none", "fresh", "resumed"}
  BY <1>0, <1>b DEF Suspended
<1>2. CalmOK' /\ ChoiceOK' /\ CollectOK' /\ ParentOK'
  BY <1>0, <1>b, <1>c, <1>d DEF CalmOK, ChoiceOK, CollectOK, ParentOK
<1>3. DeadOK' /\ SlotsOK'
  BY <1>0, <1>b, <1>c DEF DeadOK, SlotsOK, InExitLoop
<1>4. RunOK'
  BY <1>0, <1>b, <1>c DEF RunOK
<1>5. AnyOK'
  <2>1. \A p : (HasLive(p)' <=> HasLive(p)) /\ (HasZombie(p)' => HasZombie(p))
    BY <1>c DEF HasLive, HasZombie, Live, Zombie
  <2> QED
    BY <1>0, <1>b, <1>c, <2>1 DEF AnyOK
<1>6. StuckOK'
  <2>1. PICK S \in SUBSET Procs : S = {i \in Procs : Live(i)}
    OBVIOUS
  <2>2. Stuck(S)
    BY <1>b, <2>1, AllStuck
  <2>3. \A i \in Procs : (Live(i)' <=> Live(i)) /\ (Zombie(i)' <=> Zombie(i))
    BY <1>c DEF Live, Zombie
  <2>4. ASSUME NEW k \in Procs, Zombie(k), waited[k] PROVE Zombie(k)' /\ waited'[k]
    BY <1>c, <2>3, <2>4
  <2>5. Stuck(S)'
    BY <1>0, <1>c, <2>2, <2>3, <2>4, StuckStep DEF Stuck
  <2> QED
    BY <2>1, <2>3, <2>5 DEF StuckOK
<1> QED
  BY <1>1, <1>2, <1>3, <1>4, <1>5, <1>6 DEF LInv

\* A block preserves the lifecycle invariant: nothing has come between the scans
\* and the block, so a process that blocks on its children has a live one and no
\* uncollected one.
LEMMA LifeWaitBlock == ASSUME NEW c \in Ctx, LInv, WaitBlock(c) PROVE LInv'
<1>0. /\ TypeOK /\ IdleOK /\ Suspended /\ MissOK /\ WaitOK /\ CalmOK /\ ChoiceOK /\ CurrentOK
      /\ DeadOK /\ SlotsOK /\ ParentOK /\ RunOK /\ AnyOK /\ CollectOK /\ StuckOK
  BY Parts
<1>1. CInv' /\ MInv'
  BY CoopWaitBlock, MemWaitBlock DEF LInv
<1>b. /\ current = c /\ pc[c] = "block" /\ ~halted /\ target[c] # None
      /\ \A d \in Ctx : pc'[d] = IF d # c THEN pc[d] ELSE "pick"
      /\ UNCHANGED <<pid, parent, waited, nextPid, current, halted, target, slot, next, runSlot, inIsr>>
  BY <1>0 DEF WaitBlock, At, Goto, TypeOK, memory, locals, drain, WaitOK
<1>2. CASE c = Idle
  <2>1. Own(c)
    BY <1>b, <1>2 DEF WaitBlock, Own
  <2>2. RunOK'
    BY <1>0, <1>b, <1>2, <2>1 DEF Own, RunOK, Ready
  <2> QED
    BY <1>1, <1>b, <1>2, <2>1, <2>2, OwnStep DEF InExitLoop
<1>3. CASE c \in Procs
  <2>a. /\ state[c] = "Running"
        /\ \A i \in Procs : state'[i] = IF i = c THEN "Blocked" ELSE state[i]
        /\ \A i \in Procs : waitingFor'[i] = IF i = c THEN target[c] ELSE waitingFor[i]
    BY <1>0, <1>b, <1>3 DEF WaitBlock, CurrentOK, TypeOK
  <2>b. \A i \in Procs : (Live(i)' <=> Live(i)) /\ (Zombie(i)' <=> Zombie(i))
    BY <2>a DEF Live, Zombie
  <2>c. \A d \in Ctx : d # c => pc[d] \in {"none", "fresh", "resumed"}
    BY <1>0, <1>b DEF Suspended
  <2>1. CalmOK' /\ ChoiceOK' /\ CollectOK' /\ ParentOK'
    BY <1>0, <1>b, <2>c DEF CalmOK, ChoiceOK, CollectOK, ParentOK
  <2>2. DeadOK' /\ SlotsOK'
    BY <1>0, <1>b, <2>a DEF DeadOK, SlotsOK, InExitLoop
  <2>3. RunOK'
    <3>1. runSlot # Idle => state'[runSlot] # "Empty"
      BY <1>0, <2>a DEF RunOK, TypeOK
    <3> QED
      BY <1>0, <1>b, <1>3, <3>1, IdleAway DEF RunOK
  <2>4. AnyOK'
    <3>1. \A p : (HasLive(p)' <=> HasLive(p)) /\ (HasZombie(p)' <=> HasZombie(p))
      BY <1>b, <2>b DEF HasLive, HasZombie
    <3>2. target[c] = AnyChild => HasLive(pid[c]) /\ ~HasZombie(pid[c])
      BY <1>0, <1>b, <1>3 DEF AnyOK, MissOK, Collectable, HasZombie, PidOf
    <3> QED
      BY <1>0, <1>b, <2>a, <3>1, <3>2 DEF AnyOK
  <2>5. StuckOK'
    <3>1. PICK S \in SUBSET Procs : Stuck(S) /\ \A i \in Procs : Live(i) /\ waited[i] => i \in S
      BY <1>0 DEF StuckOK
    <3>2. \A i \in S : target[i] # AnyChild => state'[i] = "Blocked"
      BY <2>a, <3>1 DEF Stuck
    <3>3. Stuck(S)'
      BY SMTT(90), <1>0, <1>b, <2>b, <3>1, <3>2, StuckStep DEF Stuck
    <3> QED
      BY <1>b, <2>b, <3>1, <3>3 DEF StuckOK
  <2> QED
    BY <1>1, <2>1, <2>2, <2>3, <2>4, <2>5 DEF LInv
<1> QED
  BY <1>2, <1>3

\* An exit preserves the lifecycle invariant: it wakes everyone who waits for any
\* child, and nobody who is stuck on a pid.
LEMMA LifeExitProcess == ASSUME NEW c \in Ctx, LInv, ExitProcess(c) PROVE LInv'
<1>0. /\ TypeOK /\ IdleOK /\ SlotOK /\ TargetOK /\ Suspended /\ CalmOK /\ ChoiceOK /\ CurrentOK
      /\ DeadOK /\ SlotsOK /\ ParentOK /\ RunOK /\ AnyOK /\ CollectOK /\ StuckOK
  BY Parts
<1>1. CInv' /\ MInv'
  BY CoopExitProcess, MemExitProcess DEF LInv
<1>a. c \in Procs /\ current = c /\ pc[c] = "exit" /\ state[c] = "Running" /\ ~halted
  BY <1>0 DEF ExitProcess, At, IdleOK, CurrentOK
<1>b. /\ \A i \in Procs : state'[i] = IF i = c THEN "Exited"
                                   ELSE IF i \in Woken(pid[c]) THEN "Ready" ELSE state[i]
      /\ \A i \in Procs : waitingFor'[i] = IF i \in Woken(pid[c]) THEN None ELSE waitingFor[i]
      /\ \A d \in Ctx : pc'[d] = IF d # c THEN pc[d] ELSE "pick"
      /\ UNCHANGED <<pid, parent, waited, nextPid, current, halted, target, slot, next, runSlot, inIsr>>
  BY <1>0, <1>a DEF ExitProcess, Goto, TypeOK, memory, locals, drain
<1>c. \A i \in Procs : i \in Woken(pid[c]) <=> state[i] = "Blocked" /\ waitingFor[i] \in {pid[c], AnyChild}
  BY DEF Woken
<1>d. \A d \in Ctx : d # c => pc[d] \in {"none", "fresh", "resumed"}
  BY <1>0, <1>a DEF Suspended
<1>2. CalmOK' /\ ChoiceOK' /\ CollectOK' /\ ParentOK'
  BY <1>0, <1>a, <1>b, <1>d DEF CalmOK, ChoiceOK, CollectOK, ParentOK
<1>3. DeadOK'
  BY <1>0, <1>a, <1>b, <1>c DEF DeadOK, InExitLoop
<1>4. SlotsOK'
  BY <1>0, <1>a, <1>b, <1>c DEF SlotsOK
<1>5. RunOK'
  <2>1. runSlot # Idle => state'[runSlot] # "Empty"
    BY <1>0, <1>b DEF RunOK, TypeOK
  <2> QED
    BY <1>0, <1>a, <1>b, <2>1, IdleAway DEF RunOK
<1>6. AnyOK'
  BY <1>a, <1>b, <1>c DEF AnyOK
<1>7. StuckOK'
  <2>1. PICK S \in SUBSET Procs : Stuck(S) /\ \A i \in Procs : Live(i) /\ waited[i] => i \in S
    BY <1>0 DEF StuckOK
  <2>2. c \notin S /\ ~Zombie(c)
    BY <1>a, <2>1 DEF Stuck, Zombie
  <2>3. \A i \in Procs : i # c => (Live(i)' <=> Live(i)) /\ (Zombie(i)' <=> Zombie(i))
    BY <1>b, <1>c DEF Live, Zombie
  <2>4. ASSUME NEW i \in S, target[i] # AnyChild PROVE state'[i] = "Blocked"
    <3>1. state[i] = "Blocked" /\ i # c /\ waitingFor[i] = target[i]
      BY <1>0, <2>1, <2>2, <2>4 DEF Stuck, SlotsOK
    <3>2. target[i] # pid[c]
      BY <1>a, <2>1, <2>2, <2>4 DEF Stuck
    <3> QED
      BY <1>b, <1>c, <2>4, <3>1, <3>2
  <2>5. \A i \in S : pc'[i] = pc[i] /\ i # c
    BY <1>b, <2>2
  <2>6. Stuck(S)'
    BY SMTT(90), <1>0, <1>b, <2>1, <2>2, <2>3, <2>4, <2>5, StuckStep DEF Stuck
  <2>7. ~Live(c)'
    BY <1>a, <1>b DEF Live
  <2> QED
    BY <1>b, <2>1, <2>3, <2>6, <2>7 DEF StuckOK
<1> QED
  BY <1>1, <1>2, <1>3, <1>4, <1>5, <1>6, <1>7 DEF LInv

\* What a voluntary switch does when no tick interferes: it goes to the console,
\* with nobody Ready, or to a Ready process on its own stack and address space.
LEMMA CleanSwitch ==
  ASSUME NEW c \in Ctx, LInv, Switch(c), NEW n \in Ctx, n = next[c]
  PROVE  /\ n \in Ready \/ (n = Idle /\ Ready = {})
         /\ n \in Procs => n # c
         /\ current = c /\ current' = n /\ ~halted' /\ inIsr' = {}
         /\ cr3' \in spaces \cup {0}
         /\ stacks' = stacks /\ pending' = pending
         /\ \A i \in Procs : state'[i] = IF i = n THEN "Running" ELSE state[i]
         /\ \A d \in Ctx : pc'[d] = IF d # c THEN pc[d] ELSE "resumed"
         /\ UNCHANGED <<pid, parent, waited, waitingFor, nextPid, target, slot, runSlot>>
<1>0. TypeOK /\ CalmOK /\ ChoiceOK /\ CurrentOK /\ Suspended /\ MemOK /\ PhaseOK /\ DeadOK /\ YieldOK
  BY Parts
<1>1. SwitchTo(n, state, inIsr) /\ current = c /\ pc[c] = "switch" /\ ~halted /\ inIsr = {}
  BY <1>0 DEF Switch, At, CalmOK
<1>2. n \in Ready \/ (n = Idle /\ Ready = {})
  BY <1>0, <1>1 DEF ChoiceOK
<1>3. n \in Procs => state[n] = "Ready" /\ n # c
  BY <1>0, <1>1, <1>2 DEF Ready, YieldOK, DeadOK, InExitLoop
<1>4. n \in Procs => /\ rsp[n] = pid[n] /\ pid[n] \in stacks
                     /\ pml4[n] = pid[n] /\ pid[n] \in spaces
  <2>1. ASSUME n \in Procs PROVE pc[n] \in {"fresh", "resumed"} /\ ~InExitLoop(n) /\ Live(n)
    BY <1>0, <1>1, <1>3, <2>1 DEF Suspended, PhaseOK, DeadOK, Live
  <2> QED
    BY <1>0, <1>1, <2>1 DEF MemOK, PastQueue, PastDestroy
<1>5. /\ cr3' = Pml4Of(n) /\ stacks' = stacks /\ pending' = pending
      /\ inIsr' = {} /\ (Pml4Of(n) \in spaces \cup {0} /\ (n = Idle \/ rsp[n] \in stacks) => ~halted')
  BY <1>1 DEF SwitchTo
<1>6. cr3' \in spaces \cup {0} /\ ~halted'
  BY <1>4, <1>5 DEF Pml4Of
<1>7. /\ state' = [i \in Procs |-> IF i = n THEN "Running" ELSE state[i]]
      /\ current' = n
      /\ UNCHANGED <<pid, parent, waited, waitingFor, nextPid>>
  BY SMTT(90), <1>0, <1>1, SwitchFacts DEF TypeOK
<1>8. /\ \A d \in Ctx : pc'[d] = IF d # c THEN pc[d] ELSE "resumed"
      /\ UNCHANGED <<target, slot, runSlot>>
  BY <1>0 DEF Switch, Goto, TypeOK
<1> QED
  BY <1>1, <1>2, <1>3, <1>5, <1>6, <1>7, <1>8

\* A voluntary switch preserves the lifecycle invariant.
LEMMA LifeSwitch == ASSUME NEW c \in Ctx, LInv, Switch(c) PROVE LInv'
<1>0. /\ TypeOK /\ IdleOK /\ Suspended /\ CalmOK /\ PhaseOK
      /\ DeadOK /\ SlotsOK /\ RunOK /\ AnyOK /\ CollectOK /\ StuckOK
  BY Parts
<1>1. CInv' /\ MInv'
  BY CoopSwitch, MemSwitch DEF LInv
<1>a. PICK n \in Ctx : n = next[c]
  BY <1>0 DEF TypeOK
<1>b. /\ n \in Ready \/ (n = Idle /\ Ready = {})
      /\ n \in Procs => n # c
      /\ current = c /\ current' = n /\ ~halted' /\ inIsr' = {}
      /\ \A i \in Procs : state'[i] = IF i = n THEN "Running" ELSE state[i]
      /\ \A d \in Ctx : pc'[d] = IF d # c THEN pc[d] ELSE "resumed"
      /\ UNCHANGED <<pid, parent, waited, waitingFor, nextPid, target, slot, runSlot>>
  BY <1>a, CleanSwitch
<1>c. pc[c] = "switch" /\ (n \in Procs => state[n] = "Ready")
  BY <1>b DEF Switch, At, Ready
<1>d. \A d \in Ctx : pc'[d] \in {"none", "fresh", "resumed"}
  BY <1>0, <1>b DEF Suspended
<1>e. \A i \in Procs : (Live(i)' <=> Live(i)) /\ (Zombie(i)' <=> Zombie(i))
  BY <1>b, <1>c DEF Live, Zombie
<1>2. CalmOK' /\ ChoiceOK' /\ CollectOK' /\ ParentOK'
  BY <1>b, <1>d DEF CalmOK, ChoiceOK, CollectOK, ParentOK
<1>3. DeadOK' /\ SlotsOK'
  BY <1>0, <1>b, <1>c DEF DeadOK, SlotsOK, InExitLoop
<1>4. RunOK'
  <2>1. runSlot # Idle => state'[runSlot] # "Empty"
    BY <1>0, <1>b DEF RunOK, TypeOK
  <2>2. pc'[Idle] = "resumed"
    BY <1>0, <1>b, IdleAway
  <2>3. n = Idle => Ready' = {}
    BY <1>b DEF Ready
  <2> QED
    BY <1>b, <2>1, <2>2, <2>3 DEF RunOK
<1>5. AnyOK'
  <2>1. \A p : (HasLive(p)' <=> HasLive(p)) /\ (HasZombie(p)' <=> HasZombie(p))
    BY <1>b, <1>e DEF HasLive, HasZombie
  <2> QED
    BY <1>0, <1>b, <1>d, <2>1 DEF AnyOK
<1>6. StuckOK'
  <2>1. PICK S \in SUBSET Procs : Stuck(S) /\ \A i \in Procs : Live(i) /\ waited[i] => i \in S
    BY <1>0 DEF StuckOK
  <2>2. \A i \in S : target[i] # AnyChild => state'[i] = "Blocked"
    BY <1>b, <1>c, <2>1 DEF Stuck
  <2>3. \A i \in S : pc'[i] \in LoopLabels
    BY <1>b, <2>1 DEF Stuck
  <2>4. Stuck(S)'
    BY <1>0, <1>b, <1>e, <2>1, <2>2, <2>3, StuckStep DEF Stuck
  <2> QED
    BY <1>b, <1>e, <2>1, <2>4 DEF StuckOK
<1> QED
  BY <1>1, <1>2, <1>3, <1>4, <1>5, <1>6 DEF LInv

\* A spawn preserves the lifecycle invariant: it takes nothing a blocked process
\* waits for, and its pid is new.
LEMMA LifeSpawn ==
  ASSUME NEW c \in Ctx, LInv, ~halted, current = c, ProcessSpawn(c),
         IF c = Idle THEN pc[c] = "shell" ELSE pc[c] = "user"
  PROVE  LInv'
<1>0. /\ TypeOK /\ IdleOK /\ Suspended /\ CurrentOK /\ CalmOK /\ ChoiceOK /\ PidsOK /\ BlockOK
      /\ DeadOK /\ SlotsOK /\ ParentOK /\ RunOK /\ AnyOK /\ CollectOK /\ StuckOK
  BY Parts
<1>1. CInv' /\ MInv'
  BY CoopSpawn, MemSpawn DEF LInv
<1>a. /\ nextPid \in Pids /\ nextPid' = nextPid + 1 /\ UNCHANGED <<current, halted, runSlot>>
      /\ \A t \in Targets : t < nextPid => t < nextPid' /\ t # nextPid
  BY <1>0, SchedulerAssumption DEF ProcessSpawn, memory, TypeOK, Pids, Targets, None, AnyChild
<1>b. PICK S \in SUBSET Procs : Stuck(S) /\ \A i \in Procs : Live(i) /\ waited[i] => i \in S
  BY <1>0 DEF StuckOK
<1>c. c \notin S /\ \A i \in S : target[i] # AnyChild => target[i] < nextPid' /\ target[i] # nextPid
  BY <1>0, <1>a, <1>b DEF Stuck, TypeOK
<1>2. CASE UNCHANGED <<table, pc, target, slot, next, drain, inIsr>>
  <2> USE <1>0, <1>2, <1>a DEF table
  <2>1. CalmOK' /\ ChoiceOK' /\ CollectOK' /\ ParentOK'
    BY DEF CalmOK, ChoiceOK, CollectOK, ParentOK, Ready, PidOf, Zombie
  <2>2. DeadOK' /\ SlotsOK' /\ RunOK'
    BY DEF DeadOK, SlotsOK, InExitLoop, RunOK, Ready
  <2>3. AnyOK'
    BY DEF AnyOK, HasLive, HasZombie, Live, Zombie
  <2>4. Stuck(S)'
    BY <1>b, <1>c DEF Stuck, Live, Zombie
  <2>5. StuckOK'
    BY <1>b, <2>4 DEF StuckOK, Live
  <2> QED
    BY <1>1, <2>1, <2>2, <2>3, <2>5 DEF LInv
<1>3. ASSUME NEW s \in Procs, IsLowest(s, Claimable), Claim(c, s) PROVE LInv'
  <2>a. state[s] = "Empty" \/ (Zombie(s) /\ waited[s])
    BY <1>3 DEF IsLowest, Claimable, EmptySlots, ReapableSlots
  <2>b. s # c /\ state[s] \in {"Empty", "Exited", "Failed"} /\ ~Live(s) /\ s \notin S
    BY <1>0, <1>b, <2>a DEF CurrentOK, Live, Zombie, Stuck
  <2>c. /\ \A d \in Ctx : pc'[d] = IF d = s THEN "none" ELSE IF d = c THEN "claimed" ELSE pc[d]
        /\ \A d \in Ctx : slot'[d] = IF d = s THEN Idle ELSE IF d = c THEN s ELSE slot[d]
        /\ \A d \in Ctx : d # s => target'[d] = target[d]
        /\ inIsr' = inIsr \ {s}
    BY <1>0, <1>3, <2>b DEF Claim, ClaimWith, TypeOK
  <2>d. /\ \A j \in Procs : state'[j] = IF j = s THEN "Loading" ELSE state[j]
        /\ \A j \in Procs : pid'[j] = IF j = s THEN nextPid ELSE pid[j]
        /\ \A j \in Procs : parent'[j] = IF j = s THEN PidOf(c) ELSE parent[j]
        /\ ~waited'[s] /\ \A j \in Procs : j # s => waited'[j] = waited[j]
        /\ \A j \in Procs : j # s => waitingFor'[j] = waitingFor[j]
    BY <1>0, <1>3 DEF Claim, ClaimWith, TypeOK
  <2>e. \A d \in Ctx : d # c => pc[d] \in {"none", "fresh", "resumed"}
    BY <1>0 DEF Suspended
  <2>f. /\ Ready' = Ready
        /\ \A j \in Procs : (Live(j)' <=> Live(j)) /\ (j # s => (Zombie(j)' <=> Zombie(j)))
        /\ ~Live(s)' /\ ~Zombie(s)'
    BY <2>b, <2>d DEF Ready, Live, Zombie
  <2>g. \A j \in Procs : j # c /\ pid[j] # 0 => pid[j] # PidOf(c)
    BY <1>0 DEF PidsOK, PidOf
  <2>1. CalmOK' /\ ChoiceOK' /\ CollectOK' /\ ParentOK'
    BY <1>0, <1>a, <2>b, <2>c, <2>d, <2>e DEF CalmOK, ChoiceOK, CollectOK, ParentOK, PidOf
  <2>2. DeadOK' /\ SlotsOK'
    BY <1>0, <1>a, <2>b, <2>c, <2>d DEF DeadOK, SlotsOK, InExitLoop
  <2>3. RunOK'
    <3>1. runSlot # Idle => state'[runSlot] # "Empty"
      BY <1>0, <2>d DEF RunOK, TypeOK
    <3>2. CASE c = Idle
      BY <1>0, <1>a, <2>b, <2>c, <3>1, <3>2 DEF RunOK
    <3>3. CASE c # Idle
      BY <1>0, <1>a, <2>c, <3>1, <3>3, IdleAway DEF RunOK
    <3> QED
      BY <3>2, <3>3
  <2>4. AnyOK'
    <3>1. ASSUME NEW p, HasLive(p) PROVE HasLive(p)'
      BY <2>b, <2>d, <2>f, <3>1 DEF HasLive
    <3>2. ASSUME NEW p, HasZombie(p)' PROVE HasZombie(p)
      BY <2>d, <2>f, <3>2 DEF HasZombie
    <3>3. \A j \in Procs : state'[j] = "Blocked" => j # s /\ state[j] = "Blocked"
      BY <2>d
    <3>4. \A j \in Procs : j # s => pid'[j] = pid[j] /\ waitingFor'[j] = waitingFor[j]
      BY <2>d
    <3>5. pc'[current'] # "block"
      BY <1>a, <2>b, <2>c
    <3> QED
      BY <1>0, <3>1, <3>2, <3>3, <3>4, <3>5 DEF AnyOK
  <2>5. StuckOK'
    <3>1. \A i \in S : pc'[i] = pc[i] /\ target'[i] = target[i] /\ pid'[i] = pid[i]
                       /\ parent'[i] = parent[i] /\ state'[i] = state[i]
      BY <1>c, <2>b, <2>c, <2>d
    <3>2. \A i \in S : pid'[s] # target[i] /\ parent'[s] # pid[i]
      BY <1>0, <1>a, <1>b, <1>c, <2>d, <2>g DEF Stuck, SlotsOK, Live, Pids, AnyChild
    <3>3. \A k \in Procs : k \notin S /\ k # s =>
            \/ Zombie(k)' /\ waited'[k]
            \/ pid'[k] = pid[k] /\ parent'[k] = parent[k] /\ ~(Zombie(k) /\ waited[k])
      BY <2>d, <2>f
    <3>4. \A k \in Procs : k \notin S =>
            \/ Zombie(k)' /\ waited'[k]
            \/ pid'[k] = pid[k] /\ parent'[k] = parent[k] /\ ~(Zombie(k) /\ waited[k])
            \/ \A i \in S : pid'[k] # target[i] /\ parent'[k] # pid[i]
      BY <3>2, <3>3
    <3>5. \A i \in S : /\ Live(i)' /\ pc'[i] \in LoopLabels
                       /\ target[i] # AnyChild => state'[i] = "Blocked" /\ target[i] < nextPid'
      BY <1>b, <1>c, <2>f, <3>1 DEF Stuck
    <3>6. Stuck(S)'
      BY <1>0, <1>b, <3>1, <3>4, <3>5, StuckStep
    <3> QED
      BY <1>b, <2>d, <2>f, <3>6 DEF StuckOK
  <2> QED
    BY <1>1, <2>1, <2>2, <2>3, <2>4, <2>5 DEF LInv
<1> QED
  BY <1>2, <1>3 DEF ProcessSpawn

-----------------------------------------------------------------------------
\* The initial state satisfies the lifecycle invariant.
LEMMA LifeInit == Init => LInv
<1> SUFFICES ASSUME Init PROVE LInv
  OBVIOUS
<1>1. CInv /\ MInv
  BY CoopInit, MemInit
<1> USE DEF Init
<1>2. CalmOK /\ ChoiceOK /\ DeadOK /\ SlotsOK
  BY DEF CalmOK, ChoiceOK, DeadOK, SlotsOK, InExitLoop
<1>3. ParentOK /\ RunOK /\ AnyOK
  BY DEF ParentOK, RunOK, AnyOK
<1>4. CollectOK
  BY DEF CollectOK
<1>5. StuckOK
  <2>1. {} \in SUBSET Procs /\ Stuck({})
    BY DEF Stuck
  <2>2. \A i \in Procs : ~Live(i)
    BY DEF Live
  <2> QED
    BY <2>1, <2>2 DEF StuckOK
<1> QED
  BY <1>1, <1>2, <1>3, <1>4, <1>5 DEF LInv

\* A stuttering step preserves the lifecycle invariant.
LEMMA LifeStutter == ASSUME Preemptive = FALSE, LInv, UNCHANGED vars PROVE LInv'
<1>0. /\ CInv /\ MInv /\ CalmOK /\ ChoiceOK /\ DeadOK /\ SlotsOK /\ ParentOK /\ RunOK /\ AnyOK
      /\ CollectOK /\ StuckOK
  BY DEF LInv
<1>1. CInv' /\ MInv'
  BY <1>0, CoopNext, MemNext
<1> USE DEF vars, table, memory, locals, drain
<1>2. CalmOK' /\ ChoiceOK' /\ DeadOK' /\ SlotsOK'
  BY <1>0 DEF CalmOK, ChoiceOK, DeadOK, SlotsOK, InExitLoop, Ready
<1>3. ParentOK' /\ RunOK' /\ AnyOK'
  BY <1>0 DEF ParentOK, RunOK, AnyOK, PidOf, Ready, HasLive, HasZombie, Live, Zombie
<1>4. CollectOK'
  BY <1>0 DEF CollectOK, Zombie
<1>5. StuckOK'
  BY <1>0 DEF StuckOK, Stuck, Live, Zombie
<1> QED
  BY <1>1, <1>2, <1>3, <1>4, <1>5 DEF LInv

\* Every step taken without the tick preserves the lifecycle invariant.
LEMMA LifeNext == ASSUME Preemptive = FALSE PROVE LInv /\ [Next]_vars => LInv'
<1> SUFFICES ASSUME LInv, [Next]_vars PROVE LInv'
  OBVIOUS
<1>1. ~Tick
  BY DEF Tick, Preemptible
<1>2. CASE ShellStep
  <2>1. CASE RunProgram
    BY <2>1, LifeSpawn DEF RunProgram, At
  <2> QED
    BY <1>2, <2>1, LifeRunNotFound, LifeRunDone, LifeShellWait DEF ShellStep
<1>3. ASSUME NEW c \in Ctx, KernelStep(c) PROVE LInv'
  BY <1>3, LifePrepareSpace, LifePrepareFails, LifeLoadElf, LifeCreateStack, LifePublish,
     LifeWaitTest, LifeWaitCollect, LifeWaitMiss, LifeWaitFind, LifeWaitBlock,
     LifePickNextReady, LifeSwitch, LifeResumed, LifeTake, LifeReclaim, LifeYielded, LifeTrampoline,
     LifeExitDestroy, LifeExitCr3, LifeExitUnlink, LifeExitQueue, LifeExitStore, LifeExitProcess
  DEF KernelStep
<1>4. ASSUME NEW c \in Procs, UserStep(c) PROVE LInv'
  <2>1. CASE UserSpawn(c)
    BY <2>1, LifeSpawn DEF UserSpawn, At
  <2> QED
    BY <1>4, <2>1, LifeUserWait, LifeUserExit DEF UserStep
<1> QED
  BY <1>1, <1>2, <1>3, <1>4, LifeStutter DEF Next

\* The lifecycle invariant holds in every reachable state as long as no tick moves
\* the CPU, for every PROCESS_COUNT.
THEOREM LifeHolds == ASSUME Preemptive = FALSE PROVE Spec => []LInv
<1>1. LInv /\ [Next]_vars => LInv'
  BY LifeNext
<1> QED
  BY <1>1, LifeInit, PTL DEF Spec

\* Without ticks no context ever pops registers off an unmapped stack: the fault
\* handlers never stop the machine.
THEOREM NeverHalts == ASSUME Preemptive = FALSE PROVE Spec => []~halted
<1>1. LInv => ~halted
  BY DEF LInv, CalmOK
<1> QED
  BY <1>1, LifeHolds, PTL

-----------------------------------------------------------------------------
(* What a step may never do.  Only a switch moves the CPU, only a resumption    *)
(* reclaims stacks, and only an exit makes a live slot Exited.                  *)

\* What a step may do to the CPU, the stacks and a live slot
StepOK ==
  /\ current' # current => cr3' \in spaces \cup {0}
  /\ \A i \in Procs : pid[i] \in stacks \ stacks' => state[i] = "Exited"
  /\ \A i \in Procs : Live(i) /\ state'[i] = "Exited" => ~waited'[i]

\* Every step from a state that satisfies the lifecycle invariant is such a step.
LEMMA StepFacts == ASSUME Preemptive = FALSE, LInv, [Next]_vars PROVE StepOK
<1>0. /\ TypeOK /\ IdleOK /\ SlotOK /\ CurrentOK /\ CalmOK /\ PrepOK /\ Suspended /\ DeadOK /\ MemOK /\ StuckOK
  BY Parts
<1>1. ~Tick
  BY DEF Tick, Preemptible
<1>a. ASSUME UNCHANGED <<current, stacks>>, \A i \in Procs : Live(i) => state'[i] # "Exited" PROVE StepOK
  BY <1>a DEF StepOK
<1>b. ASSUME UNCHANGED <<current, stacks, state>> PROVE StepOK
  BY <1>a, <1>b DEF Live
<1>2. ASSUME NEW c \in Ctx, ProcessSpawn(c) PROVE StepOK
  <2>1. \A i \in Procs : Live(i) => state'[i] # "Exited"
    <3>1. UNCHANGED state \/ \E i \in Procs : state' = [state EXCEPT ![i] = "Loading"]
      BY <1>2 DEF ProcessSpawn, Claim, ClaimWith, table
    <3> QED
      BY <1>0, <3>1 DEF Live, TypeOK
  <2> QED
    BY <1>2, <1>a, <2>1 DEF ProcessSpawn, memory
<1>3. CASE ShellStep
  <2>1. CASE RunNotFound
    <3>1. \A i \in Procs : Live(i) => state'[i] # "Exited"
      BY <1>0, <2>1 DEF RunNotFound, Live, TypeOK
    <3> QED
      BY <1>a, <2>1, <3>1 DEF RunNotFound, memory
  <2>2. CASE RunDone
    BY <1>b, <2>2 DEF RunDone, memory
  <2>3. ASSUME NEW t \in Pids \cup {AnyChild}, ShellWait(t) PROVE StepOK
    BY <1>b, <2>3 DEF ShellWait, memory, table
  <2> QED
    BY <1>2, <1>3, <2>1, <2>2, <2>3 DEF ShellStep, RunProgram
<1>4. ASSUME NEW c \in Ctx, KernelStep(c) PROVE StepOK
  <2>1. CASE PrepareSpaceFails(c) \/ LoadElfFails(c) \/ CreateStackFails(c)
    <3>1. PrepareFails(c)
      BY <2>1 DEF PrepareSpaceFails, LoadElfFails, CreateStackFails
    <3>2. \A i \in Procs : Live(i) => state'[i] # "Exited"
      BY <1>0, <3>1 DEF PrepareFails, PrepareFailsWith, Live, TypeOK
    <3> QED
      BY <1>a, <3>1, <3>2 DEF PrepareFails, PrepareFailsWith
  <2>2. CASE PrepareSpace(c) \/ LoadElf(c)
    BY <1>b, <2>2 DEF PrepareSpace, LoadElf, table
  <2>3. CASE CreateStack(c)
    BY <2>3 DEF CreateStack, StackWith, Live, StepOK
  <2>4. CASE Publish(c)
    <3>1. \A i \in Procs : Live(i) => state'[i] # "Exited"
      BY <1>0, <2>4 DEF Publish, Live, TypeOK
    <3> QED
      BY <1>a, <2>4, <3>1 DEF Publish, memory
  <2>5. CASE WaitTest(c) \/ WaitCollect(c) \/ WaitMiss(c) \/ WaitFind(c)
    BY <1>b, <2>5 DEF WaitTest, WaitCollect, WaitMiss, WaitFind, table, memory
  <2>6. CASE WaitBlock(c)
    <3>1. \A i \in Procs : Live(i) => state'[i] # "Exited"
      BY <1>0, <2>6 DEF WaitBlock, Live, TypeOK
    <3> QED
      BY <1>a, <2>6, <3>1 DEF WaitBlock, memory
  <2>7. CASE PickNextReady(c)
    BY <1>b, <2>7 DEF PickNextReady, PickWith, table, memory
  <2>8. CASE Switch(c)
    <3>1. PICK n \in Ctx : n = next[c]
      BY <1>0 DEF TypeOK
    <3>2. /\ n \in Ready \/ n = Idle
          /\ current' = n /\ cr3' \in spaces \cup {0} /\ stacks' = stacks
          /\ \A i \in Procs : state'[i] = IF i = n THEN "Running" ELSE state[i]
      BY <2>8, <3>1, CleanSwitch
    <3> QED
      BY <3>2 DEF Live, StepOK, Ready
  <2>9. CASE Reclaim(c)
    <3>1. /\ current = c /\ pc[c] = "reclaim" /\ stacks' = stacks \ {taken[c]}
          /\ UNCHANGED <<current, state>>
      BY <2>9 DEF Reclaim, At, table
    <3>2. ASSUME NEW i \in Procs, pid[i] \in stacks, pid[i] = taken[c] PROVE state[i] = "Exited"
      <4>1. pid[i] \in Doomed
        BY <1>0, <3>2 DEF Doomed, TypeOK
      <4> QED
        BY <1>0, <3>1, <4>1 DEF MemOK, PastQueue, Suspended, DeadOK
    <3> QED
      BY <3>1, <3>2 DEF Live, StepOK
  <2>10. CASE Resumed(c) \/ Take(c) \/ Yielded(c) \/ Trampoline(c)
    BY <1>b, <2>10 DEF Resumed, Take, Yielded, Trampoline, table, memory
  <2>11. CASE ExitDestroy(c) \/ ExitCr3(c) \/ ExitUnlink(c) \/ ExitQueue(c) \/ ExitStore(c)
    BY <1>b, <2>11 DEF ExitDestroy, ExitCr3, ExitUnlink, ExitQueue, ExitStore, StoreWith, table, memory
  <2>12. CASE ExitProcess(c)
    <3>1. /\ c \in Procs /\ pc[c] = "exit" /\ state[c] = "Running" /\ UNCHANGED <<current, stacks, waited>>
          /\ \A i \in Procs : i # c => state'[i] \in {"Ready", state[i]}
      BY <1>0, <2>12 DEF ExitProcess, At, memory, IdleOK, CurrentOK
    <3>2. ~waited[c]
      BY <1>0, <3>1 DEF StuckOK, Stuck, Live
    <3> QED
      BY <3>1, <3>2 DEF Live, StepOK
  <2> QED
    BY <1>4, <2>1, <2>2, <2>3, <2>4, <2>5, <2>6, <2>7, <2>8, <2>9, <2>10, <2>11, <2>12 DEF KernelStep
<1>5. ASSUME NEW c \in Procs, UserStep(c) PROVE StepOK
  <2>1. CASE UserSpawn(c)
    BY <1>2, <2>1 DEF UserSpawn
  <2>2. ASSUME NEW t \in Pids \cup {AnyChild}, UserWait(c, t) PROVE StepOK
    BY <1>b, <2>2 DEF UserWait, table, memory
  <2>3. CASE UserExit(c)
    BY <1>b, <2>3 DEF UserExit, table, memory
  <2> QED
    BY <1>5, <2>1, <2>2, <2>3 DEF UserStep
<1>6. CASE UNCHANGED vars
  BY <1>b, <1>6 DEF vars, table, memory
<1> QED
  BY <1>1, <1>3, <1>4, <1>5, <1>6 DEF Next

\* switch_to never leaves CR3 on a freed page table.
THEOREM SwitchesClean == ASSUME Preemptive = FALSE PROVE Spec => NoDanglingSwitch
<1>1. LInv /\ [Next]_vars => [current' # current => cr3' \in spaces \cup {0}]_vars
  BY StepFacts DEF StepOK
<1> QED
  BY <1>1, LifeHolds, PTL DEF Spec, NoDanglingSwitch

\* reclaim_pending_stacks unmaps the stacks of Exited processes only.
THEOREM ReclaimsDead == ASSUME Preemptive = FALSE PROVE Spec => ReclaimsExitedOnly
<1>1. LInv /\ [Next]_vars => [\A i \in Procs : pid[i] \in stacks \ stacks' => state[i] = "Exited"]_vars
  BY StepFacts DEF StepOK
<1> QED
  BY <1>1, LifeHolds, PTL DEF Spec, ReclaimsExitedOnly

\* Every exit leaves a status to collect.  run_program's late store to `waited' may
\* strike a slot that was reaped and handed out again, but then its process is
\* stuck and never exits.
THEOREM ExitsLeaveStatus == ASSUME Preemptive = FALSE PROVE Spec => ExitLeavesStatus
<1>1. LInv /\ [Next]_vars => [\A i \in Procs : Live(i) /\ state'[i] = "Exited" => ~waited'[i]]_vars
  BY StepFacts DEF StepOK
<1> QED
  BY <1>1, LifeHolds, PTL DEF Spec, ExitLeavesStatus

-----------------------------------------------------------------------------
(* The table implements ProcLife. *)

\* Where the process of a slot is in its life
Phase(i) ==
  CASE state[i] = "Loading" -> "loading"
    [] Live(i) -> "live"
    [] Zombie(i) /\ ~waited[i] -> "zombie"
    [] OTHER -> "reaped"

\* What the refinement mapping says of each pid
LifeFacts ==
  /\ Life = [p \in Pids |-> Life[p]]
  /\ \A i \in Procs : state[i] # "Empty" => pid[i] \in Pids /\ Life[pid[i]] = Phase(i)
  /\ \A p \in Pids : p >= nextPid => Life[p] = "unborn"
  /\ \A p \in Pids : p < nextPid /\ (\A i \in Procs : state[i] # "Empty" => pid[i] # p) => Life[p] = "gone"

\* Pids are unique, so the mapping reads the one slot of each.
LEMMA LifeValues == TypeOK /\ PidsOK /\ SlotsOK => LifeFacts
<1> SUFFICES ASSUME TypeOK, PidsOK, SlotsOK PROVE LifeFacts
  OBVIOUS
<1>1. Life = [p \in Pids |-> Life[p]]
  BY DEF Life
<1>2. ASSUME NEW i \in Procs, state[i] # "Empty" PROVE pid[i] \in Pids /\ Life[pid[i]] = Phase(i)
  <2>1. pid[i] \in Pids /\ ~(pid[i] >= nextPid)
    BY <1>2, SchedulerAssumption DEF TypeOK, PidsOK, SlotsOK, Pids
  <2>2. PICK q \in Pids : q = pid[i]
    BY <2>1
  <2>3. (CHOOSE j \in Procs : state[j] # "Empty" /\ pid[j] = q) = i
    BY <1>2, <2>2 DEF PidsOK, SlotsOK
  <2> QED
    BY SMTT(40), <1>2, <2>1, <2>2, <2>3 DEF Life, Phase
<1>3. ASSUME NEW p \in Pids, p >= nextPid PROVE Life[p] = "unborn"
  BY <1>3 DEF Life
<1>4. ASSUME NEW p \in Pids, p < nextPid, \A i \in Procs : state[i] # "Empty" => pid[i] # p
      PROVE  Life[p] = "gone"
  <2>1. ~(p >= nextPid)
    BY <1>4, SchedulerAssumption DEF TypeOK, Pids
  <2> QED
    BY <1>4, <2>1 DEF Life
<1> QED
  BY <1>1, <1>2, <1>3, <1>4 DEF LifeFacts

\* The mapping before and after a step of the program
LEMMA LifeBefore == ASSUME LInv, LInv' PROVE LifeFacts /\ LifeFacts'
<1>1. (TypeOK /\ PidsOK /\ SlotsOK)
  BY Parts
<1>2. (TypeOK /\ PidsOK /\ SlotsOK)'
  BY DEF LInv, MInv, IInv
<1>3. (TypeOK /\ PidsOK /\ SlotsOK => LifeFacts)'
  BY LifeValues, PTL
<1> QED
  BY <1>1, <1>2, <1>3, LifeValues

\* A step that changes the state of one process moves one pid.
LEMMA OneMoves ==
  ASSUME LInv, LInv', UNCHANGED <<pid, nextPid>>, NEW s \in Procs, state[s] # "Empty", state'[s] # "Empty",
         \A i \in Procs : i # s => Phase(i)' = Phase(i) /\ (state'[i] = "Empty" <=> state[i] = "Empty")
  PROVE  /\ pid[s] \in Pids /\ Life[pid[s]] = Phase(s)
         /\ Life' = [Life EXCEPT ![pid[s]] = Phase(s)']
<1>0. TypeOK /\ PidsOK /\ SlotsOK
  BY Parts
<1>1. LifeFacts /\ LifeFacts'
  BY LifeBefore
<1>2. pid[s] \in Pids /\ Life[pid[s]] = Phase(s) /\ Life'[pid[s]] = Phase(s)'
  BY <1>1 DEF LifeFacts
<1>3. ASSUME NEW p \in Pids, p # pid[s] PROVE Life'[p] = Life[p]
  <2>1. CASE p >= nextPid
    BY <1>1, <2>1 DEF LifeFacts
  <2>2. CASE \E i \in Procs : state[i] # "Empty" /\ pid[i] = p
    <3>1. PICK i \in Procs : state[i] # "Empty" /\ pid[i] = p
      BY <2>2
    <3>2. i # s /\ Phase(i)' = Phase(i) /\ state'[i] # "Empty"
      BY <1>3, <3>1
    <3> QED
      BY <1>1, <3>1, <3>2 DEF LifeFacts
  <2>3. CASE p < nextPid /\ \A i \in Procs : state[i] # "Empty" => pid[i] # p
    <3>1. \A i \in Procs : state'[i] # "Empty" => pid'[i] # p
      BY <1>3, <2>3
    <3> QED
      BY <1>1, <2>3, <3>1 DEF LifeFacts
  <2>4. p >= nextPid \/ p < nextPid
    BY <1>0, SchedulerAssumption DEF TypeOK, Pids
  <2> QED
    BY <2>1, <2>2, <2>3, <2>4
<1>4. Life = [p \in Pids |-> Life[p]] /\ Life' = [p \in Pids |-> Life'[p]]
  BY <1>1 DEF LifeFacts
<1> QED
  BY <1>2, <1>3, <1>4

\* A step that changes nobody's phase leaves the mapping alone.
LEMMA NoneMoves ==
  ASSUME LInv, LInv', UNCHANGED <<pid, nextPid>>,
         \A i \in Procs : Phase(i)' = Phase(i) /\ (state'[i] = "Empty" <=> state[i] = "Empty")
  PROVE  Life' = Life
<1>0. TypeOK /\ PidsOK /\ SlotsOK
  BY Parts
<1>1. LifeFacts /\ LifeFacts'
  BY LifeBefore
<1>2. ASSUME NEW p \in Pids PROVE Life'[p] = Life[p]
  <2>1. CASE p >= nextPid
    BY <1>1, <2>1 DEF LifeFacts
  <2>2. CASE \E i \in Procs : state[i] # "Empty" /\ pid[i] = p
    BY <1>1, <2>2 DEF LifeFacts
  <2>3. CASE p < nextPid /\ \A i \in Procs : state[i] # "Empty" => pid[i] # p
    BY <1>1, <2>3 DEF LifeFacts
  <2>4. p >= nextPid \/ p < nextPid
    BY <1>0, SchedulerAssumption DEF TypeOK, Pids
  <2> QED
    BY <2>1, <2>2, <2>3, <2>4
<1>3. Life = [p \in Pids |-> Life[p]] /\ Life' = [p \in Pids |-> Life'[p]]
  BY <1>1 DEF LifeFacts
<1> QED
  BY <1>2, <1>3

\* A spawn moves the new pid, and the pid whose slot it takes.
LEMMA SpawnRefines ==
  ASSUME LInv, LInv', NEW c \in Ctx, current = c, ProcessSpawn(c)
  PROVE  Lifecycle!Next
<1>0. TypeOK /\ PidsOK /\ SlotsOK /\ CurrentOK /\ CalmOK
  BY Parts
<1>1. LifeFacts /\ LifeFacts'
  BY LifeBefore
<1>2. PICK n \in Pids : n = nextPid
  BY <1>0 DEF ProcessSpawn, TypeOK
<1>3. nextPid' = n + 1 /\ (\A p \in Pids : (p < n => p < n + 1 /\ ~(p >= n)) /\ (p # n /\ p >= n => p >= n + 1)) /\ n < n + 1
  BY <1>2, SchedulerAssumption DEF ProcessSpawn, Pids
<1>4. Life[n] = "unborn"
  BY <1>1, <1>2, <1>3, SchedulerAssumption DEF LifeFacts, Pids
<1>5. \A i \in Procs : pid[i] # n /\ (state[i] # "Empty" => pid[i] \in Pids)
  <2>1. \A i \in Procs : pid[i] \in Int /\ pid[i] < n
    BY <1>0, <1>2 DEF PidsOK, TypeOK
  <2>2. \A i \in Procs : state[i] # "Empty" => pid[i] \in Pids
    BY <1>1 DEF LifeFacts
  <2> QED
    BY <2>1, <2>2, <1>2 DEF Pids
<1>6. Life = [p \in Pids |-> Life[p]] /\ Life' = [p \in Pids |-> Life'[p]]
  BY <1>1 DEF LifeFacts
<1>7. CASE UNCHANGED <<table, pc, target, slot, next, drain, inIsr>>
  <2>1. UNCHANGED <<state, pid, waited>>
    BY <1>7 DEF table
  <2>2. Life'[n] = "gone"
    BY <1>1, <1>3, <1>5, <2>1 DEF LifeFacts
  <2>3. ASSUME NEW p \in Pids, p # n PROVE Life'[p] = Life[p]
    <3>1. CASE p >= n
      BY <1>1, <1>2, <1>3, <2>3, <3>1 DEF LifeFacts
    <3>2. CASE \E i \in Procs : state[i] # "Empty" /\ pid[i] = p
      BY <1>1, <2>1, <3>2 DEF LifeFacts, Phase, Live, Zombie
    <3>3. CASE p < n /\ \A i \in Procs : state[i] # "Empty" => pid[i] # p
      BY <1>1, <1>2, <1>3, <2>1, <3>3 DEF LifeFacts
    <3>4. p >= n \/ p < n
      BY SchedulerAssumption DEF Pids
    <3> QED
      BY <3>1, <3>2, <3>3, <3>4
  <2>4. Life' = [Life EXCEPT ![n] = "gone"]
    BY <1>6, <2>2, <2>3
  <2> QED
    BY <1>4, <2>4 DEF Lifecycle!Next, Lifecycle!SpawnFails, Lifecycle!Moves
<1>8. ASSUME NEW s \in Procs, IsLowest(s, Claimable), Claim(c, s) PROVE Lifecycle!Next
  <2>1. state[s] = "Empty" \/ (Zombie(s) /\ waited[s])
    BY <1>8 DEF IsLowest, Claimable, EmptySlots, ReapableSlots
  <2>2. /\ \A j \in Procs : state'[j] = IF j = s THEN "Loading" ELSE state[j]
        /\ \A j \in Procs : pid'[j] = IF j = s THEN n ELSE pid[j]
        /\ \A j \in Procs : j # s => waited'[j] = waited[j]
    BY <1>0, <1>2, <1>8 DEF Claim, ClaimWith, TypeOK
  <2>3. Phase(s)' = "loading" /\ \A j \in Procs : j # s => Phase(j)' = Phase(j)
    BY <2>2 DEF Phase, Live, Zombie
  <2>4. Life'[n] = "loading"
    BY <1>1, <2>2, <2>3 DEF LifeFacts
  <2>5. ASSUME NEW p \in Pids, p # n, p # pid[s] PROVE Life'[p] = Life[p]
    <3>1. CASE p >= n
      BY <1>1, <1>2, <1>3, <2>5, <3>1 DEF LifeFacts
    <3>2. CASE \E i \in Procs : state[i] # "Empty" /\ pid[i] = p
      <4>1. PICK i \in Procs : state[i] # "Empty" /\ pid[i] = p /\ i # s
        BY <2>5, <3>2
      <4>2. state'[i] # "Empty" /\ pid'[i] = p /\ Phase(i)' = Phase(i)
        BY <2>2, <2>3, <4>1
      <4> QED
        BY <1>1, <4>1, <4>2 DEF LifeFacts
    <3>3. CASE p < n /\ \A i \in Procs : state[i] # "Empty" => pid[i] # p
      <4>1. \A i \in Procs : state'[i] # "Empty" => pid'[i] # p
        BY <2>2, <2>5, <3>3
      <4> QED
        BY <1>1, <1>2, <1>3, <3>3, <4>1 DEF LifeFacts
    <3>4. p >= n \/ p < n
      BY SchedulerAssumption DEF Pids
    <3> QED
      BY <3>1, <3>2, <3>3, <3>4
  <2>6. CASE state[s] = "Empty"
    <3>1. pid[s] \notin Pids
      BY <1>0, <2>6 DEF SlotsOK
    <3>2. Life' = [Life EXCEPT ![n] = "loading"]
      BY <1>6, <2>4, <2>5, <3>1
    <3> QED
      BY <1>4, <3>2 DEF Lifecycle!Next, Lifecycle!Spawn
  <2>7. CASE Zombie(s) /\ waited[s]
    <3>1. PICK q \in Pids : q = pid[s]
      BY <1>5, <2>7 DEF Zombie
    <3>2. Phase(s) = "reaped" /\ state[s] # "Empty"
      BY <2>7 DEF Phase, Zombie, Live
    <3>3. q # n /\ Life[q] = "reaped" /\ q < n
      BY <1>0, <1>1, <1>2, <1>5, <3>1, <3>2 DEF LifeFacts, PidsOK
    <3>4. \A i \in Procs : state'[i] # "Empty" => pid'[i] # q
      BY <1>0, <2>2, <3>1, <3>3 DEF PidsOK
    <3>5. Life'[q] = "gone"
      BY <1>1, <1>3, <3>3, <3>4 DEF LifeFacts
    <3>6. Life' = [Life EXCEPT ![n] = "loading", ![q] = "gone"]
      BY <1>6, <2>4, <2>5, <3>1, <3>3, <3>5
    <3> QED
      BY <1>4, <3>3, <3>6 DEF Lifecycle!Next, Lifecycle!Spawn
  <2> QED
    BY <2>1, <2>6, <2>7
<1> QED
  BY <1>7, <1>8 DEF ProcessSpawn

\* Every step of the program is a step of ProcLife or leaves the mapping alone.
LEMMA StepRefines ==
  ASSUME Preemptive = FALSE, LInv, LInv', [Next]_vars PROVE [Lifecycle!Next]_Life
<1>0. /\ TypeOK /\ IdleOK /\ SlotOK /\ CurrentOK /\ CalmOK /\ PrepOK /\ SlotsOK /\ RunOK /\ CollectOK /\ StuckOK
  BY Parts
<1>1. ~Tick
  BY DEF Tick, Preemptible
<1>a. ASSUME UNCHANGED <<state, pid, waited, nextPid>> PROVE Life' = Life
  BY <1>a, NoneMoves DEF Phase, Live, Zombie
<1>2. CASE ShellStep
  <2>1. CASE RunProgram
    BY <2>1, SpawnRefines DEF RunProgram, At
  <2>2. CASE RunNotFound
    <3>1. PICK s \in Procs : s = slot[Idle]
      BY <1>0, <2>2 DEF RunNotFound, At, SlotOK
    <3>2. /\ state[s] = "Loading" /\ UNCHANGED <<pid, nextPid>> /\ waited'[s]
          /\ \A i \in Procs : state'[i] = IF i = s THEN "Failed" ELSE state[i]
          /\ \A i \in Procs : i # s => waited'[i] = waited[i]
      BY <1>0, <2>2, <3>1 DEF RunNotFound, At, PrepOK, TypeOK
    <3>3. Phase(s) = "loading" /\ Phase(s)' = "reaped"
      BY <3>2 DEF Phase, Live, Zombie
    <3>4. \A i \in Procs : i # s => Phase(i)' = Phase(i)
      BY <3>2 DEF Phase, Live, Zombie
    <3>5. pid[s] \in Pids /\ Life[pid[s]] = "loading" /\ Life' = [Life EXCEPT ![pid[s]] = "reaped"]
      BY <3>2, <3>3, <3>4, OneMoves
    <3> QED
      BY <3>5 DEF Lifecycle!Next, Lifecycle!FailReaped, Lifecycle!Moves
  <2>3. CASE RunDone
    <3>1. PICK s \in Procs : s = runSlot
      BY <1>0, <2>3 DEF RunDone, At, RunOK, TypeOK
    <3>2. /\ state[s] # "Empty" /\ UNCHANGED <<state, pid, nextPid>> /\ waited'[s]
          /\ \A i \in Procs : i # s => waited'[i] = waited[i]
      BY <1>0, <2>3, <3>1 DEF RunDone, RunOK, TypeOK
    <3>3. \A i \in Procs : i # s => Phase(i)' = Phase(i)
      BY <3>2 DEF Phase, Live, Zombie
    <3>4. CASE Phase(s)' = Phase(s)
      BY <3>2, <3>3, <3>4, NoneMoves
    <3>5. CASE Phase(s)' # Phase(s)
      <4>1. Phase(s) = "zombie" /\ Phase(s)' = "reaped"
        BY <3>2, <3>5 DEF Phase, Live, Zombie
      <4>2. pid[s] \in Pids /\ Life[pid[s]] = "zombie" /\ Life' = [Life EXCEPT ![pid[s]] = "reaped"]
        BY <3>2, <3>3, <4>1, OneMoves
      <4> QED
        BY <4>2 DEF Lifecycle!Next, Lifecycle!Collect, Lifecycle!Moves
    <3> QED
      BY <3>4, <3>5
  <2>4. ASSUME NEW t \in Pids \cup {AnyChild}, ShellWait(t) PROVE Life' = Life
    BY <1>a, <2>4 DEF ShellWait, table
  <2> QED
    BY <1>2, <2>1, <2>2, <2>3, <2>4 DEF ShellStep
<1>3. ASSUME NEW c \in Ctx, KernelStep(c) PROVE [Lifecycle!Next]_Life
  <2>1. CASE PrepareSpaceFails(c) \/ LoadElfFails(c) \/ CreateStackFails(c)
    <3>0. PrepareFails(c) /\ pc[c] \in PreLabels
      BY <2>1 DEF PrepareSpaceFails, LoadElfFails, CreateStackFails, At
    <3>1. PICK s \in Procs : s = slot[c]
      BY <1>0, <3>0 DEF SlotOK
    <3>2. /\ state[s] = "Loading" /\ ~waited[s] /\ UNCHANGED <<pid, nextPid, waited>>
          /\ \A i \in Procs : state'[i] = IF i = s THEN "Failed" ELSE state[i]
      BY <1>0, <3>0, <3>1 DEF PrepareFails, PrepareFailsWith, PrepOK, SlotsOK, TypeOK
    <3>3. Phase(s) = "loading" /\ Phase(s)' = "zombie"
      BY <3>2 DEF Phase, Live, Zombie
    <3>4. \A i \in Procs : i # s => Phase(i)' = Phase(i)
      BY <3>2 DEF Phase, Live, Zombie
    <3>5. pid[s] \in Pids /\ Life[pid[s]] = "loading" /\ Life' = [Life EXCEPT ![pid[s]] = "zombie"]
      BY <3>2, <3>3, <3>4, OneMoves
    <3> QED
      BY <3>5 DEF Lifecycle!Next, Lifecycle!Fail, Lifecycle!Moves
  <2>2. CASE PrepareSpace(c) \/ LoadElf(c) \/ CreateStack(c)
    BY <1>a, <2>2 DEF PrepareSpace, LoadElf, CreateStack, StackWith, table
  <2>3. CASE Publish(c)
    <3>1. PICK s \in Procs : s = slot[c]
      BY <1>0, <2>3 DEF Publish, At, SlotOK
    <3>2. /\ state[s] = "Loading" /\ UNCHANGED <<pid, nextPid, waited>>
          /\ \A i \in Procs : state'[i] = IF i = s THEN "Ready" ELSE state[i]
      BY <1>0, <2>3, <3>1 DEF Publish, At, PrepOK, TypeOK
    <3>3. Phase(s) = "loading" /\ Phase(s)' = "live"
      BY <3>2 DEF Phase, Live, Zombie
    <3>4. \A i \in Procs : i # s => Phase(i)' = Phase(i)
      BY <3>2 DEF Phase, Live, Zombie
    <3>5. pid[s] \in Pids /\ Life[pid[s]] = "loading" /\ Life' = [Life EXCEPT ![pid[s]] = "live"]
      BY <3>2, <3>3, <3>4, OneMoves
    <3> QED
      BY <3>5 DEF Lifecycle!Next, Lifecycle!Start, Lifecycle!Moves
  <2>4. CASE WaitCollect(c)
    <3>1. PICK s \in Procs : s = slot[c] /\ Zombie(s) /\ ~waited[s]
      BY <1>0, <2>4 DEF WaitCollect, At, CollectOK
    <3>2. /\ UNCHANGED <<state, pid, nextPid>> /\ waited'[s]
          /\ \A i \in Procs : i # s => waited'[i] = waited[i]
      BY <1>0, <2>4, <3>1 DEF WaitCollect, TypeOK
    <3>3. Phase(s) = "zombie" /\ Phase(s)' = "reaped" /\ state[s] # "Empty"
      BY <3>1, <3>2 DEF Phase, Live, Zombie
    <3>4. \A i \in Procs : i # s => Phase(i)' = Phase(i)
      BY <3>2 DEF Phase, Live, Zombie
    <3>5. pid[s] \in Pids /\ Life[pid[s]] = "zombie" /\ Life' = [Life EXCEPT ![pid[s]] = "reaped"]
      BY <3>2, <3>3, <3>4, OneMoves
    <3> QED
      BY <3>5 DEF Lifecycle!Next, Lifecycle!Collect, Lifecycle!Moves
  <2>5. CASE WaitTest(c) \/ WaitMiss(c) \/ WaitFind(c) \/ PickNextReady(c)
    BY <1>a, <2>5 DEF WaitTest, WaitMiss, WaitFind, PickNextReady, PickWith, table
  <2>6. CASE WaitBlock(c)
    <3>1. \A i \in Procs : state'[i] = state[i] \/ (state[i] = "Running" /\ state'[i] = "Blocked")
      BY <1>0, <2>6 DEF WaitBlock, At, CurrentOK, TypeOK
    <3>2. UNCHANGED <<pid, nextPid, waited>>
      BY <2>6 DEF WaitBlock
    <3>3. \A i \in Procs : Phase(i)' = Phase(i) /\ (state'[i] = "Empty" <=> state[i] = "Empty")
      BY <3>1, <3>2 DEF Phase, Live, Zombie
    <3> QED
      BY <3>2, <3>3, NoneMoves
  <2>7. CASE Switch(c)
    <3>1. PICK n \in Ctx : n = next[c]
      BY <1>0 DEF TypeOK
    <3>2. /\ n \in Ready \/ n = Idle
          /\ \A i \in Procs : state'[i] = IF i = n THEN "Running" ELSE state[i]
          /\ UNCHANGED <<pid, nextPid, waited>>
      BY <2>7, <3>1, CleanSwitch
    <3>3. \A i \in Procs : Phase(i)' = Phase(i) /\ (state'[i] = "Empty" <=> state[i] = "Empty")
      BY <3>2 DEF Phase, Live, Zombie, Ready
    <3> QED
      BY <3>2, <3>3, NoneMoves
  <2>8. CASE Resumed(c) \/ Take(c) \/ Reclaim(c) \/ Yielded(c) \/ Trampoline(c)
    BY <1>a, <2>8 DEF Resumed, Take, Reclaim, Yielded, Trampoline, table
  <2>9. CASE ExitDestroy(c) \/ ExitCr3(c) \/ ExitUnlink(c) \/ ExitQueue(c) \/ ExitStore(c)
    BY <1>a, <2>9 DEF ExitDestroy, ExitCr3, ExitUnlink, ExitQueue, ExitStore, StoreWith, table
  <2>10. CASE ExitProcess(c)
    <3>1. /\ c \in Procs /\ pc[c] = "exit" /\ state[c] = "Running" /\ UNCHANGED <<pid, nextPid, waited>>
          /\ state'[c] = "Exited"
          /\ \A i \in Procs : i # c => state'[i] = state[i] \/ (state[i] = "Blocked" /\ state'[i] = "Ready")
      BY <1>0, <2>10 DEF ExitProcess, At, IdleOK, CurrentOK, Woken
    <3>2. ~waited[c]
      BY <1>0, <3>1 DEF StuckOK, Stuck, Live
    <3>3. Phase(c) = "live" /\ Phase(c)' = "zombie"
      BY <3>1, <3>2 DEF Phase, Live, Zombie
    <3>4. \A i \in Procs : i # c => Phase(i)' = Phase(i) /\ (state'[i] = "Empty" <=> state[i] = "Empty")
      BY <3>1 DEF Phase, Live, Zombie
    <3>5. pid[c] \in Pids /\ Life[pid[c]] = "live" /\ Life' = [Life EXCEPT ![pid[c]] = "zombie"]
      BY <3>1, <3>3, <3>4, OneMoves
    <3> QED
      BY <3>5 DEF Lifecycle!Next, Lifecycle!Exit, Lifecycle!Moves
  <2> QED
    BY <1>3, <2>1, <2>2, <2>3, <2>4, <2>5, <2>6, <2>7, <2>8, <2>9, <2>10 DEF KernelStep
<1>4. ASSUME NEW c \in Procs, UserStep(c) PROVE [Lifecycle!Next]_Life
  <2>1. CASE UserSpawn(c)
    BY <2>1, SpawnRefines DEF UserSpawn, At
  <2>2. ASSUME NEW t \in Pids \cup {AnyChild}, UserWait(c, t) PROVE Life' = Life
    BY <1>a, <2>2 DEF UserWait, table
  <2>3. CASE UserExit(c)
    BY <1>a, <2>3 DEF UserExit, table
  <2> QED
    BY <1>4, <2>1, <2>2, <2>3 DEF UserStep
<1>5. CASE UNCHANGED vars
  BY <1>a, <1>5 DEF vars, table
<1> QED
  BY <1>1, <1>2, <1>3, <1>4, <1>5 DEF Next

\* The process table implements ProcLife when no tick moves the CPU, for every
\* PROCESS_COUNT: a status is dropped only after it was collected, and a slot is
\* handed out only after its last process was.
THEOREM TableImplementsProcLife == ASSUME Preemptive = FALSE PROVE Spec => LifecycleSpec
<1>1. Init => Lifecycle!Init
  <2> SUFFICES ASSUME Init PROVE Life = [p \in Pids |-> "unborn"]
    BY DEF Lifecycle!Init
  <2>1. \A p \in Pids : p >= nextPid
    BY SchedulerAssumption DEF Init, Pids
  <2> QED
    BY <2>1 DEF Life
<1>2. LInv /\ LInv' /\ [Next]_vars => [Lifecycle!Next]_Life
  BY StepRefines
<1> QED
  BY <1>1, <1>2, LifeHolds, PTL DEF Spec, LifecycleSpec, Lifecycle!Spec
=============================================================================
