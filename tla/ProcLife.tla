------------------------------ MODULE ProcLife ------------------------------
(***************************************************************************)
(* What the process table promises about one pid: it is claimed, becomes   *)
(* runnable or fails, exits, has its status collected once, and only then  *)
(* gives up its table slot.  A status that nobody collected is never       *)
(* dropped.  Scheduler.tla is compared with this specification.            *)
(***************************************************************************)
CONSTANT Pids

VARIABLE life

Phases == {"unborn", "loading", "live", "zombie", "reaped", "gone"}

LifeTypeOK == life \in [Pids -> Phases]

Init == life = [p \in Pids |-> "unborn"]

Moves(p, from, to) == life[p] = from /\ life' = [life EXCEPT ![p] = to]

\* A free slot, or the slot of a pid whose status has been collected
Spawn(p) ==
  /\ life[p] = "unborn"
  /\ \/ life' = [life EXCEPT ![p] = "loading"]
     \/ \E q \in Pids : /\ life[q] = "reaped"
                        /\ life' = [life EXCEPT ![p] = "loading", ![q] = "gone"]

SpawnFails(p) == Moves(p, "unborn", "gone")
Start(p)      == Moves(p, "loading", "live")
Exit(p)       == Moves(p, "live", "zombie")
Fail(p)       == Moves(p, "loading", "zombie")
FailReaped(p) == Moves(p, "loading", "reaped")
Collect(p)    == Moves(p, "zombie", "reaped")

Next ==
  \E p \in Pids : \/ Spawn(p) \/ SpawnFails(p) \/ Start(p) \/ Exit(p)
                  \/ Fail(p) \/ FailReaped(p) \/ Collect(p)

Spec == Init /\ [][Next]_life
=============================================================================
