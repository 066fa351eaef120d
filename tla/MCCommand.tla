------------------------------ MODULE MCCommand ------------------------------
(* Small instances of Command. *)
EXTENDS Command

MCENV == <<[key |-> "PATH", value |-> "v1"]>>

In       == <<<<0, 1>>, <<0, 2>>, <<0, 3>>>>
Set(k, v) == [key |-> k, value |-> v]

\* The interesting combinations: capture with and without input; a cwd and an
\* override of the same key twice; overrides that run out of slots or have an improper key; files.
MCRequests ==
    { NewCommand("output"),
      [NewCommand("output") EXCEPT !.stdin = In, !.cwd = "d1",
                            !.env = <<Set("PATH", "v2"), Set("PATH", Absent)>>],
      [NewCommand("output") EXCEPT !.env = <<Set("A", "v1"), Set("PATH", "v2"), Set("B", "v1")>>],
      [NewCommand("status") EXCEPT !.stdin = In, !.env = <<Set("A", "v2")>>],
      [NewCommand("status") EXCEPT !.cwd = "d1", !.env = <<Set("A", "v1"), Set("K=", "v1")>>],
      [NewCommand("status") EXCEPT !.out = "f1", !.err = "f2", !.cwd = "/"],
      NewCommand("spawnredir"),
      [NewCommand("spawnstdin") EXCEPT !.stdin = In],
      [NewCommand("spawnio") EXCEPT !.stdin = In],
      [NewCommand("spawnioe") EXCEPT !.stdin = In] }

MCSettings == {Set("PATH", Absent), Set("B", "v1")}
==============================================================================
