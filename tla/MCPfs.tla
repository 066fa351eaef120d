------------------------------- MODULE MCPfs -------------------------------
(* Values for TLC that a .cfg cannot write down *)
EXTENDS Pfs, TLC

CONSTANTS A, B   \* two names

\* Any of them may become a file or a directory
MCPaths == {<<A>>, <<B>>, <<A, B>>}

\* For the contents: enough for two files, and interchangeable
MCFlatPaths == {<<A>>, <<B>>}
Symmetry    == Permutations({A, B})

\* Entry 1 spans no sector boundary, entry 2 one inside its extents
MCCut == [i \in 1 .. EntryCount |-> i - 2]
=============================================================================
