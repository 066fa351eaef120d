----------------------------- MODULE FileStore -----------------------------
(***************************************************************************)
(* What a program may expect of persistent files: a tree of directories    *)
(* and byte sequences, changed one call at a time.  Pfs.tla is compared    *)
(* with this specification.                                                *)
(***************************************************************************)
EXTENDS Integers, Sequences, SequencesExt

CONSTANTS Paths,   \* sequences of names
          Byte,    \* the byte programs write; a gap reads as 0
          FileMax

VARIABLE files     \* from the paths that exist to directories and files

Dir     == [dir |-> TRUE, bytes |-> <<>>]
File(b) == [dir |-> FALSE, bytes |-> b]

Exists(p) == p \in DOMAIN files
IsFile(p) == Exists(p) /\ ~files[p].dir
HasParent(p) == Len(p) = 1 \/ (Exists(Front(p)) /\ files[Front(p)].dir)
Childless(p) == ~\E q \in DOMAIN files : IsStrictPrefix(p, q)

With(p, r) == [q \in DOMAIN files \cup {p} |-> IF q = p THEN r ELSE files[q]]
Without(p) == [q \in DOMAIN files \ {p} |-> files[q]]

Init == files = <<>>

\* Reads, and calls that fail
Observe == UNCHANGED files

Mkdir(p)  == ~Exists(p) /\ HasParent(p) /\ files' = With(p, Dir)
Create(p) == ~Exists(p) /\ HasParent(p) /\ files' = With(p, File(<<>>))

Unlink(p) == /\ Exists(p)
             /\ files[p].dir => Childless(p)
             /\ files' = Without(p)

Rename(p, q) ==
  /\ Exists(p) /\ ~Exists(q) /\ HasParent(q)
  /\ files[p].dir => Childless(p)
  /\ files' = [x \in (DOMAIN files \ {p}) \cup {q} |-> IF x = q THEN files[p] ELSE files[x]]

\* Truncate, or replace the whole content
Replace(p, n) == IsFile(p) /\ files' = With(p, File([k \in 1 .. n |-> Byte]))

\* n bytes at offset off; what lies between the old end and off reads as 0
Write(p, off, n) ==
  /\ IsFile(p) /\ off + n <= FileMax
  /\ LET old == files[p].bytes
         len == IF off + n > Len(old) THEN off + n ELSE Len(old)
     IN  files' = With(p, File([k \in 1 .. len |->
                                  IF off < k /\ k <= off + n THEN Byte
                                  ELSE IF k <= Len(old) THEN old[k] ELSE 0]))

Format == files' = <<>>

Next ==
  \/ Observe
  \/ \E p \in Paths : Mkdir(p) \/ Create(p) \/ Unlink(p)
  \/ \E p, q \in Paths : Rename(p, q)
  \/ \E p \in Paths, n \in 0 .. FileMax : Replace(p, n)
  \/ \E p \in Paths, off, n \in 0 .. FileMax : Write(p, off, n)
  \/ Format

Spec == Init /\ [][Next]_files
=============================================================================
