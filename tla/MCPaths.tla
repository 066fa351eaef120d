------------------------------- MODULE MCPaths -------------------------------
(* Small instances of Paths. *)
EXTENDS Paths

\* Names of one, two and three bytes.  One name is too long to go with another into
\* PFS_NAME_MAX; all but the shortest are cut in the iterator's buffer, where two of
\* those in BootFS look the same.
MCSize(c) == CASE c \in {"b", "hello", "help"} -> 2 [] c = "long" -> 3 [] OTHER -> 1
MCPrefix(c) == IF c \in {"hello", "help"} THEN "h" ELSE "b1"

MCBoot == <<"a", "hello", "help">>

P(pfs, abs, comps) == [pfs |-> pfs, abs |-> abs, comps |-> comps]

\* Relative, absolute and prefixed paths; through the root, through a parent,
\* through a name that is too long on the way, through an improper one.  The
\* second process works around the directory a only.
MCPaths(t) ==
    IF t \in Walkers
      THEN { P(FALSE, TRUE, <<>>), P(TRUE, FALSE, <<>>), P(TRUE, TRUE, <<"a">>), P(FALSE, FALSE, <<"b">>),
             P(FALSE, FALSE, <<"long", "..", "b">>), P(FALSE, FALSE, <<"bad", "..", "b">>) }
      ELSE { P(TRUE, FALSE, <<"a">>), P(FALSE, FALSE, <<"b">>), P(TRUE, FALSE, <<"..", "a", "b">>),
             P(FALSE, FALSE, <<"..">>) }

MCListPaths == {Empty, P(FALSE, FALSE, <<"..">>), P(TRUE, FALSE, <<"a">>)}
MCDeepPaths == {P(FALSE, TRUE, <<"a", "b">>), P(TRUE, FALSE, <<"a", ".", "b">>), P(FALSE, FALSE, <<"b", "..">>)}
==============================================================================
