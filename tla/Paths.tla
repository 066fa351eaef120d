-------------------------------- MODULE Paths --------------------------------
(***************************************************************************)
(* Names in RYMFS: how the kernel resolves a path against a process's cwd, *)
(* and what programs build on it: chdir, mkdir, creating, renaming and     *)
(* unlinking files, listing a directory entry by entry, and the runtime's  *)
(* create_dir_all.                                                         *)
(*                                                                         *)
(* The disk keeps one flat table of full names.  A name is a sequence of   *)
(* components, a path is what a program writes: perhaps the prefix pfs:,   *)
(* perhaps a leading slash, then components.  Each ABI call is one step,   *)
(* and the calls of two processes interleave; what a call does to the disk *)
(* is Pfs.tla's subject.                                                   *)
(***************************************************************************)
EXTENDS Naturals, Sequences, FiniteSets, FiniteSetsExt, SequencesExt

CONSTANTS
    Tasks,          \* processes
    Names,          \* proper components
    BadNames,       \* components with a byte valid_pfs_component refuses
    Size(_),        \* bytes of a component
    NameBuffer,     \* bytes of the buffer in ReadDir::next
    Prefix(_),      \* the first NameBuffer bytes of a longer component
    PFS_NAME_MAX,   \* bytes of a full name
    APP_CWD_MAX,    \* bytes of Process.cwd
    PFS_ENTRY_COUNT,
    UsedPaths(_),   \* the paths a process uses
    ListPaths,      \* the paths given to read_dir
    DeepPaths,      \* the paths given to create_dir_all
    Walkers,        \* the processes that use these two, one at a time
    BootEntries     \* external: the names in BootFS, in order

Path == [pfs : BOOLEAN, abs : BOOLEAN, comps : Seq(Names \cup BadNames \cup {".", ".."})]

ASSUME PathsAssumption ==
    /\ \A n \in Names : Size(n) \in Nat \ {0}
    /\ PFS_NAME_MAX \in Nat /\ APP_CWD_MAX \in Nat \ {0} /\ PFS_ENTRY_COUNT \in Nat
    /\ {".", ".."} \cap (Names \cup BadNames) = {}
    /\ \A t \in Tasks : UsedPaths(t) \subseteq Path
    /\ ListPaths \subseteq Path /\ DeepPaths \subseteq Path
    /\ BootEntries \in Seq(ToSet(BootEntries)) /\ IsInjective(BootEntries)

VARIABLES
    entry,     \* the entry table: free, or the name and kind of a slot
    cwd,       \* Process.cwd: / or a name under pfs:
    call,      \* create_dir_all under way
    walk,      \* a ReadDir under way
    halted     \* the kernel's panic handler spins

vars == <<entry, cwd, call, walk, halted>>

Slots == 1 .. PFS_ENTRY_COUNT
Free  == [kind |-> "Free", name |-> <<>>]

Root    == [pfs |-> FALSE, name |-> <<>>]
PfsRoot == [pfs |-> TRUE,  name |-> <<>>]
NoCall  == [pc |-> "none"]

-----------------------------------------------------------------------------
(* Resolving a path.                                                       *)

\* Bytes of a name: its components and the slashes between them.
NameLen(name) ==
    LET bytes[k \in 0 .. Len(name)] ==
          IF k = 0 THEN 0 ELSE bytes[k - 1] + Size(name[k]) + (IF k = 1 THEN 0 ELSE 1)
    IN  bytes[Len(name)]

None     == [ok |-> FALSE, name |-> <<>>]
Some(nm) == [ok |-> TRUE,  name |-> nm]

\* Mutant: the limit is tested before the component is added.
MutantPush(name, c) ==
    IF c \in Names /\ NameLen(name) <= PFS_NAME_MAX THEN Some(Append(name, c)) ELSE None

pfs_push_component(name, c) ==
    IF c \in Names /\ NameLen(Append(name, c)) <= PFS_NAME_MAX THEN Some(Append(name, c)) ELSE None

\* Mutant: the first component cannot be left.
MutantPop(name) == IF Len(name) <= 1 THEN name ELSE Front(name)

pfs_pop_component(name) == IF name = <<>> THEN name ELSE Front(name)

\* One component of the path.  An error is final.
Component(r, c) ==
    CASE ~r.ok \/ c = "."    -> r
      [] r.ok /\ c = ".."    -> Some(pfs_pop_component(r.name))
      [] OTHER               -> pfs_push_component(r.name, c)

\* The base is a cwd, already normal.  The root itself has no name.
normalize_pfs_path(base, path) ==
    LET upto[k \in 0 .. Len(path.comps)] ==
          IF k = 0 THEN Some(IF path.abs THEN <<>> ELSE base)
                   ELSE Component(upto[k - 1], path.comps[k])
        r == upto[Len(path.comps)]
    IN  IF r.name = <<>> THEN None ELSE r

pfs_resolve_path(dir, path) ==
    CASE path.pfs             -> normalize_pfs_path(<<>>, path)
      [] ~path.pfs /\ dir.pfs -> normalize_pfs_path(dir.name, path)
      [] OTHER                -> None

-----------------------------------------------------------------------------
(* The entry table.                                                        *)

Used(e)     == {i \in Slots : e[i].kind # "Free"}
NamesIn(e)  == {e[i].name : i \in Used(e)}
Exists(n)   == n \in NamesIn(entry)
IsDir(n)    == \E i \in Used(entry) : entry[i] = [kind |-> "Dir", name |-> n]
ParentOf(n) == Front(n)

pfs_parent_exists(n) == Len(n) = 1 \/ IsDir(ParentOf(n))

pfs_dir_empty(n) == \A m \in NamesIn(entry) : ~IsStrictPrefix(n, m)

\* What unlink and rename ask of the entry they take away.
\* Mutant: nothing.
MutantEmptyIfDir(n) == TRUE
EmptyIfDir(n) == IsDir(n) => pfs_dir_empty(n)

CanAdd(r) == r.ok /\ pfs_parent_exists(r.name) /\ ~Exists(r.name) /\ Used(entry) # Slots

\* pfs_free_entry and pfs_set_entry: the first free slot.
Add(name, kind) ==
    entry' = [entry EXCEPT ![Min(Slots \ Used(entry))] = [kind |-> kind, name |-> name]]

\* The entries right below a directory.
\* Mutant: everything below the directory.
MutantListMatch(dir, n) == IsStrictPrefix(dir, n)
pfs_list_match(dir, n) == Len(n) = Len(dir) + 1 /\ ParentOf(n) = dir

\* abi_list: which directory a namespace means.  What resolves to nothing, the
\* root of RYMFS written as .. for one, means BootFS.
Empty    == [pfs |-> FALSE, abs |-> FALSE, comps |-> <<>>]
BootList == [boot |-> TRUE, name |-> <<>>]
PfsList(name) == [boot |-> FALSE, name |-> name]

ListedDir(dir, path) ==
    CASE path = Empty /\ dir.pfs           -> PfsList(dir.name)
      [] path.pfs /\ path.comps = <<>>     -> PfsList(<<>>)
      [] path # Empty /\ pfs_resolve_path(dir, path).ok ->
           PfsList(pfs_resolve_path(dir, path).name)
      [] OTHER                             -> BootList

\* The last components of the entries that match, in table order: what abi_list
\* gives for the indices 0, 1, ...
abi_list(e, where) ==
    LET upto[k \in 0 .. PFS_ENTRY_COUNT] ==
          IF k = 0 THEN <<>>
          ELSE IF e[k].kind # "Free" /\ pfs_list_match(where.name, e[k].name)
                 THEN Append(upto[k - 1], Last(e[k].name)) ELSE upto[k - 1]
    IN  IF where.boot THEN BootEntries ELSE upto[PFS_ENTRY_COUNT]

\* What of a name the iterator's buffer takes: copy_len in abi_list.
Copied(c) == IF Size(c) <= NameBuffer THEN c ELSE Prefix(c)

\* stat_path, as far as the kind.  In BootFS a path is looked up as it is
\* written, and here BootFS holds files only.
stat_path(dir, path) ==
    LET r == pfs_resolve_path(dir, path)
        found == {i \in Used(entry) : entry[i].name = r.name}
    IN  CASE r.ok /\ found # {} -> entry[CHOOSE i \in found : TRUE].kind
          [] ~r.ok /\ ~path.pfs /\ ~path.abs /\ Len(path.comps) = 1
                  /\ path.comps[1] \in ToSet(BootEntries) -> "File"
          [] OTHER -> "NOENT"

-----------------------------------------------------------------------------
(* The calls.                                                              *)

\* A process makes one call after the other.  Histories: a walk is undisturbed
\* as long as its directory, and the cwd it is relative to, stay the same; a
\* create_dir_all as long as nobody else changes the tree.
Calling(t) == ~halted /\ call[t] = NoCall

Disturbed(w) == [w EXCEPT !.clean = FALSE, !.seen = <<>>]

WalksAfter ==
    [u \in Tasks |->
       IF walk[u] # NoCall /\ abi_list(entry, walk[u].where) # abi_list(entry', walk[u].where)
         THEN Disturbed(walk[u]) ELSE walk[u]]

OthersDisturbed(t) ==
    [u \in Tasks |->
       IF u # t /\ call[u] # NoCall THEN [call[u] EXCEPT !.clean = FALSE] ELSE call[u]]

TreeChanged(t) == walk' = WalksAfter /\ call' = OthersDisturbed(t)

\* abi_chdir.  The cwd buffer is shorter than a name may be: the copy of a
\* longer one is a slice panic.
SetCwd(t, dir) ==
    /\ cwd' = [cwd EXCEPT ![t] = dir]
    /\ walk' = [walk EXCEPT ![t] = IF @ # NoCall /\ cwd'[t] # cwd[t] THEN Disturbed(@) ELSE @]

Chdir(t, path) ==
    /\ Calling(t)
    /\ LET r == pfs_resolve_path(cwd[t], path)
       IN  CASE path = [Empty EXCEPT !.abs = TRUE] -> SetCwd(t, Root) /\ UNCHANGED halted
             [] path.pfs /\ path.comps = <<>>      -> SetCwd(t, PfsRoot) /\ UNCHANGED halted
             [] OTHER ->
                  /\ r.ok /\ IsDir(r.name)
                  /\ IF NameLen(r.name) + 4 > APP_CWD_MAX
                       THEN halted' = TRUE /\ UNCHANGED <<cwd, walk>>
                       ELSE SetCwd(t, [pfs |-> TRUE, name |-> r.name]) /\ UNCHANGED halted
    /\ UNCHANGED <<entry, call>>

\* abi_mkdir, and abi_open of a new file.
Make(t, path, kind) ==
    /\ Calling(t)
    /\ LET r == pfs_resolve_path(cwd[t], path) IN CanAdd(r) /\ Add(r.name, kind)
    /\ TreeChanged(t)
    /\ UNCHANGED <<cwd, halted>>

\* abi_unlink of a file or an empty directory, a cwd too.
Unlink(t, path) ==
    /\ Calling(t)
    /\ LET r == pfs_resolve_path(cwd[t], path)
       IN  /\ r.ok /\ Exists(r.name)
           /\ EmptyIfDir(r.name)
           /\ entry' = [i \in Slots |-> IF entry[i].name = r.name THEN Free ELSE entry[i]]
    /\ TreeChanged(t)
    /\ UNCHANGED <<cwd, halted>>

\* abi_rename.  The new parent is looked up before the entry moves: an empty
\* directory is let into itself.
Rename(t, old, new) ==
    /\ Calling(t)
    /\ LET o == pfs_resolve_path(cwd[t], old)
           n == pfs_resolve_path(cwd[t], new)
       IN  /\ o.ok /\ n.ok
           /\ Exists(o.name) /\ ~Exists(n.name) /\ pfs_parent_exists(n.name)
           /\ EmptyIfDir(o.name)
           /\ entry' = [i \in Slots |-> IF entry[i].name = o.name
                                         THEN [kind |-> entry[i].kind, name |-> n.name] ELSE entry[i]]
    /\ TreeChanged(t)
    /\ UNCHANGED <<cwd, halted>>

\* fs::read_dir and ReadDir::next.  The iterator keeps the path as written and
\* an index; every next() resolves and counts again.
ReadDir(t, path) ==
    /\ Calling(t) /\ t \in Walkers /\ walk[t] = NoCall
    /\ walk' = [walk EXCEPT ![t] = [pc |-> "next", path |-> path, index |-> 0, seen |-> <<>>,
                                    clean |-> TRUE, where |-> ListedDir(cwd[t], path)]]
    /\ UNCHANGED <<entry, cwd, call, halted>>

ReadDirNext(t) ==
    /\ Calling(t) /\ walk[t].pc = "next"
    /\ LET w    == walk[t]
           list == abi_list(entry, ListedDir(cwd[t], w.path))
       IN  walk' = [walk EXCEPT ![t] =
                      IF w.index < Len(list)
                        THEN [w EXCEPT !.index = @ + 1,
                                       !.seen = IF w.clean THEN Append(@, Copied(list[w.index + 1])) ELSE @]
                        ELSE [w EXCEPT !.pc = "end"]]
    /\ UNCHANGED <<entry, cwd, call, halted>>

ReadDirDone(t) ==
    /\ Calling(t) /\ walk[t].pc = "end"
    /\ walk' = [walk EXCEPT ![t] = NoCall]
    /\ UNCHANGED <<entry, cwd, call, halted>>

\* create_dir_all: current starts with the prefix pfs: or with nothing - a
\* leading slash is lost - and grows by one component a round.
CreateDirAll(t, path) ==
    /\ Calling(t) /\ t \in Walkers /\ walk[t] = NoCall
    /\ call' = [call EXCEPT ![t] = [pc |-> "stat", path |-> path, rest |-> path.comps, clean |-> TRUE,
                                    current |-> [Empty EXCEPT !.pfs = path.pfs]]]
    /\ UNCHANGED <<entry, cwd, walk, halted>>

InMkdirs(t, pc) == ~halted /\ call[t].pc = pc

\* The next component and its stat.
\* Mutant: whatever is there counts as a directory.
MutantAfterStat(kind) == IF kind = "NOENT" THEN "mkdir" ELSE "stat"
AfterStat(kind) ==
    CASE kind = "Dir" -> "stat" [] kind = "NOENT" -> "mkdir" [] OTHER -> "err"

StatNext(t) ==
    /\ InMkdirs(t, "stat")
    /\ LET c    == call[t]
           name == Head(c.rest)
           next == [c EXCEPT !.rest = Tail(@), !.current.comps = Append(@, name)]
       IN  call' = [call EXCEPT ![t] =
                      CASE c.rest = <<>> -> [c EXCEPT !.pc = "ok"]
                        [] c.rest # <<>> /\ name = "." -> [c EXCEPT !.rest = Tail(@)]
                        [] c.rest # <<>> /\ name = ".." -> [c EXCEPT !.pc = "err"]
                        [] OTHER -> [next EXCEPT !.pc = AfterStat(stat_path(cwd[t], next.current))]]
    /\ UNCHANGED <<entry, cwd, walk, halted>>

\* The mkdir that follows a stat without an answer.
MkdirNext(t) ==
    /\ InMkdirs(t, "mkdir")
    /\ LET r == pfs_resolve_path(cwd[t], call[t].current)
       IN  IF CanAdd(r)
             THEN /\ Add(r.name, "Dir")
                  /\ walk' = WalksAfter
                  /\ call' = [OthersDisturbed(t) EXCEPT ![t].pc = "stat"]
             ELSE call' = [call EXCEPT ![t].pc = "err"] /\ UNCHANGED <<entry, walk>>
    /\ UNCHANGED <<cwd, halted>>

Returned(t) ==
    /\ InMkdirs(t, "ok") \/ InMkdirs(t, "err")
    /\ call' = [call EXCEPT ![t] = NoCall]
    /\ UNCHANGED <<entry, cwd, walk, halted>>

-----------------------------------------------------------------------------
Init ==
    /\ entry = [i \in Slots |-> Free]
    /\ cwd = [t \in Tasks |-> Root]
    /\ call = [t \in Tasks |-> NoCall]
    /\ walk = [t \in Tasks |-> NoCall]
    /\ halted = FALSE

Next ==
    \E t \in Tasks :
      \/ \E path \in UsedPaths(t) :
           \/ Chdir(t, path)
           \/ Make(t, path, "Dir") \/ Make(t, path, "File")
           \/ Unlink(t, path)
           \/ \E new \in UsedPaths(t) : Rename(t, path, new)
      \/ \E path \in DeepPaths : CreateDirAll(t, path)
      \/ \E path \in ListPaths : ReadDir(t, path)
      \/ ReadDirNext(t) \/ ReadDirDone(t)
      \/ StatNext(t) \/ MkdirNext(t) \/ Returned(t)

Spec == Init /\ [][Next]_vars

-----------------------------------------------------------------------------
(* Correctness.                                                            *)

IsName(n) == n # <<>> /\ ToSet(n) \subseteq Names /\ NameLen(n) <= PFS_NAME_MAX

\* Types: names fit their fields, and no two entries share one.
TypeOK ==
    /\ \A i \in Slots : entry[i] # Free => entry[i].kind \in {"Dir", "File"} /\ IsName(entry[i].name)
    /\ \A i, j \in Used(entry) : entry[i].name = entry[j].name => i = j
    /\ \A t \in Tasks : cwd[t] \notin {Root, PfsRoot} => cwd[t].pfs /\ IsName(cwd[t].name)
    /\ \A t \in Tasks : call[t].pc \in {"none", "stat", "mkdir", "ok", "err"}
    /\ \A t \in Tasks : walk[t].pc \in {"none", "next", "end"}

\* What a list of components means, without a stack: a component stays unless
\* some later stretch of the list holds as many .. as names from it on.
Meaning(comps) ==
    LET Count(i, j, up) == Cardinality({k \in i .. j : comps[k] # "." /\ (comps[k] = "..") = up})
        Stays(i) == /\ comps[i] \notin {".", ".."}
                    /\ \A j \in i .. Len(comps) : Count(i, j, TRUE) < Count(i, j, FALSE)
        kept == SelectSeq([i \in DOMAIN comps |-> i], Stays)
    IN  [k \in DOMAIN kept |-> comps[kept[k]]]

\* The text abi_cwd gives for a cwd leads back to it from everywhere, which
\* Command relies on.
CwdLeadsBack ==
    \A t, u \in Tasks : cwd[t] \notin {Root, PfsRoot} =>
      pfs_resolve_path(cwd[u], [pfs |-> TRUE, abs |-> FALSE, comps |-> cwd[t].name]) = Some(cwd[t].name)

\* Whatever the cwd, a path resolves to what it means, and fails exactly for the
\* root, an improper component, or a name that is too long at some point on the
\* way.
ResolvesRight ==
    /\ \A t \in Tasks : \A path \in (UsedPaths(t) \cup DeepPaths \cup ListPaths) \ {Empty} :
         path.pfs \/ cwd[t].pfs =>
           LET from == IF path.pfs \/ path.abs THEN <<>> ELSE cwd[t].name
               all  == from \o path.comps
               r    == pfs_resolve_path(cwd[t], path)
           IN  /\ r.ok <=> /\ Meaning(all) # <<>>
                           /\ ToSet(all) \cap BadNames = {}
                           /\ \A k \in DOMAIN all : NameLen(Meaning(SubSeq(all, 1, k))) <= PFS_NAME_MAX
               /\ r.ok => r.name = Meaning(all)
    /\ CwdLeadsBack

\* The parent of every file is a directory, also when a process creates files
\* by relative paths from a cwd that another one has removed or moved away, or
\* renames between the stat and the mkdir of create_dir_all.
FileHasParent ==
    \A i \in Used(entry) :
      entry[i].kind = "File" /\ Len(entry[i].name) > 1 => IsDir(ParentOf(entry[i].name))

\* A walk whose own directory did not change gives every entry of it once, by
\* as much of its name as the buffer takes, although other processes create,
\* rename and remove entries elsewhere in the same table meanwhile.
WalkComplete ==
    \A t \in Tasks :
      LET w == walk[t]
          there == IF w.where.boot THEN ToSet(BootEntries)
                   ELSE {Last(n) : n \in {m \in NamesIn(entry) : Front(m) = w.where.name}}
      IN  w.pc = "end" /\ w.clean =>
            \A c \in ToSet(w.seen) \cup {Copied(n) : n \in there} :
              Cardinality({k \in DOMAIN w.seen : w.seen[k] = c}) = Cardinality({n \in there : Copied(n) = c})

\* create_dir_all that succeeds, undisturbed, leaves a directory where the path
\* leads.  (Without the prefix pfs: a leading slash is dropped, and the
\* directories are made below the cwd instead.)
MkdirsComplete ==
    \A t \in Tasks :
      LET c == call[t]
          path == [c.path EXCEPT !.abs = FALSE]
          dir  == IF path.pfs THEN <<>> ELSE cwd[t].name
      IN  c.pc = "ok" /\ c.clean =>
            \/ ToSet(path.comps) \subseteq {"."}
            \/ \A k \in DOMAIN path.comps : IsDir(Meaning(dir \o SubSeq(path.comps, 1, k)))

\* chdir into an existing directory never brings the kernel down.
NeverPanics == ~halted
==============================================================================
