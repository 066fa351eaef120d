-------------------------------- MODULE Pfs --------------------------------
(***************************************************************************)
(* The persistent file system of kernel/src/main.rs: the entry table in    *)
(* the header, extents and their growth, open descriptors with their       *)
(* cached length, the console's commands, and what a failed sector write   *)
(* or a power loss in the middle of a call leaves on the disk.             *)
(*                                                                         *)
(* One call at a time.  Every call reads the header, edits one entry of    *)
(* the copy and writes all of it back; a write to a file is three steps    *)
(* (grow, data, size), since it writes the header twice and the data in    *)
(* between.  Timestamps and mode bits are left out.                        *)
(***************************************************************************)
EXTENDS Integers, Sequences, FiniteSets, SequencesExt

CONSTANTS Paths,         \* sequences of names
          EntryCount,    \* PFS_ENTRY_COUNT
          MaxExtents,    \* PFS_MAX_EXTENTS
          DataStart,     \* PFS_DATA_START: the header lies below
          DiskSectors,   \* PFS_DISK_SECTORS
          SectorBytes,   \* 512
          FileMax,       \* PFS_FILE_MAX
          FdCount,       \* APP_FD_COUNT
          MaxWrite,      \* bound: bytes of one write
          MaxFaults,     \* bound: failed or interrupted calls
          Cut,           \* Cut[i] extents of entry i precede a sector boundary, -1 for no boundary
          Shared,        \* FALSE: only behaviours in which an entry has one user at a time
          Byte, Junk     \* what programs write, what a new disk holds

ASSUME PfsAssumption ==
  /\ EntryCount \in Nat \ {0} /\ MaxExtents \in Nat \ {0}
  /\ DataStart \in Nat \ {0} /\ DiskSectors \in Nat
  /\ SectorBytes \in Nat \ {0} /\ FileMax \in Nat
  /\ FdCount \in Nat \ {0} /\ MaxWrite \in Nat /\ MaxFaults \in Nat
  /\ Cut \in [1 .. EntryCount -> -1 .. MaxExtents]
  /\ Shared \in BOOLEAN
  /\ <<>> \notin Paths /\ \A p \in Paths : p \in Seq(Range(p))

Entries == 1 .. EntryCount
Sectors == 0 .. DiskSectors - 1
DataSectors == DataStart .. DiskSectors - 1
Fds     == 1 .. FdCount
Console == 0

\* A name no lookup matches: zeroed, or torn by an interrupted write
NoName == <<>>

Extent == [start : 0 .. DiskSectors, n : 0 .. DiskSectors]
Entry  == [kind : {"free", "file", "dir"}, name : Paths \cup {NoName}, size : 0 .. FileMax,
           cnt : 0 .. MaxExtents, ext : [1 .. MaxExtents -> Extent]]

VARIABLES hdr,     \* the entry table on the disk
          data,    \* the data sectors
          fds,     \* the APP_FDS of kind Pfs
          op,      \* the write in progress
          faults

vars == <<hdr, data, fds, op, faults>>

NoExtent == [start |-> 0, n |-> 0]

\* pfs_set_entry: the rest of the entry is filled with zeros
SetEntry(name, size, kind, exts) ==
  [kind |-> kind, name |-> name, size |-> size, cnt |-> Len(exts),
   ext |-> [k \in 1 .. MaxExtents |-> IF k <= Len(exts) THEN exts[k] ELSE NoExtent]]

\* pfs_clear_entry
FreeEntry == SetEntry(NoName, 0, "free", <<>>)

Closed == [open |-> FALSE, idx |-> 1, len |-> 0, off |-> 0, append |-> FALSE]
NoOp   == [pc |-> "idle", fd |-> Console, idx |-> 1, off |-> 0, n |-> 0]

TypeOK ==
  /\ hdr \in [Entries -> Entry]
  /\ data \in [Sectors -> [0 .. SectorBytes - 1 -> {0, Byte, Junk}]]
  /\ fds \in [Fds -> [open : BOOLEAN, idx : Entries, len : 0 .. FileMax, off : 0 .. FileMax,
                      append : BOOLEAN]]
  /\ op \in [pc : {"idle", "grow", "data", "size", "lost"}, fd : Fds \cup {Console}, idx : Entries,
             off : 0 .. FileMax, n : 0 .. MaxWrite]
  /\ faults \in 0 .. MaxFaults

\* fsformat has run
Init ==
  /\ hdr = [i \in Entries |-> FreeEntry]
  /\ data = [s \in Sectors |-> [b \in 0 .. SectorBytes - 1 |-> Junk]]
  /\ fds = [f \in Fds |-> Closed]
  /\ op = NoOp
  /\ faults = 0

-----------------------------------------------------------------------------
(* Reading the table *)

First(S) == {i \in S : \A j \in S : i <= j}

Used(i) == hdr[i].kind # "free"

\* pfs_find_entry, pfs_free_entry: the first match, if any
Find(p)   == First({i \in Entries : Used(i) /\ hdr[i].name = p})
FreeSlots == First({i \in Entries : ~Used(i)})

\* pfs_parent_exists
ParentExists(p) == Len(p) = 1 \/ \E i \in Find(Front(p)) : hdr[i].kind = "dir"

MutantDirEmpty(p) == TRUE
\* pfs_dir_empty
DirEmpty(p) == ~\E i \in Entries : Used(i) /\ IsStrictPrefix(p, hdr[i].name)

\* The extents of an entry, and the sectors they stand for in file order
Extents(e) == SubSeq(e.ext, 1, e.cnt)

SectorsOf(e) ==
  LET upto[k \in 0 .. e.cnt] ==
        IF k = 0 THEN <<>>
        ELSE upto[k - 1] \o [j \in 1 .. e.ext[k].n |-> e.ext[k].start + j - 1]
  IN  upto[e.cnt]

\* sectors_for_len
SectorsFor(len) == (len + SectorBytes - 1) \div SectorBytes

-----------------------------------------------------------------------------
(* Allocation: free space is whatever no other file's extents cover *)

MutantTaken(i) ==
  {s \in Sectors : \E j \in Entries \ {i} :
     hdr[j].kind = "file" /\ hdr[j].cnt > 0
       /\ s \in hdr[j].ext[1].start .. hdr[j].ext[1].start + hdr[j].ext[1].n - 1}

\* The sectors pfs_find_free_run steps over on behalf of entry i
Taken(i) ==
  {s \in Sectors : \E j \in Entries \ {i} :
     hdr[j].kind = "file" /\ s \in Range(SectorsOf(hdr[j]))}

\* pfs_find_free_run, one sector at a time; DiskSectors if there is none
NextFree(i, from) ==
  LET free == {s \in Sectors : s >= from} \ Taken(i)
  IN  IF free = {} THEN DiskSectors ELSE CHOOSE s \in free : \A t \in free : s <= t

MutantEnd(exts) == IF exts = <<>> THEN 0 ELSE Last(exts).start + Last(exts).n
\* Where the search for more space starts
End(exts) == IF exts = <<>> THEN DataStart ELSE Last(exts).start + Last(exts).n

\* One more sector: in the last extent if it continues it, else a new one
Extended(exts, s) ==
  IF exts # <<>> /\ s = End(exts)
  THEN [exts EXCEPT ![Len(exts)].n = @ + 1]
  ELSE Append(exts, [start |-> s, n |-> 1])

\* pfs_grow_extents: the search goes on from the end of the last extent
Grown(i, more) ==
  LET g[k \in 0 .. more] ==
        IF k = 0 THEN Extents(hdr[i]) ELSE Extended(g[k - 1], NextFree(i, End(g[k - 1])))
  IN  g[more]

Fits(exts) == Len(exts) <= MaxExtents /\ End(exts) <= DiskSectors

-----------------------------------------------------------------------------
(* Writing the header: all its sectors in order.  A sector that fails, or   *)
(* power lost, leaves the new entries before some point and the old ones    *)
(* after it.  An entry that spans a boundary is torn there: kind, size and  *)
(* count precede every boundary, the extents follow, the name comes last.   *)
(* Of the extent at the boundary only the low byte of its start is new: if   *)
(* the start changes at all, that leaves the old or the new one or some     *)
(* sector below (0 stands for these).  The length of the name is new, its   *)
(* bytes are in part old: it may be any name, or none.                      *)

TornStart(old, new) ==
  IF old.start = new.start THEN {old.start} ELSE {0, old.start, new.start}

TornName(old, new) == IF old = new THEN {new} ELSE Paths \cup {NoName}

TornEntry(old, new, c, s, nm) ==
  [new EXCEPT !.name = nm,
              !.ext = [k \in 1 .. MaxExtents |->
                         IF k <= c THEN new.ext[k]
                         ELSE IF k = c + 1 THEN [start |-> s, n |-> old.ext[k].n] ELSE old.ext[k]]]

Torn(old, new, c) ==
  UNION {{TornEntry(old, new, c, s, nm) :
            s \in IF c < MaxExtents THEN TornStart(old.ext[c + 1], new.ext[c + 1]) ELSE {0}} :
         nm \in TornName(old.name, new.name)}

\* write_header succeeds
Stored(h) == hdr' = h /\ UNCHANGED faults

\* The kernel goes on after a failed sector; a power loss closes everything
Interrupted ==
  /\ faults < MaxFaults
  /\ faults' = faults + 1
  /\ fds' \in {fds, [f \in Fds |-> Closed]}
  /\ op' = NoOp

\* write_header stops on the way
HeaderFault(h) ==
  /\ Interrupted
  /\ \E i \in Entries :
       \E e \in {hdr[i], h[i]} \cup (IF Cut[i] = -1 THEN {} ELSE Torn(hdr[i], h[i], Cut[i])) :
         hdr' = [j \in Entries |-> IF j < i THEN h[j] ELSE IF j = i THEN e ELSE hdr[j]]
  /\ UNCHANGED data

Edited(i, e) == [hdr EXCEPT ![i] = e]

\* The console has the CPU only when no process is Ready, and none becomes Ready again
\* before the next `run', which closes every descriptor first (run_program): what is
\* left open then is never used again, and a console command finds nothing open.
NoneOpen == \A f \in Fds : ~fds[f].open

\* Nobody else has entry i open
Alone(i) == Shared \/ \A f \in Fds : ~(fds[f].open /\ fds[f].idx = i)

Idle == op.pc = "idle"

-----------------------------------------------------------------------------
(* The table each call writes back; empty when the call returns early *)

NewFile(p) ==
  {Edited(i, SetEntry(p, 0, "file", <<>>)) :
     i \in {j \in FreeSlots : ParentExists(p) /\ Find(p) = {}}}

\* abi_mkdir, and the console's pmkdir
NewDir(p) ==
  {Edited(i, SetEntry(p, 0, "dir", <<>>)) :
     i \in {j \in FreeSlots : ParentExists(p) /\ Find(p) = {}}}

\* pfs_unlink_header
Unlinked(p) ==
  {Edited(i, FreeEntry) :
     i \in {j \in Find(p) : Alone(j) /\ (hdr[j].kind = "dir" => DirEmpty(p))}}

RenamedTo(p, q) ==
  {Edited(i, SetEntry(q, hdr[i].size, hdr[i].kind, Extents(hdr[i]))) :
     i \in {j \in Find(p) : hdr[j].kind = "dir" => DirEmpty(p)}}

MutantRenamed(p, q) == IF ParentExists(q) THEN RenamedTo(p, q) ELSE {}
\* pfs_rename_header
Renamed(p, q) == IF Find(q) = {} /\ ParentExists(q) THEN RenamedTo(p, q) ELSE {}

Truncatable(p) == {i \in Find(p) : Alone(i) /\ ParentExists(p) /\ hdr[i].kind = "file"}

MutantTruncated(p) == {Edited(i, SetEntry(p, hdr[i].size, "file", <<>>)) : i \in Truncatable(p)}
\* abi_open_pfs with FD_TRUNCATE
Truncated(p) == {Edited(i, SetEntry(p, 0, "file", <<>>)) : i \in Truncatable(p)}

\* PersistentFs::format
Formatted == IF NoneOpen THEN {[i \in Entries |-> FreeEntry]} ELSE {}

\* Every table a call that only touches the header may write
HeaderEdits ==
  Formatted \cup UNION {NewFile(p) \cup NewDir(p) \cup Unlinked(p) \cup Truncated(p)
                          \cup UNION {Renamed(p, q) : q \in Paths} : p \in Paths}

Change(edits) == Idle /\ (\E h \in edits : Stored(h)) /\ UNCHANGED <<data, fds, op>>

Mkdir(p)     == Change(NewDir(p))
Unlink(p)    == Change(Unlinked(p))
Rename(p, q) == Change(Renamed(p, q))

\* fsformat does not need a valid header
Format ==
  /\ op.pc \in {"idle", "lost"}
  /\ \E h \in Formatted : Stored(h)
  /\ op' = NoOp
  /\ UNCHANGED <<data, fds>>

\* The header is written before a descriptor is looked for: with all of them in
\* use the call fails, and the file is created or truncated nevertheless.
OpenAt(i, len, append) ==
  LET slots == First({f \in Fds : ~fds[f].open})
  IN  fds' = [f \in Fds |->
                IF f \in slots
                THEN [open |-> TRUE, idx |-> i, len |-> len, append |-> append,
                      off |-> IF append THEN len ELSE 0]
                ELSE fds[f]]

OpenExisting(p, append) ==
  /\ Idle /\ ParentExists(p)
  /\ \E i \in Find(p) : Alone(i) /\ hdr[i].kind = "file" /\ OpenAt(i, hdr[i].size, append)
  /\ UNCHANGED <<hdr, data, op, faults>>

OpenCreate(p, append) ==
  /\ Idle
  /\ \E h \in NewFile(p) : Stored(h)
  /\ \E i \in FreeSlots : OpenAt(i, 0, append)
  /\ UNCHANGED <<data, op>>

OpenTruncate(p, append) ==
  /\ Idle
  /\ \E h \in Truncated(p) : Stored(h)
  /\ \E i \in Find(p) : OpenAt(i, 0, append)
  /\ UNCHANGED <<data, op>>

EditFault == Idle /\ \E h \in HeaderEdits : HeaderFault(h)

-----------------------------------------------------------------------------
(* Descriptors *)

\* pfs_read_at finds every sector below position last
Readable(i, last) == Used(i) /\ SectorsFor(last) <= Len(SectorsOf(hdr[i]))

\* abi_read: n bytes, if the cached length has them
Read(f, n) ==
  LET last == fds[f].off + n
  IN  /\ Idle /\ fds[f].open /\ n > 0 /\ last <= fds[f].len
      /\ Readable(fds[f].idx, last)
      /\ fds' = [fds EXCEPT ![f].off = last]
      /\ UNCHANGED <<hdr, data, op, faults>>

\* abi_seek: past the end is allowed
Seek(f, off) ==
  /\ Idle /\ fds[f].open
  /\ fds' = [fds EXCEPT ![f].off = off]
  /\ UNCHANGED <<hdr, data, op, faults>>

Close(f) ==
  /\ Idle /\ fds[f].open
  /\ fds' = [fds EXCEPT ![f] = Closed]
  /\ UNCHANGED <<hdr, data, op, faults>>

MutantTooLong(off, n) == off > FileMax
TooLong(off, n) == off + n > FileMax

\* abi_write_fd up to pfs_write_at
Write(f, n) ==
  LET off == IF fds[f].append THEN fds[f].len ELSE fds[f].off
  IN  /\ Idle /\ fds[f].open
      /\ fds' = [fds EXCEPT ![f].off = off]
      /\ op' = IF TooLong(off, n) THEN NoOp
               ELSE [pc |-> "grow", fd |-> f, idx |-> fds[f].idx, off |-> off, n |-> n]
      /\ UNCHANGED <<hdr, data, faults>>

\* PersistentFs::write: an entry that does not exist is stored first
ConsoleWrite(p, n) ==
  /\ Idle /\ NoneOpen /\ ParentExists(p) /\ ~TooLong(0, n)
  /\ \E i \in IF Find(p) # {} THEN Find(p) ELSE FreeSlots :
       /\ hdr[i].kind # "dir"
       /\ Stored(IF Used(i) THEN hdr ELSE Edited(i, SetEntry(p, 0, "file", <<>>)))
       /\ op' = [pc |-> "grow", fd |-> Console, idx |-> i, off |-> 0, n |-> n]
  /\ UNCHANGED <<data, fds>>

-----------------------------------------------------------------------------
(* pfs_write_at and what follows it *)

Target == hdr[op.idx]

\* The table pfs_ensure_file_capacity wants: unchanged if the file is large enough
Capacity ==
  LET more == SectorsFor(op.off + op.n) - Len(SectorsOf(Target))
      exts == Grown(op.idx, more)
  IN  IF Target.kind # "file" THEN {}
      ELSE IF more <= 0 THEN {hdr}
      ELSE IF Fits(exts)
      THEN {Edited(op.idx, SetEntry(Target.name, Target.size, Target.kind, exts))}
      ELSE {}

EnsureCapacity ==
  /\ op.pc = "grow"
  /\ \E h \in Capacity : Stored(h)
  /\ op' = [op EXCEPT !.pc = "data"]
  /\ UNCHANGED <<data, fds>>

\* Disk full, or the entry is gone: the call fails
NoCapacity ==
  /\ op.pc = "grow" /\ Capacity = {}
  /\ op' = NoOp
  /\ UNCHANGED <<hdr, data, fds, faults>>

\* data with v at the file's positions lo .. hi - 1
Patched(d, lo, hi, v) ==
  LET sectors == SectorsOf(Target)
  IN  [s \in Sectors |-> [b \in 0 .. SectorBytes - 1 |->
         IF \E k \in lo .. hi - 1 : sectors[k \div SectorBytes + 1] = s /\ k % SectorBytes = b
         THEN v ELSE d[s][b]]]

MutantZeroed == data
\* pfs_zero_range over the gap a seek past the end leaves
Zeroed == IF op.off > Target.size THEN Patched(data, Target.size, op.off, 0) ELSE data

\* The size pfs_update_size will store
NewSize == op.off + op.n

Continues == op.fd = Console \/ NewSize > fds[op.fd].len

\* The file's positions that pfs_write_at stores to: the gap, then the data
Stores == (IF op.off > Target.size THEN Target.size ELSE op.off) .. NewSize - 1

HitsHeader == \E k \in Stores : SectorsOf(Target)[k \div SectorBytes + 1] < DataStart

\* Data lands on the header, which after an interrupted write it can.  The table
\* is then arbitrary bytes, or not a header at all; the model does not follow
\* it any further than to the next fsformat.
HeaderLost ==
  /\ op.pc = "data" /\ HitsHeader
  /\ hdr' = [i \in Entries |-> FreeEntry]
  /\ op' = [NoOp EXCEPT !.pc = "lost"]
  /\ UNCHANGED <<data, fds, faults>>

WriteData ==
  /\ op.pc = "data" /\ ~HitsHeader
  /\ data' = Patched(Zeroed, op.off, NewSize, Byte)
  /\ fds' = IF op.fd = Console THEN fds
            ELSE [fds EXCEPT ![op.fd].off = NewSize,
                             ![op.fd].len = IF Continues THEN NewSize ELSE @]
  /\ op' = IF Continues THEN [op EXCEPT !.pc = "size"] ELSE NoOp
  /\ UNCHANGED <<hdr, faults>>

\* A data sector fails, or power is lost: the file's sectors up to m are written
DataFault ==
  /\ op.pc = "data" /\ ~HitsHeader
  /\ Interrupted
  /\ \E m \in {k \in 0 .. NewSize : k = op.off \/ k % SectorBytes = 0} :
       data' = IF m <= op.off THEN Patched(data, Target.size, m, 0)
               ELSE Patched(Zeroed, op.off, m, Byte)
  /\ UNCHANGED hdr

\* pfs_update_size
Sized == Edited(op.idx, [Target EXCEPT !.size = NewSize])

UpdateSize ==
  /\ op.pc = "size"
  /\ Stored(Sized)
  /\ op' = NoOp
  /\ UNCHANGED <<data, fds>>

WriteFault ==
  \/ op.pc = "grow" /\ \E h \in Capacity : HeaderFault(h)
  \/ op.pc = "size" /\ HeaderFault(Sized)

\* app_close_all_fds before the console's next command, or power off between two calls
CloseAll ==
  /\ op.pc \in {"idle", "lost"}
  /\ fds' = [f \in Fds |-> Closed]
  /\ UNCHANGED <<hdr, data, op, faults>>

-----------------------------------------------------------------------------
Next ==
  \/ \E p \in Paths : Mkdir(p) \/ Unlink(p) \/ \E q \in Paths : Rename(p, q)
  \/ Format \/ EditFault
  \/ \E p \in Paths, a \in BOOLEAN : OpenExisting(p, a) \/ OpenCreate(p, a) \/ OpenTruncate(p, a)
  \/ \E f \in Fds, n \in 0 .. MaxWrite : Read(f, n) \/ Write(f, n)
  \/ \E f \in Fds : Close(f) \/ \E off \in 0 .. FileMax : Seek(f, off)
  \/ \E p \in Paths, n \in 0 .. MaxWrite : ConsoleWrite(p, n)
  \/ EnsureCapacity \/ NoCapacity \/ WriteData \/ HeaderLost \/ UpdateSize
  \/ WriteFault \/ DataFault
  \/ CloseAll

Spec == Init /\ [][Next]_vars

-----------------------------------------------------------------------------
IsFile(i) == hdr[i].kind = "file"

\* Two files never share a sector: pfs_find_free_run skips the file's own extents,
\* stale descriptors grow entries that changed hands, and one header write may stop
\* anywhere.  (Two may leave shared sectors: the first a truncated entry with its old
\* extents still behind the count, the second a count that takes them in again.)
FilesDisjoint ==
  faults <= 1 => \A i, j \in Entries : i # j /\ IsFile(i) /\ IsFile(j) =>
    Range(SectorsOf(hdr[i])) \cap Range(SectorsOf(hdr[j])) = {}

\* As long as every header write went through, a file has no sector twice and none
\* in the header or beyond the disk.
InDataArea ==
  faults = 0 => \A i \in Entries : IsFile(i) =>
    /\ IsInjective(SectorsOf(hdr[i]))
    /\ Range(SectorsOf(hdr[i])) \subseteq DataSectors

\* Every byte below the size has a sector, so that `pread' never reports corrupt
\* extents, although size and extents are stored by different header writes.
SizeCovered ==
  \A i \in Entries : IsFile(i) => SectorsFor(hdr[i].size) <= Len(SectorsOf(hdr[i]))

\* A path names one entry, as long as every header write went through: a torn
\* rename leaves old bytes under a new length.
NamesUnique ==
  faults = 0 => \A i, j \in Entries :
    Used(i) /\ Used(j) /\ hdr[i].name = hdr[j].name /\ hdr[i].name # NoName => i = j

\* No file is left in a directory that does not exist any more (an interrupted
\* fsformat apart).
NoOrphanFile ==
  faults = 0 => \A i \in Entries : IsFile(i) /\ hdr[i].name # NoName => ParentExists(hdr[i].name)

\* Append-mode descriptors write at the end of the file on every call.
AppendAtEof ==
  op.pc = "data" /\ op.fd # Console /\ fds[op.fd].append => op.off = Target.size

-----------------------------------------------------------------------------
\* The files as FileStore sees them.  Between the data and the size step the
\* new size already counts.
SizeOf(i) == IF op.pc = "size" /\ op.idx = i THEN NewSize ELSE hdr[i].size

Bytes(i) ==
  LET sectors == SectorsOf(hdr[i])
  IN  [k \in 1 .. SizeOf(i) |-> data[sectors[(k - 1) \div SectorBytes + 1]][(k - 1) % SectorBytes]]

Files ==
  [p \in {hdr[i].name : i \in {j \in Entries : Used(j)}} |->
     LET i == CHOOSE i \in Entries : Used(i) /\ hdr[i].name = p
     IN  [dir |-> hdr[i].kind = "dir", bytes |-> Bytes(i)]]

Store == INSTANCE FileStore WITH files <- Files

\* As long as an entry has one user at a time, every call does to the files what
\* FileStore says: content in place across growth and fragmentation, gaps that
\* read as zero whatever the sectors held before, nothing lost by a rename.
FileStoreSpec == Store!Spec
=============================================================================
