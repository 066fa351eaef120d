--------------------------- MODULE CommandProofs ---------------------------
(***************************************************************************)
(* Command for every set of requests, every size of the tables, every      *)
(* depth of calls and every budget.                                        *)
(***************************************************************************)
EXTENDS Command, EnvProofs

-----------------------------------------------------------------------------
(* The descriptor and pipe tables *)

Handles == [kind : {"Empty"}] \cup [kind : {"PipeRead", "PipeWrite"}, pipe : PipeIds]
             \cup [kind : {"Pfs"}, file : Files, offset : Nat]
Pipes   == [used : BOOLEAN, read_open : BOOLEAN, write_open : BOOLEAN,
            buffer : Seq(Bytes), read_offset : Nat]
Tabs    == [fds : [TableFds -> Handles], pipes : [PipeIds -> Pipes]]

\* A pipe holds what fits, and no more is read than was written.
Fits(pipe) == Len(pipe.buffer) <= APP_PIPE_BUFFER_SIZE /\ pipe.read_offset <= Len(pipe.buffer)

\* EndsMatch without counting.
IsEnd(h) == h.kind \in {"PipeRead", "PipeWrite"}
EndOpen(t, h) == IF h.kind = "PipeRead" THEN t.pipes[h.pipe].read_open ELSE t.pipes[h.pipe].write_open

Matched(t) ==
    /\ \A p \in PipeIds : t.pipes[p].used <=> (t.pipes[p].read_open \/ t.pipes[p].write_open)
    /\ \A fd \in TableFds : IsEnd(t.fds[fd]) => EndOpen(t, t.fds[fd])
    /\ \A p \in PipeIds : t.pipes[p].read_open => \E fd \in TableFds : t.fds[fd] = PipeRead(p)
    /\ \A p \in PipeIds : t.pipes[p].write_open => \E fd \in TableFds : t.fds[fd] = PipeWrite(p)
    /\ \A fd, gd \in TableFds : IsEnd(t.fds[fd]) /\ t.fds[fd] = t.fds[gd] => fd = gd

GoodTab(t) == t \in Tabs /\ (\A p \in PipeIds : Fits(t.pipes[p])) /\ Matched(t)

\* The four kinds of descriptors.
LEMMA HandleKinds ==
  ASSUME NEW h \in Handles
  PROVE  /\ h.kind \in {"Empty", "PipeRead", "PipeWrite", "Pfs"}
         /\ h.kind = "Empty" <=> h = Closed
         /\ h.kind = "PipeRead" => h.pipe \in PipeIds /\ h = PipeRead(h.pipe)
         /\ h.kind = "PipeWrite" => h.pipe \in PipeIds /\ h = PipeWrite(h.pipe)
         /\ h.kind = "Pfs" => h.file \in Files /\ h.offset \in Nat /\ h = Pfs(h.file, h.offset)
<1>1. CASE h \in [kind : {"Empty"}]
  BY <1>1 DEF Closed
<1>2. CASE h \in [kind : {"PipeRead", "PipeWrite"}, pipe : PipeIds]
  BY <1>2 DEF PipeRead, PipeWrite, Closed
<1>3. CASE h \in [kind : {"Pfs"}, file : Files, offset : Nat]
  BY <1>3 DEF Pfs, Closed
<1> QED
  BY <1>1, <1>2, <1>3 DEF Handles

LEMMA HandleMembers ==
  /\ Closed \in Handles /\ Closed.kind = "Empty"
  /\ \A p \in PipeIds : /\ PipeRead(p) \in Handles /\ PipeRead(p).kind = "PipeRead" /\ PipeRead(p).pipe = p
                        /\ PipeWrite(p) \in Handles /\ PipeWrite(p).kind = "PipeWrite" /\ PipeWrite(p).pipe = p
  /\ \A f \in Files, n \in Nat : /\ Pfs(f, n) \in Handles /\ Pfs(f, n).kind = "Pfs"
                                 /\ Pfs(f, n).file = f /\ Pfs(f, n).offset = n
  BY DEF Handles, Closed, PipeRead, PipeWrite, Pfs

LEMMA TabParts ==
  ASSUME NEW t \in Tabs
  PROVE  /\ t.fds \in [TableFds -> Handles] /\ t.pipes \in [PipeIds -> Pipes]
         /\ \A fd \in TableFds : t.fds[fd] \in Handles
         /\ \A p \in PipeIds : t.pipes[p] \in Pipes
  BY DEF Tabs

\* What is open is what is not empty.
LEMMA OpenIs ==
  ASSUME NEW t \in Tabs, NEW fd
  PROVE  fd \in Open(t) <=> fd \in TableFds /\ t.fds[fd].kind # "Empty"
<1>1. fd \in TableFds => (t.fds[fd].kind = "Empty" <=> t.fds[fd] = Closed)
  BY TabParts, HandleKinds
<1> QED
  BY <1>1 DEF Open

\* Two descriptor tables that show the same descriptors and pipes on a set of
\* descriptors; offsets and buffers may differ.
SameHandle(h, g) == g = h \/ (h.kind = "Pfs" /\ g.kind = "Pfs" /\ g.file = h.file)
SameFlags(p, q) == q.used = p.used /\ q.read_open = p.read_open /\ q.write_open = p.write_open
KeepsAt(t, u, S) ==
    \A fd \in S : /\ fd \in TableFds /\ SameHandle(t.fds[fd], u.fds[fd])
                  /\ IsEnd(t.fds[fd]) => SameFlags(t.pipes[t.fds[fd].pipe], u.pipes[t.fds[fd].pipe])

\* Tables of the same shape.
SameShape(t, u) ==
    /\ \A fd \in TableFds : SameHandle(t.fds[fd], u.fds[fd])
    /\ \A p \in PipeIds : SameFlags(t.pipes[p], u.pipes[p])

LEMMA ShapeKeepsAt ==
  ASSUME NEW t \in Tabs, NEW u, SameShape(t, u), NEW S \in SUBSET TableFds
  PROVE  KeepsAt(t, u, S)
<1>1. \A fd \in TableFds : IsEnd(t.fds[fd]) => t.fds[fd].pipe \in PipeIds
  BY TabParts, HandleKinds DEF IsEnd
<1> QED
  BY <1>1 DEF SameShape, KeepsAt

LEMMA ShapeOpen ==
  ASSUME NEW t \in Tabs, NEW u \in Tabs, SameShape(t, u)
  PROVE  Open(u) = Open(t)
<1>1. ASSUME NEW fd \in TableFds PROVE u.fds[fd].kind = t.fds[fd].kind
  BY DEF SameShape, SameHandle
<1> QED
  BY <1>1, OpenIs

LEMMA ShapeMatched ==
  ASSUME NEW t \in Tabs, NEW u \in Tabs, SameShape(t, u), Matched(t)
  PROVE  Matched(u)
<1>1. ASSUME NEW fd \in TableFds
      PROVE  /\ IsEnd(u.fds[fd]) <=> IsEnd(t.fds[fd])
             /\ IsEnd(t.fds[fd]) => u.fds[fd] = t.fds[fd] /\ t.fds[fd].pipe \in PipeIds
  <2>1. IsEnd(t.fds[fd]) => t.fds[fd].pipe \in PipeIds
    BY TabParts, HandleKinds DEF IsEnd
  <2> QED
    BY <2>1 DEF SameShape, SameHandle, IsEnd
<1>2. \A p \in PipeIds : SameFlags(t.pipes[p], u.pipes[p])
  BY DEF SameShape
<1>3. \A p \in PipeIds : u.pipes[p].used <=> (u.pipes[p].read_open \/ u.pipes[p].write_open)
  BY <1>2 DEF SameFlags, Matched
<1>4. ASSUME NEW fd \in TableFds, IsEnd(u.fds[fd]) PROVE EndOpen(u, u.fds[fd])
  <2>1. EndOpen(t, t.fds[fd]) /\ u.fds[fd] = t.fds[fd] /\ t.fds[fd].pipe \in PipeIds
    BY <1>1, <1>4 DEF Matched
  <2> QED
    BY <1>2, <2>1 DEF EndOpen, SameFlags
<1>5. ASSUME NEW p \in PipeIds, u.pipes[p].read_open PROVE \E fd \in TableFds : u.fds[fd] = PipeRead(p)
  <2>1. PICK fd \in TableFds : t.fds[fd] = PipeRead(p)
    BY <1>2, <1>5 DEF Matched, SameFlags
  <2>2. IsEnd(t.fds[fd])
    BY <2>1, HandleMembers DEF IsEnd
  <2> QED
    BY <1>1, <2>1, <2>2
<1>6. ASSUME NEW p \in PipeIds, u.pipes[p].write_open PROVE \E fd \in TableFds : u.fds[fd] = PipeWrite(p)
  <2>1. PICK fd \in TableFds : t.fds[fd] = PipeWrite(p)
    BY <1>2, <1>6 DEF Matched, SameFlags
  <2>2. IsEnd(t.fds[fd])
    BY <2>1, HandleMembers DEF IsEnd
  <2> QED
    BY <1>1, <2>1, <2>2
<1>7. ASSUME NEW fd \in TableFds, NEW gd \in TableFds, IsEnd(u.fds[fd]), u.fds[fd] = u.fds[gd] PROVE fd = gd
  <2>1. IsEnd(u.fds[gd])
    BY <1>7
  <2>2. IsEnd(t.fds[fd]) /\ u.fds[fd] = t.fds[fd] /\ u.fds[gd] = t.fds[gd]
    BY <1>1, <1>7, <2>1
  <2> QED
    BY <1>7, <2>2 DEF Matched
<1> QED
  BY <1>3, <1>4, <1>5, <1>6, <1>7 DEF Matched

\* Matched tables pass the count of ends.
LEMMA MatchedEnds ==
  ASSUME NEW t \in Tabs, Matched(t)
  PROVE  EndsMatch(t)
<1> SUFFICES ASSUME NEW p \in PipeIds
             PROVE  /\ Cardinality({fd \in Open(t) : t.fds[fd].kind = "PipeRead" /\ t.fds[fd].pipe = p})
                         = (IF t.pipes[p].read_open THEN 1 ELSE 0)
                    /\ Cardinality({fd \in Open(t) : t.fds[fd].kind = "PipeWrite" /\ t.fds[fd].pipe = p})
                         = (IF t.pipes[p].write_open THEN 1 ELSE 0)
                    /\ t.pipes[p].used <=> (t.pipes[p].read_open \/ t.pipes[p].write_open)
  BY DEF EndsMatch
<1> DEFINE R == {fd \in Open(t) : t.fds[fd].kind = "PipeRead" /\ t.fds[fd].pipe = p}
           W == {fd \in Open(t) : t.fds[fd].kind = "PipeWrite" /\ t.fds[fd].pipe = p}
<1>1. \A fd : fd \in R <=> fd \in TableFds /\ t.fds[fd] = PipeRead(p)
  BY OpenIs, TabParts, HandleKinds, HandleMembers
<1>2. \A fd : fd \in W <=> fd \in TableFds /\ t.fds[fd] = PipeWrite(p)
  BY OpenIs, TabParts, HandleKinds, HandleMembers
<1> HIDE DEF R, W
<1>3. Cardinality(R) = IF t.pipes[p].read_open THEN 1 ELSE 0
  <2>1. CASE t.pipes[p].read_open
    <3>1. PICK fd \in TableFds : t.fds[fd] = PipeRead(p)
      BY <2>1 DEF Matched
    <3>2. R = {fd}
      BY <1>1, <3>1, HandleMembers DEF Matched, IsEnd
    <3> QED
      BY <2>1, <3>2, FS_Singleton
  <2>2. CASE ~t.pipes[p].read_open
    <3>1. R = {}
      BY <1>1, <2>2, HandleMembers DEF Matched, IsEnd, EndOpen
    <3> QED
      BY <2>2, <3>1, FS_EmptySet
  <2> QED
    BY <2>1, <2>2
<1>4. Cardinality(W) = IF t.pipes[p].write_open THEN 1 ELSE 0
  <2>1. CASE t.pipes[p].write_open
    <3>1. PICK fd \in TableFds : t.fds[fd] = PipeWrite(p)
      BY <2>1 DEF Matched
    <3>2. W = {fd}
      BY <1>2, <3>1, HandleMembers DEF Matched, IsEnd
    <3> QED
      BY <2>1, <3>2, FS_Singleton
  <2>2. CASE ~t.pipes[p].write_open
    <3>1. W = {}
      BY <1>2, <2>2, HandleMembers DEF Matched, IsEnd, EndOpen
    <3> QED
      BY <2>2, <3>1, FS_EmptySet
  <2> QED
    BY <2>1, <2>2
<1> QED
  BY <1>3, <1>4 DEF Matched, R, W

\* The tables at boot.
LEMMA NothingOpen ==
  GoodTab(app_close_all_fds) /\ Open(app_close_all_fds) = {}
<1> DEFINE t == app_close_all_fds
<1>1. EmptyPipe \in Pipes /\ Fits(EmptyPipe) /\ ~EmptyPipe.used /\ ~EmptyPipe.read_open /\ ~EmptyPipe.write_open
  BY FdsAssumption DEF EmptyPipe, Pipes, Fits
<1>2. t.fds = [fd \in TableFds |-> Closed] /\ t.pipes = [p \in PipeIds |-> EmptyPipe]
  BY DEF app_close_all_fds
<1>3. t \in Tabs
  BY <1>1, HandleMembers DEF app_close_all_fds, Tabs
<1> HIDE DEF t
<1>4. Matched(t)
  BY <1>1, <1>2, HandleMembers DEF Matched, IsEnd
<1>5. Open(t) = {}
  BY <1>2 DEF Open
<1> QED
  BY <1>1, <1>2, <1>3, <1>4, <1>5 DEF GoodTab, t

\* The first of a set of numbers belongs to it.
LEMMA MinMember ==
  ASSUME NEW S, S \subseteq Nat, S # {}
  PROVE  Min(S) \in S
<1>1. \E m \in S : \A k \in S : m <= k
  BY Least
<1> QED
  BY <1>1, Zenon DEF Min

LEMMA FdsNat == TableFds \subseteq Nat /\ PipeIds \subseteq Nat /\ Std \cap TableFds = {}
  BY FdsAssumption DEF TableFds, PipeIds, APP_FD_BASE, Std

LEMMA FreeFdsFinite ==
  ASSUME NEW t
  PROVE  IsFiniteSet(FreeFds(t))
<1>1. IsFiniteSet(TableFds)
  BY FdsAssumption, FS_Interval DEF TableFds, APP_FD_BASE
<1>2. FreeFds(t) \subseteq TableFds
  BY DEF FreeFds
<1> QED
  BY <1>1, <1>2, FS_Subset

\* abi_pipe: two new descriptors, for the two ends of one pipe nobody used.
LEMMA PipeFacts ==
  ASSUME NEW t, GoodTab(t), CanPipe(t)
  PROVE  LET a == abi_pipe(t)
             u == a.tab
         IN  /\ a.read \in TableFds \ Open(t) /\ a.write \in TableFds \ Open(t) /\ a.read # a.write
             /\ \E p \in PipeIds :
                  /\ ~t.pipes[p].used
                  /\ u.fds[a.read] = PipeRead(p) /\ u.fds[a.write] = PipeWrite(p)
                  /\ \A q \in PipeIds \ {p} : u.pipes[q] = t.pipes[q]
                  /\ u.pipes[p] = [EmptyPipe EXCEPT !.used = TRUE, !.read_open = TRUE, !.write_open = TRUE]
             /\ \A fd \in TableFds \ {a.read, a.write} : u.fds[fd] = t.fds[fd]
             /\ u \in Tabs
<1> DEFINE a == abi_pipe(t)
           u == a.tab
           p == Min(FreePipes(t))
           r == Min(FreeFds(t))
           w == Min(FreeFds(t) \ {r})
           new == [EmptyPipe EXCEPT !.used = TRUE, !.read_open = TRUE, !.write_open = TRUE]
<1>1. t \in Tabs
  BY DEF GoodTab
<1>2. p \in FreePipes(t)
  BY FdsNat, MinMember DEF FreePipes, CanPipe
<1>3. FreeFds(t) \subseteq TableFds /\ FreeFds(t) \cap Open(t) = {}
  BY DEF FreeFds
<1>4. FreeFds(t) # {}
  BY FS_EmptySet DEF CanPipe
<1>5. r \in FreeFds(t)
  BY <1>3, <1>4, FdsNat, MinMember
<1>6. FreeFds(t) \ {r} # {}
  <2> SUFFICES ASSUME FreeFds(t) \ {r} = {} PROVE FALSE
    OBVIOUS
  <2> HIDE DEF r
  <2>1. FreeFds(t) = {r}
    BY <1>5
  <2>2. Cardinality(FreeFds(t)) = 1
    BY <2>1, FS_Singleton
  <2> QED
    BY <2>2 DEF CanPipe
<1>7. w \in FreeFds(t) \ {r}
  <2> HIDE DEF r
  <2> QED
    BY <1>3, <1>6, FdsNat, MinMember
<1>8. /\ a.read = r /\ a.write = w
      /\ u = [fds |-> [t.fds EXCEPT ![r] = PipeRead(p), ![w] = PipeWrite(p)],
              pipes |-> [t.pipes EXCEPT ![p] = new]]
  BY DEF abi_pipe
<1> HIDE DEF a, p, r, w
<1>9. new \in Pipes
  <2>1. EmptyPipe \in Pipes
    BY DEF EmptyPipe, Pipes
  <2> QED
    BY <2>1 DEF Pipes
<1>10. p \in PipeIds /\ ~t.pipes[p].used /\ r \in TableFds /\ w \in TableFds /\ r # w
  BY <1>2, <1>3, <1>5, <1>7 DEF FreePipes
<1> HIDE DEF new
<1>11. /\ u.fds = [t.fds EXCEPT ![r] = PipeRead(p), ![w] = PipeWrite(p)]
       /\ u.pipes = [t.pipes EXCEPT ![p] = new]
  BY <1>8
<1>12. u.fds \in [TableFds -> Handles] /\ u.pipes \in [PipeIds -> Pipes]
  BY <1>1, <1>9, <1>10, <1>11, TabParts, HandleMembers
<1>13. u \in Tabs
  BY <1>8, <1>11, <1>12 DEF Tabs
<1>14. /\ u.fds[r] = PipeRead(p) /\ u.fds[w] = PipeWrite(p)
       /\ \A fd \in TableFds \ {r, w} : u.fds[fd] = t.fds[fd]
       /\ u.pipes[p] = new /\ \A q \in PipeIds \ {p} : u.pipes[q] = t.pipes[q]
  BY <1>1, <1>10, <1>11, TabParts
<1>15. a.read \in TableFds \ Open(t) /\ a.write \in TableFds \ Open(t) /\ a.read # a.write
  BY <1>3, <1>5, <1>7, <1>8, <1>10
<1>16. \E q \in PipeIds :
         /\ ~t.pipes[q].used
         /\ u.fds[a.read] = PipeRead(q) /\ u.fds[a.write] = PipeWrite(q)
         /\ \A x \in PipeIds \ {q} : u.pipes[x] = t.pipes[x]
         /\ u.pipes[q] = new
  BY <1>8, <1>10, <1>14
<1> HIDE DEF u
<1> QED
  BY <1>8, <1>13, <1>14, <1>15, <1>16 DEF u, a, new

\* A new pipe disturbs nothing that was open.
LEMMA PipeKeeps ==
  ASSUME NEW t, GoodTab(t), CanPipe(t)
  PROVE  LET a == abi_pipe(t)
             u == a.tab
         IN  /\ GoodTab(u) /\ KeepsAt(t, u, Open(t)) /\ Open(u) = Open(t) \cup {a.read, a.write}
             /\ \E p \in PipeIds :
                  /\ u.fds[a.read] = PipeRead(p) /\ u.fds[a.write] = PipeWrite(p)
                  /\ u.pipes[p].read_open /\ u.pipes[p].write_open /\ u.pipes[p].used
                  /\ u.pipes[p].buffer = <<>> /\ u.pipes[p].read_offset = 0
                  /\ ~t.pipes[p].used /\ \A q \in PipeIds \ {p} : u.pipes[q] = t.pipes[q]
             /\ \A fd \in TableFds \ {a.read, a.write} : u.fds[fd] = t.fds[fd]
<1> DEFINE a == abi_pipe(t)
           u == a.tab
           r == a.read
           w == a.write
           new == [EmptyPipe EXCEPT !.used = TRUE, !.read_open = TRUE, !.write_open = TRUE]
<1>1. /\ r \in TableFds \ Open(t) /\ w \in TableFds \ Open(t) /\ r # w
      /\ \E p \in PipeIds :
           /\ ~t.pipes[p].used
           /\ u.fds[r] = PipeRead(p) /\ u.fds[w] = PipeWrite(p)
           /\ \A q \in PipeIds \ {p} : u.pipes[q] = t.pipes[q]
           /\ u.pipes[p] = new
      /\ \A fd \in TableFds \ {r, w} : u.fds[fd] = t.fds[fd]
      /\ u \in Tabs
  BY PipeFacts, Zenon
<1> HIDE DEF a
<1>2. PICK p \in PipeIds :
        /\ ~t.pipes[p].used
        /\ u.fds[r] = PipeRead(p) /\ u.fds[w] = PipeWrite(p)
        /\ \A q \in PipeIds \ {p} : u.pipes[q] = t.pipes[q]
        /\ u.pipes[p] = new
  BY <1>1
<1>3. new.used /\ new.read_open /\ new.write_open /\ new.buffer = <<>> /\ new.read_offset = 0 /\ Fits(new)
  BY FdsAssumption DEF EmptyPipe, Fits
<1> HIDE DEF u, r, w, new
<1>4. t \in Tabs /\ Matched(t) /\ \A q \in PipeIds : Fits(t.pipes[q])
  BY DEF GoodTab
<1>5. ~t.pipes[p].read_open /\ ~t.pipes[p].write_open
  BY <1>2, <1>4 DEF Matched
<1>6. ASSUME NEW fd \in TableFds, IsEnd(t.fds[fd])
      PROVE  t.fds[fd].pipe # p /\ t.fds[fd].pipe \in PipeIds /\ u.fds[fd] = t.fds[fd] /\ fd \in Open(t)
  <2>1. t.fds[fd].pipe \in PipeIds
    BY <1>4, <1>6, TabParts, HandleKinds DEF IsEnd
  <2>2. fd \in Open(t)
    BY <1>4, <1>6, OpenIs DEF IsEnd
  <2>3. t.fds[fd].pipe # p
    BY <1>4, <1>5, <1>6 DEF Matched, EndOpen
  <2> QED
    BY <1>1, <2>1, <2>2, <2>3
<1>7. \A fd \in TableFds : u.fds[fd] = IF fd = r THEN PipeRead(p) ELSE IF fd = w THEN PipeWrite(p) ELSE t.fds[fd]
  BY <1>1, <1>2
<1>8. Open(u) = Open(t) \cup {r, w}
  <2>1. ASSUME NEW fd \in TableFds PROVE fd \in Open(u) <=> fd \in Open(t) \/ fd \in {r, w}
    BY <1>1, <1>4, <1>7, OpenIs, HandleMembers
  <2>2. Open(u) \subseteq TableFds /\ Open(t) \subseteq TableFds /\ {r, w} \subseteq TableFds
    BY <1>1 DEF Open
  <2> QED
    BY <2>1, <2>2
<1>9. KeepsAt(t, u, Open(t))
  <2>1. ASSUME NEW fd \in Open(t)
        PROVE  /\ fd \in TableFds /\ SameHandle(t.fds[fd], u.fds[fd])
               /\ IsEnd(t.fds[fd]) => SameFlags(t.pipes[t.fds[fd].pipe], u.pipes[t.fds[fd].pipe])
    <3>1. fd \in TableFds /\ u.fds[fd] = t.fds[fd]
      BY <1>1, <1>7 DEF Open
    <3>2. IsEnd(t.fds[fd]) => u.pipes[t.fds[fd].pipe] = t.pipes[t.fds[fd].pipe]
      BY <1>2, <1>6, <3>1
    <3> QED
      BY <3>1, <3>2 DEF SameHandle, SameFlags
  <2> QED
    BY <2>1 DEF KeepsAt
<1>10. Matched(u)
  <2>1. \A q \in PipeIds : u.pipes[q].used <=> (u.pipes[q].read_open \/ u.pipes[q].write_open)
    <3>1. ASSUME NEW q \in PipeIds PROVE u.pipes[q].used <=> (u.pipes[q].read_open \/ u.pipes[q].write_open)
      <4>1. CASE q = p
        BY <1>2, <1>3, <4>1
      <4>2. CASE q # p
        BY <1>2, <1>4, <4>2 DEF Matched
      <4> QED
        BY <4>1, <4>2
    <3> QED
      BY <3>1
  <2>2. ASSUME NEW fd \in TableFds, IsEnd(u.fds[fd]) PROVE EndOpen(u, u.fds[fd])
    <3>1. CASE fd \in {r, w}
      BY <1>2, <1>3, <1>7, <3>1, HandleMembers DEF EndOpen
    <3>2. CASE fd \notin {r, w}
      <4>1. u.fds[fd] = t.fds[fd]
        BY <1>7, <3>2
      <4>2. EndOpen(t, t.fds[fd]) /\ t.fds[fd].pipe # p /\ t.fds[fd].pipe \in PipeIds
        BY <1>4, <1>6, <2>2, <4>1 DEF Matched
      <4> QED
        BY <1>2, <4>1, <4>2 DEF EndOpen
    <3> QED
      BY <3>1, <3>2
  <2>3. ASSUME NEW q \in PipeIds, u.pipes[q].read_open PROVE \E fd \in TableFds : u.fds[fd] = PipeRead(q)
    <3>1. CASE q = p
      BY <1>1, <1>2, <3>1
    <3>2. CASE q # p
      <4>1. PICK fd \in TableFds : t.fds[fd] = PipeRead(q)
        BY <1>2, <1>4, <2>3, <3>2 DEF Matched
      <4>2. IsEnd(t.fds[fd])
        BY <4>1, HandleMembers DEF IsEnd
      <4> QED
        BY <1>6, <4>1, <4>2
    <3> QED
      BY <3>1, <3>2
  <2>4. ASSUME NEW q \in PipeIds, u.pipes[q].write_open PROVE \E fd \in TableFds : u.fds[fd] = PipeWrite(q)
    <3>1. CASE q = p
      BY <1>1, <1>2, <3>1
    <3>2. CASE q # p
      <4>1. PICK fd \in TableFds : t.fds[fd] = PipeWrite(q)
        BY <1>2, <1>4, <2>4, <3>2 DEF Matched
      <4>2. IsEnd(t.fds[fd])
        BY <4>1, HandleMembers DEF IsEnd
      <4> QED
        BY <1>6, <4>1, <4>2
    <3> QED
      BY <3>1, <3>2
  <2>5. ASSUME NEW fd \in TableFds, NEW gd \in TableFds, IsEnd(u.fds[fd]), u.fds[fd] = u.fds[gd] PROVE fd = gd
    <3>1. PipeRead(p) # PipeWrite(p) /\ PipeRead(p).pipe = p /\ PipeWrite(p).pipe = p
      BY HandleMembers
    <3>2. IsEnd(u.fds[gd])
      BY <2>5
    <3>3. \A x \in TableFds : IsEnd(u.fds[x]) =>
            \/ x = r /\ u.fds[x] = PipeRead(p)
            \/ x = w /\ u.fds[x] = PipeWrite(p)
            \/ u.fds[x] = t.fds[x] /\ IsEnd(t.fds[x]) /\ t.fds[x].pipe # p
      BY <1>6, <1>7
    <3> QED
      BY <1>4, <2>5, <3>1, <3>2, <3>3 DEF Matched
  <2> QED
    BY <2>1, <2>2, <2>3, <2>4, <2>5 DEF Matched
<1>11. GoodTab(u)
  <2>1. ASSUME NEW q \in PipeIds PROVE Fits(u.pipes[q])
    BY <1>2, <1>3, <1>4
  <2> QED
    BY <1>1, <1>10, <2>1 DEF GoodTab
<1>12. \E q \in PipeIds :
         /\ u.fds[r] = PipeRead(q) /\ u.fds[w] = PipeWrite(q)
         /\ u.pipes[q].read_open /\ u.pipes[q].write_open /\ u.pipes[q].used
         /\ u.pipes[q].buffer = <<>> /\ u.pipes[q].read_offset = 0
         /\ ~t.pipes[q].used /\ \A x \in PipeIds \ {q} : u.pipes[x] = t.pipes[x]
  BY <1>2, <1>3
<1> QED
  BY <1>1, <1>8, <1>9, <1>11, <1>12 DEF u, r, w, a

\* Nor does a file opened.
LEMMA OpenKeeps ==
  ASSUME NEW t, GoodTab(t), CanOpen(t), NEW f \in Files
  PROVE  LET a == abi_open(t, f)
             u == a.tab
         IN  /\ GoodTab(u) /\ KeepsAt(t, u, Open(t)) /\ Open(u) = Open(t) \cup {a.fd}
             /\ a.fd \in TableFds \ Open(t) /\ u.fds[a.fd] = Pfs(f, 0) /\ u.pipes = t.pipes
             /\ \A fd \in TableFds \ {a.fd} : u.fds[fd] = t.fds[fd]
<1> DEFINE a == abi_open(t, f)
           u == a.tab
           n == a.fd
<1>1. n = Min(FreeFds(t)) /\ u = [t EXCEPT !.fds[n] = Pfs(f, 0)]
  BY DEF abi_open
<1>2. FreeFds(t) \subseteq TableFds /\ FreeFds(t) # {} /\ FreeFds(t) \cap Open(t) = {}
  BY DEF FreeFds, CanOpen
<1>3. n \in TableFds \ Open(t)
  <2>1. Min(FreeFds(t)) \in FreeFds(t)
    BY <1>2, FdsNat, MinMember
  <2> QED
    BY <1>1, <1>2, <2>1
<1> HIDE DEF a
<1>4. t \in Tabs /\ Matched(t) /\ \A q \in PipeIds : Fits(t.pipes[q])
  BY DEF GoodTab
<1>5. u.fds = [t.fds EXCEPT ![n] = Pfs(f, 0)] /\ u.pipes = t.pipes /\ u \in Tabs
  <2>1. t = [fds |-> t.fds, pipes |-> t.pipes]
    BY <1>4 DEF Tabs
  <2>2. u = [fds |-> [t.fds EXCEPT ![n] = Pfs(f, 0)], pipes |-> t.pipes]
    BY <1>1, <2>1
  <2>3. [t.fds EXCEPT ![n] = Pfs(f, 0)] \in [TableFds -> Handles]
    <3>1. 0 \in Nat /\ Pfs(f, 0) \in Handles
      BY HandleMembers
    <3>2. t.fds \in [TableFds -> Handles]
      BY <1>4, TabParts
    <3> QED
      BY <3>1, <3>2
  <2> QED
    BY <1>4, <2>2, <2>3, TabParts DEF Tabs
<1> HIDE DEF u, n
<1>6. \A fd \in TableFds : u.fds[fd] = IF fd = n THEN Pfs(f, 0) ELSE t.fds[fd]
  BY <1>3, <1>4, <1>5, TabParts
<1>7. Pfs(f, 0).kind = "Pfs"
  BY HandleMembers
<1>8. \A fd \in TableFds : IsEnd(u.fds[fd]) => fd # n
  BY <1>6, <1>7 DEF IsEnd
<1>12. ~IsEnd(t.fds[n])
  BY <1>3, <1>4, OpenIs DEF IsEnd
<1>9. Open(u) = Open(t) \cup {n}
  <2>1. ASSUME NEW fd \in TableFds PROVE fd \in Open(u) <=> fd \in Open(t) \/ fd = n
    BY <1>4, <1>5, <1>6, <1>7, OpenIs
  <2>2. Open(u) \subseteq TableFds /\ Open(t) \subseteq TableFds /\ n \in TableFds
    BY <1>3 DEF Open
  <2> QED
    BY <2>1, <2>2
<1>10. KeepsAt(t, u, Open(t))
  <2>1. \A fd \in Open(t) : fd \in TableFds /\ u.fds[fd] = t.fds[fd]
    BY <1>3, <1>6 DEF Open
  <2> QED
    BY <1>5, <2>1 DEF KeepsAt, SameHandle, SameFlags
<1>11. Matched(u)
  <2>1. \A q \in PipeIds : u.pipes[q].used <=> (u.pipes[q].read_open \/ u.pipes[q].write_open)
    BY <1>4, <1>5 DEF Matched
  <2>2. ASSUME NEW fd \in TableFds, IsEnd(u.fds[fd]) PROVE EndOpen(u, u.fds[fd])
    <3>1. u.fds[fd] = t.fds[fd]
      BY <1>6, <1>8, <2>2
    <3> QED
      BY <1>4, <1>5, <2>2, <3>1 DEF Matched, EndOpen
  <2>3. ASSUME NEW q \in PipeIds, u.pipes[q].read_open PROVE \E fd \in TableFds : u.fds[fd] = PipeRead(q)
    <3>1. PICK fd \in TableFds : t.fds[fd] = PipeRead(q)
      BY <1>4, <1>5, <2>3 DEF Matched
    <3>2. fd # n
      BY <1>12, <3>1, HandleMembers DEF IsEnd
    <3> QED
      BY <1>6, <3>1, <3>2
  <2>4. ASSUME NEW q \in PipeIds, u.pipes[q].write_open PROVE \E fd \in TableFds : u.fds[fd] = PipeWrite(q)
    <3>1. PICK fd \in TableFds : t.fds[fd] = PipeWrite(q)
      BY <1>4, <1>5, <2>4 DEF Matched
    <3>2. fd # n
      BY <1>12, <3>1, HandleMembers DEF IsEnd
    <3> QED
      BY <1>6, <3>1, <3>2
  <2>5. ASSUME NEW fd \in TableFds, NEW gd \in TableFds, IsEnd(u.fds[fd]), u.fds[fd] = u.fds[gd] PROVE fd = gd
    <3>1. IsEnd(u.fds[gd])
      BY <2>5
    <3>2. u.fds[fd] = t.fds[fd] /\ u.fds[gd] = t.fds[gd]
      BY <1>6, <1>8, <2>5, <3>1
    <3> QED
      BY <1>4, <2>5, <3>2 DEF Matched
  <2> QED
    BY <2>1, <2>2, <2>3, <2>4, <2>5 DEF Matched
<1> QED
  BY <1>3, <1>4, <1>5, <1>6, <1>9, <1>10, <1>11 DEF GoodTab, u, n, a

\* What closing one descriptor does to the two tables.
LEMMA CloseOne ==
  ASSUME NEW t \in Tabs, NEW fd \in TableFds
  PROVE  LET u == abi_close(t, fd)
             h == t.fds[fd]
         IN  /\ u.fds = [t.fds EXCEPT ![fd] = Closed]
             /\ u.pipes = IF h.kind = "PipeRead"
                            THEN [t.pipes EXCEPT ![h.pipe] = ClosePipeEnd(t.pipes[h.pipe], "read_open")]
                          ELSE IF h.kind = "PipeWrite"
                            THEN [t.pipes EXCEPT ![h.pipe] = ClosePipeEnd(t.pipes[h.pipe], "write_open")]
                          ELSE t.pipes
             /\ u \in Tabs
<1> DEFINE u == abi_close(t, fd)
           h == t.fds[fd]
           fds == [t.fds EXCEPT ![fd] = Closed]
           closed == [fds |-> fds, pipes |-> t.pipes]
<1>1. t = [fds |-> t.fds, pipes |-> t.pipes] /\ t.fds \in [TableFds -> Handles] /\ t.pipes \in [PipeIds -> Pipes]
  BY DEF Tabs
<1>2. [t EXCEPT !.fds[fd] = Closed] = closed
  BY <1>1
<1>3. fds \in [TableFds -> Handles]
  BY <1>1, HandleMembers
<1>4. h \in Handles
  BY <1>1
<1>5. u = CASE h.kind = "PipeRead"  -> [closed EXCEPT !.pipes[h.pipe] = ClosePipeEnd(@, "read_open")]
            [] h.kind = "PipeWrite" -> [closed EXCEPT !.pipes[h.pipe] = ClosePipeEnd(@, "write_open")]
            [] OTHER                -> closed
  BY <1>2 DEF abi_close
<1> HIDE DEF u, h, fds
<1>6. \A q \in Pipes : ClosePipeEnd(q, "read_open") \in Pipes /\ ClosePipeEnd(q, "write_open") \in Pipes
  <2>1. EmptyPipe \in Pipes
    BY DEF EmptyPipe, Pipes
  <2>2. ASSUME NEW q \in Pipes
        PROVE  [q EXCEPT !["read_open"] = FALSE] \in Pipes /\ [q EXCEPT !["write_open"] = FALSE] \in Pipes
    BY DEF Pipes
  <2> QED
    BY <2>1, <2>2 DEF ClosePipeEnd
<1>7. CASE h.kind = "PipeRead"
  <2>1. u = [fds |-> fds, pipes |-> [t.pipes EXCEPT ![h.pipe] = ClosePipeEnd(t.pipes[h.pipe], "read_open")]]
    BY <1>5, <1>7
  <2>2. h.pipe \in PipeIds
    BY <1>4, <1>7, HandleKinds
  <2>3. [t.pipes EXCEPT ![h.pipe] = ClosePipeEnd(t.pipes[h.pipe], "read_open")] \in [PipeIds -> Pipes]
    BY <1>1, <1>6, <2>2
  <2> QED
    BY <1>3, <1>7, <2>1, <2>3 DEF Tabs, u, h, fds
<1>8. CASE h.kind = "PipeWrite"
  <2>1. u = [fds |-> fds, pipes |-> [t.pipes EXCEPT ![h.pipe] = ClosePipeEnd(t.pipes[h.pipe], "write_open")]]
    BY <1>5, <1>8
  <2>2. h.pipe \in PipeIds
    BY <1>4, <1>8, HandleKinds
  <2>3. [t.pipes EXCEPT ![h.pipe] = ClosePipeEnd(t.pipes[h.pipe], "write_open")] \in [PipeIds -> Pipes]
    BY <1>1, <1>6, <2>2
  <2> QED
    BY <1>3, <1>8, <2>1, <2>3 DEF Tabs, u, h, fds
<1>9. CASE h.kind # "PipeRead" /\ h.kind # "PipeWrite"
  <2>1. u = [fds |-> fds, pipes |-> t.pipes]
    BY <1>5, <1>9
  <2> QED
    BY <1>1, <1>3, <1>9, <2>1 DEF Tabs, u, h, fds
<1> QED
  BY <1>7, <1>8, <1>9

\* An entry of opened: a file, or the two ends of one pipe, the child's end for
\* reading when the stream is stdin.
Entries == [stream : Std, child : TableFds, own : TableFds]
ChildEnd(s, p) == IF s = STDIN THEN PipeRead(p) ELSE PipeWrite(p)
OwnEnd(s, p)   == IF s = STDIN THEN PipeWrite(p) ELSE PipeRead(p)
EntryGood(t, o) ==
    IF o.own = o.child
      THEN t.fds[o.own].kind = "Pfs" /\ o.stream # STDIN
      ELSE \E p \in PipeIds : t.fds[o.child] = ChildEnd(o.stream, p) /\ t.fds[o.own] = OwnEnd(o.stream, p)
Both(o) == {o.own, o.child}

\* The same descriptors and pipes on a set of descriptors.
ExactAt(t, u, S) ==
    \A fd \in S : /\ fd \in TableFds /\ u.fds[fd] = t.fds[fd]
                  /\ IsEnd(t.fds[fd]) => u.pipes[t.fds[fd].pipe] = t.pipes[t.fds[fd].pipe]

LEMMA ExactKeeps ==
  ASSUME NEW t, NEW u, NEW S, ExactAt(t, u, S)
  PROVE  KeepsAt(t, u, S)
  BY DEF ExactAt, KeepsAt, SameHandle, SameFlags

LEMMA ExactTrans ==
  ASSUME NEW t, NEW u, NEW v, NEW S, ExactAt(t, u, S), ExactAt(u, v, S)
  PROVE  ExactAt(t, v, S)
  BY DEF ExactAt

\* Closing a pipe of its own gives it back and touches no other descriptor.
LEMMA ClosePair ==
  ASSUME NEW t, GoodTab(t), NEW o \in Entries, EntryGood(t, o), o.own # o.child
  PROVE  LET u == CloseBoth(t, o)
         IN  \E p \in PipeIds :
               /\ u \in Tabs
               /\ \A fd \in TableFds : u.fds[fd] = IF fd \in Both(o) THEN Closed ELSE t.fds[fd]
               /\ \A q \in PipeIds : u.pipes[q] = IF q = p THEN EmptyPipe ELSE t.pipes[q]
               /\ \A fd \in TableFds \ Both(o) : IsEnd(t.fds[fd]) => t.fds[fd].pipe # p
               /\ Both(o) \subseteq Open(t)
               /\ t.pipes[p].read_open /\ t.pipes[p].write_open
<1> DEFINE v == abi_close(t, o.own)
           u == abi_close(v, o.child)
<1>1. CloseBoth(t, o) = u
  BY DEF CloseBoth
<1>2. t \in Tabs /\ Matched(t)
  BY DEF GoodTab
<1>3. o.own \in TableFds /\ o.child \in TableFds
  BY DEF Entries
<1>4. PICK p \in PipeIds : t.fds[o.child] = ChildEnd(o.stream, p) /\ t.fds[o.own] = OwnEnd(o.stream, p)
  BY DEF EntryGood
<1>5. /\ PipeRead(p).kind = "PipeRead" /\ PipeRead(p).pipe = p
      /\ PipeWrite(p).kind = "PipeWrite" /\ PipeWrite(p).pipe = p
  BY HandleMembers
<1>6. /\ IsEnd(t.fds[o.own]) /\ IsEnd(t.fds[o.child])
      /\ t.pipes[p].read_open /\ t.pipes[p].write_open
  BY <1>2, <1>3, <1>4, <1>5 DEF IsEnd, ChildEnd, OwnEnd, Matched, EndOpen
<1>7. Both(o) \subseteq Open(t)
  BY <1>2, <1>3, <1>6, OpenIs DEF Both, IsEnd
<1>8. ASSUME NEW fd \in TableFds \ Both(o), IsEnd(t.fds[fd]) PROVE t.fds[fd].pipe # p
  <2> SUFFICES ASSUME t.fds[fd].pipe = p PROVE FALSE
    OBVIOUS
  <2>1. t.fds[fd] = PipeRead(p) \/ t.fds[fd] = PipeWrite(p)
    BY <1>2, <1>8, TabParts, HandleKinds DEF IsEnd
  <2>2. t.fds[fd] = t.fds[o.own] \/ t.fds[fd] = t.fds[o.child]
    BY <1>4, <2>1 DEF ChildEnd, OwnEnd
  <2>3. fd = o.own \/ fd = o.child
    BY <1>2, <1>3, <1>6, <2>2 DEF Matched
  <2> QED
    BY <2>3 DEF Both
<1>9. /\ v \in Tabs /\ v.fds = [t.fds EXCEPT ![o.own] = Closed]
      /\ v.pipes = [t.pipes EXCEPT ![p] =
            ClosePipeEnd(t.pipes[p], IF o.stream = STDIN THEN "write_open" ELSE "read_open")]
  <2>1. CASE o.stream = STDIN
    <3>1. t.fds[o.own].kind = "PipeWrite" /\ t.fds[o.own].pipe = p
      BY <1>4, <1>5, <2>1 DEF OwnEnd
    <3> QED
      BY <1>2, <1>3, <2>1, <3>1, CloseOne
  <2>2. CASE o.stream # STDIN
    <3>1. t.fds[o.own].kind = "PipeRead" /\ t.fds[o.own].pipe = p
      BY <1>4, <1>5, <2>2 DEF OwnEnd
    <3> QED
      BY <1>2, <1>3, <2>2, <3>1, CloseOne
  <2> QED
    BY <2>1, <2>2
<1>10. t.pipes[p] \in Pipes /\ t.pipes \in [PipeIds -> Pipes] /\ t.fds \in [TableFds -> Handles]
  BY <1>2, TabParts
<1> HIDE DEF v
<1>11. v.fds[o.child] = t.fds[o.child]
  BY <1>3, <1>9, <1>10
<1>12. /\ u \in Tabs /\ u.fds = [v.fds EXCEPT ![o.child] = Closed]
       /\ u.pipes = [v.pipes EXCEPT ![p] =
             ClosePipeEnd(v.pipes[p], IF o.stream = STDIN THEN "read_open" ELSE "write_open")]
  <2>1. CASE o.stream = STDIN
    <3>1. v.fds[o.child].kind = "PipeRead" /\ v.fds[o.child].pipe = p
      BY <1>4, <1>5, <1>11, <2>1 DEF ChildEnd
    <3> QED
      BY <1>3, <1>9, <2>1, <3>1, CloseOne
  <2>2. CASE o.stream # STDIN
    <3>1. v.fds[o.child].kind = "PipeWrite" /\ v.fds[o.child].pipe = p
      BY <1>4, <1>5, <1>11, <2>2 DEF ChildEnd
    <3> QED
      BY <1>3, <1>9, <2>2, <3>1, CloseOne
  <2> QED
    BY <2>1, <2>2
<1> HIDE DEF u
<1>13. u.pipes[p] = EmptyPipe
  <2>1. CASE o.stream = STDIN
    <3>1. v.pipes[p] = [t.pipes[p] EXCEPT !["write_open"] = FALSE]
      BY <1>6, <1>9, <1>10, <2>1 DEF ClosePipeEnd, Pipes
    <3>2. v.pipes[p].write_open = FALSE /\ "read_open" \in DOMAIN v.pipes[p] /\ "write_open" \in DOMAIN v.pipes[p]
      BY <1>10, <3>1 DEF Pipes
    <3>3. u.pipes[p] = ClosePipeEnd(v.pipes[p], "read_open")
      BY <1>9, <1>10, <1>12, <2>1
    <3> QED
      BY <3>2, <3>3 DEF ClosePipeEnd
  <2>2. CASE o.stream # STDIN
    <3>1. v.pipes[p] = [t.pipes[p] EXCEPT !["read_open"] = FALSE]
      BY <1>6, <1>9, <1>10, <2>2 DEF ClosePipeEnd, Pipes
    <3>2. v.pipes[p].read_open = FALSE /\ "read_open" \in DOMAIN v.pipes[p] /\ "write_open" \in DOMAIN v.pipes[p]
      BY <1>10, <3>1 DEF Pipes
    <3>3. u.pipes[p] = ClosePipeEnd(v.pipes[p], "write_open")
      BY <1>9, <1>10, <1>12, <2>2
    <3> QED
      BY <3>2, <3>3 DEF ClosePipeEnd
  <2> QED
    BY <2>1, <2>2
<1>14. \A q \in PipeIds : u.pipes[q] = IF q = p THEN EmptyPipe ELSE t.pipes[q]
  BY <1>9, <1>10, <1>12, <1>13
<1>15. \A fd \in TableFds : u.fds[fd] = IF fd \in Both(o) THEN Closed ELSE t.fds[fd]
  BY <1>3, <1>9, <1>10, <1>12 DEF Both
<1> QED
  BY <1>1, <1>6, <1>7, <1>8, <1>12, <1>14, <1>15

\* Closing an entry keeps the tables good and touches nothing else.
LEMMA CloseEntry ==
  ASSUME NEW t, GoodTab(t), NEW o \in Entries, EntryGood(t, o)
  PROVE  LET u == CloseBoth(t, o)
         IN  GoodTab(u) /\ Open(u) = Open(t) \ Both(o) /\ ExactAt(t, u, TableFds \ Both(o))
<1> DEFINE u == CloseBoth(t, o)
<1>1. t \in Tabs /\ Matched(t) /\ \A q \in PipeIds : Fits(t.pipes[q])
  BY DEF GoodTab
<1>2. o.own \in TableFds /\ o.child \in TableFds
  BY DEF Entries
<1>3. /\ u \in Tabs
      /\ \A fd \in TableFds : u.fds[fd] = IF fd \in Both(o) THEN Closed ELSE t.fds[fd]
      /\ \E D \in SUBSET PipeIds :
           /\ \A q \in PipeIds : u.pipes[q] = IF q \in D THEN EmptyPipe ELSE t.pipes[q]
           /\ \A fd \in TableFds \ Both(o) : IsEnd(t.fds[fd]) => t.fds[fd].pipe \notin D
           /\ \A fd \in Both(o) : IsEnd(t.fds[fd]) => t.fds[fd].pipe \in D
  <2>1. CASE o.own = o.child
    <3>1. u = abi_close(t, o.own) /\ t.fds[o.own].kind = "Pfs"
      BY <2>1 DEF CloseBoth, EntryGood
    <3>2. u \in Tabs /\ u.fds = [t.fds EXCEPT ![o.own] = Closed] /\ u.pipes = t.pipes
      BY <1>1, <1>2, <3>1, CloseOne
    <3>3. \A fd \in TableFds : u.fds[fd] = IF fd \in Both(o) THEN Closed ELSE t.fds[fd]
      BY <1>1, <1>2, <2>1, <3>2, TabParts DEF Both
    <3>4. \A fd \in Both(o) : ~IsEnd(t.fds[fd])
      BY <2>1, <3>1 DEF Both, IsEnd
    <3>5. /\ \A q \in PipeIds : u.pipes[q] = IF q \in {} THEN EmptyPipe ELSE t.pipes[q]
          /\ \A fd \in TableFds \ Both(o) : IsEnd(t.fds[fd]) => t.fds[fd].pipe \notin {}
          /\ \A fd \in Both(o) : IsEnd(t.fds[fd]) => t.fds[fd].pipe \in {}
      BY <3>2, <3>4
    <3>6. {} \in SUBSET PipeIds
      OBVIOUS
    <3> HIDE DEF u
    <3> QED
      BY <3>2, <3>3, <3>5, <3>6, Zenon
  <2>2. CASE o.own # o.child
    <3>1. PICK p \in PipeIds :
            /\ u \in Tabs
            /\ \A fd \in TableFds : u.fds[fd] = IF fd \in Both(o) THEN Closed ELSE t.fds[fd]
            /\ \A q \in PipeIds : u.pipes[q] = IF q = p THEN EmptyPipe ELSE t.pipes[q]
            /\ \A fd \in TableFds \ Both(o) : IsEnd(t.fds[fd]) => t.fds[fd].pipe # p
            /\ t.pipes[p].read_open /\ t.pipes[p].write_open
      BY <2>2, ClosePair
    <3> HIDE DEF u
    <3>2. PICK r \in TableFds : t.fds[r] = PipeRead(p)
      BY <1>1, <3>1 DEF Matched
    <3>3. PICK w \in TableFds : t.fds[w] = PipeWrite(p)
      BY <1>1, <3>1 DEF Matched
    <3>4. r \in Both(o) /\ w \in Both(o) /\ r # w
      BY <3>1, <3>2, <3>3, HandleMembers DEF IsEnd
    <3>5. \A fd \in Both(o) : t.fds[fd].pipe = p
      BY <3>2, <3>3, <3>4, HandleMembers DEF Both
    <3>6. /\ \A q \in PipeIds : u.pipes[q] = IF q \in {p} THEN EmptyPipe ELSE t.pipes[q]
          /\ \A fd \in TableFds \ Both(o) : IsEnd(t.fds[fd]) => t.fds[fd].pipe \notin {p}
          /\ \A fd \in Both(o) : IsEnd(t.fds[fd]) => t.fds[fd].pipe \in {p}
      BY <3>1, <3>5
    <3> QED
      BY <3>1, <3>6, ZenonT(40)
  <2> QED
    BY <2>1, <2>2
<1> HIDE DEF u
<1>4. PICK D \in SUBSET PipeIds :
        /\ \A q \in PipeIds : u.pipes[q] = IF q \in D THEN EmptyPipe ELSE t.pipes[q]
        /\ \A fd \in TableFds \ Both(o) : IsEnd(t.fds[fd]) => t.fds[fd].pipe \notin D
        /\ \A fd \in Both(o) : IsEnd(t.fds[fd]) => t.fds[fd].pipe \in D
  BY <1>3
<1>5. Fits(EmptyPipe) /\ ~EmptyPipe.used /\ ~EmptyPipe.read_open /\ ~EmptyPipe.write_open
  BY FdsAssumption DEF EmptyPipe, Fits
<1>6. \A fd \in TableFds : IsEnd(t.fds[fd]) => t.fds[fd].pipe \in PipeIds
  BY <1>1, TabParts, HandleKinds DEF IsEnd
<1>7. ExactAt(t, u, TableFds \ Both(o))
  BY <1>3, <1>4, <1>6 DEF ExactAt
<1>8. ~IsEnd(Closed) /\ Closed.kind = "Empty"
  BY HandleMembers DEF IsEnd
<1>9. Open(u) = Open(t) \ Both(o)
  <2>1. ASSUME NEW fd \in TableFds PROVE fd \in Open(u) <=> fd \in Open(t) /\ fd \notin Both(o)
    BY <1>1, <1>3, <1>8, OpenIs
  <2>2. Open(u) \subseteq TableFds /\ Open(t) \subseteq TableFds
    BY DEF Open
  <2> QED
    BY <2>1, <2>2
<1>10. Matched(u)
  <2>1. ASSUME NEW q \in PipeIds PROVE u.pipes[q].used <=> (u.pipes[q].read_open \/ u.pipes[q].write_open)
    <3>1. CASE q \in D
      BY <1>4, <1>5, <3>1
    <3>2. CASE q \notin D
      BY <1>1, <1>4, <3>2 DEF Matched
    <3> QED
      BY <3>1, <3>2
  <2>2. ASSUME NEW fd \in TableFds, IsEnd(u.fds[fd])
        PROVE  /\ fd \notin Both(o) /\ u.fds[fd] = t.fds[fd] /\ IsEnd(t.fds[fd])
               /\ t.fds[fd].pipe \in PipeIds \ D
    BY <1>3, <1>4, <1>6, <1>8, <2>2
  <2>3. ASSUME NEW fd \in TableFds, IsEnd(u.fds[fd]) PROVE EndOpen(u, u.fds[fd])
    <3>1. EndOpen(t, t.fds[fd]) /\ u.fds[fd] = t.fds[fd] /\ u.pipes[t.fds[fd].pipe] = t.pipes[t.fds[fd].pipe]
      BY <1>1, <1>4, <2>2, <2>3 DEF Matched
    <3> QED
      BY <3>1 DEF EndOpen
  <2>4. ASSUME NEW q \in PipeIds, u.pipes[q].read_open PROVE \E fd \in TableFds : u.fds[fd] = PipeRead(q)
    <3>1. q \notin D /\ t.pipes[q].read_open
      BY <1>4, <1>5, <2>4
    <3>2. PICK fd \in TableFds : t.fds[fd] = PipeRead(q)
      BY <1>1, <3>1 DEF Matched
    <3>3. fd \notin Both(o)
      BY <1>4, <3>1, <3>2, HandleMembers DEF IsEnd
    <3> QED
      BY <1>3, <3>2, <3>3
  <2>5. ASSUME NEW q \in PipeIds, u.pipes[q].write_open PROVE \E fd \in TableFds : u.fds[fd] = PipeWrite(q)
    <3>1. q \notin D /\ t.pipes[q].write_open
      BY <1>4, <1>5, <2>5
    <3>2. PICK fd \in TableFds : t.fds[fd] = PipeWrite(q)
      BY <1>1, <3>1 DEF Matched
    <3>3. fd \notin Both(o)
      BY <1>4, <3>1, <3>2, HandleMembers DEF IsEnd
    <3> QED
      BY <1>3, <3>2, <3>3
  <2>6. ASSUME NEW fd \in TableFds, NEW gd \in TableFds, IsEnd(u.fds[fd]), u.fds[fd] = u.fds[gd] PROVE fd = gd
    <3>1. IsEnd(u.fds[gd])
      BY <2>6
    <3>2. u.fds[fd] = t.fds[fd] /\ IsEnd(t.fds[fd]) /\ u.fds[gd] = t.fds[gd]
      BY <2>2, <2>6, <3>1
    <3> QED
      BY <1>1, <2>6, <3>2 DEF Matched
  <2> QED
    BY <2>1, <2>3, <2>4, <2>5, <2>6 DEF Matched
<1>11. GoodTab(u)
  <2>1. \A q \in PipeIds : Fits(u.pipes[q])
    BY <1>1, <1>4, <1>5
  <2> QED
    BY <1>3, <1>10, <2>1 DEF GoodTab
<1> QED
  BY <1>7, <1>9, <1>11 DEF u

IsClosedUpto(t, opened, f) ==
    f = [k \in 0 .. Len(opened) |-> IF k = 0 THEN t ELSE CloseBoth(f[k - 1], opened[k])]

ClosedUpto(t, opened) == CHOOSE f : IsClosedUpto(t, opened, f)

LEMMA ClosedUptoIs ==
  ASSUME NEW t, NEW opened
  PROVE  close_many(t, opened) = ClosedUpto(t, opened)[Len(opened)]
  BY DEF close_many, ClosedUpto, IsClosedUpto

\* Closing entry by entry.
LEMMA ClosedUptoSteps ==
  ASSUME NEW t \in Tabs, NEW opened \in Seq(Entries)
  PROVE  /\ ClosedUpto(t, opened)[0] = t
         /\ \A k \in 1 .. Len(opened) : ClosedUpto(t, opened)[k] = CloseBoth(ClosedUpto(t, opened)[k - 1], opened[k])
         /\ \A k \in 0 .. Len(opened) : ClosedUpto(t, opened)[k] \in Tabs
<1> DEFINE n == Len(opened)
           x == t
           s == [v \in Tabs |-> [k \in 1 .. n |-> CloseBoth(v, opened[k])]]
<1>1. n \in Nat
  OBVIOUS
<1>2. x \in Tabs
  OBVIOUS
<1>3. s \in [Tabs -> [1 .. n -> Tabs]]
  <2>1. \A k \in 1 .. n : opened[k] \in Entries
    OBVIOUS
  <2>2. ASSUME NEW v \in Tabs, NEW o \in Entries PROVE CloseBoth(v, o) \in Tabs
    <3>1. o.own \in TableFds /\ o.child \in TableFds
      BY DEF Entries
    <3>2. abi_close(v, o.own) \in Tabs
      BY <3>1, CloseOne
    <3>3. abi_close(abi_close(v, o.own), o.child) \in Tabs
      BY <3>1, <3>2, CloseOne
    <3> QED
      BY <3>2, <3>3 DEF CloseBoth
  <2> QED
    BY <2>1, <2>2
<1>4. \A v \in Tabs : \A k \in 1 .. n : s[v][k] = CloseBoth(v, opened[k])
  OBVIOUS
<1> HIDE DEF s, x, n
<1>5. PICK f \in [0 .. n -> Tabs] : Runs(f, x, s, n)
  BY <1>1, <1>2, <1>3, RunsExist
<1>6. IsClosedUpto(t, opened, f)
  <2>1. f = [k \in 0 .. n |-> f[k]]
    BY <1>5
  <2>2. ASSUME NEW k \in 0 .. n
        PROVE  f[k] = IF k = 0 THEN x ELSE CloseBoth(f[k - 1], opened[k])
    <3>1. CASE k = 0
      BY <3>1, <1>5 DEF Runs
    <3>2. CASE k # 0
      <4>1. k \in 1 .. n /\ k - 1 \in 0 .. n
        BY <3>2, <1>1
      <4>2. f[k] = s[f[k - 1]][k] /\ f[k - 1] \in Tabs
        BY <4>1, <1>5 DEF Runs
      <4> QED
        BY <4>1, <4>2, <3>2, <1>4
    <3> QED
      BY <3>1, <3>2
  <2>3. f = [k \in 0 .. n |-> IF k = 0 THEN x ELSE CloseBoth(f[k - 1], opened[k])]
    BY <2>1, <2>2, Zenon
  <2> QED
    BY <2>3, Zenon DEF IsClosedUpto, n, x
<1> DEFINE u == ClosedUpto(t, opened)
<1>7. IsClosedUpto(t, opened, u)
  BY <1>6, Zenon DEF ClosedUpto
<1> HIDE DEF u
<1>8. u = [k \in 0 .. n |-> IF k = 0 THEN x ELSE CloseBoth(u[k - 1], opened[k])]
  BY <1>7, Zenon DEF IsClosedUpto, n, x
<1>9. u[0] = x
  BY <1>8, <1>1
<1>10. ASSUME NEW k \in 1 .. n PROVE u[k] = CloseBoth(u[k - 1], opened[k])
  <2>1. k \in 0 .. n /\ k # 0
    BY <1>1
  <2> QED
    BY <2>1, <1>8
<1>11. \A k \in 0 .. n : u[k] \in Tabs
  <2> DEFINE S == {k \in 0 .. n : u[k] \in Tabs}
  <2>1. 0 \in S
    BY <1>1, <1>2, <1>9
  <2>2. ASSUME NEW k \in 1 .. n, k - 1 \in S PROVE k \in S
    <3>1. u[k - 1] \in Tabs /\ k \in 0 .. n
      BY <1>1, <2>2
    <3>2. s[u[k - 1]][k] \in Tabs
      BY <1>3, <3>1
    <3> QED
      BY <1>4, <1>10, <3>1, <3>2
  <2> HIDE DEF S
  <2>3. \A k \in 0 .. n : k \in S
    BY <1>1, <2>1, <2>2, InductUpto
  <2> QED
    BY <2>3 DEF S
<1> QED
  BY <1>9, <1>10, <1>11 DEF u, x, n


HeldFds(opened) == {fd \in TableFds : \E i \in 1 .. Len(opened) : fd \in Both(opened[i])}

\* Descriptors opened for different streams are different.
Apart(opened) == \A i, j \in 1 .. Len(opened) : i # j => Both(opened[i]) \cap Both(opened[j]) = {}

LEMMA EntryStays ==
  ASSUME NEW t, NEW u, NEW o \in Entries, EntryGood(t, o), NEW S, KeepsAt(t, u, S), Both(o) \subseteq S
  PROVE  EntryGood(u, o)
<1>1. SameHandle(t.fds[o.own], u.fds[o.own]) /\ SameHandle(t.fds[o.child], u.fds[o.child])
  BY DEF KeepsAt, Both
<1>2. CASE o.own = o.child
  BY <1>1, <1>2 DEF EntryGood, SameHandle
<1>3. CASE o.own # o.child
  <2>1. PICK p \in PipeIds : t.fds[o.child] = ChildEnd(o.stream, p) /\ t.fds[o.own] = OwnEnd(o.stream, p)
    BY <1>3 DEF EntryGood
  <2>2. t.fds[o.child].kind # "Pfs" /\ t.fds[o.own].kind # "Pfs"
    BY <2>1, HandleMembers DEF ChildEnd, OwnEnd
  <2>3. u.fds[o.child] = t.fds[o.child] /\ u.fds[o.own] = t.fds[o.own]
    BY <1>1, <2>2 DEF SameHandle
  <2> QED
    BY <1>3, <2>1, <2>3 DEF EntryGood
<1> QED
  BY <1>2, <1>3

\* close_many closes what was opened and touches nothing else.
LEMMA CloseManyFacts ==
  ASSUME NEW t, GoodTab(t), NEW opened \in Seq(Entries), Apart(opened),
         \A i \in 1 .. Len(opened) : EntryGood(t, opened[i])
  PROVE  LET u == close_many(t, opened)
         IN  GoodTab(u) /\ Open(u) = Open(t) \ HeldFds(opened) /\ ExactAt(t, u, TableFds \ HeldFds(opened))
<1> DEFINE n == Len(opened)
           c == ClosedUpto(t, opened)
           H(k) == {fd \in TableFds : \E i \in 1 .. k : fd \in Both(opened[i])}
           P(k) == /\ GoodTab(c[k]) /\ Open(c[k]) = Open(t) \ H(k) /\ ExactAt(t, c[k], TableFds \ H(k))
           S == {k \in 0 .. n : P(k)}
<1>1. t \in Tabs /\ n \in Nat /\ \A k \in 1 .. n : opened[k] \in Entries
  BY DEF GoodTab
<1>2. c[0] = t /\ \A k \in 1 .. n : c[k] = CloseBoth(c[k - 1], opened[k])
  BY <1>1, ClosedUptoSteps
<1>3. close_many(t, opened) = c[n]
  BY ClosedUptoIs
<1> HIDE DEF c, n
<1>4. 0 \in S
  <2>1. H(0) = {}
    OBVIOUS
  <2>2. ExactAt(t, t, TableFds)
    BY DEF ExactAt
  <2>3. P(0)
    BY <1>2, <2>1, <2>2
  <2>4. 0 \in 0 .. n
    BY <1>1
  <2> HIDE DEF P
  <2> QED
    BY <2>3, <2>4
<1>5. ASSUME NEW k \in 1 .. n, k - 1 \in S PROVE k \in S
  <2> DEFINE o == opened[k]
             v == c[k - 1]
  <2>1. P(k - 1) /\ o \in Entries /\ EntryGood(t, o) /\ c[k] = CloseBoth(v, o) /\ k \in 0 .. n
    BY <1>1, <1>2, <1>5 DEF n
  <2>2. H(k) = H(k - 1) \cup Both(o)
    <3>1. Both(o) \subseteq TableFds
      BY <2>1 DEF Both, Entries
    <3>2. \A i : i \in 1 .. k <=> i \in 1 .. k - 1 \/ i = k
      BY <1>1
    <3> QED
      BY <3>1, <3>2
  <2>3. Both(o) \cap H(k - 1) = {} /\ Both(o) \subseteq TableFds
    <3>1. Both(o) \subseteq TableFds
      BY <2>1 DEF Both, Entries
    <3>2. \A i \in 1 .. k - 1 : i \in 1 .. n /\ i # k
      BY <1>1
    <3>3. \A i \in 1 .. k - 1 : Both(opened[i]) \cap Both(o) = {}
      BY <3>2 DEF Apart, n
    <3> QED
      BY <3>1, <3>3
  <2> HIDE DEF o, v, H
  <2>4. EntryGood(v, o)
    <3>1. KeepsAt(t, v, TableFds \ H(k - 1))
      BY <2>1, ExactKeeps DEF v
    <3>2. Both(o) \subseteq TableFds \ H(k - 1)
      BY <2>3
    <3> QED
      BY <2>1, <3>1, <3>2, EntryStays
  <2>5. GoodTab(c[k]) /\ Open(c[k]) = Open(v) \ Both(o) /\ ExactAt(v, c[k], TableFds \ Both(o))
    BY <2>1, <2>4, CloseEntry DEF v
  <2>6. Open(c[k]) = Open(t) \ H(k)
    BY <2>1, <2>2, <2>5 DEF v
  <2>7. ExactAt(t, c[k], TableFds \ H(k))
    <3>1. ExactAt(t, v, TableFds \ H(k)) /\ ExactAt(v, c[k], TableFds \ H(k))
      BY <2>1, <2>2, <2>5 DEF ExactAt, v
    <3> QED
      BY <3>1, ExactTrans
  <2> QED
    BY <2>1, <2>5, <2>6, <2>7
<1>6. \A k \in 0 .. n : k \in S
  <2> HIDE DEF S
  <2> QED
    BY <1>1, <1>4, <1>5, InductUpto
<1>7. P(n) /\ H(n) = HeldFds(opened)
  <2>1. n \in S
    <3>1. n \in 0 .. n
      BY <1>1
    <3> HIDE DEF S
    <3> QED
      BY <1>6, <3>1
  <2>2. H(n) = HeldFds(opened)
    BY DEF HeldFds, n
  <2> HIDE DEF P
  <2> QED
    BY <2>1, <2>2
<1> QED
  BY <1>3, <1>7

-----------------------------------------------------------------------------
(* Reading and writing *)

LEMMA MinPair ==
  ASSUME NEW a \in Int, NEW b \in Int
  PROVE  Min({a, b}) = IF a <= b THEN a ELSE b
<1> DEFINE m == IF a <= b THEN a ELSE b
<1>1. m \in {a, b} /\ \A y \in {a, b} : m <= y
  OBVIOUS
<1>2. \A x \in {a, b} : (\A y \in {a, b} : x <= y) => x = m
  OBVIOUS
<1> HIDE DEF m
<1>3. Min({a, b}) = m
  BY <1>1, <1>2 DEF Min
<1> QED
  BY <1>3 DEF m

LEMMA MaxPair ==
  ASSUME NEW a \in Int, NEW b \in Int
  PROVE  Max({a, b}) = IF a >= b THEN a ELSE b
<1> DEFINE m == IF a >= b THEN a ELSE b
<1>1. m \in {a, b} /\ \A y \in {a, b} : m >= y
  OBVIOUS
<1>2. \A x \in {a, b} : (\A y \in {a, b} : x >= y) => x = m
  OBVIOUS
<1> HIDE DEF m
<1>3. Max({a, b}) = m
  BY <1>1, <1>2 DEF Max
<1> QED
  BY <1>3 DEF m

\* The tables with another pipe, or with the offset of a file handle moved.
WithPipe(t, p, pipe) == [t EXCEPT !.pipes[p] = pipe]
Moved(t, fd, n)      == [t EXCEPT !.fds[fd].offset = @ + n]
\* The files with bytes written where a handle stands.
Added(c, h, data)    == [c EXCEPT ![h.file].data = WriteAt(@, h.offset, data)]

LEMMA PipeParts ==
  ASSUME NEW pipe \in Pipes
  PROVE  /\ pipe.used \in BOOLEAN /\ pipe.read_open \in BOOLEAN /\ pipe.write_open \in BOOLEAN
         /\ pipe.buffer \in Seq(Bytes) /\ pipe.read_offset \in Nat
  BY DEF Pipes

\* A table with one pipe's bytes changed.
LEMMA BytesChange ==
  ASSUME NEW t, GoodTab(t), NEW p \in PipeIds, NEW pipe \in Pipes, Fits(pipe), SameFlags(t.pipes[p], pipe)
  PROVE  LET u == WithPipe(t, p, pipe)
         IN  /\ GoodTab(u) /\ SameShape(t, u) /\ u.fds = t.fds /\ u.pipes[p] = pipe
             /\ \A q \in PipeIds \ {p} : u.pipes[q] = t.pipes[q]
<1> DEFINE u == WithPipe(t, p, pipe)
<1>1. t \in Tabs /\ Matched(t) /\ \A q \in PipeIds : Fits(t.pipes[q])
  BY DEF GoodTab
<1>2. t = [fds |-> t.fds, pipes |-> t.pipes] /\ t.fds \in [TableFds -> Handles] /\ t.pipes \in [PipeIds -> Pipes]
  BY <1>1 DEF Tabs
<1>3. u = [fds |-> t.fds, pipes |-> [t.pipes EXCEPT ![p] = pipe]]
  BY <1>2 DEF WithPipe
<1>4. u.fds = t.fds /\ u.pipes = [t.pipes EXCEPT ![p] = pipe]
  BY <1>3
<1>5. u.pipes \in [PipeIds -> Pipes] /\ u.pipes[p] = pipe /\ \A q \in PipeIds \ {p} : u.pipes[q] = t.pipes[q]
  BY <1>2, <1>4
<1>6. u \in Tabs
  BY <1>2, <1>3, <1>4, <1>5 DEF Tabs
<1> HIDE DEF u
<1>7. SameShape(t, u)
  BY <1>4, <1>5 DEF SameShape, SameHandle, SameFlags
<1>8. \A q \in PipeIds : Fits(u.pipes[q])
  BY <1>1, <1>5
<1> QED
  BY <1>1, <1>4, <1>5, <1>6, <1>7, <1>8, ShapeMatched DEF GoodTab, u

LEMMA ShapeRefl ==
  ASSUME NEW t
  PROVE  SameShape(t, t)
  BY DEF SameShape, SameHandle, SameFlags

\* Where a read of up to n bytes ends, the bytes it gives and the pipe after it.
ReadTo(pipe, n)   == pipe.read_offset + Min({n, Len(pipe.buffer) - pipe.read_offset})
ReadData(pipe, n) == SubSeq(pipe.buffer, pipe.read_offset + 1, ReadTo(pipe, n))
AfterRead(pipe, n) ==
    IF ReadData(pipe, n) # <<>> /\ ReadTo(pipe, n) = Len(pipe.buffer)
      THEN [pipe EXCEPT !.buffer = <<>>, !.read_offset = 0]
      ELSE [pipe EXCEPT !.read_offset = ReadTo(pipe, n)]

LEMMA ReadEnd ==
  ASSUME NEW pipe \in Pipes, Fits(pipe), NEW n \in Nat
  PROVE  /\ ReadTo(pipe, n) \in Nat /\ ReadTo(pipe, n) <= Len(pipe.buffer)
         /\ ReadData(pipe, n) \in Seq(Bytes)
<1> DEFINE end == ReadTo(pipe, n)
<1>1. pipe.buffer \in Seq(Bytes) /\ pipe.read_offset \in Nat /\ Len(pipe.buffer) \in Nat
  BY PipeParts
<1>2. pipe.read_offset <= Len(pipe.buffer)
  BY DEF Fits
<1>3. end \in Nat /\ end <= Len(pipe.buffer)
  BY <1>1, <1>2, MinPair DEF ReadTo
<1> HIDE DEF end
<1>4. SubSeq(pipe.buffer, pipe.read_offset + 1, end) \in Seq(Bytes)
  BY <1>1, <1>3
<1> QED
  BY <1>3, <1>4 DEF end, ReadData

LEMMA AfterReadFacts ==
  ASSUME NEW pipe \in Pipes, Fits(pipe), NEW n \in Nat
  PROVE  /\ AfterRead(pipe, n) \in Pipes /\ Fits(AfterRead(pipe, n)) /\ SameFlags(pipe, AfterRead(pipe, n))
<1> DEFINE end == ReadTo(pipe, n)
<1>1. pipe.buffer \in Seq(Bytes) /\ pipe.read_offset \in Nat /\ Len(pipe.buffer) \in Nat
  BY PipeParts
<1>2. pipe.read_offset <= Len(pipe.buffer) /\ Len(pipe.buffer) <= APP_PIPE_BUFFER_SIZE
  BY DEF Fits
<1>3. end \in Nat /\ end <= Len(pipe.buffer)
  BY ReadEnd
<1> HIDE DEF end
<1>4. <<>> \in Seq(Bytes) /\ Len(<<>>) = 0 /\ 0 \in Nat /\ 0 <= APP_PIPE_BUFFER_SIZE
  BY FdsAssumption
<1>5. [pipe EXCEPT !.buffer = <<>>, !.read_offset = 0] \in Pipes /\ [pipe EXCEPT !.read_offset = end] \in Pipes
  BY <1>3, <1>4 DEF Pipes
<1>6. /\ [pipe EXCEPT !.buffer = <<>>, !.read_offset = 0].buffer = <<>>
      /\ [pipe EXCEPT !.buffer = <<>>, !.read_offset = 0].read_offset = 0
      /\ [pipe EXCEPT !.read_offset = end].buffer = pipe.buffer
      /\ [pipe EXCEPT !.read_offset = end].read_offset = end
  BY DEF Pipes
<1>7. /\ SameFlags(pipe, [pipe EXCEPT !.buffer = <<>>, !.read_offset = 0])
      /\ SameFlags(pipe, [pipe EXCEPT !.read_offset = end])
  BY DEF SameFlags, Pipes
<1>8. Fits([pipe EXCEPT !.buffer = <<>>, !.read_offset = 0]) /\ Fits([pipe EXCEPT !.read_offset = end])
  BY <1>2, <1>3, <1>4, <1>6 DEF Fits
<1> QED
  BY <1>5, <1>7, <1>8 DEF AfterRead, end

\* abi_read on an open end.
LEMMA ReadPipe ==
  ASSUME NEW t, GoodTab(t), NEW n \in Nat, NEW fd \in TableFds, NEW p \in PipeIds,
         t.fds[fd] = PipeRead(p), t.pipes[p].read_open
  PROVE  /\ abi_read(t, fd, n).data = ReadData(t.pipes[p], n)
         /\ abi_read(t, fd, n).count = Len(ReadData(t.pipes[p], n))
         /\ abi_read(t, fd, n).tab = WithPipe(t, p, AfterRead(t.pipes[p], n))
<1>1. t.fds[fd].kind = "PipeRead" /\ t.fds[fd].pipe = p
  BY HandleMembers
<1>2. t.pipes[p].used
  BY DEF GoodTab, Matched
<1> QED
  BY <1>1, <1>2 DEF abi_read, AfterRead, ReadData, ReadTo, WithPipe

LEMMA ReadFacts ==
  ASSUME NEW t, GoodTab(t), NEW n \in Nat, NEW fd
  PROVE  LET r == abi_read(t, fd, n)
         IN  /\ r.data \in Seq(Bytes) /\ r.count \in Int
             /\ GoodTab(r.tab) /\ SameShape(t, r.tab) /\ r.tab.fds = t.fds
             /\ \A q \in PipeIds : (fd \in TableFds /\ t.fds[fd] = PipeRead(q)) \/ r.tab.pipes[q] = t.pipes[q]
<1>1. t \in Tabs /\ \A q \in PipeIds : Fits(t.pipes[q])
  BY DEF GoodTab
<1>2. CASE fd \in TableFds /\ \E p \in PipeIds : t.fds[fd] = PipeRead(p) /\ t.pipes[p].read_open
  <2>1. PICK p \in PipeIds : t.fds[fd] = PipeRead(p) /\ t.pipes[p].read_open
    BY <1>2
  <2> DEFINE r == abi_read(t, fd, n)
             pipe == t.pipes[p]
  <2>2. r.data = ReadData(pipe, n) /\ r.count = Len(ReadData(pipe, n)) /\ r.tab = WithPipe(t, p, AfterRead(pipe, n))
    <3>1. fd \in TableFds
      BY <1>2
    <3> QED
      BY <2>1, <3>1, ReadPipe
  <2>3. pipe \in Pipes /\ Fits(pipe)
    BY <1>1, TabParts
  <2>4. AfterRead(pipe, n) \in Pipes /\ Fits(AfterRead(pipe, n)) /\ SameFlags(pipe, AfterRead(pipe, n))
    BY <2>3, AfterReadFacts
  <2> HIDE DEF r
  <2>5. /\ GoodTab(r.tab) /\ SameShape(t, r.tab) /\ r.tab.fds = t.fds
        /\ \A q \in PipeIds \ {p} : r.tab.pipes[q] = t.pipes[q]
    BY <2>2, <2>4, BytesChange
  <2>6. r.data \in Seq(Bytes) /\ r.count \in Int
    <3>1. ReadData(pipe, n) \in Seq(Bytes)
      BY <2>3, ReadEnd
    <3> QED
      BY <2>2, <3>1
  <2> QED
    BY <1>2, <2>1, <2>5, <2>6 DEF r
<1>3. CASE ~(fd \in TableFds /\ \E p \in PipeIds : t.fds[fd] = PipeRead(p) /\ t.pipes[p].read_open)
  <2>1. abi_read(t, fd, n) = [count |-> -1, data |-> <<>>, tab |-> t]
    <3>1. CASE fd \in TableFds
      <4>1. CASE t.fds[fd].kind = "PipeRead"
        <5>1. t.fds[fd].pipe \in PipeIds /\ t.fds[fd] = PipeRead(t.fds[fd].pipe)
          BY <1>1, <3>1, <4>1, TabParts, HandleKinds
        <5>2. ~t.pipes[t.fds[fd].pipe].read_open
          BY <1>3, <3>1, <5>1
        <5> QED
          BY <3>1, <4>1, <5>2 DEF abi_read
      <4>2. CASE t.fds[fd].kind # "PipeRead"
        BY <3>1, <4>2 DEF abi_read, EmptyPipe
      <4> QED
        BY <4>1, <4>2
    <3>2. CASE fd \notin TableFds
      BY <3>2 DEF abi_read, Closed, EmptyPipe
    <3> QED
      BY <3>1, <3>2
  <2> QED
    BY <2>1, ShapeRefl
<1> QED
  BY <1>2, <1>3

Contents == [Files -> [by : Nat, data : Seq(Bytes)]]

LEMMA WriteAtType ==
  ASSUME NEW old \in Seq(Bytes), NEW n \in Nat, NEW data \in Seq(Bytes)
  PROVE  WriteAt(old, n, data) \in Seq(Bytes)
<1> DEFINE m == Max({Len(old), n + Len(data)})
<1>1. m \in Nat
  BY MaxPair
<1>2. Zero \in Bytes
  BY DEF Zero, Bytes
<1>3. ASSUME NEW i \in 1 .. m
      PROVE  (IF i \in n + 1 .. n + Len(data) THEN data[i - n]
              ELSE IF i <= Len(old) THEN old[i] ELSE Zero) \in Bytes
  <2>1. CASE i \in n + 1 .. n + Len(data)
    <3>1. i - n \in 1 .. Len(data)
      BY <2>1
    <3> QED
      BY <2>1, <3>1
  <2>2. CASE i \notin n + 1 .. n + Len(data) /\ i <= Len(old)
    <3>1. i \in 1 .. Len(old)
      BY <1>1, <2>2
    <3> QED
      BY <2>2, <3>1
  <2>3. CASE i \notin n + 1 .. n + Len(data) /\ ~(i <= Len(old))
    BY <1>2, <2>3
  <2> QED
    BY <2>1, <2>2, <2>3
<1> HIDE DEF m
<1>4. [i \in 1 .. m |-> IF i \in n + 1 .. n + Len(data) THEN data[i - n]
                        ELSE IF i <= Len(old) THEN old[i] ELSE Zero] \in Seq(Bytes)
  BY <1>1, <1>3, SMTT(30)
<1> QED
  BY <1>4 DEF WriteAt, m

\* A pipe after a write: what fits is added.
Fitting(pipe, data) == Min({Len(data), Room(pipe)})
AfterWrite(pipe, data) == [pipe EXCEPT !.buffer = @ \o SubSeq(data, 1, Fitting(pipe, data))]

LEMMA AfterWriteFacts ==
  ASSUME NEW pipe \in Pipes, Fits(pipe), NEW data \in Seq(Bytes)
  PROVE  /\ AfterWrite(pipe, data) \in Pipes /\ Fits(AfterWrite(pipe, data))
         /\ SameFlags(pipe, AfterWrite(pipe, data))
         /\ Fitting(pipe, data) \in 0 .. Len(data)
<1> DEFINE f == Fitting(pipe, data)
           b == pipe.buffer \o SubSeq(data, 1, f)
<1>1. pipe.buffer \in Seq(Bytes) /\ pipe.read_offset \in Nat /\ Len(pipe.buffer) \in Nat
  BY PipeParts
<1>2. pipe.read_offset <= Len(pipe.buffer) /\ Len(pipe.buffer) <= APP_PIPE_BUFFER_SIZE
  BY DEF Fits
<1>3. f \in 0 .. Len(data) /\ f <= APP_PIPE_BUFFER_SIZE - Len(pipe.buffer)
  BY <1>1, <1>2, FdsAssumption, MinPair DEF Fitting, Room
<1> HIDE DEF f
<1>4. SubSeq(data, 1, f) \in Seq(Bytes) /\ Len(SubSeq(data, 1, f)) = f
  BY <1>3
<1>5. b \in Seq(Bytes) /\ Len(b) = Len(pipe.buffer) + f
  <2> DEFINE g == SubSeq(data, 1, f)
  <2> HIDE DEF g
  <2>1. g \in Seq(Bytes) /\ Len(g) = f
    BY <1>4 DEF g
  <2>2. pipe.buffer \o g \in Seq(Bytes) /\ Len(pipe.buffer \o g) = Len(pipe.buffer) + Len(g)
    BY <1>1, <2>1, SMTT(30)
  <2> QED
    BY <2>1, <2>2 DEF g
<1>6. AfterWrite(pipe, data) = [pipe EXCEPT !.buffer = b]
  BY DEF AfterWrite, f
<1> HIDE DEF b
<1>7. [pipe EXCEPT !.buffer = b] \in Pipes
  BY <1>5 DEF Pipes
<1>8. SameFlags(pipe, [pipe EXCEPT !.buffer = b])
  BY DEF SameFlags, Pipes
<1>9. [pipe EXCEPT !.buffer = b].buffer = b /\ [pipe EXCEPT !.buffer = b].read_offset = pipe.read_offset
  BY DEF Pipes
<1>10. Fits([pipe EXCEPT !.buffer = b])
  BY <1>1, <1>2, <1>3, <1>5, <1>9, FdsAssumption DEF Fits
<1> QED
  BY <1>3, <1>6, <1>7, <1>8, <1>10 DEF f

\* Where a write to a resolved descriptor goes: nowhere in the tables, into the
\* buffer of a pipe, or into a file.
LEMMA WriteNowhere ==
  ASSUME NEW t, GoodTab(t), NEW c, NEW fd, NEW data,
         fd \in Std \/ (fd \in TableFds /\ t.fds[fd].kind \in {"Empty", "PipeRead"})
  PROVE  abi_write_fd(t, c, fd, data).tab = t /\ abi_write_fd(t, c, fd, data).content = c
<1>1. CASE fd \in Std
  <2>1. fd \notin TableFds
    BY <1>1, FdsNat
  <2>2. CASE fd \in {STDOUT, STDERR}
    BY <2>1, <2>2 DEF abi_write_fd, Closed
  <2>3. CASE fd \notin {STDOUT, STDERR}
    BY <2>1, <2>3 DEF abi_write_fd, Closed
  <2> QED
    BY <2>2, <2>3
<1>2. CASE fd \in TableFds /\ t.fds[fd].kind \in {"Empty", "PipeRead"}
  <2>1. fd \notin {STDOUT, STDERR}
    BY <1>2, FdsNat DEF Std, STDOUT, STDERR
  <2> QED
    BY <1>2, <2>1 DEF abi_write_fd
<1> QED
  BY <1>1, <1>2

LEMMA WritePipe ==
  ASSUME NEW t, GoodTab(t), NEW c, NEW data \in Seq(Bytes), NEW fd \in TableFds, NEW p \in PipeIds,
         t.fds[fd] = PipeWrite(p), t.pipes[p].read_open
  PROVE  /\ abi_write_fd(t, c, fd, data).content = c
         /\ abi_write_fd(t, c, fd, data).tab = WithPipe(t, p, AfterWrite(t.pipes[p], data))
<1> DEFINE w == abi_write_fd(t, c, fd, data)
           pipe == t.pipes[p]
           fits == Fitting(pipe, data)
           none == [count |-> -1, tab |-> t, content |-> c]
<1>1. t.fds[fd].kind = "PipeWrite" /\ t.fds[fd].pipe = p
  BY HandleMembers
<1>2. t \in Tabs /\ Matched(t) /\ pipe \in Pipes /\ Fits(pipe)
  BY TabParts DEF GoodTab
<1>3. pipe.used /\ pipe.write_open /\ pipe.read_open
  BY <1>1, <1>2 DEF Matched, IsEnd, EndOpen
<1>4. fd \notin {STDOUT, STDERR}
  BY FdsNat DEF Std, STDOUT, STDERR
<1>5. fits \in 0 .. Len(data)
  BY <1>2, AfterWriteFacts
<1>6. t = [fds |-> t.fds, pipes |-> t.pipes] /\ t.fds \in [TableFds -> Handles] /\ t.pipes \in [PipeIds -> Pipes]
  BY <1>2 DEF Tabs
<1>7. CASE fits > 0 \/ data = <<>>
  <2>1. w = [none EXCEPT !.count = fits, !.tab.pipes[p].buffer = @ \o SubSeq(data, 1, fits)]
    BY <1>1, <1>3, <1>4, <1>7 DEF abi_write_fd, Fitting
  <2>2. [none EXCEPT !.count = fits, !.tab.pipes[p].buffer = @ \o SubSeq(data, 1, fits)].tab =
          [t EXCEPT !.pipes[p].buffer = @ \o SubSeq(data, 1, fits)]
    OBVIOUS
  <2>3. [t EXCEPT !.pipes[p].buffer = @ \o SubSeq(data, 1, fits)] =
          WithPipe(t, p, AfterWrite(pipe, data))
    BY DEF AfterWrite, WithPipe
  <2>4. w.content = c
    BY <2>1
  <2> QED
    BY <2>1, <2>2, <2>3, <2>4
<1>8. CASE ~(fits > 0 \/ data = <<>>)
  <2>1. w = none
    BY <1>1, <1>3, <1>4, <1>8 DEF abi_write_fd, Fitting
  <2>2. fits = 0
    BY <1>5, <1>8
  <2>3. AfterWrite(pipe, data) = pipe
    <3>1. SubSeq(data, 1, 0) = <<>>
      OBVIOUS
    <3>2. pipe.buffer \o <<>> = pipe.buffer
      BY <1>2, PipeParts
    <3>3. AfterWrite(pipe, data) = [pipe EXCEPT !.buffer = pipe.buffer]
      BY <2>2, <3>1, <3>2 DEF AfterWrite
    <3> QED
      BY <1>2, <3>3 DEF Pipes
  <2>4. WithPipe(t, p, pipe) = t
    <3>1. [t.pipes EXCEPT ![p] = t.pipes[p]] = t.pipes
      BY <1>6
    <3> QED
      BY <1>6, <3>1 DEF WithPipe
  <2> QED
    BY <2>1, <2>3, <2>4
<1> QED
  BY <1>7, <1>8

LEMMA WriteFile ==
  ASSUME NEW t, GoodTab(t), NEW c, NEW data, NEW fd \in TableFds, t.fds[fd].kind = "Pfs"
  PROVE  /\ abi_write_fd(t, c, fd, data).tab = Moved(t, fd, Len(data))
         /\ abi_write_fd(t, c, fd, data).content = Added(c, t.fds[fd], data)
<1>1. fd \notin {STDOUT, STDERR}
  BY FdsNat DEF Std, STDOUT, STDERR
<1> QED
  BY <1>1 DEF abi_write_fd, Moved, Added

\* A table with the offset of one file handle moved.
LEMMA OffsetChange ==
  ASSUME NEW t, GoodTab(t), NEW fd \in TableFds, t.fds[fd].kind = "Pfs", NEW n \in Nat
  PROVE  LET u == Moved(t, fd, n)
         IN  /\ GoodTab(u) /\ SameShape(t, u) /\ u.pipes = t.pipes
             /\ u.fds[fd] = Pfs(t.fds[fd].file, t.fds[fd].offset + n)
             /\ \A gd \in TableFds \ {fd} : u.fds[gd] = t.fds[gd]
<1> DEFINE h == t.fds[fd]
           g == Pfs(h.file, h.offset + n)
           u == Moved(t, fd, n)
<1>1. t \in Tabs /\ Matched(t) /\ \A q \in PipeIds : Fits(t.pipes[q])
  BY DEF GoodTab
<1>2. t = [fds |-> t.fds, pipes |-> t.pipes] /\ t.fds \in [TableFds -> Handles] /\ t.pipes \in [PipeIds -> Pipes]
  BY <1>1 DEF Tabs
<1>3. h.file \in Files /\ h.offset \in Nat /\ h = Pfs(h.file, h.offset)
  BY <1>2, HandleKinds
<1>4. [h EXCEPT !.offset = h.offset + n] = g
  BY <1>3 DEF Pfs
<1>5. g \in Handles /\ g.kind = "Pfs" /\ g.file = h.file
  <2>1. h.offset + n \in Nat
    BY <1>3
  <2> QED
    BY <1>3, <2>1, HandleMembers
<1>6. u = [fds |-> [t.fds EXCEPT ![fd] = [h EXCEPT !.offset = h.offset + n]], pipes |-> t.pipes]
  BY <1>2 DEF Moved
<1>7. u = [fds |-> [t.fds EXCEPT ![fd] = g], pipes |-> t.pipes]
  BY <1>4, <1>6
<1> HIDE DEF u, g
<1>8. u.fds = [t.fds EXCEPT ![fd] = g] /\ u.pipes = t.pipes
  BY <1>7
<1>9. u.fds \in [TableFds -> Handles] /\ u.fds[fd] = g /\ \A gd \in TableFds \ {fd} : u.fds[gd] = t.fds[gd]
  BY <1>2, <1>5, <1>8
<1>10. u \in Tabs
  BY <1>2, <1>7, <1>8, <1>9 DEF Tabs
<1>11. SameShape(t, u)
  BY <1>5, <1>8, <1>9 DEF SameShape, SameHandle, SameFlags
<1> QED
  BY <1>1, <1>8, <1>9, <1>10, <1>11, ShapeMatched DEF GoodTab, u, g

\* A write keeps the shape of the tables.
LEMMA WriteFacts ==
  ASSUME NEW t, GoodTab(t), NEW c \in Contents, NEW fd \in Std \cup TableFds, NEW data \in Seq(Bytes)
  PROVE  LET w == abi_write_fd(t, c, fd, data)
         IN  /\ GoodTab(w.tab) /\ SameShape(t, w.tab) /\ w.content \in Contents
<1> DEFINE w == abi_write_fd(t, c, fd, data)
<1>1. t \in Tabs /\ \A q \in PipeIds : Fits(t.pipes[q])
  BY DEF GoodTab
<1>2. CASE fd \in Std \/ (fd \in TableFds /\ t.fds[fd].kind \in {"Empty", "PipeRead"})
  BY <1>2, WriteNowhere, ShapeRefl
<1>3. CASE fd \in TableFds /\ t.fds[fd].kind = "PipeWrite"
  <2> DEFINE p == t.fds[fd].pipe
  <2>1. fd \in TableFds /\ p \in PipeIds /\ t.fds[fd] = PipeWrite(p)
    BY <1>1, <1>3, TabParts, HandleKinds
  <2>2. CASE t.pipes[p].read_open
    <3>1. w.content = c /\ w.tab = WithPipe(t, p, AfterWrite(t.pipes[p], data))
      BY <2>1, <2>2, WritePipe
    <3>2. t.pipes[p] \in Pipes /\ Fits(t.pipes[p])
      BY <1>1, <2>1, TabParts
    <3>3. /\ AfterWrite(t.pipes[p], data) \in Pipes /\ Fits(AfterWrite(t.pipes[p], data))
          /\ SameFlags(t.pipes[p], AfterWrite(t.pipes[p], data))
      BY <3>2, AfterWriteFacts
    <3> HIDE DEF w, p
    <3> QED
      BY <2>1, <3>1, <3>3, BytesChange DEF w
  <2>3. CASE ~t.pipes[p].read_open
    <3>1. fd \notin {STDOUT, STDERR}
      BY <2>1, FdsNat DEF Std, STDOUT, STDERR
    <3>2. w.tab = t /\ w.content = c
      BY <1>3, <2>3, <3>1 DEF abi_write_fd
    <3> QED
      BY <3>2, ShapeRefl
  <2> QED
    BY <2>2, <2>3
<1>4. CASE fd \in TableFds /\ t.fds[fd].kind = "Pfs"
  <2> DEFINE h == t.fds[fd]
  <2>1. w.tab = Moved(t, fd, Len(data)) /\ w.content = Added(c, h, data)
    BY <1>4, WriteFile
  <2>2. h.file \in Files /\ h.offset \in Nat
    BY <1>1, <1>4, TabParts, HandleKinds
  <2> HIDE DEF w
  <2>3. GoodTab(w.tab) /\ SameShape(t, w.tab)
    <3>1. Len(data) \in Nat
      OBVIOUS
    <3> QED
      BY <1>4, <2>1, <3>1, OffsetChange
  <2>4. w.content \in Contents
    <3> HIDE DEF h
    <3>1. c[h.file] \in [by : Nat, data : Seq(Bytes)]
      BY <2>2 DEF Contents
    <3>2. WriteAt(c[h.file].data, h.offset, data) \in Seq(Bytes)
      BY <2>2, <3>1, WriteAtType
    <3>3. [c[h.file] EXCEPT !.data = WriteAt(c[h.file].data, h.offset, data)] \in [by : Nat, data : Seq(Bytes)]
      BY <3>1, <3>2
    <3> QED
      BY <2>1, <2>2, <3>3 DEF Contents, Added
  <2> QED
    BY <2>3, <2>4 DEF w
<1>5. fd \in TableFds => t.fds[fd].kind \in {"Empty", "PipeRead", "PipeWrite", "Pfs"}
  BY <1>1, TabParts, HandleKinds
<1> QED
  BY <1>2, <1>3, <1>4, <1>5

-----------------------------------------------------------------------------
(* Standard descriptors *)

Stds == [Std -> Std \cup TableFds]

LEMMA Dup2 ==
  ASSUME NEW t, NEW std \in Stds, NEW old \in Std \cup TableFds, NEW new \in Std
  PROVE  /\ abi_dup2(t, std, old, new) \in Stds
         /\ (old = new \/ old \in Open(t)) => \A s \in Std : abi_dup2(t, std, old, new)[s] = IF s = new THEN old ELSE std[s]
  BY DEF abi_dup2, app_fd_open, Stds

IsDupUpto(t, std, opened, f) ==
    f = [k \in 0 .. Len(opened) |-> IF k = 0 THEN std ELSE abi_dup2(t, f[k - 1], opened[k].child, opened[k].stream)]

DupUpto(t, std, opened) == CHOOSE f : IsDupUpto(t, std, opened, f)

LEMMA DupUptoIs ==
  ASSUME NEW t, NEW std, NEW opened
  PROVE  dup2_all(t, std, opened) = DupUpto(t, std, opened)[Len(opened)]
  BY DEF dup2_all, DupUpto, IsDupUpto

\* The redirections one by one.
LEMMA DupUptoSteps ==
  ASSUME NEW t, NEW std \in Stds, NEW opened \in Seq(Entries)
  PROVE  /\ DupUpto(t, std, opened)[0] = std
         /\ \A k \in 1 .. Len(opened) : DupUpto(t, std, opened)[k] = abi_dup2(t, DupUpto(t, std, opened)[k - 1], opened[k].child, opened[k].stream)
         /\ \A k \in 0 .. Len(opened) : DupUpto(t, std, opened)[k] \in Stds
<1> DEFINE n == Len(opened)
           x == std
           s == [v \in Stds |-> [k \in 1 .. n |-> abi_dup2(t, v, opened[k].child, opened[k].stream)]]
<1>1. n \in Nat
  OBVIOUS
<1>2. x \in Stds
  OBVIOUS
<1>3. s \in [Stds -> [1 .. n -> Stds]]
  <2>1. \A k \in 1 .. n : opened[k] \in Entries
    OBVIOUS
  <2>2. \A o \in Entries : o.child \in Std \cup TableFds /\ o.stream \in Std
    BY DEF Entries
  <2> QED
    BY <2>1, <2>2, Dup2
<1>4. \A v \in Stds : \A k \in 1 .. n : s[v][k] = abi_dup2(t, v, opened[k].child, opened[k].stream)
  OBVIOUS
<1> HIDE DEF s, x, n
<1>5. PICK f \in [0 .. n -> Stds] : Runs(f, x, s, n)
  BY <1>1, <1>2, <1>3, RunsExist
<1>6. IsDupUpto(t, std, opened, f)
  <2>1. f = [k \in 0 .. n |-> f[k]]
    BY <1>5
  <2>2. ASSUME NEW k \in 0 .. n
        PROVE  f[k] = IF k = 0 THEN x ELSE abi_dup2(t, f[k - 1], opened[k].child, opened[k].stream)
    <3>1. CASE k = 0
      BY <3>1, <1>5 DEF Runs
    <3>2. CASE k # 0
      <4>1. k \in 1 .. n /\ k - 1 \in 0 .. n
        BY <3>2, <1>1
      <4>2. f[k] = s[f[k - 1]][k] /\ f[k - 1] \in Stds
        BY <4>1, <1>5 DEF Runs
      <4> QED
        BY <4>1, <4>2, <3>2, <1>4
    <3> QED
      BY <3>1, <3>2
  <2>3. f = [k \in 0 .. n |-> IF k = 0 THEN x ELSE abi_dup2(t, f[k - 1], opened[k].child, opened[k].stream)]
    BY <2>1, <2>2, Zenon
  <2> QED
    BY <2>3, Zenon DEF IsDupUpto, n, x
<1> DEFINE u == DupUpto(t, std, opened)
<1>7. IsDupUpto(t, std, opened, u)
  BY <1>6, Zenon DEF DupUpto
<1> HIDE DEF u
<1>8. u = [k \in 0 .. n |-> IF k = 0 THEN x ELSE abi_dup2(t, u[k - 1], opened[k].child, opened[k].stream)]
  BY <1>7, Zenon DEF IsDupUpto, n, x
<1>9. u[0] = x
  BY <1>8, <1>1
<1>10. ASSUME NEW k \in 1 .. n PROVE u[k] = abi_dup2(t, u[k - 1], opened[k].child, opened[k].stream)
  <2>1. k \in 0 .. n /\ k # 0
    BY <1>1
  <2> QED
    BY <2>1, <1>8
<1>11. \A k \in 0 .. n : u[k] \in Stds
  <2> DEFINE S == {k \in 0 .. n : u[k] \in Stds}
  <2>1. 0 \in S
    BY <1>1, <1>2, <1>9
  <2>2. ASSUME NEW k \in 1 .. n, k - 1 \in S PROVE k \in S
    <3>1. u[k - 1] \in Stds /\ k \in 0 .. n
      BY <1>1, <2>2
    <3>2. s[u[k - 1]][k] \in Stds
      BY <1>3, <3>1
    <3> QED
      BY <1>4, <1>10, <3>1, <3>2
  <2> HIDE DEF S
  <2>3. \A k \in 0 .. n : k \in S
    BY <1>1, <2>1, <2>2, InductUpto
  <2> QED
    BY <2>3 DEF S
<1> QED
  BY <1>9, <1>10, <1>11 DEF u, x, n


\* The streams opened for the child stand for its descriptors, the others are
\* as before.
Stood(m, std, opened) ==
    /\ \A i \in 1 .. Len(opened) : m[opened[i].stream] = opened[i].child
    /\ \A s \in Std : (\A i \in 1 .. Len(opened) : opened[i].stream # s) => m[s] = std[s]

OneStream(opened) == \A i, j \in 1 .. Len(opened) : opened[i].stream = opened[j].stream => i = j

LEMMA DupAllFacts ==
  ASSUME NEW t, NEW std \in Stds, NEW opened \in Seq(Entries), OneStream(opened),
         \A i \in 1 .. Len(opened) : opened[i].child \in Open(t)
  PROVE  dup2_all(t, std, opened) \in Stds /\ Stood(dup2_all(t, std, opened), std, opened)
<1> DEFINE n == Len(opened)
           u == DupUpto(t, std, opened)
           P(k) == /\ \A i \in 1 .. k : u[k][opened[i].stream] = opened[i].child
                   /\ \A s \in Std : (\A i \in 1 .. k : opened[i].stream # s) => u[k][s] = std[s]
           S == {k \in 0 .. n : P(k)}
<1>1. n \in Nat /\ \A i \in 1 .. n : opened[i].stream \in Std /\ opened[i].child \in Std \cup TableFds
  <2>1. \A i \in 1 .. n : opened[i] \in Entries
    OBVIOUS
  <2> QED
    BY <2>1 DEF Entries
<1>2. /\ u[0] = std
      /\ \A k \in 1 .. n : u[k] = abi_dup2(t, u[k - 1], opened[k].child, opened[k].stream)
      /\ \A k \in 0 .. n : u[k] \in Stds
  BY DupUptoSteps
<1>3. dup2_all(t, std, opened) = u[n]
  BY DupUptoIs
<1>4. \A i, j \in 1 .. n : opened[i].stream = opened[j].stream => i = j
  BY DEF OneStream
<1>5. \A i \in 1 .. n : opened[i].child \in Open(t)
  OBVIOUS
<1> HIDE DEF u, n
<1>6. 0 \in S
  BY <1>1, <1>2
<1>7. ASSUME NEW k \in 1 .. n, k - 1 \in S PROVE k \in S
  <2>1. P(k - 1) /\ k - 1 \in 0 .. n /\ k \in 0 .. n
    BY <1>1, <1>7
  <2>2. \A s \in Std : u[k][s] = IF s = opened[k].stream THEN opened[k].child ELSE u[k - 1][s]
    <3>1. /\ u[k - 1] \in Stds /\ opened[k].child \in Open(t) /\ opened[k].stream \in Std
          /\ u[k] = abi_dup2(t, u[k - 1], opened[k].child, opened[k].stream)
      BY <1>1, <1>2, <1>5, <2>1
    <3> QED
      BY <3>1 DEF abi_dup2, app_fd_open, Stds
  <2>3. \A i \in 1 .. k - 1 : i \in 1 .. n /\ i # k /\ i \in 1 .. k
    BY <1>1
  <2>4. \A i \in 1 .. k : i = k \/ i \in 1 .. k - 1
    BY <1>1
  <2>5. k \in 1 .. k
    BY <1>1
  <2>6. P(k)
    BY <1>1, <1>4, <2>1, <2>2, <2>3, <2>4, <2>5
  <2> HIDE DEF P
  <2> QED
    BY <2>1, <2>6
<1>8. n \in S
  <2> HIDE DEF S
  <2>1. \A k \in 0 .. n : k \in S
    BY <1>1, <1>6, <1>7, InductUpto
  <2>2. n \in 0 .. n
    BY <1>1
  <2> QED
    BY <2>1, <2>2
<1>9. u[n] \in Stds
  BY <1>1, <1>2
<1> QED
  BY <1>3, <1>8, <1>9 DEF Stood, n

\* restore_stdio gives the saved descriptors back, if they are still open.
LEMMA RestoreStdioFacts ==
  ASSUME NEW std \in Stds, NEW saved \in Stds, \A s \in Std : saved[s] = s \/ saved[s] \in Open(tab)
  PROVE  restore_stdio(std, saved) = saved
<1> DEFINE a == abi_dup2(tab, std, saved[STDIN], STDIN)
           b == abi_dup2(tab, a, saved[STDOUT], STDOUT)
           c == abi_dup2(tab, b, saved[STDERR], STDERR)
<1>1. /\ STDIN \in Std /\ STDOUT \in Std /\ STDERR \in Std /\ STDIN # STDOUT /\ STDIN # STDERR /\ STDOUT # STDERR
      /\ \A s \in Std : s \in {STDIN, STDOUT, STDERR}
  BY DEF Std, STDIN, STDOUT, STDERR
<1>2. \A s \in Std : saved[s] \in Std \cup TableFds
  BY DEF Stds
<1>3. a \in Stds /\ \A s \in Std : a[s] = IF s = STDIN THEN saved[STDIN] ELSE std[s]
  BY <1>1, <1>2 DEF abi_dup2, app_fd_open, Stds
<1> HIDE DEF a
<1>4. b \in Stds /\ \A s \in Std : b[s] = IF s = STDOUT THEN saved[STDOUT] ELSE a[s]
  BY <1>1, <1>2, <1>3 DEF abi_dup2, app_fd_open, Stds
<1> HIDE DEF b
<1>5. c \in Stds /\ \A s \in Std : c[s] = IF s = STDERR THEN saved[STDERR] ELSE b[s]
  BY <1>1, <1>2, <1>4 DEF abi_dup2, app_fd_open, Stds
<1>6. restore_stdio(std, saved) = c
  BY DEF restore_stdio, a, b
<1> HIDE DEF c
<1>7. \A s \in Std : c[s] = saved[s]
  BY <1>1, <1>3, <1>4, <1>5
<1>8. c = saved
  BY <1>5, <1>7 DEF Stds
<1> QED
  BY <1>6, <1>8

-----------------------------------------------------------------------------
(* The environment through a call *)

Variables == [Keys -> Values \cup {Absent}]

IsOverUpto(variables, overrides, f) ==
    f = [k \in 0 .. Len(overrides) |-> IF k = 0 THEN variables ELSE [f[k - 1] EXCEPT ![overrides[k].key] = overrides[k].value]]

OverUpto(variables, overrides) == CHOOSE f : IsOverUpto(variables, overrides, f)

LEMMA OverUptoIs ==
  ASSUME NEW variables, NEW overrides, NEW m
  PROVE  Overlaid(variables, overrides, m) = OverUpto(variables, overrides)[m]
  BY DEF Overlaid, OverUpto, IsOverUpto

\* Overrides one by one.
LEMMA OverUptoSteps ==
  ASSUME NEW variables \in Variables, NEW overrides \in Seq(Overrides)
  PROVE  /\ OverUpto(variables, overrides)[0] = variables
         /\ \A k \in 1 .. Len(overrides) : OverUpto(variables, overrides)[k] = [OverUpto(variables, overrides)[k - 1] EXCEPT ![overrides[k].key] = overrides[k].value]
         /\ \A k \in 0 .. Len(overrides) : OverUpto(variables, overrides)[k] \in Variables
<1> DEFINE n == Len(overrides)
           x == variables
           s == [v \in Variables |-> [k \in 1 .. n |-> [v EXCEPT ![overrides[k].key] = overrides[k].value]]]
<1>1. n \in Nat
  OBVIOUS
<1>2. x \in Variables
  OBVIOUS
<1>3. s \in [Variables -> [1 .. n -> Variables]]
  <2>1. \A k \in 1 .. n : overrides[k] \in Overrides
    OBVIOUS
  <2>2. \A o \in Overrides : o.key \in Keys /\ o.value \in Values \cup {Absent}
    BY DEF Overrides
  <2>3. ASSUME NEW v \in Variables, NEW key \in Keys, NEW value \in Values \cup {Absent}
        PROVE  [v EXCEPT ![key] = value] \in Variables
    BY DEF Variables
  <2> QED
    BY <2>1, <2>2, <2>3
<1>4. \A v \in Variables : \A k \in 1 .. n : s[v][k] = [v EXCEPT ![overrides[k].key] = overrides[k].value]
  OBVIOUS
<1> HIDE DEF s, x, n
<1>5. PICK f \in [0 .. n -> Variables] : Runs(f, x, s, n)
  BY <1>1, <1>2, <1>3, RunsExist
<1>6. IsOverUpto(variables, overrides, f)
  <2>1. f = [k \in 0 .. n |-> f[k]]
    BY <1>5
  <2>2. ASSUME NEW k \in 0 .. n
        PROVE  f[k] = IF k = 0 THEN x ELSE [f[k - 1] EXCEPT ![overrides[k].key] = overrides[k].value]
    <3>1. CASE k = 0
      BY <3>1, <1>5 DEF Runs
    <3>2. CASE k # 0
      <4>1. k \in 1 .. n /\ k - 1 \in 0 .. n
        BY <3>2, <1>1
      <4>2. f[k] = s[f[k - 1]][k] /\ f[k - 1] \in Variables
        BY <4>1, <1>5 DEF Runs
      <4> QED
        BY <4>1, <4>2, <3>2, <1>4
    <3> QED
      BY <3>1, <3>2
  <2>3. f = [k \in 0 .. n |-> IF k = 0 THEN x ELSE [f[k - 1] EXCEPT ![overrides[k].key] = overrides[k].value]]
    BY <2>1, <2>2, Zenon
  <2> QED
    BY <2>3, Zenon DEF IsOverUpto, n, x
<1> DEFINE u == OverUpto(variables, overrides)
<1>7. IsOverUpto(variables, overrides, u)
  BY <1>6, Zenon DEF OverUpto
<1> HIDE DEF u
<1>8. u = [k \in 0 .. n |-> IF k = 0 THEN x ELSE [u[k - 1] EXCEPT ![overrides[k].key] = overrides[k].value]]
  BY <1>7, Zenon DEF IsOverUpto, n, x
<1>9. u[0] = x
  BY <1>8, <1>1
<1>10. ASSUME NEW k \in 1 .. n PROVE u[k] = [u[k - 1] EXCEPT ![overrides[k].key] = overrides[k].value]
  <2>1. k \in 0 .. n /\ k # 0
    BY <1>1
  <2> QED
    BY <2>1, <1>8
<1>11. \A k \in 0 .. n : u[k] \in Variables
  <2> DEFINE S == {k \in 0 .. n : u[k] \in Variables}
  <2>1. 0 \in S
    BY <1>1, <1>2, <1>9
  <2>2. ASSUME NEW k \in 1 .. n, k - 1 \in S PROVE k \in S
    <3>1. u[k - 1] \in Variables /\ k \in 0 .. n
      BY <1>1, <2>2
    <3>2. s[u[k - 1]][k] \in Variables
      BY <1>3, <3>1
    <3> QED
      BY <1>4, <1>10, <3>1, <3>2, ZenonT(40)
  <2> HIDE DEF S
  <2>3. \A k \in 0 .. n : k \in S
    BY <1>1, <2>1, <2>2, InductUpto
  <2> QED
    BY <2>3 DEF S
<1> QED
  BY <1>9, <1>10, <1>11 DEF u, x, n

IsUndoneUpto(env, restores, f) ==
    f = [k \in 0 .. Len(restores) |-> IF k = 0 THEN env ELSE Undo(f[k - 1], restores[Len(restores) + 1 - k])]

UndoneUpto(env, restores) == CHOOSE f : IsUndoneUpto(env, restores, f)

LEMMA UndoneUptoIs ==
  ASSUME NEW env, NEW restores
  PROVE  restore_env(env, restores) = UndoneUpto(env, restores)[Len(restores)]
  BY DEF restore_env, UndoneUpto, IsUndoneUpto

\* restore_env round by round.
LEMMA UndoneUptoSteps ==
  ASSUME NEW env \in EnvTables, NEW restores \in Seq(Overrides)
  PROVE  /\ UndoneUpto(env, restores)[0] = env
         /\ \A k \in 1 .. Len(restores) : UndoneUpto(env, restores)[k] = Undo(UndoneUpto(env, restores)[k - 1], restores[Len(restores) + 1 - k])
         /\ \A k \in 0 .. Len(restores) : UndoneUpto(env, restores)[k] \in EnvTables
<1> DEFINE n == Len(restores)
           x == env
           s == [v \in EnvTables |-> [k \in 1 .. n |-> Undo(v, restores[Len(restores) + 1 - k])]]
<1>1. n \in Nat
  OBVIOUS
<1>2. x \in EnvTables
  OBVIOUS
<1>3. s \in [EnvTables -> [1 .. n -> EnvTables]]
  <2>1. \A k \in 1 .. n : restores[n + 1 - k] \in Overrides
    BY <1>1
  <2>2. ASSUME NEW e \in EnvTables, NEW r \in Overrides PROVE Undo(e, r) \in EnvTables
    <3>1. r.key \in Keys /\ r.value \in Values \cup {Absent}
      BY DEF Overrides
    <3> QED
      BY <3>1, SetKeepsType DEF Undo
  <2> QED
    BY <2>1, <2>2
<1>4. \A v \in EnvTables : \A k \in 1 .. n : s[v][k] = Undo(v, restores[Len(restores) + 1 - k])
  OBVIOUS
<1> HIDE DEF s, x, n
<1>5. PICK f \in [0 .. n -> EnvTables] : Runs(f, x, s, n)
  BY <1>1, <1>2, <1>3, RunsExist
<1>6. IsUndoneUpto(env, restores, f)
  <2>1. f = [k \in 0 .. n |-> f[k]]
    BY <1>5
  <2>2. ASSUME NEW k \in 0 .. n
        PROVE  f[k] = IF k = 0 THEN x ELSE Undo(f[k - 1], restores[Len(restores) + 1 - k])
    <3>1. CASE k = 0
      BY <3>1, <1>5 DEF Runs
    <3>2. CASE k # 0
      <4>1. k \in 1 .. n /\ k - 1 \in 0 .. n
        BY <3>2, <1>1
      <4>2. f[k] = s[f[k - 1]][k] /\ f[k - 1] \in EnvTables
        BY <4>1, <1>5 DEF Runs
      <4> QED
        BY <4>1, <4>2, <3>2, <1>4
    <3> QED
      BY <3>1, <3>2
  <2>3. f = [k \in 0 .. n |-> IF k = 0 THEN x ELSE Undo(f[k - 1], restores[Len(restores) + 1 - k])]
    BY <2>1, <2>2, Zenon
  <2> QED
    BY <2>3, Zenon DEF IsUndoneUpto, n, x
<1> DEFINE u == UndoneUpto(env, restores)
<1>7. IsUndoneUpto(env, restores, u)
  BY <1>6, Zenon DEF UndoneUpto
<1> HIDE DEF u
<1>8. u = [k \in 0 .. n |-> IF k = 0 THEN x ELSE Undo(u[k - 1], restores[Len(restores) + 1 - k])]
  BY <1>7, Zenon DEF IsUndoneUpto, n, x
<1>9. u[0] = x
  BY <1>8, <1>1
<1>10. ASSUME NEW k \in 1 .. n PROVE u[k] = Undo(u[k - 1], restores[Len(restores) + 1 - k])
  <2>1. k \in 0 .. n /\ k # 0
    BY <1>1
  <2> QED
    BY <2>1, <1>8
<1>11. \A k \in 0 .. n : u[k] \in EnvTables
  <2> DEFINE S == {k \in 0 .. n : u[k] \in EnvTables}
  <2>1. 0 \in S
    BY <1>1, <1>2, <1>9
  <2>2. ASSUME NEW k \in 1 .. n, k - 1 \in S PROVE k \in S
    <3>1. u[k - 1] \in EnvTables /\ k \in 0 .. n
      BY <1>1, <2>2
    <3>2. s[u[k - 1]][k] \in EnvTables
      BY <1>3, <3>1
    <3> QED
      BY <1>4, <1>10, <3>1, <3>2
  <2> HIDE DEF S
  <2>3. \A k \in 0 .. n : k \in S
    BY <1>1, <2>1, <2>2, InductUpto
  <2> QED
    BY <2>3 DEF S
<1> QED
  BY <1>9, <1>10, <1>11 DEF u, x, n


\* V[0], ..., V[n] are the environments overrides were made in, and each of
\* their keys has a slot.
MadeIn(env, restores, V) ==
    /\ \A k \in Keys : env_lookup(env, k) = V[Len(restores)][k]
    /\ \A j \in 1 .. Len(restores) :
         /\ restores[j].key \notin BadKeys /\ env_overlay_has_key(env, restores[j].key)
         /\ \A k \in Keys : V[j - 1][k] = IF k = restores[j].key THEN restores[j].value ELSE V[j][k]

\* Undoing overrides leads back through the environments they were made in.
LEMMA RestoreEnvFacts ==
  ASSUME NEW env \in EnvTables, KeysUnique(env), NEW restores \in Seq(Overrides), NEW V, MadeIn(env, restores, V)
  PROVE  /\ restore_env(env, restores) \in EnvTables /\ KeysUnique(restore_env(env, restores))
         /\ \A k \in Keys : env_lookup(restore_env(env, restores), k) = V[0][k]
<1> DEFINE n == Len(restores)
           u == UndoneUpto(env, restores)
           P(e, m) == /\ KeysUnique(e)
                      /\ \A j \in 1 .. n : env_overlay_has_key(e, restores[j].key)
                      /\ \A k \in Keys : env_lookup(e, k) = V[m][k]
           S == {i \in 0 .. n : P(u[i], n - i)}
<1>1. n \in Nat /\ \A j \in 1 .. n : restores[j] \in Overrides
  OBVIOUS
<1>2. /\ u[0] = env
      /\ \A i \in 1 .. n : u[i] = Undo(u[i - 1], restores[n + 1 - i])
      /\ \A i \in 0 .. n : u[i] \in EnvTables
  BY UndoneUptoSteps
<1>3. restore_env(env, restores) = u[n]
  BY UndoneUptoIs
<1>4. \A j \in 1 .. n :
        /\ restores[j].key \notin BadKeys /\ env_overlay_has_key(env, restores[j].key)
        /\ \A k \in Keys : V[j - 1][k] = IF k = restores[j].key THEN restores[j].value ELSE V[j][k]
  BY DEF MadeIn
<1>5. P(env, n)
  BY <1>4 DEF MadeIn
<1> HIDE DEF u, n
<1>6. 0 \in S
  <2>1. 0 \in 0 .. n /\ n - 0 = n
    BY <1>1
  <2> HIDE DEF P
  <2> QED
    BY <1>2, <1>5, <2>1
<1>7. ASSUME NEW i \in 1 .. n, i - 1 \in S PROVE i \in S
  <2> DEFINE e == u[i - 1]
             j == n + 1 - i
             r == restores[j]
  <2>1. /\ i \in 0 .. n /\ i - 1 \in 0 .. n /\ j \in 1 .. n
        /\ n - (i - 1) = j /\ n - i = j - 1
    BY <1>1
  <2>2. P(e, j) /\ e \in EnvTables
    <3>1. P(e, n - (i - 1))
      <4> HIDE DEF P, e
      <4> QED
        BY <1>7 DEF e
    <3> HIDE DEF P, j
    <3> QED
      BY <1>2, <2>1, <3>1
  <2>3. u[i] = Undo(e, r)
    BY <1>2
  <2>4. r.key \in Keys /\ r.key \notin BadKeys
    BY <1>1, <1>4, <2>1 DEF Overrides
  <2>5. CanSet(e, r.key)
    BY <2>1, <2>2, <2>4 DEF CanSet
  <2> HIDE DEF e, j
  <2> DEFINE x == env_set_overlay(e, r.key, r.value)
  <2>6. u[i] = x
    BY <2>3, <2>5 DEF Undo
  <2>7. KeysUnique(x)
    BY <2>2, <2>5, SetKeepsUnique
  <2>8. \A l \in 1 .. n : env_overlay_has_key(x, restores[l].key)
    BY <2>2, <2>5, SetKeepsHolders
  <2>9. ASSUME NEW k \in Keys PROVE env_lookup(x, k) = V[j - 1][k]
    <3>1. env_lookup(x, k) = IF k = r.key THEN r.value ELSE env_lookup(e, k)
      BY <2>2, <2>5, SetIsUpdate
    <3>2. env_lookup(e, k) = V[j][k]
      BY <2>2
    <3>3. V[j - 1][k] = IF k = r.key THEN r.value ELSE V[j][k]
      BY <1>4, <2>1
    <3> HIDE DEF x, r
    <3> QED
      BY <3>1, <3>2, <3>3
  <2>10. P(u[i], n - i)
    BY <2>1, <2>6, <2>7, <2>8, <2>9
  <2> HIDE DEF P
  <2> QED
    BY <2>1, <2>10
<1>8. n \in S
  <2> HIDE DEF S
  <2>1. \A k \in 0 .. n : k \in S
    BY <1>1, <1>6, <1>7, InductUpto
  <2>2. n \in 0 .. n
    BY <1>1
  <2> QED
    BY <2>1, <2>2
<1>9. P(u[n], 0) /\ u[n] \in EnvTables
  <2>1. n - n = 0 /\ n \in 0 .. n
    BY <1>1
  <2> HIDE DEF P
  <2> QED
    BY <1>2, <1>8, <2>1
<1> QED
  BY <1>3, <1>9

-----------------------------------------------------------------------------
(* The invariant: one process of the chain, with its call *)

Calling == [req : Requests, pc : Pcs, saved : Stds, savedCwd : Dirs \cup {Root},
            restores : Seq(Overrides), opened : Seq(Entries), unread : Seq(Std),
            got : [Std -> Seq(Bytes)], log : [Std -> Seq(Bytes)],
            at : [std : Stds, cwd : Dirs \cup {Root}, open : SUBSET TableFds, vars : Variables]]

Processes == [std : Stds, cwd : Dirs \cup {Root}, env : EnvTables, call : {NoCall} \cup Calling,
              sink : [Std -> Nat], fresh : BOOLEAN]

\* The caller's context is still changed; the descriptors are still open.
Early   == {"env", "open", "wait", "reap"}
Holding == Early \cup {"read", "close"}

\* The cwd the child gets.
Dir(c) == IF c.req.cwd = None THEN c.at.cwd ELSE c.req.cwd

\* The overrides made so far, each with what it replaced, are all that has
\* changed in the environment since the call.
EnvPart(env, c) ==
    IF c.pc \in Early
      THEN /\ Len(c.restores) <= Len(c.req.env) /\ (c.pc # "env" => Len(c.restores) = Len(c.req.env))
           /\ \A j \in 1 .. Len(c.restores) :
                /\ c.restores[j].key = c.req.env[j].key /\ c.restores[j].key \notin BadKeys
                /\ env_overlay_has_key(env, c.restores[j].key)
                /\ c.restores[j].value = Overlaid(c.at.vars, c.req.env, j - 1)[c.restores[j].key]
           /\ \A k \in Keys : env_lookup(env, k) = Overlaid(c.at.vars, c.req.env, Len(c.restores))[k]
      ELSE \A k \in Keys : env_lookup(env, k) = c.at.vars[k]

CwdPart(cwd, c, D) ==
    /\ c.savedCwd = c.at.cwd
    /\ IF c.pc \in Early THEN cwd = Dir(c) ELSE cwd = c.at.cwd \/ c.at.cwd \notin D \cup {Root}

\* Command::status redirects while it opens, the others when everything is open.
Standing(c) == c.pc \in {"wait", "reap"} \/ (c.pc = "open" /\ c.req.api = "status")

StdPart(std, c) ==
    /\ c.saved = c.at.std
    /\ Len(c.opened) <= Len(Redirects(c.req))
    /\ \A i \in 1 .. Len(c.opened) : c.opened[i].stream = Redirects(c.req)[i].stream
    /\ c.pc = "env" => c.opened = <<>>
    /\ c.pc \in {"wait", "reap", "read", "close", "done"} => Len(c.opened) = Len(Redirects(c.req))
    /\ IF Standing(c) THEN Stood(std, c.at.std, c.opened)
       ELSE IF c.pc \in Early THEN std = c.at.std
       ELSE \A s \in Std : std[s] = c.at.std[s] \/ (IsBuiltin(c.req) /\ std[s] = s)

ProcGood(p, D) ==
    /\ KeysUnique(p.env)
    /\ p.call # NoCall => EnvPart(p.env, p.call) /\ CwdPart(p.cwd, p.call, D) /\ StdPart(p.std, p.call)

(* The chain and the tables *)

\* The descriptors a call holds, and the ones that were open before the call
\* of process d.
HeldNow(p)   == IF p.call # NoCall /\ p.call.pc \in Holding THEN HeldFds(p.call.opened) ELSE {}
Below(ch, d) == IF d = 1 THEN {} ELSE ch[d - 1].call.at.open \cup HeldFds(ch[d - 1].call.opened)

\* The standard descriptors a process was started with are of the right
\* direction, and their other ends are there.
UsableFd(t, s, fd) ==
    /\ fd \in Open(t)
    /\ t.fds[fd].kind \in (IF s = STDIN THEN {"PipeRead"} ELSE {"PipeWrite", "Pfs"})
    /\ t.fds[fd].kind # "Pfs" => t.pipes[t.fds[fd].pipe].read_open /\ t.pipes[t.fds[fd].pipe].write_open

OwnStd(p) == IF p.call = NoCall THEN p.std ELSE p.call.at.std
Inherits(t, B, std) == \A s \in Std : std[s] = s \/ (std[s] \in B /\ UsableFd(t, s, std[s]))

\* The descriptors of a call under way are its own.
EntriesGood(t, B, opened) ==
    /\ \A i \in 1 .. Len(opened) : EntryGood(t, opened[i])
    /\ Apart(opened) /\ HeldFds(opened) \cap B = {}

LinkGood(t, B, p) ==
    /\ Inherits(t, B, OwnStd(p))
    /\ p.call # NoCall => p.call.at.open = B /\ (p.call.pc \in Holding => EntriesGood(t, B, p.call.opened))

Chain(ch) ==
    /\ ch \in Seq(Processes) /\ Len(ch) <= MaxDepth
    /\ \A d \in 1 .. Len(ch) : /\ \A s \in Std : ch[d].sink[s] < d
                               /\ ch[d].call.pc = "wait" <=> d < Len(ch)
                               /\ ch[d].call # NoCall /\ IsBuiltin(ch[d].call.req) => d \in Shells

\* What an untouched child was given.
OwnVar(p, k) == IF p.call = NoCall THEN env_lookup(p.env, k) ELSE p.call.at.vars[k]
OwnCwd(p)    == IF p.call = NoCall THEN p.cwd ELSE p.call.at.cwd
FreshGood(c, p, D) ==
    p.fresh => /\ \A k \in Keys : OwnVar(p, k) = Overlaid(c.at.vars, c.req.env, Len(c.req.env))[k]
               /\ OwnCwd(p) = Dir(c) \/ Dir(c) \notin D \cup {Root}

Good(ch, t, D) ==
    /\ Chain(ch) /\ GoodTab(t)
    /\ \A d \in 1 .. Len(ch) : ProcGood(ch[d], D)
    /\ \A d \in 1 .. Len(ch) : LinkGood(t, Below(ch, d), ch[d])
    /\ \A d, e \in 1 .. Len(ch) : d <= e => Below(ch, d) \subseteq Below(ch, e)
    /\ \A d \in 1 .. Len(ch) - 1 : FreshGood(ch[d].call, ch[d + 1], D)
    /\ Open(t) = IF ch = <<>> THEN {} ELSE Below(ch, Len(ch)) \cup HeldNow(ch[Len(ch)])

Inv ==
    /\ Good(procs, tab, dirs)
    /\ content \in Contents /\ dirs \subseteq Dirs /\ budget \in 0 .. Budget


\* The types of a process and of a call, field by field.
LEMMA CallParts ==
  ASSUME NEW c \in Calling
  PROVE  /\ c.req \in Requests /\ c.pc \in Pcs /\ c.saved \in Stds /\ c.savedCwd \in Dirs \cup {Root}
         /\ c.restores \in Seq(Overrides) /\ c.opened \in Seq(Entries) /\ c.unread \in Seq(Std)
         /\ c.got \in [Std -> Seq(Bytes)] /\ c.log \in [Std -> Seq(Bytes)]
         /\ c.at.std \in Stds /\ c.at.cwd \in Dirs \cup {Root} /\ c.at.open \in SUBSET TableFds
         /\ c.at.vars \in Variables
         /\ c # NoCall
<1>1. c # NoCall
  <2>1. c.pc # "none"
    BY DEF Calling, Pcs
  <2> QED
    BY <2>1 DEF NoCall
<1> QED
  BY <1>1 DEF Calling

LEMMA ProcParts ==
  ASSUME NEW p \in Processes
  PROVE  /\ p.std \in Stds /\ p.cwd \in Dirs \cup {Root} /\ p.env \in EnvTables
         /\ p.call = NoCall \/ p.call \in Calling
         /\ p.sink \in [Std -> Nat] /\ p.fresh \in BOOLEAN
         /\ p.call = NoCall <=> p.call.pc = "none"
         /\ p.call.pc # "none" <=> p.call \in Calling
<1>1. p.call \in Calling => p.call.pc # "none"
  BY DEF Calling, Pcs
<1>2. p.call = NoCall \/ p.call \in Calling
  BY DEF Processes
<1> QED
  BY <1>1, <1>2 DEF Processes, NoCall

\* The chain with another last process.
SetTop(ch, p) == [ch EXCEPT ![Len(ch)] = p]

LEMMA SetTopFacts ==
  ASSUME NEW ch \in Seq(Processes), ch # <<>>, NEW p \in Processes
  PROVE  /\ SetTop(ch, p) \in Seq(Processes) /\ Len(SetTop(ch, p)) = Len(ch) /\ SetTop(ch, p) # <<>>
         /\ SetTop(ch, p)[Len(ch)] = p
         /\ \A d \in 1 .. Len(ch) - 1 : SetTop(ch, p)[d] = ch[d]
         /\ \A d \in 1 .. Len(ch) : Below(SetTop(ch, p), d) = Below(ch, d)
<1>1. Len(ch) \in Nat \ {0} /\ Len(ch) \in 1 .. Len(ch)
  OBVIOUS
<1>2. /\ SetTop(ch, p) \in Seq(Processes) /\ Len(SetTop(ch, p)) = Len(ch)
      /\ SetTop(ch, p)[Len(ch)] = p
      /\ \A d \in 1 .. Len(ch) - 1 : SetTop(ch, p)[d] = ch[d]
  BY <1>1 DEF SetTop
<1>3. SetTop(ch, p) # <<>>
  BY <1>1, <1>2
<1>4. ASSUME NEW d \in 1 .. Len(ch) PROVE Below(SetTop(ch, p), d) = Below(ch, d)
  <2>1. CASE d = 1
    BY <2>1 DEF Below
  <2>2. CASE d # 1
    <3>1. d - 1 \in 1 .. Len(ch) - 1
      BY <1>1, <2>2
    <3> QED
      BY <1>2, <2>2, <3>1 DEF Below
  <2> QED
    BY <2>1, <2>2
<1> QED
  BY <1>2, <1>3, <1>4

\* What is kept at a descriptor keeps a stream usable.
LEMMA UsableStays ==
  ASSUME NEW t \in Tabs, NEW u \in Tabs, NEW s \in Std, NEW fd, UsableFd(t, s, fd),
         NEW S, KeepsAt(t, u, S), fd \in S
  PROVE  UsableFd(u, s, fd)
<1>1. fd \in TableFds /\ SameHandle(t.fds[fd], u.fds[fd]) /\ fd \in Open(t)
  BY DEF KeepsAt, UsableFd
<1>2. t.fds[fd].kind # "Empty"
  BY <1>1, OpenIs
<1>3. u.fds[fd].kind = t.fds[fd].kind
  BY <1>1 DEF SameHandle
<1>4. fd \in Open(u)
  BY <1>1, <1>2, <1>3, OpenIs
<1>5. CASE t.fds[fd].kind = "Pfs"
  BY <1>3, <1>4, <1>5 DEF UsableFd
<1>6. CASE t.fds[fd].kind # "Pfs"
  <2>1. u.fds[fd] = t.fds[fd] /\ IsEnd(t.fds[fd])
    BY <1>1, <1>6 DEF SameHandle, UsableFd, IsEnd
  <2>2. SameFlags(t.pipes[t.fds[fd].pipe], u.pipes[t.fds[fd].pipe])
    BY <2>1 DEF KeepsAt
  <2> QED
    BY <1>4, <2>1, <2>2 DEF UsableFd, SameFlags
<1> QED
  BY <1>5, <1>6

LEMMA InheritsStays ==
  ASSUME NEW t \in Tabs, NEW u \in Tabs, NEW B, NEW S, KeepsAt(t, u, S), B \subseteq S,
         NEW std, Inherits(t, B, std)
  PROVE  Inherits(u, B, std)
<1> SUFFICES ASSUME NEW s \in Std, std[s] # s
             PROVE  std[s] \in B /\ UsableFd(u, s, std[s])
  BY DEF Inherits
<1>1. std[s] \in B /\ UsableFd(t, s, std[s]) /\ std[s] \in S
  BY DEF Inherits
<1> QED
  BY <1>1, UsableStays

LEMMA EntriesStay ==
  ASSUME NEW t, NEW u, NEW B, NEW S, KeepsAt(t, u, S),
         NEW opened \in Seq(Entries), HeldFds(opened) \subseteq S, EntriesGood(t, B, opened)
  PROVE  EntriesGood(u, B, opened)
<1> SUFFICES ASSUME NEW i \in 1 .. Len(opened) PROVE EntryGood(u, opened[i])
  BY DEF EntriesGood
<1>1. opened[i] \in Entries
  OBVIOUS
<1>2. Both(opened[i]) \subseteq HeldFds(opened)
  BY <1>1 DEF HeldFds, Both, Entries
<1>3. EntryGood(t, opened[i]) /\ Both(opened[i]) \subseteq S
  BY <1>2 DEF EntriesGood
<1> QED
  BY <1>1, <1>3, EntryStays

LEMMA LinkStays ==
  ASSUME NEW t \in Tabs, NEW u \in Tabs, NEW B, NEW S, KeepsAt(t, u, S),
         NEW p \in Processes, LinkGood(t, B, p), B \subseteq S, HeldNow(p) \subseteq S
  PROVE  LinkGood(u, B, p)
<1>1. Inherits(u, B, OwnStd(p))
  BY InheritsStays DEF LinkGood
<1>2. ASSUME p.call # NoCall, p.call.pc \in Holding PROVE EntriesGood(u, B, p.call.opened)
  <2>1. p.call.opened \in Seq(Entries)
    BY <1>2, ProcParts, CallParts
  <2>2. HeldFds(p.call.opened) \subseteq S
    BY <1>2 DEF HeldNow
  <2> QED
    BY <1>2, <2>1, <2>2, EntriesStay DEF LinkGood
<1> QED
  BY <1>1, <1>2 DEF LinkGood

\* What the last process was given survives the step, or it is not fresh.
FreshKept(q, p, D) ==
    p.fresh => /\ q.fresh
               /\ \A k \in Keys : OwnVar(p, k) = OwnVar(q, k)
               /\ OwnCwd(p) = OwnCwd(q) \/ OwnCwd(q) \notin D \cup {Root}

\* The invariant, part by part.
LEMMA GoodParts ==
  ASSUME NEW ch, NEW t, NEW D, Good(ch, t, D)
  PROVE  /\ Chain(ch) /\ GoodTab(t) /\ t \in Tabs
         /\ ch \in Seq(Processes) /\ Len(ch) \in Nat /\ Len(ch) <= MaxDepth
         /\ \A d \in 1 .. Len(ch) : ch[d] \in Processes /\ ProcGood(ch[d], D) /\ LinkGood(t, Below(ch, d), ch[d])
         /\ \A d \in 1 .. Len(ch) : /\ \A s \in Std : ch[d].sink[s] < d
                                    /\ ch[d].call.pc = "wait" <=> d < Len(ch)
                                    /\ ch[d].call # NoCall /\ IsBuiltin(ch[d].call.req) => d \in Shells
         /\ \A d, e \in 1 .. Len(ch) : d <= e => Below(ch, d) \subseteq Below(ch, e)
         /\ \A d \in 1 .. Len(ch) - 1 : FreshGood(ch[d].call, ch[d + 1], D)
         /\ ch = <<>> => Open(t) = {}
         /\ ch # <<>> => Open(t) = Below(ch, Len(ch)) \cup HeldNow(ch[Len(ch)])
<1>1. Chain(ch) /\ GoodTab(t)
  BY DEF Good
<1>2. ch \in Seq(Processes) /\ Len(ch) <= MaxDepth
  BY <1>1 DEF Chain
<1>3. \A d \in 1 .. Len(ch) : ch[d] \in Processes
  BY <1>2
<1> QED
  BY <1>1, <1>2, <1>3 DEF Good, Chain, GoodTab

\* A waiting process holds what lies below the next one.
LEMMA BelowNext ==
  ASSUME NEW ch, NEW t, NEW D, Good(ch, t, D), NEW d \in 1 .. Len(ch) - 1
  PROVE  /\ ch[d].call \in Calling /\ ch[d].call.pc = "wait" /\ d \in 1 .. Len(ch) /\ d + 1 \in 1 .. Len(ch)
         /\ ch[d].call.at.open = Below(ch, d)
         /\ HeldNow(ch[d]) = HeldFds(ch[d].call.opened)
         /\ Below(ch, d + 1) = Below(ch, d) \cup HeldNow(ch[d])
         /\ Below(ch, d) \cup HeldNow(ch[d]) \subseteq Below(ch, Len(ch))
<1>1. Len(ch) \in Nat /\ d \in 1 .. Len(ch) /\ d + 1 \in 1 .. Len(ch) /\ Len(ch) \in 1 .. Len(ch) /\ d < Len(ch)
      /\ d + 1 <= Len(ch) /\ d + 1 # 1 /\ (d + 1) - 1 = d
  BY GoodParts
<1>2. ch[d] \in Processes /\ ch[d].call.pc = "wait"
  BY <1>1, GoodParts
<1>3. ch[d].call \in Calling /\ ch[d].call # NoCall
  BY <1>2, ProcParts DEF NoCall
<1>4. LinkGood(t, Below(ch, d), ch[d])
  BY <1>1, GoodParts
<1>5. ch[d].call.at.open = Below(ch, d)
  BY <1>3, <1>4 DEF LinkGood
<1>6. HeldNow(ch[d]) = HeldFds(ch[d].call.opened)
  BY <1>2, <1>3 DEF HeldNow, Holding, Early
<1>7. Below(ch, d + 1) = Below(ch, d) \cup HeldNow(ch[d])
  BY <1>1, <1>5, <1>6 DEF Below
<1>8. Below(ch, d + 1) \subseteq Below(ch, Len(ch))
  BY <1>1, GoodParts
<1> QED
  BY <1>1, <1>2, <1>3, <1>5, <1>6, <1>7, <1>8

\* The last process takes a step that leaves alone what was open below it.
LEMMA TopChange ==
  ASSUME NEW ch, NEW t, NEW D, Good(ch, t, D), ch # <<>>, NEW p \in Processes, ProcGood(p, D),
         NEW u, GoodTab(u), KeepsAt(t, u, Below(ch, Len(ch))), LinkGood(u, Below(ch, Len(ch)), p),
         Open(u) = Below(ch, Len(ch)) \cup HeldNow(p),
         p.sink = ch[Len(ch)].sink, p.call.pc # "wait",
         p.call # NoCall /\ IsBuiltin(p.call.req) => Len(ch) \in Shells,
         FreshKept(ch[Len(ch)], p, D)
  PROVE  Good(SetTop(ch, p), u, D)
<1> DEFINE n == Len(ch)
           v == SetTop(ch, p)
           B == Below(ch, n)
<1>1. /\ ch \in Seq(Processes) /\ n \in Nat /\ n # 0 /\ n \in 1 .. n /\ n <= MaxDepth /\ t \in Tabs /\ u \in Tabs
      /\ \A d \in 1 .. n : d = n \/ d \in 1 .. n - 1
      /\ \A d \in 1 .. n - 1 : d \in 1 .. n /\ d < n /\ d # n
  BY GoodParts DEF GoodTab
<1>2. /\ v \in Seq(Processes) /\ Len(v) = n /\ v # <<>> /\ v[n] = p
      /\ \A d \in 1 .. n - 1 : v[d] = ch[d]
      /\ \A d \in 1 .. n : Below(v, d) = Below(ch, d)
  BY <1>1, SetTopFacts
<1> HIDE DEF v
<1>3. Chain(v)
  <2>1. ASSUME NEW d \in 1 .. n
        PROVE  /\ \A s \in Std : v[d].sink[s] < d
               /\ v[d].call.pc = "wait" <=> d < n
               /\ v[d].call # NoCall /\ IsBuiltin(v[d].call.req) => d \in Shells
    <3>1. CASE d = n
      BY <1>1, <1>2, <3>1, GoodParts
    <3>2. CASE d \in 1 .. n - 1
      BY <1>1, <1>2, <3>2, GoodParts
    <3> QED
      BY <1>1, <3>1, <3>2
  <2> QED
    BY <1>1, <1>2, <2>1 DEF Chain
<1>4. \A d \in 1 .. n : ProcGood(v[d], D)
  BY <1>1, <1>2, GoodParts
<1>5. ASSUME NEW d \in 1 .. n PROVE LinkGood(u, Below(v, d), v[d])
  <2>1. CASE d = n
    BY <1>2, <2>1
  <2>2. CASE d \in 1 .. n - 1
    <3>1. Below(ch, d) \subseteq B /\ HeldNow(ch[d]) \subseteq B
      BY <2>2, BelowNext
    <3>2. LinkGood(t, Below(ch, d), ch[d]) /\ ch[d] \in Processes
      BY GoodParts
    <3>3. LinkGood(u, Below(ch, d), ch[d])
      BY <1>1, <3>1, <3>2, LinkStays
    <3> QED
      BY <1>2, <2>2, <3>3
  <2> QED
    BY <1>1, <2>1, <2>2
<1>6. \A d, e \in 1 .. n : d <= e => Below(v, d) \subseteq Below(v, e)
  BY <1>2, GoodParts
<1>7. ASSUME NEW d \in 1 .. n - 1 PROVE FreshGood(v[d].call, v[d + 1], D)
  <2>1. FreshGood(ch[d].call, ch[d + 1], D) /\ v[d] = ch[d]
    BY <1>2, GoodParts
  <2>2. CASE d + 1 = n
    BY <1>2, <2>1, <2>2 DEF FreshGood, FreshKept
  <2>3. CASE d + 1 # n
    <3>1. d + 1 \in 1 .. n - 1
      BY <1>1, <2>3
    <3> QED
      BY <1>2, <2>1, <3>1
  <2> QED
    BY <2>2, <2>3
<1>8. Open(u) = Below(v, n) \cup HeldNow(v[n])
  BY <1>1, <1>2
<1> QED
  BY <1>1, <1>2, <1>3, <1>4, <1>5, <1>6, <1>7, <1>8 DEF Good, v

\* Bytes that move change nothing of the shape of the tables.
LEMMA ShapeChange ==
  ASSUME NEW ch, NEW t, NEW D, Good(ch, t, D), NEW u, GoodTab(u), SameShape(t, u)
  PROVE  Good(ch, u, D)
<1>1. t \in Tabs /\ u \in Tabs
  BY GoodParts DEF GoodTab
<1>2. Open(u) = Open(t) /\ KeepsAt(t, u, TableFds)
  BY <1>1, ShapeOpen, ShapeKeepsAt
<1>3. ASSUME NEW d \in 1 .. Len(ch) PROVE LinkGood(u, Below(ch, d), ch[d])
  <2>1. LinkGood(t, Below(ch, d), ch[d]) /\ ch[d] \in Processes
    BY GoodParts
  <2>2. HeldNow(ch[d]) \subseteq TableFds
    BY DEF HeldNow, HeldFds
  <2>3. Below(ch, d) \subseteq TableFds
    <3>1. Len(ch) \in Nat /\ Len(ch) \in 1 .. Len(ch) /\ d <= Len(ch) /\ ch # <<>>
      BY GoodParts
    <3>2. Below(ch, d) \subseteq Below(ch, Len(ch)) /\ Below(ch, Len(ch)) \subseteq Open(t)
      BY <3>1, GoodParts
    <3> QED
      BY <3>2 DEF Open
  <2> QED
    BY <1>1, <1>2, <2>1, <2>2, <2>3, LinkStays
<1> QED
  BY <1>2, <1>3 DEF Good

\* Processes that differ in the history of what went through their streams only;
\* the later one need not be fresh.
Similar(p, q) ==
    /\ q.std = p.std /\ q.cwd = p.cwd /\ q.env = p.env /\ q.sink = p.sink /\ (q.fresh => p.fresh)
    /\ p.call = NoCall <=> q.call = NoCall
    /\ q.call.pc = p.call.pc
    /\ p.call # NoCall => /\ q.call.req = p.call.req /\ q.call.saved = p.call.saved
                          /\ q.call.savedCwd = p.call.savedCwd /\ q.call.restores = p.call.restores
                          /\ q.call.opened = p.call.opened /\ q.call.at = p.call.at

LEMMA SimilarGood ==
  ASSUME NEW p, NEW q, Similar(p, q), NEW D, NEW t, NEW B
  PROVE  /\ ProcGood(p, D) => ProcGood(q, D)
         /\ LinkGood(t, B, p) => LinkGood(t, B, q)
         /\ HeldNow(q) = HeldNow(p)
         /\ OwnCwd(q) = OwnCwd(p) /\ \A k \in Keys : OwnVar(q, k) = OwnVar(p, k)
<1>1. ASSUME ProcGood(p, D) PROVE ProcGood(q, D)
  <2>1. CASE p.call = NoCall
    BY <1>1, <2>1 DEF ProcGood, Similar
  <2>2. CASE p.call # NoCall
    <3> DEFINE b == p.call
               c == q.call
    <3>1. /\ c # NoCall /\ c.pc = b.pc /\ c.req = b.req /\ c.saved = b.saved /\ c.savedCwd = b.savedCwd
          /\ c.restores = b.restores /\ c.opened = b.opened /\ c.at = b.at
      BY <2>2 DEF Similar
    <3>2. KeysUnique(p.env) /\ EnvPart(p.env, b) /\ CwdPart(p.cwd, b, D) /\ StdPart(p.std, b)
      BY <1>1, <2>2 DEF ProcGood
    <3> HIDE DEF b, c
    <3>3. EnvPart(p.env, c)
      BY <3>1, <3>2 DEF EnvPart
    <3>4. CwdPart(p.cwd, c, D)
      BY <3>1, <3>2 DEF CwdPart, Dir
    <3>5. StdPart(p.std, c)
      <4>1. Standing(c) <=> Standing(b)
        BY <3>1 DEF Standing
      <4> QED
        BY <3>1, <3>2, <4>1 DEF StdPart
    <3>6. KeysUnique(p.env) /\ EnvPart(p.env, q.call) /\ CwdPart(p.cwd, q.call, D) /\ StdPart(p.std, q.call)
      BY <3>2, <3>3, <3>4, <3>5 DEF c
    <3> QED
      BY <3>6 DEF ProcGood, Similar
  <2> QED
    BY <2>1, <2>2
<1>2. OwnStd(q) = OwnStd(p) /\ HeldNow(q) = HeldNow(p) /\ OwnCwd(q) = OwnCwd(p) /\ \A k \in Keys : OwnVar(q, k) = OwnVar(p, k)
  BY DEF Similar, OwnStd, HeldNow, OwnCwd, OwnVar
<1>3. LinkGood(t, B, p) => LinkGood(t, B, q)
  BY <1>2 DEF LinkGood, Similar
<1> QED
  BY <1>1, <1>2, <1>3

\* Bytes that are logged, and directories made or removed while the last process
\* computes.
LEMMA SimilarChange ==
  ASSUME NEW ch, NEW t, NEW D, Good(ch, t, D), NEW v \in Seq(Processes), Len(v) = Len(ch),
         \A d \in 1 .. Len(ch) : Similar(ch[d], v[d]),
         NEW E, E = D \/ (ch # <<>> /\ ch[Len(ch)].call = NoCall /\ \A d \in 1 .. Len(ch) : ~v[d].fresh)
  PROVE  Good(v, t, E)
<1> DEFINE n == Len(ch)
<1>1. ch \in Seq(Processes) /\ n \in Nat
  BY GoodParts
<1>2. \A d \in 1 .. n : ProcGood(ch[d], D) /\ LinkGood(t, Below(ch, d), ch[d])
  BY GoodParts
<1>3. ASSUME NEW d \in 1 .. n PROVE Below(v, d) = Below(ch, d)
  <2>1. CASE d = 1
    BY <2>1 DEF Below
  <2>2. CASE d # 1
    <3>1. d - 1 \in 1 .. n - 1 /\ d - 1 \in 1 .. n
      BY <1>1, <2>2
    <3>2. ch[d - 1].call # NoCall
      BY <3>1, BelowNext, CallParts
    <3> QED
      BY <2>2, <3>1, <3>2 DEF Below, Similar
  <2> QED
    BY <2>1, <2>2
<1>4. Chain(v)
  <2>1. \A d \in 1 .. n : /\ v[d].sink = ch[d].sink /\ v[d].call.pc = ch[d].call.pc
                          /\ v[d].call # NoCall => ch[d].call # NoCall /\ v[d].call.req = ch[d].call.req
    BY DEF Similar
  <2> QED
    BY <1>1, <2>1, GoodParts DEF Chain
<1>5. ASSUME NEW d \in 1 .. n PROVE ProcGood(v[d], E)
  <2>1. ProcGood(v[d], D)
    BY <1>2, SimilarGood
  <2>2. CASE E = D
    BY <2>1, <2>2
  <2>3. CASE ch # <<>> /\ ch[n].call = NoCall
    <3>1. v[d].call = NoCall \/ v[d].call.pc = "wait"
      <4>1. CASE d = n
        BY <2>3, <4>1 DEF Similar
      <4>2. CASE d # n
        <5>1. d \in 1 .. n - 1
          BY <1>1, <4>2
        <5>2. ch[d].call.pc = "wait"
          BY <5>1, BelowNext
        <5> QED
          BY <5>2 DEF Similar
      <4> QED
        BY <4>1, <4>2
    <3> QED
      BY <2>1, <3>1 DEF ProcGood, CwdPart, Early
  <2> QED
    BY <2>2, <2>3
<1>6. \A d \in 1 .. n : LinkGood(t, Below(v, d), v[d])
  BY <1>2, <1>3, SimilarGood
<1>7. \A d, e \in 1 .. n : d <= e => Below(v, d) \subseteq Below(v, e)
  BY <1>3, GoodParts
<1>8. ASSUME NEW d \in 1 .. n - 1 PROVE FreshGood(v[d].call, v[d + 1], E)
  <2>1. d \in 1 .. n /\ d + 1 \in 1 .. n /\ ch[d].call # NoCall
    BY BelowNext, CallParts
  <2>2. FreshGood(ch[d].call, ch[d + 1], D)
    BY GoodParts
  <2>3. CASE ~v[d + 1].fresh
    BY <2>3 DEF FreshGood
  <2>4. CASE v[d + 1].fresh
    <3>1. E = D /\ ch[d + 1].fresh
      BY <2>1, <2>4 DEF Similar
    <3>2. OwnCwd(v[d + 1]) = OwnCwd(ch[d + 1]) /\ \A k \in Keys : OwnVar(v[d + 1], k) = OwnVar(ch[d + 1], k)
      BY <2>1, SimilarGood
    <3>3. v[d].call.req = ch[d].call.req /\ v[d].call.at = ch[d].call.at
      BY <2>1 DEF Similar
    <3> QED
      BY <2>2, <3>1, <3>2, <3>3 DEF FreshGood, Dir
  <2> QED
    BY <2>3, <2>4
<1>9. Open(t) = IF v = <<>> THEN {} ELSE Below(v, n) \cup HeldNow(v[n])
  <2>1. CASE ch = <<>>
    <3>1. v = <<>>
      BY <2>1
    <3> QED
      BY <2>1, <3>1, GoodParts
  <2>2. CASE ch # <<>>
    <3>1. v # <<>> /\ n \in 1 .. n
      BY <1>1, <2>2
    <3>2. HeldNow(v[n]) = HeldNow(ch[n]) /\ Below(v, n) = Below(ch, n)
      BY <1>3, <3>1, SimilarGood
    <3> QED
      BY <2>2, <3>1, <3>2, GoodParts
  <2> QED
    BY <2>1, <2>2
<1>10. GoodTab(t)
  BY GoodParts
<1> QED
  BY <1>4, <1>5, <1>6, <1>7, <1>8, <1>9, <1>10 DEF Good

-----------------------------------------------------------------------------
(* Kinds of steps of the last process *)

\* The chain with bytes added to the history of one call.
Logged(ch, d, s, data) == [ch EXCEPT ![d].call.log[s] = @ \o data]
Longer(log, s, data)   == [log EXCEPT ![s] = @ \o data]

LEMMA LoggedFacts ==
  ASSUME NEW ch \in Seq(Processes), NEW d \in 1 .. Len(ch), ch[d].call \in Calling, NEW s \in Std, NEW data \in Seq(Bytes)
  PROVE  /\ Logged(ch, d, s, data) \in Seq(Processes) /\ Len(Logged(ch, d, s, data)) = Len(ch)
         /\ \A e \in 1 .. Len(ch) : Similar(ch[e], Logged(ch, d, s, data)[e])
         /\ \A e \in 1 .. Len(ch) : e # d => Logged(ch, d, s, data)[e] = ch[e]
         /\ Logged(ch, d, s, data)[d].call.log = Longer(ch[d].call.log, s, data)
         /\ Logged(ch, d, s, data)[d].call.got = ch[d].call.got
         /\ Logged(ch, d, s, data)[d].call.unread = ch[d].call.unread
<1> DEFINE p == ch[d]
           c == p.call
           log == [c.log EXCEPT ![s] = @ \o data]
           b == [c EXCEPT !.log = log]
           q == [p EXCEPT !.call = b]
           v == Logged(ch, d, s, data)
<1>1. p \in Processes /\ c \in Calling /\ c.log \in [Std -> Seq(Bytes)]
  BY CallParts
<1>2. log \in [Std -> Seq(Bytes)]
  <2>1. c.log[s] \o data \in Seq(Bytes)
    BY <1>1
  <2> QED
    BY <1>1, <2>1
<1>3. v = [ch EXCEPT ![d] = q]
  BY DEF Logged
<1> HIDE DEF log
<1>4. b \in Calling /\ b.pc = c.pc /\ b.req = c.req /\ b.saved = c.saved /\ b.savedCwd = c.savedCwd
      /\ b.restores = c.restores /\ b.opened = c.opened /\ b.at = c.at /\ b.log = log
      /\ b.got = c.got /\ b.unread = c.unread
  BY <1>1, <1>2 DEF Calling
<1> HIDE DEF b
<1>5. q \in Processes /\ q.call = b /\ q.std = p.std /\ q.cwd = p.cwd /\ q.env = p.env /\ q.sink = p.sink /\ q.fresh = p.fresh
  BY <1>1, <1>4 DEF Processes
<1> HIDE DEF q
<1>6. Similar(p, q)
  BY <1>1, <1>4, <1>5, CallParts DEF Similar
<1> HIDE DEF v
<1>7. v \in Seq(Processes) /\ Len(v) = Len(ch) /\ v[d] = q /\ \A e \in 1 .. Len(ch) : e # d => v[e] = ch[e]
  BY <1>3, <1>5
<1>8. \A e \in 1 .. Len(ch) : Similar(ch[e], ch[e])
  BY DEF Similar
<1> QED
  BY <1>4, <1>5, <1>6, <1>7, <1>8 DEF v, log, Longer

LEMMA WrittenFacts ==
  ASSUME NEW ch, NEW t, NEW D, Good(ch, t, D), ch # <<>>, NEW s \in Std, NEW data \in Seq(Bytes)
  PROVE  Good(Written(ch, s, data), t, D)
<1> DEFINE n == Len(ch)
           d == ch[n].sink[s]
<1>1. ch \in Seq(Processes) /\ n \in Nat /\ n \in 1 .. n /\ ch[n] \in Processes
  BY GoodParts
<1>2. d \in Nat /\ d < n
  BY <1>1, GoodParts, ProcParts
<1>3. Last(ch) = ch[n]
  BY DEF Last
<1> HIDE DEF d, n
<1>4. CASE d = 0
  BY <1>3, <1>4 DEF Written, d
<1>5. CASE d # 0
  <2>1. d \in 1 .. n - 1 /\ d \in 1 .. n
    BY <1>1, <1>2, <1>5
  <2>2. ch[d].call \in Calling
    BY <2>1, BelowNext DEF n
  <2>3. Written(ch, s, data) = Logged(ch, d, s, data)
    BY <1>3, <1>5 DEF Written, Logged, d
  <2> DEFINE v == Logged(ch, d, s, data)
  <2>4. v \in Seq(Processes) /\ Len(v) = Len(ch) /\ \A e \in 1 .. Len(ch) : Similar(ch[e], v[e])
    <3>1. ch \in Seq(Processes) /\ d \in 1 .. Len(ch)
      BY <1>1, <2>1 DEF n
    <3> QED
      BY <2>2, <3>1, LoggedFacts
  <2> HIDE DEF v
  <2>5. Good(v, t, D)
    BY <2>4, SimilarChange
  <2> QED
    BY <2>3, <2>5 DEF v
<1> QED
  BY <1>4, <1>5

LEMMA SayFacts ==
  ASSUME NEW ch, NEW D, Good(ch, tab, D), ch # <<>>, content \in Contents, NEW s \in Std, NEW data \in Seq(Bytes),
         Say(ch, s, data)
  PROVE  Good(procs', tab', D) /\ content' \in Contents
<1> DEFINE w == abi_write_fd(tab, content, Last(ch).std[s], data)
<1>1. procs' = Written(ch, s, data) /\ tab' = w.tab /\ content' = w.content
  BY DEF Say
<1>2. GoodTab(tab) /\ Last(ch).std[s] \in Std \cup TableFds
  <2>1. Last(ch) = ch[Len(ch)] /\ Len(ch) \in 1 .. Len(ch)
    BY GoodParts DEF Last
  <2>2. Last(ch) \in Processes
    BY <2>1, GoodParts
  <2>3. Last(ch).std \in Stds
    BY <2>2, ProcParts
  <2> QED
    BY <2>3, GoodParts DEF Stds
<1>3. GoodTab(w.tab) /\ SameShape(tab, w.tab) /\ w.content \in Contents
  BY <1>2, WriteFacts
<1> HIDE DEF w
<1>4. Good(procs', tab, D)
  BY <1>1, WrittenFacts
<1> QED
  BY <1>1, <1>3, <1>4, ShapeChange

\* The last process goes on in its call; the tables stay.
LEMMA TopOnly ==
  ASSUME NEW ch, NEW t, NEW D, Good(ch, t, D), ch # <<>>, ch[Len(ch)].call \in Calling,
         NEW p \in Processes, ProcGood(p, D), p.call \in Calling,
         p.call.at = ch[Len(ch)].call.at, p.call.opened = ch[Len(ch)].call.opened, p.call.req = ch[Len(ch)].call.req,
         p.call.pc \in Holding, ch[Len(ch)].call.pc \in Holding, p.call.pc # "wait",
         p.sink = ch[Len(ch)].sink, p.fresh = ch[Len(ch)].fresh
  PROVE  Good(SetTop(ch, p), t, D)
<1> DEFINE n == Len(ch)
           q == ch[n]
           B == Below(ch, n)
<1>1. n \in 1 .. n /\ GoodTab(t) /\ t \in Tabs /\ q \in Processes /\ Open(t) = B \cup HeldNow(q) /\ LinkGood(t, B, q)
  BY GoodParts
<1>2. q.call # NoCall /\ p.call # NoCall
  BY CallParts
<1>3. HeldNow(p) = HeldNow(q) /\ OwnStd(p) = OwnStd(q) /\ OwnCwd(p) = OwnCwd(q) /\ \A k \in Keys : OwnVar(p, k) = OwnVar(q, k)
  BY <1>2 DEF HeldNow, OwnStd, OwnCwd, OwnVar
<1>4. LinkGood(t, B, p)
  BY <1>1, <1>2, <1>3 DEF LinkGood
<1>5. KeepsAt(t, t, B)
  <2>1. B \subseteq TableFds
    BY <1>1 DEF Open
  <2> QED
    BY <1>1, <2>1, ShapeRefl, ShapeKeepsAt
<1>6. FreshKept(q, p, D)
  BY <1>3 DEF FreshKept
<1>7. IsBuiltin(p.call.req) => n \in Shells
  BY <1>1, <1>2, GoodParts
<1> QED
  BY <1>1, <1>3, <1>4, <1>5, <1>6, <1>7, TopChange

\* The last process changes its own context.
LEMMA TopIdle ==
  ASSUME NEW ch, NEW t, NEW D, Good(ch, t, D), ch # <<>>, ch[Len(ch)].call = NoCall,
         NEW p \in Processes, ProcGood(p, D), p.call = NoCall, p.std = ch[Len(ch)].std,
         p.sink = ch[Len(ch)].sink, ~p.fresh
  PROVE  Good(SetTop(ch, p), t, D)
<1> DEFINE n == Len(ch)
           q == ch[n]
           B == Below(ch, n)
<1>1. n \in 1 .. n /\ GoodTab(t) /\ t \in Tabs /\ q \in Processes /\ Open(t) = B \cup HeldNow(q) /\ LinkGood(t, B, q)
  BY GoodParts
<1>2. HeldNow(p) = HeldNow(q) /\ OwnStd(p) = OwnStd(q)
  BY DEF HeldNow, OwnStd
<1>3. LinkGood(t, B, p)
  BY <1>1, <1>2 DEF LinkGood
<1>4. KeepsAt(t, t, B)
  <2>1. B \subseteq TableFds
    BY <1>1 DEF Open
  <2> QED
    BY <1>1, <2>1, ShapeRefl, ShapeKeepsAt
<1>5. FreshKept(q, p, D) /\ p.call.pc # "wait"
  BY DEF FreshKept, NoCall
<1> QED
  BY <1>1, <1>2, <1>3, <1>4, <1>5, TopChange

\* The last process closes what it opened.
LEMMA TopCloses ==
  ASSUME NEW ch, NEW t, NEW D, Good(ch, t, D), ch # <<>>, ch[Len(ch)].call \in Calling,
         NEW p \in Processes, ProcGood(p, D), p.call \in Calling,
         p.call.at = ch[Len(ch)].call.at, p.call.req = ch[Len(ch)].call.req,
         p.call.pc \in {"done", "failed"}, ch[Len(ch)].call.pc \in Holding,
         p.sink = ch[Len(ch)].sink, p.fresh = ch[Len(ch)].fresh
  PROVE  Good(SetTop(ch, p), close_many(t, ch[Len(ch)].call.opened), D)
<1> DEFINE n == Len(ch)
           q == ch[n]
           B == Below(ch, n)
           o == q.call.opened
           u == close_many(t, o)
<1>1. n \in 1 .. n /\ GoodTab(t) /\ t \in Tabs /\ q \in Processes /\ Open(t) = B \cup HeldNow(q) /\ LinkGood(t, B, q)
  BY GoodParts
<1>2. q.call # NoCall /\ p.call # NoCall /\ o \in Seq(Entries)
  BY CallParts
<1>3. HeldNow(q) = HeldFds(o) /\ EntriesGood(t, B, o)
  BY <1>1, <1>2 DEF HeldNow, LinkGood
<1>4. Apart(o) /\ HeldFds(o) \cap B = {} /\ \A i \in 1 .. Len(o) : EntryGood(t, o[i])
  BY <1>3 DEF EntriesGood
<1>5. GoodTab(u) /\ Open(u) = Open(t) \ HeldFds(o) /\ ExactAt(t, u, TableFds \ HeldFds(o))
  BY <1>1, <1>2, <1>4, CloseManyFacts
<1> HIDE DEF u
<1>6. B \subseteq TableFds \ HeldFds(o)
  BY <1>1, <1>4 DEF Open
<1>7. KeepsAt(t, u, B)
  <2>1. ExactAt(t, u, B)
    BY <1>5, <1>6 DEF ExactAt
  <2> QED
    BY <2>1, ExactKeeps
<1>8. OwnStd(p) = OwnStd(q) /\ OwnCwd(p) = OwnCwd(q) /\ \A k \in Keys : OwnVar(p, k) = OwnVar(q, k)
  BY <1>2 DEF OwnStd, OwnCwd, OwnVar
<1>9. LinkGood(u, B, p)
  <2>1. Inherits(u, B, OwnStd(q))
    <3>1. u \in Tabs /\ Inherits(t, B, OwnStd(q))
      BY <1>1, <1>5 DEF GoodTab, LinkGood
    <3> QED
      BY <1>1, <1>7, <3>1, InheritsStays
  <2>2. p.call.pc \notin Holding
    BY DEF Holding, Early
  <2> QED
    BY <1>1, <1>2, <1>8, <2>1, <2>2 DEF LinkGood
<1>10. Open(u) = B \cup HeldNow(p)
  <2>1. HeldNow(p) = {}
    BY DEF HeldNow, Holding, Early
  <2> QED
    BY <1>1, <1>3, <1>4, <1>5, <2>1
<1>11. FreshKept(q, p, D) /\ p.call.pc # "wait"
  BY <1>8 DEF FreshKept
<1>12. IsBuiltin(p.call.req) => n \in Shells
  BY <1>1, <1>2, GoodParts
<1>13. Good(SetTop(ch, p), u, D)
  BY <1>1, <1>5, <1>7, <1>9, <1>10, <1>11, <1>12, TopChange
<1> QED
  BY <1>13 DEF u

-----------------------------------------------------------------------------
(* Requests *)

LEMMA RequestParts ==
  ASSUME NEW req \in Requests
  PROVE  /\ req.api \in {"output", "status", "spawnredir", "spawnstdin", "spawnio", "spawnioe"}
         /\ req.stdin \in Seq(Bytes) /\ req.cwd \in Dirs \cup {Root, None} /\ req.env \in Seq(Overrides)
         /\ req.out \in Files \cup {None} /\ req.err \in Files \cup {None}
         /\ IsBuiltin(req) => req.cwd = None /\ req.env = <<>>
         /\ req.api # "status" => req.out = None /\ req.err = None
<1>1. DOMAIN Apis = {"output", "status", "spawnredir", "spawnstdin", "spawnio", "spawnioe"}
  BY DEF Apis
<1> QED
  BY <1>1, CommandAssumption

\* What the files and the pipes of a request are.
Redirections == [stream : Std, file : Files \cup {None}]

PipeTo(s)    == [stream |-> s, file |-> None]
FileTo(s, f) == IF f = None THEN <<>> ELSE <<[stream |-> s, file |-> f]>>

\* The pipes each caller makes and the ones it reads.
LEMMA ApiPipes ==
  ASSUME NEW req \in Requests
  PROVE  LET pipes == Apis[req.api].pipes
             reads == Apis[req.api].reads
         IN  /\ pipes \in {<<0, 1, 2>>, <<0>>, <<1>>, <<0, 1>>}
             /\ reads \in {<<1, 2>>, <<1>>, <<>>}
             /\ reads = <<1, 2>> => pipes = <<0, 1, 2>>
             /\ reads = <<1>> => pipes = <<1>> \/ pipes = <<0, 1>>
             /\ req.api = "status" => pipes = <<0>> /\ reads = <<>>
<1>1. CASE req.api = "output"
  BY <1>1 DEF Apis, run_command_output, STDIN, STDOUT, STDERR
<1>2. CASE req.api = "status"
  BY <1>2 DEF Apis, run_command_status, STDIN, STDOUT, STDERR
<1>3. CASE req.api = "spawnredir"
  BY <1>3 DEF Apis, spawn_redir, STDIN, STDOUT, STDERR
<1>4. CASE req.api = "spawnstdin"
  BY <1>4 DEF Apis, spawn_stdin, STDIN, STDOUT, STDERR
<1>5. CASE req.api = "spawnio"
  BY <1>5 DEF Apis, spawn_io, STDIN, STDOUT, STDERR
<1>6. CASE req.api = "spawnioe"
  BY <1>6, SMTT(30) DEF Apis, spawn_io_err, STDIN, STDOUT, STDERR
<1> QED
  BY <1>1, <1>2, <1>3, <1>4, <1>5, <1>6, RequestParts

LEMMA PipeStreams ==
  ASSUME NEW pipes \in {<<0, 1, 2>>, << 0 >>, << 1 >>, <<0, 1>>}
  PROVE  /\ pipes \in Seq(Std) /\ Len(pipes) \in Nat
         /\ \A i, j \in 1 .. Len(pipes) : pipes[i] = pipes[j] => i = j
         /\ \A i \in 1 .. Len(pipes) : pipes[i] \in Std
<1>1. CASE pipes = <<0, 1, 2>>
  <2>1. Len(pipes) = 3 /\ pipes[1] = 0 /\ pipes[2] = 1 /\ pipes[3] = 2 /\ pipes \in Seq({0, 1, 2})
    BY <1>1
  <2> QED
    BY <2>1 DEF Std
<1>2. CASE pipes = <<0>>
  <2>1. Len(pipes) = 1 /\ pipes[1] = 0 /\ pipes \in Seq({0, 1, 2})
    BY <1>2
  <2> QED
    BY <2>1 DEF Std
<1>3. CASE pipes = <<1>>
  <2>1. Len(pipes) = 1 /\ pipes[1] = 1 /\ pipes \in Seq({0, 1, 2})
    BY <1>3
  <2> QED
    BY <2>1 DEF Std
<1>4. CASE pipes = <<0, 1>>
  <2>1. Len(pipes) = 2 /\ pipes[1] = 0 /\ pipes[2] = 1 /\ pipes \in Seq({0, 1, 2})
    BY <1>4
  <2> QED
    BY <2>1 DEF Std
<1> QED
  BY <1>1, <1>2, <1>3, <1>4

LEMMA Singleton ==
  ASSUME NEW S, NEW x \in S
  PROVE  /\ <<x>> \in Seq(S) /\ Len(<<x>>) = 1 /\ <<x>>[1] = x
         /\ <<>> \in Seq(S) /\ Len(<<>>) = 0
  OBVIOUS

LEMMA PipeOnly ==
  ASSUME NEW req \in Requests, req.api # "status"
  PROVE  /\ Len(Redirects(req)) = Len(Apis[req.api].pipes)
         /\ \A i \in 1 .. Len(Redirects(req)) : Redirects(req)[i] = PipeTo(Apis[req.api].pipes[i])
         /\ Redirects(req) \in Seq(Redirections)
<1> DEFINE pipes == Apis[req.api].pipes
           r == [i \in DOMAIN pipes |-> PipeTo(pipes[i])]
<1>1. req.out = None /\ req.err = None
  BY RequestParts
<1>2. Redirects(req) = (r \o <<>>) \o <<>>
  BY <1>1 DEF Redirects, PipeTo
<1>3. pipes \in Seq(Std)
  BY ApiPipes, PipeStreams
<1> HIDE DEF pipes
<1>4. Len(pipes) \in Nat /\ DOMAIN pipes = 1 .. Len(pipes) /\ \A i \in 1 .. Len(pipes) : pipes[i] \in Std
  BY <1>3
<1>5. \A i \in 1 .. Len(pipes) : PipeTo(pipes[i]) \in Redirections
  BY <1>4 DEF PipeTo, Redirections
<1>6. r \in Seq(Redirections) /\ Len(r) = Len(pipes) /\ \A i \in 1 .. Len(pipes) : r[i] = PipeTo(pipes[i])
  BY <1>4, <1>5
<1> HIDE DEF r
<1>7. r \o <<>> = r
  BY <1>6
<1>8. Redirects(req) = r
  BY <1>2, <1>7
<1> QED
  BY <1>6, <1>8 DEF pipes

LEMMA StatusStreams ==
  ASSUME NEW req \in Requests, req.api = "status"
  PROVE  \E a \in {<<>>, <<PipeTo(STDIN)>>} :
           Redirects(req) = (a \o FileTo(STDOUT, req.out)) \o FileTo(STDERR, req.err)
<1> DEFINE pipes == Apis[req.api].pipes
           a == IF req.stdin = <<>> THEN <<>> ELSE [i \in DOMAIN pipes |-> PipeTo(pipes[i])]
<1>1. pipes = <<STDIN>>
  BY DEF Apis, run_command_status
<1>2. [i \in DOMAIN pipes |-> PipeTo(pipes[i])] = <<PipeTo(STDIN)>>
  <2>1. DOMAIN pipes = {1} /\ pipes[1] = STDIN
    BY <1>1
  <2> QED
    BY <2>1
<1>3. a \in {<<>>, <<PipeTo(STDIN)>>}
  BY <1>2
<1>4. Redirects(req) = (a \o FileTo(STDOUT, req.out)) \o FileTo(STDERR, req.err)
  BY DEF Redirects, PipeTo, FileTo
<1> QED
  BY <1>3, <1>4

\* Every stream is redirected at most once, standard input never to a file.
LEMMA RedirectsFacts ==
  ASSUME NEW req \in Requests
  PROVE  /\ Redirects(req) \in Seq(Redirections)
         /\ \A i, j \in 1 .. Len(Redirects(req)) : Redirects(req)[i].stream = Redirects(req)[j].stream => i = j
         /\ \A i \in 1 .. Len(Redirects(req)) :
              /\ Redirects(req)[i].stream \in Std /\ Redirects(req)[i].file \in Files \cup {None}
              /\ Redirects(req)[i].stream = STDIN => Redirects(req)[i].file = None
              /\ req.api # "status" => Redirects(req)[i].file = None
<1>1. CASE req.api # "status"
  <2> DEFINE pipes == Apis[req.api].pipes
             r == Redirects(req)
  <2>1. Len(r) = Len(pipes) /\ r \in Seq(Redirections) /\ \A i \in 1 .. Len(r) : r[i] = PipeTo(pipes[i])
    BY <1>1, PipeOnly
  <2>2. /\ Len(pipes) \in Nat
        /\ \A i, j \in 1 .. Len(pipes) : pipes[i] = pipes[j] => i = j
        /\ \A i \in 1 .. Len(pipes) : pipes[i] \in Std
    <3>1. pipes \in {<<0, 1, 2>>, <<0>>, <<1>>, <<0, 1>>}
      BY ApiPipes
    <3> HIDE DEF pipes
    <3> QED
      BY <3>1, PipeStreams
  <2> HIDE DEF pipes, r
  <2>3. ASSUME NEW i \in 1 .. Len(r) PROVE r[i].stream = pipes[i] /\ r[i].file = None
    <3>1. r[i] = PipeTo(pipes[i])
      BY <2>1
    <3> QED
      BY <3>1 DEF PipeTo
  <2> QED
    BY <1>1, <2>1, <2>2, <2>3 DEF r
<1>2. CASE req.api = "status"
  <2>1. PICK a \in {<<>>, <<PipeTo(STDIN)>>} : Redirects(req) = (a \o FileTo(STDOUT, req.out)) \o FileTo(STDERR, req.err)
    BY <1>2, StatusStreams
  <2> DEFINE b == FileTo(STDOUT, req.out)
             c == FileTo(STDERR, req.err)
             r == Redirects(req)
  <2>2. req.out \in Files \cup {None} /\ req.err \in Files \cup {None} /\ STDIN \in Std /\ STDOUT \in Std /\ STDERR \in Std
        /\ STDIN # STDOUT /\ STDIN # STDERR /\ STDOUT # STDERR
    BY RequestParts DEF STDIN, STDOUT, STDERR, Std
  <2>3. a \in Seq(Redirections) /\ Len(a) \in 0 .. 1 /\ \A i \in 1 .. Len(a) : i = 1 /\ a[i].stream = STDIN /\ a[i].file = None
    <3>1. PipeTo(STDIN) \in Redirections /\ PipeTo(STDIN).stream = STDIN /\ PipeTo(STDIN).file = None
      BY <2>2 DEF PipeTo, Redirections
    <3>2. CASE a = <<>>
      BY <3>1, <3>2, Singleton
    <3>3. CASE a = <<PipeTo(STDIN)>>
      <4>1. a \in Seq(Redirections) /\ Len(a) = 1 /\ a[1] = PipeTo(STDIN)
        BY <3>1, <3>3, Singleton
      <4> QED
        BY <3>1, <4>1
    <3> QED
      BY <3>2, <3>3
  <2>4. b \in Seq(Redirections) /\ Len(b) \in 0 .. 1 /\ \A i \in 1 .. Len(b) : i = 1 /\ b[i].stream = STDOUT /\ b[i].file = req.out
    <3>1. CASE req.out = None
      <4>1. b = <<>>
        BY <3>1 DEF FileTo
      <4> QED
        BY <4>1
    <3>2. CASE req.out # None
      <4> DEFINE x == [stream |-> STDOUT, file |-> req.out]
      <4>1. b = <<x>> /\ x \in Redirections /\ x.stream = STDOUT /\ x.file = req.out
        BY <2>2, <3>2 DEF FileTo, Redirections
      <4> HIDE DEF x
      <4>2. b \in Seq(Redirections) /\ Len(b) = 1 /\ b[1] = x
        BY <4>1, Singleton
      <4> HIDE DEF b
      <4> QED
        BY <4>1, <4>2
    <3> QED
      BY <3>1, <3>2
  <2>5. c \in Seq(Redirections) /\ Len(c) \in 0 .. 1 /\ \A i \in 1 .. Len(c) : i = 1 /\ c[i].stream = STDERR /\ c[i].file = req.err
    <3>1. CASE req.err = None
      <4>1. c = <<>>
        BY <3>1 DEF FileTo
      <4> QED
        BY <4>1
    <3>2. CASE req.err # None
      <4> DEFINE x == [stream |-> STDERR, file |-> req.err]
      <4>1. c = <<x>> /\ x \in Redirections /\ x.stream = STDERR /\ x.file = req.err
        BY <2>2, <3>2 DEF FileTo, Redirections
      <4> HIDE DEF x
      <4>2. c \in Seq(Redirections) /\ Len(c) = 1 /\ c[1] = x
        BY <4>1, Singleton
      <4> HIDE DEF c
      <4> QED
        BY <4>1, <4>2
    <3> QED
      BY <3>1, <3>2
  <2> DEFINE ab == a \o b
  <2>6. r = ab \o c
    BY <2>1
  <2> HIDE DEF b, c, r
  <2>7. ab \in Seq(Redirections) /\ Len(ab) = Len(a) + Len(b) /\ Len(ab) \in Nat
        /\ \A i \in 1 .. Len(ab) : ab[i] = IF i <= Len(a) THEN a[i] ELSE b[i - Len(a)]
    BY <2>3, <2>4
  <2> HIDE DEF ab
  <2>8. r \in Seq(Redirections) /\ Len(r) = Len(ab) + Len(c)
        /\ \A i \in 1 .. Len(r) : r[i] = IF i <= Len(ab) THEN ab[i] ELSE c[i - Len(ab)]
    BY <2>5, <2>6, <2>7
  <2>9. \A i \in 1 .. Len(ab) :
          /\ i <= Len(a) => ab[i].stream = STDIN /\ ab[i].file = None
          /\ i > Len(a) => ab[i].stream = STDOUT /\ ab[i].file = req.out /\ i = Len(ab)
    <3> SUFFICES ASSUME NEW i \in 1 .. Len(ab)
                 PROVE  /\ i <= Len(a) => ab[i].stream = STDIN /\ ab[i].file = None
                        /\ i > Len(a) => ab[i].stream = STDOUT /\ ab[i].file = req.out /\ i = Len(ab)
      OBVIOUS
    <3>1. CASE i <= Len(a)
      <4>1. i \in 1 .. Len(a)
        BY <2>3, <2>7, <3>1
      <4> QED
        BY <2>3, <2>7, <3>1, <4>1
    <3>2. CASE i > Len(a)
      <4>1. i - Len(a) \in 1 .. Len(b) /\ i = Len(ab)
        BY <2>3, <2>4, <2>7, <3>2
      <4> QED
        BY <2>3, <2>4, <2>7, <3>2, <4>1
    <3> QED
      BY <2>3, <2>7, <3>1, <3>2
  <2>10. \A i \in 1 .. Len(r) :
           /\ i <= Len(ab) => r[i] = ab[i]
           /\ i > Len(ab) => r[i].stream = STDERR /\ r[i].file = req.err /\ i = Len(r)
    <3> SUFFICES ASSUME NEW i \in 1 .. Len(r), i > Len(ab)
                 PROVE  r[i].stream = STDERR /\ r[i].file = req.err /\ i = Len(r)
      BY <2>8
    <3>1. i - Len(ab) \in 1 .. Len(c) /\ i = Len(r)
      BY <2>5, <2>7, <2>8
    <3>2. r[i] = c[i - Len(ab)]
      BY <2>7, <2>8
    <3> QED
      BY <2>5, <3>1, <3>2
  <2>11. ASSUME NEW i \in 1 .. Len(r)
         PROVE  \/ i = 1 /\ i = Len(a) /\ r[i].stream = STDIN /\ r[i].file = None
                \/ i = Len(a) + Len(b) /\ i > Len(a) /\ r[i].stream = STDOUT /\ r[i].file = req.out
                \/ i = Len(r) /\ i > Len(ab) /\ r[i].stream = STDERR /\ r[i].file = req.err
    <3>1. CASE i <= Len(ab)
      <4>1. i \in 1 .. Len(ab)
        BY <2>7, <3>1
      <4> QED
        BY <2>3, <2>7, <2>9, <2>10, <3>1, <4>1
    <3>2. CASE i > Len(ab)
      BY <2>10, <3>2
    <3> QED
      BY <2>7, <3>1, <3>2
  <2>12. \A i, j \in 1 .. Len(r) : r[i].stream = r[j].stream => i = j
    BY <2>2, <2>7, <2>11
  <2>13. \A i \in 1 .. Len(r) : /\ r[i].stream \in Std /\ r[i].file \in Files \cup {None}
                                /\ r[i].stream = STDIN => r[i].file = None
    BY <2>2, <2>11
  <2> QED
    BY <1>2, <2>8, <2>12, <2>13 DEF r
<1> QED
  BY <1>1, <1>2

-----------------------------------------------------------------------------
(* Putting the context back *)

WithPc(p, pc) == [p EXCEPT !.call.pc = pc]

LEMMA WithPcFacts ==
  ASSUME NEW p \in Processes, p.call \in Calling, NEW pc \in Pcs
  PROVE  LET q == WithPc(p, pc)
         IN  /\ q \in Processes /\ q.std = p.std /\ q.cwd = p.cwd /\ q.env = p.env /\ q.sink = p.sink /\ q.fresh = p.fresh
             /\ q.call \in Calling /\ q.call.pc = pc /\ q.call.req = p.call.req /\ q.call.at = p.call.at
             /\ q.call.saved = p.call.saved /\ q.call.savedCwd = p.call.savedCwd /\ q.call.restores = p.call.restores
             /\ q.call.opened = p.call.opened /\ q.call.unread = p.call.unread /\ q.call.got = p.call.got
             /\ q.call.log = p.call.log
<1> DEFINE c == p.call
           b == [c EXCEPT !.pc = pc]
           q == [p EXCEPT !.call = b]
<1>1. WithPc(p, pc) = q
  BY DEF WithPc
<1>2. /\ b \in Calling /\ b.pc = pc /\ b.req = c.req /\ b.at = c.at /\ b.saved = c.saved /\ b.savedCwd = c.savedCwd
      /\ b.restores = c.restores /\ b.opened = c.opened /\ b.unread = c.unread /\ b.got = c.got /\ b.log = c.log
  BY DEF Calling
<1> HIDE DEF b
<1>3. q \in Processes /\ q.call = b /\ q.std = p.std /\ q.cwd = p.cwd /\ q.env = p.env /\ q.sink = p.sink /\ q.fresh = p.fresh
  BY <1>2 DEF Processes
<1> HIDE DEF q
<1> QED
  BY <1>1, <1>2, <1>3

\* The fields of a restored process.
LEMMA RestoredFields ==
  ASSUME NEW p \in Processes, p.call \in Calling, RestoredStd(p, p.call) \in Stds,
         restore_env(p.env, p.call.restores) \in EnvTables
  PROVE  LET q == Restored(p, p.call)
         IN  /\ q \in Processes /\ q.call = p.call /\ q.sink = p.sink /\ q.fresh = p.fresh
             /\ q.std = RestoredStd(p, p.call) /\ q.env = restore_env(p.env, p.call.restores)
             /\ q.cwd = IF p.call.req.cwd # None /\ (p.call.savedCwd = Root \/ p.call.savedCwd \in dirs)
                          THEN p.call.savedCwd ELSE p.cwd
<1> DEFINE c == p.call
           std == RestoredStd(p, c)
           env == restore_env(p.env, c.restores)
           a == [p EXCEPT !.std = std]
           b == [a EXCEPT !.env = env]
           q == Restored(p, c)
<1>1. a \in Processes /\ a.std = std /\ a.cwd = p.cwd /\ a.env = p.env /\ a.call = c /\ a.sink = p.sink /\ a.fresh = p.fresh
  BY DEF Processes
<1>2. q = restore_cwd([a EXCEPT !.env = restore_env(a.env, c.restores)], c)
  BY DEF Restored, restore_command_context
<1> HIDE DEF a
<1>3. q = restore_cwd(b, c)
  BY <1>1, <1>2
<1>4. b \in Processes /\ b.std = std /\ b.cwd = p.cwd /\ b.env = env /\ b.call = c /\ b.sink = p.sink /\ b.fresh = p.fresh
  BY <1>1 DEF Processes
<1> HIDE DEF b, q, std, env
<1>5. c.savedCwd \in Dirs \cup {Root}
  BY CallParts
<1>6. CASE c.req.cwd # None /\ (c.savedCwd = Root \/ c.savedCwd \in dirs)
  <2>1. q = [b EXCEPT !.cwd = c.savedCwd]
    BY <1>3, <1>6 DEF restore_cwd, chdir
  <2>2. q \in Processes /\ q.std = std /\ q.cwd = c.savedCwd /\ q.env = env /\ q.call = c /\ q.sink = p.sink /\ q.fresh = p.fresh
    BY <1>4, <1>5, <2>1 DEF Processes
  <2> QED
    BY <1>6, <2>2 DEF q, std, env
<1>7. CASE ~(c.req.cwd # None /\ (c.savedCwd = Root \/ c.savedCwd \in dirs))
  <2>1. q = b
    BY <1>3, <1>7 DEF restore_cwd, chdir
  <2> QED
    BY <1>4, <1>7, <2>1 DEF q, std, env
<1> QED
  BY <1>6, <1>7

\* The overrides of a call are undone.
LEMMA EnvBack ==
  ASSUME NEW env \in EnvTables, KeysUnique(env), NEW c \in Calling, c.pc \in Early, EnvPart(env, c)
  PROVE  /\ restore_env(env, c.restores) \in EnvTables /\ KeysUnique(restore_env(env, c.restores))
         /\ \A k \in Keys : env_lookup(restore_env(env, c.restores), k) = c.at.vars[k]
<1> DEFINE n == Len(c.restores)
           V == OverUpto(c.at.vars, c.req.env)
<1>1. c.restores \in Seq(Overrides) /\ n \in Nat /\ c.req \in Requests /\ c.at.vars \in Variables
  BY CallParts
<1>2. c.req.env \in Seq(Overrides) /\ n <= Len(c.req.env) /\ Len(c.req.env) \in Nat
  BY <1>1, RequestParts DEF EnvPart
<1>3. \A m : Overlaid(c.at.vars, c.req.env, m) = V[m]
  BY OverUptoIs
<1>4. /\ V[0] = c.at.vars
      /\ \A m \in 1 .. Len(c.req.env) : V[m] = [V[m - 1] EXCEPT ![c.req.env[m].key] = c.req.env[m].value]
      /\ \A m \in 0 .. Len(c.req.env) : V[m] \in Variables
  BY <1>1, <1>2, OverUptoSteps
<1> HIDE DEF V
<1>5. \A k \in Keys : env_lookup(env, k) = V[n][k]
  BY <1>3 DEF EnvPart
<1>6. ASSUME NEW j \in 1 .. n
      PROVE  /\ c.restores[j].key \notin BadKeys /\ env_overlay_has_key(env, c.restores[j].key)
             /\ \A k \in Keys : V[j - 1][k] = IF k = c.restores[j].key THEN c.restores[j].value ELSE V[j][k]
  <2>1. /\ c.restores[j].key \notin BadKeys /\ env_overlay_has_key(env, c.restores[j].key)
        /\ c.restores[j].key = c.req.env[j].key
        /\ c.restores[j].value = V[j - 1][c.restores[j].key]
    BY <1>3 DEF EnvPart
  <2>2. j \in 1 .. Len(c.req.env) /\ j - 1 \in 0 .. Len(c.req.env)
    BY <1>1, <1>2
  <2>3. V[j] = [V[j - 1] EXCEPT ![c.req.env[j].key] = c.req.env[j].value] /\ V[j - 1] \in Variables
    BY <1>4, <2>2
  <2>4. \A k \in Keys : k # c.req.env[j].key => V[j][k] = V[j - 1][k]
    BY <2>3 DEF Variables
  <2> QED
    BY <2>1, <2>4
<1>7. /\ restore_env(env, c.restores) \in EnvTables /\ KeysUnique(restore_env(env, c.restores))
      /\ \A k \in Keys : env_lookup(restore_env(env, c.restores), k) = V[0][k]
  <2> DEFINE r == c.restores
  <2>1. MadeIn(env, c.restores, V)
    BY <1>5, <1>6 DEF MadeIn
  <2> QED
    BY <1>1, <2>1, RestoreEnvFacts
<1> QED
  BY <1>4, <1>7

\* The standard descriptors of a call are put back: to what they were, or, by a
\* builtin, to the console.
LEMMA StdBack ==
  ASSUME NEW p \in Processes, p.call \in Calling, NEW B, Inherits(tab, B, p.call.at.std),
         p.call.saved = p.call.at.std,
         IsBuiltin(p.call.req) => p.call.pc = "reap" /\ StdPart(p.std, p.call)
  PROVE  /\ RestoredStd(p, p.call) \in Stds
         /\ \A s \in Std : RestoredStd(p, p.call)[s] = p.call.at.std[s] \/ (IsBuiltin(p.call.req) /\ RestoredStd(p, p.call)[s] = s)
<1> DEFINE c == p.call
<1>1. p.std \in Stds /\ c.saved \in Stds /\ c.saved = c.at.std /\ c.req \in Requests /\ c.opened \in Seq(Entries)
  BY ProcParts, CallParts
<1>2. CASE ~IsBuiltin(c.req)
  <2>1. \A s \in Std : c.saved[s] = s \/ c.saved[s] \in Open(tab)
    BY <1>1 DEF Inherits, UsableFd
  <2>2. restore_stdio(p.std, c.saved) = c.saved
    BY <1>1, <2>1, RestoreStdioFacts
  <2> QED
    BY <1>1, <1>2, <2>2 DEF RestoredStd
<1>3. CASE IsBuiltin(c.req)
  <2> DEFINE r == Redirects(c.req)
             m == reset_stdio(p.std, c.req)
  <2>1. m = [s \in Std |-> IF s \in Streams(r) THEN s ELSE p.std[s]] /\ RestoredStd(p, c) = m
    BY <1>3 DEF reset_stdio, RestoredStd
  <2>2. Stood(p.std, c.at.std, c.opened) /\ Len(c.opened) = Len(r)
        /\ \A i \in 1 .. Len(c.opened) : c.opened[i].stream = r[i].stream
    BY <1>3 DEF StdPart, Standing
  <2>3. r \in Seq(Redirections)
    BY <1>1, RedirectsFacts
  <2> HIDE DEF r, m
  <2>4. m \in Stds
    BY <1>1, <2>1 DEF Stds
  <2>5. ASSUME NEW s \in Std, s \notin Streams(r) PROVE p.std[s] = c.at.std[s]
    <3>1. \A i \in 1 .. Len(r) : r[i].stream # s
      BY <2>3, <2>5 DEF Streams
    <3> QED
      BY <2>2, <3>1 DEF Stood
  <2> QED
    BY <1>3, <2>1, <2>4, <2>5
<1> QED
  BY <1>2, <1>3

\* After a call is undone the caller's context is what it was.
LEMMA RestoredFacts ==
  ASSUME NEW p \in Processes, p.call \in Calling, p.call.pc \in Early,
         KeysUnique(p.env), EnvPart(p.env, p.call), CwdPart(p.cwd, p.call, dirs),
         NEW B, Inherits(tab, B, p.call.at.std), p.call.saved = p.call.at.std,
         IsBuiltin(p.call.req) => p.call.pc = "reap" /\ StdPart(p.std, p.call)
  PROVE  LET q == Restored(p, p.call)
         IN  /\ q \in Processes /\ q.call = p.call /\ q.sink = p.sink /\ q.fresh = p.fresh
             /\ KeysUnique(q.env) /\ \A k \in Keys : env_lookup(q.env, k) = p.call.at.vars[k]
             /\ q.cwd = p.call.at.cwd \/ p.call.at.cwd \notin dirs \cup {Root}
             /\ \A s \in Std : q.std[s] = p.call.at.std[s] \/ (IsBuiltin(p.call.req) /\ q.std[s] = s)
<1> DEFINE c == p.call
           q == Restored(p, c)
<1>1. KeysUnique(p.env) /\ EnvPart(p.env, c) /\ CwdPart(p.cwd, c, dirs) /\ p.env \in EnvTables
  BY ProcParts
<1>2. /\ restore_env(p.env, c.restores) \in EnvTables /\ KeysUnique(restore_env(p.env, c.restores))
      /\ \A k \in Keys : env_lookup(restore_env(p.env, c.restores), k) = c.at.vars[k]
  BY <1>1, EnvBack
<1>3. /\ RestoredStd(p, c) \in Stds
      /\ \A s \in Std : RestoredStd(p, c)[s] = c.at.std[s] \/ (IsBuiltin(c.req) /\ RestoredStd(p, c)[s] = s)
  BY StdBack
<1>4. /\ q \in Processes /\ q.call = c /\ q.sink = p.sink /\ q.fresh = p.fresh
      /\ q.std = RestoredStd(p, c) /\ q.env = restore_env(p.env, c.restores)
      /\ q.cwd = IF c.req.cwd # None /\ (c.savedCwd = Root \/ c.savedCwd \in dirs) THEN c.savedCwd ELSE p.cwd
  BY <1>2, <1>3, RestoredFields
<1> HIDE DEF q
<1>5. q.cwd = c.at.cwd \/ c.at.cwd \notin dirs \cup {Root}
  BY <1>1, <1>4 DEF CwdPart, Dir
<1> QED
  BY <1>2, <1>3, <1>4, <1>5 DEF q

-----------------------------------------------------------------------------
(* The steps of a call *)

LEMMA TopFacts ==
  ASSUME Good(procs, tab, dirs), procs # <<>>
  PROVE  /\ Top = procs[Len(procs)] /\ Depth = Len(procs) /\ Depth \in 1 .. Depth /\ procs \in Seq(Processes)
         /\ Top \in Processes /\ ProcGood(Top, dirs) /\ LinkGood(tab, Below(procs, Depth), Top)
         /\ Top.call.pc # "wait" /\ GoodTab(tab) /\ tab \in Tabs
         /\ Open(tab) = Below(procs, Depth) \cup HeldNow(Top)
<1>1. Top = procs[Len(procs)] /\ Depth = Len(procs)
  BY DEF Top, Depth
<1>2. Depth \in 1 .. Depth /\ procs \in Seq(Processes) /\ ~(Depth < Depth)
  BY <1>1, GoodParts
<1> QED
  BY <1>1, <1>2, GoodParts

LEMMA InCallFacts ==
  ASSUME Good(procs, tab, dirs), NEW pc \in Pcs, InCall(pc)
  PROVE  /\ procs # <<>> /\ Top.call \in Calling /\ Top.call # NoCall /\ Top.call.pc = pc
         /\ KeysUnique(Top.env) /\ EnvPart(Top.env, Top.call) /\ CwdPart(Top.cwd, Top.call, dirs) /\ StdPart(Top.std, Top.call)
         /\ Top.call.at.open = Below(procs, Depth) /\ Inherits(tab, Below(procs, Depth), Top.call.at.std)
         /\ pc \in Holding => EntriesGood(tab, Below(procs, Depth), Top.call.opened)
         /\ IsBuiltin(Top.call.req) => Depth \in Shells
<1>1. procs # <<>> /\ Top.call.pc = pc
  BY DEF InCall
<1>2. Top \in Processes /\ ProcGood(Top, dirs) /\ LinkGood(tab, Below(procs, Depth), Top)
  BY <1>1, TopFacts
<1>3. pc # "none"
  BY DEF Pcs
<1>4. Top.call \in Calling /\ Top.call # NoCall
  BY <1>1, <1>2, <1>3, ProcParts
<1>5. OwnStd(Top) = Top.call.at.std
  BY <1>4 DEF OwnStd
<1>6. IsBuiltin(Top.call.req) => Depth \in Shells
  BY <1>1, <1>4, TopFacts, GoodParts
<1> QED
  BY <1>1, <1>2, <1>4, <1>5, <1>6 DEF ProcGood, LinkGood

\* An error return of a call.
LEMMA UnwindFacts ==
  ASSUME Good(procs, tab, dirs), NEW pc \in {"env", "open", "reap"}, InCall(pc),
         NEW p \in Processes, p.call = Top.call, p.sink = Top.sink, p.fresh = Top.fresh, p.env = Top.env, p.cwd = Top.cwd,
         IsBuiltin(Top.call.req) => p.std = Top.call.at.std,
         Unwind(p, Top.call)
  PROVE  Good(procs', tab', dirs)
<1> DEFINE c == Top.call
           B == Below(procs, Depth)
           b == IF IsBuiltin(c.req) THEN p ELSE Restored(p, c)
           q == WithPc(b, "failed")
<1>1. pc \in Pcs /\ pc \in Early /\ pc \in Holding
  BY DEF Pcs, Early, Holding
<1>2. /\ procs # <<>> /\ c \in Calling /\ c # NoCall /\ c.pc = pc
      /\ KeysUnique(Top.env) /\ EnvPart(Top.env, c) /\ CwdPart(Top.cwd, c, dirs) /\ StdPart(Top.std, c)
      /\ c.at.open = B /\ Inherits(tab, B, c.at.std)
  BY <1>1, InCallFacts
<1>3. c.req \in Requests /\ c.saved = c.at.std /\ c.restores \in Seq(Overrides)
  BY <1>2, CallParts DEF StdPart
<1>4. /\ b \in Processes /\ b.call = c /\ b.sink = p.sink /\ b.fresh = p.fresh
      /\ KeysUnique(b.env) /\ \A k \in Keys : env_lookup(b.env, k) = c.at.vars[k]
      /\ b.cwd = c.at.cwd \/ c.at.cwd \notin dirs \cup {Root}
      /\ \A s \in Std : b.std[s] = c.at.std[s]
  <2>1. CASE IsBuiltin(c.req)
    <3>1. c.req.cwd = None /\ c.req.env = <<>> /\ b = p
      BY <1>3, <2>1, RequestParts
    <3>2. Len(c.restores) = 0
      BY <1>1, <1>2, <1>3, <3>1 DEF EnvPart
    <3>3. Overlaid(c.at.vars, c.req.env, 0) = c.at.vars
      <4>1. c.at.vars \in Variables /\ c.req.env \in Seq(Overrides)
        BY <1>2, <1>3, CallParts, RequestParts
      <4> QED
        BY <4>1, OverUptoIs, OverUptoSteps
    <3>4. \A k \in Keys : env_lookup(p.env, k) = c.at.vars[k]
      BY <1>1, <1>2, <3>2, <3>3 DEF EnvPart
    <3>5. p.cwd = c.at.cwd
      BY <1>1, <1>2, <3>1 DEF CwdPart, Dir
    <3> QED
      BY <1>2, <2>1, <3>1, <3>4, <3>5
  <2>2. CASE ~IsBuiltin(c.req)
    <3>1. b = Restored(p, p.call) /\ p.call \in Calling /\ p.call.pc \in Early
      BY <1>1, <1>2, <2>2
    <3>2. KeysUnique(p.env) /\ EnvPart(p.env, p.call) /\ CwdPart(p.cwd, p.call, dirs)
          /\ Inherits(tab, B, p.call.at.std) /\ p.call.saved = p.call.at.std /\ ~IsBuiltin(p.call.req)
      BY <1>2, <1>3, <2>2
    <3> HIDE DEF b
    <3> QED
      BY <3>1, <3>2, RestoredFacts
  <2> QED
    BY <2>1, <2>2
<1> HIDE DEF b
<1>5. /\ q \in Processes /\ q.std = b.std /\ q.cwd = b.cwd /\ q.env = b.env /\ q.sink = Top.sink /\ q.fresh = Top.fresh
      /\ q.call \in Calling /\ q.call.pc = "failed" /\ q.call.req = c.req /\ q.call.at = c.at
      /\ q.call.saved = c.saved /\ q.call.savedCwd = c.savedCwd /\ q.call.opened = c.opened
  <2>1. "failed" \in Pcs /\ b.call \in Calling
    BY <1>2, <1>4 DEF Pcs
  <2> QED
    BY <1>4, <2>1, WithPcFacts
<1> HIDE DEF q
<1>6. ProcGood(q, dirs)
  <2>1. q.call.pc \notin Early
    BY <1>5 DEF Early
  <2>2. EnvPart(q.env, q.call)
    BY <1>4, <1>5, <2>1 DEF EnvPart
  <2>3. CwdPart(q.cwd, q.call, dirs)
    BY <1>2, <1>4, <1>5, <2>1 DEF CwdPart
  <2>4. StdPart(q.std, q.call)
    BY <1>2, <1>4, <1>5, <2>1 DEF StdPart, Standing
  <2> QED
    BY <1>4, <1>5, <2>2, <2>3, <2>4 DEF ProcGood
<1>7. procs' = SetTop(procs, q) /\ tab' = close_many(tab, c.opened)
  BY DEF Unwind, SetTop, Depth, q, WithPc, b
<1>8. Good(SetTop(procs, q), close_many(tab, procs[Len(procs)].call.opened), dirs)
  <2>1. Top = procs[Len(procs)]
    BY DEF Top, Depth
  <2> QED
    BY <1>1, <1>2, <1>5, <1>6, <2>1, TopCloses
<1> QED
  BY <1>7, <1>8 DEF Top, Depth

\* One more override made.
LEMMA EnvMore ==
  ASSUME NEW env \in EnvTables, KeysUnique(env), NEW c \in Calling, c.pc = "env", EnvPart(env, c),
         NEW o, Len(c.restores) < Len(c.req.env), o = c.req.env[Len(c.restores) + 1], CanSet(env, o.key),
         NEW r, r.key = o.key, r.value = env_lookup(env, o.key),
         NEW b, b.pc = "env", b.req = c.req, b.at = c.at, b.restores = Append(c.restores, r)
  PROVE  EnvPart(env_set_overlay(env, o.key, o.value), b)
<1> DEFINE n == Len(c.restores)
           V == OverUpto(c.at.vars, c.req.env)
           x == env_set_overlay(env, o.key, o.value)
<1>1. c.restores \in Seq(Overrides) /\ n \in Nat /\ c.req \in Requests /\ c.at.vars \in Variables
  BY CallParts
<1>2. c.req.env \in Seq(Overrides) /\ n + 1 <= Len(c.req.env) /\ Len(c.req.env) \in Nat /\ n + 1 \in 1 .. Len(c.req.env)
      /\ n \in 0 .. Len(c.req.env) /\ (n + 1) - 1 = n
  BY <1>1, RequestParts
<1>3. \A m : Overlaid(c.at.vars, c.req.env, m) = V[m]
  BY OverUptoIs
<1>4. /\ \A m \in 1 .. Len(c.req.env) : V[m] = [V[m - 1] EXCEPT ![c.req.env[m].key] = c.req.env[m].value]
      /\ \A m \in 0 .. Len(c.req.env) : V[m] \in Variables
  BY <1>1, <1>2, OverUptoSteps
<1> HIDE DEF V, x
<1>5. V[n + 1] = [V[n] EXCEPT ![o.key] = o.value] /\ V[n] \in Variables
  BY <1>2, <1>4
<1>6. o \in Overrides /\ o.key \in Keys /\ o.key \notin BadKeys
  <2>1. o \in Overrides
    BY <1>2
  <2> QED
    BY <2>1 DEF Overrides, CanSet
<1>7. /\ Len(b.restores) = n + 1 /\ b.restores[n + 1] = r
      /\ \A j \in 1 .. n : b.restores[j] = c.restores[j]
  BY <1>1
<1>8. \A j \in 1 .. n + 1 : j = n + 1 \/ j \in 1 .. n
  BY <1>1
<1>9. ASSUME NEW k \in Keys PROVE env_lookup(x, k) = V[n + 1][k]
  <2>1. env_lookup(x, k) = IF k = o.key THEN o.value ELSE env_lookup(env, k)
    BY SetIsUpdate DEF x
  <2>2. env_lookup(env, k) = V[n][k]
    BY <1>3 DEF EnvPart, Early
  <2> QED
    BY <1>5, <1>6, <2>1, <2>2 DEF Variables
<1>10. ASSUME NEW j \in 1 .. n + 1
       PROVE  /\ b.restores[j].key = c.req.env[j].key /\ b.restores[j].key \notin BadKeys
              /\ env_overlay_has_key(x, b.restores[j].key)
              /\ b.restores[j].value = V[j - 1][b.restores[j].key]
  <2>1. CASE j \in 1 .. n
    <3>1. /\ c.restores[j].key = c.req.env[j].key /\ c.restores[j].key \notin BadKeys
          /\ env_overlay_has_key(env, c.restores[j].key)
          /\ c.restores[j].value = V[j - 1][c.restores[j].key]
      BY <1>3, <2>1 DEF EnvPart, Early
    <3>2. env_overlay_has_key(x, c.restores[j].key)
      BY <3>1, SetKeepsHolders DEF x
    <3> QED
      BY <1>7, <2>1, <3>1, <3>2
  <2>2. CASE j = n + 1
    <3>1. env_overlay_has_key(x, o.key)
      BY SetKeepsHolders DEF x
    <3>2. env_lookup(env, o.key) = V[n][o.key]
      BY <1>3, <1>6 DEF EnvPart, Early
    <3>3. b.restores[j] = r /\ j - 1 = n
      BY <1>1, <1>7, <2>2
    <3> QED
      BY <1>6, <2>2, <3>1, <3>2, <3>3
  <2> QED
    BY <1>8, <2>1, <2>2
<1>11. Len(b.restores) <= Len(b.req.env)
  BY <1>2, <1>7
<1>12. \A k \in Keys : env_lookup(x, k) = Overlaid(b.at.vars, b.req.env, Len(b.restores))[k]
  BY <1>3, <1>7, <1>9
<1>13. \A j \in 1 .. Len(b.restores) :
         /\ b.restores[j].key = b.req.env[j].key /\ b.restores[j].key \notin BadKeys
         /\ env_overlay_has_key(x, b.restores[j].key)
         /\ b.restores[j].value = Overlaid(b.at.vars, b.req.env, j - 1)[b.restores[j].key]
  <2> SUFFICES ASSUME NEW j \in 1 .. n + 1
               PROVE  /\ b.restores[j].key = c.req.env[j].key /\ b.restores[j].key \notin BadKeys
                      /\ env_overlay_has_key(x, b.restores[j].key)
                      /\ b.restores[j].value = Overlaid(c.at.vars, c.req.env, j - 1)[b.restores[j].key]
    BY <1>7
  <2>1. Overlaid(c.at.vars, c.req.env, j - 1) = V[j - 1]
    BY <1>3
  <2> QED
    BY <1>10, <2>1
<1>14. b.pc \in Early
  BY DEF Early
<1>15. EnvPart(x, b)
  BY <1>11, <1>12, <1>13, <1>14 DEF EnvPart
<1> QED
  BY <1>15 DEF x

LEMMA ApplyOverrideStep ==
  ASSUME Inv, ApplyOverride
  PROVE  Inv'
<1> DEFINE c == Top.call
           o == NextOverride
           r == [key |-> o.key, value |-> env_lookup(Top.env, o.key)]
           env == env_set_overlay(Top.env, o.key, o.value)
           b == [c EXCEPT !.restores = Append(c.restores, r)]
           q == [Top EXCEPT !.env = env, !.call = b]
<1>1. Good(procs, tab, dirs)
  BY DEF Inv
<1>2. InCall("env") /\ MoreEnv /\ CanSet(Top.env, o.key) /\ UNCHANGED <<tab, content, dirs, budget>>
  BY DEF ApplyOverride, Keep
<1>3. "env" \in Pcs /\ "env" \in Early /\ "env" \in Holding
  BY DEF Pcs, Early, Holding
<1>4. /\ procs # <<>> /\ c \in Calling /\ c # NoCall /\ c.pc = "env"
      /\ KeysUnique(Top.env) /\ EnvPart(Top.env, c) /\ CwdPart(Top.cwd, c, dirs) /\ StdPart(Top.std, c)
  BY <1>1, <1>2, <1>3, InCallFacts
<1>5. Top \in Processes /\ Top = procs[Len(procs)] /\ Depth = Len(procs) /\ Top.env \in EnvTables /\ procs \in Seq(Processes)
      /\ Depth \in 1 .. Len(procs)
  BY <1>1, <1>4, TopFacts, ProcParts
<1>6. Len(c.restores) < Len(c.req.env) /\ o = c.req.env[Len(c.restores) + 1]
  BY <1>2 DEF MoreEnv, NextOverride
<1>7. o \in Overrides /\ o.key \in Keys /\ o.value \in Values \cup {Absent}
  <2>1. c.restores \in Seq(Overrides) /\ c.req.env \in Seq(Overrides)
    BY <1>4, CallParts, RequestParts
  <2>2. Len(c.restores) + 1 \in 1 .. Len(c.req.env)
    BY <1>6, <2>1
  <2>3. o \in Overrides
    BY <1>6, <2>1, <2>2
  <2> QED
    BY <2>3 DEF Overrides
<1>8. env \in EnvTables /\ KeysUnique(env)
  BY <1>2, <1>4, <1>5, <1>7, SetKeepsType, SetKeepsUnique
<1>9. r \in Overrides /\ r.key = o.key /\ r.value = env_lookup(Top.env, o.key)
  <2>1. env_lookup(Top.env, o.key) \in Values \cup {Absent}
    BY <1>4, <1>5, LookupType
  <2> QED
    BY <1>7, <2>1 DEF Overrides
<1> HIDE DEF r, env, o
<1>10. /\ b \in Calling /\ b.pc = c.pc /\ b.req = c.req /\ b.at = c.at /\ b.saved = c.saved /\ b.savedCwd = c.savedCwd
       /\ b.opened = c.opened /\ b.restores = Append(c.restores, r)
  <2>1. Append(c.restores, r) \in Seq(Overrides)
    BY <1>4, <1>9, CallParts
  <2> QED
    BY <1>4, <2>1 DEF Calling
<1> HIDE DEF b
<1>11. /\ q \in Processes /\ q.env = env /\ q.call = b /\ q.std = Top.std /\ q.cwd = Top.cwd
       /\ q.sink = Top.sink /\ q.fresh = Top.fresh
  BY <1>5, <1>8, <1>10 DEF Processes
<1>12. procs' = SetTop(procs, q)
  <2>1. procs' = [procs EXCEPT ![Depth].env = env, ![Depth].call.restores = Append(@, r)]
    BY <1>5 DEF ApplyOverride, r, env, o
  <2>2. procs' = [procs EXCEPT ![Depth] = q]
    BY <1>5, <2>1 DEF b
  <2> QED
    BY <1>5, <2>2 DEF SetTop
<1> HIDE DEF q
<1>13. ProcGood(q, dirs)
  <2>1. EnvPart(env, b)
    BY <1>2, <1>4, <1>5, <1>6, <1>9, <1>10, EnvMore, ZenonT(40) DEF env
  <2>2. CwdPart(q.cwd, b, dirs)
    BY <1>4, <1>10, <1>11 DEF CwdPart, Dir
  <2>3. StdPart(q.std, b)
    BY <1>4, <1>10, <1>11 DEF StdPart, Standing
  <2> QED
    BY <1>8, <1>11, <2>1, <2>2, <2>3 DEF ProcGood
<1>14. Good(SetTop(procs, q), tab, dirs)
  BY <1>1, <1>3, <1>4, <1>5, <1>10, <1>11, <1>13, TopOnly
<1> QED
  BY <1>2, <1>12, <1>14 DEF Inv

LEMMA OverrideFailsStep ==
  ASSUME Inv, OverrideFails
  PROVE  Inv'
<1>1. Good(procs, tab, dirs)
  BY DEF Inv
<1>2. InCall("env") /\ MoreEnv /\ Unwind(Top, Top.call) /\ UNCHANGED <<content, dirs, budget>>
  BY DEF OverrideFails, Keep
<1>3. "env" \in Pcs
  BY DEF Pcs
<1>4. procs # <<>> /\ Top.call \in Calling
  BY <1>1, <1>2, <1>3, InCallFacts
<1>5. Top \in Processes
  BY <1>1, <1>4, TopFacts
<1>6. ~IsBuiltin(Top.call.req)
  <2>1. Top.call.req \in Requests /\ Top.call.restores \in Seq(Overrides)
    BY <1>4, CallParts
  <2>2. Top.call.req.env # <<>>
    BY <1>2, <2>1 DEF MoreEnv
  <2> QED
    BY <2>1, <2>2, RequestParts
<1>7. Good(procs', tab', dirs)
  BY <1>1, <1>2, <1>5, <1>6, UnwindFacts
<1> QED
  BY <1>2, <1>7 DEF Inv

LEMMA OverridesDoneStep ==
  ASSUME Inv, OverridesDone
  PROVE  Inv'
<1> DEFINE c == Top.call
           q == WithPc(Top, "open")
<1>1. Good(procs, tab, dirs)
  BY DEF Inv
<1>2. InCall("env") /\ ~MoreEnv /\ UNCHANGED <<tab, content, dirs, budget>>
  BY DEF OverridesDone, Keep
<1>3. "env" \in Pcs /\ "env" \in Early /\ "env" \in Holding /\ "open" \in Pcs /\ "open" \in Early /\ "open" \in Holding
  BY DEF Pcs, Early, Holding
<1>4. /\ procs # <<>> /\ c \in Calling /\ c # NoCall /\ c.pc = "env"
      /\ KeysUnique(Top.env) /\ EnvPart(Top.env, c) /\ CwdPart(Top.cwd, c, dirs) /\ StdPart(Top.std, c)
  BY <1>1, <1>2, <1>3, InCallFacts
<1>5. Top \in Processes /\ Top = procs[Len(procs)]
  BY <1>1, <1>4, TopFacts
<1>6. /\ q \in Processes /\ q.std = Top.std /\ q.cwd = Top.cwd /\ q.env = Top.env /\ q.sink = Top.sink /\ q.fresh = Top.fresh
      /\ q.call \in Calling /\ q.call.pc = "open" /\ q.call.req = c.req /\ q.call.at = c.at
      /\ q.call.saved = c.saved /\ q.call.savedCwd = c.savedCwd /\ q.call.restores = c.restores
      /\ q.call.opened = c.opened
  BY <1>3, <1>4, <1>5, WithPcFacts
<1>7. procs' = SetTop(procs, q)
  BY DEF OverridesDone, SetTop, WithPc, Top, Depth
<1> HIDE DEF q
<1>8. ProcGood(q, dirs)
  <2>1. Len(c.restores) = Len(c.req.env)
    <3>1. Len(c.restores) \in Nat /\ Len(c.req.env) \in Nat
      BY <1>4, CallParts, RequestParts
    <3> QED
      BY <1>2, <1>3, <1>4, <3>1 DEF MoreEnv, EnvPart
  <2>2. EnvPart(q.env, q.call)
    BY <1>3, <1>4, <1>6, <2>1 DEF EnvPart
  <2>3. CwdPart(q.cwd, q.call, dirs)
    BY <1>3, <1>4, <1>6 DEF CwdPart, Dir
  <2>4. StdPart(q.std, q.call)
    <3>1. c.opened = <<>> /\ Len(c.opened) = 0 /\ Top.std = c.at.std
      BY <1>3, <1>4 DEF StdPart, Standing
    <3> QED
      BY <1>3, <1>4, <1>6, <3>1 DEF StdPart, Standing, Stood
  <2> QED
    BY <1>4, <1>6, <2>2, <2>3, <2>4 DEF ProcGood
<1>9. Good(SetTop(procs, q), tab, dirs)
  BY <1>1, <1>3, <1>4, <1>5, <1>6, <1>8, TopOnly
<1> QED
  BY <1>2, <1>7, <1>9 DEF Inv

LEMMA KeepsThenShape ==
  ASSUME NEW t \in Tabs, NEW u, NEW v, NEW S, KeepsAt(t, u, S), SameShape(u, v)
  PROVE  KeepsAt(t, v, S)
<1> SUFFICES ASSUME NEW fd \in S
             PROVE  /\ fd \in TableFds /\ SameHandle(t.fds[fd], v.fds[fd])
                    /\ IsEnd(t.fds[fd]) => SameFlags(t.pipes[t.fds[fd].pipe], v.pipes[t.fds[fd].pipe])
  BY DEF KeepsAt
<1>1. fd \in TableFds /\ SameHandle(t.fds[fd], u.fds[fd]) /\ SameHandle(u.fds[fd], v.fds[fd])
  BY DEF KeepsAt, SameShape
<1>2. SameHandle(t.fds[fd], v.fds[fd])
  BY <1>1 DEF SameHandle
<1>3. ASSUME IsEnd(t.fds[fd]) PROVE SameFlags(t.pipes[t.fds[fd].pipe], v.pipes[t.fds[fd].pipe])
  <2>1. t.fds[fd].pipe \in PipeIds
    BY <1>1, <1>3, TabParts, HandleKinds DEF IsEnd
  <2>2. SameFlags(t.pipes[t.fds[fd].pipe], u.pipes[t.fds[fd].pipe])
    BY <1>3 DEF KeepsAt
  <2>3. SameFlags(u.pipes[t.fds[fd].pipe], v.pipes[t.fds[fd].pipe])
    BY <2>1 DEF SameShape
  <2> QED
    BY <2>2, <2>3 DEF SameFlags
<1> QED
  BY <1>1, <1>2, <1>3

\* One more stream opened: what the call holds afterwards.
LEMMA OneMore ==
  ASSUME NEW t, NEW u, NEW B, NEW opened \in Seq(Entries), EntriesGood(t, B, opened),
         KeepsAt(t, u, Open(t)), B \subseteq Open(t), HeldFds(opened) \subseteq Open(t),
         NEW o \in Entries, EntryGood(u, o), Both(o) \cap Open(t) = {}
  PROVE  /\ Append(opened, o) \in Seq(Entries)
         /\ EntriesGood(u, B, Append(opened, o))
         /\ HeldFds(Append(opened, o)) = HeldFds(opened) \cup Both(o)
<1> DEFINE n == Len(opened)
           a == Append(opened, o)
<1>1. n \in Nat /\ a \in Seq(Entries) /\ Len(a) = n + 1 /\ a[n + 1] = o /\ \A i \in 1 .. n : a[i] = opened[i]
  OBVIOUS
<1>2. /\ \A i \in 1 .. n : i \in 1 .. n + 1 /\ i # n + 1
      /\ \A i \in 1 .. n + 1 : i \in 1 .. n \/ i = n + 1
      /\ n + 1 \in 1 .. n + 1
  BY <1>1
<1>3. \A i \in 1 .. n : opened[i] \in Entries
  OBVIOUS
<1> HIDE DEF a, n
<1>4. EntriesGood(u, B, opened)
  BY EntriesStay
<1>5. \A i \in 1 .. n : Both(opened[i]) \subseteq HeldFds(opened)
  BY <1>3 DEF HeldFds, Both, Entries, n
<1>6. HeldFds(a) = HeldFds(opened) \cup Both(o)
  <2>1. Both(o) \subseteq TableFds
    BY DEF Both, Entries
  <2>2. ASSUME NEW fd PROVE fd \in HeldFds(a) <=> fd \in HeldFds(opened) \/ fd \in Both(o)
    <3>1. fd \in HeldFds(a) <=> fd \in TableFds /\ \E i \in 1 .. n + 1 : fd \in Both(a[i])
      BY <1>1 DEF HeldFds
    <3>2. fd \in HeldFds(opened) <=> fd \in TableFds /\ \E i \in 1 .. n : fd \in Both(opened[i])
      BY DEF HeldFds, n
    <3>3. (\E i \in 1 .. n + 1 : fd \in Both(a[i])) <=> (\E i \in 1 .. n : fd \in Both(opened[i])) \/ fd \in Both(o)
      BY <1>1, <1>2
    <3> QED
      BY <2>1, <3>1, <3>2, <3>3
  <2> QED
    BY <2>2
<1>7. \A i \in 1 .. n + 1 : EntryGood(u, a[i])
  BY <1>1, <1>2, <1>4 DEF EntriesGood, n
<1>8. ASSUME NEW i \in 1 .. n + 1, NEW j \in 1 .. n + 1, i # j PROVE Both(a[i]) \cap Both(a[j]) = {}
  <2>1. CASE i \in 1 .. n /\ j \in 1 .. n
    BY <1>1, <1>4, <1>8, <2>1 DEF EntriesGood, Apart, n
  <2>2. CASE i \in 1 .. n /\ j = n + 1
    BY <1>1, <1>5, <2>2
  <2>3. CASE i = n + 1 /\ j \in 1 .. n
    BY <1>1, <1>5, <2>3
  <2> QED
    BY <1>2, <1>8, <2>1, <2>2, <2>3
<1>9. HeldFds(a) \cap B = {}
  BY <1>4, <1>6 DEF EntriesGood
<1>10. EntriesGood(u, B, a)
  <2>1. Apart(a)
    BY <1>1, <1>8 DEF Apart
  <2> QED
    BY <1>1, <1>7, <1>9, <2>1 DEF EntriesGood
<1> QED
  BY <1>1, <1>6, <1>10 DEF a

\* The stream is put in place of the child's descriptor.
LEMMA StoodMore ==
  ASSUME NEW std \in Stds, NEW was, NEW opened \in Seq(Entries), Stood(std, was, opened),
         NEW o \in Entries, \A i \in 1 .. Len(opened) : opened[i].stream # o.stream,
         NEW m, \A s \in Std : m[s] = IF s = o.stream THEN o.child ELSE std[s]
  PROVE  Stood(m, was, Append(opened, o))
<1> DEFINE n == Len(opened)
           a == Append(opened, o)
<1>1. n \in Nat /\ Len(a) = n + 1 /\ a[n + 1] = o /\ \A i \in 1 .. n : a[i] = opened[i]
  OBVIOUS
<1>2. /\ \A i \in 1 .. n : i \in 1 .. n + 1
      /\ \A i \in 1 .. n + 1 : i \in 1 .. n \/ i = n + 1
      /\ n + 1 \in 1 .. n + 1
  BY <1>1
<1>3. o.stream \in Std /\ \A i \in 1 .. n : opened[i].stream \in Std
  <2>1. \A i \in 1 .. n : opened[i] \in Entries
    OBVIOUS
  <2> QED
    BY <2>1 DEF Entries
<1>4. /\ \A i \in 1 .. n : std[opened[i].stream] = opened[i].child
      /\ \A s \in Std : (\A i \in 1 .. n : opened[i].stream # s) => std[s] = was[s]
  BY DEF Stood
<1>5. \A i \in 1 .. n : opened[i].stream # o.stream
  OBVIOUS
<1> HIDE DEF a, n
<1>6. ASSUME NEW i \in 1 .. n + 1 PROVE m[a[i].stream] = a[i].child
  BY <1>1, <1>2, <1>3, <1>4, <1>5
<1>7. ASSUME NEW s \in Std, \A i \in 1 .. n + 1 : a[i].stream # s PROVE m[s] = was[s]
  <2>1. o.stream # s /\ \A i \in 1 .. n : opened[i].stream # s
    BY <1>1, <1>2, <1>7
  <2> QED
    BY <1>4, <2>1
<1>8. Stood(m, was, a)
  BY <1>1, <1>6, <1>7 DEF Stood
<1> QED
  BY <1>8 DEF a

LEMMA OpenedFacts ==
  ASSUME Good(procs, tab, dirs), InCall("open"), MoreOpens, NEW u, GoodTab(u), KeepsAt(tab, u, Open(tab)),
         NEW stream, stream = NextRedirect.stream, NEW child \in TableFds, NEW own \in TableFds,
         child \notin Open(tab), own \notin Open(tab), Open(u) = Open(tab) \cup {own, child},
         EntryGood(u, [stream |-> stream, child |-> child, own |-> own]), Opened(u, stream, child, own)
  PROVE  Good(procs', tab', dirs)
<1> DEFINE c == Top.call
           B == Below(procs, Depth)
           o == [stream |-> stream, child |-> child, own |-> own]
           opened == Append(c.opened, o)
           b == [c EXCEPT !.opened = opened]
           p == [Top EXCEPT !.call = b]
           std == IF c.req.api = "status" THEN abi_dup2(u, Top.std, child, stream) ELSE Top.std
           q == [p EXCEPT !.std = std]
           R == Redirects(c.req)
           n == Len(c.opened)
<1>1. "open" \in Pcs /\ "open" \in Early /\ "open" \in Holding
  BY DEF Pcs, Early, Holding
<1>2. /\ procs # <<>> /\ c \in Calling /\ c # NoCall /\ c.pc = "open"
      /\ KeysUnique(Top.env) /\ EnvPart(Top.env, c) /\ CwdPart(Top.cwd, c, dirs) /\ StdPart(Top.std, c)
      /\ c.at.open = B /\ Inherits(tab, B, c.at.std) /\ EntriesGood(tab, B, c.opened)
      /\ IsBuiltin(c.req) => Depth \in Shells
  BY <1>1, InCallFacts
<1>3. Top \in Processes /\ Top = procs[Len(procs)] /\ Depth = Len(procs) /\ tab \in Tabs /\ Open(tab) = B \cup HeldNow(Top)
      /\ Top.std \in Stds
  BY <1>2, TopFacts, ProcParts
<1>4. HeldNow(Top) = HeldFds(c.opened) /\ c.opened \in Seq(Entries) /\ n \in Nat /\ c.req \in Requests
  BY <1>1, <1>2, CallParts DEF HeldNow
<1>5. n + 1 \in 1 .. Len(R) /\ stream = R[n + 1].stream /\ stream \in Std /\ R \in Seq(Redirections)
      /\ \A i \in 1 .. n : i \in 1 .. Len(R) /\ i # n + 1
  <2>1. R \in Seq(Redirections) /\ Len(R) \in Nat
    BY <1>4, RedirectsFacts
  <2>2. n < Len(R) /\ stream = R[n + 1].stream
    BY DEF MoreOpens, NextRedirect
  <2>3. n + 1 \in 1 .. Len(R)
    BY <1>4, <2>1, <2>2
  <2> QED
    BY <1>4, <2>1, <2>2, <2>3, RedirectsFacts
<1>6. o \in Entries /\ o.stream = stream /\ o.child = child /\ o.own = own /\ Both(o) = {own, child}
  BY <1>5 DEF Entries, Both
<1>7. \A i \in 1 .. n : c.opened[i].stream = R[i].stream /\ c.opened[i].stream # stream
  BY <1>2, <1>4, <1>5, RedirectsFacts DEF StdPart
<1>8. EntryGood(u, o)
  OBVIOUS
<1> HIDE DEF o
<1>9. opened \in Seq(Entries) /\ EntriesGood(u, B, opened) /\ HeldFds(opened) = HeldFds(c.opened) \cup {own, child}
  <2>1. B \subseteq Open(tab) /\ HeldFds(c.opened) \subseteq Open(tab) /\ Both(o) \cap Open(tab) = {}
    BY <1>3, <1>4, <1>6
  <2>2. opened \in Seq(Entries) /\ EntriesGood(u, B, opened) /\ HeldFds(opened) = HeldFds(c.opened) \cup Both(o)
    BY <1>2, <1>4, <1>6, <1>8, <2>1, OneMore
  <2> QED
    BY <1>6, <2>2
<1>10. Len(opened) = n + 1 /\ opened[n + 1] = o /\ \A i \in 1 .. n : opened[i] = c.opened[i]
  BY <1>4
<1> HIDE DEF opened
<1>11. /\ b \in Calling /\ b.pc = c.pc /\ b.req = c.req /\ b.at = c.at /\ b.saved = c.saved /\ b.savedCwd = c.savedCwd
       /\ b.opened = opened /\ b.restores = c.restores
  BY <1>2, <1>9 DEF Calling
<1> HIDE DEF b
<1>12. std \in Stds /\ (c.req.api = "status" => \A s \in Std : std[s] = IF s = stream THEN child ELSE Top.std[s])
  <2>1. child \in Open(u)
    OBVIOUS
  <2> QED
    BY <1>3, <1>5, <2>1 DEF abi_dup2, app_fd_open, Stds
<1>13. tab' = u /\ procs' = [procs EXCEPT ![Depth] = IF p.call.req.api = "status" THEN [p EXCEPT !.std = abi_dup2(u, p.std, child, stream)] ELSE p]
  BY DEF Opened, p, b, opened, o
<1>14. p \in Processes /\ p.call = b /\ p.std = Top.std /\ p.env = Top.env /\ p.cwd = Top.cwd /\ p.sink = Top.sink /\ p.fresh = Top.fresh
  BY <1>3, <1>11 DEF Processes
<1> HIDE DEF p, std
<1>15. q \in Processes /\ q.call = b /\ q.std = std /\ q.env = Top.env /\ q.cwd = Top.cwd /\ q.sink = Top.sink /\ q.fresh = Top.fresh
  BY <1>12, <1>14 DEF Processes
<1>16. procs' = SetTop(procs, q)
  <2>1. (IF p.call.req.api = "status" THEN [p EXCEPT !.std = abi_dup2(u, p.std, child, stream)] ELSE p) = q
    <3>1. CASE c.req.api = "status"
      BY <1>11, <1>14, <3>1 DEF std
    <3>2. CASE c.req.api # "status"
      <4>1. q = [p EXCEPT !.std = p.std]
        BY <1>14, <3>2 DEF std
      <4>2. q = p
        BY <1>14, <4>1 DEF Processes
      <4> QED
        BY <1>11, <1>14, <3>2, <4>2
    <3> QED
      BY <3>1, <3>2
  <2> QED
    BY <1>3, <1>13, <2>1 DEF SetTop
<1> HIDE DEF q
<1>17. ProcGood(q, dirs)
  <2>1. EnvPart(q.env, b)
    BY <1>2, <1>11, <1>15 DEF EnvPart
  <2>2. CwdPart(q.cwd, b, dirs)
    BY <1>2, <1>11, <1>15 DEF CwdPart, Dir
  <2>3. /\ b.saved = b.at.std /\ Len(b.opened) <= Len(Redirects(b.req))
        /\ \A i \in 1 .. Len(b.opened) : b.opened[i].stream = Redirects(b.req)[i].stream
    <3>1. \A i \in 1 .. n + 1 : i \in 1 .. n \/ i = n + 1
      BY <1>4
    <3>2. n + 1 <= Len(R)
      BY <1>4, <1>5
    <3>3. b.saved = b.at.std
      BY <1>2, <1>11 DEF StdPart
    <3> QED
      BY <1>5, <1>6, <1>7, <1>10, <1>11, <3>1, <3>2, <3>3
  <2>4. IF Standing(b) THEN Stood(q.std, b.at.std, b.opened) ELSE q.std = b.at.std
    <3>1. CASE c.req.api = "status"
      <4>1. Stood(Top.std, c.at.std, c.opened)
        BY <1>2, <3>1 DEF StdPart, Standing
      <4>2. Stood(std, c.at.std, Append(c.opened, o))
        BY <1>3, <1>4, <1>6, <1>7, <1>12, <3>1, <4>1, StoodMore
      <4> QED
        BY <1>2, <1>11, <1>15, <3>1, <4>2 DEF Standing, opened
    <3>2. CASE c.req.api # "status"
      BY <1>1, <1>2, <1>11, <1>15, <3>2 DEF Standing, StdPart, std
    <3> QED
      BY <3>1, <3>2
  <2>5. StdPart(q.std, b)
    BY <1>1, <1>2, <1>11, <2>3, <2>4 DEF StdPart
  <2> QED
    BY <1>2, <1>15, <2>1, <2>2, <2>5 DEF ProcGood
<1>18. HeldNow(q) = HeldFds(opened) /\ OwnStd(q) = c.at.std /\ OwnCwd(q) = OwnCwd(Top) /\ \A k \in Keys : OwnVar(q, k) = OwnVar(Top, k)
  <2>1. b # NoCall
    BY <1>11, CallParts
  <2> QED
    BY <1>1, <1>2, <1>11, <1>15, <2>1 DEF HeldNow, OwnStd, OwnCwd, OwnVar
<1>19. u \in Tabs /\ KeepsAt(tab, u, B)
  BY <1>3 DEF GoodTab, KeepsAt
<1>20. LinkGood(u, B, q)
  <2>1. Inherits(u, B, c.at.std)
    BY <1>2, <1>3, <1>19, InheritsStays
  <2> QED
    BY <1>2, <1>9, <1>11, <1>15, <1>18, <2>1 DEF LinkGood
<1>21. Open(u) = B \cup HeldNow(q)
  BY <1>3, <1>4, <1>9, <1>18
<1>22. FreshKept(Top, q, dirs) /\ q.call.pc # "wait" /\ (IsBuiltin(q.call.req) => Depth \in Shells)
  BY <1>2, <1>11, <1>15, <1>18 DEF FreshKept
<1>23. Good(SetTop(procs, q), u, dirs)
  BY <1>2, <1>3, <1>15, <1>17, <1>19, <1>20, <1>21, <1>22, TopChange
<1> QED
  BY <1>13, <1>16, <1>23

LEMMA NextRedirectFacts ==
  ASSUME Good(procs, tab, dirs), InCall("open"), MoreOpens
  PROVE  /\ Top.call.req \in Requests
         /\ NextRedirect.stream \in Std /\ NextRedirect.file \in Files \cup {None}
         /\ NextRedirect.file # None => NextRedirect.stream # STDIN /\ Top.call.req.api = "status"
<1> DEFINE c == Top.call
           R == Redirects(c.req)
           n == Len(c.opened)
<1>1. "open" \in Pcs
  BY DEF Pcs
<1>2. c \in Calling
  BY <1>1, InCallFacts
<1>3. n \in Nat /\ c.req \in Requests
  BY <1>2, CallParts
<1>4. R \in Seq(Redirections) /\ Len(R) \in Nat
  BY <1>3, RedirectsFacts
<1>5. n + 1 \in 1 .. Len(R) /\ NextRedirect = R[n + 1]
  BY <1>3, <1>4 DEF MoreOpens, NextRedirect
<1> QED
  BY <1>3, <1>5, RedirectsFacts

LEMMA OpenPipeStep ==
  ASSUME Inv, OpenPipe
  PROVE  Inv'
<1> DEFINE s == NextRedirect.stream
           a == abi_pipe(tab)
           fed == abi_write_fd(a.tab, content, a.write, Top.call.req.stdin).tab
<1>1. Good(procs, tab, dirs) /\ content \in Contents
  BY DEF Inv
<1>2. /\ InCall("open") /\ MoreOpens /\ CanPipe(tab) /\ UNCHANGED <<content, dirs, budget>>
      /\ IF s = STDIN THEN Opened(fed, s, a.read, a.write) ELSE Opened(a.tab, s, a.write, a.read)
  BY DEF OpenPipe, Keep
<1>3. procs # <<>>
  BY <1>2 DEF InCall
<1>4. GoodTab(tab) /\ tab \in Tabs
  BY <1>1, <1>3, TopFacts
<1>5. s \in Std /\ Top.call.req \in Requests
  BY <1>1, <1>2, NextRedirectFacts
<1>6. /\ a.read \in TableFds /\ a.write \in TableFds /\ a.read \notin Open(tab) /\ a.write \notin Open(tab)
      /\ a.read # a.write
  BY <1>2, <1>4, PipeFacts
<1>7. GoodTab(a.tab) /\ KeepsAt(tab, a.tab, Open(tab)) /\ Open(a.tab) = Open(tab) \cup {a.read, a.write}
  BY <1>2, <1>4, PipeKeeps
<1>8. PICK p \in PipeIds : a.tab.fds[a.read] = PipeRead(p) /\ a.tab.fds[a.write] = PipeWrite(p)
  BY <1>2, <1>4, PipeKeeps
<1> HIDE DEF a
<1>9. CASE s = STDIN
  <2> DEFINE o == [stream |-> s, child |-> a.read, own |-> a.write]
  <2>1. GoodTab(fed) /\ SameShape(a.tab, fed)
    <3>1. Top.call.req.stdin \in Seq(Bytes)
      BY <1>5, RequestParts
    <3> QED
      BY <1>1, <1>6, <1>7, <3>1, WriteFacts
  <2> HIDE DEF fed
  <2>2. a.tab \in Tabs /\ fed \in Tabs
    BY <1>7, <2>1 DEF GoodTab
  <2>3. KeepsAt(tab, fed, Open(tab)) /\ Open(fed) = Open(tab) \cup {a.write, a.read}
    BY <1>4, <1>7, <2>1, <2>2, KeepsThenShape, ShapeOpen
  <2>4. EntryGood(fed, o)
    <3>1. o \in Entries /\ Both(o) \subseteq TableFds
      BY <1>5, <1>6 DEF Entries, Both
    <3>2. EntryGood(a.tab, o)
      BY <1>6, <1>8, <1>9 DEF EntryGood, ChildEnd, OwnEnd
    <3>3. KeepsAt(a.tab, fed, TableFds)
      BY <2>1, <2>2, ShapeKeepsAt
    <3> HIDE DEF o
    <3> QED
      BY <3>1, <3>2, <3>3, EntryStays
  <2>5. Opened(fed, s, a.read, a.write)
    BY <1>2, <1>9
  <2>6. Good(procs', tab', dirs)
    BY <1>1, <1>2, <1>6, <2>1, <2>3, <2>4, <2>5, OpenedFacts
  <2> QED
    BY <1>1, <1>2, <2>6 DEF Inv
<1>10. CASE s # STDIN
  <2> DEFINE o == [stream |-> s, child |-> a.write, own |-> a.read]
  <2>1. EntryGood(a.tab, o)
    BY <1>6, <1>8, <1>10 DEF EntryGood, ChildEnd, OwnEnd
  <2>2. Opened(a.tab, s, a.write, a.read)
    BY <1>2, <1>10
  <2>3. Good(procs', tab', dirs)
    BY <1>1, <1>2, <1>6, <1>7, <2>1, <2>2, OpenedFacts
  <2> QED
    BY <1>1, <1>2, <2>3 DEF Inv
<1> QED
  BY <1>9, <1>10

LEMMA OpenFailsStep ==
  ASSUME Inv, OpenFails
  PROVE  Inv'
<1>1. Good(procs, tab, dirs)
  BY DEF Inv
<1>2. InCall("open") /\ Unwind(Top, Top.call) /\ UNCHANGED <<content, dirs, budget>>
  BY DEF OpenFails, Keep
<1>3. "open" \in Pcs /\ "open" \in Early
  BY DEF Pcs, Early
<1>4. procs # <<>> /\ Top.call \in Calling /\ Top.call.pc = "open" /\ StdPart(Top.std, Top.call)
  BY <1>1, <1>2, <1>3, InCallFacts
<1>5. Top \in Processes
  BY <1>1, <1>4, TopFacts
<1>6. IsBuiltin(Top.call.req) => Top.std = Top.call.at.std
  <2>1. IsBuiltin(Top.call.req) => Top.call.req.api # "status"
    BY DEF IsBuiltin, Builtins
  <2> QED
    BY <1>3, <1>4, <2>1 DEF StdPart, Standing
<1>7. Good(procs', tab', dirs)
  BY <1>1, <1>2, <1>5, <1>6, UnwindFacts
<1> QED
  BY <1>2, <1>7 DEF Inv

LEMMA OpenFileStep ==
  ASSUME Inv, OpenFile
  PROVE  Inv'
<1> DEFINE s == NextRedirect.stream
           f == NextRedirect.file
           a == abi_open(tab, f)
           o == [stream |-> s, child |-> a.fd, own |-> a.fd]
<1>1. Good(procs, tab, dirs) /\ content \in Contents /\ dirs \subseteq Dirs /\ budget \in 0 .. Budget
  BY DEF Inv
<1>2. /\ InCall("open") /\ MoreOpens /\ f # None /\ UNCHANGED <<dirs, budget>>
      /\ content' = [content EXCEPT ![f] = [by |-> Depth, data |-> <<>>]]
      /\ IF CanOpen(tab) THEN Opened(a.tab, s, a.fd, a.fd) ELSE Unwind(Top, Top.call)
  BY DEF OpenFile
<1>3. procs # <<>>
  BY <1>2 DEF InCall
<1>4. GoodTab(tab) /\ tab \in Tabs /\ Depth \in Nat /\ Top \in Processes
  BY <1>1, <1>3, TopFacts
<1>5. s \in Std /\ Top.call.req \in Requests /\ f \in Files /\ s # STDIN /\ Top.call.req.api = "status"
  BY <1>1, <1>2, NextRedirectFacts
<1>6. content' \in Contents
  <2> DEFINE x == [by |-> Depth, data |-> <<>>]
  <2>1. x \in [by : Nat, data : Seq(Bytes)]
    BY <1>4
  <2> HIDE DEF x
  <2>2. content' = [content EXCEPT ![f] = x]
    BY <1>2 DEF x
  <2> QED
    BY <1>1, <1>5, <2>1, <2>2 DEF Contents
<1>7. CASE CanOpen(tab)
  <2>1. /\ GoodTab(a.tab) /\ KeepsAt(tab, a.tab, Open(tab)) /\ Open(a.tab) = Open(tab) \cup {a.fd}
        /\ a.fd \in TableFds /\ a.fd \notin Open(tab) /\ a.tab.fds[a.fd] = Pfs(f, 0)
    BY <1>4, <1>5, <1>7, OpenKeeps
  <2> HIDE DEF a
  <2>2. EntryGood(a.tab, o)
    BY <1>5, <2>1, HandleMembers DEF EntryGood
  <2>3. Opened(a.tab, s, a.fd, a.fd) /\ Open(a.tab) = Open(tab) \cup {a.fd, a.fd}
    BY <1>2, <1>7, <2>1
  <2>4. Good(procs', tab', dirs)
    BY <1>1, <1>2, <2>1, <2>2, <2>3, OpenedFacts
  <2> QED
    BY <1>1, <1>2, <1>6, <2>4 DEF Inv
<1>8. CASE ~CanOpen(tab)
  <2>1. ~IsBuiltin(Top.call.req)
    BY <1>5 DEF IsBuiltin, Builtins
  <2>2. Good(procs', tab', dirs)
    BY <1>1, <1>2, <1>4, <1>8, <2>1, UnwindFacts
  <2> QED
    BY <1>1, <1>2, <1>6, <2>2 DEF Inv
<1> QED
  BY <1>7, <1>8

LEMMA EntryUsable ==
  ASSUME NEW t, GoodTab(t), NEW o \in Entries, EntryGood(t, o)
  PROVE  UsableFd(t, o.stream, o.child)
<1>1. t \in Tabs /\ Matched(t) /\ o.child \in TableFds /\ o.own \in TableFds /\ o.stream \in Std
  BY DEF GoodTab, Entries
<1>2. CASE o.own = o.child
  <2>1. t.fds[o.child].kind = "Pfs" /\ o.stream # STDIN
    BY <1>2 DEF EntryGood
  <2>2. o.child \in Open(t)
    BY <1>1, <2>1, OpenIs
  <2> QED
    BY <2>1, <2>2 DEF UsableFd
<1>3. CASE o.own # o.child
  <2>1. PICK p \in PipeIds : t.fds[o.child] = ChildEnd(o.stream, p) /\ t.fds[o.own] = OwnEnd(o.stream, p)
    BY <1>3 DEF EntryGood
  <2>2. /\ t.fds[o.child].pipe = p /\ t.fds[o.own].pipe = p
        /\ t.fds[o.child].kind = IF o.stream = STDIN THEN "PipeRead" ELSE "PipeWrite"
        /\ t.fds[o.own].kind = IF o.stream = STDIN THEN "PipeWrite" ELSE "PipeRead"
    BY <2>1, HandleMembers DEF ChildEnd, OwnEnd
  <2>3. EndOpen(t, t.fds[o.child]) /\ EndOpen(t, t.fds[o.own])
    BY <1>1, <2>2 DEF Matched, IsEnd
  <2>4. t.pipes[p].read_open /\ t.pipes[p].write_open
    BY <2>2, <2>3 DEF EndOpen
  <2>5. o.child \in Open(t)
    BY <1>1, <2>2, OpenIs
  <2> QED
    BY <2>2, <2>4, <2>5 DEF UsableFd
<1> QED
  BY <1>2, <1>3

\* The streams stand for what was opened, everything is open.
LEMMA RedirectedFacts ==
  ASSUME Good(procs, tab, dirs), InCall("open"), ~MoreOpens
  PROVE  /\ Redirected \in Processes /\ Redirected.call = Top.call /\ Redirected.env = Top.env /\ Redirected.cwd = Top.cwd
         /\ Redirected.sink = Top.sink /\ Redirected.fresh = Top.fresh
         /\ Stood(Redirected.std, Top.call.at.std, Top.call.opened)
         /\ Len(Top.call.opened) = Len(Redirects(Top.call.req))
<1> DEFINE c == Top.call
           R == Redirects(c.req)
           std == dup2_all(tab, Top.std, c.opened)
<1>1. "open" \in Pcs /\ "open" \in Early /\ "open" \in Holding
  BY DEF Pcs, Early, Holding
<1>2. /\ procs # <<>> /\ c \in Calling /\ c # NoCall /\ c.pc = "open" /\ StdPart(Top.std, c)
  BY <1>1, InCallFacts
<1>3. Top \in Processes /\ Open(tab) = Below(procs, Depth) \cup HeldNow(Top) /\ Top.std \in Stds
  BY <1>2, TopFacts, ProcParts
<1>4. HeldNow(Top) = HeldFds(c.opened) /\ c.opened \in Seq(Entries) /\ c.req \in Requests
  BY <1>1, <1>2, CallParts DEF HeldNow
<1>5. Len(c.opened) = Len(R) /\ R \in Seq(Redirections) /\ \A i \in 1 .. Len(c.opened) : c.opened[i].stream = R[i].stream
  BY <1>2, <1>4, RedirectsFacts DEF MoreOpens, StdPart
<1>6. OneStream(c.opened)
  BY <1>4, <1>5, RedirectsFacts DEF OneStream
<1>7. \A i \in 1 .. Len(c.opened) : c.opened[i].child \in Open(tab)
  <2>1. \A i \in 1 .. Len(c.opened) : c.opened[i] \in Entries
    BY <1>4
  <2>2. \A i \in 1 .. Len(c.opened) : c.opened[i].child \in HeldFds(c.opened)
    BY <2>1 DEF HeldFds, Both, Entries
  <2> QED
    BY <1>3, <1>4, <2>2
<1>8. std \in Stds /\ Stood(std, Top.std, c.opened)
  BY <1>3, <1>4, <1>6, <1>7, DupAllFacts
<1>9. Redirected = [Top EXCEPT !.std = std]
  BY DEF Redirected
<1> HIDE DEF std
<1>10. Stood(std, c.at.std, c.opened)
  <2>1. \A s \in Std : (\A i \in 1 .. Len(c.opened) : c.opened[i].stream # s) => Top.std[s] = c.at.std[s]
    BY <1>1, <1>2 DEF StdPart, Standing, Stood
  <2> QED
    BY <1>8, <2>1 DEF Stood
<1> QED
  BY <1>3, <1>5, <1>8, <1>9, <1>10 DEF Processes

\* The child's standard descriptors.
LEMMA StoodInherits ==
  ASSUME NEW t, GoodTab(t), NEW B, B \subseteq Open(t), NEW c \in Calling, EntriesGood(t, B, c.opened),
         Inherits(t, B, c.at.std), NEW std, Stood(std, c.at.std, c.opened)
  PROVE  Inherits(t, Open(t), std)
<1> SUFFICES ASSUME NEW s \in Std PROVE std[s] = s \/ (std[s] \in Open(t) /\ UsableFd(t, s, std[s]))
  BY DEF Inherits
<1>1. c.opened \in Seq(Entries)
  BY CallParts
<1>2. CASE \E i \in 1 .. Len(c.opened) : c.opened[i].stream = s
  <2>1. PICK i \in 1 .. Len(c.opened) : c.opened[i].stream = s
    BY <1>2
  <2>2. c.opened[i] \in Entries /\ EntryGood(t, c.opened[i]) /\ std[s] = c.opened[i].child
    BY <1>1, <2>1 DEF EntriesGood, Stood
  <2>3. UsableFd(t, s, std[s])
    BY <2>1, <2>2, EntryUsable
  <2> QED
    BY <2>3 DEF UsableFd
<1>3. CASE \A i \in 1 .. Len(c.opened) : c.opened[i].stream # s
  <2>1. std[s] = c.at.std[s]
    BY <1>3 DEF Stood
  <2> QED
    BY <2>1 DEF Inherits
<1> QED
  BY <1>2, <1>3

\* A chain with another last process and one more behind it.
Grown(ch, w, x) == Append(SetTop(ch, w), x)

GrowsTo(ch, w, x, v) ==
    /\ v \in Seq(Processes) /\ Len(v) = Len(ch) + 1 /\ v # <<>>
    /\ v[Len(ch) + 1] = x /\ v[Len(ch)] = w
    /\ \A d \in 1 .. Len(ch) - 1 : v[d] = ch[d]
    /\ \A d \in 1 .. Len(ch) : Below(v, d) = Below(ch, d)
    /\ Below(v, Len(ch) + 1) = w.call.at.open \cup HeldFds(w.call.opened)

LEMMA GrownFacts ==
  ASSUME NEW ch \in Seq(Processes), ch # <<>>, NEW w \in Processes, NEW x \in Processes
  PROVE  GrowsTo(ch, w, x, Grown(ch, w, x))
<1> DEFINE n == Len(ch)
           u == SetTop(ch, w)
           v == Append(u, x)
<1>1. /\ n \in Nat /\ n \in 1 .. n /\ n # 0
      /\ u \in Seq(Processes) /\ Len(u) = n /\ u[n] = w /\ \A d \in 1 .. n - 1 : u[d] = ch[d]
      /\ \A d \in 1 .. n : Below(u, d) = Below(ch, d)
  <2>1. n \in Nat /\ n \in 1 .. n /\ n # 0
    OBVIOUS
  <2> QED
    BY <2>1, SetTopFacts
<1> HIDE DEF u
<1>2. v \in Seq(Processes) /\ Len(v) = n + 1 /\ v[n + 1] = x /\ \A d \in 1 .. n : v[d] = u[d]
  BY <1>1
<1> HIDE DEF v
<1>3. v # <<>>
  BY <1>1, <1>2
<1>4. \A d \in 1 .. n - 1 : d \in 1 .. n
  BY <1>1
<1>5. ASSUME NEW d \in 1 .. n PROVE Below(v, d) = Below(u, d)
  <2>1. CASE d = 1
    BY <2>1 DEF Below
  <2>2. CASE d # 1
    <3>1. d - 1 \in 1 .. n
      BY <1>1, <2>2
    <3> QED
      BY <1>2, <2>2, <3>1 DEF Below
  <2> QED
    BY <2>1, <2>2
<1>6. Below(v, n + 1) = w.call.at.open \cup HeldFds(w.call.opened)
  <2>1. n + 1 # 1 /\ (n + 1) - 1 = n
    BY <1>1
  <2> QED
    BY <1>1, <1>2, <2>1 DEF Below
<1>7. GrowsTo(ch, w, x, v)
  BY <1>1, <1>2, <1>3, <1>4, <1>5, <1>6 DEF GrowsTo
<1> QED
  BY <1>7 DEF v, u, Grown

\* The child has what its caller has just set up, and holds nothing of its own.
LEMMA SpawnStep ==
  ASSUME Inv, Spawn
  PROVE  Inv'
<1> DEFINE c == Top.call
           p == Redirected
           B == Below(procs, Depth)
           n == Depth
           w == WithPc(p, "wait")
           sink == [s \in Std |-> IF s \in Streams(p.call.opened) THEN Depth ELSE p.sink[s]]
           x == [p EXCEPT !.call = NoCall, !.fresh = TRUE, !.sink = sink]
           v == Grown(procs, w, x)
<1>1. Good(procs, tab, dirs)
  BY DEF Inv
<1>2. InCall("open") /\ ~MoreOpens /\ Depth < MaxDepth /\ UNCHANGED <<tab, content, dirs, budget>>
  BY DEF Spawn, Keep
<1>3. "open" \in Pcs /\ "open" \in Early /\ "open" \in Holding /\ "wait" \in Pcs /\ "wait" \in Early /\ "wait" \in Holding
  BY DEF Pcs, Early, Holding
<1>4. /\ procs # <<>> /\ c \in Calling /\ c # NoCall /\ c.pc = "open"
      /\ KeysUnique(Top.env) /\ EnvPart(Top.env, c) /\ CwdPart(Top.cwd, c, dirs) /\ StdPart(Top.std, c)
      /\ c.at.open = B /\ Inherits(tab, B, c.at.std) /\ EntriesGood(tab, B, c.opened)
      /\ IsBuiltin(c.req) => Depth \in Shells
  BY <1>1, <1>2, <1>3, InCallFacts
<1>5. /\ Top \in Processes /\ Top = procs[Len(procs)] /\ Depth = Len(procs) /\ GoodTab(tab) /\ Open(tab) = B \cup HeldNow(Top)
      /\ procs \in Seq(Processes) /\ n \in Nat /\ n \in 1 .. n
      /\ \A s \in Std : Top.sink[s] \in Nat /\ Top.sink[s] < n
  BY <1>1, <1>4, TopFacts, GoodParts, ProcParts
<1>6. /\ p \in Processes /\ p.call = c /\ p.env = Top.env /\ p.cwd = Top.cwd /\ p.sink = Top.sink /\ p.fresh = Top.fresh
      /\ Stood(p.std, c.at.std, c.opened) /\ Len(c.opened) = Len(Redirects(c.req))
  BY <1>1, <1>2, RedirectedFacts
<1>7. procs' = v
  <2>1. procs' = Append([procs EXCEPT ![Depth] = [p EXCEPT !.call.pc = "wait"]], x)
    BY DEF Spawn, x, sink
  <2> QED
    BY <1>5, <2>1 DEF v, SetTop, w, WithPc, Grown
<1> HIDE DEF p
<1>8. /\ w \in Processes /\ w.std = p.std /\ w.cwd = p.cwd /\ w.env = p.env /\ w.sink = p.sink /\ w.fresh = p.fresh
      /\ w.call \in Calling /\ w.call.pc = "wait" /\ w.call.req = c.req /\ w.call.at = c.at
      /\ w.call.saved = c.saved /\ w.call.savedCwd = c.savedCwd /\ w.call.restores = c.restores
      /\ w.call.opened = c.opened
  BY <1>3, <1>4, <1>6, WithPcFacts
<1> HIDE DEF w
<1>9. sink \in [Std -> Nat] /\ \A s \in Std : sink[s] < n + 1
  BY <1>5, <1>6
<1> HIDE DEF sink
<1>10. /\ x \in Processes /\ x.call = NoCall /\ x.fresh = TRUE /\ x.sink = sink /\ x.std = p.std /\ x.env = p.env /\ x.cwd = p.cwd
  BY <1>6, <1>9 DEF Processes
<1> HIDE DEF x
<1>11. HeldNow(Top) = HeldFds(c.opened) /\ HeldNow(w) = HeldFds(c.opened) /\ HeldNow(x) = {}
       /\ OwnStd(w) = c.at.std /\ OwnStd(x) = p.std /\ w.call # NoCall
       /\ OwnCwd(w) = OwnCwd(Top) /\ \A k \in Keys : OwnVar(w, k) = OwnVar(Top, k)
  <2>1. w.call # NoCall
    BY <1>8, CallParts
  <2> QED
    BY <1>3, <1>4, <1>8, <1>10, <2>1 DEF HeldNow, OwnStd, OwnCwd, OwnVar
<1>12. /\ v \in Seq(Processes) /\ Len(v) = n + 1 /\ v # <<>> /\ v[n + 1] = x /\ v[n] = w
       /\ \A d \in 1 .. n - 1 : v[d] = procs[d]
       /\ \A d \in 1 .. n : Below(v, d) = Below(procs, d)
       /\ Below(v, n + 1) = Open(tab)
  <2> DEFINE m == Len(procs)
  <2>1. /\ v \in Seq(Processes) /\ Len(v) = m + 1 /\ v # <<>> /\ v[m + 1] = x /\ v[m] = w
        /\ \A d \in 1 .. m - 1 : v[d] = procs[d]
        /\ \A d \in 1 .. m : Below(v, d) = Below(procs, d)
        /\ Below(v, m + 1) = w.call.at.open \cup HeldFds(w.call.opened)
    <3>1. procs \in Seq(Processes) /\ procs # <<>> /\ w \in Processes /\ x \in Processes
      BY <1>4, <1>5, <1>8, <1>10
    <3>2. GrowsTo(procs, w, x, v)
      BY <3>1, GrownFacts
    <3> HIDE DEF v
    <3> QED
      BY <3>2 DEF GrowsTo
  <2>2. Below(v, m + 1) = Open(tab)
    BY <1>4, <1>5, <1>8, <1>11, <2>1
  <2>3. m = n
    BY <1>5
  <2> HIDE DEF m, v
  <2> QED
    BY <2>1, <2>2, <2>3
<1> HIDE DEF v
<1>13. /\ \A d \in 1 .. n + 1 : d = n + 1 \/ d = n \/ d \in 1 .. n - 1
       /\ \A d \in 1 .. n - 1 : d \in 1 .. n /\ d < n + 1 /\ d < n
       /\ n < n + 1 /\ ~(n + 1 < n + 1)
  BY <1>5
<1>14. Chain(v)
  <2>1. ASSUME NEW d \in 1 .. n + 1
        PROVE  /\ \A s \in Std : v[d].sink[s] < d
               /\ v[d].call.pc = "wait" <=> d < n + 1
               /\ v[d].call # NoCall /\ IsBuiltin(v[d].call.req) => d \in Shells
    <3>1. CASE d = n + 1
      BY <1>9, <1>10, <1>12, <1>13, <3>1 DEF NoCall
    <3>2. CASE d = n
      BY <1>4, <1>5, <1>6, <1>8, <1>12, <1>13, <3>2
    <3>3. CASE d \in 1 .. n - 1
      <4>1. v[d] = procs[d] /\ d \in 1 .. Len(procs) /\ d < Len(procs) /\ d < n + 1
        BY <1>5, <1>12, <1>13, <3>3
      <4> QED
        BY <1>1, <4>1, GoodParts
    <3> QED
      BY <1>13, <3>1, <3>2, <3>3
  <2>2. n + 1 <= MaxDepth
    BY <1>2, <1>5, CommandAssumption
  <2> QED
    BY <1>12, <2>1, <2>2 DEF Chain
<1>15. ProcGood(w, dirs)
  <2>1. EnvPart(w.env, w.call)
    BY <1>3, <1>4, <1>6, <1>8, SMTT(30) DEF EnvPart
  <2>2. CwdPart(w.cwd, w.call, dirs)
    BY <1>3, <1>4, <1>6, <1>8 DEF CwdPart, Dir
  <2>3. StdPart(w.std, w.call)
    BY <1>4, <1>6, <1>8 DEF StdPart, Standing
  <2> QED
    BY <1>4, <1>6, <1>8, <2>1, <2>2, <2>3 DEF ProcGood
<1>16. ProcGood(x, dirs)
  BY <1>4, <1>6, <1>10 DEF ProcGood
<1>17. \A d \in 1 .. n + 1 : ProcGood(v[d], dirs)
  BY <1>1, <1>5, <1>12, <1>13, <1>15, <1>16, GoodParts
<1>18. LinkGood(tab, B, w)
  BY <1>3, <1>4, <1>8, <1>11 DEF LinkGood
<1>19. LinkGood(tab, Open(tab), x)
  <2>1. B \subseteq Open(tab)
    BY <1>5
  <2>2. Inherits(tab, Open(tab), p.std)
    BY <1>4, <1>5, <1>6, <2>1, StoodInherits
  <2> QED
    BY <1>10, <1>11, <2>2 DEF LinkGood
<1>20. ASSUME NEW d \in 1 .. n + 1 PROVE LinkGood(tab, Below(v, d), v[d])
  <2>1. CASE d = n + 1
    BY <1>12, <1>19, <2>1
  <2>2. CASE d = n
    BY <1>5, <1>12, <1>18, <2>2
  <2>3. CASE d \in 1 .. n - 1
    BY <1>1, <1>5, <1>12, <1>13, <2>3, GoodParts
  <2> QED
    BY <1>13, <2>1, <2>2, <2>3
<1>21. ASSUME NEW d \in 1 .. n + 1, NEW e \in 1 .. n + 1, d <= e PROVE Below(v, d) \subseteq Below(v, e)
  <2>1. CASE e = n + 1
    <3>1. CASE d = n + 1
      BY <2>1, <3>1
    <3>2. CASE d # n + 1
      <4>1. d \in 1 .. n /\ d <= n
        BY <1>5, <3>2
      <4>2. Below(procs, d) \subseteq B
        BY <1>1, <1>5, <4>1, GoodParts
      <4> QED
        BY <1>5, <1>12, <2>1, <4>1, <4>2
    <3> QED
      BY <3>1, <3>2
  <2>2. CASE e # n + 1
    <3>1. d \in 1 .. n /\ e \in 1 .. n
      BY <1>5, <1>21, <2>2
    <3>2. Below(procs, d) \subseteq Below(procs, e)
      BY <1>1, <1>5, <1>21, <3>1, GoodParts
    <3> QED
      BY <1>12, <3>1, <3>2
  <2> QED
    BY <2>1, <2>2
<1>22. ASSUME NEW d \in 1 .. n PROVE FreshGood(v[d].call, v[d + 1], dirs)
  <2>1. CASE d = n
    <3>1. \A k \in Keys : OwnVar(x, k) = Overlaid(c.at.vars, c.req.env, Len(c.req.env))[k]
      BY <1>3, <1>4, <1>6, <1>10 DEF OwnVar, EnvPart
    <3>2. OwnCwd(x) = Dir(w.call)
      BY <1>3, <1>4, <1>6, <1>8, <1>10 DEF OwnCwd, CwdPart, Dir
    <3> QED
      BY <1>8, <1>12, <2>1, <3>1, <3>2 DEF FreshGood
  <2>2. CASE d # n
    <3>1. d \in 1 .. n - 1 /\ d \in 1 .. Len(procs) - 1
      BY <1>5, <2>2
    <3>2. FreshGood(procs[d].call, procs[d + 1], dirs)
      BY <1>1, <3>1, GoodParts
    <3>3. CASE d + 1 = n
      <4>1. procs[d + 1] = Top /\ v[d + 1] = w /\ v[d] = procs[d]
        BY <1>5, <1>12, <3>1, <3>3
      <4> QED
        BY <1>6, <1>8, <1>11, <3>2, <4>1 DEF FreshGood
    <3>4. CASE d + 1 # n
      <4>1. d + 1 \in 1 .. n - 1
        BY <1>5, <3>1, <3>4
      <4> QED
        BY <1>12, <3>1, <3>2, <4>1
    <3> QED
      BY <3>3, <3>4
  <2> QED
    BY <2>1, <2>2
<1>23. Good(v, tab, dirs)
  <2>1. (n + 1) - 1 = n
    BY <1>5
  <2>2. Open(tab) = Below(v, n + 1) \cup HeldNow(v[n + 1])
    BY <1>11, <1>12
  <2> QED
    BY <1>5, <1>12, <1>14, <1>17, <1>20, <1>21, <1>22, <2>1, <2>2 DEF Good
<1> QED
  BY <1>2, <1>7, <1>23 DEF Inv

LEMMA SpawnFailsStep ==
  ASSUME Inv, SpawnFails
  PROVE  Inv'
<1> DEFINE c == Top.call
           p == Redirected
           q == WithPc(p, "reap")
<1>1. Good(procs, tab, dirs)
  BY DEF Inv
<1>2. InCall("open") /\ ~MoreOpens /\ UNCHANGED <<content, dirs, budget>>
  BY DEF SpawnFails, Keep
<1>3. "open" \in Pcs /\ "open" \in Early /\ "open" \in Holding /\ "reap" \in Pcs /\ "reap" \in Early /\ "reap" \in Holding
  BY DEF Pcs, Early, Holding
<1>4. /\ procs # <<>> /\ c \in Calling /\ c # NoCall /\ c.pc = "open"
      /\ KeysUnique(Top.env) /\ EnvPart(Top.env, c) /\ CwdPart(Top.cwd, c, dirs) /\ StdPart(Top.std, c)
  BY <1>1, <1>2, <1>3, InCallFacts
<1>5. Top \in Processes /\ Top = procs[Len(procs)] /\ Depth = Len(procs)
  BY <1>1, <1>4, TopFacts
<1>6. /\ p \in Processes /\ p.call = c /\ p.env = Top.env /\ p.cwd = Top.cwd /\ p.sink = Top.sink /\ p.fresh = Top.fresh
      /\ Stood(p.std, c.at.std, c.opened) /\ Len(c.opened) = Len(Redirects(c.req))
  BY <1>1, <1>2, RedirectedFacts
<1>7. CASE IsBuiltin(c.req)
  <2>1. procs' = [procs EXCEPT ![Depth] = [p EXCEPT !.call.pc = "reap"]] /\ tab' = tab
    BY <1>7 DEF SpawnFails
  <2>2. procs' = SetTop(procs, q)
    BY <1>5, <2>1 DEF SetTop, WithPc
  <2> HIDE DEF p
  <2>3. /\ q \in Processes /\ q.std = p.std /\ q.cwd = p.cwd /\ q.env = p.env /\ q.sink = p.sink /\ q.fresh = p.fresh
        /\ q.call \in Calling /\ q.call.pc = "reap" /\ q.call.req = c.req /\ q.call.at = c.at
        /\ q.call.saved = c.saved /\ q.call.savedCwd = c.savedCwd /\ q.call.restores = c.restores
        /\ q.call.opened = c.opened
    BY <1>3, <1>4, <1>6, WithPcFacts
  <2> HIDE DEF q
  <2>4. ProcGood(q, dirs)
    <3>1. EnvPart(q.env, q.call)
      BY <1>3, <1>4, <1>6, <2>3, SMTT(30) DEF EnvPart
    <3>2. CwdPart(q.cwd, q.call, dirs)
      BY <1>3, <1>4, <1>6, <2>3 DEF CwdPart, Dir
    <3>3. StdPart(q.std, q.call)
      BY <1>4, <1>6, <2>3 DEF StdPart, Standing
    <3> QED
      BY <1>4, <1>6, <2>3, <3>1, <3>2, <3>3 DEF ProcGood
  <2>5. Good(SetTop(procs, q), tab, dirs)
    BY <1>1, <1>3, <1>4, <1>5, <1>6, <2>3, <2>4, TopOnly
  <2> QED
    BY <1>2, <2>1, <2>2, <2>5 DEF Inv
<1>8. CASE ~IsBuiltin(c.req)
  <2>1. Unwind(p, c)
    BY <1>8 DEF SpawnFails
  <2> HIDE DEF p
  <2>2. Good(procs', tab', dirs)
    BY <1>1, <1>2, <1>6, <1>8, <2>1, UnwindFacts
  <2> QED
    BY <1>2, <2>2 DEF Inv
<1> QED
  BY <1>7, <1>8

LEMMA WaitFailsStep ==
  ASSUME Inv, WaitFails
  PROVE  Inv'
<1>1. Good(procs, tab, dirs)
  BY DEF Inv
<1>2. InCall("reap") /\ ~IsBuiltin(Top.call.req) /\ Unwind(Top, Top.call) /\ UNCHANGED <<content, dirs, budget>>
  BY DEF WaitFails, Keep
<1>3. Top \in Processes
  BY <1>1, <1>2, TopFacts DEF InCall
<1>4. Good(procs', tab', dirs)
  BY <1>1, <1>2, <1>3, UnwindFacts
<1> QED
  BY <1>2, <1>4 DEF Inv

\* What a request captures.
LEMMA CapturedType ==
  ASSUME NEW req \in Requests
  PROVE  Captured(req) \in Seq(Std)
<1> DEFINE r == Apis[req.api].reads
<1>1. r \in {<<1, 2>>, <<1>>, <<>>}
  BY ApiPipes
<1>2. Captured(req) = r
  BY DEF Captured
<1> HIDE DEF r
<1>3. 1 \in Std /\ 2 \in Std
  BY DEF Std
<1>4. <<1, 2>> \in Seq(Std) /\ <<1>> \in Seq(Std) /\ <<>> \in Seq(Std)
  BY <1>3
<1> QED
  BY <1>1, <1>2, <1>4

\* A process that is about to read.
ToRead(p, r) == [p EXCEPT !.call.pc = "read", !.call.unread = r]

LEMMA ToReadFacts ==
  ASSUME NEW p \in Processes, p.call \in Calling, NEW r \in Seq(Std)
  PROVE  LET q == ToRead(p, r)
         IN  /\ q \in Processes /\ q.std = p.std /\ q.cwd = p.cwd /\ q.env = p.env /\ q.sink = p.sink /\ q.fresh = p.fresh
             /\ q.call \in Calling /\ q.call.pc = "read" /\ q.call.req = p.call.req /\ q.call.at = p.call.at
             /\ q.call.saved = p.call.saved /\ q.call.savedCwd = p.call.savedCwd /\ q.call.restores = p.call.restores
             /\ q.call.opened = p.call.opened /\ q.call.unread = r /\ q.call.got = p.call.got
             /\ q.call.log = p.call.log
<1> DEFINE c == p.call
           b == [c EXCEPT !.pc = "read", !.unread = r]
           q == [p EXCEPT !.call = b]
<1>1. "read" \in Pcs
  BY DEF Pcs
<1>2. /\ b \in Calling /\ b.pc = "read" /\ b.req = c.req /\ b.saved = c.saved /\ b.savedCwd = c.savedCwd
      /\ b.restores = c.restores /\ b.opened = c.opened /\ b.at = c.at /\ b.log = c.log
      /\ b.got = c.got /\ b.unread = r
  BY <1>1 DEF Calling
<1>3. ToRead(p, r) = q
  BY DEF ToRead
<1> HIDE DEF b
<1>4. q \in Processes /\ q.call = b /\ q.std = p.std /\ q.cwd = p.cwd /\ q.env = p.env /\ q.sink = p.sink /\ q.fresh = p.fresh
  BY <1>2 DEF Processes
<1> QED
  BY <1>2, <1>3, <1>4

LEMMA CollectStep ==
  ASSUME Inv, Collect
  PROVE  Inv'
<1> DEFINE c == Top.call
           p == Restored(Top, c)
           q == ToRead(p, Captured(c.req))
<1>1. Good(procs, tab, dirs)
  BY DEF Inv
<1>2. InCall("reap") /\ UNCHANGED <<tab, content, dirs, budget>>
  BY DEF Collect, Keep
<1>3. "reap" \in Pcs /\ "reap" \in Early /\ "reap" \in Holding /\ "read" \notin Early /\ "read" \in Holding
  BY DEF Pcs, Early, Holding
<1>4. /\ procs # <<>> /\ c \in Calling /\ c # NoCall /\ c.pc = "reap"
      /\ KeysUnique(Top.env) /\ EnvPart(Top.env, c) /\ CwdPart(Top.cwd, c, dirs) /\ StdPart(Top.std, c)
      /\ Inherits(tab, Below(procs, Depth), c.at.std)
  BY <1>1, <1>2, <1>3, InCallFacts
<1>5. Top \in Processes /\ Top = procs[Len(procs)] /\ Depth = Len(procs)
  BY <1>1, <1>4, TopFacts
<1>6. procs' = SetTop(procs, q)
  BY <1>5 DEF Collect, SetTop, ToRead
<1>7. c.saved = c.at.std
  BY <1>4 DEF StdPart
<1>8. /\ p \in Processes /\ p.call = c /\ p.sink = Top.sink /\ p.fresh = Top.fresh
      /\ KeysUnique(p.env) /\ \A k \in Keys : env_lookup(p.env, k) = c.at.vars[k]
      /\ p.cwd = c.at.cwd \/ c.at.cwd \notin dirs \cup {Root}
      /\ \A s \in Std : p.std[s] = c.at.std[s] \/ (IsBuiltin(c.req) /\ p.std[s] = s)
  BY <1>3, <1>4, <1>5, <1>7, RestoredFacts
<1> HIDE DEF p
<1>9. Captured(c.req) \in Seq(Std)
  BY <1>4, CallParts, CapturedType
<1>10. /\ q \in Processes /\ q.std = p.std /\ q.cwd = p.cwd /\ q.env = p.env /\ q.sink = p.sink /\ q.fresh = p.fresh
       /\ q.call \in Calling /\ q.call.pc = "read" /\ q.call.req = c.req /\ q.call.at = c.at
       /\ q.call.saved = c.saved /\ q.call.savedCwd = c.savedCwd /\ q.call.restores = c.restores
       /\ q.call.opened = c.opened
  BY <1>4, <1>8, <1>9, ToReadFacts
<1> HIDE DEF q
<1>11. ProcGood(q, dirs)
  <2>1. EnvPart(q.env, q.call)
    BY <1>3, <1>8, <1>10 DEF EnvPart
  <2>2. CwdPart(q.cwd, q.call, dirs)
    BY <1>3, <1>4, <1>8, <1>10 DEF CwdPart
  <2>3. StdPart(q.std, q.call)
    BY <1>3, <1>4, <1>8, <1>10 DEF StdPart, Standing
  <2> QED
    BY <1>8, <1>10, <2>1, <2>2, <2>3 DEF ProcGood
<1>12. Good(SetTop(procs, q), tab, dirs)
  BY <1>1, <1>3, <1>4, <1>5, <1>8, <1>10, <1>11, TopOnly
<1> QED
  BY <1>2, <1>6, <1>12 DEF Inv

\* Once the context is restored, a call goes on without changing it.
LEMMA LatePc ==
  ASSUME NEW p \in Processes, p.call \in Calling, NEW D, ProcGood(p, D),
         p.call.pc \in {"read", "close"}, NEW pc \in {"close", "done"}
  PROVE  ProcGood(WithPc(p, pc), D)
<1> DEFINE c == p.call
           q == WithPc(p, pc)
<1>1. pc \in Pcs /\ pc \notin Early /\ c.pc \notin Early /\ pc \notin {"env", "open", "wait", "reap"}
      /\ c.pc \in {"wait", "reap", "read", "close", "done"} /\ c.pc \notin {"env", "open", "wait", "reap"}
  BY DEF Pcs, Early
<1>2. c # NoCall
  BY CallParts
<1>3. /\ q \in Processes /\ q.std = p.std /\ q.cwd = p.cwd /\ q.env = p.env
      /\ q.call \in Calling /\ q.call.pc = pc /\ q.call.req = c.req /\ q.call.at = c.at
      /\ q.call.saved = c.saved /\ q.call.savedCwd = c.savedCwd /\ q.call.restores = c.restores
      /\ q.call.opened = c.opened
  BY <1>1, WithPcFacts
<1> HIDE DEF q
<1>4. EnvPart(q.env, q.call)
  BY <1>1, <1>2, <1>3 DEF EnvPart, ProcGood
<1>5. CwdPart(q.cwd, q.call, D)
  BY <1>1, <1>2, <1>3 DEF CwdPart, ProcGood
<1>6. StdPart(q.std, q.call)
  BY <1>1, <1>2, <1>3 DEF StdPart, Standing, ProcGood
<1>7. ProcGood(q, D)
  BY <1>2, <1>3, <1>4, <1>5, <1>6 DEF ProcGood
<1> QED
  BY <1>7 DEF q

LEMMA CloseAllStep ==
  ASSUME Inv, CloseAll
  PROVE  Inv'
<1> DEFINE c == Top.call
           q == WithPc(Top, "done")
<1>1. Good(procs, tab, dirs)
  BY DEF Inv
<1>2. /\ procs # <<>> /\ c.pc \in {"read", "close"} /\ tab' = close_many(tab, c.opened)
      /\ procs' = [procs EXCEPT ![Depth].call.pc = "done"] /\ UNCHANGED <<content, dirs, budget>>
  BY DEF CloseAll, InCall, Keep
<1>3. c.pc # "none" /\ c.pc \in Holding /\ "done" \in Pcs
  BY <1>2 DEF Holding, Pcs
<1>4. Top \in Processes /\ Top = procs[Len(procs)] /\ Depth = Len(procs) /\ ProcGood(Top, dirs)
  BY <1>1, <1>2, TopFacts
<1>5. c \in Calling
  BY <1>3, <1>4, ProcParts
<1>6. procs' = SetTop(procs, q)
  BY <1>2 DEF SetTop, WithPc, Top, Depth
<1>7. ProcGood(q, dirs)
  BY <1>2, <1>4, <1>5, LatePc
<1>8. /\ q \in Processes /\ q.sink = Top.sink /\ q.fresh = Top.fresh
      /\ q.call \in Calling /\ q.call.pc = "done" /\ q.call.req = c.req /\ q.call.at = c.at
  BY <1>3, <1>4, <1>5, WithPcFacts
<1> HIDE DEF q
<1>9. Good(SetTop(procs, q), close_many(tab, c.opened), dirs)
  BY <1>1, <1>2, <1>3, <1>4, <1>5, <1>7, <1>8, TopCloses
<1> QED
  BY <1>2, <1>6, <1>9 DEF Inv

LEMMA EchoCapturedStep ==
  ASSUME Inv, EchoCaptured
  PROVE  Inv'
<1> DEFINE c == Top.call
           q == WithPc(Top, "close")
           data == c.got[STDOUT] \o c.got[STDERR]
<1>1. Good(procs, tab, dirs) /\ content \in Contents
  BY DEF Inv
<1>2. /\ procs # <<>> /\ c.pc = "read" /\ UNCHANGED <<dirs, budget>>
      /\ Say([procs EXCEPT ![Depth].call.pc = "close"], STDOUT, data)
  BY DEF EchoCaptured, InCall
<1>3. c.pc # "none" /\ c.pc \in Holding /\ "close" \in Pcs /\ "close" \in Holding
  BY <1>2 DEF Holding, Pcs
<1>4. Top \in Processes /\ Top = procs[Len(procs)] /\ Depth = Len(procs) /\ ProcGood(Top, dirs) /\ procs \in Seq(Processes)
  BY <1>1, <1>2, TopFacts
<1>5. c \in Calling
  BY <1>3, <1>4, ProcParts
<1>6. [procs EXCEPT ![Depth].call.pc = "close"] = SetTop(procs, q)
  BY DEF SetTop, WithPc, Top, Depth
<1>7. ProcGood(q, dirs)
  BY <1>2, <1>4, <1>5, LatePc
<1>8. /\ q \in Processes /\ q.sink = Top.sink /\ q.fresh = Top.fresh
      /\ q.call \in Calling /\ q.call.pc = "close" /\ q.call.req = c.req /\ q.call.at = c.at /\ q.call.opened = c.opened
  BY <1>3, <1>4, <1>5, WithPcFacts
<1>9. data \in Seq(Bytes) /\ STDOUT \in Std
  <2>1. c.got \in [Std -> Seq(Bytes)] /\ STDOUT \in Std /\ STDERR \in Std
    BY <1>5, CallParts DEF Std, STDOUT, STDERR
  <2>2. c.got[STDOUT] \in Seq(Bytes) /\ c.got[STDERR] \in Seq(Bytes)
    BY <2>1
  <2> QED
    BY <2>1, <2>2
<1> HIDE DEF q, data
<1>10. Good(SetTop(procs, q), tab, dirs)
  BY <1>1, <1>2, <1>3, <1>4, <1>5, <1>7, <1>8, TopOnly
<1>11. SetTop(procs, q) # <<>> /\ Say(SetTop(procs, q), STDOUT, data)
  BY <1>2, <1>4, <1>6, <1>8, SetTopFacts
<1> DEFINE v == SetTop(procs, q)
<1> HIDE DEF v
<1>12. Good(v, tab, dirs) /\ v # <<>> /\ Say(v, STDOUT, data)
  BY <1>10, <1>11 DEF v
<1>13. Good(procs', tab', dirs) /\ content' \in Contents
  BY <1>1, <1>9, <1>12, SayFacts
<1> QED
  BY <1>2, <1>13 DEF Inv

-----------------------------------------------------------------------------
(* Reading, closing, returning *)

\* A process with one more chunk read.
WithChunk(p, s, data, rest) == [p EXCEPT !.call.got[s] = @ \o data, !.call.unread = rest]

LEMMA WithChunkFacts ==
  ASSUME NEW p \in Processes, p.call \in Calling, NEW s \in Std, NEW data \in Seq(Bytes), NEW rest \in Seq(Std)
  PROVE  LET q == WithChunk(p, s, data, rest)
         IN  /\ q \in Processes /\ Similar(p, q) /\ q.fresh = p.fresh
             /\ q.call \in Calling /\ q.call.unread = rest /\ q.call.log = p.call.log
             /\ q.call.got = Longer(p.call.got, s, data)
<1> DEFINE c == p.call
           got == [c.got EXCEPT ![s] = @ \o data]
           b == [c EXCEPT !.got = got, !.unread = rest]
           q == [p EXCEPT !.call = b]
<1>1. c.got \in [Std -> Seq(Bytes)]
  BY CallParts
<1>2. got \in [Std -> Seq(Bytes)]
  <2>1. c.got[s] \o data \in Seq(Bytes)
    BY <1>1
  <2> QED
    BY <1>1, <2>1
<1>3. WithChunk(p, s, data, rest) = q
  BY DEF WithChunk
<1>4. got = Longer(c.got, s, data)
  BY DEF Longer
<1> HIDE DEF got
<1>5. b \in Calling /\ b.pc = c.pc /\ b.req = c.req /\ b.saved = c.saved /\ b.savedCwd = c.savedCwd
      /\ b.restores = c.restores /\ b.opened = c.opened /\ b.at = c.at /\ b.log = c.log
      /\ b.got = got /\ b.unread = rest
  BY <1>2 DEF Calling
<1> HIDE DEF b
<1>6. q \in Processes /\ q.call = b /\ q.std = p.std /\ q.cwd = p.cwd /\ q.env = p.env /\ q.sink = p.sink /\ q.fresh = p.fresh
  BY <1>5 DEF Processes
<1> HIDE DEF q
<1>7. Similar(p, q)
  BY <1>5, <1>6, CallParts DEF Similar
<1> QED
  BY <1>3, <1>4, <1>5, <1>6, <1>7

\* What ReadChunk reads: the stream, the descriptor and the size of the buffer.
ReadStream == Head(Top.call.unread)
ReadFrom   == Top.call.opened[CHOOSE i \in DOMAIN Top.call.opened : Top.call.opened[i].stream = ReadStream].own
ReadSize   == IF IsBuiltin(Top.call.req) THEN RYSH_CHUNK ELSE CHUNK
ReadResult == abi_read(tab, ReadFrom, ReadSize)
ReadOn     == ~IsBuiltin(Top.call.req) /\ ReadResult.count = ReadSize
ReadRest   == IF ReadOn THEN Top.call.unread ELSE Tail(Top.call.unread)

LEMMA ReadChunkIs ==
  ASSUME Good(procs, tab, dirs), ReadChunk
  PROVE  /\ procs # <<>> /\ Top.call \in Calling /\ Top.call.pc = "read" /\ Top.call.unread # <<>>
         /\ ReadStream \in Std /\ ReadRest \in Seq(Std) /\ ReadResult.data \in Seq(Bytes)
         /\ tab' = ReadResult.tab /\ GoodTab(tab') /\ SameShape(tab, tab')
         /\ procs' = SetTop(procs, WithChunk(Top, ReadStream, ReadResult.data, ReadRest))
         /\ UNCHANGED <<content, dirs, budget>>
<1> DEFINE c == Top.call
<1>1. InCall("read") /\ c.unread # <<>> /\ UNCHANGED <<content, dirs, budget>> /\ tab' = ReadResult.tab
  BY DEF ReadChunk, Keep, ReadResult, ReadFrom, ReadSize, ReadStream
<1>2. "read" \in Pcs
  BY DEF Pcs
<1>3. procs # <<>> /\ c \in Calling /\ c.pc = "read"
  BY <1>1, <1>2, InCallFacts
<1>4. Top \in Processes /\ Top = procs[Len(procs)] /\ Depth = Len(procs) /\ GoodTab(tab) /\ procs \in Seq(Processes)
      /\ Depth \in 1 .. Len(procs)
  BY <1>3, TopFacts
<1>5. c.unread \in Seq(Std)
  BY <1>3, CallParts
<1>6. ReadStream \in Std /\ Tail(c.unread) \in Seq(Std)
  BY <1>1, <1>5 DEF ReadStream
<1>7. ReadRest \in Seq(Std)
  BY <1>5, <1>6 DEF ReadRest
<1>8. ReadSize \in Nat
  BY CommandAssumption DEF ReadSize
<1>9. ReadResult.data \in Seq(Bytes) /\ GoodTab(ReadResult.tab) /\ SameShape(tab, ReadResult.tab)
  BY <1>4, <1>8, ReadFacts DEF ReadResult
<1>10. procs' = SetTop(procs, WithChunk(Top, ReadStream, ReadResult.data, ReadRest))
  <2>1. procs' = [procs EXCEPT ![Depth].call.got[ReadStream] = @ \o ReadResult.data,
                               ![Depth].call.unread = IF ReadOn THEN @ ELSE Tail(@)]
    BY DEF ReadChunk, ReadResult, ReadFrom, ReadSize, ReadStream, ReadOn
  <2> DEFINE s == ReadStream
             d == ReadResult.data
  <2>2. procs' = [procs EXCEPT ![Depth].call.got[s] = @ \o d, ![Depth].call.unread = IF ReadOn THEN @ ELSE Tail(@)]
    BY <2>1
  <2> HIDE DEF s, d
  <2>3. procs' = [procs EXCEPT ![Depth] = [Top EXCEPT !.call.got[s] = @ \o d, !.call.unread = ReadRest]]
    BY <1>4, <2>2 DEF ReadRest
  <2> QED
    BY <1>4, <2>3 DEF SetTop, WithChunk, s, d
<1> QED
  BY <1>1, <1>3, <1>6, <1>7, <1>9, <1>10

\* Two chains of the same length that differ in the last process only.
LEMMA SimilarTop ==
  ASSUME NEW ch, NEW t, NEW D, Good(ch, t, D), ch # <<>>, NEW q \in Processes, Similar(ch[Len(ch)], q)
  PROVE  Good(SetTop(ch, q), t, D)
<1> DEFINE v == SetTop(ch, q)
<1>1. ch \in Seq(Processes) /\ Len(ch) \in Nat /\ Len(ch) \in 1 .. Len(ch)
  BY GoodParts
<1>2. v \in Seq(Processes) /\ Len(v) = Len(ch) /\ v[Len(ch)] = q /\ \A d \in 1 .. Len(ch) - 1 : v[d] = ch[d]
  BY <1>1, SetTopFacts
<1> HIDE DEF v
<1>3. \A d \in 1 .. Len(ch) : d = Len(ch) \/ d \in 1 .. Len(ch) - 1
  BY <1>1
<1>4. \A d \in 1 .. Len(ch) : Similar(ch[d], ch[d])
  BY DEF Similar
<1>5. \A d \in 1 .. Len(ch) : Similar(ch[d], v[d])
  BY <1>2, <1>3, <1>4
<1>6. Good(v, t, D)
  BY <1>2, <1>5, SimilarChange
<1> QED
  BY <1>6 DEF v

LEMMA ReadChunkStep ==
  ASSUME Inv, ReadChunk
  PROVE  Inv'
<1> DEFINE q == WithChunk(Top, ReadStream, ReadResult.data, ReadRest)
<1>1. Good(procs, tab, dirs)
  BY DEF Inv
<1>2. /\ procs # <<>> /\ Top.call \in Calling
      /\ ReadStream \in Std /\ ReadRest \in Seq(Std) /\ ReadResult.data \in Seq(Bytes)
      /\ GoodTab(tab') /\ SameShape(tab, tab')
      /\ procs' = SetTop(procs, q)
      /\ UNCHANGED <<content, dirs, budget>>
  BY <1>1, ReadChunkIs
<1>3. Top \in Processes /\ Top = procs[Len(procs)]
  BY <1>1, <1>2, TopFacts
<1>4. q \in Processes /\ Similar(Top, q)
  BY <1>2, <1>3, WithChunkFacts
<1> HIDE DEF q
<1>5. Good(procs', tab, dirs)
  BY <1>1, <1>2, <1>3, <1>4, SimilarTop
<1>6. Good(procs', tab', dirs)
  BY <1>2, <1>5, ShapeChange
<1> QED
  BY <1>2, <1>6 DEF Inv

\* The chain after a call has returned.
Back(p) == [p EXCEPT !.call = NoCall]

LEMMA ReturnFacts ==
  ASSUME Good(procs, tab, dirs), NEW pc \in {"failed", "done"}, InCall(pc)
  PROVE  Good(SetTop(procs, Back(Top)), tab, dirs) /\ SetTop(procs, Back(Top)) # <<>>
<1> DEFINE c == Top.call
           p == Back(Top)
           B == Below(procs, Depth)
<1>1. pc \in Pcs /\ pc \notin Early /\ pc \notin Holding /\ pc \notin {"env", "open", "wait", "reap"}
  BY DEF Pcs, Early, Holding
<1>2. /\ procs # <<>> /\ c \in Calling /\ c # NoCall /\ c.pc = pc
      /\ KeysUnique(Top.env) /\ EnvPart(Top.env, c) /\ CwdPart(Top.cwd, c, dirs) /\ StdPart(Top.std, c)
      /\ c.at.open = B /\ Inherits(tab, B, c.at.std)
  BY <1>1, InCallFacts
<1>3. /\ Top \in Processes /\ Top = procs[Len(procs)] /\ Depth = Len(procs) /\ GoodTab(tab) /\ tab \in Tabs
      /\ Open(tab) = B \cup HeldNow(Top) /\ procs \in Seq(Processes)
  BY <1>2, TopFacts
<1>4. /\ p \in Processes /\ p.call = NoCall /\ p.std = Top.std /\ p.cwd = Top.cwd /\ p.env = Top.env
      /\ p.sink = Top.sink /\ p.fresh = Top.fresh
  BY <1>3 DEF Back, Processes
<1> HIDE DEF p
<1>5. ProcGood(p, dirs)
  BY <1>2, <1>4 DEF ProcGood
<1>6. HeldNow(Top) = {} /\ HeldNow(p) = {} /\ OwnStd(p) = Top.std /\ p.call.pc # "wait"
  BY <1>1, <1>2, <1>4 DEF HeldNow, OwnStd, NoCall
<1>7. Inherits(tab, B, Top.std)
  <2> SUFFICES ASSUME NEW s \in Std PROVE Top.std[s] = s \/ (Top.std[s] \in B /\ UsableFd(tab, s, Top.std[s]))
    BY DEF Inherits
  <2>1. Top.std[s] = c.at.std[s] \/ Top.std[s] = s
    BY <1>1, <1>2 DEF StdPart, Standing
  <2> QED
    BY <1>2, <2>1 DEF Inherits
<1>8. LinkGood(tab, B, p)
  BY <1>4, <1>6, <1>7 DEF LinkGood
<1>9. KeepsAt(tab, tab, B)
  <2>1. B \subseteq TableFds
    BY <1>3 DEF Open
  <2> QED
    BY <1>3, <2>1, ShapeRefl, ShapeKeepsAt
<1>10. FreshKept(Top, p, dirs)
  <2>1. \A k \in Keys : OwnVar(p, k) = OwnVar(Top, k)
    BY <1>1, <1>2, <1>4 DEF OwnVar, EnvPart
  <2>2. OwnCwd(p) = OwnCwd(Top) \/ OwnCwd(Top) \notin dirs \cup {Root}
    BY <1>1, <1>2, <1>4 DEF OwnCwd, CwdPart
  <2> QED
    BY <1>4, <2>1, <2>2 DEF FreshKept
<1>11. Open(tab) = B \cup HeldNow(p)
  BY <1>3, <1>6
<1>12. SetTop(procs, p) # <<>>
  BY <1>2, <1>3, <1>4, SetTopFacts
<1>13. Good(SetTop(procs, p), tab, dirs)
  <2> DEFINE n == Len(procs)
  <2>1. /\ KeepsAt(tab, tab, Below(procs, n)) /\ LinkGood(tab, Below(procs, n), p)
        /\ Open(tab) = Below(procs, n) \cup HeldNow(p) /\ FreshKept(procs[n], p, dirs) /\ p.sink = procs[n].sink
    BY <1>3, <1>4, <1>8, <1>9, <1>10, <1>11
  <2> QED
    BY <1>2, <1>3, <1>4, <1>5, <1>6, <2>1, TopChange
<1> QED
  BY <1>12, <1>13 DEF p

LEMMA ReturnStep ==
  ASSUME Inv, Return
  PROVE  Inv'
<1>1. Good(procs, tab, dirs)
  BY DEF Inv
<1>2. /\ InCall("failed") \/ InCall("done")
      /\ UNCHANGED <<tab, content, dirs, budget>> /\ procs' = [procs EXCEPT ![Depth].call = NoCall]
  BY DEF Return, Keep
<1>3. procs' = SetTop(procs, Back(Top))
  BY <1>2 DEF SetTop, Back, Top, Depth
<1>4. Good(SetTop(procs, Back(Top)), tab, dirs)
  BY <1>1, <1>2, ReturnFacts
<1> QED
  BY <1>2, <1>3, <1>4 DEF Inv

LEMMA ReturnEchoStep ==
  ASSUME Inv, ReturnEcho
  PROVE  Inv'
<1> DEFINE v == SetTop(procs, Back(Top))
           data == Top.call.got[STDOUT]
<1>1. Good(procs, tab, dirs) /\ content \in Contents
  BY DEF Inv
<1>2. InCall("done") /\ UNCHANGED <<dirs, budget>> /\ Say([procs EXCEPT ![Depth].call = NoCall], STDOUT, data)
  BY DEF ReturnEcho
<1>3. Say(v, STDOUT, data)
  BY <1>2 DEF SetTop, Back, Top, Depth
<1>4. Good(v, tab, dirs) /\ v # <<>>
  BY <1>1, <1>2, ReturnFacts
<1>5. data \in Seq(Bytes) /\ STDOUT \in Std
  <2>1. "done" \in Pcs
    BY DEF Pcs
  <2>2. Top.call \in Calling
    BY <1>1, <1>2, <2>1, InCallFacts
  <2>3. Top.call.got \in [Std -> Seq(Bytes)] /\ STDOUT \in Std
    BY <2>2, CallParts DEF Std, STDOUT
  <2> QED
    BY <2>3
<1> HIDE DEF v, data
<1>6. Good(procs', tab', dirs) /\ content' \in Contents
  BY <1>1, <1>3, <1>4, <1>5, SayFacts
<1> QED
  BY <1>2, <1>6 DEF Inv

-----------------------------------------------------------------------------
(* What a program does by itself, and the console *)

LEMMA IdleFacts ==
  ASSUME Inv, Idle
  PROVE  /\ Good(procs, tab, dirs) /\ content \in Contents /\ procs # <<>> /\ Top.call = NoCall
         /\ Top \in Processes /\ ProcGood(Top, dirs) /\ KeysUnique(Top.env) /\ Top.env \in EnvTables
         /\ Top = procs[Len(procs)] /\ Depth = Len(procs) /\ Depth \in 1 .. Depth /\ procs \in Seq(Processes)
         /\ Open(tab) = Below(procs, Depth) /\ Inherits(tab, Below(procs, Depth), Top.std)
         /\ GoodTab(tab) /\ tab \in Tabs
<1>1. Good(procs, tab, dirs) /\ content \in Contents /\ procs # <<>> /\ Top.call = NoCall
  BY DEF Inv, Idle
<1>2. /\ Top \in Processes /\ ProcGood(Top, dirs) /\ LinkGood(tab, Below(procs, Depth), Top)
      /\ Top = procs[Len(procs)] /\ Depth = Len(procs) /\ Depth \in 1 .. Depth /\ procs \in Seq(Processes)
      /\ Open(tab) = Below(procs, Depth) \cup HeldNow(Top) /\ GoodTab(tab) /\ tab \in Tabs
  BY <1>1, TopFacts
<1>3. HeldNow(Top) = {} /\ OwnStd(Top) = Top.std
  BY <1>1 DEF HeldNow, OwnStd
<1>4. Inherits(tab, Below(procs, Depth), Top.std)
  BY <1>2, <1>3 DEF LinkGood
<1>5. KeysUnique(Top.env) /\ Top.env \in EnvTables
  BY <1>2, ProcParts DEF ProcGood
<1> QED
  BY <1>1, <1>2, <1>3, <1>4, <1>5

LEMMA SpendFacts ==
  ASSUME budget \in 0 .. Budget, Spend
  PROVE  budget' \in 0 .. Budget /\ budget \in Nat
  BY CommandAssumption DEF Spend

LEMMA WriteStdStep ==
  ASSUME Inv, NEW s \in {STDOUT, STDERR}, NEW n \in WriteSizes, WriteStd(s, n)
  PROVE  Inv'
<1>1. Idle /\ Spend /\ Say(procs, s, Payload(n)) /\ UNCHANGED dirs
  BY DEF WriteStd
<1>2. Good(procs, tab, dirs) /\ content \in Contents /\ procs # <<>>
  BY <1>1, IdleFacts
<1>3. budget' \in 0 .. Budget /\ budget \in Nat
  BY <1>1, SpendFacts DEF Inv
<1>4. s \in Std /\ n \in Nat
  BY CommandAssumption DEF Std, STDOUT, STDERR
<1>5. Payload(n) \in Seq(Bytes)
  <2>1. \A i \in 1 .. n : <<budget, i>> \in Bytes
    BY <1>3, <1>4 DEF Bytes
  <2> QED
    BY <1>4, <2>1 DEF Payload
<1>6. Good(procs', tab', dirs) /\ content' \in Contents
  BY <1>1, <1>2, <1>4, <1>5, SayFacts
<1> QED
  BY <1>1, <1>3, <1>6 DEF Inv

LEMMA ReadStdinStep ==
  ASSUME Inv, NEW n \in WriteSizes, ReadStdin(n)
  PROVE  Inv'
<1> DEFINE r == abi_read(tab, Top.std[STDIN], n)
<1>1. Idle /\ Spend /\ procs' = Written(procs, STDIN, r.data) /\ tab' = r.tab /\ UNCHANGED <<content, dirs>>
  BY DEF ReadStdin
<1>2. Good(procs, tab, dirs) /\ content \in Contents /\ procs # <<>> /\ GoodTab(tab)
  BY <1>1, IdleFacts
<1>3. budget' \in 0 .. Budget
  BY <1>1, SpendFacts DEF Inv
<1>4. STDIN \in Std /\ n \in Nat
  BY CommandAssumption DEF Std, STDIN
<1>5. r.data \in Seq(Bytes) /\ GoodTab(r.tab) /\ SameShape(tab, r.tab)
  BY <1>2, <1>4, ReadFacts
<1> HIDE DEF r
<1>6. Good(procs', tab, dirs)
  BY <1>1, <1>2, <1>4, <1>5, WrittenFacts
<1>7. Good(procs', tab', dirs)
  BY <1>1, <1>5, <1>6, ShapeChange
<1> QED
  BY <1>1, <1>3, <1>7 DEF Inv

LEMMA ChangeDirStep ==
  ASSUME Inv, NEW dir \in Dirs \cup {Root}, ChangeDir(dir)
  PROVE  Inv'
<1> DEFINE q == [chdir(Top, dir) EXCEPT !.fresh = FALSE]
<1>1. Idle /\ Spend /\ UNCHANGED <<tab, content, dirs>>
      /\ procs' = [procs EXCEPT ![Depth] = [chdir(@, dir) EXCEPT !.fresh = FALSE]]
  BY DEF ChangeDir
<1>2. /\ Good(procs, tab, dirs) /\ procs # <<>> /\ Top.call = NoCall /\ Top \in Processes /\ KeysUnique(Top.env)
      /\ Top = procs[Len(procs)] /\ Depth = Len(procs) /\ procs \in Seq(Processes)
  BY <1>1, IdleFacts
<1>3. procs' = SetTop(procs, q)
  BY <1>1, <1>2 DEF SetTop
<1>4. q \in Processes /\ q.call = NoCall /\ q.std = Top.std /\ q.sink = Top.sink /\ ~q.fresh /\ q.env = Top.env
  <2>1. CASE dir = Root \/ dir \in dirs
    BY <1>2, <2>1 DEF chdir, Processes
  <2>2. CASE ~(dir = Root \/ dir \in dirs)
    BY <1>2, <2>2 DEF chdir, Processes
  <2> QED
    BY <2>1, <2>2
<1> HIDE DEF q
<1>5. ProcGood(q, dirs)
  BY <1>2, <1>4 DEF ProcGood
<1>6. Good(SetTop(procs, q), tab, dirs)
  BY <1>2, <1>4, <1>5, TopIdle
<1>7. budget' \in 0 .. Budget
  BY <1>1, SpendFacts DEF Inv
<1> QED
  BY <1>1, <1>3, <1>6, <1>7 DEF Inv

LEMMA SetEnvStep ==
  ASSUME Inv, NEW o \in Settings, SetEnv(o.key, o.value)
  PROVE  Inv'
<1> DEFINE env == IF CanSet(Top.env, o.key) THEN env_set_overlay(Top.env, o.key, o.value) ELSE Top.env
           q == [Top EXCEPT !.env = env, !.fresh = FALSE]
<1>1. /\ Idle /\ Spend /\ UNCHANGED <<tab, content, dirs>>
      /\ procs' = [procs EXCEPT ![Depth].env = IF CanSet(@, o.key) THEN env_set_overlay(@, o.key, o.value) ELSE @,
                                ![Depth].fresh = FALSE]
  BY DEF SetEnv
<1>2. /\ Good(procs, tab, dirs) /\ procs # <<>> /\ Top.call = NoCall /\ Top \in Processes /\ KeysUnique(Top.env)
      /\ Top.env \in EnvTables /\ Top = procs[Len(procs)] /\ Depth = Len(procs) /\ procs \in Seq(Processes)
      /\ Depth \in 1 .. Len(procs)
  BY <1>1, IdleFacts
<1>3. o.key \in Keys /\ o.value \in Values \cup {Absent}
  BY CommandAssumption DEF Overrides
<1>4. env \in EnvTables /\ KeysUnique(env)
  BY <1>2, <1>3, SetKeepsType, SetKeepsUnique
<1>5. procs' = SetTop(procs, q)
  <2>1. procs' = [procs EXCEPT ![Depth] = q]
    BY <1>1, <1>2
  <2> QED
    BY <1>2, <2>1 DEF SetTop
<1> HIDE DEF env
<1>6. q \in Processes /\ q.call = NoCall /\ q.std = Top.std /\ q.sink = Top.sink /\ ~q.fresh /\ q.env = env
  BY <1>2, <1>4 DEF Processes
<1> HIDE DEF q
<1>7. ProcGood(q, dirs)
  BY <1>4, <1>6 DEF ProcGood
<1>8. Good(SetTop(procs, q), tab, dirs)
  BY <1>2, <1>6, <1>7, TopIdle
<1>9. budget' \in 0 .. Budget
  BY <1>1, SpendFacts DEF Inv
<1> QED
  BY <1>1, <1>5, <1>8, <1>9 DEF Inv

\* A directory comes or goes: nobody counts as untouched any more.
LEMMA StaleFacts ==
  ASSUME Inv, Idle, NEW D
  PROVE  Good(Stale, tab, D)
<1> DEFINE v == Stale
<1>1. Good(procs, tab, dirs) /\ procs # <<>> /\ Top.call = NoCall /\ procs \in Seq(Processes) /\ Top = procs[Len(procs)]
  BY IdleFacts
<1>2. v \in Seq(Processes) /\ Len(v) = Len(procs) /\ \A d \in 1 .. Len(procs) : v[d] = [procs[d] EXCEPT !.fresh = FALSE]
  <2>1. DOMAIN procs = 1 .. Len(procs) /\ Len(procs) \in Nat
    BY <1>1
  <2>2. \A d \in 1 .. Len(procs) : [procs[d] EXCEPT !.fresh = FALSE] \in Processes
    <3> TAKE d \in 1 .. Len(procs)
    <3>1. procs[d] \in Processes
      BY <1>1
    <3> QED
      BY <3>1 DEF Processes
  <2> QED
    BY <2>1, <2>2 DEF Stale
<1> HIDE DEF v
<1>3. ASSUME NEW d \in 1 .. Len(procs) PROVE Similar(procs[d], v[d]) /\ ~v[d].fresh
  <2> DEFINE p == procs[d]
             q == [p EXCEPT !.fresh = FALSE]
  <2>1. p \in Processes
    BY <1>1
  <2>2. q.std = p.std /\ q.cwd = p.cwd /\ q.env = p.env /\ q.sink = p.sink /\ q.call = p.call /\ ~q.fresh
    BY <2>1 DEF Processes
  <2>3. v[d] = q
    BY <1>2
  <2> HIDE DEF q
  <2> QED
    BY <2>2, <2>3 DEF Similar
<1>4. Good(v, tab, D)
  BY <1>1, <1>2, <1>3, SimilarChange
<1> QED
  BY <1>4 DEF v

LEMMA UnlinkStep ==
  ASSUME Inv, NEW dir \in Dirs, Unlink(dir)
  PROVE  Inv'
<1>1. Idle /\ Spend /\ dirs' = dirs \ {dir} /\ procs' = Stale /\ UNCHANGED <<tab, content>>
  BY DEF Unlink
<1>2. Good(procs', tab', dirs')
  BY <1>1, StaleFacts
<1>3. budget' \in 0 .. Budget
  BY <1>1, SpendFacts DEF Inv
<1> QED
  BY <1>1, <1>2, <1>3 DEF Inv

LEMMA MkdirStep ==
  ASSUME Inv, NEW dir \in Dirs, Mkdir(dir)
  PROVE  Inv'
<1>1. Idle /\ Spend /\ dirs' = dirs \cup {dir} /\ procs' = Stale /\ UNCHANGED <<tab, content>>
  BY DEF Mkdir
<1>2. Good(procs', tab', dirs')
  BY <1>1, StaleFacts
<1>3. budget' \in 0 .. Budget
  BY <1>1, SpendFacts DEF Inv
<1> QED
  BY <1>1, <1>2, <1>3 DEF Inv

LEMMA RunProgramStep ==
  ASSUME Inv, RunProgram
  PROVE  Inv'
<1> DEFINE p == [std |-> Console, cwd |-> Root, env |-> NoOverrides, call |-> NoCall,
                 sink |-> [s \in Std |-> 0], fresh |-> TRUE]
           v == <<p>>
<1>1. procs' = v /\ tab' = app_close_all_fds /\ content' = NothingCreated /\ budget' = Budget /\ dirs' = dirs
  BY DEF RunProgram
<1>2. Console \in Stds /\ \A s \in Std : Console[s] = s
  BY DEF Console, Stds
<1>3. NoOverrides \in EnvTables /\ KeysUnique(NoOverrides)
  BY DEF NoOverrides, EnvTables, KeysUnique, Unset
<1>4. /\ p \in Processes /\ p.std = Console /\ p.env = NoOverrides /\ p.call = NoCall /\ \A s \in Std : p.sink[s] = 0
  BY <1>2, <1>3 DEF Processes
<1> HIDE DEF p
<1>5. v \in Seq(Processes) /\ Len(v) = 1 /\ v[1] = p /\ v # <<>> /\ \A d \in 1 .. 1 : d = 1
  BY <1>4
<1> HIDE DEF v
<1>6. Chain(v)
  <2>1. 1 <= MaxDepth
    BY CommandAssumption
  <2>2. p.call.pc # "wait" /\ ~(1 < 1) /\ 0 < 1
    BY <1>4 DEF NoCall
  <2> QED
    BY <1>4, <1>5, <2>1, <2>2 DEF Chain
<1>7. GoodTab(app_close_all_fds) /\ Open(app_close_all_fds) = {}
  BY NothingOpen
<1>8. ProcGood(p, dirs)
  BY <1>3, <1>4 DEF ProcGood
<1>9. Below(v, 1) = {} /\ HeldNow(p) = {} /\ OwnStd(p) = Console
  BY <1>4 DEF Below, HeldNow, OwnStd
<1> DEFINE t == app_close_all_fds
<1> HIDE DEF t
<1>10. LinkGood(t, {}, p)
  BY <1>2, <1>4, <1>9 DEF LinkGood, Inherits
<1>11. Good(v, t, dirs)
  <2>1. GoodTab(t) /\ Open(t) = {}
    BY <1>7 DEF t
  <2>2. 1 .. 1 - 1 = {}
    OBVIOUS
  <2> QED
    BY <1>5, <1>6, <1>8, <1>9, <1>10, <2>1, <2>2 DEF Good
<1>12. content' \in Contents
  BY <1>1 DEF NothingCreated, Contents
<1>13. budget' \in 0 .. Budget
  BY <1>1, CommandAssumption
<1> QED
  BY <1>1, <1>11, <1>12, <1>13 DEF Inv, t

LEMMA InvInit ==
  ASSUME Init
  PROVE  Inv
<1>1. procs = <<>> /\ tab = app_close_all_fds /\ content = NothingCreated /\ dirs = Dirs /\ budget = 0
  BY DEF Init
<1>2. GoodTab(app_close_all_fds) /\ Open(app_close_all_fds) = {}
  BY NothingOpen
<1>3. Chain(procs)
  BY <1>1, CommandAssumption DEF Chain
<1>4. Good(procs, tab, dirs)
  <2>1. Len(procs) = 0 /\ 1 .. 0 = {} /\ 1 .. 0 - 1 = {}
    BY <1>1
  <2> QED
    BY <1>1, <1>2, <1>3, <2>1 DEF Good
<1>5. content \in Contents
  BY <1>1 DEF NothingCreated, Contents
<1> QED
  BY <1>1, <1>4, <1>5, CommandAssumption DEF Inv

\* The process that has just made a request.
Begun(p, cwd, req, pc) == [p EXCEPT !.cwd = cwd, !.call = [Call(p, req) EXCEPT !.pc = pc]]

LEMMA BeginIs ==
  ASSUME Inv, NEW req \in Requests, Begin(req)
  PROVE  /\ Idle /\ Spend /\ UNCHANGED <<tab, content, dirs>>
         /\ IsBuiltin(req) => Depth \in Shells
         /\ \E cwd \in Dirs \cup {Root}, pc \in {"env", "failed"} :
              /\ procs' = SetTop(procs, Begun(Top, cwd, req, pc))
              /\ cwd = IF pc = "env" /\ req.cwd # None THEN req.cwd ELSE Top.cwd
<1> DEFINE p == [Top EXCEPT !.call = Call(Top, req)]
           in == IF req.cwd = None THEN p ELSE chdir(p, req.cwd)
           ok == req.cwd \in {None, Root} \cup dirs
           pc == IF ok THEN "env" ELSE "failed"
           cwd == IF ok /\ req.cwd # None THEN req.cwd ELSE Top.cwd
<1>1. /\ Idle /\ Spend /\ UNCHANGED <<tab, content, dirs>> /\ (IsBuiltin(req) => Depth \in Shells)
      /\ procs' = [procs EXCEPT ![Depth] = [in EXCEPT !.call.pc = pc]]
  BY DEF Begin
<1>2. /\ Top \in Processes /\ Depth = Len(procs) /\ Top.cwd \in Dirs \cup {Root}
  BY <1>1, IdleFacts, ProcParts
<1>3. req.cwd \in Dirs \cup {Root, None} /\ Root # None /\ dirs \subseteq Dirs /\ None \notin Dirs
  BY RequestParts, CommandAssumption DEF Inv, Root, None
<1>4. cwd \in Dirs \cup {Root} /\ pc \in {"env", "failed"} /\ (ok <=> pc = "env")
  BY <1>2, <1>3
<1>5. [in EXCEPT !.call.pc = pc] = Begun(Top, cwd, req, pc)
  <2> DEFINE c == Call(Top, req)
  <2> HIDE DEF pc
  <2>1. CASE ok /\ req.cwd # None
    <3>1. in = [p EXCEPT !.cwd = req.cwd] /\ cwd = req.cwd
      BY <1>3, <2>1 DEF chdir
    <3> HIDE DEF c
    <3>2. [in EXCEPT !.call.pc = pc] = [Top EXCEPT !.cwd = req.cwd, !.call = [c EXCEPT !.pc = pc]]
      BY <1>2, <3>1 DEF Processes, c
    <3> QED
      BY <3>1, <3>2 DEF Begun, c
  <2>2. CASE ~(ok /\ req.cwd # None)
    <3>1. in = p /\ cwd = Top.cwd
      BY <1>3, <2>2 DEF chdir
    <3> HIDE DEF c
    <3>2. [in EXCEPT !.call.pc = pc] = [Top EXCEPT !.cwd = Top.cwd, !.call = [c EXCEPT !.pc = pc]]
      BY <1>2, <3>1 DEF Processes, c
    <3> QED
      BY <3>1, <3>2 DEF Begun, c
  <2> QED
    BY <2>1, <2>2
<1>6. procs' = SetTop(procs, Begun(Top, cwd, req, pc))
  BY <1>1, <1>2, <1>5 DEF SetTop
<1>7. cwd = IF pc = "env" /\ req.cwd # None THEN req.cwd ELSE Top.cwd
  BY <1>4
<1> HIDE DEF cwd, pc
<1> QED
  BY <1>1, <1>4, <1>6, <1>7

LEMMA BegunFacts ==
  ASSUME NEW p \in Processes, KeysUnique(p.env), NEW cwd \in Dirs \cup {Root}, NEW req \in Requests,
         NEW pc \in {"env", "failed"}
  PROVE  LET q == Begun(p, cwd, req, pc)
             b == q.call
         IN  /\ q \in Processes /\ q.std = p.std /\ q.cwd = cwd /\ q.env = p.env /\ q.sink = p.sink /\ q.fresh = p.fresh
             /\ b \in Calling /\ b.pc = pc /\ b.req = req /\ b.saved = p.std /\ b.savedCwd = p.cwd
             /\ b.restores = <<>> /\ b.opened = <<>> /\ b.unread = <<>>
             /\ \A s \in Std : b.got[s] = <<>> /\ b.log[s] = <<>>
             /\ b.at.std = p.std /\ b.at.cwd = p.cwd /\ b.at.open = Open(tab)
             /\ \A k \in Keys : b.at.vars[k] = env_lookup(p.env, k)
<1> DEFINE vars0 == [k \in Keys |-> env_lookup(p.env, k)]
           at == [std |-> p.std, cwd |-> p.cwd, open |-> Open(tab), vars |-> vars0]
           none == [s \in Std |-> <<>>]
           b == [req |-> req, pc |-> pc, saved |-> p.std, savedCwd |-> p.cwd, restores |-> <<>>,
                 opened |-> <<>>, unread |-> <<>>, got |-> none, log |-> none, at |-> at]
           q == [p EXCEPT !.cwd = cwd, !.call = b]
<1>1. p.std \in Stds /\ p.cwd \in Dirs \cup {Root} /\ p.env \in EnvTables
  BY ProcParts
<1>2. vars0 \in Variables
  BY <1>1, LookupType DEF Variables
<1>3. Open(tab) \in SUBSET TableFds /\ none \in [Std -> Seq(Bytes)] /\ pc \in Pcs
  BY DEF Open, Pcs
<1>4. Begun(p, cwd, req, pc) = q
  <2> DEFINE b0 == [req |-> req, pc |-> "chdir", saved |-> p.std, savedCwd |-> p.cwd, restores |-> <<>>,
                    opened |-> <<>>, unread |-> <<>>, got |-> none, log |-> none, at |-> at]
  <2>1. Call(p, req) = b0
    BY DEF Call
  <2> HIDE DEF at, none
  <2>2. [b0 EXCEPT !.pc = pc] = b
    OBVIOUS
  <2> HIDE DEF b, b0
  <2>3. [Call(p, req) EXCEPT !.pc = pc] = b
    BY <2>1, <2>2
  <2> QED
    BY <2>3 DEF Begun
<1>8. (\A s \in Std : none[s] = <<>>) /\ \A k \in Keys : vars0[k] = env_lookup(p.env, k)
  OBVIOUS
<1> HIDE DEF vars0, none
<1>5. at \in [std : Stds, cwd : Dirs \cup {Root}, open : SUBSET TableFds, vars : Variables]
      /\ at.std = p.std /\ at.cwd = p.cwd /\ at.open = Open(tab) /\ at.vars = vars0
  BY <1>1, <1>2, <1>3
<1> HIDE DEF at
<1>6. /\ b \in Calling /\ b.pc = pc /\ b.req = req /\ b.saved = p.std /\ b.savedCwd = p.cwd
      /\ b.restores = <<>> /\ b.opened = <<>> /\ b.unread = <<>> /\ b.got = none /\ b.log = none /\ b.at = at
  BY <1>1, <1>3, <1>5 DEF Calling
<1> HIDE DEF b
<1>7. q \in Processes /\ q.call = b /\ q.std = p.std /\ q.cwd = cwd /\ q.env = p.env /\ q.sink = p.sink /\ q.fresh = p.fresh
  BY <1>6 DEF Processes
<1> HIDE DEF q
<1> QED
  BY <1>4, <1>5, <1>6, <1>7, <1>8

LEMMA BeginStep ==
  ASSUME Inv, NEW req \in Requests, Begin(req)
  PROVE  Inv'
<1> DEFINE B == Below(procs, Depth)
<1>1. /\ Idle /\ Spend /\ UNCHANGED <<tab, content, dirs>>
      /\ IsBuiltin(req) => Depth \in Shells
      /\ \E cwd \in Dirs \cup {Root}, pc \in {"env", "failed"} :
           /\ procs' = SetTop(procs, Begun(Top, cwd, req, pc))
           /\ cwd = IF pc = "env" /\ req.cwd # None THEN req.cwd ELSE Top.cwd
  BY BeginIs
<1>2. PICK cwd \in Dirs \cup {Root}, pc \in {"env", "failed"} :
        /\ procs' = SetTop(procs, Begun(Top, cwd, req, pc))
        /\ cwd = IF pc = "env" /\ req.cwd # None THEN req.cwd ELSE Top.cwd
  BY <1>1
<1> DEFINE q == Begun(Top, cwd, req, pc)
           b == q.call
<1>3. /\ Good(procs, tab, dirs) /\ procs # <<>> /\ Top.call = NoCall
      /\ Top \in Processes /\ KeysUnique(Top.env)
      /\ Top = procs[Len(procs)] /\ Depth = Len(procs)
      /\ Open(tab) = B /\ Inherits(tab, B, Top.std) /\ GoodTab(tab) /\ tab \in Tabs
  BY <1>1, IdleFacts
<1>4. /\ q \in Processes /\ q.std = Top.std /\ q.cwd = cwd /\ q.env = Top.env /\ q.sink = Top.sink /\ q.fresh = Top.fresh
      /\ b \in Calling /\ b.pc = pc /\ b.req = req /\ b.saved = Top.std /\ b.savedCwd = Top.cwd
      /\ b.restores = <<>> /\ b.opened = <<>>
      /\ b.at.std = Top.std /\ b.at.cwd = Top.cwd /\ b.at.open = Open(tab)
  <2>1. Top \in Processes /\ KeysUnique(Top.env)
    BY <1>3
  <2>2. /\ q \in Processes /\ q.std = Top.std /\ q.cwd = cwd /\ q.env = Top.env /\ q.sink = Top.sink /\ q.fresh = Top.fresh
        /\ b \in Calling /\ b.pc = pc /\ b.req = req
    BY <2>1, BegunFacts
  <2>3. b.saved = Top.std /\ b.savedCwd = Top.cwd /\ b.restores = <<>> /\ b.opened = <<>>
    BY <2>1, BegunFacts
  <2>4. b.at.std = Top.std /\ b.at.cwd = Top.cwd /\ b.at.open = Open(tab)
    BY <2>1, BegunFacts
  <2> QED
    BY <2>2, <2>3, <2>4
<1>17. \A k \in Keys : b.at.vars[k] = env_lookup(Top.env, k)
  BY <1>3, BegunFacts
<1> HIDE DEF q
<1>5. /\ b # NoCall /\ Len(b.restores) = 0 /\ Len(b.opened) = 0 /\ 1 .. 0 = {}
      /\ \A k \in Keys : b.at.vars[k] = env_lookup(Top.env, k)
      /\ b.at.vars \in Variables
  BY <1>4, <1>17, CallParts
<1>6. EnvPart(q.env, b)
  <2>1. req.env \in Seq(Overrides) /\ Len(req.env) \in Nat
    BY RequestParts
  <2>2. Overlaid(b.at.vars, req.env, 0) = b.at.vars
    BY <1>5, <2>1, OverUptoIs, OverUptoSteps
  <2> QED
    BY <1>4, <1>5, <2>1, <2>2 DEF EnvPart, Early
<1>7. CwdPart(q.cwd, b, dirs)
  BY <1>2, <1>4 DEF CwdPart, Dir, Early
<1>8. StdPart(q.std, b)
  <2>1. Len(Redirects(req)) \in Nat
    BY RedirectsFacts
  <2> QED
    BY <1>4, <1>5, <2>1 DEF StdPart, Standing, Early
<1>9. ProcGood(q, dirs)
  BY <1>3, <1>4, <1>6, <1>7, <1>8 DEF ProcGood
<1>10. HeldFds(b.opened) = {} /\ HeldNow(q) = {} /\ OwnStd(q) = Top.std /\ q.call.pc # "wait"
  BY <1>4, <1>5 DEF HeldFds, HeldNow, OwnStd
<1>11. EntriesGood(tab, B, b.opened)
  BY <1>5, <1>10 DEF EntriesGood, Apart
<1>12. LinkGood(tab, B, q)
  BY <1>3, <1>4, <1>10, <1>11 DEF LinkGood
<1>13. KeepsAt(tab, tab, B)
  <2>1. B \subseteq TableFds
    BY <1>3 DEF Open
  <2> QED
    BY <1>3, <2>1, ShapeRefl, ShapeKeepsAt
<1>14. FreshKept(Top, q, dirs)
  BY <1>3, <1>4, <1>5 DEF FreshKept, OwnVar, OwnCwd
<1>15. Good(SetTop(procs, q), tab, dirs)
  <2> DEFINE n == Len(procs)
  <2>1. /\ KeepsAt(tab, tab, Below(procs, n)) /\ LinkGood(tab, Below(procs, n), q)
        /\ Open(tab) = Below(procs, n) \cup HeldNow(q) /\ FreshKept(procs[n], q, dirs) /\ q.sink = procs[n].sink
        /\ IsBuiltin(q.call.req) => n \in Shells
    BY <1>1, <1>3, <1>4, <1>10, <1>12, <1>13, <1>14
  <2> QED
    BY <1>3, <1>4, <1>9, <1>10, <2>1, TopChange
<1>16. budget' \in 0 .. Budget
  BY <1>1, SpendFacts DEF Inv
<1> QED
  BY <1>1, <1>2, <1>15, <1>16 DEF Inv, q

\* The chain without its last process, whose caller wakes.
Popped(ch) == [Front(ch) EXCEPT ![Len(ch) - 1].call.pc = "reap"]

LEMMA PoppedFacts ==
  ASSUME NEW ch \in Seq(Processes), Len(ch) # 0, Len(ch) # 1, ch[Len(ch) - 1].call \in Calling
  PROVE  LET v == Popped(ch)
             m == Len(ch) - 1
         IN  /\ v \in Seq(Processes) /\ Len(v) = m /\ v # <<>> /\ v[m] = WithPc(ch[m], "reap")
             /\ \A d \in 1 .. m - 1 : v[d] = ch[d]
             /\ \A d \in 1 .. m : Below(v, d) = Below(ch, d)
<1> DEFINE n == Len(ch)
           m == n - 1
           f == Front(ch)
           q == WithPc(ch[m], "reap")
           v == Popped(ch)
<1>1. n \in Nat /\ m \in Nat \ {0} /\ m \in 1 .. n /\ m \in 1 .. m
  <2>1. n \in Nat /\ n # 0 /\ n # 1
    OBVIOUS
  <2> HIDE DEF n
  <2> QED
    BY <2>1
<1>2. f \in Seq(Processes) /\ Len(f) = m /\ \A d \in 1 .. m : f[d] = ch[d]
  BY <1>1 DEF Front
<1>3. q \in Processes
  <2>1. "reap" \in Pcs /\ ch[m] \in Processes
    BY <1>1 DEF Pcs
  <2> QED
    BY <2>1, WithPcFacts
<1> HIDE DEF f
<1>4. v = [f EXCEPT ![m].call.pc = "reap"]
  BY DEF Popped, f
<1>5. v = SetTop(f, q)
  BY <1>1, <1>2, <1>4 DEF SetTop, WithPc
<1> HIDE DEF v, q
<1>6. f # <<>>
  BY <1>1, <1>2
<1>7. /\ v \in Seq(Processes) /\ Len(v) = m /\ v # <<>> /\ v[m] = q
      /\ \A d \in 1 .. m - 1 : v[d] = f[d]
  <2> DEFINE k == Len(f)
  <2>1. /\ v \in Seq(Processes) /\ Len(v) = k /\ v # <<>> /\ v[k] = q
        /\ \A d \in 1 .. k - 1 : v[d] = f[d]
    BY <1>2, <1>3, <1>5, <1>6, SetTopFacts
  <2>2. k = m
    BY <1>2
  <2> HIDE DEF k, m
  <2> QED
    BY <2>1, <2>2
<1>8. \A d \in 1 .. m - 1 : v[d] = ch[d]
  <2>1. \A d \in 1 .. m - 1 : d \in 1 .. m
    BY <1>1
  <2> QED
    BY <1>2, <1>7, <2>1
<1>9. ASSUME NEW d \in 1 .. m PROVE Below(v, d) = Below(ch, d)
  <2>1. CASE d = 1
    BY <2>1 DEF Below
  <2>2. CASE d # 1
    <3>1. d - 1 \in 1 .. m - 1
      BY <1>1, <2>2
    <3> QED
      BY <1>8, <2>2, <3>1 DEF Below
  <2> QED
    BY <2>1, <2>2
<1> QED
  BY <1>7, <1>8, <1>9 DEF v, q

LEMMA ExitStep ==
  ASSUME Inv, Exit
  PROVE  Inv'
<1> DEFINE n == Len(procs)
           m == n - 1
<1>1. /\ Idle /\ UNCHANGED <<tab, content, dirs>>
      /\ procs' = IF Depth = 1 THEN <<>> ELSE [Front(procs) EXCEPT ![Depth - 1].call.pc = "reap"]
      /\ budget' = IF Depth = 1 THEN 0 ELSE budget
  BY DEF Exit
<1>2. /\ Good(procs, tab, dirs) /\ procs # <<>> /\ Top.call = NoCall /\ Top = procs[n] /\ Depth = n /\ n \in 1 .. n
      /\ procs \in Seq(Processes) /\ Open(tab) = Below(procs, n) /\ GoodTab(tab) /\ n \in Nat
  BY <1>1, IdleFacts
<1>3. budget' \in 0 .. Budget
  BY <1>1, CommandAssumption DEF Inv
<1>4. CASE n = 1
  <2>1. procs' = <<>> /\ Len(procs') = 0 /\ 1 .. 0 = {} /\ 1 .. 0 - 1 = {}
    BY <1>1, <1>2, <1>4
  <2>2. Open(tab) = {}
    BY <1>2, <1>4 DEF Below
  <2>3. Chain(procs')
    BY <2>1, CommandAssumption DEF Chain
  <2>4. Good(procs', tab, dirs)
    BY <1>2, <2>1, <2>2, <2>3 DEF Good
  <2> QED
    BY <1>1, <1>3, <2>4 DEF Inv
<1>5. CASE n # 1
  <2> DEFINE q == WithPc(procs[m], "reap")
             v == procs'
             w == procs[m]
             c == w.call
  <2>1. m \in Nat \ {0} /\ m \in 1 .. n - 1 /\ m \in 1 .. n /\ m \in 1 .. m /\ m + 1 = n
    BY <1>2, <1>5
  <2>2. /\ c \in Calling /\ c.pc = "wait" /\ c.at.open = Below(procs, m) /\ HeldNow(w) = HeldFds(c.opened)
        /\ Below(procs, n) = Below(procs, m) \cup HeldNow(w)
    BY <1>2, <2>1, BelowNext
  <2>3. procs' = Popped(procs)
    BY <1>1, <1>2, <1>5 DEF Popped
  <2>4. /\ v \in Seq(Processes) /\ Len(v) = m /\ v # <<>> /\ v[m] = q
        /\ \A d \in 1 .. m - 1 : v[d] = procs[d]
        /\ \A d \in 1 .. m : Below(v, d) = Below(procs, d)
    <3>1. Len(procs) # 0 /\ Len(procs) # 1 /\ procs[Len(procs) - 1].call \in Calling
      BY <1>2, <1>5, <2>2
    <3> QED
      BY <1>2, <2>3, <3>1, PoppedFacts
  <2>5. w \in Processes /\ ProcGood(w, dirs) /\ LinkGood(tab, Below(procs, m), w) /\ c # NoCall
    BY <1>2, <2>1, <2>2, GoodParts, CallParts
  <2>6. /\ q \in Processes /\ q.std = w.std /\ q.cwd = w.cwd /\ q.env = w.env /\ q.sink = w.sink /\ q.fresh = w.fresh
        /\ q.call \in Calling /\ q.call.pc = "reap" /\ q.call.req = c.req /\ q.call.at = c.at
        /\ q.call.saved = c.saved /\ q.call.savedCwd = c.savedCwd /\ q.call.restores = c.restores
        /\ q.call.opened = c.opened
    <3>1. "reap" \in Pcs
      BY DEF Pcs
    <3> QED
      BY <2>2, <2>5, <3>1, WithPcFacts
  <2>7. q.call # NoCall
    BY <2>6, CallParts
  <2> HIDE DEF q, v, w, c
  <2>8. HeldNow(q) = HeldNow(w) /\ OwnStd(q) = OwnStd(w) /\ OwnCwd(q) = OwnCwd(w) /\ \A k \in Keys : OwnVar(q, k) = OwnVar(w, k)
    BY <2>2, <2>5, <2>6, <2>7 DEF HeldNow, OwnStd, OwnCwd, OwnVar, Holding, Early, c
  <2>9. "wait" \in Early /\ "reap" \in Early /\ "wait" \in Holding /\ "reap" \in Holding
    BY DEF Early, Holding
  <2>10. ProcGood(q, dirs)
    <3>1. EnvPart(w.env, c) /\ CwdPart(w.cwd, c, dirs) /\ StdPart(w.std, c) /\ KeysUnique(w.env)
      BY <2>5 DEF ProcGood, c
    <3>2. EnvPart(q.env, q.call)
      BY <2>2, <2>6, <2>9, <3>1 DEF EnvPart
    <3>3. CwdPart(q.cwd, q.call, dirs)
      BY <2>2, <2>6, <2>9, <3>1 DEF CwdPart, Dir
    <3>4. StdPart(q.std, q.call)
      BY <2>2, <2>6, <2>9, <3>1 DEF StdPart, Standing
    <3> QED
      BY <2>6, <3>1, <3>2, <3>3, <3>4 DEF ProcGood
  <2>11. LinkGood(tab, Below(procs, m), q)
    BY <2>2, <2>5, <2>6, <2>7, <2>8, <2>9 DEF LinkGood, c
  <2>12. \A d \in 1 .. m : d = m \/ (d \in 1 .. m - 1 /\ d < m /\ d < n /\ d \in 1 .. n /\ d # m)
    <3>1. n \in Nat /\ m \in Nat
      BY <1>2, <2>1
    <3> HIDE DEF n
    <3> QED
      BY <3>1
  <2>13. Chain(v)
    <3>1. ASSUME NEW d \in 1 .. m
          PROVE  /\ \A s \in Std : v[d].sink[s] < d
                 /\ v[d].call.pc = "wait" <=> d < m
                 /\ v[d].call # NoCall /\ IsBuiltin(v[d].call.req) => d \in Shells
      <4>1. /\ \A s \in Std : procs[d].sink[s] < d
            /\ procs[d].call.pc = "wait" <=> d < n
            /\ procs[d].call # NoCall /\ IsBuiltin(procs[d].call.req) => d \in Shells
        BY <1>2, <2>1, <2>12, GoodParts
      <4>2. CASE d = m
        BY <2>1, <2>4, <2>5, <2>6, <4>1, <4>2 DEF c, w
      <4>3. CASE d \in 1 .. m - 1
        BY <2>4, <2>12, <4>1, <4>3
      <4> QED
        BY <2>12, <4>2, <4>3
    <3>2. m <= MaxDepth
      BY <1>2, CommandAssumption, GoodParts
    <3> QED
      BY <2>4, <3>1, <3>2 DEF Chain
  <2>14. \A d \in 1 .. m : ProcGood(v[d], dirs)
    BY <1>2, <2>4, <2>10, <2>12, GoodParts
  <2>15. \A d \in 1 .. m : LinkGood(tab, Below(v, d), v[d])
    BY <1>2, <2>4, <2>11, <2>12, GoodParts
  <2>16. \A d, e \in 1 .. m : d <= e => Below(v, d) \subseteq Below(v, e)
    <3>1. \A d \in 1 .. m : d \in 1 .. n
      BY <2>1
    <3> QED
      BY <1>2, <2>4, <3>1, GoodParts
  <2>17. ASSUME NEW d \in 1 .. m - 1 PROVE FreshGood(v[d].call, v[d + 1], dirs)
    <3>1. d \in 1 .. n - 1 /\ d \in 1 .. m /\ d + 1 \in 1 .. m
      BY <2>1
    <3>2. FreshGood(procs[d].call, procs[d + 1], dirs) /\ v[d] = procs[d]
      BY <1>2, <2>4, <3>1, GoodParts
    <3>3. CASE d + 1 = m
      <4>1. procs[d + 1] = w /\ v[d + 1] = q
        BY <2>4, <3>3 DEF w
      <4> QED
        BY <2>6, <2>8, <3>2, <4>1 DEF FreshGood
    <3>4. CASE d + 1 # m
      <4>1. d + 1 \in 1 .. m - 1
        <5>1. m \in Nat
          BY <2>1
        <5> HIDE DEF m
        <5> QED
          BY <3>1, <3>4, <5>1
      <4> QED
        BY <2>4, <3>2, <4>1
    <3> QED
      BY <3>3, <3>4
  <2>18. Open(tab) = Below(v, m) \cup HeldNow(v[m])
    BY <1>2, <2>1, <2>2, <2>4, <2>8
  <2>19. Good(v, tab, dirs)
    BY <1>2, <2>4, <2>13, <2>14, <2>15, <2>16, <2>17, <2>18 DEF Good
  <2> QED
    BY <1>1, <1>3, <2>19 DEF Inv, v
<1> QED
  BY <1>4, <1>5

-----------------------------------------------------------------------------
(* The invariant and what follows from it *)

LEMMA InvNext ==
  ASSUME Inv, [Next]_vars
  PROVE  Inv'
<1>1. CASE RunProgram
  BY <1>1, RunProgramStep
<1>2. CASE Own
  <2>1. ASSUME NEW s \in {STDOUT, STDERR}, NEW n \in WriteSizes, WriteStd(s, n) PROVE Inv'
    BY <2>1, WriteStdStep
  <2>2. ASSUME NEW n \in WriteSizes, ReadStdin(n) PROVE Inv'
    BY <2>2, ReadStdinStep
  <2>3. ASSUME NEW dir \in Dirs \cup {Root}, ChangeDir(dir) PROVE Inv'
    BY <2>3, ChangeDirStep
  <2>4. ASSUME NEW v \in Settings, SetEnv(v.key, v.value) PROVE Inv'
    BY <2>4, SetEnvStep
  <2>5. ASSUME NEW dir \in Dirs, Unlink(dir) \/ Mkdir(dir) PROVE Inv'
    BY <2>5, UnlinkStep, MkdirStep
  <2>6. ASSUME NEW req \in Requests, Begin(req) PROVE Inv'
    BY <2>6, BeginStep
  <2>7. CASE Exit
    BY <2>7, ExitStep
  <2> QED
    BY <1>2, <2>1, <2>2, <2>3, <2>4, <2>5, <2>6, <2>7 DEF Own
<1>3. CASE Calls
  <2>1. CASE ApplyOverride \/ OverrideFails \/ OverridesDone
    BY <2>1, ApplyOverrideStep, OverrideFailsStep, OverridesDoneStep
  <2>2. CASE OpenPipe \/ OpenFile \/ OpenFails
    BY <2>2, OpenPipeStep, OpenFileStep, OpenFailsStep
  <2>3. CASE Spawn \/ SpawnFails
    BY <2>3, SpawnStep, SpawnFailsStep
  <2>4. CASE Collect \/ WaitFails
    BY <2>4, CollectStep, WaitFailsStep
  <2>5. CASE ReadChunk \/ EchoCaptured \/ CloseAll
    BY <2>5, ReadChunkStep, EchoCapturedStep, CloseAllStep
  <2>6. CASE Return \/ ReturnEcho
    BY <2>6, ReturnStep, ReturnEchoStep
  <2> QED
    BY <1>3, <2>1, <2>2, <2>3, <2>4, <2>5, <2>6 DEF Calls
<1>4. CASE UNCHANGED vars
  BY <1>4 DEF vars, Inv
<1> QED
  BY <1>1, <1>2, <1>3, <1>4 DEF Next

\* At every moment, in every call of Command::output, Command::status and the
\* spawn builtins, however deeply nested: the call knows what it changed in its
\* caller's cwd, environment and standard descriptors and what that was before,
\* and every descriptor open in the kernel's table belongs to exactly one of the
\* calls under way.
THEOREM CommandInvariant == Spec => []Inv
<1>1. Init => Inv
  BY InvInit
<1>2. Inv /\ [Next]_vars => Inv'
  BY InvNext
<1> QED
  BY <1>1, <1>2, PTL DEF Spec

LEMMA InvTypes ==
  ASSUME Inv
  PROVE  TypeOK
<1>1. Good(procs, tab, dirs) /\ budget \in 0 .. Budget /\ dirs \subseteq Dirs
  BY DEF Inv
<1>2. /\ procs \in Seq(Processes) /\ Len(procs) <= MaxDepth /\ tab \in Tabs /\ GoodTab(tab) /\ Len(procs) \in Nat
      /\ \A d \in 1 .. Len(procs) : procs[d] \in Processes /\ (procs[d].call.pc = "wait" <=> d < Len(procs))
  BY <1>1, GoodParts
<1>3. ASSUME NEW fd \in Open(tab) PROVE tab.fds[fd].kind \in {"PipeRead", "PipeWrite", "Pfs"}
  <2>1. fd \in TableFds /\ tab.fds[fd].kind # "Empty" /\ tab.fds[fd] \in Handles
    BY <1>2, OpenIs, TabParts DEF Open
  <2> QED
    BY <2>1 DEF Handles
<1>4. \A p \in PipeIds : Len(tab.pipes[p].buffer) <= APP_PIPE_BUFFER_SIZE
  BY <1>2 DEF GoodTab, Fits
<1>5. ASSUME NEW d \in DOMAIN procs
      PROVE  /\ procs[d].std \in [Std -> Std \cup TableFds]
             /\ procs[d].cwd \in Dirs \cup {Root}
             /\ procs[d].env \in EnvTables
             /\ procs[d].call.pc \in Pcs \cup {"none"}
             /\ d < Depth => procs[d].call.pc = "wait"
  <2>1. d \in 1 .. Len(procs) /\ procs[d] \in Processes
    BY <1>2
  <2>2. procs[d].std \in Stds /\ procs[d].cwd \in Dirs \cup {Root} /\ procs[d].env \in EnvTables
    BY <2>1, ProcParts
  <2>3. procs[d].call.pc \in Pcs \cup {"none"}
    <3>1. procs[d].call = NoCall \/ procs[d].call \in Calling
      BY <2>1, ProcParts
    <3> QED
      BY <3>1, CallParts DEF NoCall
  <2> QED
    BY <1>2, <2>1, <2>2, <2>3 DEF Stds, Depth
<1> QED
  BY <1>1, <1>2, <1>3, <1>4, <1>5 DEF TypeOK, Depth

\* The variables keep their types: no pipe holds more than its buffer, no cwd,
\* environment or standard descriptor is anything the kernel does not know, and
\* all processes but the last wait in a spawn.
THEOREM CommandTypes == Spec => []TypeOK
  BY CommandInvariant, InvTypes, PTL

\* When a call returns, on whichever way out, the descriptors open in the table
\* shared by all processes are those that were open when it began: close_many
\* and the error paths close exactly what the call opened, and so did the calls
\* of its child.
THEOREM NothingLeaks == Spec => []NoFdLeak
<1>1. ASSUME Inv PROVE NoFdLeak
  <2> SUFFICES ASSUME NEW d \in DOMAIN procs, procs[d].call.pc \in {"done", "failed"}
               PROVE  Open(tab) = procs[d].call.at.open
    BY DEF NoFdLeak
  <2>1. Good(procs, tab, dirs)
    BY <1>1 DEF Inv
  <2>2. d \in 1 .. Len(procs) /\ d = Len(procs) /\ procs # <<>>
    <3>1. d \in 1 .. Len(procs) /\ Len(procs) \in Nat /\ procs[d].call.pc # "wait"
      BY <2>1, GoodParts
    <3>2. ~(d < Len(procs))
      BY <2>1, <3>1, GoodParts
    <3> QED
      BY <3>1, <3>2
  <2>3. procs[d] \in Processes /\ procs[d].call \in Calling /\ procs[d].call # NoCall
    BY <2>1, <2>2, GoodParts, ProcParts, CallParts
  <2>4. LinkGood(tab, Below(procs, d), procs[d]) /\ Open(tab) = Below(procs, d) \cup HeldNow(procs[d])
    BY <2>1, <2>2, GoodParts
  <2>5. HeldNow(procs[d]) = {}
    BY DEF HeldNow, Holding, Early
  <2> QED
    BY <2>3, <2>4, <2>5 DEF LinkGood
<1> QED
  BY <1>1, CommandInvariant, PTL

\* What a process has as standard descriptors is open, and the other end too.
LEMMA StdInherits ==
  ASSUME NEW ch, NEW t, NEW D, Good(ch, t, D), NEW d \in 1 .. Len(ch)
  PROVE  Inherits(t, Open(t), ch[d].std)
<1> DEFINE p == ch[d]
           c == p.call
           B == Below(ch, d)
<1>1. p \in Processes /\ ProcGood(p, D) /\ LinkGood(t, B, p) /\ GoodTab(t)
  BY GoodParts
<1>2. B \subseteq Open(t)
  <2>1. Len(ch) \in Nat /\ Len(ch) \in 1 .. Len(ch) /\ d <= Len(ch) /\ ch # <<>>
    BY GoodParts
  <2>2. Below(ch, d) \subseteq Below(ch, Len(ch)) /\ Below(ch, Len(ch)) \subseteq Open(t)
    BY <2>1, GoodParts
  <2> QED
    BY <2>2
<1> HIDE DEF B, p
<1>3. CASE c = NoCall
  BY <1>1, <1>2, <1>3 DEF LinkGood, OwnStd, Inherits, p
<1>4. CASE c # NoCall
  <2>1. c \in Calling /\ StdPart(p.std, c) /\ Inherits(t, B, c.at.std) /\ (c.pc \in Holding => EntriesGood(t, B, c.opened))
    BY <1>1, <1>4, ProcParts DEF LinkGood, OwnStd, ProcGood
  <2>2. CASE Standing(c)
    <3>1. c.pc \in Holding /\ Stood(p.std, c.at.std, c.opened)
      BY <2>1, <2>2 DEF Standing, Holding, Early, StdPart
    <3>2. Inherits(t, Open(t), p.std)
      BY <1>1, <1>2, <2>1, <3>1, StoodInherits
    <3> QED
      BY <3>2 DEF p
  <2>3. CASE ~Standing(c)
    <3>1. \A s \in Std : p.std[s] = c.at.std[s] \/ p.std[s] = s
      BY <2>1, <2>3 DEF StdPart
    <3> QED
      BY <1>2, <2>1, <3>1 DEF Inherits, p
  <2> QED
    BY <2>2, <2>3
<1> QED
  BY <1>3, <1>4

\* The descriptor and the pipe table describe the same pipes, and a standard
\* descriptor of a live process is the console or an open end, of the right
\* direction, of a pipe whose other end is open too, or a file: restore_stdio,
\* dup2 and the inheritance at spawn never leave a process with a number that
\* was closed or given to somebody else.
THEOREM StreamsUsable == Spec => []StdUsable
<1>1. ASSUME Inv PROVE StdUsable
  <2>1. Good(procs, tab, dirs)
    BY <1>1 DEF Inv
  <2>2. tab \in Tabs /\ Matched(tab) /\ DOMAIN procs = 1 .. Len(procs)
    BY <2>1, GoodParts DEF GoodTab
  <2>3. EndsMatch(tab)
    BY <2>2, MatchedEnds
  <2>4. ASSUME NEW d \in DOMAIN procs, NEW s \in Std
        PROVE  procs[d].std[s] = s \/ UsableFd(tab, s, procs[d].std[s])
    BY <2>1, <2>2, StdInherits DEF Inherits
  <2> QED
    BY <2>3, <2>4 DEF StdUsable, UsableFd
<1> QED
  BY <1>1, CommandInvariant, PTL

\* A child that has changed nothing itself runs in the cwd and with the variables
\* that its caller's request asked for: apply_env_overrides makes all overrides,
\* in their order, before the spawn, and calls of the child's own give back what
\* they changed.
THEOREM ChildContext == Spec => []ChildSeesRequest
<1>1. ASSUME Inv PROVE ChildSeesRequest
  <2> SUFFICES ASSUME NEW d \in 1 .. Depth - 1, procs[d + 1].fresh, procs[d + 1].call = NoCall
               PROVE  LET c == procs[d].call
                          child == procs[d + 1]
                      IN  /\ Vars(child) = Overlaid(c.at.vars, c.req.env, Len(c.req.env))
                          /\ child.cwd = Dir(c) \/ Dir(c) \notin dirs \cup {Root}
    BY DEF ChildSeesRequest, Dir
  <2> DEFINE c == procs[d].call
             child == procs[d + 1]
  <2>1. Good(procs, tab, dirs) /\ d \in 1 .. Len(procs) - 1
    BY <1>1 DEF Inv, Depth
  <2>2. c \in Calling /\ FreshGood(c, child, dirs)
    BY <2>1, BelowNext, GoodParts
  <2>3. c.at.vars \in Variables /\ c.req.env \in Seq(Overrides)
    BY <2>2, CallParts, RequestParts
  <2> DEFINE V == Overlaid(c.at.vars, c.req.env, Len(c.req.env))
  <2>4. V \in Variables
    <3>1. Len(c.req.env) \in 0 .. Len(c.req.env)
      BY <2>3, SMTT(30)
    <3> QED
      BY <2>3, <3>1, OverUptoIs, OverUptoSteps
  <2>5. \A k \in Keys : env_lookup(child.env, k) = V[k]
    BY <2>2 DEF FreshGood, OwnVar
  <2>6. child.cwd = Dir(c) \/ Dir(c) \notin dirs \cup {Root}
    BY <2>2 DEF FreshGood, OwnCwd
  <2> HIDE DEF V
  <2>7. Vars(child) = V
    BY <2>4, <2>5 DEF Vars, Variables
  <2> QED
    BY <2>6, <2>7 DEF V
<1> QED
  BY <1>1, CommandInvariant, PTL

\* Every process has each key in at most one override slot, and env_list names
\* exactly the variables env_lookup finds, however overrides were made, undone
\* and inherited.
THEOREM EnvironmentsConsistent == Spec => []EnvConsistent
<1>1. ASSUME Inv PROVE EnvConsistent
  <2> SUFFICES ASSUME NEW d \in DOMAIN procs
               PROVE  KeysUnique(procs[d].env) /\ ListsWhatIsSet(procs[d].env)
    BY DEF EnvConsistent
  <2>1. Good(procs, tab, dirs)
    BY <1>1 DEF Inv
  <2>2. d \in 1 .. Len(procs)
    BY <2>1, GoodParts
  <2>3. procs[d] \in Processes /\ ProcGood(procs[d], dirs)
    BY <2>1, <2>2, GoodParts
  <2>4. procs[d].env \in EnvTables /\ KeysUnique(procs[d].env)
    BY <2>3, ProcParts DEF ProcGood
  <2> QED
    BY <2>4, ListingAgrees
<1> QED
  BY <1>1, CommandInvariant, PTL

\* The program the console started has the console, between its calls.
LEMMA FirstAtConsole ==
  ASSUME NEW ch, NEW t, NEW D, Good(ch, t, D), ch # <<>>
  PROVE  \A s \in Std : OwnStd(ch[1])[s] = s
<1>1. 1 \in 1 .. Len(ch)
  BY GoodParts
<1>2. LinkGood(t, {}, ch[1])
  BY <1>1, GoodParts DEF Below
<1> QED
  BY <1>2 DEF LinkGood, Inherits

\* A call gives its caller back the stdio, the cwd and every variable it had, on
\* every way out: restore_stdio, restore_env and restore_cwd undo what the call
\* did.  The builtins of rysh end with dup2(n, n), which is the console, so this
\* is for a rysh that nobody captures, the one the console started.
THEOREM ContextRestored ==
  ASSUME Shells \subseteq {1}
  PROVE  Spec => []RestoredOnReturn
<1>1. ASSUME Inv PROVE RestoredOnReturn
  <2> SUFFICES ASSUME NEW d \in DOMAIN procs, procs[d].call.pc \in {"read", "close", "done", "failed"}
               PROVE  LET p == procs[d]
                          a == p.call.at
                      IN  /\ p.std = a.std
                          /\ p.cwd = a.cwd \/ a.cwd \notin dirs \cup {Root}
                          /\ Vars(p) = a.vars
    BY DEF RestoredOnReturn
  <2> DEFINE p == procs[d]
             c == p.call
  <2>1. Good(procs, tab, dirs)
    BY <1>1 DEF Inv
  <2>2. d \in 1 .. Len(procs) /\ procs # <<>>
    BY <2>1, GoodParts
  <2>3. p \in Processes /\ ProcGood(p, dirs) /\ c \in Calling /\ c # NoCall /\ (IsBuiltin(c.req) => d \in Shells)
    BY <2>1, <2>2, GoodParts, ProcParts, CallParts
  <2>4. EnvPart(p.env, c) /\ CwdPart(p.cwd, c, dirs) /\ StdPart(p.std, c)
    BY <2>3 DEF ProcGood
  <2>5. c.pc \notin Early /\ ~Standing(c)
    BY DEF Early, Standing
  <2>6. p.std \in Stds /\ c.at.std \in Stds /\ c.at.vars \in Variables
    BY <2>3, ProcParts, CallParts
  <2>7. ASSUME NEW s \in Std PROVE p.std[s] = c.at.std[s]
    <3>1. p.std[s] = c.at.std[s] \/ (IsBuiltin(c.req) /\ p.std[s] = s)
      BY <2>4, <2>5 DEF StdPart
    <3>2. CASE IsBuiltin(c.req)
      <4>1. d = 1 /\ OwnStd(p) = c.at.std
        BY <2>3, <3>2 DEF OwnStd
      <4> QED
        BY <2>1, <2>2, <3>1, <4>1, FirstAtConsole
    <3> QED
      BY <3>1, <3>2
  <2>8. p.std = c.at.std
    BY <2>6, <2>7 DEF Stds
  <2>9. p.cwd = c.at.cwd \/ c.at.cwd \notin dirs \cup {Root}
    BY <2>4, <2>5 DEF CwdPart
  <2>10. Vars(p) = c.at.vars
    BY <2>4, <2>5, <2>6 DEF EnvPart, Vars, Variables
  <2> QED
    BY <2>8, <2>9, <2>10
<1> QED
  BY <1>1, CommandInvariant, PTL
==============================================================================
