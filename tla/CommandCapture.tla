--------------------------- MODULE CommandCapture ---------------------------
(***************************************************************************)
(* What a call captures is what its child and its descendants wrote, for   *)
(* every set of requests, every size of the tables and the buffers and     *)
(* every depth of calls: CaptureComplete of Command.                       *)
(*                                                                         *)
(* The invariant follows the bytes of every call under way through its     *)
(* pipes and files (CallCap), and says that a standard stream of a process *)
(* is the child's end of what its sink opened (SinkAt).  A step of the     *)
(* last process touches one descriptor; that nobody else's bytes move is   *)
(* the part of CommandProofs that gives every descriptor to one call.      *)
(***************************************************************************)
EXTENDS CommandProofs

-----------------------------------------------------------------------------
(* Sequences of bytes.                                                     *)

LEMMA SameSeq ==
  ASSUME NEW S, NEW a \in Seq(S), NEW b \in Seq(S), Len(a) = Len(b), \A i \in 1 .. Len(a) : a[i] = b[i]
  PROVE  a = b
OBVIOUS

LEMMA Joined ==
  ASSUME NEW S, NEW a \in Seq(S), NEW b \in Seq(S)
  PROVE  /\ a \o b \in Seq(S) /\ Len(a \o b) = Len(a) + Len(b) /\ Len(a) \in Nat /\ Len(b) \in Nat
         /\ \A i \in 1 .. Len(a) + Len(b) : (a \o b)[i] = IF i <= Len(a) THEN a[i] ELSE b[i - Len(a)]
OBVIOUS

LEMMA Part ==
  ASSUME NEW S, NEW a \in Seq(S), NEW m \in Nat, NEW n \in Nat, n <= Len(a)
  PROVE  /\ SubSeq(a, m + 1, n) \in Seq(S) /\ Len(SubSeq(a, m + 1, n)) = IF m <= n THEN n - m ELSE 0
         /\ \A i \in 1 .. n - m : SubSeq(a, m + 1, n)[i] = a[m + i]
OBVIOUS

LEMMA JoinEmpty ==
  ASSUME NEW S, NEW a \in Seq(S)
  PROVE  <<>> \o a = a /\ a \o <<>> = a
OBVIOUS

LEMMA JoinTwice ==
  ASSUME NEW S, NEW a \in Seq(S), NEW b \in Seq(S), NEW c \in Seq(S)
  PROVE  (a \o b) \o c = a \o (b \o c)
OBVIOUS

LEMMA TakeIs ==
  ASSUME NEW a \in Seq(Bytes), NEW n \in Nat
  PROVE  /\ Take(a, n) \in Seq(Bytes) /\ Len(Take(a, n)) = IF n <= Len(a) THEN n ELSE Len(a)
         /\ Len(Take(a, n)) \in Nat /\ Len(Take(a, n)) <= n
         /\ \A i \in 1 .. Len(Take(a, n)) : Take(a, n)[i] = a[i]
         /\ Len(a) <= n => Take(a, n) = a
<1> DEFINE m == Min({n, Len(a)})
<1>1. Len(a) \in Nat /\ m = IF n <= Len(a) THEN n ELSE Len(a)
  BY MinPair
<1> HIDE DEF m
<1>2. Take(a, n) = SubSeq(a, 0 + 1, m)
  BY DEF Take, m
<1>3. m \in Nat /\ m <= Len(a) /\ 0 \in Nat
  BY <1>1
<1>4. /\ SubSeq(a, 0 + 1, m) \in Seq(Bytes) /\ Len(SubSeq(a, 0 + 1, m)) = m
      /\ \A i \in 1 .. m : SubSeq(a, 0 + 1, m)[i] = a[i]
  BY <1>3, Part
<1>5. ASSUME Len(a) <= n PROVE Take(a, n) = a
  <2>1. m = Len(a)
    BY <1>1, <1>5
  <2> QED
    BY <1>2, <1>4, <2>1, SameSeq
<1> QED
  BY <1>1, <1>2, <1>3, <1>4, <1>5

LEMMA PrefixOf ==
  ASSUME NEW a \in Seq(Bytes), NEW b \in Seq(Bytes), NEW c, a \o b = c
  PROVE  IsPrefix(a, c)
BY DEF IsPrefix

-----------------------------------------------------------------------------
(* What the streams of a call have carried.                                *)

\* The bytes of a pipe nobody has read yet.
Rest(pipe) == SubSeq(pipe.buffer, pipe.read_offset + 1, Len(pipe.buffer))

\* A pipe of a call, by what has been written to it or taken from it.
PipeOK(c, s, pipe) ==
    IF s = STDIN
      THEN c.pc \in Early => c.log[s] \o Rest(pipe) = Take(c.req.stdin, APP_PIPE_BUFFER_SIZE)
      ELSE /\ c.pc \in Early => pipe.read_offset = 0 /\ pipe.buffer = Take(c.log[s], APP_PIPE_BUFFER_SIZE)
           /\ c.pc = "read" /\ s \in ToSet(c.unread) => c.got[s] \o Rest(pipe) = Take(c.log[s], APP_PIPE_BUFFER_SIZE)

PipeChan(c, o, t) ==
    /\ o.own # o.child
    /\ \A p \in PipeIds : t.fds[o.child] = ChildEnd(o.stream, p) => PipeOK(c, o.stream, t.pipes[p])

\* Alone, in a given table, and a file of a call.
AloneIn(t, c, r) ==
    /\ \A j \in 1 .. Len(Redirects(c.req)) : Redirects(c.req)[j].file = r.file => Redirects(c.req)[j] = r
    /\ \A fd \in c.at.open : t.fds[fd].kind = "Pfs" => t.fds[fd].file # r.file

Ours(c, r, d, t, co) == co[r.file].by = d /\ AloneIn(t, c, r)

FileChan(c, o, r, d, t, co) ==
    /\ o.own = o.child /\ t.fds[o.own].file = r.file /\ co[r.file].by >= d
    /\ Ours(c, r, d, t, co) => /\ co[r.file].data = c.log[r.stream]
                               /\ t.fds[o.own].offset = Len(c.log[r.stream])

Chan(c, o, r, d, t, co) == IF r.file = None THEN PipeChan(c, o, t) ELSE FileChan(c, o, r, d, t, co)

RoomFor(req) == IF IsBuiltin(req) THEN Min({APP_PIPE_BUFFER_SIZE, RYSH_CHUNK}) ELSE APP_PIPE_BUFFER_SIZE

Reads(c) == c.pc = "read" => /\ c.unread \in {<< 1, 2 >>, << 1 >>, << 2 >>, <<>>}
                             /\ ToSet(c.unread) \subseteq ToSet(Captured(c.req))
                             /\ IsBuiltin(c.req) => \A s \in ToSet(c.unread) : c.got[s] = <<>>

Gets(c) == c.pc \in {"read", "close", "done"} =>
             \A s \in ToSet(Captured(c.req)) : \/ c.got[s] = Take(c.log[s], RoomFor(c.req))
                                               \/ c.pc = "read" /\ s \in ToSet(c.unread)

Logs(c) == /\ IsPrefix(c.log[STDIN], Take(c.req.stdin, APP_PIPE_BUFFER_SIZE))
           /\ c.pc \in {"env", "open"} => \A s \in Std : c.log[s] = <<>>
           /\ c.pc \in Early => \A s \in Std : c.got[s] = <<>>

Chans(c, d, t, co) ==
    /\ c.pc \in Holding => \A i \in 1 .. Len(c.opened) : Chan(c, c.opened[i], Redirects(c.req)[i], d, t, co)
    /\ c.pc = "done" => \A i \in 1 .. Len(Redirects(c.req)) :
         LET r == Redirects(c.req)[i]
         IN  r.file # None /\ Ours(c, r, d, t, co) => co[r.file].data = c.log[r.stream]

CallCap(c, d, t, co) == Logs(c) /\ Reads(c) /\ Gets(c) /\ Chans(c, d, t, co)

\* The call a stream of a process belongs to has opened it.
SinkAt(ch, d) ==
    \A s \in Std :
      LET e == ch[d].sink[s]
      IN  IF e = 0 THEN OwnStd(ch[d])[s] = s
          ELSE \E i \in 1 .. Len(ch[e].call.opened) :
                 ch[e].call.opened[i].stream = s /\ OwnStd(ch[d])[s] = ch[e].call.opened[i].child

Cap(ch, t, co) ==
    \A d \in 1 .. Len(ch) : (ch[d].call # NoCall => CallCap(ch[d].call, d, t, co)) /\ SinkAt(ch, d)

\* A write to a pipe keeps of both together what fits.
LEMMA TakeJoin ==
  ASSUME NEW a \in Seq(Bytes), NEW b \in Seq(Bytes), NEW n \in Nat
  PROVE  Take(a, n) \o SubSeq(b, 1, Min({Len(b), n - Len(Take(a, n))})) = Take(a \o b, n)
<1> DEFINE A == Take(a, n)
           J == a \o b
           T == Take(J, n)
           k == Len(A)
           m == Min({Len(b), n - k})
           x == SubSeq(b, 1, m)
           p == Len(a)
           q == Len(b)
<1>1. A \in Seq(Bytes) /\ k = (IF n <= p THEN n ELSE p) /\ \A i \in 1 .. k : A[i] = a[i]
  BY TakeIs
<1>2. p \in Nat /\ q \in Nat /\ k \in Nat /\ k <= n
  BY <1>1
<1>3. m \in Nat /\ m <= q /\ m = IF q <= n - k THEN q ELSE n - k
  BY <1>2, MinPair
<1>5. J \in Seq(Bytes) /\ Len(J) = p + q /\ \A i \in 1 .. p + q : J[i] = IF i <= p THEN a[i] ELSE b[i - p]
  BY Joined
<1>6. T \in Seq(Bytes) /\ Len(T) = (IF n <= Len(J) THEN n ELSE Len(J)) /\ \A i \in 1 .. Len(T) : T[i] = J[i]
  BY <1>5, TakeIs
<1> HIDE DEF m, A, J, T
<1>4. x \in Seq(Bytes) /\ Len(x) = m /\ \A i \in 1 .. m : x[i] = b[i]
  <2>1. x = SubSeq(b, 0 + 1, m)
    OBVIOUS
  <2> QED
    BY <1>3, <2>1, Part
<1> HIDE DEF x
<1>7. A \o x \in Seq(Bytes) /\ Len(A \o x) = k + m /\ \A i \in 1 .. k + m : (A \o x)[i] = IF i <= k THEN A[i] ELSE x[i - k]
  BY <1>1, <1>4, Joined, ZenonT(40)
<1> HIDE DEF p, q, k
<1>8. k + m = Len(T) /\ k + m <= p + q
  BY <1>1, <1>2, <1>3, <1>5, <1>6
<1>9. ASSUME NEW i \in 1 .. k + m PROVE (A \o x)[i] = T[i]
  <2>1. i \in 1 .. p + q /\ i \in 1 .. Len(T)
    BY <1>2, <1>3, <1>8
  <2>2. T[i] = J[i]
    BY <1>6, <2>1
  <2>3. CASE i <= k
    <3>1. i <= p /\ i \in 1 .. k
      BY <1>1, <1>2, <1>3, <2>3
    <3> QED
      BY <1>1, <1>5, <1>7, <2>1, <2>2, <2>3, <3>1
  <2>4. CASE ~(i <= k)
    <3>1. k = p /\ i - k \in 1 .. m /\ ~(i <= p)
      BY <1>1, <1>2, <1>3, <2>4
    <3> QED
      BY <1>4, <1>5, <1>7, <2>1, <2>2, <2>4, <3>1
  <2> QED
    BY <2>3, <2>4
<1>10. A \o x = T
  <2>1. Len(A \o x) = Len(T) /\ \A i \in 1 .. Len(A \o x) : (A \o x)[i] = T[i]
    BY <1>7, <1>8, <1>9
  <2> QED
    BY <1>6, <1>7, <2>1, SameSeq
<1> QED
  BY <1>10 DEF x, m, k, A, T, J

\* Taking less of what was taken.
LEMMA TakeTake ==
  ASSUME NEW a \in Seq(Bytes), NEW m \in Nat, NEW n \in Nat
  PROVE  Take(Take(a, m), n) = Take(a, Min({m, n}))
<1>1. Min({m, n}) = IF m <= n THEN m ELSE n
  BY MinPair
<1>2. Len(a) \in Nat
  OBVIOUS
<1> DEFINE x == Take(a, m)
           y == Take(x, n)
           z == Take(a, IF m <= n THEN m ELSE n)
<1>3. /\ x \in Seq(Bytes) /\ Len(x) = IF m <= Len(a) THEN m ELSE Len(a)
      /\ \A i \in 1 .. Len(x) : x[i] = a[i]
  BY TakeIs
<1>4. /\ y \in Seq(Bytes) /\ Len(y) = IF n <= Len(x) THEN n ELSE Len(x)
      /\ \A i \in 1 .. Len(y) : y[i] = x[i]
  BY <1>3, TakeIs
<1>5. /\ z \in Seq(Bytes) /\ Len(z) = IF (IF m <= n THEN m ELSE n) <= Len(a) THEN (IF m <= n THEN m ELSE n) ELSE Len(a)
      /\ \A i \in 1 .. Len(z) : z[i] = a[i]
  BY TakeIs
<1> HIDE DEF x, y, z
<1>6. Len(y) = Len(z) /\ \A i \in 1 .. Len(y) : y[i] = z[i]
  BY <1>2, <1>3, <1>4, <1>5
<1>7. y = z
  BY <1>4, <1>5, <1>6, SameSeq
<1> QED
  BY <1>1, <1>7 DEF x, y, z

\* Writing where a file ends appends.
LEMMA WriteAtEnd ==
  ASSUME NEW old \in Seq(Bytes), NEW data \in Seq(Bytes)
  PROVE  WriteAt(old, Len(old), data) = old \o data
<1> DEFINE n == Len(old)
           m == Max({Len(old), n + Len(data)})
<1>1. n \in Nat /\ Len(data) \in Nat /\ m = n + Len(data)
  BY MaxPair
<1>2. /\ old \o data \in Seq(Bytes) /\ Len(old \o data) = n + Len(data)
      /\ \A i \in 1 .. n + Len(data) : (old \o data)[i] = IF i <= n THEN old[i] ELSE data[i - n]
  BY Joined
<1>3. WriteAt(old, n, data) \in Seq(Bytes)
  BY <1>1, WriteAtType
<1> HIDE DEF m
<1>4. WriteAt(old, n, data) = [i \in 1 .. m |-> IF i \in n + 1 .. n + Len(data) THEN data[i - n]
                                               ELSE IF i <= Len(old) THEN old[i] ELSE Zero]
  BY DEF WriteAt, m
<1>5. Len(WriteAt(old, n, data)) = m
  BY <1>1, <1>3, <1>4
<1>6. ASSUME NEW i \in 1 .. m PROVE WriteAt(old, n, data)[i] = (old \o data)[i]
  <2>1. WriteAt(old, n, data)[i] = IF i \in n + 1 .. n + Len(data) THEN data[i - n]
                                   ELSE IF i <= Len(old) THEN old[i] ELSE Zero
    BY <1>4
  <2> QED
    BY <1>1, <1>2, <2>1
<1> QED
  BY <1>1, <1>2, <1>3, <1>5, <1>6, SameSeq

\* What a read gives and what it leaves.
LEMMA ReadMove ==
  ASSUME NEW pipe \in Pipes, Fits(pipe), NEW n \in Nat
  PROVE  /\ Rest(pipe) \in Seq(Bytes) /\ Rest(AfterRead(pipe, n)) \in Seq(Bytes)
         /\ ReadData(pipe, n) = Take(Rest(pipe), n)
         /\ ReadData(pipe, n) \o Rest(AfterRead(pipe, n)) = Rest(pipe)
<1> DEFINE b == pipe.buffer
           m == pipe.read_offset
           k == Len(b)
           e == ReadTo(pipe, n)
           R == Rest(pipe)
           x == ReadData(pipe, n)
           Q == Rest(AfterRead(pipe, n))
<1>1. b \in Seq(Bytes) /\ m \in Nat /\ k \in Nat /\ m <= k
  BY PipeParts DEF Fits
<1>2. e = m + (IF n <= k - m THEN n ELSE k - m)
  BY <1>1, MinPair DEF ReadTo
<1>3. e \in Nat /\ m <= e /\ e <= k
  BY <1>1, <1>2
<1>4. x = SubSeq(b, m + 1, e) /\ R = SubSeq(b, m + 1, k)
  BY DEF ReadData, Rest
<1>5. x \in Seq(Bytes) /\ Len(x) = e - m /\ \A i \in 1 .. e - m : x[i] = b[m + i]
  <2> HIDE DEF b, m, e, x
  <2> QED
    BY <1>1, <1>3, <1>4, Part
<1>6. R \in Seq(Bytes) /\ Len(R) = k - m /\ \A i \in 1 .. k - m : R[i] = b[m + i]
  <2> HIDE DEF b, m, e, R
  <2> QED
    BY <1>1, <1>4, Part
<1>7. Q \in Seq(Bytes) /\ Len(Q) = k - e /\ \A i \in 1 .. k - e : Q[i] = b[e + i]
  <2>1. CASE x # <<>> /\ e = k
    <3>1. AfterRead(pipe, n) = [pipe EXCEPT !.buffer = <<>>, !.read_offset = 0]
      BY <2>1 DEF AfterRead
    <3>2. AfterRead(pipe, n).buffer = <<>> /\ AfterRead(pipe, n).read_offset = 0
      BY <3>1 DEF Pipes
    <3>3. Q = SubSeq(<<>>, 1, 0)
      BY <3>2 DEF Rest
    <3> HIDE DEF Q
    <3> QED
      BY <1>1, <2>1, <3>3
  <2>2. CASE ~(x # <<>> /\ e = k)
    <3>1. AfterRead(pipe, n) = [pipe EXCEPT !.read_offset = e]
      BY <2>2 DEF AfterRead
    <3>2. AfterRead(pipe, n).buffer = b /\ AfterRead(pipe, n).read_offset = e
      BY <3>1 DEF Pipes
    <3>3. Q = SubSeq(b, e + 1, k)
      BY <3>2 DEF Rest
    <3> HIDE DEF b, m, e, Q
    <3> QED
      BY <1>1, <1>3, <3>3, Part
  <2> QED
    BY <2>1, <2>2
<1> HIDE DEF b, m, k, e, R, x, Q
<1>8. x = Take(R, n)
  <2>1. /\ Take(R, n) \in Seq(Bytes) /\ Len(Take(R, n)) = IF n <= Len(R) THEN n ELSE Len(R)
        /\ \A i \in 1 .. Len(Take(R, n)) : Take(R, n)[i] = R[i]
    BY <1>6, TakeIs
  <2>2. Len(x) = Len(Take(R, n)) /\ Len(x) <= Len(R)
    BY <1>1, <1>2, <1>5, <1>6, <2>1
  <2>3. \A i \in 1 .. Len(x) : x[i] = Take(R, n)[i]
    BY <1>1, <1>3, <1>5, <1>6, <2>1, <2>2
  <2> QED
    BY <1>5, <2>1, <2>2, <2>3, SameSeq
<1>9. x \o Q = R
  <2>1. /\ x \o Q \in Seq(Bytes) /\ Len(x \o Q) = Len(x) + Len(Q)
        /\ \A i \in 1 .. Len(x) + Len(Q) : (x \o Q)[i] = IF i <= Len(x) THEN x[i] ELSE Q[i - Len(x)]
    BY <1>5, <1>7, Joined
  <2>2. Len(x \o Q) = Len(R)
    BY <1>1, <1>3, <1>5, <1>6, <1>7, <2>1
  <2>3. ASSUME NEW i \in 1 .. Len(R) PROVE (x \o Q)[i] = R[i]
    <3>1. R[i] = b[m + i] /\ (x \o Q)[i] = IF i <= e - m THEN x[i] ELSE Q[i - (e - m)]
      BY <1>1, <1>3, <1>5, <1>6, <2>1, <2>2
    <3>2. CASE i <= e - m
      BY <1>1, <1>3, <1>5, <3>1, <3>2
    <3>3. CASE ~(i <= e - m)
      <4>1. i - (e - m) \in 1 .. k - e /\ e + (i - (e - m)) = m + i
        BY <1>1, <1>3, <1>6, <3>3
      <4> QED
        BY <1>7, <3>1, <3>3, <4>1
    <3> QED
      BY <3>2, <3>3
  <2> QED
    BY <1>6, <2>1, <2>2, <2>3, SameSeq
<1> QED
  BY <1>6, <1>7, <1>8, <1>9 DEF R, Q, x

-----------------------------------------------------------------------------
(* Steps that leave the streams of a call alone.                           *)

LEMMA AloneStays ==
  ASSUME NEW t, NEW u, NEW c, NEW r, NEW S, ExactAt(t, u, S), c.at.open \subseteq S
  PROVE  AloneIn(u, c, r) <=> AloneIn(t, c, r)
<1>1. \A fd \in c.at.open : u.fds[fd] = t.fds[fd]
  BY DEF ExactAt
<1> QED
  BY <1>1 DEF AloneIn

LEMMA PipeChanStays ==
  ASSUME NEW t, NEW u, NEW S, ExactAt(t, u, S), NEW c, NEW o \in Entries, o.child \in S, PipeChan(c, o, t)
  PROVE  PipeChan(c, o, u)
<1> SUFFICES ASSUME NEW p \in PipeIds, u.fds[o.child] = ChildEnd(o.stream, p)
             PROVE  PipeOK(c, o.stream, u.pipes[p])
  BY DEF PipeChan
<1>1. t.fds[o.child] = ChildEnd(o.stream, p)
  BY DEF ExactAt
<1>2. PipeOK(c, o.stream, t.pipes[p])
  BY <1>1 DEF PipeChan
<1>3. IsEnd(t.fds[o.child]) /\ t.fds[o.child].pipe = p
  BY <1>1, HandleMembers DEF ChildEnd, IsEnd
<1>4. u.pipes[p] = t.pipes[p]
  BY <1>3 DEF ExactAt
<1> QED
  BY <1>2, <1>4

LEMMA FileChanStays ==
  ASSUME NEW t, NEW u, NEW S, ExactAt(t, u, S), NEW c, c.at.open \subseteq S, NEW o, o.own \in S, NEW r,
         NEW d \in Nat, NEW co, NEW w, w[r.file] = co[r.file] \/ (w[r.file].by # d /\ w[r.file].by >= d),
         FileChan(c, o, r, d, t, co)
  PROVE  FileChan(c, o, r, d, u, w)
<1>1. u.fds[o.own] = t.fds[o.own]
  BY DEF ExactAt
<1>2. Ours(c, r, d, u, w) => Ours(c, r, d, t, co) /\ w[r.file] = co[r.file]
  <2>1. AloneIn(u, c, r) <=> AloneIn(t, c, r)
    BY AloneStays
  <2> QED
    BY <2>1 DEF Ours
<1> QED
  BY <1>1, <1>2 DEF FileChan

\* The files of a call are files, and an entry in them is a file's.
LEMMA ChanParts ==
  ASSUME NEW c \in Calling, NEW std, StdPart(std, c), NEW i \in 1 .. Len(c.opened)
  PROVE  /\ i \in 1 .. Len(Redirects(c.req)) /\ c.opened[i] \in Entries
         /\ c.opened[i].stream = Redirects(c.req)[i].stream
         /\ Redirects(c.req)[i].file # None => Redirects(c.req)[i].file \in Files /\ c.opened[i].stream # STDIN
         /\ c.opened[i].own \in HeldFds(c.opened) /\ c.opened[i].child \in HeldFds(c.opened)
         /\ c.opened[i].stream \in Std
<1>1. c.opened \in Seq(Entries) /\ c.req \in Requests
  BY CallParts
<1>2. Len(c.opened) \in Nat /\ c.opened[i] \in Entries
  BY <1>1
<1>3. Len(c.opened) <= Len(Redirects(c.req)) /\ c.opened[i].stream = Redirects(c.req)[i].stream
  BY DEF StdPart
<1>4. Len(Redirects(c.req)) \in Nat
  BY <1>1, RedirectsFacts
<1>5. i \in 1 .. Len(Redirects(c.req))
  BY <1>2, <1>3, <1>4
<1>6. Redirects(c.req)[i].file # None => Redirects(c.req)[i].file \in Files /\ Redirects(c.req)[i].stream # STDIN
  BY <1>1, <1>5, RedirectsFacts
<1>7. c.opened[i].own \in TableFds /\ c.opened[i].child \in TableFds /\ c.opened[i].stream \in Std
  BY <1>2 DEF Entries
<1>8. c.opened[i].own \in HeldFds(c.opened) /\ c.opened[i].child \in HeldFds(c.opened)
  BY <1>7 DEF HeldFds, Both
<1> QED
  BY <1>2, <1>3, <1>5, <1>6, <1>7, <1>8

LEMMA CapStays ==
  ASSUME NEW c \in Calling, NEW std, StdPart(std, c), NEW d \in Nat, NEW t, NEW u, NEW S, ExactAt(t, u, S),
         c.at.open \subseteq S, c.pc \in Holding => HeldFds(c.opened) \subseteq S,
         NEW co, NEW w, \A f \in Files : w[f] = co[f] \/ (w[f].by # d /\ w[f].by >= d),
         CallCap(c, d, t, co)
  PROVE  CallCap(c, d, u, w)
<1>1. Logs(c) /\ Reads(c) /\ Gets(c) /\ Chans(c, d, t, co)
  BY DEF CallCap
<1>2. ASSUME c.pc \in Holding, NEW i \in 1 .. Len(c.opened)
      PROVE  Chan(c, c.opened[i], Redirects(c.req)[i], d, u, w)
  <2> DEFINE o == c.opened[i]
             r == Redirects(c.req)[i]
  <2>1. /\ o \in Entries /\ o.own \in S /\ o.child \in S
        /\ r.file # None => r.file \in Files
    BY <1>2, ChanParts
  <2>2. Chan(c, o, r, d, t, co)
    BY <1>1, <1>2 DEF Chans
  <2> HIDE DEF o, r
  <2>3. CASE r.file = None
    <3>1. PipeChan(c, o, t)
      BY <2>2, <2>3 DEF Chan
    <3>2. PipeChan(c, o, u)
      BY <2>1, <3>1, PipeChanStays
    <3> QED
      BY <2>3, <3>2 DEF Chan, o, r
  <2>4. CASE r.file # None
    <3>1. FileChan(c, o, r, d, t, co)
      BY <2>2, <2>4 DEF Chan
    <3>2. w[r.file] = co[r.file] \/ (w[r.file].by # d /\ w[r.file].by >= d)
      BY <2>1, <2>4
    <3>3. FileChan(c, o, r, d, u, w)
      BY <2>1, <3>1, <3>2, FileChanStays
    <3> QED
      BY <2>4, <3>3 DEF Chan, o, r
  <2> QED
    BY <2>3, <2>4
<1>3. ASSUME c.pc = "done", NEW i \in 1 .. Len(Redirects(c.req)), Redirects(c.req)[i].file # None,
             Ours(c, Redirects(c.req)[i], d, u, w)
      PROVE  w[Redirects(c.req)[i].file].data = c.log[Redirects(c.req)[i].stream]
  <2> DEFINE r == Redirects(c.req)[i]
  <2>1. r.file \in Files
    BY <1>3, RedirectsFacts, CallParts
  <2>2. Ours(c, r, d, t, co) => co[r.file].data = c.log[r.stream]
    BY <1>1, <1>3 DEF Chans
  <2>3. w[r.file] = co[r.file] \/ w[r.file].by # d
    BY <2>1
  <2>4. Ours(c, r, d, u, w)
    BY <1>3
  <2> HIDE DEF r
  <2>5. Ours(c, r, d, t, co) /\ w[r.file] = co[r.file]
    <3>1. AloneIn(u, c, r) <=> AloneIn(t, c, r)
      BY AloneStays
    <3> QED
      BY <2>3, <2>4, <3>1 DEF Ours
  <2>6. w[r.file].data = c.log[r.stream]
    BY <2>2, <2>5
  <2> QED
    BY <2>6 DEF r
<1>4. Chans(c, d, u, w)
  BY <1>2, <1>3 DEF Chans
<1> QED
  BY <1>1, <1>4 DEF CallCap

LEMMA SinkStays ==
  ASSUME NEW ch, NEW v, NEW d \in Nat, ch[d].sink \in [Std -> Nat], \A s \in Std : ch[d].sink[s] < d,
         v[d].sink = ch[d].sink, OwnStd(v[d]) = OwnStd(ch[d]),
         \A e \in 1 .. d - 1 : v[e].call.opened = ch[e].call.opened, SinkAt(ch, d)
  PROVE  SinkAt(v, d)
<1> SUFFICES ASSUME NEW s \in Std
             PROVE  LET e == v[d].sink[s]
                    IN  IF e = 0 THEN OwnStd(v[d])[s] = s
                        ELSE \E i \in 1 .. Len(v[e].call.opened) :
                               v[e].call.opened[i].stream = s /\ OwnStd(v[d])[s] = v[e].call.opened[i].child
  BY DEF SinkAt
<1> DEFINE e == ch[d].sink[s]
<1>1. e \in Nat /\ e < d /\ v[d].sink[s] = e
  OBVIOUS
<1>2. IF e = 0 THEN OwnStd(ch[d])[s] = s
      ELSE \E i \in 1 .. Len(ch[e].call.opened) :
             ch[e].call.opened[i].stream = s /\ OwnStd(ch[d])[s] = ch[e].call.opened[i].child
  BY DEF SinkAt
<1> HIDE DEF e
<1>3. CASE e = 0
  BY <1>1, <1>2, <1>3
<1>4. CASE e # 0
  <2>1. e \in 1 .. d - 1
    BY <1>1, <1>4
  <2>2. v[e].call.opened = ch[e].call.opened
    BY <2>1
  <2> QED
    BY <1>1, <1>2, <1>4, <2>2
<1> QED
  BY <1>3, <1>4

\* A waiting call, whatever the last process does with descriptors of its own.
LEMMA WaitingStays ==
  ASSUME NEW ch, NEW t, NEW D, Good(ch, t, D), NEW co, Cap(ch, t, co), ch # <<>>, NEW d \in 1 .. Len(ch) - 1,
         NEW u, ExactAt(t, u, Below(ch, Len(ch))), NEW w, \A f \in Files : w[f] = co[f] \/ w[f].by = Len(ch)
  PROVE  ch[d].call \in Calling /\ CallCap(ch[d].call, d, u, w)
<1> DEFINE c == ch[d].call
           n == Len(ch)
           B == Below(ch, Len(ch))
<1>1. c \in Calling /\ c.pc = "wait" /\ c.at.open = Below(ch, d) /\ d \in 1 .. Len(ch)
      /\ Below(ch, d) \cup HeldNow(ch[d]) \subseteq B /\ HeldNow(ch[d]) = HeldFds(c.opened)
  BY BelowNext
<1>2. ProcGood(ch[d], D) /\ n \in Nat
  BY <1>1, GoodParts
<1>3. c # NoCall
  BY <1>1, CallParts
<1>4. StdPart(ch[d].std, c)
  BY <1>2, <1>3 DEF ProcGood
<1>5. CallCap(c, d, t, co)
  BY <1>1, <1>3 DEF Cap
<1>6. d \in Nat /\ d < n
  BY <1>2
<1>7. \A f \in Files : w[f] = co[f] \/ (w[f].by # d /\ w[f].by >= d)
  BY <1>2, <1>6
<1>8. c.at.open \subseteq B /\ HeldFds(c.opened) \subseteq B
  BY <1>1
<1> HIDE DEF c, B, n
<1>9. ExactAt(t, u, B)
  BY DEF B
<1>10. CallCap(c, d, u, w)
  BY <1>1, <1>4, <1>5, <1>6, <1>7, <1>8, <1>9, CapStays
<1> QED
  BY <1>1, <1>10 DEF c

LEMMA CapTop ==
  ASSUME NEW ch, NEW t, NEW D, Good(ch, t, D), NEW co, Cap(ch, t, co), ch # <<>>, NEW p \in Processes,
         NEW u, ExactAt(t, u, Below(ch, Len(ch))), NEW w, \A f \in Files : w[f] = co[f] \/ w[f].by = Len(ch),
         p.sink = ch[Len(ch)].sink, OwnStd(p) = OwnStd(ch[Len(ch)]),
         p.call # NoCall => CallCap(p.call, Len(ch), u, w)
  PROVE  Cap(SetTop(ch, p), u, w)
<1> DEFINE n == Len(ch)
           v == SetTop(ch, p)
<1>1. ch \in Seq(Processes) /\ n \in Nat /\ n # 0
  BY GoodParts
<1>2. /\ Len(v) = n /\ v[n] = p /\ \A d \in 1 .. n - 1 : v[d] = ch[d]
  BY <1>1, SetTopFacts
<1> HIDE DEF v
<1> SUFFICES ASSUME NEW d \in 1 .. n
             PROVE  (v[d].call # NoCall => CallCap(v[d].call, d, u, w)) /\ SinkAt(v, d)
  BY <1>2 DEF Cap, v
<1>3. v[d].call # NoCall => CallCap(v[d].call, d, u, w)
  <2>1. CASE d = n
    BY <1>2, <2>1
  <2>2. CASE d \in 1 .. n - 1
    BY <1>2, <2>2, WaitingStays
  <2> QED
    BY <1>1, <2>1, <2>2
<1>4. SinkAt(v, d)
  <2>1. ch[d] \in Processes /\ \A s \in Std : ch[d].sink[s] < d
    BY GoodParts
  <2>2. ch[d].sink \in [Std -> Nat] /\ d \in Nat
    BY <2>1, ProcParts
  <2>3. v[d].sink = ch[d].sink /\ OwnStd(v[d]) = OwnStd(ch[d])
    BY <1>1, <1>2
  <2>4. \A e \in 1 .. d - 1 : v[e].call.opened = ch[e].call.opened
    BY <1>1, <1>2
  <2>5. SinkAt(ch, d)
    BY DEF Cap
  <2> QED
    BY <2>1, <2>2, <2>3, <2>4, <2>5, SinkStays
<1> QED
  BY <1>3, <1>4

\* A change of what is no stream.
LEMMA CapSame ==
  ASSUME NEW ch, NEW t, NEW D, Good(ch, t, D), NEW co, Cap(ch, t, co), NEW v, Len(v) = Len(ch),
         \A d \in 1 .. Len(ch) : v[d].call = ch[d].call /\ v[d].std = ch[d].std /\ v[d].sink = ch[d].sink
  PROVE  Cap(v, t, co)
<1> SUFFICES ASSUME NEW d \in 1 .. Len(ch)
             PROVE  (v[d].call # NoCall => CallCap(v[d].call, d, t, co)) /\ SinkAt(v, d)
  BY DEF Cap
<1>1. (ch[d].call # NoCall => CallCap(ch[d].call, d, t, co)) /\ SinkAt(ch, d)
  BY DEF Cap
<1>2. ch[d] \in Processes /\ (\A s \in Std : ch[d].sink[s] < d) /\ Len(ch) \in Nat
  BY GoodParts
<1>3. ch[d].sink \in [Std -> Nat] /\ d \in Nat
  BY <1>2, ProcParts
<1>4. OwnStd(v[d]) = OwnStd(ch[d])
  BY DEF OwnStd
<1>5. \A e \in 1 .. d - 1 : v[e].call.opened = ch[e].call.opened
  BY <1>2
<1>6. SinkAt(v, d)
  BY <1>1, <1>2, <1>3, <1>4, <1>5, SinkStays
<1> QED
  BY <1>1, <1>6

-----------------------------------------------------------------------------
(* Bytes through a stream: nobody else's streams are touched.              *)

\* Every descriptor is held by one call, for one stream.
LEMMA HeldOnce ==
  ASSUME NEW ch, NEW t, NEW D, Good(ch, t, D), NEW d \in 1 .. Len(ch) - 1, NEW e \in 1 .. Len(ch) - 1,
         NEW i \in 1 .. Len(ch[d].call.opened), NEW j \in 1 .. Len(ch[e].call.opened),
         NEW fd \in Both(ch[d].call.opened[i]), fd \in Both(ch[e].call.opened[j])
  PROVE  d = e /\ i = j
<1>1. ASSUME NEW a \in 1 .. Len(ch) - 1
      PROVE  /\ ch[a].call \in Calling /\ a \in 1 .. Len(ch) /\ a + 1 \in 1 .. Len(ch)
             /\ Apart(ch[a].call.opened) /\ HeldFds(ch[a].call.opened) \cap Below(ch, a) = {}
             /\ HeldFds(ch[a].call.opened) \subseteq Below(ch, a + 1)
  <2>1. /\ ch[a].call \in Calling /\ ch[a].call.pc = "wait" /\ a \in 1 .. Len(ch) /\ a + 1 \in 1 .. Len(ch)
        /\ HeldNow(ch[a]) = HeldFds(ch[a].call.opened) /\ Below(ch, a + 1) = Below(ch, a) \cup HeldNow(ch[a])
    BY <1>1, BelowNext
  <2>2. LinkGood(t, Below(ch, a), ch[a]) /\ ch[a].call # NoCall
    BY <2>1, GoodParts, CallParts
  <2>3. EntriesGood(t, Below(ch, a), ch[a].call.opened)
    BY <2>1, <2>2 DEF LinkGood, Holding, Early
  <2> QED
    BY <2>1, <2>3 DEF EntriesGood
<1>2. Len(ch) \in Nat
  BY GoodParts
<1>3. fd \in HeldFds(ch[d].call.opened) /\ fd \in HeldFds(ch[e].call.opened)
  <2>1. ch[d].call.opened \in Seq(Entries) /\ ch[e].call.opened \in Seq(Entries)
    BY <1>1, CallParts
  <2>2. ch[d].call.opened[i] \in Entries
    BY <2>1
  <2>3. fd \in TableFds
    BY <2>2 DEF Both, Entries
  <2> QED
    BY <2>3 DEF HeldFds
<1>4. ASSUME NEW a \in 1 .. Len(ch) - 1, NEW b \in 1 .. Len(ch) - 1, a < b,
             fd \in HeldFds(ch[a].call.opened), fd \in HeldFds(ch[b].call.opened)
      PROVE  FALSE
  <2>1. fd \in Below(ch, a + 1) /\ a + 1 \in 1 .. Len(ch) /\ b \in 1 .. Len(ch)
    BY <1>1, <1>4
  <2>2. a + 1 <= b
    BY <1>2, <1>4
  <2>3. Below(ch, a + 1) \subseteq Below(ch, b)
    BY <2>1, <2>2, GoodParts
  <2> QED
    BY <1>1, <1>4, <2>1, <2>3
<1>5. d = e
  BY <1>2, <1>3, <1>4
<1>6. i = j
  BY <1>1, <1>5 DEF Apart
<1> QED
  BY <1>5, <1>6

LEMMA AloneShape ==
  ASSUME NEW t, NEW u, SameShape(t, u), NEW c, c.at.open \subseteq TableFds, NEW r
  PROVE  AloneIn(u, c, r) <=> AloneIn(t, c, r)
<1>1. \A fd \in c.at.open : SameHandle(t.fds[fd], u.fds[fd])
  BY DEF SameShape
<1> QED
  BY <1>1 DEF AloneIn, SameHandle

LEMMA FileChanOther ==
  ASSUME NEW t, NEW u, SameShape(t, u), NEW c, c.at.open \subseteq TableFds, NEW o, u.fds[o.own] = t.fds[o.own],
         NEW r, NEW d, NEW co, NEW w, w[r.file].by = co[r.file].by,
         Ours(c, r, d, t, co) => w[r.file] = co[r.file], FileChan(c, o, r, d, t, co)
  PROVE  FileChan(c, o, r, d, u, w)
<1>1. AloneIn(u, c, r) <=> AloneIn(t, c, r)
  BY AloneShape
<1>2. Ours(c, r, d, u, w) <=> Ours(c, r, d, t, co)
  BY <1>1 DEF Ours
<1> QED
  BY <1>2 DEF FileChan

\* An entry of a waiting call.
EntryOf(ch, t, d, c, i, o, r) ==
    /\ c \in Calling /\ c.pc = "wait" /\ c.at.open = Below(ch, d) /\ c.at.open \subseteq TableFds
    /\ o \in Entries /\ o.stream \in Std /\ r.stream = o.stream /\ EntryGood(t, o)
    /\ o.own \in HeldFds(c.opened) /\ o.child \in HeldFds(c.opened)
    /\ r.file # None => r.file \in Files /\ o.stream # STDIN
    /\ \A e \in d + 1 .. Len(ch) : o.own \in Below(ch, e)
    /\ \A j \in 1 .. Len(c.opened) : c.opened[j].stream = o.stream => j = i
    /\ i \in 1 .. Len(Redirects(c.req))

LEMMA WaitingEntry ==
  ASSUME NEW ch, NEW t, NEW D, Good(ch, t, D), NEW d \in 1 .. Len(ch) - 1, NEW i \in 1 .. Len(ch[d].call.opened)
  PROVE  EntryOf(ch, t, d, ch[d].call, i, ch[d].call.opened[i], Redirects(ch[d].call.req)[i])
<1> DEFINE c == ch[d].call
           o == c.opened[i]
           r == Redirects(c.req)[i]
<1>1. /\ c \in Calling /\ c.pc = "wait" /\ d \in 1 .. Len(ch) /\ d + 1 \in 1 .. Len(ch) /\ c.at.open = Below(ch, d)
      /\ HeldNow(ch[d]) = HeldFds(c.opened) /\ Below(ch, d + 1) = Below(ch, d) \cup HeldNow(ch[d])
  BY BelowNext
<1>2. LinkGood(t, Below(ch, d), ch[d]) /\ c # NoCall /\ ProcGood(ch[d], D) /\ Len(ch) \in Nat
  BY <1>1, GoodParts, CallParts
<1>3. EntriesGood(t, Below(ch, d), c.opened) /\ StdPart(ch[d].std, c)
  BY <1>1, <1>2 DEF LinkGood, Holding, Early, ProcGood
<1>4. EntryGood(t, o)
  BY <1>3 DEF EntriesGood
<1>5. /\ i \in 1 .. Len(Redirects(c.req)) /\ o \in Entries /\ o.stream = r.stream
      /\ r.file # None => r.file \in Files /\ o.stream # STDIN
      /\ o.own \in HeldFds(c.opened) /\ o.child \in HeldFds(c.opened) /\ o.stream \in Std
  BY <1>1, <1>3, ChanParts
<1>6. c.at.open \subseteq TableFds /\ c.req \in Requests
  BY <1>1, CallParts
<1>7. ASSUME NEW e \in d + 1 .. Len(ch) PROVE o.own \in Below(ch, e)
  <2>1. o.own \in Below(ch, d + 1)
    BY <1>1, <1>5
  <2>2. e \in 1 .. Len(ch) /\ d + 1 <= e
    BY <1>2
  <2>3. Below(ch, d + 1) \subseteq Below(ch, e)
    BY <1>1, <2>2, GoodParts
  <2> QED
    BY <2>1, <2>3
<1>8. ASSUME NEW j \in 1 .. Len(c.opened), c.opened[j].stream = o.stream PROVE j = i
  <2>1. j \in 1 .. Len(Redirects(c.req)) /\ c.opened[j].stream = Redirects(c.req)[j].stream
    BY <1>1, <1>3, ChanParts
  <2> QED
    BY <1>5, <1>6, <1>8, <2>1, RedirectsFacts
<1> QED
  BY <1>1, <1>4, <1>5, <1>6, <1>7, <1>8 DEF EntryOf

\* Bytes pass the stream of entry i of a call: the tables and the files change
\* there only.
Passing(c, i, t, co, u, w) ==
    /\ SameShape(t, u) /\ ExactAt(t, u, TableFds \ Both(c.opened[i]))
    /\ \A f \in Files : w[f].by = co[f].by /\ (w[f] = co[f] \/ Redirects(c.req)[i].file = f)

LEMMA OthersStay ==
  ASSUME NEW ch, NEW t, NEW D, Good(ch, t, D), NEW d \in 1 .. Len(ch) - 1, NEW e \in 1 .. Len(ch) - 1,
         NEW j \in 1 .. Len(ch[d].call.opened), NEW i \in 1 .. Len(ch[e].call.opened), d # e \/ i # j,
         NEW u, NEW co, NEW w, Passing(ch[e].call, i, t, co, u, w),
         Chan(ch[e].call, ch[e].call.opened[i], Redirects(ch[e].call.req)[i], e, t, co),
         Chan(ch[d].call, ch[d].call.opened[j], Redirects(ch[d].call.req)[j], d, t, co)
  PROVE  Chan(ch[d].call, ch[d].call.opened[j], Redirects(ch[d].call.req)[j], d, u, w)
<1> DEFINE c == ch[d].call
           o == c.opened[j]
           r == Redirects(c.req)[j]
           x == ch[e].call.opened[i]
           q == Redirects(ch[e].call.req)[i]
           S == TableFds \ Both(x)
<1>7. /\ SameShape(t, u) /\ ExactAt(t, u, S)
      /\ \A f \in Files : w[f].by = co[f].by /\ (w[f] = co[f] \/ q.file = f)
  BY DEF Passing
<1>1. /\ c \in Calling /\ c.at.open = Below(ch, d) /\ c.at.open \subseteq TableFds /\ o \in Entries /\ r.stream = o.stream
      /\ r.file # None => r.file \in Files
      /\ j \in 1 .. Len(Redirects(c.req)) /\ c.req \in Requests
  <2>1. EntryOf(ch, t, d, c, j, o, r)
    BY WaitingEntry
  <2> HIDE DEF c, o, r
  <2>2. c \in Calling
    BY <2>1 DEF EntryOf
  <2> QED
    BY <2>1, <2>2, CallParts DEF EntryOf
<1>2. /\ EntryGood(t, x) /\ (\A a \in e + 1 .. Len(ch) : x.own \in Below(ch, a)) /\ q.stream = x.stream
      /\ i \in 1 .. Len(Redirects(ch[e].call.req))
  <2>1. EntryOf(ch, t, e, ch[e].call, i, x, q)
    BY WaitingEntry
  <2> QED
    BY <2>1 DEF EntryOf
<1>3. o.own \in S /\ o.child \in S
  <2>1. o.own \in TableFds /\ o.child \in TableFds
    BY <1>1 DEF Entries
  <2>2. ASSUME NEW fd \in Both(ch[d].call.opened[j]), fd \in Both(ch[e].call.opened[i]) PROVE FALSE
    <3>1. d = e /\ j = i
      BY <2>2, HeldOnce
    <3> QED
      BY <3>1
  <2>3. o.own \in Both(o) /\ o.child \in Both(o)
    BY DEF Both
  <2> QED
    BY <2>1, <2>2, <2>3
<1>4. Len(ch) \in Nat
  BY GoodParts
<1>5. CASE r.file = None
  <2>1. PipeChan(c, o, t)
    BY <1>5 DEF Chan
  <2> HIDE DEF c, o, r, S
  <2>3. PipeChan(c, o, u)
    BY <1>1, <1>3, <1>7, <2>1, PipeChanStays
  <2> QED
    BY <1>5, <2>3 DEF Chan, c, o, r
<1>6. CASE r.file # None
  <2>1. FileChan(c, o, r, d, t, co)
    BY <1>6 DEF Chan
  <2>2. u.fds[o.own] = t.fds[o.own]
    BY <1>3, <1>7 DEF ExactAt
  <2>3. r.file \in Files /\ w[r.file].by = co[r.file].by
    BY <1>1, <1>6, <1>7
  <2>4. ASSUME Ours(c, r, d, t, co), q.file = r.file PROVE FALSE
    <3>1. FileChan(ch[e].call, x, q, e, t, co)
      BY <1>6, <2>4 DEF Chan
    <3>2. x.own = x.child /\ t.fds[x.own].file = r.file /\ co[r.file].by >= e /\ co[r.file].by = d /\ AloneIn(t, c, r)
      BY <2>4, <3>1 DEF FileChan, Ours
    <3>3. t.fds[x.own].kind = "Pfs"
      BY <1>2, <3>2 DEF EntryGood
    <3>4. CASE d = e
      <4>1. i \in 1 .. Len(Redirects(c.req)) /\ Redirects(c.req)[i] = r
        BY <1>2, <2>4, <3>2, <3>4 DEF AloneIn
      <4>2. i = j
        BY <1>1, <4>1, RedirectsFacts
      <4> QED
        BY <3>4, <4>2
    <3>5. CASE d # e
      <4>1. d \in e + 1 .. Len(ch)
        <5> DEFINE k == co[r.file].by
        <5>1. k >= e /\ k = d
          BY <3>2
        <5> HIDE DEF k
        <5> QED
          BY <1>4, <3>5, <5>1
      <4>2. x.own \in c.at.open
        BY <1>1, <1>2, <4>1
      <4> QED
        BY <3>2, <3>3, <4>2 DEF AloneIn
    <3> QED
      BY <3>4, <3>5
  <2>5. Ours(c, r, d, t, co) => w[r.file] = co[r.file]
    BY <1>7, <2>3, <2>4
  <2> HIDE DEF c, o, r
  <2>6. FileChan(c, o, r, d, u, w)
    BY <1>1, <1>7, <2>1, <2>2, <2>3, <2>5, FileChanOther
  <2> QED
    BY <1>6, <2>6 DEF Chan, c, o, r
<1> QED
  BY <1>5, <1>6

LEMMA ChanLog ==
  ASSUME NEW c, NEW b, b.pc = c.pc, b.req = c.req, b.unread = c.unread, b.got = c.got, b.at = c.at,
         NEW o, NEW r, r.stream = o.stream, b.log[o.stream] = c.log[o.stream],
         NEW d, NEW t, NEW co, Chan(c, o, r, d, t, co)
  PROVE  Chan(b, o, r, d, t, co)
<1>1. CASE r.file = None
  BY <1>1 DEF Chan, PipeChan, PipeOK
<1>2. CASE r.file # None
  BY <1>2 DEF Chan, FileChan, Ours, AloneIn
<1> QED
  BY <1>1, <1>2

\* ... and there according to what the call has logged.
Passed(b, c, i, e, u, w) ==
    /\ Chan(b, c.opened[i], Redirects(c.req)[i], e, u, w)
    /\ IsPrefix(b.log[STDIN], Take(c.req.stdin, APP_PIPE_BUFFER_SIZE))

LEMMA StreamCap ==
  ASSUME NEW ch, NEW t, NEW D, Good(ch, t, D), NEW co, Cap(ch, t, co), ch[Len(ch)].call = NoCall,
         NEW e \in 1 .. Len(ch) - 1, NEW i \in 1 .. Len(ch[e].call.opened), NEW data \in Seq(Bytes),
         NEW s \in Std, s = ch[e].call.opened[i].stream, NEW u, NEW w, Passing(ch[e].call, i, t, co, u, w),
         NEW v, v = Logged(ch, e, s, data), Passed(v[e].call, ch[e].call, i, e, u, w)
  PROVE  Cap(v, u, w)
<1> DEFINE n == Len(ch)
<1>0. ch \in Seq(Processes) /\ n \in Nat
  BY GoodParts
<1>1. ch \in Seq(Processes) /\ n \in Nat /\ e \in 1 .. n /\ e \in 1 .. n - 1
  BY <1>0
<1>2. ch[e].call \in Calling /\ ch[e].call.pc = "wait"
  BY BelowNext
<1>3. /\ v \in Seq(Processes) /\ Len(v) = n
      /\ \A d \in 1 .. n : Similar(ch[d], v[d])
      /\ \A d \in 1 .. n : d # e => v[d] = ch[d]
      /\ v[e].call.log = Longer(ch[e].call.log, s, data)
      /\ v[e].call.got = ch[e].call.got /\ v[e].call.unread = ch[e].call.unread
  BY <1>1, <1>2, LoggedFacts, ZenonT(40)
<1>4. \A d \in 1 .. n : /\ v[d].sink = ch[d].sink /\ OwnStd(v[d]) = OwnStd(ch[d])
  <2> TAKE d \in 1 .. n
  <2>1. Similar(ch[d], v[d])
    BY <1>3
  <2> QED
    BY <2>1 DEF Similar, OwnStd
<1>5. \A d \in 1 .. n - 1 : v[d].call.opened = ch[d].call.opened
  <2> TAKE d \in 1 .. n - 1
  <2>1. Similar(ch[d], v[d]) /\ ch[d].call # NoCall
    BY <1>1, <1>3, BelowNext, CallParts
  <2> QED
    BY <2>1 DEF Similar
<1>6. /\ v[e].call.pc = "wait" /\ v[e].call.req = ch[e].call.req /\ v[e].call.opened = ch[e].call.opened
      /\ v[e].call.at = ch[e].call.at
  <2>1. Similar(ch[e], v[e]) /\ ch[e].call # NoCall
    BY <1>1, <1>2, <1>3, CallParts
  <2> QED
    BY <1>2, <2>1 DEF Similar
<1>7. ASSUME NEW d \in 1 .. n PROVE SinkAt(v, d)
  <2>1. ch[d] \in Processes /\ \A z \in Std : ch[d].sink[z] < d
    BY GoodParts
  <2>2. ch[d].sink \in [Std -> Nat] /\ d \in Nat
    BY <2>1, ProcParts
  <2>3. v[d].sink = ch[d].sink /\ OwnStd(v[d]) = OwnStd(ch[d])
    BY <1>4
  <2>4. \A a \in 1 .. d - 1 : v[a].call.opened = ch[a].call.opened
    <3> HIDE DEF n
    <3>1. \A a \in 1 .. d - 1 : a \in 1 .. n - 1
      BY <1>1
    <3> QED
      BY <1>5, <3>1
  <2>5. SinkAt(ch, d)
    BY DEF Cap
  <2> QED
    BY <2>1, <2>2, <2>3, <2>4, <2>5, SinkStays
<1>11. ASSUME NEW j \in 1 .. Len(ch[e].call.opened)
       PROVE  /\ ch[e].call.opened[j].stream \in Std
              /\ Redirects(ch[e].call.req)[j].stream = ch[e].call.opened[j].stream
              /\ ch[e].call.opened[j].stream = s => i = j
  <2>1. /\ ch[e].call.opened[j].stream \in Std
        /\ Redirects(ch[e].call.req)[j].stream = ch[e].call.opened[j].stream
    <3>1. EntryOf(ch, t, e, ch[e].call, j, ch[e].call.opened[j], Redirects(ch[e].call.req)[j])
      BY <1>11, WaitingEntry
    <3> QED
      BY <3>1 DEF EntryOf
  <2>2. \A k \in 1 .. Len(ch[e].call.opened) : ch[e].call.opened[k].stream = ch[e].call.opened[i].stream => k = i
    <3>1. EntryOf(ch, t, e, ch[e].call, i, ch[e].call.opened[i], Redirects(ch[e].call.req)[i])
      BY WaitingEntry
    <3> QED
      BY <3>1 DEF EntryOf
  <2> QED
    BY <1>11, <2>1, <2>2
<1>8. ASSUME NEW d \in 1 .. n - 1
      PROVE  /\ d \in 1 .. n /\ ch[d].call.pc = "wait" /\ ch[d].call # NoCall /\ Logs(ch[d].call)
             /\ \A j \in 1 .. Len(ch[d].call.opened) :
                  Chan(ch[d].call, ch[d].call.opened[j], Redirects(ch[d].call.req)[j], d, t, co)
  <2>1. d \in 1 .. n /\ ch[d].call \in Calling /\ ch[d].call.pc = "wait"
    BY <1>8, BelowNext
  <2>2. ch[d].call # NoCall
    BY <2>1, CallParts
  <2>3. CallCap(ch[d].call, d, t, co)
    BY <2>1, <2>2 DEF Cap
  <2> QED
    BY <2>1, <2>2, <2>3 DEF CallCap, Chans, Holding, Early
<1>9. ASSUME NEW d \in 1 .. n - 1, NEW j \in 1 .. Len(ch[d].call.opened), d # e \/ i # j
      PROVE  Chan(ch[d].call, ch[d].call.opened[j], Redirects(ch[d].call.req)[j], d, u, w)
  <2>3. Chan(ch[d].call, ch[d].call.opened[j], Redirects(ch[d].call.req)[j], d, t, co)
    BY <1>8
  <2>4. Chan(ch[e].call, ch[e].call.opened[i], Redirects(ch[e].call.req)[i], e, t, co)
    BY <1>8
  <2> QED
    BY <1>9, <2>3, <2>4, OthersStay
<1>10. ASSUME NEW d \in 1 .. n, v[d].call # NoCall PROVE CallCap(v[d].call, d, u, w)
  <2>1. CASE d = n
    <3>0. d # e
      <4> HIDE DEF n
      <4> QED
        BY <1>1, <2>1
    <3>1. v[d] = ch[d]
      BY <1>3, <3>0
    <3> QED
      BY <1>10, <2>1, <3>1
  <2>2. CASE d \in 1 .. n - 1 /\ d # e
    <3>1. v[d] = ch[d]
      BY <1>3, <2>2
    <3>2. \A j \in 1 .. Len(ch[d].call.opened) :
            Chan(ch[d].call, ch[d].call.opened[j], Redirects(ch[d].call.req)[j], d, u, w)
      BY <1>9, <2>2
    <3>3. ch[d].call.pc = "wait" /\ Logs(ch[d].call)
      BY <1>8, <2>2
    <3>4. Chans(ch[d].call, d, u, w)
      BY <3>2, <3>3 DEF Chans
    <3>5. Reads(ch[d].call) /\ Gets(ch[d].call)
      BY <3>3 DEF Reads, Gets
    <3> QED
      BY <3>1, <3>3, <3>4, <3>5 DEF CallCap
  <2>3. CASE d = e
    <3> DEFINE b == v[e].call
    <3>1. ASSUME NEW j \in 1 .. Len(b.opened) PROVE Chan(b, b.opened[j], Redirects(b.req)[j], e, u, w)
      <4>1. CASE j = i
        BY <1>6, <4>1 DEF Passed
      <4>2. CASE j # i
        <5> DEFINE c == ch[e].call
                   o == c.opened[j]
                   r == Redirects(c.req)[j]
        <5>1. Chan(c, o, r, e, u, w)
          BY <1>6, <1>9, <3>1, <4>2
        <5>2. o.stream \in Std /\ r.stream = o.stream /\ o.stream # s
          <6>1. j \in 1 .. Len(ch[e].call.opened)
            BY <1>6, <3>1
          <6> QED
            BY <1>11, <4>2, <6>1
        <5>3. b.log[o.stream] = c.log[o.stream]
          <6>1. c.log \in [Std -> Seq(Bytes)]
            BY <1>2, CallParts
          <6> QED
            BY <1>3, <5>2, <6>1 DEF Longer
        <5>4. b.pc = c.pc /\ b.req = c.req /\ b.unread = c.unread /\ b.got = c.got /\ b.at = c.at /\ b.opened = c.opened
          BY <1>2, <1>3, <1>6
        <5> HIDE DEF b, c, o, r
        <5>5. Chan(b, o, r, e, u, w)
          BY <5>1, <5>2, <5>3, <5>4, ChanLog
        <5> QED
          BY <5>4, <5>5 DEF o, r
      <4> QED
        BY <4>1, <4>2
    <3>2. Logs(ch[e].call)
      BY <1>8
    <3>3. Logs(b)
      BY <1>2, <1>3, <1>6, <3>2 DEF Logs, Early, Passed
    <3>4. Chans(b, e, u, w)
      BY <1>6, <3>1 DEF Chans
    <3>5. Reads(b) /\ Gets(b)
      BY <1>6 DEF Reads, Gets
    <3> QED
      BY <2>3, <3>3, <3>4, <3>5 DEF CallCap
  <2>4. d = n \/ d \in 1 .. n - 1
    <3> HIDE DEF n
    <3> QED
      BY <1>1
  <2> QED
    BY <2>1, <2>2, <2>3, <2>4
<1> QED
  BY <1>3, <1>7, <1>10 DEF Cap

\* Where a stream of an idle last process goes.
Carries(ch, e, s, fd) ==
    \E i \in 1 .. Len(ch[e].call.opened) : ch[e].call.opened[i].stream = s /\ fd = ch[e].call.opened[i].child

LEMMA SinkOf ==
  ASSUME NEW ch, NEW t, NEW D, Good(ch, t, D), NEW co, Cap(ch, t, co), ch # <<>>, ch[Len(ch)].call = NoCall, NEW s \in Std
  PROVE  /\ ch[Len(ch)].sink[s] = 0 => ch[Len(ch)].std[s] = s
         /\ ch[Len(ch)].sink[s] # 0 =>
              /\ ch[Len(ch)].sink[s] \in 1 .. Len(ch) - 1
              /\ Carries(ch, ch[Len(ch)].sink[s], s, ch[Len(ch)].std[s])
<1> DEFINE n == Len(ch)
<1>1. ch \in Seq(Processes) /\ n \in Nat /\ n \in 1 .. n
  BY GoodParts
<1>2. ch[n] \in Processes /\ ch[n].sink[s] < n
  BY <1>1, GoodParts
<1>3. ch[n].sink[s] \in Nat
  BY <1>2, ProcParts
<1>4. SinkAt(ch, n) /\ OwnStd(ch[n]) = ch[n].std
  BY <1>1 DEF Cap, OwnStd
<1> HIDE DEF n
<1>5. ch[n].sink[s] # 0 => ch[n].sink[s] \in 1 .. n - 1
  BY <1>1, <1>2, <1>3
<1>6. IF ch[n].sink[s] = 0 THEN ch[n].std[s] = s ELSE Carries(ch, ch[n].sink[s], s, ch[n].std[s])
  <2> DEFINE e == ch[n].sink[s]
  <2>1. IF e = 0 THEN OwnStd(ch[n])[s] = s
        ELSE \E i \in 1 .. Len(ch[e].call.opened) :
               ch[e].call.opened[i].stream = s /\ OwnStd(ch[n])[s] = ch[e].call.opened[i].child
    BY <1>4 DEF SinkAt
  <2> HIDE DEF e
  <2>2. IF e = 0 THEN ch[n].std[s] = s ELSE Carries(ch, e, s, ch[n].std[s])
    BY <1>4, <2>1 DEF Carries
  <2> QED
    BY <2>2 DEF e
<1> QED
  BY <1>5, <1>6 DEF n

\* The pipe of an entry is no one else's.
LEMMA PipeApart ==
  ASSUME NEW t, GoodTab(t), NEW o \in Entries, NEW p \in PipeIds, NEW s,
         t.fds[o.child] = ChildEnd(s, p), t.fds[o.own] = OwnEnd(s, p),
         NEW pipe \in Pipes, Fits(pipe), SameFlags(t.pipes[p], pipe)
  PROVE  LET u == WithPipe(t, p, pipe)
         IN  SameShape(t, u) /\ ExactAt(t, u, TableFds \ Both(o)) /\ u.fds = t.fds /\ u.pipes[p] = pipe
<1> DEFINE u == WithPipe(t, p, pipe)
<1>1. /\ SameShape(t, u) /\ u.fds = t.fds /\ u.pipes[p] = pipe
      /\ \A q \in PipeIds \ {p} : u.pipes[q] = t.pipes[q]
  BY BytesChange
<1>2. t \in Tabs /\ Matched(t) /\ o.own \in TableFds /\ o.child \in TableFds
  BY DEF GoodTab, Entries
<1> HIDE DEF u
<1>3. ASSUME NEW fd \in TableFds \ Both(o), IsEnd(t.fds[fd]) PROVE u.pipes[t.fds[fd].pipe] = t.pipes[t.fds[fd].pipe]
  <2>1. t.fds[fd] \in Handles
    BY <1>2, TabParts
  <2>2. t.fds[fd].pipe \in PipeIds /\ (t.fds[fd] = PipeRead(t.fds[fd].pipe) \/ t.fds[fd] = PipeWrite(t.fds[fd].pipe))
    BY <1>3, <2>1, HandleKinds DEF IsEnd
  <2>3. t.fds[fd] # PipeRead(p) /\ t.fds[fd] # PipeWrite(p)
    <3>1. PICK a \in Both(o), b \in Both(o) : t.fds[a] = PipeRead(p) /\ t.fds[b] = PipeWrite(p)
      BY DEF ChildEnd, OwnEnd, Both
    <3>2. a \in TableFds /\ b \in TableFds /\ a # fd /\ b # fd
      BY <1>2, <1>3, <3>1 DEF Both
    <3> QED
      BY <1>2, <1>3, <3>1, <3>2 DEF Matched
  <2> QED
    BY <1>1, <2>2, <2>3
<1>4. ExactAt(t, u, TableFds \ Both(o))
  BY <1>1, <1>3 DEF ExactAt
<1> QED
  BY <1>1, <1>4 DEF u

LEMMA EntryPipe ==
  ASSUME NEW t, GoodTab(t), NEW o \in Entries, EntryGood(t, o), o.own # o.child
  PROVE  \E p \in PipeIds : /\ t.fds[o.child] = ChildEnd(o.stream, p) /\ t.fds[o.own] = OwnEnd(o.stream, p)
                            /\ t.pipes[p].read_open /\ t.pipes[p] \in Pipes /\ Fits(t.pipes[p])
<1>1. PICK p \in PipeIds : t.fds[o.child] = ChildEnd(o.stream, p) /\ t.fds[o.own] = OwnEnd(o.stream, p)
  BY DEF EntryGood
<1>2. t \in Tabs /\ Matched(t) /\ o.own \in TableFds /\ o.child \in TableFds
  BY DEF GoodTab, Entries
<1>3. t.pipes[p] \in Pipes /\ Fits(t.pipes[p])
  BY <1>2, TabParts DEF GoodTab
<1>4. PICK a \in TableFds : t.fds[a] = PipeRead(p)
  BY <1>1, <1>2 DEF ChildEnd, OwnEnd
<1>5. t.fds[a].kind = "PipeRead" /\ t.fds[a].pipe = p
  BY <1>4, HandleMembers
<1>6. t.pipes[p].read_open
  BY <1>2, <1>5 DEF Matched, IsEnd, EndOpen
<1> QED
  BY <1>1, <1>3, <1>6

\* The ends of different pipes are different.
LEMMA EndsDiffer ==
  ASSUME NEW p \in PipeIds, NEW q \in PipeIds, NEW s, ChildEnd(s, p) = ChildEnd(s, q)
  PROVE  p = q
BY HandleMembers DEF ChildEnd

\* A write to the pipe of an entry.
LEMMA PipeTakes ==
  ASSUME NEW t, GoodTab(t), NEW co, NEW o \in Entries, EntryGood(t, o), o.stream # STDIN, NEW data \in Seq(Bytes),
         NEW c \in Calling, c.pc = "wait", PipeChan(c, o, t),
         NEW b, b.pc = "wait", b.log[o.stream] = c.log[o.stream] \o data
  PROVE  LET a == abi_write_fd(t, co, o.child, data)
         IN  /\ a.content = co /\ SameShape(t, a.tab) /\ ExactAt(t, a.tab, TableFds \ Both(o))
             /\ PipeChan(b, o, a.tab)
<1>1. o.own # o.child
  BY DEF PipeChan
<1>2. PICK p \in PipeIds : /\ t.fds[o.child] = ChildEnd(o.stream, p) /\ t.fds[o.own] = OwnEnd(o.stream, p)
                           /\ t.pipes[p].read_open /\ t.pipes[p] \in Pipes /\ Fits(t.pipes[p])
  BY <1>1, EntryPipe
<1> DEFINE s == o.stream
           q == t.pipes[p]
           r == AfterWrite(q, data)
           u == WithPipe(t, p, r)
           a == abi_write_fd(t, co, o.child, data)
<1>3. o.child \in TableFds /\ t.fds[o.child] = PipeWrite(p) /\ s \in Std
  BY <1>2 DEF Entries, ChildEnd
<1>4. a.content = co /\ a.tab = u
  BY <1>2, <1>3, WritePipe
<1>5. r \in Pipes /\ Fits(r) /\ SameFlags(q, r)
  BY <1>2, AfterWriteFacts
<1> HIDE DEF r
<1>6. SameShape(t, u) /\ ExactAt(t, u, TableFds \ Both(o)) /\ u.fds = t.fds /\ u.pipes[p] = r
  BY <1>2, <1>5, PipeApart, SMTT(30)
<1> HIDE DEF u, a
<1>7. q.read_offset = 0 /\ q.buffer = Take(c.log[s], APP_PIPE_BUFFER_SIZE)
  BY <1>2 DEF PipeChan, PipeOK, Early
<1>8. r.read_offset = 0 /\ r.buffer = q.buffer \o SubSeq(data, 1, Fitting(q, data))
  BY <1>2, <1>7 DEF r, AfterWrite, Pipes
<1>9. r.buffer = Take(c.log[s] \o data, APP_PIPE_BUFFER_SIZE)
  <2>1. c.log[s] \in Seq(Bytes) /\ APP_PIPE_BUFFER_SIZE \in Nat
    BY <1>3, CallParts, FdsAssumption
  <2>2. Take(c.log[s], APP_PIPE_BUFFER_SIZE)
          \o SubSeq(data, 1, Min({Len(data), APP_PIPE_BUFFER_SIZE - Len(Take(c.log[s], APP_PIPE_BUFFER_SIZE))}))
        = Take(c.log[s] \o data, APP_PIPE_BUFFER_SIZE)
    BY <2>1, TakeJoin
  <2> QED
    BY <1>7, <1>8, <2>2 DEF Fitting, Room
<1>10. ASSUME NEW x \in PipeIds, u.fds[o.child] = ChildEnd(o.stream, x) PROVE PipeOK(b, o.stream, u.pipes[x])
  <2>1. x = p
    BY <1>2, <1>6, <1>10, EndsDiffer
  <2> QED
    BY <1>6, <1>8, <1>9, <2>1 DEF PipeOK
<1>11. PipeChan(b, o, u)
  BY <1>1, <1>10 DEF PipeChan
<1> QED
  BY <1>4, <1>6, <1>11 DEF a

\* A read of the pipe of an entry.
LEMMA PipeGives ==
  ASSUME NEW t, GoodTab(t), NEW o \in Entries, EntryGood(t, o), o.stream = STDIN, NEW n \in Nat,
         NEW c \in Calling, c.pc = "wait", PipeChan(c, o, t),
         NEW b, b.pc = "wait", b.req = c.req, b.log[STDIN] = c.log[STDIN] \o abi_read(t, o.child, n).data
  PROVE  LET a == abi_read(t, o.child, n)
         IN  /\ SameShape(t, a.tab) /\ ExactAt(t, a.tab, TableFds \ Both(o)) /\ PipeChan(b, o, a.tab)
             /\ IsPrefix(b.log[STDIN], Take(c.req.stdin, APP_PIPE_BUFFER_SIZE))
<1>1. o.own # o.child
  BY DEF PipeChan
<1>2. PICK p \in PipeIds : /\ t.fds[o.child] = ChildEnd(o.stream, p) /\ t.fds[o.own] = OwnEnd(o.stream, p)
                           /\ t.pipes[p].read_open /\ t.pipes[p] \in Pipes /\ Fits(t.pipes[p])
  BY <1>1, EntryPipe
<1> DEFINE q == t.pipes[p]
           r == AfterRead(q, n)
           u == WithPipe(t, p, r)
           x == ReadData(q, n)
           a == abi_read(t, o.child, n)
<1>3. o.child \in TableFds /\ t.fds[o.child] = PipeRead(p)
  BY <1>2 DEF Entries, ChildEnd
<1>4. a.data = x /\ a.tab = u
  BY <1>2, <1>3, ReadPipe
<1>5. r \in Pipes /\ Fits(r) /\ SameFlags(q, r)
  BY <1>2, AfterReadFacts
<1>6. Rest(q) \in Seq(Bytes) /\ Rest(r) \in Seq(Bytes) /\ x \o Rest(r) = Rest(q)
  BY <1>2, ReadMove
<1>13. x \in Seq(Bytes)
  BY <1>2, ReadEnd
<1> HIDE DEF r, x
<1>16. /\ SameFlags(t.pipes[p], r) /\ r \in Pipes /\ Fits(r)
       /\ t.fds[o.child] = ChildEnd(STDIN, p) /\ t.fds[o.own] = OwnEnd(STDIN, p)
  BY <1>2, <1>5
<1>7. SameShape(t, u) /\ ExactAt(t, u, TableFds \ Both(o)) /\ u.fds = t.fds /\ u.pipes[p] = r
  <2> HIDE DEF q
  <2> QED
    BY <1>16, PipeApart
<1> HIDE DEF u, a
<1>8. c.log[STDIN] \o Rest(q) = Take(c.req.stdin, APP_PIPE_BUFFER_SIZE)
  BY <1>2 DEF PipeChan, PipeOK, Early
<1>9. c.log[STDIN] \in Seq(Bytes)
  BY CallParts DEF STDIN, Std
<1>10. b.log[STDIN] = c.log[STDIN] \o x /\ b.log[STDIN] \in Seq(Bytes)
  BY <1>4, <1>9, <1>13 DEF a
<1>11. b.log[STDIN] \o Rest(r) = Take(c.req.stdin, APP_PIPE_BUFFER_SIZE)
  <2> DEFINE y == Rest(r)
             z == c.log[STDIN]
  <2>2. y \in Seq(Bytes) /\ z \in Seq(Bytes) /\ x \in Seq(Bytes)
    BY <1>6, <1>9, <1>13
  <2> HIDE DEF y, z
  <2>1. (z \o x) \o y = z \o (x \o y)
    BY <2>2, JoinTwice, SMTT(30)
  <2> QED
    BY <1>6, <1>8, <1>10, <2>1 DEF y, z
<1>12. IsPrefix(b.log[STDIN], Take(c.req.stdin, APP_PIPE_BUFFER_SIZE))
  BY <1>6, <1>10, <1>11, PrefixOf
<1>14. ASSUME NEW y \in PipeIds, u.fds[o.child] = ChildEnd(o.stream, y) PROVE PipeOK(b, o.stream, u.pipes[y])
  <2>1. y = p
    BY <1>2, <1>7, <1>14, EndsDiffer, ZenonT(40)
  <2> QED
    BY <1>7, <1>11, <2>1 DEF PipeOK
<1>15. PipeChan(b, o, u)
  BY <1>1, <1>14 DEF PipeChan
<1> QED
  BY <1>4, <1>7, <1>12, <1>15 DEF a

\* A write to the file of an entry.
LEMMA FileTakes ==
  ASSUME NEW t, GoodTab(t), NEW co \in Contents, NEW o \in Entries, EntryGood(t, o), NEW data \in Seq(Bytes),
         NEW c \in Calling, NEW r, r.file \in Files, r.stream = o.stream, NEW d, FileChan(c, o, r, d, t, co),
         NEW b, b.req = c.req, b.at = c.at, b.log[o.stream] = c.log[o.stream] \o data
  PROVE  LET a == abi_write_fd(t, co, o.child, data)
         IN  /\ SameShape(t, a.tab) /\ ExactAt(t, a.tab, TableFds \ Both(o))
             /\ \A f \in Files : a.content[f].by = co[f].by /\ (a.content[f] = co[f] \/ r.file = f)
             /\ FileChan(b, o, r, d, a.tab, a.content)
<1> DEFINE fd == o.child
           h == t.fds[fd]
           u == Moved(t, fd, Len(data))
           w == Added(co, h, data)
           a == abi_write_fd(t, co, fd, data)
<1>1. o.own = fd /\ h.file = r.file /\ co[r.file].by >= d
  BY DEF FileChan
<1>2. h.kind = "Pfs" /\ fd \in TableFds /\ o.stream \in Std
  BY <1>1 DEF EntryGood, Entries
<1>3. a.tab = u /\ a.content = w
  BY <1>2, WriteFile
<1>4. Len(data) \in Nat
  OBVIOUS
<1>5. /\ SameShape(t, u) /\ u.pipes = t.pipes /\ u.fds[fd] = Pfs(h.file, h.offset + Len(data))
      /\ \A gd \in TableFds \ {fd} : u.fds[gd] = t.fds[gd]
  BY <1>2, <1>4, OffsetChange
<1> HIDE DEF u, a
<1>6. ExactAt(t, u, TableFds \ Both(o))
  BY <1>1, <1>5 DEF ExactAt, Both
<1>7. /\ \A f \in Files : w[f].by = co[f].by /\ (w[f] = co[f] \/ r.file = f)
      /\ w[r.file].data = WriteAt(co[r.file].data, h.offset, data)
  BY <1>1 DEF Added, Contents
<1>8. h \in Handles
  BY <1>2, TabParts DEF GoodTab
<1>9. h.offset \in Nat
  BY <1>2, <1>8, HandleKinds
<1>10. u.fds[fd].file = r.file /\ u.fds[fd].offset = h.offset + Len(data)
  BY <1>1, <1>4, <1>5, <1>9, HandleMembers
<1> HIDE DEF w
<1>11. ASSUME Ours(b, r, d, u, w)
       PROVE  w[r.file].data = b.log[r.stream] /\ u.fds[o.own].offset = Len(b.log[r.stream])
  <2>1. c.at.open \subseteq TableFds /\ c.log \in [Std -> Seq(Bytes)]
    BY CallParts
  <2>2. AloneIn(u, c, r) <=> AloneIn(t, c, r)
    BY <1>5, <2>1, AloneShape
  <2>3. AloneIn(u, b, r) <=> AloneIn(u, c, r)
    BY DEF AloneIn
  <2>4. Ours(c, r, d, t, co)
    BY <1>7, <1>11, <2>2, <2>3 DEF Ours
  <2>5. co[r.file].data = c.log[o.stream] /\ h.offset = Len(c.log[o.stream])
    BY <1>1, <2>4 DEF FileChan
  <2>6. c.log[o.stream] \in Seq(Bytes)
    BY <1>2, <2>1
  <2>7. WriteAt(c.log[o.stream], Len(c.log[o.stream]), data) = c.log[o.stream] \o data
    BY <2>6, WriteAtEnd
  <2>8. Len(c.log[o.stream] \o data) = Len(c.log[o.stream]) + Len(data)
    BY <2>6, Joined
  <2> QED
    BY <1>1, <1>7, <1>10, <2>5, <2>7, <2>8
<1>12. FileChan(b, o, r, d, u, w)
  BY <1>1, <1>7, <1>10, <1>11 DEF FileChan
<1> QED
  BY <1>3, <1>5, <1>6, <1>7, <1>12 DEF a

\* A call with bytes added to its history.
LoggedCall(c, b, s, data) ==
    /\ b.pc = c.pc /\ b.req = c.req /\ b.at = c.at
    /\ \A x \in Std : b.log[x] = IF x = s THEN c.log[x] \o data ELSE c.log[x]

LEMMA LoggedOne ==
  ASSUME NEW ch, NEW t, NEW D, Good(ch, t, D), NEW e \in 1 .. Len(ch) - 1, NEW s \in Std, NEW data \in Seq(Bytes)
  PROVE  LoggedCall(ch[e].call, Logged(ch, e, s, data)[e].call, s, data)
<1> DEFINE v == Logged(ch, e, s, data)
<1>1. ch[e].call \in Calling /\ e \in 1 .. Len(ch) /\ ch \in Seq(Processes)
  BY BelowNext, GoodParts
<1>2. Similar(ch[e], v[e]) /\ v[e].call.log = Longer(ch[e].call.log, s, data)
  BY <1>1, LoggedFacts
<1>3. ch[e].call # NoCall /\ ch[e].call.log \in [Std -> Seq(Bytes)]
  BY <1>1, CallParts
<1> HIDE DEF v
<1>4. v[e].call.pc = ch[e].call.pc /\ v[e].call.req = ch[e].call.req /\ v[e].call.at = ch[e].call.at
  BY <1>2, <1>3 DEF Similar
<1>5. \A x \in Std : v[e].call.log[x] = IF x = s THEN ch[e].call.log[x] \o data ELSE ch[e].call.log[x]
  BY <1>2, <1>3 DEF Longer
<1> QED
  BY <1>4, <1>5 DEF LoggedCall, v

LEMMA WaitingCap ==
  ASSUME NEW ch, NEW t, NEW D, Good(ch, t, D), NEW co, Cap(ch, t, co), NEW e \in 1 .. Len(ch) - 1
  PROVE  /\ ch[e].call \in Calling /\ ch[e].call.pc = "wait" /\ Logs(ch[e].call)
         /\ \A i \in 1 .. Len(ch[e].call.opened) :
              Chan(ch[e].call, ch[e].call.opened[i], Redirects(ch[e].call.req)[i], e, t, co)
<1>1. e \in 1 .. Len(ch) /\ ch[e].call \in Calling /\ ch[e].call.pc = "wait"
  BY BelowNext
<1>2. ch[e].call # NoCall
  BY <1>1, CallParts
<1>3. CallCap(ch[e].call, e, t, co)
  BY <1>1, <1>2 DEF Cap
<1> QED
  BY <1>1, <1>3 DEF CallCap, Chans, Holding, Early

\* Where the history of a write or a read goes.
LEMMA WrittenIs ==
  ASSUME NEW ch, NEW s, NEW data
  PROVE  /\ ch[Len(ch)].sink[s] = 0 => Written(ch, s, data) = ch
         /\ ch[Len(ch)].sink[s] # 0 => Written(ch, s, data) = Logged(ch, ch[Len(ch)].sink[s], s, data)
BY DEF Written, Logged, Last

\* An idle last process writes.
LEMMA WriteCap ==
  ASSUME NEW ch, NEW t, NEW D, Good(ch, t, D), NEW co \in Contents, Cap(ch, t, co), ch # <<>>, ch[Len(ch)].call = NoCall,
         NEW s \in {STDOUT, STDERR}, NEW data \in Seq(Bytes)
  PROVE  LET a == abi_write_fd(t, co, ch[Len(ch)].std[s], data)
         IN  Cap(Written(ch, s, data), a.tab, a.content)
<1> DEFINE e == ch[Len(ch)].sink[s]
           fd == ch[Len(ch)].std[s]
           a == abi_write_fd(t, co, fd, data)
<1>1. s \in Std /\ s # STDIN /\ STDIN \in Std
  BY DEF Std, STDOUT, STDERR, STDIN
<1>2. GoodTab(t)
  BY GoodParts
<1>3. CASE e = 0
  <2>1. fd = s
    BY <1>1, <1>3, SinkOf
  <2>2. a.tab = t /\ a.content = co
    BY <1>1, <1>2, <2>1, WriteNowhere
  <2>3. Written(ch, s, data) = ch
    BY <1>3, WrittenIs
  <2> QED
    BY <2>2, <2>3
<1>4. CASE e # 0
  <2>1. e \in 1 .. Len(ch) - 1
    BY <1>1, <1>4, SinkOf
  <2>2. PICK i \in 1 .. Len(ch[e].call.opened) : ch[e].call.opened[i].stream = s /\ fd = ch[e].call.opened[i].child
    <3>1. Carries(ch, e, s, fd)
      BY <1>1, <1>4, SinkOf
    <3> HIDE DEF e, fd
    <3> QED
      BY <3>1 DEF Carries
  <2> DEFINE v == Logged(ch, e, s, data)
             c == ch[e].call
             o == c.opened[i]
             r == Redirects(c.req)[i]
             b == v[e].call
  <2>3. Written(ch, s, data) = v
    BY <1>4, WrittenIs
  <2> HIDE DEF e
  <2>4. c \in Calling /\ c.pc = "wait" /\ Logs(c) /\ Chan(c, o, r, e, t, co)
    BY <2>1, WaitingCap
  <2>5. /\ o \in Entries /\ r.stream = o.stream /\ EntryGood(t, o) /\ (r.file # None => r.file \in Files)
    <3>1. EntryOf(ch, t, e, c, i, o, r)
      BY <2>1, WaitingEntry
    <3> QED
      BY <3>1 DEF EntryOf
  <2>6. LoggedCall(c, b, s, data)
    BY <1>1, <2>1, LoggedOne
  <2>7. /\ b.pc = "wait" /\ b.req = c.req /\ b.at = c.at /\ b.log[s] = c.log[s] \o data
        /\ b.log[STDIN] = c.log[STDIN]
    BY <1>1, <2>4, <2>6 DEF LoggedCall
  <2>8. o.stream = s /\ a = abi_write_fd(t, co, o.child, data)
    BY <2>2
  <2>9. IsPrefix(b.log[STDIN], Take(c.req.stdin, APP_PIPE_BUFFER_SIZE))
    BY <2>4, <2>7 DEF Logs
  <2>10. SameShape(t, a.tab) /\ ExactAt(t, a.tab, TableFds \ Both(o)) /\ Chan(b, o, r, e, a.tab, a.content)
         /\ \A f \in Files : a.content[f].by = co[f].by /\ (a.content[f] = co[f] \/ r.file = f)
    <3> HIDE DEF b, c, o, r, v, a
    <3>1. CASE r.file = None
      <4>1. PipeChan(c, o, t)
        BY <2>4, <3>1 DEF Chan
      <4>2. /\ a.content = co /\ SameShape(t, a.tab) /\ ExactAt(t, a.tab, TableFds \ Both(o))
            /\ PipeChan(b, o, a.tab)
        <5>1. b.log[o.stream] = c.log[o.stream] \o data /\ o.stream # STDIN
          BY <1>1, <2>7, <2>8
        <5> DEFINE z == abi_write_fd(t, co, o.child, data)
        <5>2. /\ z.content = co /\ SameShape(t, z.tab) /\ ExactAt(t, z.tab, TableFds \ Both(o))
              /\ PipeChan(b, o, z.tab)
          BY <1>2, <2>4, <2>5, <2>7, <4>1, <5>1, PipeTakes
        <5> QED
          BY <2>8, <5>2
      <4> QED
        BY <3>1, <4>2 DEF Chan
    <3>2. CASE r.file # None
      <4>1. FileChan(c, o, r, e, t, co)
        BY <2>4, <3>2 DEF Chan
      <4>2. /\ SameShape(t, a.tab) /\ ExactAt(t, a.tab, TableFds \ Both(o))
            /\ \A f \in Files : a.content[f].by = co[f].by /\ (a.content[f] = co[f] \/ r.file = f)
            /\ FileChan(b, o, r, e, a.tab, a.content)
        <5>1. b.log[o.stream] = c.log[o.stream] \o data /\ r.file \in Files
          BY <2>5, <2>7, <2>8, <3>2
        <5> DEFINE z == abi_write_fd(t, co, o.child, data)
        <5>2. /\ SameShape(t, z.tab) /\ ExactAt(t, z.tab, TableFds \ Both(o))
              /\ \A f \in Files : z.content[f].by = co[f].by /\ (z.content[f] = co[f] \/ r.file = f)
              /\ FileChan(b, o, r, e, z.tab, z.content)
          BY <1>2, <2>4, <2>5, <2>7, <4>1, <5>1, FileTakes
        <5> QED
          BY <2>8, <5>2
      <4> QED
        BY <3>2, <4>2 DEF Chan
    <3> QED
      BY <3>1, <3>2
  <2> HIDE DEF a
  <2>11. Passing(ch[e].call, i, t, co, a.tab, a.content)
    BY <2>10 DEF Passing
  <2>12. Passed(v[e].call, ch[e].call, i, e, a.tab, a.content)
    BY <2>9, <2>10 DEF Passed
  <2> HIDE DEF v, b, c, o, r
  <2>13. v = Logged(ch, e, s, data) /\ s = ch[e].call.opened[i].stream
    BY <2>2 DEF v
  <2>14. Cap(v, a.tab, a.content)
    BY <1>1, <2>1, <2>2, <2>11, <2>12, <2>13, StreamCap
  <2> QED
    BY <2>3, <2>14 DEF a
<1> QED
  BY <1>3, <1>4

\* An idle last process reads its stdin.
LEMMA ReadCap ==
  ASSUME NEW ch, NEW t, NEW D, Good(ch, t, D), NEW co \in Contents, Cap(ch, t, co), ch # <<>>, ch[Len(ch)].call = NoCall,
         ch[Len(ch)].std[STDIN] # STDIN, NEW n \in Nat
  PROVE  LET a == abi_read(t, ch[Len(ch)].std[STDIN], n)
         IN  Cap(Written(ch, STDIN, a.data), a.tab, co)
<1> DEFINE s == STDIN
           e == ch[Len(ch)].sink[s]
           fd == ch[Len(ch)].std[s]
           a == abi_read(t, fd, n)
           data == a.data
<1>1. s \in Std
  BY DEF Std, STDIN
<1>2. GoodTab(t) /\ data \in Seq(Bytes)
  BY GoodParts, ReadFacts
<1>3. e # 0 /\ e \in 1 .. Len(ch) - 1
  BY <1>1, SinkOf
<1>4. PICK i \in 1 .. Len(ch[e].call.opened) : ch[e].call.opened[i].stream = s /\ fd = ch[e].call.opened[i].child
  <2>1. Carries(ch, e, s, fd)
    BY <1>1, <1>3, SinkOf
  <2> HIDE DEF e, fd, s
  <2> QED
    BY <2>1 DEF Carries
<1> DEFINE v == Logged(ch, e, s, data)
           c == ch[e].call
           o == c.opened[i]
           r == Redirects(c.req)[i]
           b == v[e].call
<1>5. Written(ch, s, data) = v
  BY <1>3, WrittenIs
<1> HIDE DEF e
<1>6. c \in Calling /\ c.pc = "wait" /\ Logs(c) /\ Chan(c, o, r, e, t, co)
  BY <1>3, WaitingCap
<1>7. /\ o \in Entries /\ EntryGood(t, o) /\ (r.file # None => o.stream # STDIN)
  <2>1. EntryOf(ch, t, e, c, i, o, r)
    BY <1>3, WaitingEntry
  <2> QED
    BY <2>1 DEF EntryOf
<1>8. LoggedCall(c, b, s, data)
  <2> HIDE DEF data, s
  <2> QED
    BY <1>1, <1>2, <1>3, LoggedOne
<1>9. o.stream = STDIN /\ a = abi_read(t, o.child, n) /\ r.file = None
  BY <1>4, <1>7
<1>10. PipeChan(c, o, t)
  BY <1>6, <1>9 DEF Chan
<1>11. b.pc = "wait" /\ b.req = c.req /\ b.log[STDIN] = c.log[STDIN] \o abi_read(t, o.child, n).data
  BY <1>1, <1>6, <1>8, <1>9 DEF LoggedCall
<1> HIDE DEF b, c, o, r, v, a
<1>12. /\ SameShape(t, a.tab) /\ ExactAt(t, a.tab, TableFds \ Both(o)) /\ PipeChan(b, o, a.tab)
       /\ IsPrefix(b.log[STDIN], Take(c.req.stdin, APP_PIPE_BUFFER_SIZE))
  BY <1>2, <1>6, <1>7, <1>9, <1>10, <1>11, PipeGives
<1>13. Passing(ch[e].call, i, t, co, a.tab, co)
  BY <1>12 DEF Passing, c, o
<1>14. Chan(b, o, r, e, a.tab, co)
  BY <1>9, <1>12 DEF Chan
<1>15. Passed(v[e].call, ch[e].call, i, e, a.tab, co)
  BY <1>12, <1>14 DEF Passed, b, c, o, r
<1>16. v = Logged(ch, e, s, data) /\ s = ch[e].call.opened[i].stream
  BY <1>4 DEF v
<1> HIDE DEF s, data
<1>17. Cap(v, a.tab, co)
  BY <1>1, <1>2, <1>3, <1>4, <1>13, <1>15, <1>16, StreamCap
<1> QED
  BY <1>5, <1>17 DEF a, s, data

-----------------------------------------------------------------------------
(* What a program does by itself.                                          *)

\* Everything the steps are about, as an invariant.
CapInv == Inv /\ Cap(procs, tab, content)

LEMMA CapInvParts ==
  ASSUME CapInv
  PROVE  Inv /\ Good(procs, tab, dirs) /\ Cap(procs, tab, content) /\ content \in Contents
BY DEF CapInv, Inv

LEMMA TopCap ==
  ASSUME NEW ch, NEW t, NEW D, Good(ch, t, D), NEW co, Cap(ch, t, co), ch # <<>>, ch[Len(ch)].call \in Calling
  PROVE  CallCap(ch[Len(ch)].call, Len(ch), t, co)
<1>1. Len(ch) \in 1 .. Len(ch)
  BY GoodParts
<1>2. ch[Len(ch)].call # NoCall
  BY CallParts
<1> QED
  BY <1>1, <1>2 DEF Cap

LEMMA BelowTable ==
  ASSUME NEW ch, NEW t, NEW D, Good(ch, t, D), ch # <<>>
  PROVE  Below(ch, Len(ch)) \subseteq TableFds /\ Below(ch, Len(ch)) \subseteq Open(t) /\ ExactAt(t, t, Below(ch, Len(ch)))
<1>1. Open(t) = Below(ch, Len(ch)) \cup HeldNow(ch[Len(ch)])
  BY GoodParts
<1>2. Below(ch, Len(ch)) \subseteq TableFds
  BY <1>1 DEF Open
<1> QED
  BY <1>1, <1>2 DEF ExactAt

LEMMA TopCapSame ==
  ASSUME NEW ch, NEW t, NEW D, Good(ch, t, D), NEW co, Cap(ch, t, co), ch # <<>>, NEW p \in Processes,
         p.sink = ch[Len(ch)].sink, OwnStd(p) = OwnStd(ch[Len(ch)]),
         p.call # NoCall => CallCap(p.call, Len(ch), t, co)
  PROVE  Cap(SetTop(ch, p), t, co)
<1>1. ExactAt(t, t, Below(ch, Len(ch)))
  BY BelowTable
<1>2. \A f \in Files : co[f] = co[f] \/ co[f].by = Len(ch)
  OBVIOUS
<1> QED
  BY <1>1, <1>2, CapTop

LEMMA WriteStdCap ==
  ASSUME CapInv, NEW s \in {STDOUT, STDERR}, NEW n \in WriteSizes, WriteStd(s, n)
  PROVE  Cap(procs', tab', content')
<1>1. Idle /\ Spend /\ Say(procs, s, Payload(n))
  BY DEF WriteStd
<1>2. /\ Inv /\ Good(procs, tab, dirs) /\ content \in Contents /\ Cap(procs, tab, content)
  BY CapInvParts
<1>3. procs # <<>> /\ Top.call = NoCall /\ Top = procs[Len(procs)]
  BY <1>1, <1>2, IdleFacts
<1>4. budget \in Nat /\ n \in Nat
  BY <1>1, <1>2, SpendFacts, CommandAssumption DEF Inv
<1>5. Payload(n) \in Seq(Bytes)
  <2>1. \A i \in 1 .. n : <<budget, i>> \in Bytes
    BY <1>4 DEF Bytes
  <2> QED
    BY <1>4, <2>1 DEF Payload
<1> DEFINE a == abi_write_fd(tab, content, procs[Len(procs)].std[s], Payload(n))
<1>6. procs' = Written(procs, s, Payload(n)) /\ tab' = a.tab /\ content' = a.content
  BY <1>1 DEF Say, Last
<1>7. Cap(Written(procs, s, Payload(n)), a.tab, a.content)
  BY <1>2, <1>3, <1>5, WriteCap
<1> QED
  BY <1>6, <1>7

LEMMA ReadStdinCap ==
  ASSUME CapInv, NEW n \in WriteSizes, ReadStdin(n)
  PROVE  Cap(procs', tab', content')
<1> DEFINE a == abi_read(tab, procs[Len(procs)].std[STDIN], n)
<1>1. Idle /\ Spend /\ UNCHANGED content /\ Top.std[STDIN] # STDIN
  BY DEF ReadStdin
<1>2. /\ Inv /\ Good(procs, tab, dirs) /\ content \in Contents /\ Cap(procs, tab, content)
  BY CapInvParts
<1>3. procs # <<>> /\ Top.call = NoCall /\ Top = procs[Len(procs)]
  BY <1>1, <1>2, IdleFacts
<1>4. n \in Nat
  BY CommandAssumption
<1>5. procs' = Written(procs, STDIN, a.data) /\ tab' = a.tab
  BY <1>3 DEF ReadStdin
<1>6. Cap(Written(procs, STDIN, a.data), a.tab, content)
  BY <1>1, <1>2, <1>3, <1>4, ReadCap
<1> QED
  BY <1>1, <1>5, <1>6

LEMMA ChangeDirCap ==
  ASSUME CapInv, NEW dir \in Dirs \cup {Root}, ChangeDir(dir)
  PROVE  Cap(procs', tab', content')
<1> DEFINE q == [chdir(Top, dir) EXCEPT !.fresh = FALSE]
<1>1. Idle /\ UNCHANGED <<tab, content>>
      /\ procs' = [procs EXCEPT ![Depth] = [chdir(@, dir) EXCEPT !.fresh = FALSE]]
  BY DEF ChangeDir
<1>2. Inv /\ Good(procs, tab, dirs) /\ Cap(procs, tab, content)
  BY CapInvParts
<1>3. /\ procs # <<>> /\ Top.call = NoCall /\ Top \in Processes
      /\ Top = procs[Len(procs)] /\ Depth = Len(procs) /\ procs \in Seq(Processes)
  BY <1>1, <1>2, IdleFacts
<1>4. procs' = SetTop(procs, q)
  BY <1>1, <1>3 DEF SetTop
<1>5. q \in Processes /\ q.call = NoCall /\ q.std = Top.std /\ q.sink = Top.sink
  <2>1. CASE dir = Root \/ dir \in dirs
    BY <1>3, <2>1 DEF chdir, Processes
  <2>2. CASE ~(dir = Root \/ dir \in dirs)
    BY <1>3, <2>2 DEF chdir, Processes
  <2> QED
    BY <2>1, <2>2
<1> HIDE DEF q
<1>6. q.sink = procs[Len(procs)].sink /\ OwnStd(q) = OwnStd(procs[Len(procs)])
  BY <1>3, <1>5 DEF OwnStd
<1>7. Cap(SetTop(procs, q), tab, content)
  BY <1>2, <1>3, <1>5, <1>6, TopCapSame
<1> QED
  BY <1>1, <1>4, <1>7

LEMMA SetEnvCap ==
  ASSUME CapInv, NEW o \in Settings, SetEnv(o.key, o.value)
  PROVE  Cap(procs', tab', content')
<1> DEFINE env == IF CanSet(Top.env, o.key) THEN env_set_overlay(Top.env, o.key, o.value) ELSE Top.env
           q == [Top EXCEPT !.env = env, !.fresh = FALSE]
<1>1. /\ Idle /\ UNCHANGED <<tab, content>>
      /\ procs' = [procs EXCEPT ![Depth].env = IF CanSet(@, o.key) THEN env_set_overlay(@, o.key, o.value) ELSE @,
                                ![Depth].fresh = FALSE]
  BY DEF SetEnv
<1>2. Inv /\ Good(procs, tab, dirs) /\ Cap(procs, tab, content)
  BY CapInvParts
<1>3. /\ procs # <<>> /\ Top.call = NoCall /\ Top \in Processes
      /\ Top.env \in EnvTables /\ Top = procs[Len(procs)] /\ Depth = Len(procs) /\ procs \in Seq(Processes)
      /\ Depth \in 1 .. Len(procs) /\ KeysUnique(Top.env)
  BY <1>1, <1>2, IdleFacts
<1>4. o.key \in Keys /\ o.value \in Values \cup {Absent}
  BY CommandAssumption DEF Overrides
<1>5. env \in EnvTables
  BY <1>3, <1>4, SetKeepsType
<1>6. procs' = SetTop(procs, q)
  <2>1. procs' = [procs EXCEPT ![Depth] = q]
    BY <1>1, <1>3
  <2> QED
    BY <1>3, <2>1 DEF SetTop
<1> HIDE DEF env
<1>7. q \in Processes /\ q.call = NoCall /\ q.std = Top.std /\ q.sink = Top.sink
  BY <1>3, <1>5 DEF Processes
<1> HIDE DEF q
<1>8. q.sink = procs[Len(procs)].sink /\ OwnStd(q) = OwnStd(procs[Len(procs)])
  BY <1>3, <1>7 DEF OwnStd
<1>9. Cap(SetTop(procs, q), tab, content)
  BY <1>2, <1>3, <1>7, <1>8, TopCapSame
<1> QED
  BY <1>1, <1>6, <1>9

LEMMA StaleCap ==
  ASSUME CapInv
  PROVE  Cap(Stale, tab, content)
<1> DEFINE v == Stale
<1>1. Good(procs, tab, dirs) /\ Cap(procs, tab, content)
  BY CapInvParts
<1>2. procs \in Seq(Processes)
  BY <1>1, GoodParts
<1>3. Len(v) = Len(procs) /\ \A d \in 1 .. Len(procs) : v[d] = [procs[d] EXCEPT !.fresh = FALSE]
  <2>1. DOMAIN procs = 1 .. Len(procs) /\ Len(procs) \in Nat
    BY <1>2
  <2> QED
    BY <2>1 DEF Stale
<1> HIDE DEF v
<1>4. ASSUME NEW d \in 1 .. Len(procs)
      PROVE  v[d].call = procs[d].call /\ v[d].std = procs[d].std /\ v[d].sink = procs[d].sink
  <2>1. procs[d] \in Processes
    BY <1>2
  <2> QED
    BY <1>3, <2>1 DEF Processes
<1>5. Cap(v, tab, content)
  BY <1>1, <1>3, <1>4, CapSame
<1> QED
  BY <1>5 DEF v

LEMMA UnlinkCap ==
  ASSUME CapInv, NEW dir \in Dirs, Unlink(dir) \/ Mkdir(dir)
  PROVE  Cap(procs', tab', content')
BY StaleCap DEF Unlink, Mkdir

LEMMA RunProgramCap ==
  ASSUME RunProgram
  PROVE  Cap(procs', tab', content')
<1> DEFINE p == [std |-> Console, cwd |-> Root, env |-> NoOverrides, call |-> NoCall,
                 sink |-> [s \in Std |-> 0], fresh |-> TRUE]
           v == <<p>>
<1>1. procs' = v
  BY DEF RunProgram
<1>2. p.call = NoCall /\ (\A s \in Std : p.sink[s] = 0 /\ p.std[s] = s)
  BY DEF Console
<1> HIDE DEF p
<1>3. Len(v) = 1 /\ v[1] = p /\ \A d \in 1 .. 1 : d = 1
  OBVIOUS
<1> HIDE DEF v
<1>4. SinkAt(v, 1)
  BY <1>2, <1>3 DEF SinkAt, OwnStd
<1>5. Cap(v, tab', content')
  BY <1>2, <1>3, <1>4 DEF Cap
<1> QED
  BY <1>1, <1>5

LEMMA BeginCap ==
  ASSUME CapInv, NEW req \in Requests, Begin(req)
  PROVE  Cap(procs', tab', content')
<1>1. Inv /\ Good(procs, tab, dirs) /\ Cap(procs, tab, content)
  BY CapInvParts
<1>2. /\ Idle /\ UNCHANGED <<tab, content, dirs>>
      /\ \E cwd \in Dirs \cup {Root}, pc \in {"env", "failed"} : procs' = SetTop(procs, Begun(Top, cwd, req, pc))
  BY <1>1, BeginIs
<1>3. PICK cwd \in Dirs \cup {Root}, pc \in {"env", "failed"} : procs' = SetTop(procs, Begun(Top, cwd, req, pc))
  BY <1>2
<1> DEFINE q == Begun(Top, cwd, req, pc)
           b == q.call
<1>4. procs # <<>> /\ Top.call = NoCall /\ Top \in Processes /\ KeysUnique(Top.env) /\ Top = procs[Len(procs)]
  BY <1>1, <1>2, IdleFacts
<1>5. /\ q \in Processes /\ q.sink = Top.sink /\ b \in Calling /\ b.pc = pc /\ b.req = req /\ b.opened = <<>>
      /\ b.at.std = Top.std /\ \A s \in Std : b.got[s] = <<>> /\ b.log[s] = <<>>
  BY <1>4, BegunFacts
<1> HIDE DEF q
<1>6. q.sink = procs[Len(procs)].sink /\ OwnStd(q) = OwnStd(procs[Len(procs)])
  <2>1. b # NoCall
    BY <1>5, CallParts
  <2> QED
    BY <1>4, <1>5, <2>1 DEF OwnStd
<1>7. CallCap(b, Len(procs), tab, content)
  <2>1. (\A s \in Std : b.got[s] = <<>> /\ b.log[s] = <<>>) /\ STDIN \in Std
    BY <1>5 DEF Std, STDIN
  <2>2. IsPrefix(b.log[STDIN], Take(b.req.stdin, APP_PIPE_BUFFER_SIZE))
    <3> DEFINE x == Take(b.req.stdin, APP_PIPE_BUFFER_SIZE)
    <3>1. x \in Seq(Bytes)
      <4>1. b.req.stdin \in Seq(Bytes) /\ APP_PIPE_BUFFER_SIZE \in Nat
        BY <1>5, RequestParts, FdsAssumption
      <4> QED
        BY <4>1, TakeIs
    <3> HIDE DEF x
    <3>2. <<>> \o x = x /\ <<>> \in Seq(Bytes)
      BY <3>1, JoinEmpty
    <3>3. IsPrefix(<<>>, x)
      BY <3>1, <3>2, PrefixOf
    <3> QED
      BY <2>1, <3>3 DEF x
  <2>3. Logs(b)
    BY <2>1, <2>2 DEF Logs
  <2>4. Len(b.opened) = 0 /\ b.pc # "read" /\ b.pc \notin {"read", "close", "done"}
    BY <1>5
  <2>5. Reads(b) /\ Gets(b)
    BY <2>4 DEF Reads, Gets
  <2>6. Chans(b, Len(procs), tab, content)
    BY <2>4 DEF Chans
  <2> QED
    BY <2>3, <2>5, <2>6 DEF CallCap
<1>8. Cap(SetTop(procs, q), tab, content)
  BY <1>1, <1>4, <1>5, <1>6, <1>7, TopCapSame
<1> QED
  BY <1>2, <1>3, <1>8 DEF q

-----------------------------------------------------------------------------
(* The steps of a call.                                                    *)

\* A call goes on without touching its streams.
MovesOn(c, b) ==
    /\ b.req = c.req /\ b.at = c.at /\ b.opened = c.opened /\ b.log = c.log /\ b.got = c.got
    /\ c.pc \in Early /\ b.pc \in Early /\ (b.pc \in {"env", "open"} => c.pc \in {"env", "open"})

LEMMA EarlyMoves ==
  ASSUME NEW c, NEW b, MovesOn(c, b), NEW d, NEW t, NEW co, CallCap(c, d, t, co)
  PROVE  CallCap(b, d, t, co)
<1>1. /\ b.req = c.req /\ b.at = c.at /\ b.opened = c.opened /\ b.log = c.log /\ b.got = c.got
      /\ c.pc \in Early /\ b.pc \in Early /\ (b.pc \in {"env", "open"} => c.pc \in {"env", "open"})
  BY DEF MovesOn
<1>2. Logs(c) /\ Chans(c, d, t, co)
  BY DEF CallCap
<1>3. b.pc \notin {"read", "close", "done"} /\ c.pc \in Holding /\ b.pc # "read" /\ b.pc # "done"
  BY <1>1 DEF Early, Holding
<1>4. Logs(b)
  BY <1>1, <1>2 DEF Logs
<1>5. Reads(b) /\ Gets(b)
  BY <1>3 DEF Reads, Gets
<1>6. ASSUME NEW i \in 1 .. Len(b.opened)
      PROVE  Chan(b, b.opened[i], Redirects(b.req)[i], d, t, co)
  <2> DEFINE o == c.opened[i]
             r == Redirects(c.req)[i]
  <2>1. Chan(c, o, r, d, t, co)
    BY <1>1, <1>2, <1>3 DEF Chans
  <2> HIDE DEF o, r
  <2>2. \A s, pipe : PipeOK(c, s, pipe) => PipeOK(b, s, pipe)
    BY <1>1, <1>3 DEF PipeOK
  <2>3. PipeChan(c, o, t) => PipeChan(b, o, t)
    BY <2>2 DEF PipeChan
  <2>4. FileChan(c, o, r, d, t, co) => FileChan(b, o, r, d, t, co)
    BY <1>1 DEF FileChan, Ours, AloneIn
  <2>5. Chan(b, o, r, d, t, co)
    BY <2>1, <2>3, <2>4 DEF Chan
  <2> QED
    BY <1>1, <2>5 DEF o, r
<1>7. Chans(b, d, t, co)
  BY <1>3, <1>6 DEF Chans
<1> QED
  BY <1>4, <1>5, <1>7 DEF CallCap

\* The last process in a call that goes on.
LEMMA TopMoves ==
  ASSUME NEW ch, NEW t, NEW D, Good(ch, t, D), NEW co, Cap(ch, t, co), ch # <<>>, ch[Len(ch)].call \in Calling,
         NEW q \in Processes, q.sink = ch[Len(ch)].sink, q.call \in Calling, MovesOn(ch[Len(ch)].call, q.call)
  PROVE  Cap(SetTop(ch, q), t, co)
<1>1. CallCap(ch[Len(ch)].call, Len(ch), t, co)
  BY TopCap
<1>2. CallCap(q.call, Len(ch), t, co)
  BY <1>1, EarlyMoves
<1>3. q.call # NoCall /\ ch[Len(ch)].call # NoCall
  BY CallParts
<1>4. OwnStd(q) = OwnStd(ch[Len(ch)])
  BY <1>3 DEF OwnStd, MovesOn
<1> QED
  BY <1>2, <1>4, TopCapSame

LEMMA ApplyOverrideCap ==
  ASSUME CapInv, ApplyOverride
  PROVE  Cap(procs', tab', content')
<1> DEFINE c == Top.call
           o == NextOverride
           r == [key |-> o.key, value |-> env_lookup(Top.env, o.key)]
           env == env_set_overlay(Top.env, o.key, o.value)
           b == [c EXCEPT !.restores = Append(c.restores, r)]
           q == [Top EXCEPT !.env = env, !.call = b]
<1>1. Good(procs, tab, dirs) /\ Cap(procs, tab, content)
  BY CapInvParts
<1>2. InCall("env") /\ MoreEnv /\ CanSet(Top.env, o.key) /\ UNCHANGED <<tab, content, dirs, budget>>
  BY DEF ApplyOverride, Keep
<1>3. "env" \in Pcs /\ "env" \in Early
  BY DEF Pcs, Early
<1>4. procs # <<>> /\ c \in Calling /\ c.pc = "env" /\ KeysUnique(Top.env)
  BY <1>1, <1>2, <1>3, InCallFacts
<1>5. Top \in Processes /\ Top = procs[Len(procs)] /\ Depth = Len(procs) /\ Top.env \in EnvTables /\ procs \in Seq(Processes)
      /\ Depth \in 1 .. Len(procs)
  BY <1>1, <1>4, TopFacts, ProcParts
<1>6. Len(c.restores) < Len(c.req.env) /\ o = c.req.env[Len(c.restores) + 1]
  BY <1>2 DEF MoreEnv, NextOverride
<1>7. o.key \in Keys /\ o.value \in Values \cup {Absent}
  <2>1. c.restores \in Seq(Overrides) /\ c.req.env \in Seq(Overrides)
    BY <1>4, CallParts, RequestParts
  <2>2. Len(c.restores) + 1 \in 1 .. Len(c.req.env)
    BY <1>6, <2>1
  <2>3. o \in Overrides
    BY <1>6, <2>1, <2>2
  <2> QED
    BY <2>3 DEF Overrides
<1>8. env \in EnvTables
  BY <1>2, <1>4, <1>5, <1>7, SetKeepsType
<1>9. r \in Overrides
  <2>1. env_lookup(Top.env, o.key) \in Values \cup {Absent}
    BY <1>4, <1>5, LookupType
  <2> QED
    BY <1>7, <2>1 DEF Overrides
<1> HIDE DEF r, env, o
<1>10. /\ b \in Calling /\ b.pc = c.pc /\ b.req = c.req /\ b.at = c.at /\ b.opened = c.opened
       /\ b.log = c.log /\ b.got = c.got
  <2>1. Append(c.restores, r) \in Seq(Overrides)
    BY <1>4, <1>9, CallParts
  <2> QED
    BY <1>4, <2>1 DEF Calling
<1> HIDE DEF b
<1>11. q \in Processes /\ q.call = b /\ q.sink = Top.sink
  BY <1>5, <1>8, <1>10 DEF Processes
<1>12. procs' = SetTop(procs, q)
  <2>1. procs' = [procs EXCEPT ![Depth].env = env, ![Depth].call.restores = Append(@, r)]
    BY <1>5 DEF ApplyOverride, r, env, o
  <2>2. procs' = [procs EXCEPT ![Depth] = q]
    BY <1>5, <2>1 DEF b
  <2> QED
    BY <1>5, <2>2 DEF SetTop
<1> HIDE DEF q
<1>13. MovesOn(procs[Len(procs)].call, q.call)
  BY <1>3, <1>4, <1>5, <1>10, <1>11 DEF MovesOn
<1>14. Cap(SetTop(procs, q), tab, content)
  BY <1>1, <1>4, <1>5, <1>10, <1>11, <1>13, TopMoves
<1> QED
  BY <1>2, <1>12, <1>14

LEMMA OverridesDoneCap ==
  ASSUME CapInv, OverridesDone
  PROVE  Cap(procs', tab', content')
<1> DEFINE c == Top.call
           q == WithPc(Top, "open")
<1>1. Good(procs, tab, dirs) /\ Cap(procs, tab, content)
  BY CapInvParts
<1>2. InCall("env") /\ UNCHANGED <<tab, content, dirs, budget>>
  BY DEF OverridesDone, Keep
<1>3. "env" \in Pcs /\ "env" \in Early /\ "open" \in Pcs /\ "open" \in Early
  BY DEF Pcs, Early
<1>4. procs # <<>> /\ c \in Calling /\ c.pc = "env"
  BY <1>1, <1>2, <1>3, InCallFacts
<1>5. Top \in Processes /\ Top = procs[Len(procs)]
  BY <1>1, <1>4, TopFacts
<1>6. /\ q \in Processes /\ q.sink = Top.sink
      /\ q.call \in Calling /\ q.call.pc = "open" /\ q.call.req = c.req /\ q.call.at = c.at
      /\ q.call.opened = c.opened /\ q.call.got = c.got /\ q.call.log = c.log
  BY <1>3, <1>4, <1>5, WithPcFacts
<1>7. procs' = SetTop(procs, q)
  BY DEF OverridesDone, SetTop, WithPc, Top, Depth
<1> HIDE DEF q
<1>8. MovesOn(procs[Len(procs)].call, q.call)
  BY <1>3, <1>4, <1>5, <1>6 DEF MovesOn
<1>9. Cap(SetTop(procs, q), tab, content)
  BY <1>1, <1>4, <1>5, <1>6, <1>8, TopMoves
<1> QED
  BY <1>2, <1>7, <1>9

\* Closing what the last call holds leaves what was open before it.
LEMMA CloseExact ==
  ASSUME NEW ch, NEW t, NEW D, Good(ch, t, D), ch # <<>>, ch[Len(ch)].call \in Calling, ch[Len(ch)].call.pc \in Holding
  PROVE  /\ ExactAt(t, close_many(t, ch[Len(ch)].call.opened), Below(ch, Len(ch)))
         /\ ch[Len(ch)].call.at.open = Below(ch, Len(ch))
<1> DEFINE c == ch[Len(ch)].call
           B == Below(ch, Len(ch))
           u == close_many(t, c.opened)
<1>1. Len(ch) \in 1 .. Len(ch) /\ GoodTab(t)
  BY GoodParts
<1>2. LinkGood(t, B, ch[Len(ch)]) /\ c # NoCall /\ c.opened \in Seq(Entries)
  BY <1>1, GoodParts, CallParts
<1>3. EntriesGood(t, B, c.opened) /\ c.at.open = B
  BY <1>2 DEF LinkGood
<1>4. Apart(c.opened) /\ HeldFds(c.opened) \cap B = {} /\ \A i \in 1 .. Len(c.opened) : EntryGood(t, c.opened[i])
  BY <1>3 DEF EntriesGood
<1>5. ExactAt(t, u, TableFds \ HeldFds(c.opened))
  BY <1>1, <1>2, <1>4, CloseManyFacts
<1>6. B \subseteq TableFds
  BY BelowTable
<1>7. B \subseteq TableFds \ HeldFds(c.opened)
  BY <1>4, <1>6
<1>8. ExactAt(t, u, B)
  BY <1>5, <1>7 DEF ExactAt
<1> QED
  BY <1>3, <1>8

LEMMA UnwindCap ==
  ASSUME Good(procs, tab, dirs), Cap(procs, tab, content), NEW pc \in {"env", "open", "reap"}, InCall(pc),
         NEW p \in Processes, p.call = Top.call, p.sink = Top.sink, p.env = Top.env, p.cwd = Top.cwd,
         Unwind(p, Top.call), NEW w, \A f \in Files : w[f] = content[f] \/ w[f].by = Len(procs)
  PROVE  Cap(procs', tab', w)
<1> DEFINE c == Top.call
           B == Below(procs, Depth)
           b == IF IsBuiltin(c.req) THEN p ELSE Restored(p, c)
           q == WithPc(b, "failed")
<1>1. pc \in Pcs /\ pc \in Early /\ pc \in Holding
  BY DEF Pcs, Early, Holding
<1>2. /\ procs # <<>> /\ c \in Calling /\ c # NoCall /\ c.pc = pc
      /\ KeysUnique(Top.env) /\ EnvPart(Top.env, c) /\ CwdPart(Top.cwd, c, dirs) /\ StdPart(Top.std, c)
      /\ Inherits(tab, B, c.at.std)
  BY <1>1, InCallFacts
<1>3. b \in Processes /\ b.call = c /\ b.sink = p.sink
  <2>1. CASE IsBuiltin(c.req)
    BY <2>1
  <2>2. CASE ~IsBuiltin(c.req)
    <3>1. b = Restored(p, p.call) /\ p.call \in Calling /\ p.call.pc \in Early
      BY <1>1, <1>2, <2>2
    <3>2. KeysUnique(p.env) /\ EnvPart(p.env, p.call) /\ CwdPart(p.cwd, p.call, dirs)
          /\ Inherits(tab, B, p.call.at.std) /\ p.call.saved = p.call.at.std /\ ~IsBuiltin(p.call.req)
      BY <1>2, <2>2 DEF StdPart
    <3> HIDE DEF b
    <3> QED
      BY <3>1, <3>2, RestoredFacts
  <2> QED
    BY <2>1, <2>2
<1> HIDE DEF b
<1>4. /\ q \in Processes /\ q.sink = Top.sink /\ q.call \in Calling /\ q.call.pc = "failed" /\ q.call.req = c.req
      /\ q.call.at = c.at /\ q.call.log = c.log
  <2>1. "failed" \in Pcs /\ b.call \in Calling
    BY <1>2, <1>3 DEF Pcs
  <2> QED
    BY <1>3, <2>1, WithPcFacts
<1> HIDE DEF q
<1>5. procs' = SetTop(procs, q) /\ tab' = close_many(tab, c.opened)
  BY DEF Unwind, SetTop, Depth, q, WithPc, b
<1>6. Top = procs[Len(procs)] /\ Depth = Len(procs)
  BY DEF Top, Depth
<1>7. ExactAt(tab, close_many(tab, c.opened), Below(procs, Len(procs)))
  BY <1>1, <1>2, <1>6, CloseExact
<1>8. CallCap(c, Len(procs), tab, content)
  BY <1>2, <1>6, TopCap
<1>9. CallCap(q.call, Len(procs), tab', w)
  <2>1. q.call.pc \notin Holding /\ q.call.pc \notin Early
    BY <1>4 DEF Holding, Early
  <2>2. Logs(c)
    BY <1>8 DEF CallCap
  <2>3. Logs(q.call) /\ Reads(q.call) /\ Gets(q.call) /\ Chans(q.call, Len(procs), tab', w)
    BY <1>4, <2>1, <2>2 DEF Logs, Reads, Gets, Chans
  <2> QED
    BY <2>3 DEF CallCap
<1>10. OwnStd(q) = OwnStd(procs[Len(procs)]) /\ q.sink = procs[Len(procs)].sink
  <2>1. q.call # NoCall
    BY <1>4, CallParts
  <2> QED
    BY <1>2, <1>4, <1>6, <2>1 DEF OwnStd
<1>11. Cap(SetTop(procs, q), tab', w)
  BY <1>2, <1>4, <1>5, <1>7, <1>9, <1>10, CapTop
<1> QED
  BY <1>5, <1>11

LEMMA OverrideFailsCap ==
  ASSUME CapInv, OverrideFails
  PROVE  Cap(procs', tab', content')
<1>1. Good(procs, tab, dirs) /\ Cap(procs, tab, content)
  BY CapInvParts
<1>2. InCall("env") /\ Unwind(Top, Top.call) /\ UNCHANGED content
  BY DEF OverrideFails, Keep
<1>3. Top \in Processes
  BY <1>1, <1>2, TopFacts DEF InCall
<1>4. Cap(procs', tab', content)
  BY <1>1, <1>2, <1>3, UnwindCap
<1> QED
  BY <1>2, <1>4

LEMMA OpenFailsCap ==
  ASSUME CapInv, OpenFails
  PROVE  Cap(procs', tab', content')
<1>1. Good(procs, tab, dirs) /\ Cap(procs, tab, content)
  BY CapInvParts
<1>2. InCall("open") /\ Unwind(Top, Top.call) /\ UNCHANGED content
  BY DEF OpenFails, Keep
<1>3. Top \in Processes
  BY <1>1, <1>2, TopFacts DEF InCall
<1>4. Cap(procs', tab', content)
  BY <1>1, <1>2, <1>3, UnwindCap
<1> QED
  BY <1>2, <1>4

LEMMA WaitFailsCap ==
  ASSUME CapInv, WaitFails
  PROVE  Cap(procs', tab', content')
<1>1. Good(procs, tab, dirs) /\ Cap(procs, tab, content)
  BY CapInvParts
<1>2. InCall("reap") /\ Unwind(Top, Top.call) /\ UNCHANGED content
  BY DEF WaitFails, Keep
<1>3. Top \in Processes
  BY <1>1, <1>2, TopFacts DEF InCall
<1>4. Cap(procs', tab', content)
  BY <1>1, <1>2, <1>3, UnwindCap
<1> QED
  BY <1>2, <1>4

LEMMA SpawnFailsCap ==
  ASSUME CapInv, SpawnFails
  PROVE  Cap(procs', tab', content')
<1>1. Good(procs, tab, dirs) /\ Cap(procs, tab, content)
  BY CapInvParts
<1>2. InCall("open") /\ ~MoreOpens /\ UNCHANGED content
  BY DEF SpawnFails, Keep
<1>3. /\ Redirected \in Processes /\ Redirected.call = Top.call /\ Redirected.env = Top.env /\ Redirected.cwd = Top.cwd
      /\ Redirected.sink = Top.sink
  BY <1>1, <1>2, RedirectedFacts
<1>4. CASE ~IsBuiltin(Top.call.req)
  <2>1. Unwind(Redirected, Top.call)
    BY <1>4 DEF SpawnFails
  <2>2. Cap(procs', tab', content)
    BY <1>1, <1>2, <1>3, <2>1, UnwindCap
  <2> QED
    BY <1>2, <2>2
<1>5. CASE IsBuiltin(Top.call.req)
  <2> DEFINE c == Top.call
             q == WithPc(Redirected, "reap")
  <2>1. procs' = SetTop(procs, q) /\ UNCHANGED tab
    BY <1>5 DEF SpawnFails, SetTop, WithPc, Depth
  <2>2. "open" \in Pcs /\ "open" \in Early /\ "reap" \in Pcs /\ "reap" \in Early
    BY DEF Pcs, Early
  <2>3. procs # <<>> /\ c \in Calling /\ c.pc = "open"
    BY <1>1, <1>2, <2>2, InCallFacts
  <2>4. Top = procs[Len(procs)]
    BY <1>1, <2>3, TopFacts
  <2>5. /\ q \in Processes /\ q.sink = Top.sink
        /\ q.call \in Calling /\ q.call.pc = "reap" /\ q.call.req = c.req /\ q.call.at = c.at
        /\ q.call.opened = c.opened /\ q.call.got = c.got /\ q.call.log = c.log
    BY <1>3, <2>2, <2>3, WithPcFacts
  <2> HIDE DEF q
  <2>6. MovesOn(procs[Len(procs)].call, q.call)
    BY <2>2, <2>3, <2>4, <2>5 DEF MovesOn
  <2>7. Cap(SetTop(procs, q), tab, content)
    BY <1>1, <2>3, <2>4, <2>5, <2>6, TopMoves
  <2> QED
    BY <1>2, <2>1, <2>7
<1> QED
  BY <1>4, <1>5
\* One more stream of a call is open.
OpensAt(c, b, o) ==
    /\ b.pc = c.pc /\ b.req = c.req /\ b.at = c.at /\ b.log = c.log /\ b.got = c.got /\ b.unread = c.unread
    /\ b.opened = Append(c.opened, o)

LEMMA OpenedIs ==
  ASSUME Good(procs, tab, dirs), InCall("open"), NEW u, NEW stream \in Std, NEW child \in TableFds, NEW own \in TableFds,
         Opened(u, stream, child, own)
  PROVE  /\ tab' = u
         /\ \E q \in Processes : /\ procs' = SetTop(procs, q) /\ q.sink = Top.sink /\ q.call \in Calling
                                 /\ OpensAt(Top.call, q.call, [stream |-> stream, child |-> child, own |-> own])
<1> DEFINE c == Top.call
           o == [stream |-> stream, child |-> child, own |-> own]
           b == [c EXCEPT !.opened = Append(c.opened, o)]
           p == [Top EXCEPT !.call = b]
           std == abi_dup2(u, Top.std, child, stream)
           q == IF c.req.api = "status" THEN [p EXCEPT !.std = std] ELSE p
<1>1. "open" \in Pcs
  BY DEF Pcs
<1>2. procs # <<>> /\ c \in Calling
  BY <1>1, InCallFacts
<1>3. Top \in Processes /\ Top = procs[Len(procs)] /\ Depth = Len(procs) /\ Top.std \in Stds /\ c.opened \in Seq(Entries)
  BY <1>2, TopFacts, ProcParts, CallParts
<1>4. o \in Entries
  BY DEF Entries
<1> HIDE DEF o
<1>5. b \in Calling /\ OpensAt(c, b, o)
  <2>1. Append(c.opened, o) \in Seq(Entries)
    BY <1>3, <1>4
  <2> QED
    BY <1>2, <2>1 DEF Calling, OpensAt
<1>6. b.req = c.req
  BY <1>5 DEF OpensAt
<1>7. tab' = u /\ procs' = [procs EXCEPT ![Depth] = IF p.call.req.api = "status" THEN [p EXCEPT !.std = abi_dup2(u, p.std, child, stream)] ELSE p]
  BY DEF Opened, p, b, o
<1> HIDE DEF b
<1>8. p \in Processes /\ p.call = b /\ p.std = Top.std /\ p.sink = Top.sink
  BY <1>3, <1>5 DEF Processes
<1>9. std \in Stds
  BY <1>3, Dup2
<1> HIDE DEF p, std
<1>10. q \in Processes /\ q.call = b /\ q.sink = Top.sink
  BY <1>8, <1>9 DEF Processes
<1>11. procs' = SetTop(procs, q)
  BY <1>3, <1>6, <1>7, <1>8 DEF SetTop, std
<1> HIDE DEF q
<1> QED
  BY <1>5, <1>7, <1>10, <1>11 DEF o

LEMMA OneMoreCap ==
  ASSUME NEW c \in Calling, c.pc = "open", NEW std, StdPart(std, c), Len(c.opened) < Len(Redirects(c.req)),
         NEW b, NEW o \in Entries, OpensAt(c, b, o), NEW d \in Nat, NEW t, NEW u,
         ExactAt(t, u, c.at.open \cup HeldFds(c.opened)), NEW r, r = Redirects(c.req)[Len(c.opened) + 1], r.stream = o.stream,
         NEW co, NEW w, \A f \in Files : w[f] = co[f] \/ (f = r.file /\ w[f].by = d),
         CallCap(c, d, t, co), Chan(c, o, r, d, u, w)
  PROVE  CallCap(b, d, u, w)
<1> DEFINE n == Len(c.opened)
           R == Redirects(c.req)
           S == c.at.open \cup HeldFds(c.opened)
<1>1. c.opened \in Seq(Entries) /\ n \in Nat /\ c.req \in Requests
  BY CallParts
<1>2. Len(R) \in Nat /\ n + 1 \in 1 .. Len(R)
  BY <1>1, RedirectsFacts
<1>3. "open" \in Early /\ "open" \in Holding
  BY DEF Early, Holding
<1>4. Logs(c) /\ \A i \in 1 .. n : Chan(c, c.opened[i], R[i], d, t, co)
  BY <1>3 DEF CallCap, Chans
<1>5. ASSUME NEW i \in 1 .. n
      PROVE  Chan(c, c.opened[i], R[i], d, u, w) /\ R[i].stream = c.opened[i].stream
  <2> DEFINE x == c.opened[i]
             y == R[i]
  <2>1. /\ i \in 1 .. Len(R) /\ x \in Entries /\ x.stream = y.stream /\ (y.file # None => y.file \in Files)
        /\ x.own \in HeldFds(c.opened) /\ x.child \in HeldFds(c.opened)
    BY ChanParts
  <2>2. Chan(c, x, y, d, t, co) /\ x.own \in S /\ x.child \in S /\ c.at.open \subseteq S
    BY <1>4, <2>1
  <2>3. i # n + 1
    BY <1>1
  <2>4. y.stream # r.stream
    BY <1>1, <1>2, <2>1, <2>3, RedirectsFacts
  <2> HIDE DEF x, S
  <2>5. CASE y.file = None
    <3>1. PipeChan(c, x, t)
      BY <2>2, <2>5 DEF Chan
    <3>2. PipeChan(c, x, u)
      BY <2>1, <2>2, <3>1, PipeChanStays DEF S
    <3> QED
      BY <2>1, <2>5, <3>2 DEF Chan, x
  <2>6. CASE y.file # None
    <3>1. FileChan(c, x, y, d, t, co) /\ y.file \in Files
      BY <2>1, <2>2, <2>6 DEF Chan
    <3>2. CASE w[y.file] = co[y.file]
      <4>1. FileChan(c, x, y, d, u, w)
        BY <2>2, <3>1, <3>2, FileChanStays DEF S
      <4> QED
        BY <2>1, <2>6, <4>1 DEF Chan, x
    <3>3. CASE y.file = r.file /\ w[y.file].by = d
      <4>1. ~AloneIn(u, c, y)
        BY <1>2, <2>4, <3>3 DEF AloneIn
      <4>2. u.fds[x.own] = t.fds[x.own]
        BY <2>2 DEF ExactAt, S
      <4>3. FileChan(c, x, y, d, u, w)
        BY <3>1, <3>3, <4>1, <4>2 DEF FileChan, Ours
      <4> QED
        BY <2>1, <2>6, <4>3 DEF Chan, x
    <3> QED
      BY <3>1, <3>2, <3>3
  <2> QED
    BY <2>5, <2>6
<1>6. /\ b.pc = c.pc /\ b.req = c.req /\ b.at = c.at /\ b.log = c.log /\ b.got = c.got /\ b.unread = c.unread
      /\ b.opened = Append(c.opened, o)
  BY DEF OpensAt
<1>7. Len(b.opened) = n + 1 /\ b.opened[n + 1] = o /\ (\A i \in 1 .. n : b.opened[i] = c.opened[i])
      /\ \A i \in 1 .. n + 1 : i \in 1 .. n \/ i = n + 1
  BY <1>1, <1>6
<1>8. ASSUME NEW i \in 1 .. Len(b.opened) PROVE Chan(b, b.opened[i], Redirects(b.req)[i], d, u, w)
  <2>1. Chan(c, b.opened[i], R[i], d, u, w) /\ R[i].stream = b.opened[i].stream
    BY <1>5, <1>7
  <2> HIDE DEF R
  <2>2. Chan(b, b.opened[i], R[i], d, u, w)
    BY <1>6, <2>1, ChanLog
  <2> QED
    BY <1>6, <2>2 DEF R
<1>9. Logs(b)
  BY <1>4, <1>6 DEF Logs
<1>10. b.pc \notin {"read", "close", "done"}
  BY <1>6
<1>11. Reads(b) /\ Gets(b) /\ Chans(b, d, u, w)
  BY <1>8, <1>10 DEF Reads, Gets, Chans
<1> QED
  BY <1>9, <1>11 DEF CallCap

LEMMA OpenedCap ==
  ASSUME Good(procs, tab, dirs), Cap(procs, tab, content), InCall("open"), MoreOpens, NEW u, ExactAt(tab, u, Open(tab)),
         NEW stream, stream = NextRedirect.stream, NEW child \in TableFds, NEW own \in TableFds,
         Opened(u, stream, child, own), NEW w,
         \A f \in Files : w[f] = content[f] \/ (f = NextRedirect.file /\ w[f].by = Len(procs)),
         Chan(Top.call, [stream |-> stream, child |-> child, own |-> own], NextRedirect, Len(procs), u, w)
  PROVE  Cap(procs', tab', w)
<1> DEFINE c == Top.call
           o == [stream |-> stream, child |-> child, own |-> own]
           r == NextRedirect
<1>1. "open" \in Pcs /\ "open" \in Holding
  BY DEF Pcs, Holding, Early
<1>2. procs # <<>> /\ c \in Calling /\ c # NoCall /\ c.pc = "open" /\ StdPart(Top.std, c) /\ c.at.open = Below(procs, Depth)
  BY <1>1, InCallFacts
<1>3. stream \in Std
  BY NextRedirectFacts
<1>4. tab' = u /\ \E q \in Processes : /\ procs' = SetTop(procs, q) /\ q.sink = Top.sink /\ q.call \in Calling
                                       /\ OpensAt(c, q.call, o)
  BY <1>3, OpenedIs
<1>5. PICK q \in Processes : procs' = SetTop(procs, q) /\ q.sink = Top.sink /\ q.call \in Calling /\ OpensAt(c, q.call, o)
  BY <1>4
<1>6. o \in Entries /\ o.stream = stream
  BY <1>3 DEF Entries
<1> HIDE DEF o
<1>7. Top = procs[Len(procs)] /\ Depth = Len(procs) /\ Open(tab) = Below(procs, Depth) \cup HeldNow(Top) /\ Depth \in 1 .. Depth
  BY <1>2, TopFacts
<1>8. HeldNow(Top) = HeldFds(c.opened)
  BY <1>1, <1>2 DEF HeldNow
<1>9. Open(tab) = c.at.open \cup HeldFds(c.opened)
  BY <1>2, <1>7, <1>8
<1>10. ExactAt(tab, u, c.at.open \cup HeldFds(c.opened)) /\ ExactAt(tab, u, Below(procs, Len(procs)))
  BY <1>2, <1>7, <1>9 DEF ExactAt
<1>11. CallCap(c, Len(procs), tab, content) /\ Len(procs) \in Nat
  BY <1>2, <1>7, TopCap
<1>12. Len(c.opened) < Len(Redirects(c.req)) /\ r = Redirects(c.req)[Len(c.opened) + 1] /\ r.stream = o.stream
  BY <1>6 DEF MoreOpens, NextRedirect
<1>13. Chan(c, o, r, Len(procs), u, w)
  BY DEF o
<1>14. \A f \in Files : w[f] = content[f] \/ (f = r.file /\ w[f].by = Len(procs))
  OBVIOUS
<1> HIDE DEF r, c
<1>15. CallCap(q.call, Len(procs), u, w)
  BY <1>2, <1>5, <1>6, <1>10, <1>11, <1>12, <1>13, <1>14, OneMoreCap
<1>16. q.sink = procs[Len(procs)].sink /\ OwnStd(q) = OwnStd(procs[Len(procs)])
  <2>1. q.call # NoCall /\ q.call.at = c.at
    BY <1>5, CallParts DEF OpensAt
  <2> QED
    BY <1>2, <1>5, <1>7, <2>1 DEF OwnStd, c
<1>17. \A f \in Files : w[f] = content[f] \/ w[f].by = Len(procs)
  BY <1>14
<1>18. Cap(SetTop(procs, q), u, w)
  BY <1>2, <1>5, <1>10, <1>15, <1>16, <1>17, CapTop
<1> QED
  BY <1>4, <1>5, <1>18
LEMMA OpenFileCap ==
  ASSUME CapInv, OpenFile
  PROVE  Cap(procs', tab', content')
<1> DEFINE s == NextRedirect.stream
           f == NextRedirect.file
           a == abi_open(tab, f)
           o == [stream |-> s, child |-> a.fd, own |-> a.fd]
           w == [content EXCEPT ![f] = [by |-> Depth, data |-> <<>>]]
<1>1. Good(procs, tab, dirs) /\ Cap(procs, tab, content) /\ content \in Contents
  BY CapInvParts
<1>2. /\ InCall("open") /\ MoreOpens /\ f # None /\ content' = w
      /\ IF CanOpen(tab) THEN Opened(a.tab, s, a.fd, a.fd) ELSE Unwind(Top, Top.call)
  BY DEF OpenFile
<1>3. procs # <<>> /\ Top.call.pc = "open"
  BY <1>2 DEF InCall
<1>4. GoodTab(tab) /\ tab \in Tabs /\ Depth \in Nat /\ Top \in Processes /\ Depth = Len(procs) /\ Top = procs[Len(procs)]
  BY <1>1, <1>3, TopFacts
<1>5. s \in Std /\ f \in Files
  BY <1>1, <1>2, NextRedirectFacts
<1>6. w[f].by = Len(procs) /\ w[f].data = <<>> /\ \A g \in Files : w[g] = content[g] \/ (g = f /\ w[g].by = Len(procs))
  <2> DEFINE x == [by |-> Depth, data |-> <<>>]
  <2>1. x.by = Len(procs) /\ x.data = <<>>
    BY <1>4
  <2> HIDE DEF x
  <2>2. w = [content EXCEPT ![f] = x]
    BY DEF x
  <2> QED
    BY <1>1, <1>5, <2>1, <2>2 DEF Contents
<1> HIDE DEF w
<1>7. CASE CanOpen(tab)
  <2>1. /\ a.fd \in TableFds /\ a.fd \notin Open(tab) /\ a.tab.fds[a.fd] = Pfs(f, 0) /\ a.tab.pipes = tab.pipes
        /\ \A fd \in TableFds \ {a.fd} : a.tab.fds[fd] = tab.fds[fd]
    BY <1>4, <1>5, <1>7, OpenKeeps
  <2> HIDE DEF a
  <2>2. ExactAt(tab, a.tab, Open(tab))
    BY <2>1 DEF ExactAt, Open
  <2>3. Opened(a.tab, s, a.fd, a.fd)
    BY <1>2, <1>7
  <2>4. a.tab.fds[a.fd].file = f /\ a.tab.fds[a.fd].offset = 0
    BY <1>5, <2>1, HandleMembers
  <2>5. Top.call.log[s] = <<>> /\ Len(<<>>) = 0
    <3>1. Top.call \in Calling
      BY <1>3, <1>4, ProcParts
    <3>2. CallCap(Top.call, Len(procs), tab, content)
      BY <1>1, <1>3, <1>4, <3>1, TopCap
    <3> QED
      BY <1>3, <1>5, <3>2 DEF CallCap, Logs
  <2>6. o.own = a.fd /\ o.child = a.fd
    OBVIOUS
  <2> HIDE DEF o
  <2>7. FileChan(Top.call, o, NextRedirect, Len(procs), a.tab, w)
    BY <1>4, <1>6, <2>4, <2>5, <2>6 DEF FileChan
  <2>8. Chan(Top.call, o, NextRedirect, Len(procs), a.tab, w)
    BY <1>2, <2>7 DEF Chan
  <2>9. Cap(procs', tab', w)
    BY <1>1, <1>2, <1>6, <2>1, <2>2, <2>3, <2>8, OpenedCap DEF o
  <2> QED
    BY <1>2, <2>9
<1>8. CASE ~CanOpen(tab)
  <2>1. Unwind(Top, Top.call) /\ \A g \in Files : w[g] = content[g] \/ w[g].by = Len(procs)
    BY <1>2, <1>6, <1>8
  <2>2. Cap(procs', tab', w)
    BY <1>1, <1>2, <1>4, <2>1, UnwindCap
  <2> QED
    BY <1>2, <2>2
<1> QED
  BY <1>7, <1>8
\* A new pipe touches nothing that is open.
LEMMA PipeExact ==
  ASSUME NEW t, GoodTab(t), NEW u, NEW p \in PipeIds, ~t.pipes[p].used, \A q \in PipeIds \ {p} : u.pipes[q] = t.pipes[q],
         NEW x, NEW y, x \notin Open(t), y \notin Open(t), \A fd \in TableFds \ {x, y} : u.fds[fd] = t.fds[fd]
  PROVE  ExactAt(t, u, Open(t))
<1>1. t \in Tabs /\ Matched(t)
  BY DEF GoodTab
<1> SUFFICES ASSUME NEW fd \in Open(t)
             PROVE  /\ fd \in TableFds /\ u.fds[fd] = t.fds[fd]
                    /\ IsEnd(t.fds[fd]) => u.pipes[t.fds[fd].pipe] = t.pipes[t.fds[fd].pipe]
  BY DEF ExactAt
<1>2. fd \in TableFds /\ fd # x /\ fd # y
  BY DEF Open
<1>3. ASSUME IsEnd(t.fds[fd]) PROVE t.fds[fd].pipe \in PipeIds /\ t.fds[fd].pipe # p
  <2>1. t.fds[fd] \in Handles
    BY <1>1, <1>2, TabParts
  <2>2. t.fds[fd].pipe \in PipeIds
    BY <1>3, <2>1, HandleKinds DEF IsEnd
  <2>3. EndOpen(t, t.fds[fd])
    BY <1>1, <1>2, <1>3 DEF Matched
  <2>4. t.pipes[t.fds[fd].pipe].used
    BY <1>1, <2>2, <2>3 DEF Matched, EndOpen
  <2> QED
    BY <2>2, <2>4
<1> QED
  BY <1>2, <1>3

\* What a new pipe is fed is what the child may read.
LEMMA FedPipe ==
  ASSUME NEW pipe \in Pipes, pipe.buffer = <<>>, pipe.read_offset = 0, NEW data \in Seq(Bytes)
  PROVE  Rest(AfterWrite(pipe, data)) = Take(data, APP_PIPE_BUFFER_SIZE)
<1> DEFINE N == APP_PIPE_BUFFER_SIZE
           T == Take(data, N)
<1>1. N \in Nat
  BY FdsAssumption
<1>2. AfterWrite(pipe, data).buffer = <<>> \o SubSeq(data, 1, Min({Len(data), N - Len(<<>>)}))
      /\ AfterWrite(pipe, data).read_offset = 0
  BY DEF AfterWrite, Fitting, Room, Pipes
<1>3. <<>> \in Seq(Bytes) /\ Len(<<>>) = 0
  OBVIOUS
<1>4. Take(<<>>, N) = <<>>
  BY <1>1, <1>3, TakeIs
<1>5. Take(<<>>, N) \o SubSeq(data, 1, Min({Len(data), N - Len(Take(<<>>, N))})) = Take(<<>> \o data, N)
  BY <1>1, <1>3, TakeJoin
<1>6. <<>> \o data = data
  BY JoinEmpty
<1>7. AfterWrite(pipe, data).buffer = T
  BY <1>2, <1>4, <1>5, <1>6
<1>8. T \in Seq(Bytes)
  BY <1>1, TakeIs
<1> HIDE DEF T
<1>9. SubSeq(T, 0 + 1, Len(T)) = T
  <2>1. Len(T) \in Nat /\ 0 \in Nat
    BY <1>8
  <2>2. /\ SubSeq(T, 0 + 1, Len(T)) \in Seq(Bytes) /\ Len(SubSeq(T, 0 + 1, Len(T))) = Len(T) - 0
        /\ \A i \in 1 .. Len(T) - 0 : SubSeq(T, 0 + 1, Len(T))[i] = T[0 + i]
    BY <1>8, <2>1, Part
  <2>3. Len(T) - 0 = Len(T) /\ \A i \in 1 .. Len(T) : 0 + i = i
    BY <2>1
  <2> QED
    BY <1>8, <2>2, <2>3, SameSeq
<1>10. Rest(AfterWrite(pipe, data)) = SubSeq(T, 0 + 1, Len(T))
  BY <1>2, <1>7 DEF Rest
<1> QED
  BY <1>9, <1>10 DEF T

LEMMA OpenPipeCap ==
  ASSUME CapInv, OpenPipe
  PROVE  Cap(procs', tab', content')
<1> DEFINE s == NextRedirect.stream
           a == abi_pipe(tab)
           data == Top.call.req.stdin
           fed == abi_write_fd(a.tab, content, a.write, data).tab
           c == Top.call
<1>1. Good(procs, tab, dirs) /\ Cap(procs, tab, content) /\ content \in Contents
  BY CapInvParts
<1>2. /\ InCall("open") /\ MoreOpens /\ CanPipe(tab) /\ UNCHANGED content /\ NextRedirect.file = None
      /\ IF s = STDIN THEN Opened(fed, s, a.read, a.write) ELSE Opened(a.tab, s, a.write, a.read)
  BY DEF OpenPipe, Keep
<1>3. procs # <<>> /\ c.pc = "open"
  BY <1>2 DEF InCall
<1>4. GoodTab(tab) /\ tab \in Tabs /\ Top \in Processes /\ Top = procs[Len(procs)]
  BY <1>1, <1>3, TopFacts
<1>5. s \in Std /\ c.req \in Requests /\ data \in Seq(Bytes)
  BY <1>1, <1>2, NextRedirectFacts, RequestParts
<1>6. /\ a.read \in TableFds /\ a.write \in TableFds /\ a.read \notin Open(tab) /\ a.write \notin Open(tab)
      /\ a.read # a.write
  BY <1>2, <1>4, PipeFacts
<1>7. GoodTab(a.tab) /\ \A fd \in TableFds \ {a.read, a.write} : a.tab.fds[fd] = tab.fds[fd]
  BY <1>2, <1>4, PipeKeeps
<1>8. PICK p \in PipeIds : /\ a.tab.fds[a.read] = PipeRead(p) /\ a.tab.fds[a.write] = PipeWrite(p)
                           /\ a.tab.pipes[p].read_open /\ a.tab.pipes[p].buffer = <<>> /\ a.tab.pipes[p].read_offset = 0
                           /\ ~tab.pipes[p].used /\ \A q \in PipeIds \ {p} : a.tab.pipes[q] = tab.pipes[q]
  BY <1>2, <1>4, PipeKeeps
<1>9. \A x \in Std : c.log[x] = <<>>
  <2>1. c \in Calling
    BY <1>3, <1>4, ProcParts
  <2>2. CallCap(c, Len(procs), tab, content)
    BY <1>1, <1>3, <1>4, <2>1, TopCap
  <2> QED
    BY <1>3, <2>2 DEF CallCap, Logs
<1>10. a.tab.pipes[p] \in Pipes /\ Fits(a.tab.pipes[p])
  BY <1>7, TabParts DEF GoodTab
<1>11. \A f \in Files : content[f] = content[f] \/ (f = NextRedirect.file /\ content[f].by = Len(procs))
  OBVIOUS
<1> HIDE DEF a, data
<1>12. CASE s = STDIN
  <2> DEFINE o == [stream |-> s, child |-> a.read, own |-> a.write]
             x == AfterWrite(a.tab.pipes[p], data)
  <2>1. fed = WithPipe(a.tab, p, x)
    BY <1>5, <1>6, <1>7, <1>8, WritePipe
  <2>2. x \in Pipes /\ Fits(x) /\ SameFlags(a.tab.pipes[p], x)
    BY <1>5, <1>10, AfterWriteFacts
  <2>3. Rest(x) = Take(data, APP_PIPE_BUFFER_SIZE)
    BY <1>5, <1>8, <1>10, FedPipe
  <2> HIDE DEF fed, x
  <2>4. fed.fds = a.tab.fds /\ fed.pipes[p] = x /\ \A q \in PipeIds \ {p} : fed.pipes[q] = a.tab.pipes[q]
    BY <1>7, <2>1, <2>2, BytesChange
  <2>5. ExactAt(tab, fed, Open(tab))
    <3>1. /\ \A q \in PipeIds \ {p} : fed.pipes[q] = tab.pipes[q]
          /\ \A fd \in TableFds \ {a.read, a.write} : fed.fds[fd] = tab.fds[fd]
      BY <1>7, <1>8, <2>4
    <3> QED
      BY <1>4, <1>6, <1>8, <3>1, PipeExact
  <2>6. o.stream = s /\ o.child = a.read /\ o.own = a.write
    OBVIOUS
  <2> HIDE DEF o
  <2>7. PipeOK(c, s, x)
    <3>1. c.log[s] = <<>> /\ s = STDIN
      BY <1>5, <1>9, <1>12
    <3>2. <<>> \o Take(data, APP_PIPE_BUFFER_SIZE) = Take(data, APP_PIPE_BUFFER_SIZE)
      <4>1. Take(data, APP_PIPE_BUFFER_SIZE) \in Seq(Bytes)
        BY <1>5, TakeIs, FdsAssumption
      <4> QED
        BY <4>1, JoinEmpty
    <3>3. c.log[s] \o Rest(x) = Take(c.req.stdin, APP_PIPE_BUFFER_SIZE)
      BY <2>3, <3>1, <3>2 DEF data
    <3> QED
      BY <3>1, <3>3 DEF PipeOK
  <2>8. ASSUME NEW q \in PipeIds, fed.fds[o.child] = ChildEnd(o.stream, q) PROVE q = p
    <3>1. ChildEnd(s, q) = ChildEnd(s, p)
      BY <1>8, <1>12, <2>4, <2>6, <2>8 DEF ChildEnd
    <3> QED
      BY <3>1, EndsDiffer
  <2>9. PipeChan(c, o, fed)
    BY <1>6, <2>4, <2>6, <2>7, <2>8 DEF PipeChan
  <2>10. Chan(c, o, NextRedirect, Len(procs), fed, content)
    BY <1>2, <2>9 DEF Chan
  <2>11. Opened(fed, s, a.read, a.write)
    BY <1>2, <1>12 DEF fed, data, a
  <2>12. Cap(procs', tab', content)
    BY <1>1, <1>2, <1>6, <1>11, <2>5, <2>10, <2>11, OpenedCap DEF o
  <2> QED
    BY <1>2, <2>12
<1>13. CASE s # STDIN
  <2> DEFINE o == [stream |-> s, child |-> a.write, own |-> a.read]
  <2>1. ExactAt(tab, a.tab, Open(tab))
    BY <1>4, <1>6, <1>7, <1>8, PipeExact
  <2>2. o.stream = s /\ o.child = a.write /\ o.own = a.read
    OBVIOUS
  <2> HIDE DEF o
  <2>3. PipeOK(c, s, a.tab.pipes[p])
    <3>1. Take(<<>>, APP_PIPE_BUFFER_SIZE) = <<>>
      <4>1. <<>> \in Seq(Bytes) /\ APP_PIPE_BUFFER_SIZE \in Nat /\ Len(<<>>) <= APP_PIPE_BUFFER_SIZE
        BY FdsAssumption
      <4> QED
        BY <4>1, TakeIs
    <3>2. c.log[s] = <<>> /\ c.pc # "read"
      BY <1>3, <1>5, <1>9
    <3> QED
      BY <1>8, <1>13, <3>1, <3>2 DEF PipeOK
  <2>4. ASSUME NEW q \in PipeIds, a.tab.fds[o.child] = ChildEnd(o.stream, q) PROVE q = p
    <3>1. ChildEnd(s, q) = ChildEnd(s, p)
      BY <1>8, <1>13, <2>2, <2>4 DEF ChildEnd
    <3> QED
      BY <3>1, EndsDiffer
  <2>5. PipeChan(c, o, a.tab)
    BY <1>6, <2>2, <2>3, <2>4 DEF PipeChan
  <2>6. Chan(c, o, NextRedirect, Len(procs), a.tab, content)
    BY <1>2, <2>5 DEF Chan
  <2>7. Opened(a.tab, s, a.write, a.read)
    BY <1>2, <1>13 DEF a
  <2>8. Cap(procs', tab', content)
    BY <1>1, <1>2, <1>6, <1>11, <2>1, <2>6, <2>7, OpenedCap DEF o
  <2> QED
    BY <1>2, <2>8
<1> QED
  BY <1>12, <1>13
\* A process of the chain goes on in its call; those below it stay.
LEMMA UptoMoves ==
  ASSUME NEW ch, NEW t, NEW D, Good(ch, t, D), NEW co, Cap(ch, t, co), NEW m \in 1 .. Len(ch), ch[m].call \in Calling,
         NEW q \in Processes, q.sink = ch[m].sink, q.call \in Calling, MovesOn(ch[m].call, q.call),
         NEW v, v[m] = q, \A e \in 1 .. m - 1 : v[e] = ch[e], NEW d \in 1 .. m
  PROVE  (v[d].call # NoCall => CallCap(v[d].call, d, t, co)) /\ SinkAt(v, d)
<1>1. Len(ch) \in Nat
  BY GoodParts
<1>2. /\ d \in 1 .. Len(ch) /\ d \in Nat /\ (d = m \/ d \in 1 .. m - 1) /\ m \in Nat
      /\ \A e \in 1 .. d - 1 : e \in 1 .. m - 1
  BY <1>1
<1>3. /\ ch[d] \in Processes /\ (\A s \in Std : ch[d].sink[s] < d) /\ ch[d].sink \in [Std -> Nat]
      /\ (ch[d].call # NoCall => CallCap(ch[d].call, d, t, co)) /\ SinkAt(ch, d)
  BY <1>2, GoodParts, ProcParts DEF Cap
<1>4. \A e \in 1 .. d - 1 : v[e].call.opened = ch[e].call.opened
  BY <1>2
<1>5. CASE d = m
  <2>1. ch[m].call # NoCall /\ q.call # NoCall
    BY CallParts
  <2>2. CallCap(q.call, d, t, co)
    BY <1>3, <1>5, <2>1, EarlyMoves
  <2>3. v[d].sink = ch[d].sink /\ OwnStd(v[d]) = OwnStd(ch[d])
    BY <1>5, <2>1 DEF OwnStd, MovesOn
  <2>4. SinkAt(v, d)
    BY <1>2, <1>3, <1>4, <2>3, SinkStays
  <2> QED
    BY <1>5, <2>2, <2>4
<1>6. CASE d \in 1 .. m - 1
  <2>1. v[d] = ch[d]
    BY <1>6
  <2>2. SinkAt(v, d)
    BY <1>2, <1>3, <1>4, <2>1, SinkStays
  <2> QED
    BY <1>3, <2>1, <2>2
<1> QED
  BY <1>2, <1>5, <1>6

\* The child writes to what its caller opened, or to where the caller wrote.
ChildOf(ch, p, x) ==
    /\ x.call = NoCall /\ Stood(x.std, p.call.at.std, p.call.opened)
    /\ \A s \in Std : x.sink[s] = IF s \in Streams(p.call.opened) THEN Len(ch) ELSE p.sink[s]

LEMMA GrownCap ==
  ASSUME NEW ch, NEW t, NEW D, Good(ch, t, D), NEW co, Cap(ch, t, co), ch # <<>>, ch[Len(ch)].call \in Calling,
         NEW w \in Processes, w.sink = ch[Len(ch)].sink, w.call \in Calling, MovesOn(ch[Len(ch)].call, w.call),
         NEW x \in Processes, ChildOf(ch, ch[Len(ch)], x), NEW v, GrowsTo(ch, w, x, v)
  PROVE  Cap(v, t, co)
<1> DEFINE p == ch[Len(ch)]
           c == p.call
<1>1. /\ v \in Seq(Processes) /\ Len(v) = Len(ch) + 1 /\ v[Len(ch) + 1] = x /\ v[Len(ch)] = w
      /\ \A d \in 1 .. Len(ch) - 1 : v[d] = ch[d]
  BY DEF GrowsTo
<1>2. Len(ch) \in Nat /\ Len(ch) \in 1 .. Len(ch) /\ \A d \in 1 .. Len(ch) + 1 : d \in 1 .. Len(ch) \/ d = Len(ch) + 1
  BY GoodParts
<1>3. \A d \in 1 .. Len(ch) : (v[d].call # NoCall => CallCap(v[d].call, d, t, co)) /\ SinkAt(v, d)
  <2> SUFFICES ASSUME NEW d \in 1 .. Len(ch)
               PROVE  (v[d].call # NoCall => CallCap(v[d].call, d, t, co)) /\ SinkAt(v, d)
    OBVIOUS
  <2> QED
    BY <1>1, <1>2, UptoMoves
<1>4. /\ x.call = NoCall /\ Stood(x.std, c.at.std, c.opened)
      /\ \A s \in Std : x.sink[s] = IF s \in Streams(c.opened) THEN Len(ch) ELSE p.sink[s]
  BY DEF ChildOf
<1>5. w.call.opened = c.opened /\ c.opened \in Seq(Entries) /\ c # NoCall
  BY CallParts DEF MovesOn
<1>6. OwnStd(x) = x.std /\ OwnStd(p) = c.at.std
  BY <1>4, <1>5 DEF OwnStd
<1>7. SinkAt(ch, Len(ch)) /\ p \in Processes /\ p.sink \in [Std -> Nat] /\ \A s \in Std : p.sink[s] < Len(ch)
  BY <1>2, GoodParts, ProcParts DEF Cap
<1>8. ASSUME NEW s \in Std
      PROVE  IF x.sink[s] = 0 THEN OwnStd(x)[s] = s
             ELSE \E i \in 1 .. Len(v[x.sink[s]].call.opened) :
                    v[x.sink[s]].call.opened[i].stream = s /\ OwnStd(x)[s] = v[x.sink[s]].call.opened[i].child
  <2>1. CASE s \in Streams(c.opened)
    <3>1. PICK i \in 1 .. Len(c.opened) : c.opened[i].stream = s
      BY <1>5, <2>1 DEF Streams
    <3>2. x.std[s] = c.opened[i].child
      BY <1>4, <3>1 DEF Stood
    <3>3. x.sink[s] = Len(ch) /\ Len(ch) # 0
      BY <1>2, <1>4, <2>1
    <3>4. v[x.sink[s]].call.opened = c.opened
      BY <1>1, <1>5, <3>3
    <3> HIDE DEF c
    <3> QED
      BY <1>6, <3>1, <3>2, <3>3, <3>4
  <2>2. CASE s \notin Streams(c.opened)
    <3>1. \A i \in 1 .. Len(c.opened) : c.opened[i].stream # s
      BY <1>5, <2>2 DEF Streams
    <3>2. OwnStd(x)[s] = OwnStd(p)[s]
      BY <1>4, <1>6, <3>1 DEF Stood
    <3> DEFINE e == p.sink[s]
    <3>3. x.sink[s] = e /\ e \in Nat /\ e < Len(ch)
      BY <1>4, <1>7, <2>2
    <3>4. IF e = 0 THEN OwnStd(p)[s] = s
          ELSE \E i \in 1 .. Len(ch[e].call.opened) :
                 ch[e].call.opened[i].stream = s /\ OwnStd(p)[s] = ch[e].call.opened[i].child
      BY <1>7 DEF SinkAt
    <3>5. e # 0 => v[e] = ch[e]
      <4>1. e # 0 => e \in 1 .. Len(ch) - 1
        BY <1>2, <3>3
      <4> QED
        BY <1>1, <4>1
    <3> HIDE DEF e, p
    <3> QED
      BY <3>2, <3>3, <3>4, <3>5
  <2> QED
    BY <2>1, <2>2
<1>9. SinkAt(v, Len(ch) + 1)
  BY <1>1, <1>8 DEF SinkAt
<1> QED
  BY <1>1, <1>2, <1>3, <1>4, <1>9 DEF Cap

LEMMA SpawnCap ==
  ASSUME CapInv, Spawn
  PROVE  Cap(procs', tab', content')
<1> DEFINE c == Top.call
           p == Redirected
           w == WithPc(p, "wait")
           sink == [s \in Std |-> IF s \in Streams(p.call.opened) THEN Depth ELSE p.sink[s]]
           x == [p EXCEPT !.call = NoCall, !.fresh = TRUE, !.sink = sink]
           v == Grown(procs, w, x)
<1>1. Good(procs, tab, dirs) /\ Cap(procs, tab, content)
  BY CapInvParts
<1>2. InCall("open") /\ ~MoreOpens /\ UNCHANGED <<tab, content, dirs, budget>>
  BY DEF Spawn, Keep
<1>3. "open" \in Pcs /\ "open" \in Early /\ "wait" \in Pcs /\ "wait" \in Early
  BY DEF Pcs, Early
<1>4. procs # <<>> /\ c \in Calling /\ c.pc = "open"
  BY <1>1, <1>2, <1>3, InCallFacts
<1>5. /\ Top \in Processes /\ Top = procs[Len(procs)] /\ Depth = Len(procs) /\ procs \in Seq(Processes) /\ Depth \in Nat
      /\ Top.sink \in [Std -> Nat]
  BY <1>1, <1>4, TopFacts, GoodParts, ProcParts
<1>6. p \in Processes /\ p.call = c /\ p.sink = Top.sink /\ Stood(p.std, c.at.std, c.opened)
  BY <1>1, <1>2, RedirectedFacts
<1>7. procs' = v
  <2>1. procs' = Append([procs EXCEPT ![Depth] = [p EXCEPT !.call.pc = "wait"]], x)
    BY DEF Spawn, x, sink
  <2> QED
    BY <1>5, <2>1 DEF v, SetTop, w, WithPc, Grown
<1> HIDE DEF p
<1>8. /\ w \in Processes /\ w.sink = p.sink
      /\ w.call \in Calling /\ w.call.pc = "wait" /\ w.call.req = c.req /\ w.call.at = c.at
      /\ w.call.opened = c.opened /\ w.call.log = c.log /\ w.call.got = c.got
  BY <1>3, <1>4, <1>6, WithPcFacts
<1> HIDE DEF w
<1>9. sink \in [Std -> Nat] /\ \A s \in Std : sink[s] = IF s \in Streams(c.opened) THEN Len(procs) ELSE Top.sink[s]
  BY <1>5, <1>6
<1> HIDE DEF sink
<1>10. x \in Processes /\ x.call = NoCall /\ x.sink = sink /\ x.std = p.std
  BY <1>6, <1>9 DEF Processes
<1> HIDE DEF x
<1>11. GrowsTo(procs, w, x, v)
  BY <1>4, <1>5, <1>8, <1>10, GrownFacts
<1> HIDE DEF v
<1>12. ChildOf(procs, procs[Len(procs)], x)
  BY <1>5, <1>6, <1>9, <1>10 DEF ChildOf
<1>13. MovesOn(procs[Len(procs)].call, w.call)
  BY <1>3, <1>4, <1>5, <1>8 DEF MovesOn
<1>14. w.sink = procs[Len(procs)].sink /\ procs[Len(procs)].call \in Calling
  BY <1>4, <1>5, <1>6, <1>8
<1>15. Cap(v, tab, content)
  BY <1>1, <1>4, <1>8, <1>10, <1>11, <1>12, <1>13, <1>14, GrownCap
<1> QED
  BY <1>2, <1>7, <1>15

LEMMA ExitCap ==
  ASSUME CapInv, Exit
  PROVE  Cap(procs', tab', content')
<1> DEFINE n == Len(procs)
           m == n - 1
<1>1. /\ Idle /\ UNCHANGED <<tab, content, dirs>>
      /\ procs' = IF Depth = 1 THEN <<>> ELSE [Front(procs) EXCEPT ![Depth - 1].call.pc = "reap"]
  BY DEF Exit
<1>2. Inv /\ Good(procs, tab, dirs) /\ Cap(procs, tab, content)
  BY CapInvParts
<1>3. procs # <<>> /\ Depth = n /\ n \in 1 .. n /\ procs \in Seq(Processes) /\ n \in Nat
  BY <1>1, <1>2, IdleFacts
<1>4. CASE n = 1
  <2>1. procs' = <<>> /\ Len(procs') = 0 /\ 1 .. 0 = {}
    BY <1>1, <1>3, <1>4
  <2> QED
    BY <2>1 DEF Cap
<1>5. CASE n # 1
  <2> DEFINE q == WithPc(procs[m], "reap")
             v == procs'
             c == procs[m].call
  <2>1. m \in 1 .. n - 1 /\ m \in 1 .. n
    BY <1>3, <1>5
  <2>2. c \in Calling /\ c.pc = "wait"
    BY <1>2, <2>1, BelowNext
  <2>3. procs' = Popped(procs)
    BY <1>1, <1>3, <1>5 DEF Popped
  <2>4. Len(v) = m /\ v[m] = q /\ \A d \in 1 .. m - 1 : v[d] = procs[d]
    <3>1. Len(procs) # 0 /\ Len(procs) # 1 /\ procs[Len(procs) - 1].call \in Calling
      BY <1>3, <1>5, <2>2
    <3> QED
      BY <1>3, <2>3, <3>1, PoppedFacts
  <2>5. procs[m] \in Processes
    BY <1>2, <2>1, GoodParts
  <2>6. "wait" \in Early /\ "reap" \in Early /\ "reap" \in Pcs
    BY DEF Early, Pcs
  <2>7. /\ q \in Processes /\ q.sink = procs[m].sink
        /\ q.call \in Calling /\ q.call.pc = "reap" /\ q.call.req = c.req /\ q.call.at = c.at
        /\ q.call.opened = c.opened /\ q.call.log = c.log /\ q.call.got = c.got
    BY <2>2, <2>5, <2>6, WithPcFacts
  <2> HIDE DEF q, v
  <2>8. MovesOn(procs[m].call, q.call)
    BY <2>2, <2>6, <2>7 DEF MovesOn
  <2> HIDE DEF m
  <2>9. \A d \in 1 .. m : (v[d].call # NoCall => CallCap(v[d].call, d, tab, content)) /\ SinkAt(v, d)
    <3> SUFFICES ASSUME NEW d \in 1 .. m
                 PROVE  (v[d].call # NoCall => CallCap(v[d].call, d, tab, content)) /\ SinkAt(v, d)
      OBVIOUS
    <3> QED
      BY <1>2, <2>1, <2>2, <2>4, <2>7, <2>8, UptoMoves
  <2>10. Cap(v, tab, content)
    BY <2>4, <2>9 DEF Cap
  <2> QED
    BY <1>1, <2>10 DEF v
<1> QED
  BY <1>4, <1>5

\* Of a pipe nothing was taken from yet, all is left.
LEMMA RestAll ==
  ASSUME NEW pipe \in Pipes, pipe.read_offset = 0
  PROVE  Rest(pipe) = pipe.buffer /\ pipe.buffer \in Seq(Bytes)
<1>1. pipe.buffer \in Seq(Bytes)
  BY DEF Pipes
<1>2. SubSeq(pipe.buffer, 1, Len(pipe.buffer)) = pipe.buffer
  BY <1>1
<1> QED
  BY <1>1, <1>2 DEF Rest

\* The streams a request has captured.
LEMMA CapturedIs ==
  ASSUME NEW req \in Requests
  PROVE  Captured(req) \in {<< 1, 2 >>, << 1 >>, <<>>}
  BY ApiPipes DEF Captured

\* A call whose child is done turns to what its pipes hold.
LEMMA CollectMoves ==
  ASSUME NEW c \in Calling, c.pc = "reap",
         NEW b \in Calling, b.pc = "read", b.req = c.req, b.at = c.at, b.opened = c.opened, b.got = c.got,
         b.log = c.log, b.unread = Captured(c.req),
         NEW d, NEW t, GoodTab(t), NEW co, CallCap(c, d, t, co)
  PROVE  CallCap(b, d, t, co)
<1>1. "reap" \in Early /\ "reap" \in Holding /\ "read" \notin Early /\ "read" \in Holding
  BY DEF Early, Holding
<1>2. Logs(c) /\ Chans(c, d, t, co)
  BY DEF CallCap
<1>3. \A s \in Std : c.got[s] = <<>>
  BY <1>1, <1>2 DEF Logs
<1>4. Logs(b)
  <2>1. b.pc \notin {"env", "open"} /\ b.pc \notin Early
    BY <1>1
  <2> QED
    BY <1>2, <2>1 DEF Logs
<1>5. c.req \in Requests /\ c.log \in [Std -> Seq(Bytes)] /\ c.opened \in Seq(Entries)
  BY CallParts
<1>6. Captured(c.req) \in {<< 1, 2 >>, << 1 >>, <<>>}
  BY <1>5, CapturedIs
<1>7. ToSet(Captured(c.req)) \subseteq Std
  BY <1>5, CapturedType DEF ToSet
<1>8. Reads(b)
  BY <1>3, <1>6, <1>7 DEF Reads
<1>9. Gets(b)
  BY DEF Gets
<1>10. \A i \in 1 .. Len(c.opened) : Chan(b, c.opened[i], Redirects(c.req)[i], d, t, co)
  <2> SUFFICES ASSUME NEW i \in 1 .. Len(c.opened)
               PROVE  Chan(b, c.opened[i], Redirects(c.req)[i], d, t, co)
    OBVIOUS
  <2> DEFINE o == c.opened[i]
             r == Redirects(c.req)[i]
  <2>1. Chan(c, o, r, d, t, co) /\ o \in Entries
    BY <1>1, <1>2, <1>5 DEF Chans
  <2> SUFFICES Chan(b, o, r, d, t, co)
    OBVIOUS
  <2> HIDE DEF o, r
  <2>2. CASE r.file # None
    BY <2>1, <2>2 DEF Chan, FileChan, Ours, AloneIn
  <2>3. CASE r.file = None
    <3>1. PipeChan(c, o, t) /\ o.stream \in Std
      BY <2>1, <2>3 DEF Chan, Entries
    <3>2. ASSUME NEW p \in PipeIds, t.fds[o.child] = ChildEnd(o.stream, p)
          PROVE  PipeOK(b, o.stream, t.pipes[p])
      <4>1. PipeOK(c, o.stream, t.pipes[p]) /\ t.pipes[p] \in Pipes
        BY <3>1, <3>2 DEF PipeChan, GoodTab, Tabs
      <4>2. CASE o.stream = STDIN
        BY <1>1, <4>2 DEF PipeOK
      <4>3. CASE o.stream # STDIN
        <5> DEFINE s == o.stream
                   pipe == t.pipes[p]
        <5>1. pipe.read_offset = 0 /\ pipe.buffer = Take(c.log[s], APP_PIPE_BUFFER_SIZE)
          BY <1>1, <4>1, <4>3 DEF PipeOK
        <5>2. Rest(pipe) = pipe.buffer /\ pipe.buffer \in Seq(Bytes)
          BY <4>1, <5>1, RestAll
        <5>3. <<>> \o pipe.buffer = pipe.buffer
          BY <5>2, JoinEmpty
        <5>4. b.got[s] = <<>>
          BY <1>3, <3>1
        <5> HIDE DEF s, pipe
        <5>5. b.got[s] \o Rest(pipe) = Take(b.log[s], APP_PIPE_BUFFER_SIZE)
          BY <5>1, <5>2, <5>3, <5>4
        <5>6. PipeOK(b, s, pipe)
          BY <1>1, <4>3, <5>5 DEF PipeOK, s
        <5> QED
          BY <5>6 DEF s, pipe
      <4> QED
        BY <4>2, <4>3
    <3>3. PipeChan(b, o, t)
      BY <3>1, <3>2 DEF PipeChan
    <3> QED
      BY <2>3, <3>3 DEF Chan
  <2> QED
    BY <2>2, <2>3
<1>11. Chans(b, d, t, co)
  BY <1>10 DEF Chans
<1> QED
  BY <1>4, <1>8, <1>9, <1>11 DEF CallCap

LEMMA CollectCap ==
  ASSUME CapInv, Collect
  PROVE  Cap(procs', tab', content')
<1> DEFINE c == Top.call
           p == Restored(Top, c)
           q == ToRead(p, Captured(c.req))
<1>1. Good(procs, tab, dirs) /\ Cap(procs, tab, content) /\ GoodTab(tab)
  BY CapInvParts, GoodParts
<1>2. InCall("reap") /\ UNCHANGED <<tab, content, dirs, budget>>
  BY DEF Collect, Keep
<1>3. "reap" \in Pcs /\ "reap" \in Early
  BY DEF Pcs, Early
<1>4. /\ procs # <<>> /\ c \in Calling /\ c # NoCall /\ c.pc = "reap"
      /\ KeysUnique(Top.env) /\ EnvPart(Top.env, c) /\ CwdPart(Top.cwd, c, dirs) /\ StdPart(Top.std, c)
      /\ Inherits(tab, Below(procs, Depth), c.at.std)
  BY <1>1, <1>2, <1>3, InCallFacts
<1>5. Top \in Processes /\ Top = procs[Len(procs)] /\ Depth = Len(procs)
  BY <1>1, <1>4, TopFacts
<1>6. procs' = SetTop(procs, q)
  BY <1>5 DEF Collect, SetTop, ToRead
<1>7. c.saved = c.at.std
  BY <1>4 DEF StdPart
<1>8. p \in Processes /\ p.call = c /\ p.sink = Top.sink
  BY <1>3, <1>4, <1>5, <1>7, RestoredFacts
<1> HIDE DEF p
<1>9. Captured(c.req) \in Seq(Std)
  BY <1>4, CallParts, CapturedType
<1>10. /\ q \in Processes /\ q.sink = Top.sink
       /\ q.call \in Calling /\ q.call.pc = "read" /\ q.call.req = c.req /\ q.call.at = c.at
       /\ q.call.opened = c.opened /\ q.call.got = c.got /\ q.call.log = c.log /\ q.call.unread = Captured(c.req)
  BY <1>4, <1>8, <1>9, ToReadFacts
<1> HIDE DEF q
<1>11. CallCap(c, Len(procs), tab, content)
  BY <1>1, <1>4, <1>5, TopCap
<1>12. CallCap(q.call, Len(procs), tab, content)
  BY <1>1, <1>4, <1>10, <1>11, CollectMoves
<1>13. OwnStd(q) = OwnStd(procs[Len(procs)]) /\ q.sink = procs[Len(procs)].sink
  <2>1. q.call # NoCall
    BY <1>10, CallParts
  <2> QED
    BY <1>4, <1>5, <1>10, <2>1 DEF OwnStd
<1>14. Cap(SetTop(procs, q), tab, content)
  BY <1>1, <1>4, <1>10, <1>12, <1>13, TopCapSame
<1> QED
  BY <1>2, <1>6, <1>14

\* The streams still to be read, once the first of them is done.
LEMMA UnreadFacts ==
  ASSUME NEW u \in {<< 1, 2 >>, << 1 >>, << 2 >>, <<>>}, u # <<>>
  PROVE  /\ Head(u) \in {1, 2} /\ Head(u) \in ToSet(u) /\ Head(u) \notin ToSet(Tail(u))
         /\ Tail(u) \in {<< 1, 2 >>, << 1 >>, << 2 >>, <<>>}
         /\ ToSet(u) = ToSet(Tail(u)) \cup {Head(u)}
<1>1. CASE u = << 1, 2 >>
  <2>1. Head(u) = 1 /\ Tail(u) = << 2 >>
    BY <1>1
  <2>2. ToSet(<< 1, 2 >>) = {1, 2} /\ ToSet(<< 2 >>) = {2}
    BY DEF ToSet
  <2> QED
    BY <1>1, <2>1, <2>2
<1>2. CASE u = << 1 >>
  <2>1. Head(u) = 1 /\ Tail(u) = <<>>
    BY <1>2
  <2>2. ToSet(<< 1 >>) = {1} /\ ToSet(<<>>) = {}
    BY DEF ToSet
  <2> QED
    BY <1>2, <2>1, <2>2
<1>3. CASE u = << 2 >>
  <2>1. Head(u) = 2 /\ Tail(u) = <<>>
    BY <1>3
  <2>2. ToSet(<< 2 >>) = {2} /\ ToSet(<<>>) = {}
    BY DEF ToSet
  <2> QED
    BY <1>3, <2>1, <2>2
<1> QED
  BY <1>1, <1>2, <1>3

\* A captured stream comes through exactly one pipe of its call.
LEMMA CapturedEntry ==
  ASSUME NEW c \in Calling, c.pc = "read", NEW std, StdPart(std, c), NEW s \in ToSet(Captured(c.req))
  PROVE  \E i \in 1 .. Len(c.opened) : c.opened[i].stream = s /\ Redirects(c.req)[i].file = None
<1> DEFINE pipes == Apis[c.req.api].pipes
           reads == Captured(c.req)
<1>1. c.req \in Requests
  BY CallParts
<1>2. /\ pipes \in {<<0, 1, 2>>, <<0>>, <<1>>, <<0, 1>>} /\ reads \in {<<1, 2>>, <<1>>, <<>>}
      /\ reads = <<1, 2>> => pipes = <<0, 1, 2>>
      /\ reads = <<1>> => pipes = <<1>> \/ pipes = <<0, 1>>
      /\ c.req.api = "status" => reads = <<>>
  BY <1>1, ApiPipes DEF Captured
<1>3. ToSet(<<>>) = {} /\ ToSet(<<1>>) = {1} /\ ToSet(<<1, 2>>) = {1, 2}
  BY DEF ToSet
<1>4. s \in ToSet(reads)
  OBVIOUS
<1> HIDE DEF pipes, reads
<1>5. c.req.api # "status"
  BY <1>2, <1>3, <1>4
<1>6. /\ Len(Redirects(c.req)) = Len(pipes)
      /\ \A i \in 1 .. Len(Redirects(c.req)) : Redirects(c.req)[i] = PipeTo(pipes[i])
  BY <1>1, <1>5, PipeOnly DEF pipes
<1>7. \E i \in 1 .. Len(pipes) : pipes[i] = s
  <2>1. CASE reads = <<1, 2>>
    <3>1. pipes = <<0, 1, 2>> /\ s \in {1, 2}
      BY <1>2, <1>3, <1>4, <2>1
    <3>2. Len(pipes) = 3 /\ pipes[2] = 1 /\ pipes[3] = 2
      BY <3>1
    <3>3. 2 \in 1 .. 3 /\ 3 \in 1 .. 3
      OBVIOUS
    <3> QED
      BY <3>1, <3>2, <3>3
  <2>2. CASE reads = <<1>>
    <3>1. s = 1 /\ (pipes = <<1>> \/ pipes = <<0, 1>>)
      BY <1>2, <1>3, <1>4, <2>2
    <3>2. CASE pipes = <<1>>
      <4>1. Len(pipes) = 1 /\ pipes[1] = 1 /\ 1 \in 1 .. 1
        BY <3>2
      <4> QED
        BY <3>1, <4>1
    <3>3. CASE pipes = <<0, 1>>
      <4>1. Len(pipes) = 2 /\ pipes[2] = 1 /\ 2 \in 1 .. 2
        BY <3>3
      <4> QED
        BY <3>1, <4>1
    <3> QED
      BY <3>1, <3>2, <3>3
  <2> QED
    BY <1>2, <1>3, <1>4, <2>1, <2>2
<1>8. PICK i \in 1 .. Len(pipes) : pipes[i] = s
  BY <1>7
<1>9. /\ Len(c.opened) = Len(Redirects(c.req))
      /\ \A j \in 1 .. Len(c.opened) : c.opened[j].stream = Redirects(c.req)[j].stream
  BY DEF StdPart
<1>10. Redirects(c.req)[i] = PipeTo(s) /\ i \in 1 .. Len(c.opened)
  BY <1>6, <1>8, <1>9
<1> QED
  BY <1>9, <1>10 DEF PipeTo

\* What a read of the caller's end of a captured pipe gives, and leaves.
ReadsFrom(t, o, n, a, p) ==
    /\ t.fds[o.child] = ChildEnd(o.stream, p)
    /\ a.tab.fds = t.fds /\ ExactAt(t, a.tab, TableFds \ Both(o))
    /\ Rest(t.pipes[p]) \in Seq(Bytes) /\ Rest(a.tab.pipes[p]) \in Seq(Bytes)
    /\ a.data \in Seq(Bytes) /\ a.data = Take(Rest(t.pipes[p]), n) /\ a.count = Len(a.data)
    /\ a.data \o Rest(a.tab.pipes[p]) = Rest(t.pipes[p])

LEMMA PipeRead1 ==
  ASSUME NEW t, GoodTab(t), NEW o \in Entries, EntryGood(t, o), o.own # o.child, o.stream # STDIN, NEW n \in Nat
  PROVE  \E p \in PipeIds : ReadsFrom(t, o, n, abi_read(t, o.own, n), p)
<1>2. PICK p \in PipeIds : /\ t.fds[o.child] = ChildEnd(o.stream, p) /\ t.fds[o.own] = OwnEnd(o.stream, p)
                           /\ t.pipes[p].read_open /\ t.pipes[p] \in Pipes /\ Fits(t.pipes[p])
  BY EntryPipe
<1> DEFINE q == t.pipes[p]
           r == AfterRead(q, n)
           u == WithPipe(t, p, r)
           x == ReadData(q, n)
           a == abi_read(t, o.own, n)
<1>3. o.own \in TableFds /\ t.fds[o.own] = PipeRead(p)
  BY <1>2 DEF Entries, OwnEnd
<1>4. a.data = x /\ a.tab = u /\ a.count = Len(x)
  BY <1>2, <1>3, ReadPipe
<1>5. r \in Pipes /\ Fits(r) /\ SameFlags(q, r)
  BY <1>2, AfterReadFacts
<1>6. Rest(q) \in Seq(Bytes) /\ Rest(r) \in Seq(Bytes) /\ x \o Rest(r) = Rest(q) /\ x = Take(Rest(q), n)
  BY <1>2, ReadMove
<1>7. x \in Seq(Bytes)
  BY <1>2, ReadEnd
<1> HIDE DEF r, x
<1>8. SameFlags(t.pipes[p], r)
  BY <1>5
<1>9. ExactAt(t, u, TableFds \ Both(o)) /\ u.fds = t.fds /\ u.pipes[p] = r
  <2> HIDE DEF q
  <2> QED
    BY <1>2, <1>5, <1>8, PipeApart
<1> HIDE DEF u, a
<1>10. ReadsFrom(t, o, n, a, p)
  BY <1>2, <1>4, <1>6, <1>7, <1>9 DEF ReadsFrom
<1> QED
  BY <1>10 DEF a

\* A read of n takes x of the rest y of a pipe and leaves z; l was written, g taken before.
ReadSplit(g, l, x, y, z, n) == x = Take(y, n) /\ x \o z = y /\ g \o y = Take(l, APP_PIPE_BUFFER_SIZE)
ReadGives(g, l, x, z, n) ==
    /\ (g \o x) \o z = Take(l, APP_PIPE_BUFFER_SIZE)
    /\ Len(x) # n => g \o x = Take(l, APP_PIPE_BUFFER_SIZE)
    /\ g = <<>> => g \o x = Take(l, Min({APP_PIPE_BUFFER_SIZE, n}))

LEMMA ReadDone ==
  ASSUME NEW g \in Seq(Bytes), NEW l \in Seq(Bytes), NEW x \in Seq(Bytes), NEW y \in Seq(Bytes), NEW z \in Seq(Bytes),
         NEW n \in Nat, ReadSplit(g, l, x, y, z, n)
  PROVE  ReadGives(g, l, x, z, n)
<1>1. (g \o x) \o z = g \o (x \o z)
  BY JoinTwice, SMTT(30)
<1>4. x = Take(y, n) /\ x \o z = y /\ g \o y = Take(l, APP_PIPE_BUFFER_SIZE)
  BY DEF ReadSplit
<1>2. Len(x) # n => x = y
  <2>1. Len(Take(y, n)) = (IF n <= Len(y) THEN n ELSE Len(y)) /\ (Len(y) <= n => Take(y, n) = y)
    BY TakeIs
  <2>2. Len(y) \in Nat
    OBVIOUS
  <2> QED
    BY <1>4, <2>1, <2>2
<1>3. ASSUME g = <<>> PROVE g \o x = Take(l, Min({APP_PIPE_BUFFER_SIZE, n}))
  <2>1. <<>> \o x = x /\ <<>> \o y = y
    BY JoinEmpty
  <2>2. g \o x = x /\ y = Take(l, APP_PIPE_BUFFER_SIZE)
    BY <1>3, <1>4, <2>1
  <2>3. APP_PIPE_BUFFER_SIZE \in Nat
    BY FdsAssumption
  <2>4. Take(Take(l, APP_PIPE_BUFFER_SIZE), n) = Take(l, Min({APP_PIPE_BUFFER_SIZE, n}))
    BY <2>3, TakeTake
  <2> QED
    BY <1>4, <2>2, <2>4
<1> QED
  BY <1>1, <1>2, <1>3, <1>4 DEF ReadGives

\* One round of reading, for the call.
Chunk(c, b, s, data, more) ==
    /\ b.pc = "read" /\ b.req = c.req /\ b.at = c.at /\ b.opened = c.opened /\ b.log = c.log
    /\ b.got = Longer(c.got, s, data)
    /\ b.unread = IF more THEN c.unread ELSE Tail(c.unread)

ChunkSize(c) == IF IsBuiltin(c.req) THEN RYSH_CHUNK ELSE CHUNK

LEMMA ReadMoves ==
  ASSUME NEW c \in Calling, c.pc = "read", NEW std, StdPart(std, c), c.unread # <<>>, NEW t, GoodTab(t),
         EntriesGood(t, c.at.open, c.opened), NEW d \in Nat, NEW co, CallCap(c, d, t, co),
         NEW i \in 1 .. Len(c.opened), c.opened[i].stream = Head(c.unread), Redirects(c.req)[i].file = None,
         NEW a, NEW p \in PipeIds, ReadsFrom(t, c.opened[i], ChunkSize(c), a, p),
         NEW b, Chunk(c, b, Head(c.unread), a.data, ~IsBuiltin(c.req) /\ a.count = ChunkSize(c))
  PROVE  CallCap(b, d, a.tab, co)
<1> DEFINE s    == Head(c.unread)
           n    == ChunkSize(c)
           more == ~IsBuiltin(c.req) /\ a.count = n
           o    == c.opened[i]
           x    == a.data
           y    == Rest(t.pipes[p])
           z    == Rest(a.tab.pipes[p])
           g    == c.got[s]
           l    == c.log[s]
<1>1. "read" \notin Early /\ "read" \in Holding
  BY DEF Early, Holding
<1>2. Logs(c) /\ Reads(c) /\ Gets(c) /\ Chans(c, d, t, co)
  BY DEF CallCap
<1>3. /\ c.unread \in {<< 1, 2 >>, << 1 >>, << 2 >>, <<>>} /\ ToSet(c.unread) \subseteq ToSet(Captured(c.req))
      /\ IsBuiltin(c.req) => \A v \in ToSet(c.unread) : c.got[v] = <<>>
  BY <1>2 DEF Reads
<1>4. /\ s \in {1, 2} /\ s \in ToSet(c.unread) /\ s \notin ToSet(Tail(c.unread))
      /\ Tail(c.unread) \in {<< 1, 2 >>, << 1 >>, << 2 >>, <<>>}
      /\ ToSet(c.unread) = ToSet(Tail(c.unread)) \cup {s}
  BY <1>3, UnreadFacts
<1>5. s \in Std /\ s # STDIN
  BY <1>4 DEF Std, STDIN, STDOUT, STDERR
<1>6. /\ c.req \in Requests /\ c.opened \in Seq(Entries) /\ c.got \in [Std -> Seq(Bytes)] /\ c.log \in [Std -> Seq(Bytes)]
      /\ c.at.open \in SUBSET TableFds
  BY CallParts
<1>7. g \in Seq(Bytes) /\ l \in Seq(Bytes)
  BY <1>5, <1>6
<1>8. n \in Nat
  BY CommandAssumption DEF ChunkSize
<1>9. o \in Entries /\ o.stream = s
  BY <1>6
<1>10. Chan(c, o, Redirects(c.req)[i], d, t, co)
  BY <1>1, <1>2 DEF Chans
<1>11. PipeChan(c, o, t)
  BY <1>10 DEF Chan
<1>12. /\ t.fds[o.child] = ChildEnd(o.stream, p) /\ a.tab.fds = t.fds /\ ExactAt(t, a.tab, TableFds \ Both(o))
       /\ y \in Seq(Bytes) /\ z \in Seq(Bytes) /\ x \in Seq(Bytes) /\ x = Take(y, n) /\ a.count = Len(x) /\ x \o z = y
  BY DEF ReadsFrom
<1>13. g \o y = Take(l, APP_PIPE_BUFFER_SIZE)
  BY <1>4, <1>5, <1>9, <1>11, <1>12 DEF PipeChan, PipeOK
<1> HIDE DEF n, x, y, z, g, l
<1>14. /\ (g \o x) \o z = Take(l, APP_PIPE_BUFFER_SIZE)
       /\ Len(x) # n => g \o x = Take(l, APP_PIPE_BUFFER_SIZE)
       /\ g = <<>> => g \o x = Take(l, Min({APP_PIPE_BUFFER_SIZE, n}))
  <2>1. ReadSplit(g, l, x, y, z, n)
    BY <1>12, <1>13 DEF ReadSplit
  <2>2. x \in Seq(Bytes) /\ y \in Seq(Bytes) /\ z \in Seq(Bytes)
    BY <1>12
  <2>3. ReadGives(g, l, x, z, n)
    BY <1>7, <1>8, <2>1, <2>2, ReadDone
  <2> QED
    BY <2>3 DEF ReadGives
<1>15. /\ b.pc = "read" /\ b.req = c.req /\ b.at = c.at /\ b.opened = c.opened /\ b.log = c.log
       /\ b.got = Longer(c.got, s, x) /\ b.unread = IF more THEN c.unread ELSE Tail(c.unread)
  BY DEF Chunk, n, x
<1>16. b.got[s] = g \o x /\ \A v \in Std \ {s} : b.got[v] = c.got[v]
  BY <1>5, <1>6, <1>15 DEF Longer, g
<1>17. more => ~IsBuiltin(c.req)
  OBVIOUS
<1>18. ~more => g \o x = Take(l, RoomFor(c.req))
  <2>1. CASE IsBuiltin(c.req)
    <3>1. g = <<>>
      BY <1>3, <1>4, <2>1 DEF g
    <3>2. RoomFor(c.req) = Min({APP_PIPE_BUFFER_SIZE, n})
      BY <2>1 DEF RoomFor, n, ChunkSize
    <3> QED
      BY <1>14, <3>1, <3>2
  <2>2. CASE ~IsBuiltin(c.req)
    <3>1. ~more => Len(x) # n
      BY <1>12, <2>2
    <3>2. RoomFor(c.req) = APP_PIPE_BUFFER_SIZE
      BY <2>2 DEF RoomFor
    <3> QED
      BY <1>14, <3>1, <3>2
  <2> QED
    BY <2>1, <2>2
<1> HIDE DEF more, s, o
<1>19. Logs(b)
  BY <1>1, <1>2, <1>15 DEF Logs
<1>20. ToSet(Captured(c.req)) \subseteq Std
  BY <1>6, CapturedType DEF ToSet
<1>21. Reads(b)
  <2>1. b.unread \in {<< 1, 2 >>, << 1 >>, << 2 >>, <<>>} /\ ToSet(b.unread) \subseteq ToSet(c.unread)
    BY <1>3, <1>4, <1>15
  <2>2. IsBuiltin(c.req) => \A v \in ToSet(b.unread) : b.got[v] = <<>>
    BY <1>3, <1>4, <1>15, <1>16, <1>17, <1>20
  <2> QED
    BY <1>3, <1>15, <2>1, <2>2 DEF Reads
<1>22. Gets(b)
  <2> SUFFICES ASSUME NEW v \in ToSet(Captured(c.req))
               PROVE  b.got[v] = Take(c.log[v], RoomFor(c.req)) \/ v \in ToSet(b.unread)
    BY <1>15 DEF Gets
  <2>1. CASE v = s
    BY <1>4, <1>15, <1>16, <1>18, <2>1 DEF l
  <2>2. CASE v # s
    <3>1. c.got[v] = Take(c.log[v], RoomFor(c.req)) \/ v \in ToSet(c.unread)
      BY <1>2 DEF Gets
    <3> QED
      BY <1>4, <1>15, <1>16, <1>20, <2>2, <3>1
  <2> QED
    BY <2>1, <2>2
<1>23. \A j \in 1 .. Len(c.opened) : Chan(b, c.opened[j], Redirects(c.req)[j], d, a.tab, co)
  <2> SUFFICES ASSUME NEW j \in 1 .. Len(c.opened)
               PROVE  Chan(b, c.opened[j], Redirects(c.req)[j], d, a.tab, co)
    OBVIOUS
  <2>1. CASE j = i
    <3>1. ASSUME NEW w \in PipeIds, a.tab.fds[o.child] = ChildEnd(o.stream, w)
          PROVE  PipeOK(b, o.stream, a.tab.pipes[w])
      <4>1. w = p
        BY <1>12, <3>1, EndsDiffer
      <4>2. b.got[s] \o Rest(a.tab.pipes[w]) = Take(b.log[s], APP_PIPE_BUFFER_SIZE)
        BY <1>14, <1>15, <1>16, <4>1 DEF z, l
      <4> QED
        BY <1>1, <1>5, <1>9, <1>15, <4>2 DEF PipeOK
    <3>2. PipeChan(b, o, a.tab)
      BY <1>11, <3>1 DEF PipeChan
    <3> QED
      BY <2>1, <3>2 DEF Chan, o
  <2>2. CASE j # i
    <3> DEFINE e == c.opened[j]
               r == Redirects(c.req)[j]
               S == TableFds \ Both(o)
    <3>1. /\ e \in Entries /\ e.stream = r.stream /\ e.stream \in Std
          /\ r.file # None => r.file \in Files /\ e.stream # STDIN
      BY ChanParts
    <3>2. Chan(c, e, r, d, t, co)
      BY <1>1, <1>2 DEF Chans
    <3>3. Both(e) \cap Both(o) = {} /\ Both(e) \subseteq TableFds /\ Both(o) \subseteq HeldFds(c.opened)
      <4>1. Both(o) \cap Both(e) = {}
        BY <2>2 DEF EntriesGood, Apart, o
      <4>2. Both(e) \subseteq TableFds /\ Both(o) \subseteq TableFds
        BY <1>9, <3>1 DEF Both, Entries
      <4> HIDE DEF e
      <4>3. Both(o) \subseteq HeldFds(c.opened)
        BY <4>2 DEF HeldFds, o
      <4> QED
        BY <4>1, <4>2, <4>3
    <3>4. c.at.open \subseteq S /\ e.own \in S /\ e.child \in S
      BY <1>6, <3>3 DEF EntriesGood, Both
    <3>5. e.stream # s
      <4>1. OneStream(c.opened)
        <5>1. \A k, m \in 1 .. Len(Redirects(c.req)) :
                Redirects(c.req)[k].file = None /\ Redirects(c.req)[k].stream = Redirects(c.req)[m].stream => k = m
          BY <1>6, RedirectsFacts
        <5> QED
          BY <1>6, RedirectsFacts DEF OneStream, StdPart
      <4> QED
        BY <1>9, <2>2, <4>1 DEF OneStream, o
    <3> HIDE DEF e, r, S
    <3>6. CASE r.file = None
      <4>1. PipeChan(c, e, a.tab)
        <5>1. PipeChan(c, e, t)
          BY <3>2, <3>6 DEF Chan
        <5>2. ExactAt(t, a.tab, S)
          BY <1>12 DEF S
        <5> QED
          BY <3>1, <3>4, <5>1, <5>2, PipeChanStays
      <4>2. ASSUME NEW w PROVE PipeOK(c, e.stream, w) => PipeOK(b, e.stream, w)
        <5>1. b.got[e.stream] = c.got[e.stream] /\ (e.stream \in ToSet(b.unread) => e.stream \in ToSet(c.unread))
          BY <1>4, <1>15, <1>16, <3>1, <3>5
        <5> QED
          BY <1>1, <1>15, <5>1 DEF PipeOK
      <4>3. PipeChan(b, e, a.tab)
        BY <4>1, <4>2 DEF PipeChan
      <4>4. Chan(b, e, r, d, a.tab, co)
        BY <3>6, <4>3 DEF Chan
      <4> QED
        BY <4>4 DEF e, r
    <3>7. CASE r.file # None
      <4>1. FileChan(c, e, r, d, t, co)
        BY <3>2, <3>7 DEF Chan
      <4>2. ExactAt(t, a.tab, S)
        BY <1>12 DEF S
      <4>3. co[r.file] = co[r.file] \/ (co[r.file].by # d /\ co[r.file].by >= d)
        OBVIOUS
      <4>4. FileChan(c, e, r, d, a.tab, co)
        BY <3>4, <4>1, <4>2, <4>3, FileChanStays
      <4>5. FileChan(b, e, r, d, a.tab, co)
        BY <1>15, <4>4 DEF FileChan, Ours, AloneIn
      <4>6. Chan(b, e, r, d, a.tab, co)
        BY <3>7, <4>5 DEF Chan
      <4> QED
        BY <4>6 DEF e, r
    <3> QED
      BY <3>6, <3>7
  <2> QED
    BY <2>1, <2>2
<1>24. Chans(b, d, a.tab, co)
  BY <1>15, <1>23 DEF Chans
<1> QED
  BY <1>19, <1>21, <1>22, <1>24 DEF CallCap

LEMMA ReadChunkCap ==
  ASSUME CapInv, ReadChunk
  PROVE  Cap(procs', tab', content')
<1> DEFINE c == Top.call
           q == WithChunk(Top, ReadStream, ReadResult.data, ReadRest)
<1>1. Good(procs, tab, dirs) /\ Cap(procs, tab, content) /\ GoodTab(tab)
  BY CapInvParts, GoodParts
<1>2. /\ procs # <<>> /\ c \in Calling /\ c.pc = "read" /\ c.unread # <<>>
      /\ ReadStream \in Std /\ ReadRest \in Seq(Std) /\ ReadResult.data \in Seq(Bytes)
      /\ tab' = ReadResult.tab
      /\ procs' = SetTop(procs, q)
      /\ UNCHANGED <<content, dirs, budget>>
  BY <1>1, ReadChunkIs
<1>3. Top \in Processes /\ Top = procs[Len(procs)] /\ Depth = Len(procs)
  BY <1>1, <1>2, TopFacts
<1>4. /\ q \in Processes /\ Similar(Top, q) /\ q.call \in Calling /\ q.call.unread = ReadRest
      /\ q.call.log = c.log /\ q.call.got = Longer(c.got, ReadStream, ReadResult.data)
  BY <1>2, <1>3, WithChunkFacts
<1> HIDE DEF q
<1>5. "read" \in Pcs /\ "read" \in Holding /\ InCall("read")
  BY DEF Pcs, Holding, ReadChunk
<1>6. StdPart(Top.std, c) /\ c.at.open = Below(procs, Depth) /\ EntriesGood(tab, Below(procs, Depth), c.opened)
  BY <1>1, <1>5, InCallFacts
<1>7. CallCap(c, Len(procs), tab, content) /\ Len(procs) \in Nat
  BY <1>1, <1>2, <1>3, TopCap, GoodParts
<1>8. c.unread \in {<< 1, 2 >>, << 1 >>, << 2 >>, <<>>} /\ ToSet(c.unread) \subseteq ToSet(Captured(c.req))
  BY <1>2, <1>7 DEF CallCap, Reads
<1>9. ReadStream \in {1, 2} /\ ReadStream \in ToSet(Captured(c.req))
  BY <1>2, <1>8, UnreadFacts DEF ReadStream
<1>10. PICK i \in 1 .. Len(c.opened) : c.opened[i].stream = ReadStream /\ Redirects(c.req)[i].file = None
  BY <1>2, <1>6, <1>9, CapturedEntry
<1>11. ReadFrom = c.opened[i].own
  <2>1. c.opened \in Seq(Entries) /\ c.req \in Requests
    BY <1>2, CallParts
  <2>2. DOMAIN c.opened = 1 .. Len(c.opened)
    BY <2>1
  <2>3. \A j \in 1 .. Len(c.opened) : c.opened[j].stream = ReadStream => j = i
    BY <1>6, <1>10, <2>1, RedirectsFacts DEF StdPart
  <2>4. (CHOOSE j \in DOMAIN c.opened : c.opened[j].stream = ReadStream) = i
    BY <1>10, <2>2, <2>3
  <2> QED
    BY <2>4 DEF ReadFrom
<1> DEFINE o == c.opened[i]
<1>12. o \in Entries /\ o.stream = ReadStream /\ EntryGood(tab, o)
  BY <1>2, <1>6, <1>10, CallParts DEF EntriesGood
<1>13. o.own # o.child
  BY <1>2, <1>5, <1>7, <1>10 DEF CallCap, Chans, Chan, PipeChan
<1>14. ReadSize = ChunkSize(c) /\ ChunkSize(c) \in Nat
  BY CommandAssumption DEF ReadSize, ChunkSize
<1>15. o.stream # STDIN
  BY <1>9, <1>12 DEF STDIN
<1>16. ReadResult = abi_read(tab, o.own, ChunkSize(c))
  BY <1>11, <1>14 DEF ReadResult
<1> DEFINE a == ReadResult
<1> HIDE DEF o
<1>17. PICK p \in PipeIds : ReadsFrom(tab, o, ChunkSize(c), abi_read(tab, o.own, ChunkSize(c)), p)
  BY <1>1, <1>12, <1>13, <1>14, <1>15, PipeRead1
<1> HIDE DEF a
<1>18. ReadsFrom(tab, c.opened[i], ChunkSize(c), a, p)
  BY <1>16, <1>17 DEF a, o
<1>19. Chunk(c, q.call, Head(c.unread), a.data, ~IsBuiltin(c.req) /\ a.count = ChunkSize(c))
  <2>1. c # NoCall
    BY <1>2, CallParts
  <2> QED
    BY <1>2, <1>4, <1>14, <2>1 DEF Chunk, Similar, ReadRest, ReadOn, ReadStream, a
<1>20. c.opened[i].stream = Head(c.unread) /\ Redirects(c.req)[i].file = None /\ EntriesGood(tab, c.at.open, c.opened)
  BY <1>6, <1>10 DEF ReadStream
<1>21. CallCap(q.call, Len(procs), a.tab, content)
  BY <1>1, <1>2, <1>6, <1>7, <1>18, <1>19, <1>20, ReadMoves
<1>22. ExactAt(tab, a.tab, Below(procs, Len(procs)))
  <2>1. ExactAt(tab, a.tab, TableFds \ Both(o))
    BY <1>18 DEF ReadsFrom, o
  <2>2. Below(procs, Len(procs)) \subseteq TableFds
    BY <1>1, <1>2, BelowTable
  <2>3. Both(o) \subseteq TableFds
    BY <1>12 DEF Both, Entries
  <2>4. Both(o) \subseteq HeldFds(c.opened)
    BY <2>3 DEF HeldFds, o
  <2>5. Below(procs, Len(procs)) \subseteq TableFds \ Both(o)
    BY <1>3, <1>6, <2>2, <2>4 DEF EntriesGood
  <2> QED
    BY <2>1, <2>5 DEF ExactAt
<1>23. OwnStd(q) = OwnStd(procs[Len(procs)]) /\ q.sink = procs[Len(procs)].sink
  <2>1. q.call # NoCall /\ c # NoCall
    BY <1>2, <1>4, CallParts
  <2> QED
    BY <1>3, <1>4, <2>1 DEF OwnStd, Similar
<1>24. \A f \in Files : content[f] = content[f] \/ content[f].by = Len(procs)
  OBVIOUS
<1>25. Cap(SetTop(procs, q), a.tab, content)
  BY <1>1, <1>2, <1>4, <1>21, <1>22, <1>23, <1>24, CapTop
<1> QED
  BY <1>2, <1>25 DEF a

\* A call that has read everything goes on; its files stay what they are.
LEMMA CloseMoves ==
  ASSUME NEW c \in Calling, c.pc \in {"read", "close"}, c.pc = "read" => c.unread = <<>>, NEW std, StdPart(std, c),
         NEW b, b.pc \in {"close", "done"}, b.req = c.req, b.at = c.at, b.opened = c.opened, b.got = c.got, b.log = c.log,
         NEW t, NEW u, ExactAt(t, u, c.at.open), b.pc = "close" => u = t, NEW d, NEW co, CallCap(c, d, t, co)
  PROVE  CallCap(b, d, u, co)
<1>1. c.pc \in Holding /\ b.pc \notin Early /\ b.pc \notin {"env", "open"} /\ ("close" \in Holding) /\ "done" \notin Holding
  BY DEF Holding, Early
<1>2. Logs(c) /\ Gets(c) /\ Chans(c, d, t, co)
  BY DEF CallCap
<1>3. Logs(b)
  BY <1>1, <1>2 DEF Logs
<1>4. Reads(b)
  BY DEF Reads
<1>5. Gets(b)
  <2>1. ToSet(<<>>) = {}
    BY DEF ToSet
  <2> QED
    BY <1>2, <2>1 DEF Gets
<1>6. \A i \in 1 .. Len(c.opened) : Chan(c, c.opened[i], Redirects(c.req)[i], d, t, co)
  BY <1>1, <1>2 DEF Chans
<1>7. CASE b.pc = "close"
  <2>1. ASSUME NEW i \in 1 .. Len(c.opened) PROVE Chan(b, c.opened[i], Redirects(c.req)[i], d, u, co)
    <3> DEFINE o == c.opened[i]
               r == Redirects(c.req)[i]
    <3>1. Chan(c, o, r, d, t, co) /\ u = t
      BY <1>6, <1>7
    <3> SUFFICES Chan(b, o, r, d, u, co)
      OBVIOUS
    <3> HIDE DEF o, r
    <3>2. CASE r.file = None
      BY <1>1, <1>7, <3>1, <3>2 DEF Chan, PipeChan, PipeOK
    <3>3. CASE r.file # None
      BY <3>1, <3>3 DEF Chan, FileChan, Ours, AloneIn
    <3> QED
      BY <3>2, <3>3
  <2>2. Chans(b, d, u, co)
    BY <1>7, <2>1 DEF Chans
  <2> QED
    BY <1>3, <1>4, <1>5, <2>2 DEF CallCap
<1>8. CASE b.pc = "done"
  <2>1. Len(c.opened) = Len(Redirects(c.req))
    BY DEF StdPart
  <2>2. ASSUME NEW i \in 1 .. Len(Redirects(c.req)), Redirects(c.req)[i].file # None,
               Ours(b, Redirects(c.req)[i], d, u, co)
        PROVE  co[Redirects(c.req)[i].file].data = b.log[Redirects(c.req)[i].stream]
    <3> DEFINE r == Redirects(c.req)[i]
               o == c.opened[i]
    <3>1. FileChan(c, o, r, d, t, co)
      BY <1>6, <2>1, <2>2 DEF Chan
    <3>2. AloneIn(u, c, r)
      BY <2>2 DEF Ours, AloneIn
    <3> HIDE DEF o
    <3>3. AloneIn(t, c, r)
      BY <3>2, AloneStays
    <3>4. Ours(c, r, d, t, co)
      BY <2>2, <3>3 DEF Ours
    <3> QED
      BY <3>1, <3>4 DEF FileChan
  <2>3. Chans(b, d, u, co)
    BY <1>1, <1>8, <2>2 DEF Chans
  <2> QED
    BY <1>3, <1>4, <1>5, <2>3 DEF CallCap
<1> QED
  BY <1>7, <1>8

LEMMA CloseAllCap ==
  ASSUME CapInv, CloseAll
  PROVE  Cap(procs', tab', content')
<1> DEFINE c == Top.call
           q == WithPc(Top, "done")
<1>1. Good(procs, tab, dirs) /\ Cap(procs, tab, content)
  BY CapInvParts
<1>2. /\ procs # <<>> /\ c.pc \in {"read", "close"} /\ (c.pc = "read" => c.unread = <<>>)
      /\ tab' = close_many(tab, c.opened)
      /\ procs' = [procs EXCEPT ![Depth].call.pc = "done"] /\ UNCHANGED <<content, dirs, budget>>
  BY DEF CloseAll, InCall, Keep
<1>3. c.pc # "none" /\ c.pc \in Holding /\ "done" \in Pcs
  BY <1>2 DEF Holding, Pcs
<1>4. Top \in Processes /\ Top = procs[Len(procs)] /\ Depth = Len(procs) /\ ProcGood(Top, dirs)
  BY <1>1, <1>2, TopFacts
<1>5. c \in Calling /\ c # NoCall
  BY <1>3, <1>4, ProcParts, CallParts
<1>6. procs' = SetTop(procs, q)
  BY <1>2 DEF SetTop, WithPc, Top, Depth
<1>7. StdPart(Top.std, c)
  BY <1>4, <1>5 DEF ProcGood
<1>8. /\ q \in Processes /\ q.sink = Top.sink
      /\ q.call \in Calling /\ q.call.pc = "done" /\ q.call.req = c.req /\ q.call.at = c.at /\ q.call.opened = c.opened
      /\ q.call.got = c.got /\ q.call.log = c.log
  BY <1>3, <1>4, <1>5, WithPcFacts
<1> HIDE DEF q
<1>9. ExactAt(tab, tab', Below(procs, Len(procs))) /\ c.at.open = Below(procs, Len(procs))
  BY <1>1, <1>2, <1>3, <1>4, <1>5, CloseExact
<1>10. CallCap(c, Len(procs), tab, content)
  BY <1>1, <1>2, <1>4, <1>5, TopCap
<1>11. q.call.pc \in {"close", "done"} /\ (q.call.pc = "close" => tab' = tab) /\ ExactAt(tab, tab', c.at.open)
  BY <1>8, <1>9
<1>12. CallCap(q.call, Len(procs), tab', content)
  BY <1>2, <1>5, <1>7, <1>8, <1>10, <1>11, CloseMoves
<1>13. OwnStd(q) = OwnStd(procs[Len(procs)]) /\ q.sink = procs[Len(procs)].sink
  <2>1. q.call # NoCall
    BY <1>8, CallParts
  <2> QED
    BY <1>4, <1>5, <1>8, <2>1 DEF OwnStd
<1>14. \A f \in Files : content[f] = content[f] \/ content[f].by = Len(procs)
  OBVIOUS
<1>15. Cap(SetTop(procs, q), tab', content)
  BY <1>1, <1>2, <1>8, <1>9, <1>12, <1>13, <1>14, CapTop
<1> QED
  BY <1>2, <1>6, <1>15

\* After a call a caller has its standard descriptors back, if a rysh is only
\* where nobody captures it.
LEMMA OwnStdBack ==
  ASSUME Shells \subseteq {1}, NEW ch, NEW t, NEW D, Good(ch, t, D), ch # <<>>, ch[Len(ch)].call \in Calling,
         ch[Len(ch)].call.pc \in {"read", "close", "done", "failed"}
  PROVE  ch[Len(ch)].std = ch[Len(ch)].call.at.std
<1> DEFINE p == ch[Len(ch)]
           c == p.call
           a == c.at.std
           b == p.std
<1>1. Len(ch) \in 1 .. Len(ch)
  BY GoodParts
<1>2. p \in Processes /\ ProcGood(p, D) /\ c # NoCall /\ (IsBuiltin(c.req) => Len(ch) \in Shells)
  BY <1>1, GoodParts, CallParts
<1>3. StdPart(b, c)
  BY <1>2 DEF ProcGood
<1>4. b \in Stds /\ a \in Stds
  BY <1>2, ProcParts, CallParts
<1>5. c.pc \notin Early /\ ~Standing(c)
  BY DEF Standing, Early
<1>6. ASSUME NEW s \in Std PROVE b[s] = a[s]
  <2>1. b[s] = a[s] \/ (IsBuiltin(c.req) /\ b[s] = s)
    BY <1>3, <1>5 DEF StdPart
  <2>2. CASE IsBuiltin(c.req)
    <3>1. p = ch[1] /\ OwnStd(p) = a
      BY <1>2, <2>2 DEF OwnStd
    <3>2. OwnStd(ch[1])[s] = s
      BY FirstAtConsole
    <3> QED
      BY <2>1, <3>1, <3>2
  <2> QED
    BY <2>1, <2>2
<1> HIDE DEF a, b
<1>7. b = a
  BY <1>4, <1>6 DEF Stds
<1> QED
  BY <1>7 DEF a, b

LEMMA ReturnsCap ==
  ASSUME Shells \subseteq {1}, Good(procs, tab, dirs), Cap(procs, tab, content), NEW pc \in {"failed", "done"}, InCall(pc)
  PROVE  Cap(SetTop(procs, Back(Top)), tab, content)
<1> DEFINE p == Back(Top)
<1>1. pc \in Pcs /\ pc \in {"read", "close", "done", "failed"}
  BY DEF Pcs
<1>2. procs # <<>> /\ Top.call \in Calling /\ Top.call # NoCall
  BY <1>1, InCallFacts
<1>3. Top \in Processes /\ Top = procs[Len(procs)]
  BY <1>2, TopFacts
<1>4. p \in Processes /\ p.call = NoCall /\ p.std = Top.std /\ p.sink = Top.sink
  BY <1>3 DEF Back, Processes
<1>5. Top.std = Top.call.at.std
  <2>1. Top.call.pc \in {"read", "close", "done", "failed"}
    BY DEF InCall
  <2> QED
    BY <1>2, <1>3, <2>1, OwnStdBack
<1> HIDE DEF p
<1>6. OwnStd(p) = OwnStd(procs[Len(procs)]) /\ p.sink = procs[Len(procs)].sink
  BY <1>2, <1>3, <1>4, <1>5 DEF OwnStd
<1>7. Cap(SetTop(procs, p), tab, content)
  BY <1>2, <1>4, <1>6, TopCapSame
<1> QED
  BY <1>7 DEF p

LEMMA ReturnCap ==
  ASSUME Shells \subseteq {1}, CapInv, Return
  PROVE  Cap(procs', tab', content')
<1>1. Good(procs, tab, dirs) /\ Cap(procs, tab, content)
  BY CapInvParts
<1>2. /\ InCall("failed") \/ InCall("done")
      /\ UNCHANGED <<tab, content>> /\ procs' = [procs EXCEPT ![Depth].call = NoCall]
  BY DEF Return, Keep
<1>3. procs' = SetTop(procs, Back(Top))
  BY <1>2 DEF SetTop, Back, Top, Depth
<1>4. Cap(SetTop(procs, Back(Top)), tab, content)
  BY <1>1, <1>2, ReturnsCap
<1> QED
  BY <1>2, <1>3, <1>4

LEMMA ReturnEchoCap ==
  ASSUME Shells \subseteq {1}, CapInv, ReturnEcho
  PROVE  Cap(procs', tab', content')
<1> DEFINE v == SetTop(procs, Back(Top))
           data == Top.call.got[STDOUT]
<1>1. Good(procs, tab, dirs) /\ Cap(procs, tab, content) /\ content \in Contents
  BY CapInvParts
<1>2. InCall("done") /\ Say([procs EXCEPT ![Depth].call = NoCall], STDOUT, data)
  BY DEF ReturnEcho
<1>3. Say(v, STDOUT, data)
  BY <1>2 DEF SetTop, Back, Top, Depth
<1>4. Good(v, tab, dirs) /\ v # <<>> /\ Cap(v, tab, content)
  BY <1>1, <1>2, ReturnFacts, ReturnsCap
<1>5. "done" \in Pcs
  BY DEF Pcs
<1>6. procs # <<>> /\ Top.call \in Calling
  BY <1>1, <1>2, <1>5, InCallFacts
<1>7. data \in Seq(Bytes)
  <2>1. Top.call.got \in [Std -> Seq(Bytes)] /\ STDOUT \in Std
    BY <1>6, CallParts DEF Std, STDOUT
  <2> QED
    BY <2>1
<1>8. Top \in Processes /\ procs \in Seq(Processes) /\ Back(Top) \in Processes /\ Back(Top).call = NoCall
  BY <1>1, <1>6, TopFacts DEF Back, Processes
<1>9. Len(v) = Len(procs) /\ v[Len(procs)] = Back(Top)
  BY <1>6, <1>8, SetTopFacts
<1>10. v[Len(v)].call = NoCall
  BY <1>8, <1>9
<1> HIDE DEF v, data
<1> DEFINE a == abi_write_fd(tab, content, v[Len(v)].std[STDOUT], data)
<1>11. Cap(Written(v, STDOUT, data), a.tab, a.content)
  BY <1>1, <1>4, <1>7, <1>10, WriteCap
<1>12. procs' = Written(v, STDOUT, data) /\ tab' = a.tab /\ content' = a.content
  BY <1>3 DEF Say, Last
<1> QED
  BY <1>11, <1>12

LEMMA EchoCapturedCap ==
  ASSUME Shells \subseteq {1}, CapInv, EchoCaptured
  PROVE  Cap(procs', tab', content')
<1> DEFINE c == Top.call
           q == WithPc(Top, "close")
           v == SetTop(procs, q)
           data == c.got[STDOUT] \o c.got[STDERR]
<1>1. Good(procs, tab, dirs) /\ Cap(procs, tab, content) /\ GoodTab(tab)
  BY CapInvParts, GoodParts
<1>2. /\ InCall("read") /\ c.unread = <<>> /\ IsBuiltin(c.req)
      /\ Say([procs EXCEPT ![Depth].call.pc = "close"], STDOUT, data)
  BY DEF EchoCaptured
<1>3. "read" \in Pcs /\ "close" \in Pcs
  BY DEF Pcs
<1>4. procs # <<>> /\ c \in Calling /\ c # NoCall /\ c.pc = "read" /\ StdPart(Top.std, c) /\ Depth \in Shells
  BY <1>1, <1>2, <1>3, InCallFacts
<1>5. Top \in Processes /\ Top = procs[Len(procs)] /\ Depth = Len(procs) /\ procs \in Seq(Processes)
  BY <1>1, <1>4, TopFacts
<1>6. Len(procs) = 1
  BY <1>4, <1>5
<1>7. [procs EXCEPT ![Depth].call.pc = "close"] = SetTop(procs, q)
  BY DEF SetTop, WithPc, Top, Depth
<1>8. /\ q \in Processes /\ q.sink = Top.sink /\ q.std = Top.std
      /\ q.call \in Calling /\ q.call.pc = "close" /\ q.call.req = c.req /\ q.call.at = c.at /\ q.call.opened = c.opened
      /\ q.call.got = c.got /\ q.call.log = c.log
  BY <1>3, <1>4, <1>5, WithPcFacts
<1> HIDE DEF q, data
<1>9. Len(v) = Len(procs) /\ v[Len(procs)] = q
  BY <1>4, <1>5, <1>8, SetTopFacts
<1>10. STDOUT \in Std /\ STDOUT = 1
  BY DEF Std, STDOUT
<1>11. q.std[STDOUT] = STDOUT
  <2>3. c.pc \in {"read", "close", "done", "failed"}
    BY <1>4
  <2>1. Top.std = c.at.std
    BY <1>1, <1>4, <1>5, <2>3, OwnStdBack
  <2>2. OwnStd(procs[1])[STDOUT] = STDOUT
    BY <1>1, <1>4, <1>10, FirstAtConsole
  <2> QED
    BY <1>4, <1>5, <1>6, <1>8, <2>1, <2>2 DEF OwnStd
<1>12. q.sink[STDOUT] = 0
  <2>1. Len(procs) \in 1 .. Len(procs)
    BY <1>6
  <2>2. procs[Len(procs)].sink[STDOUT] < Len(procs)
    BY <1>1, <1>10, <2>1, GoodParts
  <2>3. Top.sink \in [Std -> Nat]
    BY <1>5 DEF Processes
  <2>4. Top.sink[STDOUT] \in Nat /\ Top.sink[STDOUT] < 1
    BY <1>5, <1>6, <1>10, <2>2, <2>3
  <2> QED
    BY <1>8, <2>4
<1> HIDE DEF v
<1>13. Written(v, STDOUT, data) = v
  <2>1. v[Len(v)].sink[STDOUT] = 0
    BY <1>9, <1>12
  <2> QED
    BY <2>1, WrittenIs
<1>14. Last(v).std[STDOUT] \in Std
  BY <1>9, <1>10, <1>11 DEF Last
<1>15. procs' = v /\ tab' = tab /\ content' = content
  <2>1. Say(v, STDOUT, data)
    BY <1>2, <1>7 DEF v
  <2> DEFINE fd == Last(v).std[STDOUT]
  <2>2. abi_write_fd(tab, content, fd, data).tab = tab /\ abi_write_fd(tab, content, fd, data).content = content
    BY <1>1, <1>14, WriteNowhere
  <2> QED
    BY <1>13, <2>1, <2>2 DEF Say
<1>16. CallCap(c, Len(procs), tab, content)
  BY <1>1, <1>4, <1>5, TopCap
<1>17. CallCap(q.call, Len(procs), tab, content)
  <2>1. c.at.open \subseteq TableFds
    BY <1>4, CallParts
  <2>2. ExactAt(tab, tab, c.at.open)
    BY <2>1 DEF ExactAt
  <2>3. c.pc \in {"read", "close"} /\ q.call.pc \in {"close", "done"}
    BY <1>4, <1>8
  <2> QED
    BY <1>2, <1>4, <1>8, <1>16, <2>2, <2>3, CloseMoves
<1>18. OwnStd(q) = OwnStd(procs[Len(procs)]) /\ q.sink = procs[Len(procs)].sink
  <2>1. q.call # NoCall
    BY <1>8, CallParts
  <2> QED
    BY <1>4, <1>5, <1>8, <2>1 DEF OwnStd
<1>19. Cap(SetTop(procs, q), tab, content)
  BY <1>1, <1>4, <1>8, <1>17, <1>18, TopCapSame
<1> QED
  BY <1>15, <1>19 DEF v

-----------------------------------------------------------------------------
(* The invariant, and the theorem.                                         *)

LEMMA CapInit ==
  ASSUME Init
  PROVE  Cap(procs, tab, content)
<1>1. procs = <<>>
  BY DEF Init
<1>2. Len(procs) = 0 /\ 1 .. 0 = {}
  BY <1>1
<1> QED
  BY <1>2 DEF Cap

LEMMA CapNext ==
  ASSUME Shells \subseteq {1}, CapInv, [Next]_vars
  PROVE  Cap(procs', tab', content')
<1>1. CASE RunProgram
  BY <1>1, RunProgramCap
<1>2. CASE Own
  <2>1. ASSUME NEW s \in {STDOUT, STDERR}, NEW n \in WriteSizes, WriteStd(s, n) PROVE Cap(procs', tab', content')
    BY <2>1, WriteStdCap
  <2>2. ASSUME NEW n \in WriteSizes, ReadStdin(n) PROVE Cap(procs', tab', content')
    BY <2>2, ReadStdinCap
  <2>3. ASSUME NEW dir \in Dirs \cup {Root}, ChangeDir(dir) PROVE Cap(procs', tab', content')
    BY <2>3, ChangeDirCap
  <2>4. ASSUME NEW v \in Settings, SetEnv(v.key, v.value) PROVE Cap(procs', tab', content')
    BY <2>4, SetEnvCap
  <2>5. ASSUME NEW dir \in Dirs, Unlink(dir) \/ Mkdir(dir) PROVE Cap(procs', tab', content')
    BY <2>5, UnlinkCap
  <2>6. ASSUME NEW req \in Requests, Begin(req) PROVE Cap(procs', tab', content')
    BY <2>6, BeginCap
  <2>7. CASE Exit
    BY <2>7, ExitCap
  <2> QED
    BY <1>2, <2>1, <2>2, <2>3, <2>4, <2>5, <2>6, <2>7 DEF Own
<1>3. CASE Calls
  <2>1. CASE ApplyOverride \/ OverrideFails \/ OverridesDone
    BY <2>1, ApplyOverrideCap, OverrideFailsCap, OverridesDoneCap
  <2>2. CASE OpenPipe \/ OpenFile \/ OpenFails
    BY <2>2, OpenPipeCap, OpenFileCap, OpenFailsCap
  <2>3. CASE Spawn \/ SpawnFails
    BY <2>3, SpawnCap, SpawnFailsCap
  <2>4. CASE Collect \/ WaitFails
    BY <2>4, CollectCap, WaitFailsCap
  <2>5. CASE ReadChunk \/ EchoCaptured \/ CloseAll
    BY <2>5, ReadChunkCap, EchoCapturedCap, CloseAllCap
  <2>6. CASE Return \/ ReturnEcho
    BY <2>6, ReturnCap, ReturnEchoCap
  <2> QED
    BY <1>3, <2>1, <2>2, <2>3, <2>4, <2>5, <2>6 DEF Calls
<1>4. CASE UNCHANGED vars
  <2>1. procs' = procs /\ tab' = tab /\ content' = content
    BY <1>4 DEF vars
  <2> QED
    BY <2>1, CapInvParts
<1> QED
  BY <1>1, <1>2, <1>3, <1>4 DEF Next

LEMMA CapComplete ==
  ASSUME CapInv
  PROVE  CaptureComplete
<1>1. Good(procs, tab, dirs) /\ Cap(procs, tab, content)
  BY CapInvParts
<1> SUFFICES ASSUME NEW d \in DOMAIN procs, procs[d].call # NoCall
             PROVE  LET c == procs[d].call
                    IN  /\ IsPrefix(c.log[STDIN], Take(c.req.stdin, APP_PIPE_BUFFER_SIZE))
                        /\ c.pc = "done" =>
                             /\ \A s \in ToSet(Captured(c.req)) : c.got[s] = Take(c.log[s], RoomFor(c.req))
                             /\ \A r \in ToSet(Redirects(c.req)) :
                                  r.file # None /\ content[r.file].by = d /\ Alone(c, r) =>
                                    content[r.file].data = c.log[r.stream]
  BY DEF CaptureComplete, RoomFor
<1> DEFINE c == procs[d].call
<1>2. d \in 1 .. Len(procs)
  BY <1>1, GoodParts
<1>3. CallCap(c, d, tab, content)
  BY <1>1, <1>2 DEF Cap
<1>4. c \in Calling
  BY <1>1, <1>2, GoodParts, ProcParts
<1>5. Redirects(c.req) \in Seq(Redirections)
  BY <1>4, CallParts, RedirectsFacts
<1>6. IsPrefix(c.log[STDIN], Take(c.req.stdin, APP_PIPE_BUFFER_SIZE))
  BY <1>3 DEF CallCap, Logs
<1>7. ASSUME c.pc = "done", NEW s \in ToSet(Captured(c.req)) PROVE c.got[s] = Take(c.log[s], RoomFor(c.req))
  BY <1>3, <1>7 DEF CallCap, Gets
<1>8. ASSUME c.pc = "done", NEW r \in ToSet(Redirects(c.req)), r.file # None, content[r.file].by = d, Alone(c, r)
      PROVE  content[r.file].data = c.log[r.stream]
  <2>1. /\ ToSet(Redirects(c.req)) = {Redirects(c.req)[i] : i \in 1 .. Len(Redirects(c.req))}
    BY <1>5 DEF ToSet
  <2>2. PICK i \in 1 .. Len(Redirects(c.req)) : r = Redirects(c.req)[i]
    BY <1>8, <2>1
  <2>3. AloneIn(tab, c, r)
    <3>1. \A q \in ToSet(Redirects(c.req)) : q.file = r.file => q = r
      BY <1>8 DEF Alone
    <3>2. \A j \in 1 .. Len(Redirects(c.req)) : Redirects(c.req)[j].file = r.file => Redirects(c.req)[j] = r
      BY <2>1, <3>1
    <3>3. \A fd \in c.at.open : tab.fds[fd].kind = "Pfs" => tab.fds[fd].file # r.file
      BY <1>8 DEF Alone
    <3> QED
      BY <3>2, <3>3 DEF AloneIn
  <2>4. Ours(c, r, d, tab, content)
    BY <1>8, <2>3 DEF Ours
  <2> QED
    BY <1>3, <1>8, <2>2, <2>4 DEF CallCap, Chans
<1> HIDE DEF c
<1>9. /\ IsPrefix(c.log[STDIN], Take(c.req.stdin, APP_PIPE_BUFFER_SIZE))
      /\ c.pc = "done" =>
           /\ \A s \in ToSet(Captured(c.req)) : c.got[s] = Take(c.log[s], RoomFor(c.req))
           /\ \A r \in ToSet(Redirects(c.req)) :
                r.file # None /\ content[r.file].by = d /\ Alone(c, r) => content[r.file].data = c.log[r.stream]
  BY <1>6, <1>7, <1>8
<1> QED
  BY <1>9 DEF c

\* What run_command_output, run_command_status and the spawn builtins hand back
\* is exactly what the child and all its descendants wrote to that stream, in
\* order, complete up to the size of the pipe (for a builtin, of its one read);
\* a file redirected to holds all of it if nothing else writes there; and what
\* the children take from a stdin pipe is a prefix of what the caller put in.
\* This is for every nesting of calls, every request and every size of table,
\* pipe and buffer.  A captured rysh sends what follows its first builtin to the
\* console, so the theorem is for a rysh only where the console started it.
THEOREM CapturesComplete ==
  ASSUME Shells \subseteq {1}
  PROVE  Spec => []CaptureComplete
<1>1. Init => CapInv
  BY InvInit, CapInit DEF CapInv
<1>2. CapInv /\ [Next]_vars => CapInv'
  <2> SUFFICES ASSUME CapInv, [Next]_vars PROVE CapInv'
    OBVIOUS
  <2>1. Cap(procs', tab', content')
    BY CapNext
  <2>2. Inv'
    BY CapInvParts, InvNext
  <2> QED
    BY <2>1, <2>2 DEF CapInv
<1>3. CapInv => CaptureComplete
  BY CapComplete
<1> QED
  BY <1>1, <1>2, <1>3, PTL DEF Spec
=============================================================================
