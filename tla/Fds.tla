--------------------------------- MODULE Fds ---------------------------------
(***************************************************************************)
(* The descriptor table APP_FDS and the pipe table APP_PIPES: one of each  *)
(* for the whole machine, of fixed size, shared by all processes.  The     *)
(* standard descriptors 0..2 are no table entries; each process maps them  *)
(* (std_fds) to the console, written as the number itself, or to a table   *)
(* descriptor.                                                             *)
(*                                                                         *)
(* The operators are the ABI calls on descriptors as functions on the pair *)
(* of tables t = [fds, pipes]; a call gives its result and the new tables. *)
(* What a file holds is Pfs.tla's subject: here a file is a sequence of    *)
(* bytes and writing to it always succeeds.                                *)
(***************************************************************************)
EXTENDS Integers, Sequences, FiniteSets, FiniteSetsExt, SequencesExt

CONSTANTS
    APP_FD_COUNT,            \* descriptors
    APP_PIPE_COUNT,          \* pipes
    APP_PIPE_BUFFER_SIZE,    \* bytes a pipe buffers
    Files                    \* RYMFS files a program names

ASSUME FdsAssumption ==
    /\ APP_FD_COUNT \in Nat \ {0}
    /\ APP_PIPE_COUNT \in Nat \ {0}
    /\ APP_PIPE_BUFFER_SIZE \in Nat \ {0}

STDIN  == 0
STDOUT == 1
STDERR == 2
Std    == 0 .. 2

APP_FD_BASE == 3
TableFds    == APP_FD_BASE .. APP_FD_BASE + APP_FD_COUNT - 1
PipeIds     == 0 .. APP_PIPE_COUNT - 1

\* AppFd.  A pipe end names its pipe, a file handle its file and offset.
Closed      == [kind |-> "Empty"]
PipeRead(p)  == [kind |-> "PipeRead", pipe |-> p]
PipeWrite(p) == [kind |-> "PipeWrite", pipe |-> p]
Pfs(f, n)    == [kind |-> "Pfs", file |-> f, offset |-> n]

\* AppPipe: the bytes written since the pipe was last empty, of which the first
\* read_offset are read.
EmptyPipe == [used |-> FALSE, read_open |-> FALSE, write_open |-> FALSE,
              buffer |-> <<>>, read_offset |-> 0]

\* app_close_all_fds; also the state at boot.
app_close_all_fds == [fds   |-> [fd \in TableFds |-> Closed],
                      pipes |-> [p \in PipeIds |-> EmptyPipe]]

Open(t)      == {fd \in TableFds : t.fds[fd] # Closed}
FreeFds(t)   == TableFds \ Open(t)
FreePipes(t) == {p \in PipeIds : ~t.pipes[p].used}

app_fd_open(t, fd) == fd \in Std \cup Open(t)

\* abi_pipe: the first free pipe and the first two free descriptors, or
\* ERR_NOSPC with nothing taken.
CanPipe(t) == FreePipes(t) # {} /\ Cardinality(FreeFds(t)) >= 2

abi_pipe(t) ==
    LET p == Min(FreePipes(t))
        r == Min(FreeFds(t))
        w == Min(FreeFds(t) \ {r})
    IN  [read  |-> r,
         write |-> w,
         tab   |-> [fds   |-> [t.fds EXCEPT ![r] = PipeRead(p), ![w] = PipeWrite(p)],
                    pipes |-> [t.pipes EXCEPT ![p] = [EmptyPipe EXCEPT !.used = TRUE,
                                                                       !.read_open = TRUE,
                                                                       !.write_open = TRUE]]]]

\* The last part of abi_open_pfs: the first free descriptor for an opened file.
CanOpen(t) == FreeFds(t) # {}

abi_open(t, f) ==
    LET fd == Min(FreeFds(t))
    IN  [fd |-> fd, tab |-> [t EXCEPT !.fds[fd] = Pfs(f, 0)]]

\* Mutant: a pipe is never given back.
MutantClosePipeEnd(pipe, end) == [pipe EXCEPT ![end] = FALSE]

\* abi_close of a table descriptor.  A pipe is given back with its second end.
ClosePipeEnd(pipe, end) ==
    LET half == [pipe EXCEPT ![end] = FALSE]
    IN  IF half.read_open \/ half.write_open THEN half ELSE EmptyPipe

abi_close(t, fd) ==
    LET h == t.fds[fd]
        closed == [t EXCEPT !.fds[fd] = Closed]
    IN  CASE h.kind = "PipeRead"  -> [closed EXCEPT !.pipes[h.pipe] = ClosePipeEnd(@, "read_open")]
          [] h.kind = "PipeWrite" -> [closed EXCEPT !.pipes[h.pipe] = ClosePipeEnd(@, "write_open")]
          [] OTHER                -> closed

\* close_many and close4 of the runtime and rysh: for every stream a call gave
\* its child, the caller's end and the child's.  A file is one descriptor, and
\* dropping its File closes it.
CloseBoth(t, o) ==
    IF o.own = o.child THEN abi_close(t, o.own) ELSE abi_close(abi_close(t, o.own), o.child)

close_many(t, opened) ==
    LET closed[i \in 0 .. Len(opened)] ==
          IF i = 0 THEN t ELSE CloseBoth(closed[i - 1], opened[i])
    IN  closed[Len(opened)]

\* abi_read on a pipe: -1, or up to n of the bytes not read yet.  An empty pipe
\* gives no bytes whether or not a writer is left.  The space is reused only
\* when everything has been read.
abi_read(t, fd, n) ==
    LET h    == IF fd \in TableFds THEN t.fds[fd] ELSE Closed
        pipe == IF h.kind = "PipeRead" THEN t.pipes[h.pipe] ELSE EmptyPipe
        ok   == pipe.used /\ pipe.read_open
        left == Len(pipe.buffer) - pipe.read_offset
        end  == pipe.read_offset + Min({n, left})
        data == SubSeq(pipe.buffer, pipe.read_offset + 1, end)
    IN  IF ~ok THEN [count |-> -1, data |-> <<>>, tab |-> t]
        ELSE [count |-> Len(data),
              data  |-> data,
              tab   |-> [t EXCEPT !.pipes[h.pipe] =
                           IF data # <<>> /\ end = Len(pipe.buffer)
                             THEN [pipe EXCEPT !.buffer = <<>>, !.read_offset = 0]
                             ELSE [pipe EXCEPT !.read_offset = end]]]

\* abi_write_fd on a resolved descriptor: the console takes everything, a pipe
\* what fits behind the bytes it holds, a file everything at the offset.
\* A gap before the offset reads as zero.
Zero == <<0, 0>>
WriteAt(old, at, data) ==
    [i \in 1 .. Max({Len(old), at + Len(data)}) |->
       IF i \in at + 1 .. at + Len(data) THEN data[i - at]
       ELSE IF i <= Len(old) THEN old[i] ELSE Zero]

\* The space behind the bytes written, read or not.
\* Mutant: the bytes a pipe holds are not counted.
MutantRoom(pipe) == APP_PIPE_BUFFER_SIZE
Room(pipe) == APP_PIPE_BUFFER_SIZE - Len(pipe.buffer)

abi_write_fd(t, content, fd, data) ==
    LET h    == IF fd \in TableFds THEN t.fds[fd] ELSE Closed
        pipe == IF h.kind = "PipeWrite" THEN t.pipes[h.pipe] ELSE EmptyPipe
        fits == Min({Len(data), Room(pipe)})
        none == [count |-> -1, tab |-> t, content |-> content]
    IN  CASE fd \in {STDOUT, STDERR} -> [none EXCEPT !.count = Len(data)]
          [] h.kind = "PipeWrite" /\ pipe.used /\ pipe.write_open /\ pipe.read_open
                                  /\ (fits > 0 \/ data = <<>>) ->
               [none EXCEPT !.count = fits,
                            !.tab.pipes[h.pipe].buffer = @ \o SubSeq(data, 1, fits)]
          [] h.kind = "Pfs" ->
               [count   |-> Len(data),
                tab     |-> [t EXCEPT !.fds[fd].offset = @ + Len(data)],
                content |-> [content EXCEPT ![h.file].data = WriteAt(@, h.offset, data)]]
          [] OTHER -> none

\* abi_dup2 on the mapping of one process: the same number twice means the
\* console, another number must be open, and is not itself resolved.
abi_dup2(t, std, old, new) ==
    IF old = new \/ app_fd_open(t, old) THEN [std EXCEPT ![new] = old] ELSE std

\* The child's end of every stream opened for it, put in place of the stream.
dup2_all(t, std, opened) ==
    LET dup[i \in 0 .. Len(opened)] ==
          IF i = 0 THEN std ELSE abi_dup2(t, dup[i - 1], opened[i].child, opened[i].stream)
    IN  dup[Len(opened)]

Console == [s \in Std |-> s]

-----------------------------------------------------------------------------
\* The two tables agree: an end of a pipe is open exactly when one descriptor
\* stands for it, and a pipe is in use exactly when an end is open.
EndsMatch(t) ==
    \A p \in PipeIds :
      LET pipe == t.pipes[p]
          Ends(k) == Cardinality({fd \in Open(t) : t.fds[fd].kind = k /\ t.fds[fd].pipe = p})
      IN  /\ Ends("PipeRead")  = (IF pipe.read_open THEN 1 ELSE 0)
          /\ Ends("PipeWrite") = (IF pipe.write_open THEN 1 ELSE 0)
          /\ pipe.used <=> (pipe.read_open \/ pipe.write_open)
==============================================================================
