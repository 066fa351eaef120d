------------------------------- MODULE Command -------------------------------
(***************************************************************************)
(* Running a program from a program: Command::output and Command::status   *)
(* of the runtime, and rysh's spawnredir, spawnstdin, spawnio and spawnioe.*)
(* The ABI has no spawn attributes, so each of them changes the caller's   *)
(* own context (cwd, environment, standard descriptors), lets the child    *)
(* inherit it at spawn, waits, and then has to put everything back.        *)
(*                                                                         *)
(* procs is the chain of processes that wait for one another: procs[1] was *)
(* started by the console's `run', procs[d + 1] by the call procs[d] is    *)
(* in, and only the last one computes.  Nobody else is runnable, so a call *)
(* into the kernel is one step; background processes are left out.         *)
(***************************************************************************)
EXTENDS Env, Fds

CONSTANTS
    MaxDepth,       \* processes the table holds
    Budget,         \* operations the programs of one `run' perform together
    Dirs,           \* RYMFS directories
    Requests,       \* what a program may ask of Command or of a rysh builtin
    Shells,         \* depths at which the program is rysh
    Settings,       \* the variables programs set or remove themselves: [key, value]
    WriteSizes,     \* sizes of a program's writes
    CHUNK,          \* buffer of read_all_available
    RYSH_CHUNK      \* buffer of the builtins' single read

Root   == "/"
None   == "none"
NoCall == [pc |-> "none"]

VARIABLES
    procs,     \* the chain of processes; fresh is a history flag: the process has
               \* changed nothing of its context, and the directories are the same
    tab,       \* APP_FDS and APP_PIPES
    content,   \* what the files hold that this `run' created, and by which depth
    dirs,      \* the directories that exist
    budget

vars == <<procs, tab, content, dirs, budget>>

Depth == Len(procs)
Top   == procs[Depth]

\* The state of a call under way.  log is a history of what the child and its
\* descendants wrote to (1, 2) or took from (0) the streams this call gave
\* them; at is the caller's context when it made the call.
Call(p, req) ==
    [req |-> req, pc |-> "chdir", saved |-> p.std, savedCwd |-> p.cwd, restores |-> <<>>,
     opened |-> <<>>, unread |-> <<>>, got |-> [s \in Std |-> <<>>],
     log |-> [s \in Std |-> <<>>],
     at |-> [std |-> p.std, cwd |-> p.cwd, open |-> Open(tab),
             vars |-> [k \in Keys |-> env_lookup(p.env, k)]]]

\* The six callers, by the streams they give the child through a pipe, in the
\* order they set them up, and the ones they read afterwards.  Command::status
\* makes a pipe only for input there is, and takes files for the output.
run_command_output == [pipes |-> <<STDIN, STDOUT, STDERR>>, reads |-> <<STDOUT, STDERR>>]
run_command_status == [pipes |-> <<STDIN>>, reads |-> <<>>]
spawn_redir        == [pipes |-> <<STDOUT>>, reads |-> <<STDOUT>>]
spawn_stdin        == [pipes |-> <<STDIN>>, reads |-> <<>>]
spawn_io           == [pipes |-> <<STDIN, STDOUT>>, reads |-> <<STDOUT>>]
spawn_io_err       == [pipes |-> <<STDIN, STDOUT, STDERR>>, reads |-> <<STDOUT, STDERR>>]

Apis == [output     |-> run_command_output, status    |-> run_command_status,
         spawnredir |-> spawn_redir,        spawnstdin |-> spawn_stdin,
         spawnio    |-> spawn_io,           spawnioe  |-> spawn_io_err]

Builtins == {"spawnredir", "spawnstdin", "spawnio", "spawnioe"}

\* Command::new; the builder methods fill in the fields.
NewCommand(api) ==
    [api |-> api, stdin |-> <<>>, cwd |-> None, env |-> <<>>, out |-> None, err |-> None]

IsBuiltin(req) == req.api \in Builtins
Captured(req)  == Apis[req.api].reads

\* What a request redirects: through a pipe (file = None) or into a file.
Redirects(req) ==
    LET Pipe(s)  == [stream |-> s, file |-> None]
        To(s, f) == IF f = None THEN <<>> ELSE <<[stream |-> s, file |-> f]>>
        pipes    == Apis[req.api].pipes
    IN  (IF req.api = "status" /\ req.stdin = <<>> THEN <<>>
                                                  ELSE [i \in DOMAIN pipes |-> Pipe(pipes[i])])
        \o To(STDOUT, req.out) \o To(STDERR, req.err)

\* Only Command takes a cwd and overrides, and only Command::status files.
\* A byte is named after the operation that writes it.
Bytes     == Nat \X Nat
Overrides == [key : Keys, value : Values \cup {Absent}]

ASSUME CommandAssumption ==
    /\ MaxDepth \in Nat \ {0} /\ Budget \in Nat
    /\ CHUNK \in Nat \ {0} /\ RYSH_CHUNK \in Nat \ {0}
    /\ WriteSizes \subseteq Nat \ {0}
    /\ None \notin Dirs \cup Files
    /\ Settings \subseteq Overrides
    /\ Requests \subseteq [api : DOMAIN Apis, stdin : Seq(Bytes), cwd : Dirs \cup {Root, None},
                           env : Seq(Overrides), out : Files \cup {None}, err : Files \cup {None}]
    /\ \A req \in Requests :
         /\ IsBuiltin(req) => req.cwd = None /\ req.env = <<>>
         /\ req.api # "status" => req.out = None /\ req.err = None

-----------------------------------------------------------------------------
(* Putting the caller's context back.                                      *)

chdir(p, dir) == IF dir = Root \/ dir \in dirs THEN [p EXCEPT !.cwd = dir] ELSE p

\* One round of restore_env; what cannot be set is left.
Undo(env, r) == IF CanSet(env, r.key) THEN env_set_overlay(env, r.key, r.value) ELSE env

\* Mutant: the overrides undone in the order they were made.
MutantRestoreEnv(env, restores) ==
    LET undone[i \in 0 .. Len(restores)] ==
          IF i = 0 THEN env ELSE Undo(undone[i - 1], restores[i])
    IN  undone[Len(restores)]

\* restore_env: the overrides undone in reverse order.
restore_env(env, restores) ==
    LET n == Len(restores)
        undone[i \in 0 .. n] ==
          IF i = 0 THEN env ELSE Undo(undone[i - 1], restores[n + 1 - i])
    IN  undone[n]

\* restore_cwd and restore_command_context.
restore_cwd(p, c) == IF c.req.cwd = None THEN p ELSE chdir(p, c.savedCwd)
restore_command_context(p, c) ==
    restore_cwd([p EXCEPT !.env = restore_env(@, c.restores)], c)

\* Mutant: the runtime before save_stdio, back to the console.
MutantRestoreStdio(std, saved) == Console

\* restore_stdio of the runtime: back to what save_stdio found.
restore_stdio(std, saved) ==
    LET in  == abi_dup2(tab, std, saved[STDIN], STDIN)
        out == abi_dup2(tab, in, saved[STDOUT], STDOUT)
    IN  abi_dup2(tab, out, saved[STDERR], STDERR)

\* The dup2(n, n) calls of the builtins: the console, for what was redirected.
Streams(redirects)    == {redirects[i].stream : i \in DOMAIN redirects}
reset_stdio(std, req) == [s \in Std |-> IF s \in Streams(Redirects(req)) THEN s ELSE std[s]]

RestoredStd(p, c) ==
    IF IsBuiltin(c.req) THEN reset_stdio(p.std, c.req) ELSE restore_stdio(p.std, c.saved)

Restored(p, c) == restore_command_context([p EXCEPT !.std = RestoredStd(p, c)], c)

\* Mutant: an error return that forgets the pipes opened so far.
MutantUnwind(p, c) ==
    /\ procs' = [procs EXCEPT ![Depth] =
                   [IF IsBuiltin(c.req) THEN p ELSE Restored(p, c) EXCEPT !.call.pc = "failed"]]
    /\ tab' = tab

\* An error return: what was changed is put back and what was opened closed.
\* A builtin that cannot set up its pipes has not touched its stdio yet.
Unwind(p, c) ==
    /\ procs' = [procs EXCEPT ![Depth] =
                   [IF IsBuiltin(c.req) THEN p ELSE Restored(p, c) EXCEPT !.call.pc = "failed"]]
    /\ tab' = close_many(tab, c.opened)

\* Writing to a standard stream of the last process.  The history of the call
\* that is to receive the bytes is kept beside the descriptors.
Written(chain, s, data) ==
    LET to == Last(chain).sink[s]
    IN  IF to = 0 THEN chain ELSE [chain EXCEPT ![to].call.log[s] = @ \o data]

Say(chain, s, data) ==
    LET w == abi_write_fd(tab, content, Last(chain).std[s], data)
    IN  /\ procs' = Written(chain, s, data)
        /\ tab' = w.tab
        /\ content' = w.content

-----------------------------------------------------------------------------
(* The console and what a program does by itself.                          *)

NothingCreated == [f \in Files |-> [by |-> 0, data |-> <<>>]]

Idle == procs # <<>> /\ Top.call = NoCall
Spend == budget > 0 /\ budget' = budget - 1

\* run_program: the descriptor tables are emptied, and the process starts with
\* the console as stdio, in /, without overrides.
RunProgram ==
    /\ procs = <<>>
    /\ procs' = <<[std |-> Console, cwd |-> Root, env |-> NoOverrides, call |-> NoCall,
                   sink |-> [s \in Std |-> 0], fresh |-> TRUE]>>
    /\ tab' = app_close_all_fds
    /\ content' = NothingCreated
    /\ budget' = Budget
    /\ UNCHANGED dirs

\* A program returns.  Its descriptors stay as they are; the caller wakes.
Exit ==
    /\ Idle
    /\ procs' = IF Depth = 1 THEN <<>>
                ELSE [Front(procs) EXCEPT ![Depth - 1].call.pc = "reap"]
    /\ budget' = IF Depth = 1 THEN 0 ELSE budget
    /\ UNCHANGED <<tab, content, dirs>>

\* The bytes of a write are named after the operation that writes them.
Payload(n) == [i \in 1 .. n |-> <<budget, i>>]

\* rt::write, whose bytes go to the console when the stream refuses them, and
\* fd_write to stderr, which gives up.
WriteStd(s, n) ==
    /\ Idle /\ Spend
    /\ Say(procs, s, Payload(n))
    /\ UNCHANGED dirs

\* fd_read(STDIN, ..) from a redirected stdin.
ReadStdin(n) ==
    /\ Idle /\ Spend
    /\ Top.std[STDIN] # STDIN
    /\ LET r == abi_read(tab, Top.std[STDIN], n)
       IN  /\ procs' = Written(procs, STDIN, r.data)
           /\ tab' = r.tab
    /\ UNCHANGED <<content, dirs>>

\* chdir, and setenv or unsetenv, by the program itself.
ChangeDir(dir) ==
    /\ Idle /\ Spend
    /\ procs' = [procs EXCEPT ![Depth] = [chdir(@, dir) EXCEPT !.fresh = FALSE]]
    /\ UNCHANGED <<tab, content, dirs>>

SetEnv(key, value) ==
    /\ Idle /\ Spend
    /\ procs' = [procs EXCEPT ![Depth].env = IF CanSet(@, key) THEN env_set_overlay(@, key, value) ELSE @,
                              ![Depth].fresh = FALSE]
    /\ UNCHANGED <<tab, content, dirs>>

\* unlink removes an empty directory even when it is somebody's cwd; mkdir
\* makes it again.
Stale == [d \in DOMAIN procs |-> [procs[d] EXCEPT !.fresh = FALSE]]

Unlink(dir) ==
    /\ Idle /\ Spend /\ dir \in dirs
    /\ dirs' = dirs \ {dir}
    /\ procs' = Stale
    /\ UNCHANGED <<tab, content>>

Mkdir(dir) ==
    /\ Idle /\ Spend /\ dir \notin dirs
    /\ dirs' = dirs \cup {dir}
    /\ procs' = Stale
    /\ UNCHANGED <<tab, content>>

-----------------------------------------------------------------------------
(* A call of Command::output, Command::status or a builtin, step by step.  *)

InCall(pc) == procs # <<>> /\ Top.call.pc = pc
Keep       == UNCHANGED <<content, dirs, budget>>

\* The caller's stdio and cwd are saved and the request's cwd entered.
Begin(req) ==
    /\ Idle /\ Spend
    /\ IsBuiltin(req) => Depth \in Shells
    /\ LET p  == [Top EXCEPT !.call = Call(Top, req)]
           in == IF req.cwd = None THEN p ELSE chdir(p, req.cwd)
           ok == req.cwd \in {None, Root} \cup dirs
       IN  procs' = [procs EXCEPT ![Depth] = [in EXCEPT !.call.pc = IF ok THEN "env" ELSE "failed"]]
    /\ UNCHANGED <<tab, content, dirs>>

\* apply_env_overrides, one round of its loop at a time: the old value is
\* remembered and the override made, or the rounds before it are undone.
NextOverride == Top.call.req.env[Len(Top.call.restores) + 1]
MoreEnv      == Len(Top.call.restores) < Len(Top.call.req.env)

\* Mutant: a removal in the request is not applied.
MutantApplyOverride ==
    /\ InCall("env") /\ MoreEnv /\ CanSet(Top.env, NextOverride.key)
    /\ LET o == NextOverride
           r == [key |-> o.key, value |-> env_lookup(Top.env, o.key)]
       IN  procs' = [procs EXCEPT ![Depth].env = IF o.value = Absent THEN @ ELSE env_set_overlay(@, o.key, o.value),
                                  ![Depth].call.restores = Append(@, r)]
    /\ UNCHANGED tab /\ Keep

ApplyOverride ==
    /\ InCall("env") /\ MoreEnv /\ CanSet(Top.env, NextOverride.key)
    /\ LET o == NextOverride
           r == [key |-> o.key, value |-> env_lookup(Top.env, o.key)]
       IN  procs' = [procs EXCEPT ![Depth].env = env_set_overlay(@, o.key, o.value),
                                  ![Depth].call.restores = Append(@, r)]
    /\ UNCHANGED tab /\ Keep

OverrideFails ==
    /\ InCall("env") /\ MoreEnv /\ ~CanSet(Top.env, NextOverride.key)
    /\ Unwind(Top, Top.call) /\ Keep

OverridesDone ==
    /\ InCall("env") /\ ~MoreEnv
    /\ procs' = [procs EXCEPT ![Depth].call.pc = "open"]
    /\ UNCHANGED tab /\ Keep

\* The next pipe or file.  Command::status redirects at once, the others when
\* everything is open.
NextRedirect == Redirects(Top.call.req)[Len(Top.call.opened) + 1]
MoreOpens    == Len(Top.call.opened) < Len(Redirects(Top.call.req))

Opened(t, stream, child, own) ==
    LET p == [Top EXCEPT !.call.opened = Append(@, [stream |-> stream, child |-> child, own |-> own])]
    IN  /\ tab' = t
        /\ procs' = [procs EXCEPT ![Depth] =
                       IF p.call.req.api = "status"
                         THEN [p EXCEPT !.std = abi_dup2(t, @, child, stream)] ELSE p]

OpenPipe ==
    /\ InCall("open") /\ MoreOpens /\ NextRedirect.file = None
    /\ CanPipe(tab)
    /\ LET s    == NextRedirect.stream
           pipe == abi_pipe(tab)
           fed  == abi_write_fd(pipe.tab, content, pipe.write, Top.call.req.stdin).tab
       IN  IF s = STDIN THEN Opened(fed, s, pipe.read, pipe.write)
                        ELSE Opened(pipe.tab, s, pipe.write, pipe.read)
    /\ Keep

\* File::create truncates the file before it looks for a descriptor.
OpenFile ==
    /\ InCall("open") /\ MoreOpens /\ NextRedirect.file # None
    /\ content' = [content EXCEPT ![NextRedirect.file] = [by |-> Depth, data |-> <<>>]]
    /\ IF CanOpen(tab)
         THEN LET o == abi_open(tab, NextRedirect.file) IN Opened(o.tab, NextRedirect.stream, o.fd, o.fd)
         ELSE Unwind(Top, Top.call)
    /\ UNCHANGED <<dirs, budget>>

\* No pipe or descriptor left, or the file cannot be opened at all.
OpenFails ==
    /\ InCall("open") /\ MoreOpens
    /\ NextRedirect.file = None => ~CanPipe(tab)
    /\ Unwind(Top, Top.call) /\ Keep

\* The child is made with a copy of the redirected stdio, cwd and environment
\* (spawn_prepared), and the caller waits.
Redirected == [Top EXCEPT !.std = dup2_all(tab, @, Top.call.opened)]

Spawn ==
    /\ InCall("open") /\ ~MoreOpens
    /\ Depth < MaxDepth
    /\ LET p     == Redirected
           given == Streams(p.call.opened)
           child == [p EXCEPT !.call = NoCall, !.fresh = TRUE,
                              !.sink = [s \in Std |-> IF s \in given THEN Depth ELSE p.sink[s]]]
       IN  procs' = Append([procs EXCEPT ![Depth] = [p EXCEPT !.call.pc = "wait"]], child)
    /\ UNCHANGED tab /\ Keep

\* No such program, or no free process slot.  A builtin goes on to its reset.
SpawnFails ==
    /\ InCall("open") /\ ~MoreOpens
    /\ IF IsBuiltin(Top.call.req)
         THEN /\ procs' = [procs EXCEPT ![Depth] = [Redirected EXCEPT !.call.pc = "reap"]]
              /\ UNCHANGED tab
         ELSE Unwind(Redirected, Top.call)
    /\ Keep

\* wait() found the pid gone.  In this chain nobody else can have collected the
\* status; a sibling in the background might.
WaitFails ==
    /\ InCall("reap") /\ ~IsBuiltin(Top.call.req)
    /\ Unwind(Top, Top.call) /\ Keep

\* The child is done: stdio, environment and cwd are put back, then the pipes
\* are read.
Collect ==
    /\ InCall("reap")
    /\ procs' = [procs EXCEPT ![Depth] = [Restored(Top, Top.call) EXCEPT
                   !.call.pc = "read", !.call.unread = Captured(Top.call.req)]]
    /\ UNCHANGED tab /\ Keep

\* One fd_read: of the loop of read_all_available, which stops at a short or
\* empty chunk, or the only one of a builtin, which then prints the bytes.
ReadChunk ==
    /\ InCall("read") /\ Top.call.unread # <<>>
    /\ LET c    == Top.call
           s    == Head(c.unread)
           from == c.opened[CHOOSE i \in DOMAIN c.opened : c.opened[i].stream = s].own
           size == IF IsBuiltin(c.req) THEN RYSH_CHUNK ELSE CHUNK
           r    == abi_read(tab, from, size)
           more == ~IsBuiltin(c.req) /\ r.count = size
       IN  /\ tab' = r.tab
           /\ procs' = [procs EXCEPT ![Depth].call.got[s] = @ \o r.data,
                                     ![Depth].call.unread = IF more THEN @ ELSE Tail(@)]
    /\ Keep

\* A builtin prints what it captured, then closes its pipes; the others close
\* them first and leave printing to their caller.
Captures(c) == Captured(c.req) # <<>>

EchoCaptured ==
    /\ InCall("read") /\ Top.call.unread = <<>>
    /\ IsBuiltin(Top.call.req) /\ Captures(Top.call)
    /\ Say([procs EXCEPT ![Depth].call.pc = "close"], STDOUT,
           Top.call.got[STDOUT] \o Top.call.got[STDERR])
    /\ UNCHANGED <<dirs, budget>>

CloseAll ==
    /\ \/ InCall("close")
       \/ InCall("read") /\ Top.call.unread = <<>> /\ ~(IsBuiltin(Top.call.req) /\ Captures(Top.call))
    /\ tab' = close_many(tab, Top.call.opened)
    /\ procs' = [procs EXCEPT ![Depth].call.pc = "done"]
    /\ Keep

\* The call returns.  relay writes what it captured to its own stdout.
Return ==
    /\ InCall("failed") \/ InCall("done")
    /\ procs' = [procs EXCEPT ![Depth].call = NoCall]
    /\ UNCHANGED tab /\ Keep

ReturnEcho ==
    /\ InCall("done") /\ Top.call.req.api = "output"
    /\ Say([procs EXCEPT ![Depth].call = NoCall], STDOUT, Top.call.got[STDOUT])
    /\ UNCHANGED <<dirs, budget>>

-----------------------------------------------------------------------------
Init ==
    /\ procs = <<>>
    /\ tab = app_close_all_fds
    /\ content = NothingCreated
    /\ dirs = Dirs
    /\ budget = 0

Own ==
    \/ \E s \in {STDOUT, STDERR}, n \in WriteSizes : WriteStd(s, n)
    \/ \E n \in WriteSizes : ReadStdin(n)
    \/ \E dir \in Dirs \cup {Root} : ChangeDir(dir)
    \/ \E v \in Settings : SetEnv(v.key, v.value)
    \/ \E dir \in Dirs : Unlink(dir) \/ Mkdir(dir)
    \/ \E req \in Requests : Begin(req)
    \/ Exit

Calls ==
    \/ ApplyOverride \/ OverrideFails \/ OverridesDone
    \/ OpenPipe \/ OpenFile \/ OpenFails
    \/ Spawn \/ SpawnFails
    \/ Collect \/ WaitFails
    \/ ReadChunk \/ EchoCaptured \/ CloseAll
    \/ Return \/ ReturnEcho

Next == RunProgram \/ Own \/ Calls

Spec == Init /\ [][Next]_vars

-----------------------------------------------------------------------------
(* Correctness.                                                            *)

Take(data, n) == SubSeq(data, 1, Min({n, Len(data)}))

Vars(p) == [k \in Keys |-> env_lookup(p.env, k)]

Pcs == {"env", "open", "wait", "reap", "read", "close", "done", "failed"}

\* Types: the chain, the tables and every call under way are well formed.
TypeOK ==
    /\ Depth <= MaxDepth /\ budget \in 0 .. Budget /\ dirs \subseteq Dirs
    /\ \A fd \in Open(tab) : tab.fds[fd].kind \in {"PipeRead", "PipeWrite", "Pfs"}
    /\ \A p \in PipeIds : Len(tab.pipes[p].buffer) <= APP_PIPE_BUFFER_SIZE
    /\ \A d \in DOMAIN procs :
         /\ procs[d].std \in [Std -> Std \cup TableFds]
         /\ procs[d].cwd \in Dirs \cup {Root}
         /\ procs[d].env \in EnvTables
         /\ procs[d].call.pc \in Pcs \cup {"none"}
         /\ d < Depth => procs[d].call.pc = "wait"

\* A call gives its caller back the stdio, the environment and the cwd it had,
\* on every way out: success, a failed chdir or override, no pipe, no file, no
\* program, a lost status.  (A cwd that was removed meanwhile is not entered.)
RestoredOnReturn ==
    \A d \in DOMAIN procs :
      LET p == procs[d]
          a == p.call.at
      IN  p.call.pc \in {"read", "close", "done", "failed"} =>
            /\ p.std = a.std
            /\ p.cwd = a.cwd \/ a.cwd \notin dirs \cup {Root}
            /\ Vars(p) = a.vars

\* A call closes exactly the descriptors it opened, on every way out: after it
\* the table shared by all processes is as before it.
NoFdLeak ==
    \A d \in DOMAIN procs :
      procs[d].call.pc \in {"done", "failed"} => Open(tab) = procs[d].call.at.open

\* No other redirection of the call and no handle open when it began goes to
\* the same file.
Alone(c, r) ==
    /\ \A q \in ToSet(Redirects(c.req)) : q.file = r.file => q = r
    /\ \A fd \in c.at.open : tab.fds[fd].kind = "Pfs" => tab.fds[fd].file # r.file

\* What a call captures is what the child and its descendants wrote to that
\* stream, in order and complete, up to what a pipe holds (for a builtin, up to
\* its one read); nothing goes elsewhere, nothing of others comes in.  A file
\* holds all of it if it is this stream's alone: nobody created it meanwhile and
\* no other stream or handle goes there.  The other way round, they
\* take the stdin they are given in order and each byte once, whoever reads.
CaptureComplete ==
    \A d \in DOMAIN procs :
      LET c == procs[d].call
          room == IF IsBuiltin(c.req) THEN Min({APP_PIPE_BUFFER_SIZE, RYSH_CHUNK})
                                      ELSE APP_PIPE_BUFFER_SIZE
      IN  c # NoCall =>
            /\ IsPrefix(c.log[STDIN], Take(c.req.stdin, APP_PIPE_BUFFER_SIZE))
            /\ c.pc = "done" =>
                 /\ \A s \in ToSet(Captured(c.req)) : c.got[s] = Take(c.log[s], room)
                 /\ \A r \in ToSet(Redirects(c.req)) :
                      r.file # None /\ content[r.file].by = d /\ Alone(c, r) =>
                        content[r.file].data = c.log[r.stream]

\* The descriptor table and the pipe table describe the same pipes, and a
\* standard descriptor of a live process is the console or an open descriptor of
\* the right direction whose other end is still there: no process is left with a
\* number that is closed or has come to mean something else.
StdUsable ==
  /\ EndsMatch(tab)
  /\ \A d \in DOMAIN procs : \A s \in Std :
      LET fd == procs[d].std[s]
          h  == tab.fds[fd]
      IN  \/ fd = s
          \/ /\ fd \in Open(tab)
             /\ h.kind \in (IF s = STDIN THEN {"PipeRead"} ELSE {"PipeWrite", "Pfs"})
             /\ h.kind # "Pfs" => tab.pipes[h.pipe].read_open /\ tab.pipes[h.pipe].write_open

\* The variables with the first n overrides of a request, one after the other.
Overlaid(variables, overrides, n) ==
    LET over[i \in 0 .. Len(overrides)] ==
          IF i = 0 THEN variables
                   ELSE [over[i - 1] EXCEPT ![overrides[i].key] = overrides[i].value]
    IN  over[n]

\* Until it changes them itself, a child sees the request's cwd and the
\* caller's variables with the request's overrides - also after calls of its
\* own, unless a call could not go back to a cwd that is gone.
ChildSeesRequest ==
    \A d \in 1 .. Depth - 1 :
      LET c     == procs[d].call
          child == procs[d + 1]
          dir   == IF c.req.cwd = None THEN c.at.cwd ELSE c.req.cwd
      IN  child.fresh /\ child.call = NoCall =>
            /\ Vars(child) = Overlaid(c.at.vars, c.req.env, Len(c.req.env))
            /\ child.cwd = dir \/ dir \notin dirs \cup {Root}

\* However the overrides were made and undone, every process has each key in at
\* most one slot, and listing the environment agrees with looking it up.
EnvConsistent ==
    \A d \in DOMAIN procs : KeysUnique(procs[d].env) /\ ListsWhatIsSet(procs[d].env)
==============================================================================
