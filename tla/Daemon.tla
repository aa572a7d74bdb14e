------------------------------- MODULE Daemon -------------------------------
(***************************************************************************)
(* `messq serve` from its flags to its exit (internal/cli/serve.go), with  *)
(* the store's handles (internal/store/store.go), the HTTP server          *)
(* (internal/api/server.go) and the goroutines it starts.                  *)
(*                                                                         *)
(* runServe acquires its resources in order and pushes a deferred release  *)
(* for each; every return unwinds that stack.  Several processes may be    *)
(* started on the same data directory and the same socket path, and each   *)
(* may be killed at any moment.  Recovery inside Open is module Storage,   *)
(* the writer's own shutdown is module Writer.                             *)
(***************************************************************************)
EXTENDS Integers, Sequences, FiniteSets, SequencesExt

CONSTANTS
    Daemons,      \* processes: runs of `messq serve`
    Dirs,         \* data directories
    DirOf,        \* process -> its --data-dir
    Ephemeral,    \* processes started with --dev and no --data-dir
    Tokens,       \* process -> credentials in its --auth-file, -1 = not usable
    Class,        \* process -> class of its --listen: "unix", "loopback", "public"
    Loose,        \* processes whose files have fatal permissions
    Requests,     \* client requests
    MaxStarts,    \* process -> bound on its starts
    None

ASSUME ConstantsAssumption ==
    /\ DirOf \in [Daemons -> Dirs] /\ Tokens \in [Daemons -> Int]
    /\ Class \in [Daemons -> {"unix", "loopback", "public"}]
    /\ Ephemeral \subseteq Daemons /\ Loose \subseteq Daemons
    /\ MaxStarts \in [Daemons -> Nat \ {0}]
    /\ None \notin Daemons \cup (Daemons \X Nat)

VARIABLES
    pc,        \* process -> where runServe is
    code,      \* process -> its exit code
    starts,    \* process -> how often it was started
    stack,     \* process -> the deferred releases, the next to run last
    signal,    \* processes whose context is cancelled
    lock,      \* directory -> the process that holds its flock
    marker,    \* directory -> meta.clean_shutdown: "absent", "0" or "1"
    path,      \* the socket file: absent (None) or who bound it, <<process, start>>
    listening, \* processes whose listener is open
    pool,      \* processes whose read pool is open
    writer,    \* process -> its group-commit engine: "none", "running" or "closed"
    sweeper,   \* processes whose sweeper goroutine runs
    janitor,   \* process -> its janitor goroutine: "none", "idle", "busy" or "gone"
    req        \* request -> [at, is]: where it is served, and how it stands

vars == <<pc, code, starts, stack, signal, lock, marker, path, listening, pool,
          writer, sweeper, janitor, req>>

Places == {"down", "admit", "open", "preflight", "listen", "probe", "remove", "rebind",
           "attach", "threads", "serving", "draining", "unwind", "exited"}

\* What runServe acquires, in the order it does.
Resources == {"tmpdir", "store", "listener", "writer", "sweeper", "janitor"}

\* One type invariant for the module.
TypeOK ==
    /\ pc \in [Daemons -> Places] /\ code \in [Daemons -> {"none", "ok", "error", "config", "killed"}]
    /\ \A d \in Daemons : starts[d] \in 0 .. MaxStarts[d]
    /\ stack \in [Daemons -> Seq(Resources)]
    /\ signal \subseteq Daemons /\ listening \subseteq Daemons /\ pool \subseteq Daemons /\ sweeper \subseteq Daemons
    /\ lock \in [Dirs -> Daemons \cup {None}] /\ marker \in [Dirs -> {"absent", "0", "1"}]
    /\ path \in (Daemons \X Nat) \cup {None}
    /\ writer \in [Daemons -> {"none", "running", "closed"}]
    /\ janitor \in [Daemons -> {"none", "idle", "busy", "gone"}]
    /\ req \in [Requests -> [at : Daemons \cup {None}, is : {"new", "running", "answered", "refused", "cut"}]]

Init ==
    /\ pc = [d \in Daemons |-> "down"] /\ code = [d \in Daemons |-> "none"]
    /\ starts = [d \in Daemons |-> 0] /\ stack = [d \in Daemons |-> <<>>]
    /\ signal = {} /\ listening = {} /\ pool = {} /\ sweeper = {}
    /\ lock = [x \in Dirs |-> None] /\ marker = [x \in Dirs |-> "absent"] /\ path = None
    /\ writer = [d \in Daemons |-> "none"] /\ janitor = [d \in Daemons |-> "none"]
    /\ req = [r \in Requests |-> [at |-> None, is |-> "new"]]

Goto(d, place) == pc' = [pc EXCEPT ![d] = place]
Push(d, resource) == stack' = [stack EXCEPT ![d] = Append(@, resource)]
Return(d, c) == Goto(d, "unwind") /\ code' = [code EXCEPT ![d] = c]

files == <<lock, marker, path, listening>>
threads == <<sweeper, janitor>>
process == <<starts, signal>>

-----------------------------------------------------------------------------
(* Starting *)

\* The process starts: flags are parsed, --dev makes its throwaway directory.
Start(d) ==
    /\ pc[d] \in {"down", "exited"} /\ starts[d] < MaxStarts[d]
    /\ starts' = [starts EXCEPT ![d] = @ + 1]
    /\ Goto(d, "admit") /\ code' = [code EXCEPT ![d] = "none"]
    /\ stack' = [stack EXCEPT ![d] = IF d \in Ephemeral THEN <<"tmpdir">> ELSE <<>>]
    /\ signal' = signal \ {d}
    /\ writer' = [writer EXCEPT ![d] = "none"] /\ janitor' = [janitor EXCEPT ![d] = "none"]
    /\ UNCHANGED <<files, pool, sweeper, req>>

\* evaluateListenerAdmission: nobody serves the network without credentials.
Admitted(d) == Tokens[d] >= 0 /\ (Class[d] = "public" => Tokens[d] > 0)

Admit(d) ==
    /\ pc[d] = "admit"
    /\ IF Admitted(d) THEN Goto(d, "open") /\ UNCHANGED code ELSE Return(d, "config")
    /\ UNCHANGED <<process, stack, files, pool, writer, threads, req>>

\* Mutant: the flock is taken in shared mode.
OpenShared(d) ==
    /\ pc[d] = "open"
    /\ lock' = [lock EXCEPT ![DirOf[d]] = d] /\ marker' = [marker EXCEPT ![DirOf[d]] = "0"]
    /\ pool' = pool \cup {d}
    /\ Push(d, "store") /\ Goto(d, "preflight")
    /\ UNCHANGED <<code, path, listening, process, writer, threads, req>>

\* store.Open: the flock, recovery, the marker set to "0".  A directory that
\* is locked, or any step that fails, releases what was taken.
Open(d) ==
    /\ pc[d] = "open"
    /\ LET dir == DirOf[d]
       IN  \/ /\ lock[dir] = None
              /\ lock' = [lock EXCEPT ![dir] = d]
              /\ marker' = [marker EXCEPT ![dir] = "0"]
              /\ pool' = pool \cup {d}
              /\ Push(d, "store") /\ Goto(d, "preflight") /\ UNCHANGED code
           \/ /\ lock[dir] # None
              /\ Return(d, "error") /\ UNCHANGED <<lock, marker, pool, stack>>
    /\ UNCHANGED <<path, listening, process, writer, threads, req>>

Preflight(d) ==
    /\ pc[d] = "preflight"
    /\ IF d \in Loose THEN Return(d, "config") ELSE Goto(d, "listen") /\ UNCHANGED code
    /\ UNCHANGED <<process, stack, files, pool, writer, threads, req>>

\* The socket file is the one d has bound since it started.
Mine(d) == path = <<d, starts[d]>>

\* Somebody is behind the socket file and answers on it.
Answered == \E d \in Daemons : Mine(d) /\ d \in listening

\* The listener is open; a unix one has made the socket file.
Bound(d) ==
    /\ path' = IF Class[d] = "unix" THEN <<d, starts[d]>> ELSE path
    /\ listening' = listening \cup {d}
    /\ Push(d, "listener") /\ Goto(d, "attach") /\ UNCHANGED code

\* listenUnix: bind, and if the file is there, ask whether anybody answers.
Listen(d) ==
    /\ pc[d] = "listen"
    /\ IF path = None \/ Class[d] # "unix"
       THEN Bound(d)
       ELSE Goto(d, "probe") /\ UNCHANGED <<path, listening, stack, code>>
    /\ UNCHANGED <<process, lock, marker, pool, writer, threads, req>>

\* socketIsStale
ProbeSocket(d) ==
    /\ pc[d] = "probe"
    /\ IF Answered THEN Return(d, "error") ELSE Goto(d, "remove") /\ UNCHANGED code
    /\ UNCHANGED <<process, stack, files, pool, writer, threads, req>>

\* os.Remove of the stale file, whoever has bound it by now; a file that is
\* gone is an error.
RemoveStale(d) ==
    /\ pc[d] = "remove"
    /\ IF path = None THEN Return(d, "error") ELSE Goto(d, "rebind") /\ UNCHANGED code
    /\ path' = None
    /\ UNCHANGED <<process, stack, lock, marker, listening, pool, writer, threads, req>>

\* The second bind: a file made in between is an error.
Rebind(d) ==
    /\ pc[d] = "rebind"
    /\ IF path = None THEN Bound(d) ELSE Return(d, "error") /\ UNCHANGED <<path, listening, stack>>
    /\ UNCHANGED <<process, lock, marker, pool, writer, threads, req>>

\* Store.NewWriter takes the read-write handle over from the store.
\* If the engine cannot be built, the handle is closed and stays handed over.
Attach(d) ==
    /\ pc[d] = "attach"
    /\ \/ /\ writer' = [writer EXCEPT ![d] = "running"]
          /\ Push(d, "writer") /\ Goto(d, "threads") /\ UNCHANGED code
       \/ /\ writer' = [writer EXCEPT ![d] = "closed"]
          /\ Return(d, "error") /\ UNCHANGED stack
    /\ UNCHANGED <<process, files, pool, threads, req>>

\* The sweeper and, behind it, the janitor.
StartThreads(d) ==
    /\ pc[d] = "threads"
    /\ sweeper' = sweeper \cup {d} /\ janitor' = [janitor EXCEPT ![d] = "idle"]
    /\ stack' = [stack EXCEPT ![d] = @ \o <<"sweeper", "janitor">>]
    /\ Goto(d, "serving")
    /\ UNCHANGED <<process, code, files, pool, writer, req>>

-----------------------------------------------------------------------------
(* Serving *)

\* A client connects to the socket file and its request is accepted.
Accept(r) ==
    /\ req[r].is = "new"
    /\ \E d \in Daemons : /\ Mine(d) /\ pc[d] = "serving"
                         /\ req' = [req EXCEPT ![r] = [at |-> d, is |-> "running"]]
    /\ UNCHANGED <<pc, code, process, stack, files, pool, writer, threads>>

\* A handler submits its command and answers.  A closed engine refuses it.
Handle(r) ==
    /\ req[r].is = "running" /\ pc[req[r].at] # "exited"
    /\ req' = [req EXCEPT ![r].is = IF writer[req[r].at] = "running" THEN "answered" ELSE "refused"]
    /\ UNCHANGED <<pc, code, process, stack, files, pool, writer, threads>>

\* SIGTERM or SIGINT cancels the context of everything.
Signal(d) ==
    /\ pc[d] = "serving" /\ d \notin signal
    /\ signal' = signal \cup {d}
    /\ UNCHANGED <<pc, code, starts, stack, files, pool, writer, threads, req>>

Running(d) == {r \in Requests : req[r].at = d /\ req[r].is = "running"}

\* Closing a listener unlinks the file at its path, whoever bound it.
Unlinked(d) == IF Class[d] = "unix" THEN None ELSE path

\* Server.Serve: Shutdown closes the listener and waits for the handlers.
BeginDrain(d) ==
    /\ pc[d] = "serving" /\ d \in signal
    /\ Goto(d, "draining")
    /\ path' = Unlinked(d) /\ listening' = listening \ {d}
    /\ UNCHANGED <<code, process, stack, lock, marker, pool, writer, threads, req>>

\* Mutant: Shutdown is given no deadline.
EndDrainPatient(d) ==
    /\ pc[d] = "draining" /\ Running(d) = {} /\ Return(d, "ok")
    /\ UNCHANGED <<process, stack, files, pool, writer, threads, req>>

\* Shutdown returns when they are done; after its timeout with an error, and
\* the handlers still running go on.
EndDrain(d) ==
    /\ pc[d] = "draining"
    /\ \/ Running(d) = {} /\ Return(d, "ok")
       \/ Running(d) # {} /\ Return(d, "error")
    /\ UNCHANGED <<process, stack, files, pool, writer, threads, req>>

\* The sweeper leaves its loop when the context is cancelled.
SweeperStops(d) ==
    /\ d \in sweeper /\ d \in signal
    /\ sweeper' = sweeper \ {d}
    /\ UNCHANGED <<pc, code, process, stack, files, pool, writer, janitor, req>>

\* The janitor takes up a job, and the job reads through Store.RO.  Without
\* the pool the handle is nil and the process dies of it.
JanitorWorks(d) ==
    /\ janitor[d] = "idle" /\ d \notin signal
    /\ janitor' = [janitor EXCEPT ![d] = "busy"]
    /\ UNCHANGED <<pc, code, process, stack, files, pool, writer, sweeper, req>>

JanitorReads(d) ==
    /\ janitor[d] = "busy" /\ d \in pool
    /\ janitor' = [janitor EXCEPT ![d] = IF d \in signal THEN "gone" ELSE "idle"]
    /\ UNCHANGED <<pc, code, process, stack, files, pool, writer, sweeper, req>>

-----------------------------------------------------------------------------
(* Unwinding *)

\* The deferred call that runs next.
NextRelease(d) == Last(stack[d])

\* Store.Close: the marker is written only by a store that still has the
\* read-write handle.
CloseStore(d) ==
    /\ marker' = [marker EXCEPT ![DirOf[d]] = IF writer[d] = "none" THEN "1" ELSE @]
    /\ lock' = [lock EXCEPT ![DirOf[d]] = None]
    /\ pool' = pool \ {d}
    /\ UNCHANGED <<path, listening, writer, janitor>>

\* Mutant: the listener's deferred close is forgotten.
CloseListenerForgotten(d) == UNCHANGED <<path, listening, lock, marker, pool, writer, janitor>>

\* A listener that Shutdown has closed is not closed again.
CloseListener(d) ==
    /\ path' = IF d \in listening THEN Unlinked(d) ELSE path
    /\ listening' = listening \ {d}
    /\ UNCHANGED <<lock, marker, pool, writer, janitor>>

\* Writer.Close: accepted commands are committed, the handle is closed; the
\* marker is not touched.
CloseWriter(d) ==
    /\ writer' = [writer EXCEPT ![d] = "closed"]
    /\ UNCHANGED <<files, pool, janitor>>

\* Janitor.Stop cancels; a job that is running goes on.
StopJanitor(d) ==
    /\ janitor' = [janitor EXCEPT ![d] = IF @ = "idle" THEN "gone" ELSE @]
    /\ UNCHANGED <<files, pool, writer>>

\* One deferred call.  The wait for the sweeper ends after two seconds.
Unwind(d) ==
    /\ pc[d] = "unwind" /\ stack[d] # <<>>
    /\ LET what == NextRelease(d)
       IN  /\ CASE what = "store"    -> CloseStore(d)
                [] what = "listener" -> CloseListener(d)
                [] what = "writer"   -> CloseWriter(d)
                [] what = "janitor"  -> StopJanitor(d)
                [] OTHER             -> UNCHANGED <<files, pool, writer, janitor>>
           /\ stack' = [stack EXCEPT ![d] = Front(@)]
    /\ UNCHANGED <<pc, code, process, sweeper, req>>

\* The process is gone: the kernel closes its files, the socket file stays.
Die(d, c) ==
    /\ Goto(d, "exited") /\ code' = [code EXCEPT ![d] = c]
    /\ stack' = [stack EXCEPT ![d] = <<>>]
    /\ lock' = [x \in Dirs |-> IF lock[x] = d THEN None ELSE lock[x]]
    /\ listening' = listening \ {d} /\ pool' = pool \ {d} /\ sweeper' = sweeper \ {d}
    /\ writer' = [writer EXCEPT ![d] = IF @ = "running" THEN "closed" ELSE @]
    /\ janitor' = [janitor EXCEPT ![d] = "gone"]
    /\ req' = [r \in Requests |-> IF r \in Running(d) THEN [req[r] EXCEPT !.is = "cut"] ELSE req[r]]
    /\ UNCHANGED <<process, marker, path>>

Exit(d) == pc[d] = "unwind" /\ stack[d] = <<>> /\ Die(d, code[d])

\* The janitor's job finds no pool.
JanitorPanics(d) == janitor[d] = "busy" /\ d \notin pool /\ pc[d] # "exited" /\ Die(d, "killed")

Kill(d) == pc[d] \notin {"down", "exited"} /\ starts[d] < MaxStarts[d] /\ Die(d, "killed")

-----------------------------------------------------------------------------
\* What runServe does by itself.
Serve(d) ==
    \/ Admit(d) \/ Open(d) \/ Preflight(d) \/ Listen(d) \/ ProbeSocket(d) \/ RemoveStale(d)
    \/ Rebind(d) \/ Attach(d) \/ StartThreads(d) \/ BeginDrain(d) \/ EndDrain(d) \/ Unwind(d) \/ Exit(d)

Next ==
    \/ \E d \in Daemons : \/ Serve(d) \/ Start(d) \/ Signal(d) \/ Kill(d)
                          \/ SweeperStops(d) \/ JanitorWorks(d) \/ JanitorReads(d) \/ JanitorPanics(d)
    \/ \E r \in Requests : Accept(r) \/ Handle(r)

Spec == Init /\ [][Next]_vars /\ \A d \in Daemons : WF_vars(Serve(d))

-----------------------------------------------------------------------------
(* Properties *)

\* serve.go, socketIsStale and the order open-then-listen: a daemon that serves is
\* reachable.  No other process starting, stopping or dying on the same directory
\* takes its socket file away.  The lock is what keeps two of them from removing a
\* stale file at once; a process of another directory given the same path is not
\* kept from it.
ServingIsReachable ==
    \A d \in Daemons :
        pc[d] = "serving" /\ Class[d] = "unix" =>
            Mine(d) \/ \E e \in Daemons : DirOf[e] # DirOf[d] /\ starts[e] > 0

\* serve.go's deferred calls: a process that returned, from whichever early return,
\* has left no lock, no socket file and no running engine behind.
ExitReleases ==
    \A d \in Daemons :
        pc[d] = "exited" /\ code[d] # "killed" =>
            /\ \A x \in Dirs : lock[x] # d
            /\ ~Mine(d) /\ writer[d] # "running"

\* SEMANTICS.md: "Graceful shutdown on SIGTERM [...] drains handlers": a stop
\* that was asked for ends, whatever the handlers, the sweeper and the janitor do.
StopEnds == (signal # {}) ~> (\A d \in signal : pc[d] = "exited")

\* SEMANTICS.md, shutdown: a graceful stop "sets `clean_shutdown` and exits 0".
GracefulIsClean ==
    \A d \in Daemons :
        (pc[d] = "exited" /\ code[d] = "ok" /\ lock[DirOf[d]] = None
            /\ \A e \in Daemons \ {d} : DirOf[e] = DirOf[d] => pc[e] = "down")
        => marker[DirOf[d]] = "1"
=============================================================================
