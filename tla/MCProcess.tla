------------------------------ MODULE MCProcess ------------------------------
(***************************************************************************)
(* Small instances of Daemon, Janitor and Lifecycle for TLC.  The          *)
(* janitor's work does not depend on how its process started, Daemon has   *)
(* its goroutine as one of its own, and no command uses the lifecycle      *)
(* manager yet, so they are checked in one run of separate behaviours:     *)
(* only the daemons move, only the janitor, or only the manager, once with *)
(* damage and failed starts and once with reloads.                         *)
(***************************************************************************)
EXTENDS Daemon, Janitor

CONSTANTS
    NComponents, NReloaders, Fallible, Contents, Broken, MaxSignals, MaxEdits,  \* Lifecycle's
    a, b, c, loose, net, other, x, y

VARIABLES
    part,
    state, start, started, stopped, stopall, left, stops, drain, drained, api, readyz, sigs, sent,
    terms, escalated, fatal, seen, exit, requests, pass, turn, source, pending, inForce, edits

L == INSTANCE Lifecycle

ASSUME LifecycleAssumption == L!ConstantsAssumption

\* a and b are given the same directory and socket path, c the directory and a
\* loopback port, other the path and a directory of its own; loose has files that
\* anyone may read and net would serve the network without credentials.
Mixed == [d \in Daemons |-> CASE d \in {a, b, other} -> "unix" [] d = net -> "public" [] OTHER -> "loopback"]
TwoDirs == [d \in Daemons |-> IF d = other THEN y ELSE x]
Starts == [d \in Daemons |-> IF d = a THEN 2 ELSE 1]
NoTokens == [d \in Daemons |-> 0]

Each == {{"streams", "error"}, {"messages", "events", "stop"}, {"wal", "pages", "stop", "error"}, {"space", "lag"}}

OneScenario == happens = CHOOSE h \in Scenarios : TRUE

PInit ==
    /\ Init /\ JInit /\ L!Init
    /\ part \in {"daemons", "janitor", "manager", "reload"}
    /\ part # "janitor" => OneScenario
    /\ part \notin {"manager", "reload"} => inForce[1] = 1

lvars == <<state, start, started, stopped, stopall, left, stops, drain, drained, api, readyz, sigs,
           sent, terms, escalated, fatal, seen, exit, requests, pass, turn, source, pending,
           inForce, edits>>
pvars == <<part, vars, jvars, lvars>>

\* Besides a one process is ever started; a is started again only beside b.
OfDaemons(A) ==
    /\ part = "daemons" /\ A
    /\ \E d \in Daemons \ {a} :
         /\ \A e \in Daemons \ {a, d} : starts'[e] = 0
         /\ starts'[a] > 1 => d = b
    /\ UNCHANGED <<part, jvars, lvars>>
OfJanitor(A) == part = "janitor" /\ A /\ UNCHANGED <<part, vars, lvars>>

\* Up to three TERMs, starts that fail, damage, StopAll and two drains; or two
\* edits, HUPs and one TERM.
Fits ==
    \/ part = "manager" /\ edits' = 0 /\ "HUP" \notin Range(sigs')
    \/ /\ part = "reload" /\ fatal' = "watching" /\ start' # "undoing"
       /\ stopall' = "idle" /\ drain'["root"] = "idle"
       /\ terms' + Len(SelectSeq(sigs', LAMBDA s : s = "TERM")) <= 1
OfManager(A) ==
    part \in {"manager", "reload"} /\ exit = "no" /\ A /\ Fits /\ UNCHANGED <<part, vars, jvars>>

\* The fairness of Daemon.Spec, where one process besides a is started, of
\* Janitor.JSpec and of Lifecycle.Spec.
PFairness ==
    /\ WF_pvars(OfDaemons(Serve(a)))
    /\ WF_pvars(OfDaemons(\E d \in Daemons \ {a} : Serve(d)))
    /\ WF_pvars(OfJanitor(LoopStep)) /\ WF_pvars(OfJanitor(Expire)) /\ WF_pvars(OfJanitor(Probe))
    /\ WF_pvars(OfManager(L!Manage)) /\ WF_pvars(OfManager(L!Signals))
    /\ WF_pvars(OfManager(L!Supervise)) /\ WF_pvars(OfManager(L!Reload))
    /\ \A d \in L!Drainers : WF_pvars(OfManager(L!Drain(d)))

PSpec == PInit /\ [][OfDaemons(Next) \/ OfJanitor(JNext) \/ OfManager(L!Next)]_pvars /\ PFairness

-----------------------------------------------------------------------------
\* No other process starting, stopping or dying on the same directory takes a
\* serving daemon's socket file away, and one that returned left nothing
\* behind (serve.go: socketIsStale, the deferred calls); the lifecycle manager
\* stops each component once, in reverse order (drain.go: teardownAll).
EndsAreClean ==
    /\ TypeOK /\ ServingIsReachable /\ ExitReleases
    /\ JTypeOK
    /\ L!TypeOK /\ L!TeardownOnce

\* A stop that was asked for comes to its end, whatever the requests being
\* served do (serve.go: runServe; drain.go: "the process must always reach
\* exit").
StopsEnd == StopEnds /\ L!DrainEnds

InJanitor == part = "janitor"

\* janitor.go: "One huge delete cannot stall the ack path: the slice deadline
\* cuts it off"; jobs.go, DedupJob: "a large namespace gets full coverage across
\* consecutive ticks", unless sweeps go on failing; disk.go: the state follows the
\* space; reload.go: a request during a pass is served by the next one.
JobsKeepUp ==
    /\ \A j \in Range(Jobs) : []<>(InJanitor => job = j \/ cancelled)
    /\ \A n \in Names : <>[](n \in live) => []<>(InJanitor => last \in {n, Failed} \/ cancelled)
    /\ DiskFollows
    /\ L!ReloadCatchesUp
=============================================================================
