------------------------------ MODULE Lifecycle ------------------------------
(***************************************************************************)
(* internal/lifecycle: the process state machine, the ordered start and    *)
(* reverse stop of the components, the drain, the supervisor of a storage  *)
(* fatality, the signal loop and the reload of settings.                   *)
(*                                                                         *)
(* The package takes its collaborators as interfaces and no command wires  *)
(* it yet; the composition root is modelled from the package's contracts   *)
(* and tests: it moves the machine to Recovering, starts the components,   *)
(* moves it to Ready and may call Drain and StopAll once each.             *)
(*                                                                         *)
(* Component 1 is the store, whose Stop is the final commit with the clean *)
(* marker.  A Stop and a Shutdown return once their context ends, as the   *)
(* interfaces demand; without that they may take for ever.                 *)
(***************************************************************************)
EXTENDS Naturals, Sequences

CONSTANTS
    NComponents,  \* components in declaration order
    NReloaders,   \* reloaders in registration order; the first is the auth file
    Fallible,     \* reloaders whose Apply may fail
    Contents,     \* what a settings file can hold
    Broken,       \* contents that do not validate
    MaxSignals,   \* bound: signals sent to the process
    MaxEdits      \* bound: edits of settings files

ConstantsAssumption ==
    /\ {NComponents, NReloaders} \subseteq Nat \ {0} /\ Broken \subseteq Contents
    /\ {MaxSignals, MaxEdits} \subseteq Nat

VARIABLES
    state,     \* Manager.state
    start,     \* the call of Start: "idle", "running", "undoing", "up" or "failed"
    started,   \* Manager.started
    stopped,   \* Manager.stopped
    stopall,   \* the call of StopAll: "idle", "running" or "returned"
    left,      \* components the teardown under mu has still to stop
    stops,     \* history: the components stopped so far, in order
    drain,     \* caller -> where its call of Drain is
    drained,   \* Manager.drained
    api,       \* the HTTP surface: "serving", "released" or "down"
    readyz,    \* HealthState.Status
    sigs,      \* the signal channel
    sent,      \* signals sent so far
    terms,     \* ServeSignals: TERM and INT seen
    escalated, \* escCh is closed
    fatal,     \* SuperviseFatal: "watching", "fired", "seen", "window" or "returned"
    seen,      \* the state SuperviseFatal read
    exit,      \* how the process ended: "no", "1" or "74"
    requests,  \* reload requests queued
    pass,      \* Registry.Serve: "idle", "validate" or "apply"
    turn,      \* the reloader whose turn it is
    source,    \* reloader -> what its file holds
    pending,   \* reloader -> the validated content it parked, 0 for none
    inForce,   \* reloader -> the content in force
    edits      \* edits so far

startVars == <<start, started>>
stopVars == <<stopped, stopall, left, stops>>
drainVars == <<drain, drained, api>>
sigVars == <<sigs, sent, terms, escalated>>
fatalVars == <<fatal, seen>>
reloadVars == <<requests, pass, turn, source, pending, inForce, edits>>
vars == <<state, startVars, stopVars, drainVars, readyz, sigVars, fatalVars, exit, reloadVars>>

States == {"Starting", "Recovering", "Ready", "Draining", "Stopped", "Fatal"}
Drainers == {"signal", "root"}
Components == 1 .. NComponents
Reloaders == 1 .. NReloaders

TypeOK ==
    /\ state \in States
    /\ start \in {"idle", "running", "undoing", "up", "failed"}
    /\ started \in 0 .. NComponents /\ left \in 0 .. NComponents
    /\ stopped \in BOOLEAN /\ drained \in BOOLEAN /\ escalated \in BOOLEAN
    /\ stopall \in {"idle", "running", "returned"}
    /\ stops \in Seq(Components)
    /\ drain \in [Drainers -> {"idle", "called", "waiting", "forced", "teardown", "closing", "returned"}]
    /\ api \in {"serving", "released", "down"}
    /\ readyz \in {"serving", "draining", "read_only"}
    /\ sigs \in Seq({"TERM", "HUP"}) /\ sent \in 0 .. MaxSignals /\ terms \in 0 .. MaxSignals
    /\ fatal \in {"watching", "fired", "seen", "window", "returned"}
    /\ seen \in States
    /\ exit \in {"no", "1", "74"}
    /\ requests \in 0 .. MaxSignals
    /\ pass \in {"idle", "validate", "apply"} /\ turn \in Reloaders
    /\ source \in [Reloaders -> Contents] /\ inForce \in [Reloaders -> Contents]
    /\ pending \in [Reloaders -> Contents \cup {0}]

Init ==
    /\ state = "Starting"
    /\ start = "idle" /\ started = 0
    /\ stopped = FALSE /\ stopall = "idle" /\ left = 0 /\ stops = <<>>
    /\ drain = [d \in Drainers |-> "idle"] /\ drained = FALSE /\ api = "serving"
    /\ readyz = "serving"
    /\ sigs = <<>> /\ sent = 0 /\ terms = 0 /\ escalated = FALSE
    /\ fatal = "watching" /\ seen = "Starting"
    /\ exit = "no"
    /\ requests = 0 /\ pass = "idle" /\ turn = 1 /\ edits = 0
    /\ source \in {[r \in Reloaders |-> c] : c \in Contents \ Broken}
    /\ inForce = source
    /\ pending = [r \in Reloaders |-> 0]

-----------------------------------------------------------------------------
(* Start and StopAll, under Manager.mu. *)

\* legalMoves: the closed transition table.
legalMoves ==
    [s \in States |->
        CASE s = "Starting" -> {"Recovering"}
          [] s = "Recovering" -> {"Ready"}
          [] s = "Ready" -> {"Ready", "Draining", "Fatal"}
          [] s = "Draining" -> {"Stopped", "Fatal"}
          [] OTHER -> {}]

\* advance: the move happens iff it is in the table and the machine still sits
\* at from.
Advances(from, to) == to \in legalMoves[from] /\ state = from

advance(from, to) == state' = IF Advances(from, to) THEN to ELSE state

\* Nobody holds Manager.mu.
MuFree ==
    /\ start \notin {"running", "undoing"}
    /\ stopall # "running"
    /\ \A d \in Drainers : drain[d] # "teardown"

BeginRecovery ==
    /\ state = "Starting"
    /\ advance("Starting", "Recovering")
    /\ UNCHANGED <<startVars, stopVars, drainVars, readyz, sigVars, fatalVars, exit, reloadVars>>

\* Start, its call: a manager already stopped refuses.
StartCall ==
    /\ state = "Recovering" /\ start = "idle" /\ MuFree
    /\ start' = IF stopped THEN "failed" ELSE "running"
    /\ UNCHANGED <<state, started, stopVars, drainVars, readyz, sigVars, fatalVars, exit, reloadVars>>

\* One component comes up, or fails and has those before it stopped.
StartOne ==
    /\ start = "running"
    /\ \/ /\ started < NComponents
          /\ started' = started + 1
          /\ UNCHANGED <<start, left>>
       \/ /\ started < NComponents
          /\ start' = "undoing"
          /\ left' = started
          /\ UNCHANGED started
       \/ /\ started = NComponents
          /\ start' = "up"
          /\ UNCHANGED <<started, left>>
    /\ UNCHANGED <<state, stopped, stopall, stops, drainVars, readyz, sigVars, fatalVars, exit, reloadVars>>

BecomeReady ==
    /\ start = "up" /\ state = "Recovering"
    /\ advance("Recovering", "Ready")
    /\ UNCHANGED <<startVars, stopVars, drainVars, readyz, sigVars, fatalVars, exit, reloadVars>>

\* StopAll, its call, and what a second one would find.
StopAllCall ==
    /\ stopall = "idle" /\ MuFree
    /\ start = "failed" \/ state \notin {"Starting", "Recovering"}
    /\ IF stopped THEN stopall' = "returned" /\ UNCHANGED left
                  ELSE stopall' = "running" /\ left' = started
    /\ UNCHANGED <<state, startVars, stopped, stops, drainVars, readyz, sigVars, fatalVars, exit, reloadVars>>

\* stopComponent: whatever Stop answers is logged, never propagated.
StopOne ==
    /\ left > 0
    /\ stops' = Append(stops, left)
    /\ left' = left - 1
    /\ UNCHANGED <<state, startVars, stopped, stopall, drainVars, readyz, sigVars, fatalVars, exit, reloadVars>>

\* stopStartedLocked has stopped the last of them.
StopDone ==
    /\ left = 0
    /\ \/ /\ start = "undoing"
          /\ start' = "failed"
          /\ UNCHANGED <<stopped, stopall>>
       \/ /\ stopall = "running"
          /\ stopall' = "returned"
          /\ stopped' = TRUE
          /\ UNCHANGED start
    /\ started' = 0
    /\ UNCHANGED <<state, left, stops, drainVars, readyz, sigVars, fatalVars, exit, reloadVars>>

-----------------------------------------------------------------------------
(* Drain, under Manager.drainMu. *)

At(d, from, to) == drain[d] = from /\ drain' = [drain EXCEPT ![d] = to]

RootDrain ==
    /\ start = "up" /\ At("root", "idle", "called")
    /\ UNCHANGED <<state, startVars, stopVars, drained, api, readyz, sigVars, fatalVars, exit, reloadVars>>

\* SetDraining, as Status renders it: read_only outranks draining.
SetDraining == readyz' = IF readyz = "serving" THEN "draining" ELSE readyz

\* Mutant: the check of the state and the move are not one step.
DrainBeginAnywhere(d) ==
    /\ \A e \in Drainers : drain[e] \in {"idle", "called", "returned"}
    /\ IF ~drained
       THEN At(d, "called", "waiting") /\ state' = "Draining" /\ SetDraining /\ api' = "released"
       ELSE At(d, "called", "returned") /\ UNCHANGED <<state, api, readyz>>
    /\ UNCHANGED <<startVars, stopVars, drained, sigVars, fatalVars, exit, reloadVars>>

\* An echo of the first drain, a refusal outside Ready, or: readiness flips,
\* STOPPING=1, the long polls are released and Shutdown starts.
DrainBegin(d) ==
    /\ \A e \in Drainers : drain[e] \in {"idle", "called", "returned"}
    /\ IF ~drained /\ Advances("Ready", "Draining")
       THEN /\ At(d, "called", "waiting")
            /\ advance("Ready", "Draining")
            /\ SetDraining
            /\ api' = "released"
       ELSE At(d, "called", "returned") /\ UNCHANGED <<state, api, readyz>>
    /\ UNCHANGED <<startVars, stopVars, drained, sigVars, fatalVars, exit, reloadVars>>

\* shutdownAPI: Shutdown returns by itself, with nil or with an error.
ShutdownReturns(d) ==
    /\ \/ At(d, "waiting", "forced") /\ UNCHANGED api
       \/ At(d, "waiting", "closing") /\ api' = "down"
    /\ UNCHANGED <<state, startVars, stopVars, drained, readyz, sigVars, fatalVars, exit, reloadVars>>

\* Mutant: the wait ends with Shutdown or by a second signal only.
GiveUpOnSignal(d) ==
    /\ escalated
    /\ At(d, "waiting", "forced")
    /\ UNCHANGED <<state, startVars, stopVars, drained, api, readyz, sigVars, fatalVars, exit, reloadVars>>

\* shutdownAPI: the budget elapses, or escCh is closed: Shutdown is cancelled.
GiveUp(d) ==
    /\ At(d, "waiting", "forced")
    /\ UNCHANGED <<state, startVars, stopVars, drained, api, readyz, sigVars, fatalVars, exit, reloadVars>>

\* shutdownAPI: Shutdown has returned (<-done), Close cuts what is left.
ForceClose(d) ==
    /\ At(d, "forced", "closing")
    /\ api' = "down"
    /\ UNCHANGED <<state, startVars, stopVars, drained, readyz, sigVars, fatalVars, exit, reloadVars>>

\* Mutant: a teardown does not ask whether StopAll ran.
TeardownAgain(d) ==
    /\ MuFree
    /\ At(d, "closing", "teardown")
    /\ left' = NComponents
    /\ UNCHANGED <<state, startVars, stopped, stopall, stops, drained, api, readyz, sigVars, fatalVars, exit, reloadVars>>

\* teardownAll: by declaration, unless a StopAll ran.
Teardown(d) ==
    /\ MuFree
    /\ At(d, "closing", "teardown")
    /\ left' = IF stopped THEN 0 ELSE NComponents
    /\ UNCHANGED <<state, startVars, stopped, stopall, stops, drained, api, readyz, sigVars, fatalVars, exit, reloadVars>>

\* Drain returns; the move to Stopped loses against an absorbed Fatal.
DrainEnd(d) ==
    /\ left = 0
    /\ At(d, "teardown", "returned")
    /\ started' = 0 /\ stopped' = TRUE
    /\ advance("Draining", "Stopped")
    /\ drained' = TRUE
    /\ UNCHANGED <<start, stopall, left, stops, api, readyz, sigVars, fatalVars, exit, reloadVars>>

Drain(d) ==
    DrainBegin(d) \/ GiveUp(d) \/ ForceClose(d) \/ Teardown(d) \/ DrainEnd(d)

-----------------------------------------------------------------------------
(* ServeSignals and SuperviseFatal. *)

Signal(s) ==
    /\ sent < MaxSignals
    /\ sigs' = Append(sigs, s) /\ sent' = sent + 1
    /\ UNCHANGED <<state, startVars, stopVars, drainVars, readyz, terms, escalated, fatalVars, exit, reloadVars>>

\* The first TERM or INT drains, the second cuts the drain's wait short, the
\* third exits; INT counts as TERM.
HandleTerm ==
    /\ sigs # <<>> /\ Head(sigs) = "TERM"
    /\ sigs' = Tail(sigs)
    /\ terms' = terms + 1
    /\ drain' = IF terms' = 1 THEN [drain EXCEPT !["signal"] = "called"] ELSE drain
    /\ escalated' = (escalated \/ terms' = 2)
    /\ exit' = IF terms' > 2 THEN "1" ELSE exit
    /\ UNCHANGED <<state, startVars, stopVars, drained, api, readyz, sent, fatalVars, reloadVars>>

\* A reload at Ready, ignored in every other state.
HandleHup ==
    /\ sigs # <<>> /\ Head(sigs) = "HUP"
    /\ sigs' = Tail(sigs)
    /\ requests' = IF state = "Ready" THEN requests + 1 ELSE requests
    /\ UNCHANGED <<state, startVars, stopVars, drainVars, readyz, sent, terms, escalated, fatalVars, exit,
                   pass, turn, source, pending, inForce, edits>>

\* The writer latches; it can do so until the store is stopped.
Damage ==
    /\ fatal = "watching" /\ start = "up" /\ ~stopped
    /\ fatal' = "fired"
    /\ UNCHANGED <<state, startVars, stopVars, drainVars, readyz, sigVars, seen, exit, reloadVars>>

\* SuperviseFatal takes the cause, latches readiness and reads the state.
FatalSeen ==
    /\ fatal = "fired"
    /\ fatal' = "seen"
    /\ seen' = state
    /\ readyz' = "read_only"
    /\ UNCHANGED <<state, startVars, stopVars, drainVars, sigVars, exit, reloadVars>>

\* The compare-and-swap from the state it read, and the --fatal-drain window.
FatalAbsorb ==
    /\ fatal = "seen"
    /\ fatal' = "window"
    /\ advance(seen, "Fatal")
    /\ UNCHANGED <<startVars, stopVars, drainVars, readyz, sigVars, seen, exit, reloadVars>>

\* The window elapses and the composition root exits with IOERR.
FatalExit ==
    /\ fatal = "window"
    /\ fatal' = "returned"
    /\ exit' = "74"
    /\ UNCHANGED <<state, startVars, stopVars, drainVars, readyz, sigVars, seen, reloadVars>>

-----------------------------------------------------------------------------
(* Registry.Serve and Reload: validate all, then apply all. *)

Edit(r, c) ==
    /\ edits < MaxEdits
    /\ source[r] # c
    /\ source' = [source EXCEPT ![r] = c]
    /\ edits' = edits + 1
    /\ UNCHANGED <<state, startVars, stopVars, drainVars, readyz, sigVars, fatalVars, exit,
                   requests, pass, turn, pending, inForce>>

\* Serve collapses everything queued into one pass, before the pass begins.
Serve ==
    /\ pass = "idle" /\ requests > 0
    /\ requests' = 0
    /\ pass' = "validate" /\ turn' = 1
    /\ UNCHANGED <<state, startVars, stopVars, drainVars, readyz, sigVars, fatalVars, exit,
                   source, pending, inForce, edits>>

\* authFileReloader: Validate parks the parsed file, Apply swaps it in.
Park(r) == pending' = [pending EXCEPT ![r] = source[r]]

Swap(r) ==
    /\ inForce' = [inForce EXCEPT ![r] = IF pending[r] = 0 THEN @ ELSE pending[r]]
    /\ pending' = [pending EXCEPT ![r] = 0]

\* One Validate: it parks what it read, and the first failure ends the pass.
Validate ==
    /\ pass = "validate"
    /\ IF source[turn] \in Broken
       THEN pass' = "idle" /\ UNCHANGED <<turn, pending>>
       ELSE /\ Park(turn)
            /\ IF turn = NReloaders THEN pass' = "apply" /\ turn' = 1
                                    ELSE turn' = turn + 1 /\ UNCHANGED pass
    /\ UNCHANGED <<state, startVars, stopVars, drainVars, readyz, sigVars, fatalVars, exit,
                   requests, source, inForce, edits>>

\* Mutant: what was queued during the pass is taken to be served by it.
ApplyClears ==
    /\ pass = "apply"
    /\ Swap(turn)
    /\ requests' = 0
    /\ IF turn = NReloaders THEN pass' = "idle" /\ UNCHANGED turn
                            ELSE turn' = turn + 1 /\ UNCHANGED pass
    /\ UNCHANGED <<state, startVars, stopVars, drainVars, readyz, sigVars, fatalVars, exit, source, edits>>

\* One Apply; a failure ends the pass with the ones before it applied.
Apply ==
    /\ pass = "apply"
    /\ \/ /\ Swap(turn)
          /\ IF turn = NReloaders THEN pass' = "idle" /\ UNCHANGED turn
                                  ELSE turn' = turn + 1 /\ UNCHANGED pass
       \/ /\ turn \in Fallible
          /\ pass' = "idle"
          /\ UNCHANGED <<turn, inForce, pending>>
    /\ UNCHANGED <<state, startVars, stopVars, drainVars, readyz, sigVars, fatalVars, exit,
                   requests, source, edits>>

-----------------------------------------------------------------------------
Manage == BeginRecovery \/ StartCall \/ StartOne \/ BecomeReady \/ StopOne \/ StopDone
Signals == HandleTerm \/ HandleHup
Supervise == FatalSeen \/ FatalAbsorb \/ FatalExit
Reload == Serve \/ Validate \/ Apply

Step ==
    \/ Manage \/ StopAllCall \/ RootDrain
    \/ \E d \in Drainers : Drain(d) \/ ShutdownReturns(d)
    \/ \E s \in {"TERM", "HUP"} : Signal(s)
    \/ Signals \/ Damage \/ Supervise \/ Reload
    \/ \E r \in Reloaders, c \in Contents : Edit(r, c)

Next == exit = "no" /\ Step

\* Every goroutine that can run does, and timers fire; nobody has to signal,
\* edit a file or damage the disk, and Shutdown need not return by itself.
Spec ==
    /\ Init /\ [][Next]_vars
    /\ WF_vars(exit = "no" /\ Manage) /\ WF_vars(exit = "no" /\ Signals)
    /\ WF_vars(exit = "no" /\ Supervise) /\ WF_vars(exit = "no" /\ Reload)
    /\ \A d \in Drainers : WF_vars(exit = "no" /\ Drain(d))

-----------------------------------------------------------------------------
\* Whatever calls of Drain and StopAll, failed starts and fatalities meet, a
\* component is stopped at most once and in the exact reverse of the start
\* order, so that the store's final commit comes last; Stopped means all of it
\* was done after the last handler; and once Fatal was absorbed from Ready no
\* drain runs the final commit on a disk that must not be trusted (drain.go:
\* teardownAll; health.go: "It deliberately performs NO component teardown").
TeardownOnce ==
    /\ \A i, j \in DOMAIN stops : i < j => stops[i] > stops[j]
    /\ state = "Stopped" => Len(stops) = NComponents /\ api = "down"
    /\ state = "Fatal" /\ seen = "Ready" /\ stopall = "idle" => stops = <<>>
    /\ exit = "74" /\ seen = "Ready" => state # "Ready"

\* A drain that began ends, however long the handlers stay parked (drain.go:
\* "expiry is a budget on in-flight handlers, never an exit from the shutdown
\* sequence").
DrainEnds == state = "Draining" ~> (state \in {"Stopped", "Fatal"} \/ exit # "no")

\* A reload request is answered by a pass that begins after it: what a valid
\* file holds when SIGHUP is taken comes into force unless it is edited again
\* (reload.go: "A request arriving mid-pass survives as exactly one trailing
\* pass").  Stated of the first reloader, whose Apply cannot fail.
ReloadCatchesUp ==
    \A c \in Contents \ Broken :
        (requests > 0 /\ source[1] = c) ~>
            (inForce[1] = c \/ source[1] # c \/ exit # "no"
                \/ \E r \in Reloaders : source[r] \in Broken)

\* health.go: "Fatal is absorbing from both Ready and Draining; whichever CAS
\* wins, a concurrent drain can no longer reach Stopped."
FatalAbsorbs == fatal = "window" /\ seen = "Ready" => state # "Stopped"
=============================================================================
