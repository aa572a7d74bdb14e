------------------------------- MODULE Writer -------------------------------
(***************************************************************************)
(* The group-commit engine of the store (internal/store/writer.go): any    *)
(* number of callers submit commands through a bounded channel; one        *)
(* goroutine assembles batches and runs each in one SQLite transaction;    *)
(* replies follow the commit and events follow the replies, through a      *)
(* second bounded channel that a pump goroutine empties.                   *)
(*                                                                         *)
(* A caller submits one command, so a caller stands for its request too.   *)
(* The goroutines interleave between any two channel operations, and the   *)
(* writer between any two statements it sends to SQLite.                   *)
(***************************************************************************)
EXTENDS Naturals, Sequences

CONSTANTS
    Callers,    \* goroutines that call Do, one command each
    Solo,       \* the callers whose command is a checkpoint or a vacuum
    QueueDepth, \* capacity of the request channel
    MaxBatch,   \* --commit-max-batch
    EventDepth, \* capacity of the fan-out channel
    Faults      \* what may happen to the writer in this instance

ASSUME ConstantsAssumption ==
    /\ Solo \subseteq Callers
    /\ QueueDepth \in Nat \ {0} /\ MaxBatch \in Nat \ {0} /\ EventDepth \in Nat \ {0}
    /\ Faults \subseteq {"reject", "damage", "close", "cancel"}

VARIABLES
    pc,         \* caller -> where it is in Do
    result,     \* caller -> what Do returned
    cancelled,  \* callers whose context is done
    queue,      \* w.ch
    held,       \* run's pending request: <<>> or one request
    batch,      \* the batch being assembled, applied or answered
    phase,      \* where run is
    pos,        \* index of the next request of the batch to treat
    tx,         \* requests whose savepoint was released in the open transaction
    err,        \* request -> r.err, "nil" until it is set
    failWith,   \* the error failAll hands out
    replied,    \* requests whose done channel is closed
    durable,    \* requests whose effects are on disk, in commit order
    latched,    \* w.latched
    closer,     \* where Close is
    events,     \* w.evCh: one entry per committed batch
    pumpDone,   \* the pump goroutine has returned
    accepted,   \* history: requests in the order they entered the channel
    published   \* history: requests whose events reached the sink

callerVars == <<pc, result>>
runVars == <<held, batch, phase, pos, tx, err, failWith, replied, durable, latched>>
closeVars == <<closer, events, pumpDone, published>>
vars == <<pc, result, cancelled, queue, held, batch, phase, pos, tx, err, failWith,
          replied, durable, latched, closer, events, pumpDone, accepted, published>>

Results == {"ok", "rejected", "latched", "closing", "cancelled", "unknown"}

Phases == {"idle", "filling", "begin", "applying", "replying", "emitting",
           "failing", "crashing", "crashed", "exited"}

Elems(s) == {s[i] : i \in DOMAIN s}

\* One type invariant for the module.
TypeOK ==
    /\ pc \in [Callers -> {"start", "checked", "waiting", "returned"}]
    /\ result \in [Callers -> Results \cup {"none"}]
    /\ cancelled \subseteq Callers
    /\ queue \in Seq(Callers) /\ Len(queue) <= QueueDepth
    /\ held \in Seq(Callers) /\ Len(held) <= 1
    /\ batch \in Seq(Callers \ Solo) /\ Len(batch) <= MaxBatch
    /\ phase \in Phases
    /\ pos \in 1 .. MaxBatch + 1
    /\ tx \in Seq(Callers \ Solo)
    /\ err \in [Callers -> {"nil", "rejected", "latched", "unknown"}]
    /\ failWith \in {"none", "latched", "unknown"}
    /\ replied \subseteq Callers
    /\ durable \in Seq(Callers \ Solo)
    /\ latched \in BOOLEAN
    /\ closer \in {"open", "closing", "stopped", "drained", "closed"}
    /\ events \in Seq(Seq(Callers \ Solo)) /\ Len(events) <= EventDepth
    /\ pumpDone \in BOOLEAN
    /\ accepted \in Seq(Callers)
    /\ published \in Seq(Callers \ Solo)

Init ==
    /\ pc = [c \in Callers |-> "start"]
    /\ result = [c \in Callers |-> "none"]
    /\ cancelled = {}
    /\ queue = <<>> /\ held = <<>> /\ batch = <<>>
    /\ phase = "idle" /\ pos = 1
    /\ tx = <<>>
    /\ err = [c \in Callers |-> "nil"]
    /\ failWith = "none"
    /\ replied = {}
    /\ durable = <<>>
    /\ latched = FALSE
    /\ closer = "open"
    /\ events = <<>> /\ pumpDone = FALSE
    /\ accepted = <<>> /\ published = <<>>

\* A panic outside applyCommand's recover ends the process.
Running == phase # "crashed"

-----------------------------------------------------------------------------
(* Do: the callers.                                                          *)

Return(c, r) ==
    /\ pc' = [pc EXCEPT ![c] = "returned"]
    /\ result' = [result EXCEPT ![c] = r]

\* The refusals at the top of Do, in the order of the code.
DoCheck(c) ==
    /\ Running
    /\ pc[c] = "start"
    /\ CASE latched -> Return(c, "latched")
         [] ~latched /\ closer # "open" -> Return(c, "closing")
         [] ~latched /\ closer = "open" /\ c \in cancelled -> Return(c, "cancelled")
         [] OTHER -> /\ pc' = [pc EXCEPT ![c] = "checked"]
                     /\ UNCHANGED result
    /\ UNCHANGED <<cancelled, queue, runVars, closeVars, accepted>>

\* The first select: channel room, a dead context and an exited writer may all
\* be ready at once, and then any of the three arms is taken.
DoEnqueue(c) ==
    /\ Running
    /\ pc[c] = "checked"
    /\ Len(queue) < QueueDepth
    /\ queue' = Append(queue, c)
    /\ accepted' = Append(accepted, c)
    /\ pc' = [pc EXCEPT ![c] = "waiting"]
    /\ UNCHANGED <<result, cancelled, runVars, closeVars>>

DoEnqueueRefused(c) ==
    /\ Running
    /\ pc[c] = "checked"
    /\ \/ c \in cancelled /\ Return(c, "cancelled")
       \/ phase = "exited" /\ Return(c, "closing")
    /\ UNCHANGED <<cancelled, queue, runVars, closeVars, accepted>>

\* The second select: the reply or the dead context.
DoAwait(c) ==
    /\ Running
    /\ pc[c] = "waiting"
    /\ \/ c \in replied /\ Return(c, IF err[c] = "nil" THEN "ok" ELSE err[c])
       \/ c \in cancelled /\ Return(c, "unknown")
    /\ UNCHANGED <<cancelled, queue, runVars, closeVars, accepted>>

Cancel(c) ==
    /\ Running
    /\ "cancel" \in Faults
    /\ pc[c] # "returned"
    /\ c \notin cancelled
    /\ cancelled' = cancelled \cup {c}
    /\ UNCHANGED <<callerVars, queue, runVars, closeVars, accepted>>

-----------------------------------------------------------------------------
(* run: the writer goroutine.                                                *)

StopSignalled == closer \notin {"open", "closing"}

\* The request that opens the next turn: the one held over, else the head of
\* the channel.
HasFirst == held # <<>> \/ queue # <<>>

\* Mutant: run looks at the channel before the request it holds over.
FirstFromChannel == IF queue # <<>> THEN Head(queue) ELSE Head(held)

First == IF held # <<>> THEN Head(held) ELSE Head(queue)
TakeFirst ==
    /\ held' = <<>>
    /\ queue' = IF held # <<>> THEN queue ELSE Tail(queue)

\* commitSolo: outside every transaction; its failure never latches.
RunSolo ==
    /\ phase = "idle"
    /\ HasFirst
    /\ First \in Solo
    /\ TakeFirst
    /\ \E e \in {"nil", "rejected"} :
         /\ e = "nil" => ~latched
         /\ err' = [err EXCEPT ![First] = e]
    /\ replied' = replied \cup {First}
    /\ UNCHANGED <<callerVars, cancelled, batch, phase, pos, tx, failWith, durable,
                   latched, closeVars, accepted>>

OpenBatch ==
    /\ phase = "idle"
    /\ HasFirst
    /\ First \notin Solo
    /\ TakeFirst
    /\ batch' = <<First>>
    /\ phase' = "filling"
    /\ UNCHANGED <<callerVars, cancelled, pos, tx, err, failWith, replied, durable,
                   latched, closeVars, accepted>>

\* Mutant: the fill loop does not ask whether a command must run alone.
FillTakesSolo ==
    /\ phase = "filling"
    /\ queue # <<>>
    /\ Len(batch) < MaxBatch
    /\ batch' = Append(batch, Head(queue))
    /\ queue' = Tail(queue)
    /\ UNCHANGED <<callerVars, cancelled, held, phase, pos, tx, err, failWith, replied,
                   durable, latched, closeVars, accepted>>

\* takeBatch's fill: a solo request, or one over the byte budget, closes the
\* batch and is held for the next turn.
Fill ==
    /\ phase = "filling"
    /\ queue # <<>>
    /\ Len(batch) < MaxBatch
    /\ queue' = Tail(queue)
    /\ \/ /\ Head(queue) \notin Solo
          /\ batch' = Append(batch, Head(queue))
          /\ UNCHANGED <<held, phase>>
       \/ /\ held' = <<Head(queue)>>
          /\ phase' = "begin"
          /\ UNCHANGED batch
    /\ UNCHANGED <<callerVars, cancelled, pos, tx, err, failWith, replied, durable,
                   latched, closeVars, accepted>>

\* The window elapses, the channel is empty or the batch is full.
CloseBatch ==
    /\ phase = "filling"
    /\ phase' = "begin"
    /\ UNCHANGED <<callerVars, cancelled, queue, held, batch, pos, tx, err, failWith,
                   replied, durable, latched, closeVars, accepted>>

\* Infrastructure damage: roll back, latch, close the pool, then answer.
Doomed ==
    /\ latched' = TRUE
    /\ phase' = "failing"
    /\ failWith' = "unknown"
    /\ pos' = 1
    /\ tx' = <<>>

Begin ==
    /\ phase = "begin"
    /\ \/ /\ latched
          /\ phase' = "failing" /\ failWith' = "latched" /\ pos' = 1
          /\ UNCHANGED <<tx, latched>>
       \/ /\ ~latched
          /\ phase' = "applying" /\ pos' = 1 /\ tx' = <<>>
          /\ UNCHANGED <<failWith, latched>>
       \/ /\ ~latched
          /\ "damage" \in Faults
          /\ Doomed
    /\ UNCHANGED <<callerVars, cancelled, queue, held, batch, err, replied, durable,
                   closeVars, accepted>>

\* Mutant: the reply is sent when the savepoint is released.
ApplyRepliesEarly ==
    /\ phase = "applying"
    /\ pos <= Len(batch)
    /\ tx' = Append(tx, batch[pos])
    /\ replied' = replied \cup {batch[pos]}
    /\ pos' = pos + 1
    /\ UNCHANGED <<callerVars, cancelled, queue, held, batch, phase, err, failWith,
                   durable, latched, closeVars, accepted>>

\* Mutant: a rejected command's savepoint is released without the rollback.
ApplyKeepsRejected ==
    /\ phase = "applying"
    /\ pos <= Len(batch)
    /\ tx' = Append(tx, batch[pos])
    /\ pos' = pos + 1
    /\ \/ UNCHANGED <<err, replied>>
       \/ /\ "reject" \in Faults
          /\ err' = [err EXCEPT ![batch[pos]] = "rejected"]
          /\ replied' = replied \cup {batch[pos]}
    /\ UNCHANGED <<callerVars, cancelled, queue, held, batch, phase, failWith,
                   durable, latched, closeVars, accepted>>

\* One command behind its savepoint: applied; rejected, rolled back and answered
\* at once; or damage, which ends the batch.
Apply ==
    /\ phase = "applying"
    /\ pos <= Len(batch)
    /\ \/ /\ tx' = Append(tx, batch[pos])
          /\ pos' = pos + 1
          /\ UNCHANGED <<err, replied, phase, failWith, latched>>
       \/ /\ "reject" \in Faults
          /\ err' = [err EXCEPT ![batch[pos]] = "rejected"]
          /\ replied' = replied \cup {batch[pos]}
          /\ pos' = pos + 1
          /\ UNCHANGED <<tx, phase, failWith, latched>>
       \/ /\ "damage" \in Faults
          /\ Doomed
          /\ UNCHANGED <<err, replied>>
    /\ UNCHANGED <<callerVars, cancelled, queue, held, batch, durable, closeVars, accepted>>

\* A commit that reports an error may have reached the disk all the same.
Commit ==
    /\ phase = "applying"
    /\ pos > Len(batch)
    /\ \/ /\ durable' = durable \o tx
          /\ phase' = "replying" /\ pos' = 1
          /\ UNCHANGED <<tx, failWith, latched>>
       \/ /\ "damage" \in Faults
          /\ durable' \in {durable, durable \o tx}
          /\ Doomed
    /\ UNCHANGED <<callerVars, cancelled, queue, held, batch, err, replied, closeVars,
                   accepted>>

Reply ==
    /\ phase = "replying"
    /\ \/ /\ pos <= Len(batch)
          /\ replied' = IF err[batch[pos]] = "nil" THEN replied \cup {batch[pos]} ELSE replied
          /\ pos' = pos + 1
          /\ UNCHANGED phase
       \/ /\ pos > Len(batch)
          /\ phase' = "emitting"
          /\ UNCHANGED <<pos, replied>>
    /\ UNCHANGED <<callerVars, cancelled, queue, held, batch, tx, err, failWith, durable,
                   latched, closeVars, accepted>>

\* Mutant: the slice of events is not emptied between batches.
EmitAccumulates ==
    /\ phase = "emitting"
    /\ phase' = "idle"
    /\ batch' = <<>> /\ tx' = <<>> /\ pos' = 1
    /\ events' = IF Len(events) < EventDepth
                 THEN Append(events, durable) ELSE events
    /\ UNCHANGED <<callerVars, cancelled, queue, held, err, failWith, replied, durable,
                   latched, closer, pumpDone, published, accepted>>

\* The fan-out never blocks: a full channel drops the batch's events.
Emit ==
    /\ phase = "emitting"
    /\ phase' = "idle"
    /\ batch' = <<>> /\ tx' = <<>> /\ pos' = 1
    /\ events' = IF tx # <<>> /\ Len(events) < EventDepth
                 THEN Append(events, tx) ELSE events
    /\ UNCHANGED <<callerVars, cancelled, queue, held, err, failWith, replied, durable,
                   latched, closer, pumpDone, published, accepted>>

\* failAll: every request of the batch, the ones rejected earlier included; a
\* second close of a done channel panics, after r.err was overwritten.
Fail ==
    /\ phase = "failing"
    /\ \/ /\ pos <= Len(batch)
          /\ err' = [err EXCEPT ![batch[pos]] = failWith]
          /\ phase' = IF batch[pos] \in replied THEN "crashing" ELSE phase
          /\ replied' = replied \cup {batch[pos]}
          /\ pos' = pos + 1
          /\ UNCHANGED <<batch, failWith>>
       \/ /\ pos > Len(batch)
          /\ phase' = "idle"
          /\ batch' = <<>> /\ pos' = 1
          /\ failWith' = "none"
          /\ UNCHANGED <<err, replied>>
    /\ UNCHANGED <<callerVars, cancelled, queue, held, tx, durable, latched, closeVars,
                   accepted>>

Crash ==
    /\ phase = "crashing"
    /\ phase' = "crashed"
    /\ UNCHANGED <<callerVars, cancelled, queue, held, batch, pos, tx, err, failWith,
                   replied, durable, latched, closeVars, accepted>>

\* nextRequest finds the stop signal and an empty channel.
Exit ==
    /\ phase = "idle"
    /\ StopSignalled
    /\ ~HasFirst
    /\ phase' = "exited"
    /\ UNCHANGED <<callerVars, cancelled, queue, held, batch, pos, tx, err, failWith,
                   replied, durable, latched, closeVars, accepted>>

-----------------------------------------------------------------------------
(* Close and the event pump.                                                 *)

CloseBegin ==
    /\ Running
    /\ "close" \in Faults
    /\ closer = "open"
    /\ closer' = "closing"
    /\ UNCHANGED <<callerVars, cancelled, queue, runVars, events, pumpDone, published,
                   accepted>>

\* Mutant: the pump is awaited before its channel is closed.
CloseStepAwaitsPump ==
    /\ Running
    /\ \/ closer = "closing" /\ closer' = "stopped"
       \/ closer = "stopped" /\ phase = "exited" /\ pumpDone /\ closer' = "drained"
       \/ closer = "drained" /\ closer' = "closed"
    /\ UNCHANGED <<callerVars, cancelled, queue, runVars, events, pumpDone, published,
                   accepted>>

\* Signal stop; wait for run and close the event channel; wait for the pump.
CloseStep ==
    /\ Running
    /\ \/ closer = "closing" /\ closer' = "stopped"
       \/ closer = "stopped" /\ phase = "exited" /\ closer' = "drained"
       \/ closer = "drained" /\ pumpDone /\ closer' = "closed"
    /\ UNCHANGED <<callerVars, cancelled, queue, runVars, events, pumpDone, published,
                   accepted>>

Pump ==
    /\ Running
    /\ ~pumpDone
    /\ \/ /\ events # <<>>
          /\ published' = published \o Head(events)
          /\ events' = Tail(events)
          /\ UNCHANGED pumpDone
       \/ /\ events = <<>>
          /\ closer = "drained"
          /\ pumpDone' = TRUE
          /\ UNCHANGED <<events, published>>
    /\ UNCHANGED <<callerVars, cancelled, queue, runVars, closer, accepted>>

-----------------------------------------------------------------------------
Do(c) == DoCheck(c) \/ DoEnqueue(c) \/ DoEnqueueRefused(c) \/ DoAwait(c)

Run ==
    \/ RunSolo \/ OpenBatch \/ Fill \/ CloseBatch \/ Begin \/ Apply \/ Commit
    \/ Reply \/ Emit \/ Fail \/ Crash \/ Exit

Next ==
    \/ \E c \in Callers : Do(c) \/ Cancel(c)
    \/ Run
    \/ CloseBegin \/ CloseStep \/ Pump

Spec == Init /\ [][Next]_vars

\* Every goroutine that can run does; nobody has to cancel or to call Close.
FairSpec ==
    /\ Spec
    /\ \A c \in Callers : WF_vars(Do(c))
    /\ WF_vars(Run) /\ WF_vars(CloseStep) /\ WF_vars(Pump)

-----------------------------------------------------------------------------
(* Safety.                                                                   *)

\* What Do returned is true of the disk for ever: nil only for a command that
\* was committed; a rejection, a latched or closing writer, or a context dead
\* before the enqueue, only for one that is not and never will be.
RepliesAreTrue ==
    \A c \in Callers \ Solo :
      /\ result[c] = "ok" => c \in Elems(durable)
      /\ result[c] \in {"rejected", "latched", "closing", "cancelled"} =>
           c \notin Elems(durable)

\* s lists elements of t, each once, in the order t has them.
InOrderOf(s, t) ==
    /\ Elems(s) \subseteq Elems(t)
    /\ \A i, j \in DOMAIN s, m, n \in DOMAIN t :
         i < j /\ s[i] = t[m] /\ s[j] = t[n] => m < n

\* The total order of SEMANTICS S2.3: commands become durable in the order the
\* channel accepted them, none twice, however batches close, commands are held
\* over and callers give up.
CommitOrderIsAcceptOrder == InOrderOf(durable, accepted)

\* Events tell of committed commands only, in commit order and at most once,
\* though any number may be dropped.
EventsFollowCommits == InOrderOf(published, durable)

\* No waiter is answered twice: closing a done channel again would panic on the
\* writer goroutine, where nothing recovers.
AnsweredOnce == phase \notin {"crashing", "crashed"}

-----------------------------------------------------------------------------
(* Refinement: the writer is an implementation of CommandLog.                *)

AbstractAnswer(c) ==
    CASE pc[c] \in {"start", "checked"} -> "idle"
      [] pc[c] = "waiting" -> "pending"
      [] OTHER -> IF result[c] \in {"ok", "unknown"} THEN result[c] ELSE "refused"

Abstract == INSTANCE CommandLog WITH
    Commands <- Callers \ Solo,
    log      <- durable,
    answer   <- [c \in Callers \ Solo |-> AbstractAnswer(c)]

\* Batching, solo commands, abandoned waits, the latch and the drain are all
\* invisible: the writer takes no step the abstract log could not take.
ImplementsCommandLog == Abstract!Spec

-----------------------------------------------------------------------------
(* Liveness.                                                                 *)

\* An accepted command always runs to an answer, whether or not its caller is
\* still there to take it.
AcceptedRuns ==
    \A c \in Callers : c \in Elems(accepted) ~> c \in replied

\* Close terminates, with a full queue, a latched writer or a busy pump, unless
\* the process dies under it.
CloseTerminates == (closer = "closing") ~> (closer = "closed" \/ ~Running)
=============================================================================
