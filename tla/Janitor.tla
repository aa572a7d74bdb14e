------------------------------ MODULE Janitor -------------------------------
(***************************************************************************)
(* Housekeeping: the janitor goroutine and its seven jobs                  *)
(* (internal/janitor/janitor.go, jobs.go) and the disk monitor             *)
(* (internal/janitor/disk.go, internal/queue/disk.go).                     *)
(*                                                                         *)
(* One goroutine runs the due jobs of a tick in a fixed order, each within *)
(* a slice of the tick's time.  Every job of the daemon is due on every    *)
(* tick (Every is 0).  What a job's writer command does to the tables is   *)
(* in modules Streams, Delivery and Queries; here the work left is a       *)
(* number.  Between two steps of a job the writer commits other commands.  *)
(***************************************************************************)
EXTENDS Integers, Sequences, FiniteSets, FiniteSetsExt, SequencesExt

CONSTANTS
    Names,          \* stream names: numbers, in the order ListStreams returns them
    DedupLimit,     \* streams one run of the dedup job visits
    RetentionBatch, \* messages one retention command deletes
    WalMax,         \* --wal-max-bytes
    FreelistPages,  \* --vacuum-freelist-pages
    VacuumPages,    \* --vacuum-pages-per-tick
    DriverMoves,    \* whether incremental_vacuum moves pages at all
    MinFree,        \* --min-free-bytes
    Recover,        \* the hysteresis factor, in percent
    MaxWork,        \* bound on every amount of work left
    MaxChanges,     \* bound on streams created and deleted
    Scenarios       \* sets of things that may happen together, one is chosen at the start

ASSUME JanitorAssumption ==
    /\ IsFiniteSet(Names) /\ Names \subseteq Nat \ {0}
    /\ {DedupLimit, RetentionBatch, WalMax, VacuumPages, MaxWork} \subseteq Nat \ {0}
    /\ {FreelistPages, MinFree, Recover, MaxChanges} \subseteq Nat
    /\ DriverMoves \in BOOLEAN
    /\ Scenarios \subseteq SUBSET {"error", "stop", "streams", "messages", "events", "wal",
                                   "pages", "space", "lag"}

VARIABLES
    job,        \* the job being run, "idle" between ticks, "exited" after Stop
    spent,      \* the slice of the running job has expired
    cancelled,  \* Stop has cancelled the loop's context
    live,       \* the streams table
    markers,    \* name -> chunks of its reap still to be deleted
    changes,    \* streams created and deleted so far
    list,       \* DedupJob.Run: what ListStreams returned
    swept,      \* DedupJob.Run: how many streams of the window are done
    cursor,     \* DedupJob.cursor
    last,       \* history: the stream swept last, 0 before the first, Failed after a failure
    excess,     \* messages above the streams' limits, events above the journal's
    wal,        \* size of the WAL
    freelist,   \* PRAGMA freelist_count
    before,     \* VacuumJob.Run: freelist_count before the step
    broken,     \* VacuumJob.broken
    quiet,      \* StatsJob: the report window is still open
    free,       \* free bytes of the file system
    disk,       \* DiskMonitor.state
    happens     \* the scenario: it never changes

loop == <<job, spent, cancelled>>
reaping == <<live, markers, changes>>
dedup == <<list, swept, cursor, last>>
vacuum == <<freelist, before, broken>>
monitor == <<free, disk, happens>>
jvars == <<job, spent, cancelled, live, markers, changes, list, swept, cursor, last,
           excess, wal, freelist, before, broken, quiet, free, disk, happens>>

\* The order serve wires the jobs in.
Jobs == <<"reaper", "retention", "dedup", "events", "checkpoint", "vacuum", "stats">>
Steps == Range(Jobs) \cup {"sweeping", "vacuuming", "vacuumed"}

Amounts == 0 .. MaxWork
Failed == -1

\* One type invariant for the module.
JTypeOK ==
    /\ job \in Steps \cup {"idle", "exited"}
    /\ spent \in BOOLEAN /\ cancelled \in BOOLEAN
    /\ live \subseteq Names /\ markers \in [Names -> Amounts] /\ changes \in 0 .. MaxChanges
    /\ list \in Seq(Names) /\ swept \in 0 .. DedupLimit /\ cursor \in 0 .. Cardinality(Names)
    /\ last \in Names \cup {0, Failed}
    /\ excess \in [{"messages", "events"} -> Amounts]
    /\ wal \in Amounts /\ freelist \in Amounts /\ before \in Amounts /\ free \in Amounts
    /\ broken \in BOOLEAN /\ quiet \in BOOLEAN
    /\ disk \in {"ok", "low"} /\ happens \in Scenarios

JInit ==
    /\ job = "idle" /\ spent = FALSE /\ cancelled = FALSE
    /\ live = Names /\ markers = [n \in Names |-> 0] /\ changes = 0
    /\ list = <<>> /\ swept = 0 /\ cursor = 0 /\ last = 0
    /\ excess = [w \in {"messages", "events"} |-> 0]
    /\ wal = 0 /\ freelist = 0 /\ before = 0 /\ broken = FALSE
    /\ quiet = FALSE
    /\ free = MaxWork /\ disk = "ok"
    /\ happens \in Scenarios

-----------------------------------------------------------------------------
(* The loop *)

JobAfter(j) == IF j = "stats" THEN "idle" ELSE Jobs[CHOOSE i \in 2 .. Len(Jobs) : Jobs[i - 1] = j]

\* The loop goes on to the next job, unless its context is cancelled.
Leave(j) ==
    /\ job' = IF cancelled THEN "exited" ELSE JobAfter(j)
    /\ spent' = FALSE
    /\ UNCHANGED cancelled

\* Mutant: an unlimited row allowance lifts the deadline as well.
ReenterForever(j, more) ==
    IF more /\ ~cancelled
    THEN job' = j /\ UNCHANGED <<spent, cancelled>>
    ELSE Leave(j)

\* A run has ended: the job is entered again while there is more to do and
\* its slice lasts.
Reenter(j, more) ==
    IF more /\ ~spent /\ ~cancelled
    THEN job' = j /\ UNCHANGED <<spent, cancelled>>
    ELSE Leave(j)

\* The ticker fires; a cancelled loop returns only now.
Tick ==
    /\ job = "idle"
    /\ job' = IF cancelled THEN "exited" ELSE Jobs[1]
    /\ spent' = FALSE
    /\ UNCHANGED <<cancelled, reaping, dedup, excess, wal, vacuum, quiet, monitor>>

\* Budget.Expired: the clock passes the end of the slice.
Expire ==
    /\ job \in Steps /\ ~spent
    /\ spent' = TRUE
    /\ UNCHANGED <<job, cancelled, reaping, dedup, excess, wal, vacuum, quiet, monitor>>

\* Stop cancels and does not wait.
Stop ==
    /\ "stop" \in happens /\ ~cancelled
    /\ cancelled' = TRUE
    /\ UNCHANGED <<job, spent, reaping, dedup, excess, wal, vacuum, quiet, monitor>>

-----------------------------------------------------------------------------
(* The jobs *)

Marked == {n \in Names : markers[n] > 0}

\* One ReapResume call: a chunk of the first marker.  Pending speaks of that
\* marker only, so the run ends when it is cleared.
ReaperRun ==
    /\ job = "reaper"
    /\ IF Marked = {} \/ cancelled
       THEN Leave("reaper") /\ UNCHANGED markers
       ELSE \E n \in Marked :
                /\ \A m \in Marked : n <= m
                /\ markers' = [markers EXCEPT ![n] = @ - 1]
                /\ Reenter("reaper", markers[n] > 1)
    /\ UNCHANGED <<live, changes, dedup, excess, wal, vacuum, quiet, monitor>>

RetentionRun ==
    /\ job = "retention"
    /\ excess' = [excess EXCEPT !["messages"] = Max({0, @ - RetentionBatch})]
    /\ Reenter("retention", excess'["messages"] > 0)
    /\ UNCHANGED <<reaping, dedup, wal, vacuum, quiet, monitor>>

EventsRun ==
    /\ job = "events"
    /\ excess' = [excess EXCEPT !["events"] = Max({0, @ - 1})]
    /\ Reenter("events", excess'["events"] > 0)
    /\ UNCHANGED <<reaping, dedup, wal, vacuum, quiet, monitor>>

\* ListStreams: the names of the table, in order.
ListStreams(streams) ==
    {s \in [1 .. Cardinality(streams) -> streams] : \A i, j \in DOMAIN s : i < j => s[i] < s[j]}

\* DedupJob.Run reads the list of streams; an empty one ends the run.
DedupList ==
    /\ job = "dedup"
    /\ list' \in ListStreams(live) /\ swept' = 0
    /\ IF live = {} THEN Leave("dedup")
       ELSE job' = "sweeping" /\ UNCHANGED <<spent, cancelled>>
    /\ UNCHANGED <<cursor, last, reaping, excess, wal, vacuum, quiet, monitor>>

\* The window of one run: it does not wrap.
Window == Min({DedupLimit, Len(list) - cursor})

\* Mutant: the window starts over where it started.
DedupEndStays ==
    /\ cursor' = cursor % Len(list)
    /\ Reenter("dedup", swept = Window /\ cursor + swept < Len(list))

\* The window is done, or the slice is: the cursor moves on.
DedupEnd ==
    /\ cursor' = (cursor + swept) % Len(list)
    /\ Reenter("dedup", swept = Window /\ cursor + swept < Len(list))

\* One SweepDedup.  A stream deleted since the list was read is an error; the
\* cursor then stays at it.
DedupSweep ==
    /\ job = "sweeping"
    /\ IF swept >= Window \/ (swept > 0 /\ spent)
       THEN DedupEnd /\ UNCHANGED <<last, swept>>
       ELSE LET n == list[cursor + swept + 1]
            IN  IF n \in live /\ ~cancelled
                THEN /\ last' = n /\ swept' = swept + 1
                     /\ UNCHANGED <<cursor, loop>>
                ELSE /\ cursor' = cursor + swept
                     /\ Leave("dedup") /\ UNCHANGED <<last, swept>>
    /\ UNCHANGED <<list, reaping, excess, wal, vacuum, quiet, monitor>>

\* ListStreams fails, or one SweepDedup does: the cursor stays at that stream,
\* and the next tick begins with it.
DedupFails ==
    /\ "error" \in happens
    /\ \/ job = "dedup" /\ UNCHANGED cursor
       \/ /\ job = "sweeping" /\ swept < Window /\ ~(swept > 0 /\ spent)
          /\ cursor' = cursor + swept
    /\ last' = Failed
    /\ Leave("dedup")
    /\ UNCHANGED <<list, swept, reaping, excess, wal, vacuum, quiet, monitor>>

\* CheckpointJob.Run: nothing in the lower half; PASSIVE above it, TRUNCATE
\* above the limit.  A reader in the WAL leaves it as it is (busy).
CheckpointRun ==
    /\ job = "checkpoint"
    /\ \/ wal' = wal
       \/ wal * 2 > WalMax /\ wal <= WalMax /\ wal' = wal - 1
       \/ wal > WalMax /\ wal' = 0
    /\ Leave("checkpoint")
    /\ UNCHANGED <<reaping, dedup, excess, vacuum, quiet, monitor>>

\* VacuumJob.Run in three steps: the first reading, the command, the second
\* reading.  Other commands commit between them.
VacuumRun ==
    /\ job = "vacuum"
    /\ before' = freelist
    /\ IF broken \/ freelist <= FreelistPages
       THEN Leave("vacuum")
       ELSE job' = "vacuuming" /\ UNCHANGED <<spent, cancelled>>
    /\ UNCHANGED <<freelist, broken, reaping, dedup, excess, wal, quiet, monitor>>

VacuumStep ==
    /\ job = "vacuuming"
    /\ IF cancelled THEN Leave("vacuum") /\ UNCHANGED freelist
       ELSE /\ freelist' = IF DriverMoves THEN Max({0, freelist - VacuumPages}) ELSE freelist
            /\ job' = "vacuumed" /\ UNCHANGED <<spent, cancelled>>
    /\ UNCHANGED <<before, broken, reaping, dedup, excess, wal, quiet, monitor>>

VacuumEnd ==
    /\ job = "vacuumed"
    /\ broken' = (broken \/ freelist >= before)
    /\ Leave("vacuum")
    /\ UNCHANGED <<freelist, before, reaping, dedup, excess, wal, quiet, monitor>>

\* StatsJob.Run: it samples on every tick and reports at most once per interval.
StatsRun ==
    /\ job = "stats"
    /\ quiet' \in {quiet, "lag" \in happens}
    /\ Leave("stats")
    /\ UNCHANGED <<reaping, dedup, excess, wal, vacuum, monitor>>

QuietEnds ==
    /\ quiet
    /\ quiet' = FALSE
    /\ UNCHANGED <<loop, reaping, dedup, excess, wal, vacuum, monitor>>

\* Another job's command fails: the job ends for this tick, the next one runs.
JobError ==
    /\ "error" \in happens
    /\ \/ job \in {"reaper", "retention", "events", "checkpoint"} /\ Leave(job)
       \/ job \in {"vacuuming", "vacuumed"} /\ Leave("vacuum")
    /\ UNCHANGED <<reaping, dedup, excess, wal, vacuum, quiet, monitor>>

-----------------------------------------------------------------------------
(* The writer's other commands, and the disk *)

CreateStream(n) ==
    /\ "streams" \in happens /\ n \notin live /\ markers[n] = 0 /\ changes < MaxChanges
    /\ live' = live \cup {n} /\ changes' = changes + 1
    /\ UNCHANGED <<markers, loop, dedup, excess, wal, vacuum, quiet, monitor>>

\* A stream is deleted; its caller may leave chunks of the reap behind.
DeleteStream(n, chunks) ==
    /\ "streams" \in happens /\ n \in live /\ changes < MaxChanges
    /\ live' = live \ {n} /\ changes' = changes + 1
    /\ markers' = [markers EXCEPT ![n] = chunks]
    /\ UNCHANGED <<loop, dedup, excess, wal, vacuum, quiet, monitor>>

\* Publishes and their events go over the limits and fill the WAL; deletions
\* put pages on the freelist.
Grow ==
    /\ \/ \E w \in DOMAIN excess : /\ w \in happens /\ excess[w] < MaxWork
                                   /\ excess' = [excess EXCEPT ![w] = @ + 1]
                                   /\ UNCHANGED <<wal, freelist>>
       \/ "wal" \in happens /\ wal < MaxWork /\ wal' = wal + 1 /\ UNCHANGED <<excess, freelist>>
       \/ "pages" \in happens /\ freelist < MaxWork /\ freelist' = freelist + 1 /\ UNCHANGED <<excess, wal>>
    /\ UNCHANGED <<loop, reaping, dedup, before, broken, quiet, monitor>>

\* queue.recoverThreshold
RecoverThreshold == Max({MinFree, (MinFree * Recover) \div 100})

\* Mutant: a disk that was low stays low.
NextDiskStateStuck(cur, f) ==
    IF MinFree = 0 THEN cur
    ELSE IF cur = "ok" /\ f < MinFree THEN "low"
    ELSE cur

\* queue.NextDiskState
NextDiskState(cur, f) ==
    IF MinFree = 0 THEN cur
    ELSE IF cur = "ok" /\ f < MinFree THEN "low"
    ELSE IF cur = "low" /\ f >= RecoverThreshold THEN "ok"
    ELSE cur

\* DiskMonitor.loop: a sample, and the state it leads to.  A failed probe
\* changes nothing.
Probe ==
    /\ disk' = NextDiskState(disk, free)
    /\ disk' # disk
    /\ UNCHANGED <<free, happens, loop, reaping, dedup, excess, wal, vacuum, quiet>>

SpaceChanges(f) ==
    /\ f # free /\ "space" \in happens
    /\ free' = f
    /\ UNCHANGED <<disk, happens, loop, reaping, dedup, excess, wal, vacuum, quiet>>

-----------------------------------------------------------------------------
\* The goroutine's own steps.
LoopStep ==
    \/ Tick \/ ReaperRun \/ RetentionRun \/ DedupList \/ DedupSweep \/ EventsRun
    \/ CheckpointRun \/ VacuumRun \/ VacuumStep \/ VacuumEnd \/ StatsRun

JNext ==
    \/ LoopStep \/ DedupFails \/ JobError \/ Expire \/ Stop \/ QuietEnds \/ Grow \/ Probe
    \/ \E n \in Names : CreateStream(n) \/ \E k \in Amounts : DeleteStream(n, k)
    \/ \E f \in Amounts : SpaceChanges(f)

\* The goroutine runs and time passes: ticks come, slices expire, samples are taken.
JFairness == WF_jvars(LoopStep) /\ WF_jvars(Expire) /\ WF_jvars(Probe)

JSpec == JInit /\ [][JNext]_jvars /\ JFairness

-----------------------------------------------------------------------------
(* Properties *)

\* disk.go: the state follows the space: space that stays below the limit, or at or
\* above the recovery level, is noticed in the end.
DiskFollows ==
    /\ <>[](MinFree > 0 /\ free < MinFree) => <>[](disk = "low")
    /\ <>[](free >= RecoverThreshold) => <>[](disk = "ok")
=============================================================================
