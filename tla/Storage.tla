------------------------------- MODULE Storage -------------------------------
(***************************************************************************)
(* A data directory on disk: the steps of store.Open (lock, migrate,       *)
(* recover, mark dirty), Store.Close, crashes between any two steps, the   *)
(* steps of `messq backup` beside a running or stopped daemon, and the     *)
(* operator's restore (docs/backup-restore.md).  Every database            *)
(* transaction is one step.  One stream stands for all of them.            *)
(***************************************************************************)
EXTENDS Naturals, Sequences, FiniteSets, FiniteSetsExt, Functions

CONSTANTS
    Procs,        \* processes that open the directory
    Ships,        \* Ships[p]: the schema version p's binary carries
    ReadOnly,     \* processes that open with Options.ReadOnly
    HandsOff,     \* processes that give the writer handle to the engine (serve)
    Backups,      \* `messq backup` runs
    VerifyModes,  \* the --verify values in use: "quick", "none"
    MaxSeq,       \* bound: sequence numbers published
    MaxFaults,    \* bound: crashes
    MaxRestores   \* bound: restores

ASSUME ConstantsAssumption ==
    /\ Ships \in [Procs -> Nat \ {0}]
    /\ ReadOnly \subseteq Procs /\ HandsOff \subseteq Procs
    /\ VerifyModes \subseteq {"quick", "none"}

VARIABLES
    db,       \* messq.db with its WAL: what a new connection reads
    pc,       \* pc[p]: the next step of p's Open, or where p is after it
    from,     \* from[p]: the schema version p's migrate found
    lock,     \* the processes holding the flock of the LOCK file
    bk,       \* bk[b]: one backup run: its step and what it has read
    temps,    \* the temp directories beside the destination
    aged,     \* the temp directories untouched for more than an hour
    dest,     \* the destination file
    faults    \* crashes so far

vars == <<db, pc, from, lock, bk, temps, aged, dest, faults>>

-----------------------------------------------------------------------------
(***************************************************************************)
(* A database: schema_version (0: no meta table), the user_version mirror, *)
(* the migrations whose recorded checksum matches, the clean_shutdown      *)
(* marker, node_id, the snapshot_* and restored_* rows, stream_seq.next,   *)
(* the messages, the deliveries INFLIGHT, and the announcements of a       *)
(* restore in the events table, each by the number of the restore it is    *)
(* about.  wal: frames may be left in a WAL beside messq.db that nobody    *)
(* has open.  The rest is history: the number of restores behind this      *)
(* file, whether the session that last served it was not closed, whether   *)
(* the newest start said so, whether a crash damaged it after such a       *)
(* session began (damaged) or with none begun (unseen), and whether an old *)
(* WAL was replayed onto a restored file (mixed).                          *)
(***************************************************************************)
Absent == "absent"
NoDatabase == [version |-> 0, user |-> 0, sums |-> {}, marker |-> Absent,
               node |-> Absent, snapshot |-> FALSE, restored |-> FALSE,
               next |-> 1, msgs |-> {}, inflight |-> {}, announced |-> <<>>,
               wal |-> FALSE, restores |-> 0, dirty |-> FALSE, noticed |-> FALSE,
               damaged |-> FALSE, unseen |-> FALSE, mixed |-> FALSE]

\* A file left by a build of the ladder's first version; its checksums may be
\* another build's, which is what verifyLadderState calls drift.
Established == [NoDatabase EXCEPT !.version = 1, !.user = 1, !.sums = {1},
                                  !.marker = "1", !.node = "n0"]
Databases == {NoDatabase, Established, [Established EXCEPT !.sums = {}]}

Idle == [step |-> "idle", head |-> 0, version |-> 0, copy |-> NoDatabase,
         verify |-> "quick"]

Init ==
    /\ db \in Databases
    /\ pc = [p \in Procs |-> "down"]
    /\ from = [p \in Procs |-> 0]
    /\ lock = {}
    /\ bk = [b \in Backups |-> Idle]
    /\ temps = {} /\ aged = {}
    /\ dest = NoDatabase
    /\ faults = 0

Goto(p, at) == pc' = [pc EXCEPT ![p] = at]

\* Store.cleanup: a failed Open closes its handles and drops the flock.
cleanup(p) == Goto(p, "down") /\ lock' = lock \ {p}

files == <<bk, temps, aged, dest, faults>>

-----------------------------------------------------------------------------
(* Open. *)

\* ensureDataDir and initDBFile: the directory and an empty file exist.
ensureDataDir(p) ==
    /\ pc[p] = "down"
    /\ Goto(p, "lock")
    /\ UNCHANGED <<db, from, lock, files>>

\* flock, exclusive for a writer and shared for a reader, never waiting.
lockDataDir(p) ==
    /\ pc[p] = "lock"
    /\ IF IF p \in ReadOnly THEN lock \subseteq ReadOnly ELSE lock = {}
       THEN lock' = lock \cup {p}
            /\ Goto(p, IF p \in ReadOnly THEN "inspect" ELSE "migrate")
       ELSE cleanup(p)
    /\ UNCHANGED <<db, from, files>>

\* readOnDiskIdentity, and the session a read-only Open returns.
readOnDiskIdentity(p) ==
    /\ pc[p] = "inspect"
    /\ Goto(p, "inspecting")
    /\ UNCHANGED <<db, from, lock, files>>

\* verifyLadderState: the mirror and the checksum of every applied migration.
verifyLadderState == db.user = db.version /\ 1..db.version \subseteq db.sums

\* migrate: one transaction climbs the ladder, or refuses and rolls back.  A
\* WAL left behind was merged when initEmptyDatabase closed its connection.
migrate(p) ==
    /\ pc[p] = "migrate"
    /\ IF db.version > Ships[p] \/ (db.version > 0 /\ ~verifyLadderState)
       THEN cleanup(p) /\ UNCHANGED <<db, from>>
       ELSE /\ db' = [db EXCEPT !.version = Ships[p], !.user = Ships[p],
                                !.sums = @ \cup 1..Ships[p], !.wal = FALSE]
            /\ from' = [from EXCEPT ![p] = db.version]
            /\ Goto(p, "bookkeeping")
            /\ UNCHANGED lock
    /\ UNCHANGED files

\* ensureCreationBookkeeping: node_id is minted once and kept for ever.
ensureCreationBookkeeping(p) ==
    /\ pc[p] = "bookkeeping"
    /\ db' = [db EXCEPT !.node = IF @ = Absent THEN p ELSE @]
    /\ Goto(p, "marker")
    /\ UNCHANGED <<from, lock, files>>

\* The marker of the last session: absent or "0" on a directory this Open did
\* not create is an unclean stop, recorded and followed by quick_check.
readMarker(p) ==
    /\ pc[p] = "marker"
    /\ LET unclean == from[p] > 0 /\ db.marker \in {Absent, "0"} IN
        /\ db' = [db EXCEPT !.noticed = unclean]
        /\ Goto(p, IF unclean THEN "check" ELSE "provenance")
    /\ from' = [from EXCEPT ![p] = 0]
    /\ UNCHANGED <<lock, files>>

\* What quick_check finds: the damage a crash did, whenever it did it.
quickCheckFails(d) == d.damaged \/ d.unseen

runStartupCheck(p) ==
    /\ pc[p] = "check"
    /\ IF quickCheckFails(db) THEN cleanup(p) ELSE Goto(p, "provenance") /\ UNCHANGED lock
    /\ UNCHANGED <<db, from, files>>

\* (as a bug) the restored_* rows first, the sweep in a second transaction.
SplitProvenance(p) ==
    /\ pc[p] = "provenance"
    /\ db' = [db EXCEPT !.announced = IF db.snapshot THEN Append(@, db.restores) ELSE @,
                        !.snapshot = @ /\ ~db.restored,
                        !.restored = @ \/ db.snapshot]
    /\ Goto(p, IF db'.snapshot THEN "provenance" ELSE "reclaim")
    /\ UNCHANGED <<from, lock, files>>

\* detectRestoredProvenance: the stamp of a snapshot becomes restored_* rows,
\* its own rows go, and one admin.action row announces the restore, in one
\* transaction; without a stamp nothing is written (loadRestoredProvenance).
detectRestoredProvenance(p) ==
    /\ pc[p] = "provenance"
    /\ db' = IF db.snapshot
             THEN [db EXCEPT !.snapshot = FALSE, !.restored = TRUE,
                             !.announced = Append(@, db.restores)]
             ELSE db
    /\ Goto(p, "reclaim")
    /\ UNCHANGED <<from, lock, files>>

\* reclaimLeasesAndTrimDedup: every INFLIGHT row is READY again.
reclaimLeases(p) ==
    /\ pc[p] = "reclaim"
    /\ db' = [db EXCEPT !.inflight = {}]
    /\ Goto(p, "dirty")
    /\ UNCHANGED <<from, lock, files>>

\* (as a bug) the dirty mark is forgotten.
NeverMarkedDirty(p) ==
    /\ pc[p] = "dirty"
    /\ db' = [db EXCEPT !.dirty = TRUE]
    /\ Goto(p, "open")
    /\ UNCHANGED <<from, lock, files>>

\* The interrupted reaps are finished (module Streams), the WAL checkpointed,
\* and last the directory is marked dirty; Open returns.
markDirty(p) ==
    /\ pc[p] = "dirty"
    /\ db' = [db EXCEPT !.marker = "0", !.dirty = TRUE]
    /\ Goto(p, "open")
    /\ UNCHANGED <<from, lock, files>>

\* A step of Open fails (the disk, a cancelled context): everything opened on
\* the way is released, what was committed stays.
OpenFails(p) ==
    /\ pc[p] \in {"migrate", "bookkeeping", "marker", "check", "provenance",
                  "reclaim", "dirty", "inspect"}
    /\ faults < MaxFaults
    /\ faults' = faults + 1
    /\ cleanup(p)
    /\ UNCHANGED <<db, from, bk, temps, aged, dest>>

-----------------------------------------------------------------------------
(* The open store, its end, and the operator. *)

\* What a served directory commits: publishes, leases, and removals (an
\* acknowledged work-queue message, retention, purge).
Serve(p) ==
    /\ pc[p] = "open"
    /\ \/ /\ db.next <= MaxSeq
          /\ db' = [db EXCEPT !.next = @ + 1, !.msgs = @ \cup {db.next}]
       \/ \E s \in db.msgs \ db.inflight : db' = [db EXCEPT !.inflight = @ \cup {s}]
       \/ \E s \in db.msgs : db' = [db EXCEPT !.msgs = @ \ {s}, !.inflight = @ \ {s}]
    /\ UNCHANGED <<pc, from, lock, files>>

\* The connection of a backup beside the daemon: while it is open the WAL stays.
Connected == \E b \in Backups : bk[b].step \in {"temp", "heads"}

\* Store.Close: the marker is written unless the writer handle was given away;
\* the read pool, the handle and the flock go, and the last connection to the
\* file merges the WAL.
Close(p) ==
    /\ pc[p] \in {"open", "inspecting"}
    /\ db' = CASE pc[p] = "inspecting" -> db
               [] pc[p] = "open" /\ p \in HandsOff -> [db EXCEPT !.wal = Connected]
               [] OTHER -> [db EXCEPT !.marker = "1", !.dirty = FALSE, !.wal = Connected]
    /\ cleanup(p)
    /\ UNCHANGED <<from, files>>

\* The steps at which a process has the database open for writing.
WriterSteps == {"migrate", "bookkeeping", "marker", "check", "provenance",
                "reclaim", "dirty", "open"}

\* The process dies: the kernel drops its flock, and a writer leaves its WAL.
\* A machine that dies under a writer, one still in Open included, may damage
\* the file.
Crash(p) ==
    /\ pc[p] # "down"
    /\ faults < MaxFaults
    /\ faults' = faults + 1
    /\ IF pc[p] \notin WriterSteps THEN db' = db
       ELSE \/ db' = [db EXCEPT !.wal = TRUE]
            \/ db.dirty /\ db' = [db EXCEPT !.wal = TRUE, !.damaged = TRUE]
            \/ ~db.dirty /\ db' = [db EXCEPT !.wal = TRUE, !.unseen = TRUE]
    /\ cleanup(p)
    /\ UNCHANGED <<from, bk, temps, aged, dest>>

\* The operator's restore with nobody in the directory: the snapshot replaces
\* messq.db, and nothing else is removed.  The frames of a WAL left there are
\* replayed onto it: what is read then are rows of the snapshot or of the old
\* file, on pages that may not belong together.
Restore ==
    /\ \A p \in Procs : pc[p] = "down"
    /\ dest.version > 0
    /\ db.restores < MaxRestores
    /\ \/ db' = [dest EXCEPT !.restores = @ + 1]
       \/ /\ db.wal
          /\ \E read \in {dest, db}, torn \in BOOLEAN :
                db' = [read EXCEPT !.restores = dest.restores + 1, !.wal = TRUE,
                                   !.unseen = @ \/ torn, !.mixed = TRUE]
    /\ UNCHANGED <<pc, from, lock, files>>

-----------------------------------------------------------------------------
(* messq backup. *)

store == <<db, pc, from, lock, faults>>
At(b, step) == bk[b].step = step
Advance(b, r) == bk' = [bk EXCEPT ![b] = r]

\* Plan: the refusals, all before a page is copied; the source's identity.
\* An existing destination is refused without --force.
Plan(b) ==
    /\ At(b, "idle")
    /\ db.version > 0
    /\ \E v \in VerifyModes, force \in BOOLEAN :
        /\ force \/ dest = NoDatabase
        /\ Advance(b, [Idle EXCEPT !.step = "planned", !.version = db.version, !.verify = v])
    /\ UNCHANGED <<temps, aged, dest, store>>

NewTempDir(b) ==
    /\ At(b, "planned")
    /\ temps' = temps \cup {b}
    /\ Advance(b, [bk[b] EXCEPT !.step = "temp"])
    /\ UNCHANGED <<aged, dest, store>>

\* readStreamHeads and the INFLIGHT count: a statement of its own, before the
\* copy; the head is stream_seq.next - 1.
readStreamHeads(b) ==
    /\ At(b, "temp")
    /\ Advance(b, [bk[b] EXCEPT !.step = "heads", !.head = db.next - 1])
    /\ UNCHANGED <<temps, aged, dest, store>>

\* VACUUM INTO: one read transaction, so the copy is the source as it was; no
\* start has looked at the new file yet.
VacuumInto(b) ==
    /\ At(b, "heads") /\ b \in temps
    /\ Advance(b, [bk[b] EXCEPT !.step = "copied",
                                !.copy = [db EXCEPT !.wal = FALSE, !.noticed = FALSE]])
    /\ aged' = aged \ {b}
    /\ UNCHANGED <<temps, dest, store>>

\* stamp: the snapshot_* rows and clean_shutdown=1, in the copy.
stamp(b) ==
    /\ At(b, "copied") /\ b \in temps
    /\ Advance(b, [bk[b] EXCEPT !.step = "stamped",
                                !.copy.snapshot = TRUE, !.copy.marker = "1",
                                !.copy.dirty = FALSE])
    /\ aged' = aged \ {b}
    /\ UNCHANGED <<temps, dest, store>>

HeadOf(d) == IF d.msgs = {} THEN 0 ELSE Max(d.msgs)

\* What selfCheck asserts of the copy unless --verify none.
selfCheck(r) ==
    r.verify = "none" \/ ( /\ ~quickCheckFails(r.copy)
                           /\ r.copy.version = r.version
                           /\ HeadOf(r.copy) >= r.head )

RemoveTemp(b, r) ==
    /\ temps' = temps \ {b}
    /\ aged' = aged \ {b}
    /\ Advance(b, r)

Check(b) ==
    /\ At(b, "stamped") /\ b \in temps
    /\ IF selfCheck(bk[b])
       THEN Advance(b, [bk[b] EXCEPT !.step = "checked"]) /\ UNCHANGED <<temps, aged>>
       ELSE RemoveTemp(b, [bk[b] EXCEPT !.step = "rejected"])
    /\ UNCHANGED <<dest, store>>

\* (as a bug) the copy gets its name before it is stamped and checked.
RenameBeforeStamp(b) ==
    /\ bk[b].step \in {"copied", "checked"} /\ b \in temps
    /\ dest' = bk[b].copy
    /\ Advance(b, [bk[b] EXCEPT !.step = IF @ = "copied" THEN "stamped" ELSE "renamed"])
    /\ aged' = aged \ {b}
    /\ UNCHANGED <<temps, store>>

\* chmod, fsync, rename, fsync of the parent.
RenameIntoPlace(b) ==
    /\ At(b, "checked") /\ b \in temps
    /\ dest' = bk[b].copy
    /\ Advance(b, [Idle EXCEPT !.step = "renamed"])
    /\ aged' = aged \ {b}
    /\ UNCHANGED <<temps, store>>

\* SweepStale: every temp directory older than an hour goes, whoever owns it;
\* the run's own empty one stays behind.
SweepStale(b) ==
    /\ At(b, "renamed")
    /\ temps' = temps \ aged
    /\ aged' = {}
    /\ Advance(b, [Idle EXCEPT !.step = "done"])
    /\ UNCHANGED <<dest, store>>

\* A run to another file in the same directory ends, and sweeps there too.
OtherRunSweeps ==
    /\ aged # {}
    /\ temps' = temps \ aged
    /\ aged' = {}
    /\ UNCHANGED <<bk, dest, store>>

\* A run fails (its temp directory was swept away, the disk, a signal) and
\* removes its temp directory, or is killed and leaves it.
BackupFails(b) ==
    /\ bk[b].step \notin {"idle", "done", "rejected", "failed"}
    /\ \/ RemoveTemp(b, [Idle EXCEPT !.step = "failed"]) /\ (b \notin temps \/ faults < MaxFaults)
       \/ /\ Advance(b, [Idle EXCEPT !.step = "failed"])
          /\ faults < MaxFaults
          /\ UNCHANGED <<temps, aged>>
    /\ faults' = IF b \in temps THEN faults + 1 ELSE faults
    /\ UNCHANGED <<dest, db, pc, from, lock>>

\* An hour passes without a new entry in a temp directory.
Age ==
    /\ temps # aged
    /\ aged' = temps
    /\ UNCHANGED <<bk, temps, dest, store>>

-----------------------------------------------------------------------------
Next ==
    \/ \E p \in Procs :
        \/ ensureDataDir(p) \/ lockDataDir(p) \/ readOnDiskIdentity(p) \/ migrate(p)
        \/ ensureCreationBookkeeping(p) \/ readMarker(p) \/ runStartupCheck(p)
        \/ detectRestoredProvenance(p) \/ reclaimLeases(p) \/ markDirty(p)
        \/ OpenFails(p) \/ Serve(p) \/ Close(p) \/ Crash(p)
    \/ Restore
    \/ \E b \in Backups :
        \/ Plan(b) \/ NewTempDir(b) \/ readStreamHeads(b) \/ VacuumInto(b) \/ stamp(b)
        \/ Check(b) \/ RenameIntoPlace(b) \/ SweepStale(b) \/ BackupFails(b)
    \/ Age \/ OtherRunSweeps

Spec == Init /\ [][Next]_vars

-----------------------------------------------------------------------------
\* A session that was served and not closed is noticed by the next start that
\* serves, whatever Opens failed or crashed in between, and through a restore
\* only if the stamp called the copy clean (store.go: unclean detection).
CrashStep == \A p \in Procs : markDirty(p) => (db.dirty => db.noticed)
CrashIsSeen == [][CrashStep]_vars

\* A directory that is served has announced the restore it comes from, and no
\* restore behind it twice, however often Open was interrupted (provenance.go:
\* "emits exactly one admin.action row announcing the restore"), and holds no
\* stamp any more.  A copy that was restored and never opened before it was
\* backed up again is announced by nobody: only the newest restore is owed.
\* Of a file an old WAL was replayed onto, only the stamp's absence is certain:
\* its rows may be the old file's.
AnnouncedOnce ==
    \A p \in Procs : pc[p] = "open" =>
        /\ ~db.snapshot
        /\ ~db.mixed =>
            /\ IsInjective(db.announced)
            /\ db.restores > 0 => db.restores \in Range(db.announced)

\* The destination is absent or one finished run's whole copy: a source state
\* of one instant, stamped, marked clean; never one in the making, whichever
\* runs overlap, fail, are killed or lose their temp directory to a sweep.
DestinationWhole ==
    dest # NoDatabase =>
        /\ dest.snapshot /\ dest.marker = "1"
        /\ dest.user = dest.version /\ dest.version > 0
        /\ quickCheckFails(dest) => "none" \in VerifyModes

\* What a crash damages after a session began that was never closed, be it
\* while serving or in any later Open, is never served, through any number of
\* failed and crashed Opens, unless a backup's check was skipped: the marker
\* stays "0" until a start has checked, and a backup of a damaged file is
\* refused.  Damage done by a crash inside Open after a clean stop, before the
\* directory is marked dirty, and by a replayed WAL, is not promised to be seen.
DamageNotServed ==
    "none" \notin VerifyModes => \A p \in Procs : pc[p] = "open" => ~db.damaged

\* The same of damage from any crash and from any WAL.
NoDamageServed ==
    "none" \notin VerifyModes => \A p \in Procs : pc[p] = "open" => ~quickCheckFails(db)

\* What a process serves has been announced, and the damage of an unclosed
\* session has been found before (store.go, provenance.go: the steps of Open).
ServedIsSound == AnnouncedOnce /\ DamageNotServed

\* selfCheck rejects no copy that is the source as it was at one instant
\* (docs/backup-restore.md: "The snapshot is consistent while the daemon runs
\* and after it stops").
GoodCopyAccepted ==
    \A b \in Backups : At(b, "rejected") =>
        quickCheckFails(bk[b].copy) \/ bk[b].copy.version # bk[b].version
=============================================================================
