---------------------------- MODULE StorageProofs ----------------------------
(***************************************************************************)
(* Proofs about the data directory.  Storage: one process writes at a      *)
(* time, a served directory is announced and sound, a backup's destination *)
(* is whole, and no unclean stop is overwritten unnoticed, for any         *)
(* processes, builds, backups and bounds.  Verify: messq verify is silent  *)
(* about every state the commands reach and reports every out-of-band      *)
(* write, for any bounds.                                                  *)
(***************************************************************************)
EXTENDS MCDisk, TLAPS, FiniteSetTheorems, WellFoundedInduction, NaturalsInduction

-----------------------------------------------------------------------------
(* The inductive invariant. *)

\* Where a process holds the shared flock; WriterSteps, the exclusive one.
ReaderSteps == {"inspect", "inspecting"}
RunSteps == {"idle", "planned", "temp", "heads", "copied", "stamped", "checked",
             "renamed", "done", "rejected", "failed"}

Database == [version : Nat, user : Nat, sums : SUBSET Nat,
             marker : {Absent, "0", "1"}, node : {Absent, "n0"} \cup Procs,
             snapshot : BOOLEAN, restored : BOOLEAN, next : Nat, msgs : SUBSET Nat,
             inflight : SUBSET Nat, announced : Seq(Nat), wal : BOOLEAN,
             restores : Nat, dirty : BOOLEAN, noticed : BOOLEAN,
             damaged : BOOLEAN, unseen : BOOLEAN, mixed : BOOLEAN]

RunRecord == [step : RunSteps, head : Int, version : Nat, copy : Database,
              verify : {"quick", "none"}]
Places == WriterSteps \cup ReaderSteps \cup {"down", "lock"}

TypeOK ==
    /\ db \in Database
    /\ pc \in [Procs -> Places]
    /\ from \in [Procs -> Nat]
    /\ lock \subseteq Procs
    /\ bk \in [Backups -> RunRecord]
    /\ temps \subseteq Backups /\ aged \subseteq Backups
    /\ dest \in Database
    /\ faults \in Nat

\* The flock file names exactly the processes past the lock step: one writer,
\* or readers.
LockInv ==
    \A p \in Procs :
        /\ pc[p] \in {"down", "lock"} => p \notin lock
        /\ pc[p] \in WriterSteps => p \notin ReadOnly /\ lock = {p}
        /\ pc[p] \in ReaderSteps => p \in ReadOnly /\ p \in lock

\* Nobody skips the backup's check.
Checked == "none" \notin VerifyModes
Ascends(s) == \A i, j \in DOMAIN s : i < j => s[i] < s[j]

\* The announcements in the events table of d, oldest first, are of different
\* restores behind d.  An old WAL replayed onto a restored file voids this.
ToldUpTo(d) ==
    ~d.mixed =>
        /\ Ascends(d.announced)
        /\ \A i \in DOMAIN d.announced : d.announced[i] <= d.restores

\* The file between any two steps: the mirror agrees, a session that was not
\* closed left the marker "0", damaged comes with an unclosed session only, and
\* either the stamp is there and its restore not yet announced, or it is gone
\* and the newest restore announced.
DbOK(d) ==
    /\ d.user = d.version
    /\ d.dirty => d.marker = "0" /\ d.version > 0
    /\ Checked /\ d.damaged => d.dirty
    /\ ToldUpTo(d)
    /\ ~d.mixed /\ d.snapshot => \A i \in DOMAIN d.announced : d.announced[i] < d.restores
    /\ ~d.mixed /\ ~d.snapshot /\ d.restores > 0 => \E i \in DOMAIN d.announced : d.announced[i] = d.restores

\* What a process at step s that found schema version f knows about the file d.
PhaseOK(s, f, d) ==
    /\ s \in {"bookkeeping", "marker"} => d.version > 0 /\ (f = 0 => ~d.dirty)
    /\ s \in {"check", "provenance", "reclaim", "dirty"} => d.version > 0 /\ (d.dirty => d.noticed)
    /\ s \in {"provenance", "reclaim", "dirty", "open"} => ~(Checked /\ d.damaged)
    /\ s \in {"reclaim", "dirty", "open"} => ~d.snapshot
    /\ s = "open" => d.dirty
PhaseInv == \A p \in Procs : PhaseOK(pc[p], from[p], db)

\* What a backup run has in hand: a copy of the file as it was, then stamped,
\* then checked.
CopyOK(r) ==
    /\ r.step \in {"planned", "temp", "heads", "copied", "stamped", "checked"} =>
        r.verify \in VerifyModes
    /\ r.step \in {"copied", "stamped", "checked"} =>
        /\ r.copy.user = r.copy.version /\ r.copy.version > 0
        /\ ToldUpTo(r.copy)
    /\ r.step \in {"stamped", "checked"} =>
        r.copy.snapshot /\ r.copy.marker = "1" /\ ~r.copy.dirty
    /\ r.step = "checked" => ~(Checked /\ quickCheckFails(r.copy))

BackupInv ==
    \A b \in Backups :
        /\ CopyOK(bk[b])
        /\ bk[b].step \in {"planned", "temp", "heads"} => db.version > 0

DestInv ==
    dest # NoDatabase =>
        /\ dest.snapshot /\ dest.marker = "1" /\ ~dest.dirty
        /\ dest.user = dest.version /\ dest.version > 0
        /\ ~(Checked /\ quickCheckFails(dest))
        /\ ToldUpTo(dest)

IInv == TypeOK /\ LockInv /\ DbOK(db) /\ PhaseInv /\ BackupInv /\ DestInv

-----------------------------------------------------------------------------
(* Types. *)

LEMMA NoDatabaseType == NoDatabase \in Database
  <1>1. <<>> \in Seq(Nat)  OBVIOUS
  <1> QED  BY <1>1, SMTT(30) DEF NoDatabase, Database, Absent

LEMMA IdleType == \A s \in RunSteps : [Idle EXCEPT !.step = s] \in RunRecord
  BY NoDatabaseType DEF Idle, RunRecord, RunSteps

LEMMA TypeInit == Init => TypeOK
  <1> SUFFICES ASSUME Init PROVE TypeOK  OBVIOUS
  <1>1. db \in Database
    <2>1. CASE db = NoDatabase  BY <2>1, NoDatabaseType
    <2>0. <<>> \in Seq(Nat)  OBVIOUS
    <2>2. CASE db = Established
      <3>1. {1} \in SUBSET Nat /\ 1 \in Nat  OBVIOUS
      <3> QED  BY <2>2, <3>1, NoDatabaseType, ZenonT(30) DEF Established, Database, Absent
    <2>3. CASE db = [Established EXCEPT !.sums = {}]
      BY <2>0, <2>3 DEF Established, NoDatabase, Database, Absent
    <2> QED  BY <2>1, <2>2, <2>3 DEF Init, Databases
  <1>2. Idle \in RunRecord  BY NoDatabaseType DEF Idle, RunRecord, RunSteps
  <1>3. bk \in [Backups -> RunRecord]  BY <1>2 DEF Init
  <1> QED  BY <1>1, <1>3, NoDatabaseType DEF Init, TypeOK, Places

LEMMA GotoType ==
  ASSUME TypeOK, NEW p \in Procs, NEW at \in Places, Goto(p, at)
  PROVE  pc' \in [Procs -> Places]
  BY DEF TypeOK, Goto, Places

LEMMA CleanupType ==
  ASSUME TypeOK, NEW p \in Procs, cleanup(p)
  PROVE  pc' \in [Procs -> Places] /\ lock' \subseteq Procs
  BY GotoType DEF cleanup, Places, TypeOK

\* stamp's record, and what it does to the run.
StampedRun(r) == [r EXCEPT !.step = "stamped", !.copy.snapshot = TRUE,
                           !.copy.marker = "1", !.copy.dirty = FALSE]
StampedCopy(d) == [d EXCEPT !.snapshot = TRUE, !.marker = "1", !.dirty = FALSE]

LEMMA StampedRunIs ==
  ASSUME NEW r \in RunRecord
  PROVE  /\ StampedRun(r).step = "stamped"
         /\ StampedRun(r).copy = StampedCopy(r.copy)
         /\ StampedRun(r).verify = r.verify
         /\ StampedRun(r) = [r EXCEPT !.step = "stamped", !.copy = StampedCopy(r.copy)]
  BY DEF StampedRun, StampedCopy, RunRecord, Database

LEMMA StampedCopyIs ==
  ASSUME NEW d \in Database
  PROVE  /\ StampedCopy(d) \in Database
         /\ StampedCopy(d).snapshot /\ StampedCopy(d).marker = "1" /\ ~StampedCopy(d).dirty
         /\ StampedCopy(d).user = d.user /\ StampedCopy(d).version = d.version
         /\ StampedCopy(d).announced = d.announced /\ StampedCopy(d).restores = d.restores
         /\ StampedCopy(d).mixed = d.mixed
  BY DEF StampedCopy, Database

LEMMA StampedRunType == \A r \in RunRecord : StampedRun(r) \in RunRecord
  <1> SUFFICES ASSUME NEW r \in RunRecord PROVE StampedRun(r) \in RunRecord  OBVIOUS
  <1>1. StampedCopy(r.copy) \in Database  BY StampedCopyIs DEF RunRecord
  <1> QED  BY <1>1, StampedRunIs DEF RunRecord, RunSteps

\* What Close writes, and what is read after a restore over a left WAL.
LEMMA CloseCases ==
  ASSUME NEW p \in Procs, Close(p)
  PROVE  \E w \in BOOLEAN :
            \/ db' = db
            \/ db' = [db EXCEPT !.wal = w]
            \/ pc[p] = "open" /\ db' = [db EXCEPT !.marker = "1", !.dirty = FALSE, !.wal = w]
  <1> DEFINE w == Connected
  <1>1. w \in BOOLEAN  BY DEF Connected
  <1>2. \/ db' = db
        \/ db' = [db EXCEPT !.wal = w]
        \/ pc[p] = "open" /\ db' = [db EXCEPT !.marker = "1", !.dirty = FALSE, !.wal = w]
    <2>1. pc[p] = "open" \/ pc[p] = "inspecting"  BY DEF Close
    <2> HIDE DEF w
    <2> QED  BY <2>1 DEF Close, w
  <1> HIDE DEF w
  <1> QED  BY <1>1, <1>2

Replayed(d, u) == [d EXCEPT !.restores = dest.restores + 1, !.wal = TRUE,
                            !.unseen = u, !.mixed = TRUE]

LEMMA RestoreCases ==
  ASSUME Restore, db \in Database, dest \in Database
  PROVE  \/ db' = [dest EXCEPT !.restores = @ + 1]
         \/ \E d \in {dest, db}, u \in BOOLEAN : db' = Replayed(d, u)
  <1>1. CASE db' = [dest EXCEPT !.restores = @ + 1]  BY <1>1
  <1>2. CASE db' # [dest EXCEPT !.restores = @ + 1]
    <2>1. PICK d \in {dest, db}, torn \in BOOLEAN :
             db' = [d EXCEPT !.restores = dest.restores + 1, !.wal = TRUE,
                             !.unseen = @ \/ torn, !.mixed = TRUE]
      BY <1>2, Zenon DEF Restore
    <2> DEFINE u == d.unseen \/ torn
    <2>2. u \in BOOLEAN  OBVIOUS
    <2>3. db' = Replayed(d, u)  BY <2>1, Zenon DEF Replayed
    <2> HIDE DEF u
    <2> QED  BY <2>2, <2>3
  <1> QED  BY <1>1, <1>2

LEMMA TypeStep == ASSUME TypeOK, [Next]_vars PROVE TypeOK'
  <1> USE ConstantsAssumption
  <1>1. ASSUME NEW p \in Procs, ensureDataDir(p) PROVE TypeOK'
    BY <1>1, GotoType DEF ensureDataDir, files, TypeOK, Places
  <1>2. ASSUME NEW p \in Procs, lockDataDir(p) PROVE TypeOK'
    <2>1. pc' \in [Procs -> Places] /\ lock' \subseteq Procs
      BY <1>2, GotoType, CleanupType DEF lockDataDir, TypeOK, Places, WriterSteps, ReaderSteps
    <2> QED  BY <2>1, <1>2 DEF lockDataDir, files, TypeOK
  <1>3. ASSUME NEW p \in Procs, readOnDiskIdentity(p) PROVE TypeOK'
    BY <1>3, GotoType DEF readOnDiskIdentity, files, TypeOK, Places, ReaderSteps
  <1>4. ASSUME NEW p \in Procs, migrate(p) PROVE TypeOK'
    <2>1. Ships[p] \in Nat  OBVIOUS
    <2>2. pc' \in [Procs -> Places] /\ lock' \subseteq Procs
      BY <1>4, GotoType, CleanupType DEF migrate, TypeOK, Places, WriterSteps
    <2>3. db' \in Database
      <3>1. CASE UNCHANGED db  BY <3>1 DEF TypeOK
      <3>2. CASE db' = [db EXCEPT !.version = Ships[p], !.user = Ships[p],
                                  !.sums = @ \cup 1..Ships[p], !.wal = FALSE]
        <4>1. db.sums \cup 1..Ships[p] \in SUBSET Nat  BY <2>1 DEF TypeOK, Database
        <4> QED  BY <3>2, <4>1, <2>1 DEF TypeOK, Database
      <3> QED  BY <1>4, <3>1, <3>2 DEF migrate
    <2>4. from' \in [Procs -> Nat]
      BY <1>4 DEF migrate, TypeOK, Database
    <2> QED  BY <1>4, <2>2, <2>3, <2>4 DEF migrate, files, TypeOK
  <1>5. ASSUME NEW p \in Procs, ensureCreationBookkeeping(p) PROVE TypeOK'
    <2>1. db' \in Database
      <3> DEFINE n == IF db.node = Absent THEN p ELSE db.node
      <3>1. n \in {Absent, "n0"} \cup Procs  BY DEF TypeOK, Database
      <3>2. db' = [db EXCEPT !.node = n]  BY <1>5 DEF ensureCreationBookkeeping
      <3> HIDE DEF n
      <3> QED  BY <3>1, <3>2 DEF TypeOK, Database
    <2>2. pc' \in [Procs -> Places]
      BY <1>5, GotoType DEF ensureCreationBookkeeping, Places, WriterSteps
    <2> QED  BY <1>5, <2>1, <2>2 DEF ensureCreationBookkeeping, files, TypeOK
  <1>6. ASSUME NEW p \in Procs, readMarker(p) PROVE TypeOK'
    <2> DEFINE unclean == from[p] > 0 /\ db.marker \in {Absent, "0"}
    <2>1. db' = [db EXCEPT !.noticed = unclean]  BY <1>6 DEF readMarker
    <2>2. unclean \in BOOLEAN  OBVIOUS
    <2>3. Goto(p, "check") \/ Goto(p, "provenance")  BY <1>6 DEF readMarker
    <2> HIDE DEF unclean
    <2>4. db' \in Database  BY <2>1, <2>2 DEF TypeOK, Database
    <2>5. pc' \in [Procs -> Places]  BY <2>3, GotoType DEF Places, WriterSteps
    <2> QED  BY <1>6, <2>4, <2>5 DEF readMarker, files, TypeOK
  <1>7. ASSUME NEW p \in Procs, runStartupCheck(p) PROVE TypeOK'
    <2>1. pc' \in [Procs -> Places] /\ lock' \subseteq Procs
      BY <1>7, GotoType, CleanupType DEF runStartupCheck, TypeOK, Places, WriterSteps
    <2> QED  BY <2>1, <1>7 DEF runStartupCheck, files, TypeOK
  <1>8. ASSUME NEW p \in Procs, detectRestoredProvenance(p) PROVE TypeOK'
    <2>1. Append(db.announced, db.restores) \in Seq(Nat)  BY DEF TypeOK, Database
    <2> DEFINE a == Append(db.announced, db.restores)
    <2>2. db' = db \/ db' = [db EXCEPT !.snapshot = FALSE, !.restored = TRUE, !.announced = a]
      BY <1>8 DEF detectRestoredProvenance
    <2> HIDE DEF a
    <2>3. db' \in Database
      <3>1. CASE db' = db  BY <3>1 DEF TypeOK
      <3>2. CASE db' = [db EXCEPT !.snapshot = FALSE, !.restored = TRUE, !.announced = a]
        <4>1. a \in Seq(Nat)  BY <2>1 DEF a
        <4> QED  BY <3>2, <4>1 DEF TypeOK, Database
      <3> QED  BY <2>2, <3>1, <3>2
    <2>4. pc' \in [Procs -> Places]
      BY <1>8, GotoType DEF detectRestoredProvenance, Places, WriterSteps
    <2> QED  BY <1>8, <2>3, <2>4 DEF detectRestoredProvenance, files, TypeOK
  <1>9. ASSUME NEW p \in Procs, reclaimLeases(p) PROVE TypeOK'
    <2>1. db' \in Database  BY <1>9 DEF reclaimLeases, TypeOK, Database
    <2>2. pc' \in [Procs -> Places]
      BY <1>9, GotoType DEF reclaimLeases, Places, WriterSteps
    <2> QED  BY <1>9, <2>1, <2>2 DEF reclaimLeases, files, TypeOK
  <1>10. ASSUME NEW p \in Procs, markDirty(p) PROVE TypeOK'
    <2>1. db' \in Database  BY <1>10 DEF markDirty, TypeOK, Database
    <2>2. pc' \in [Procs -> Places]  BY <1>10, GotoType DEF markDirty, Places, WriterSteps
    <2> QED  BY <1>10, <2>1, <2>2 DEF markDirty, files, TypeOK
  <1>11. ASSUME NEW p \in Procs, OpenFails(p) PROVE TypeOK'
    BY <1>11, CleanupType DEF OpenFails, TypeOK
  <1>12. ASSUME NEW p \in Procs, Serve(p) PROVE TypeOK'
    <2>1. db' \in Database
      <3>0. db.next \in Nat /\ db.msgs \in SUBSET Nat /\ db.inflight \in SUBSET Nat
        BY DEF TypeOK, Database
      <3>1. CASE db' = [db EXCEPT !.next = @ + 1, !.msgs = @ \cup {db.next}]
        <4>1. db.next + 1 \in Nat /\ db.msgs \cup {db.next} \in SUBSET Nat  BY <3>0
        <4> QED  BY <3>1, <4>1 DEF TypeOK, Database
      <3>2. ASSUME NEW s \in db.msgs \ db.inflight,
                   db' = [db EXCEPT !.inflight = @ \cup {s}]
            PROVE  db' \in Database
        <4>1. db.inflight \cup {s} \in SUBSET Nat  BY <3>0
        <4> QED  BY <3>2, <4>1 DEF TypeOK, Database
      <3>3. ASSUME NEW s \in db.msgs,
                   db' = [db EXCEPT !.msgs = @ \ {s}, !.inflight = @ \ {s}]
            PROVE  db' \in Database
        <4>1. db.msgs \ {s} \in SUBSET Nat /\ db.inflight \ {s} \in SUBSET Nat  BY <3>0
        <4> QED  BY <3>3, <4>1 DEF TypeOK, Database
      <3> QED  BY <1>12, <3>1, <3>2, <3>3 DEF Serve
    <2> QED  BY <1>12, <2>1 DEF Serve, files, TypeOK
  <1>13. ASSUME NEW p \in Procs, Close(p) PROVE TypeOK'
    <2>1. PICK w \in BOOLEAN :
             \/ db' = db
             \/ db' = [db EXCEPT !.wal = w]
             \/ db' = [db EXCEPT !.marker = "1", !.dirty = FALSE, !.wal = w]
      BY <1>13, CloseCases
    <2>2. db' \in Database
      <3>1. CASE db' = db  BY <3>1 DEF TypeOK
      <3>2. CASE db' = [db EXCEPT !.wal = w]  BY <3>2 DEF TypeOK, Database
      <3>3. CASE db' = [db EXCEPT !.marker = "1", !.dirty = FALSE, !.wal = w]
        BY <3>3 DEF TypeOK, Database
      <3> QED  BY <2>1, <3>1, <3>2, <3>3
    <2> QED  BY <1>13, <2>2, CleanupType DEF Close, files, TypeOK
  <1>14. ASSUME NEW p \in Procs, Crash(p) PROVE TypeOK'
    <2>1. \/ db' = db
          \/ db' = [db EXCEPT !.wal = TRUE]
          \/ db' = [db EXCEPT !.wal = TRUE, !.damaged = TRUE]
          \/ db' = [db EXCEPT !.wal = TRUE, !.unseen = TRUE]
      BY <1>14 DEF Crash
    <2>2. db' \in Database
      <3>1. CASE db' = db  BY <3>1 DEF TypeOK
      <3>2. CASE db' = [db EXCEPT !.wal = TRUE]  BY <3>2 DEF TypeOK, Database
      <3>3. CASE db' = [db EXCEPT !.wal = TRUE, !.damaged = TRUE]
        BY <3>3 DEF TypeOK, Database
      <3>4. CASE db' = [db EXCEPT !.wal = TRUE, !.unseen = TRUE]
        BY <3>4 DEF TypeOK, Database
      <3> QED  BY <2>1, <3>1, <3>2, <3>3, <3>4
    <2> QED  BY <1>14, <2>2, CleanupType DEF Crash, TypeOK
  <1>15. CASE Restore
    <2>1. db' \in Database
      <3>1. dest.restores + 1 \in Nat /\ dest \in Database /\ db \in Database
        BY DEF TypeOK, Database
      <3>2. CASE db' = [dest EXCEPT !.restores = @ + 1]  BY <3>1, <3>2 DEF Database
      <3>3. CASE db' # [dest EXCEPT !.restores = @ + 1]
        <4>1. PICK d \in Database, u \in BOOLEAN : db' = Replayed(d, u)
          BY <1>15, <3>1, <3>3, RestoreCases
        <4> QED  BY <3>1, <4>1 DEF Replayed, Database
      <3> QED  BY <3>2, <3>3
    <2> QED  BY <1>15, <2>1 DEF Restore, files, TypeOK
  <1>20. ASSUME NEW b \in Backups, NEW r \in RunRecord, Advance(b, r)
         PROVE  bk' \in [Backups -> RunRecord]
    BY <1>20 DEF Advance, TypeOK
  <1>21. ASSUME NEW b \in Backups PROVE bk[b] \in RunRecord
    BY DEF TypeOK
  <1>22. ASSUME NEW b \in Backups, Plan(b) PROVE TypeOK'
    <2>1. PICK v \in VerifyModes :
             Advance(b, [Idle EXCEPT !.step = "planned", !.version = db.version, !.verify = v])
      BY <1>22 DEF Plan
    <2>2. [Idle EXCEPT !.step = "planned", !.version = db.version, !.verify = v] \in RunRecord
      <3>1. db.version \in Nat /\ v \in {"quick", "none"}  BY DEF TypeOK, Database
      <3>2. Idle \in RunRecord  BY NoDatabaseType DEF Idle, RunRecord, RunSteps
      <3> QED  BY <3>1, <3>2 DEF RunRecord, RunSteps
    <2> QED  BY <1>20, <1>22, <2>1, <2>2 DEF Plan, store, TypeOK
  <1>23. ASSUME NEW b \in Backups, NewTempDir(b) PROVE TypeOK'
    <2>1. [bk[b] EXCEPT !.step = "temp"] \in RunRecord  BY <1>21 DEF RunRecord, RunSteps
    <2> QED  BY <1>20, <1>23, <2>1 DEF NewTempDir, store, TypeOK
  <1>24. ASSUME NEW b \in Backups, readStreamHeads(b) PROVE TypeOK'
    <2>1. db.next - 1 \in Int  BY DEF TypeOK, Database
    <2>2. [bk[b] EXCEPT !.step = "heads", !.head = db.next - 1] \in RunRecord
      BY <1>21, <2>1 DEF RunRecord, RunSteps
    <2> QED  BY <1>20, <1>24, <2>2 DEF readStreamHeads, store, TypeOK
  <1>25. ASSUME NEW b \in Backups, VacuumInto(b) PROVE TypeOK'
    <2>0. [db EXCEPT !.wal = FALSE, !.noticed = FALSE] \in Database  BY DEF TypeOK, Database
    <2>1. [bk[b] EXCEPT !.step = "copied",
                        !.copy = [db EXCEPT !.wal = FALSE, !.noticed = FALSE]] \in RunRecord
      BY <1>21, <2>0 DEF RunRecord, RunSteps
    <2> QED  BY <1>20, <1>25, <2>1 DEF VacuumInto, store, TypeOK
  <1>26. ASSUME NEW b \in Backups, stamp(b) PROVE TypeOK'
    <2>1. StampedRun(bk[b]) \in RunRecord  BY <1>21, StampedRunType
    <2> QED  BY <1>20, <1>26, <2>1 DEF stamp, StampedRun, store, TypeOK
  <1>27. ASSUME NEW b \in Backups, Check(b) PROVE TypeOK'
    <2>1. [bk[b] EXCEPT !.step = "checked"] \in RunRecord
          /\ [bk[b] EXCEPT !.step = "rejected"] \in RunRecord
      BY <1>21 DEF RunRecord, RunSteps
    <2> QED  BY <1>20, <1>27, <2>1 DEF Check, RemoveTemp, store, TypeOK
  <1>28. ASSUME NEW b \in Backups, RenameIntoPlace(b) PROVE TypeOK'
    <2>1. bk[b].copy \in Database  BY <1>21 DEF RunRecord
    <2>2. [Idle EXCEPT !.step = "renamed"] \in RunRecord  BY IdleType DEF RunSteps
    <2> QED  BY <1>20, <1>28, <2>1, <2>2 DEF RenameIntoPlace, store, TypeOK
  <1>29. ASSUME NEW b \in Backups, SweepStale(b) PROVE TypeOK'
    <2>1. [Idle EXCEPT !.step = "done"] \in RunRecord  BY IdleType DEF RunSteps
    <2> QED  BY <1>20, <1>29, <2>1 DEF SweepStale, store, TypeOK
  <1>30. ASSUME NEW b \in Backups, BackupFails(b) PROVE TypeOK'
    <2>1. [Idle EXCEPT !.step = "failed"] \in RunRecord  BY IdleType DEF RunSteps
    <2>2. Advance(b, [Idle EXCEPT !.step = "failed"])  BY <1>30 DEF BackupFails, RemoveTemp
    <2>3. bk' \in [Backups -> RunRecord]  BY <1>20, <2>1, <2>2
    <2>4. temps' \subseteq Backups /\ aged' \subseteq Backups
      BY <1>30 DEF BackupFails, RemoveTemp, TypeOK
    <2> QED  BY <1>30, <2>3, <2>4 DEF BackupFails, TypeOK
  <1>31. CASE Age  BY <1>31 DEF Age, store, TypeOK
  <1>32. CASE OtherRunSweeps  BY <1>32 DEF OtherRunSweeps, store, TypeOK
  <1>33. CASE UNCHANGED vars  BY <1>33 DEF vars, TypeOK
  <1> QED
    BY <1>1, <1>2, <1>3, <1>4, <1>5, <1>6, <1>7, <1>8, <1>9, <1>10, <1>11, <1>12, <1>13,
       <1>14, <1>15, <1>22, <1>23, <1>24, <1>25, <1>26, <1>27, <1>28, <1>29, <1>30, <1>31,
       <1>32, <1>33 DEF Next

-----------------------------------------------------------------------------
(* A step of a backup run reads the directory and leaves it as it is. *)

BackupStep(b) ==
    \/ Plan(b) \/ NewTempDir(b) \/ readStreamHeads(b) \/ VacuumInto(b) \/ stamp(b)
    \/ Check(b) \/ RenameIntoPlace(b) \/ SweepStale(b) \/ BackupFails(b)

LEMMA BackupLeavesStore ==
  ASSUME NEW b \in Backups, BackupStep(b)
  PROVE  db' = db /\ pc' = pc /\ from' = from /\ lock' = lock
  BY DEF BackupStep, Plan, NewTempDir, readStreamHeads, VacuumInto, stamp, Check,
         RenameIntoPlace, SweepStale, BackupFails, store

-----------------------------------------------------------------------------
(* The lock. *)

LEMMA GotoIs ==
  ASSUME TypeOK, NEW p \in Procs, NEW at, Goto(p, at)
  PROVE  pc'[p] = at /\ \A q \in Procs : q # p => pc'[q] = pc[q]
  BY DEF TypeOK, Goto

LEMMA LockKeep ==
  ASSUME TypeOK, LockInv, NEW p \in Procs, NEW at, Goto(p, at), lock' = lock,
         \/ pc[p] \in {"down", "lock"} /\ at \in {"down", "lock"}
         \/ pc[p] \in WriterSteps /\ at \in WriterSteps
         \/ pc[p] \in ReaderSteps /\ at \in ReaderSteps
  PROVE  LockInv'
  BY GotoIs DEF LockInv, WriterSteps, ReaderSteps

LEMMA LockDrop ==
  ASSUME TypeOK, LockInv, NEW p \in Procs, cleanup(p)
  PROVE  LockInv'
  <1>1. pc'[p] = "down" /\ \A q \in Procs : q # p => pc'[q] = pc[q]
    BY GotoIs DEF cleanup
  <1>2. lock' = lock \ {p}  BY DEF cleanup
  <1> SUFFICES ASSUME NEW q \in Procs
               PROVE  /\ pc'[q] \in {"down", "lock"} => q \notin lock'
                      /\ pc'[q] \in WriterSteps => q \notin ReadOnly /\ lock' = {q}
                      /\ pc'[q] \in ReaderSteps => q \in ReadOnly /\ q \in lock'
    BY DEF LockInv
  <1>3. CASE q = p  BY <1>1, <1>2, <1>3 DEF WriterSteps, ReaderSteps
  <1>4. CASE q # p  BY <1>1, <1>2, <1>4 DEF LockInv
  <1> QED  BY <1>3, <1>4

LEMMA LockSame == ASSUME LockInv, pc' = pc, lock' = lock PROVE LockInv'
  BY DEF LockInv

LEMMA LockStep == ASSUME TypeOK, LockInv, [Next]_vars PROVE LockInv'
  <1>1. ASSUME NEW p \in Procs, ensureDataDir(p) PROVE LockInv'
    BY <1>1, LockKeep DEF ensureDataDir
  <1>2. ASSUME NEW p \in Procs, lockDataDir(p) PROVE LockInv'
    <2>1. CASE cleanup(p)  BY <2>1, LockDrop
    <2>2. CASE ~cleanup(p)
      <3>1. lock' = lock \cup {p} /\ pc[p] = "lock"  BY <1>2, <2>2 DEF lockDataDir
      <3>2. CASE p \in ReadOnly
        <4>1. lock \subseteq ReadOnly /\ Goto(p, "inspect")  BY <1>2, <2>2, <3>2 DEF lockDataDir
        <4>2. pc'[p] = "inspect" /\ \A q \in Procs : q # p => pc'[q] = pc[q]
          BY <4>1, GotoIs
        <4> QED  BY <3>1, <3>2, <4>1, <4>2 DEF LockInv, WriterSteps, ReaderSteps
      <3>3. CASE p \notin ReadOnly
        <4>1. lock = {} /\ Goto(p, "migrate")  BY <1>2, <2>2, <3>3 DEF lockDataDir
        <4>2. pc'[p] = "migrate" /\ \A q \in Procs : q # p => pc'[q] = pc[q]
          BY <4>1, GotoIs
        <4>3. lock' = {p}  BY <3>1, <4>1
        <4>4. \A q \in Procs : pc[q] \notin WriterSteps /\ pc[q] \notin ReaderSteps
          BY <4>1 DEF LockInv
        <4> QED  BY <3>3, <4>2, <4>3, <4>4 DEF LockInv, WriterSteps, ReaderSteps
      <3> QED  BY <3>2, <3>3
    <2> QED  BY <2>1, <2>2
  <1>3. ASSUME NEW p \in Procs, readOnDiskIdentity(p) PROVE LockInv'
    BY <1>3, LockKeep DEF readOnDiskIdentity, ReaderSteps
  <1>4. ASSUME NEW p \in Procs, migrate(p) PROVE LockInv'
    BY <1>4, LockKeep, LockDrop DEF migrate, WriterSteps
  <1>5. ASSUME NEW p \in Procs, ensureCreationBookkeeping(p) PROVE LockInv'
    BY <1>5, LockKeep DEF ensureCreationBookkeeping, WriterSteps
  <1>6. ASSUME NEW p \in Procs, readMarker(p) PROVE LockInv'
    <2>1. Goto(p, "check") \/ Goto(p, "provenance")  BY <1>6 DEF readMarker
    <2>2. pc[p] = "marker" /\ lock' = lock  BY <1>6 DEF readMarker
    <2> QED  BY <2>1, <2>2, LockKeep DEF WriterSteps
  <1>7. ASSUME NEW p \in Procs, runStartupCheck(p) PROVE LockInv'
    BY <1>7, LockKeep, LockDrop DEF runStartupCheck, WriterSteps
  <1>8. ASSUME NEW p \in Procs, detectRestoredProvenance(p) PROVE LockInv'
    BY <1>8, LockKeep DEF detectRestoredProvenance, WriterSteps
  <1>9. ASSUME NEW p \in Procs, reclaimLeases(p) PROVE LockInv'
    BY <1>9, LockKeep DEF reclaimLeases, WriterSteps
  <1>10. ASSUME NEW p \in Procs, markDirty(p) PROVE LockInv'
    BY <1>10, LockKeep DEF markDirty, WriterSteps
  <1>11. ASSUME NEW p \in Procs, OpenFails(p) \/ Close(p) \/ Crash(p) PROVE LockInv'
    BY <1>11, LockDrop DEF OpenFails, Close, Crash
  <1>12. CASE pc' = pc /\ lock' = lock  BY <1>12, LockSame
  <1>13. ASSUME NEW p \in Procs, Serve(p) PROVE pc' = pc /\ lock' = lock
    BY <1>13 DEF Serve
  <1>14. ASSUME Restore \/ Age \/ OtherRunSweeps PROVE pc' = pc /\ lock' = lock
    BY <1>14 DEF Restore, Age, OtherRunSweeps, store
  <1>15. ASSUME NEW b \in Backups, BackupStep(b) PROVE pc' = pc /\ lock' = lock
    BY <1>15, BackupLeavesStore
  <1>16. CASE UNCHANGED vars  BY <1>16, <1>12 DEF vars
  <1> QED
    BY <1>1, <1>2, <1>3, <1>4, <1>5, <1>6, <1>7, <1>8, <1>9, <1>10, <1>11, <1>12, <1>13,
       <1>14, <1>15, <1>16 DEF Next, BackupStep

\* A process in a step that writes is alone.
LEMMA Alone ==
  ASSUME LockInv, NEW p \in Procs, NEW q \in Procs, q # p, pc[p] \in WriterSteps
  PROVE  pc[q] \notin WriterSteps
  BY DEF LockInv

-----------------------------------------------------------------------------
(* The database and what a process has found in it. *)

LEMMA PhaseIdle ==
  ASSUME NEW s, s \notin WriterSteps, NEW f, NEW d
  PROVE  PhaseOK(s, f, d)
  BY DEF PhaseOK, WriterSteps

\* A step of p that moves p alone, and writes only if p is alone.
LEMMA PhaseMove ==
  ASSUME TypeOK, LockInv, PhaseInv, NEW p \in Procs, NEW at, Goto(p, at),
         \A q \in Procs : q # p => from'[q] = from[q],
         pc[p] \in WriterSteps \/ db' = db,
         PhaseOK(at, from'[p], db')
  PROVE  PhaseInv'
  <1> SUFFICES ASSUME NEW q \in Procs PROVE PhaseOK(pc'[q], from'[q], db')
    BY DEF PhaseInv
  <1>1. pc'[p] = at /\ \A o \in Procs : o # p => pc'[o] = pc[o]  BY GotoIs
  <1>2. CASE q = p  BY <1>1, <1>2
  <1>3. CASE q # p
    <2>1. pc'[q] = pc[q] /\ from'[q] = from[q]  BY <1>1, <1>3
    <2>2. CASE pc[p] \in WriterSteps
      <3>1. pc[q] \notin WriterSteps  BY <1>3, <2>2, Alone
      <3>2. PhaseOK(pc[q], from[q], db')  BY <3>1, PhaseIdle
      <3> QED  BY <2>1, <3>2
    <2>3. CASE db' = db
      <3>1. PhaseOK(pc[q], from[q], db)  BY DEF PhaseInv
      <3> QED  BY <2>1, <2>3, <3>1
    <2> QED  BY <2>2, <2>3
  <1> QED  BY <1>2, <1>3

LEMMA PhaseSame ==
  ASSUME PhaseInv, pc' = pc, from' = from, db' = db PROVE PhaseInv'
  BY DEF PhaseInv

\* The parts of a database the invariant speaks of are those of d.
SameParts(e, d) ==
    /\ e.version = d.version /\ e.user = d.user /\ e.marker = d.marker
    /\ e.snapshot = d.snapshot /\ e.announced = d.announced /\ e.restores = d.restores
    /\ e.dirty = d.dirty /\ e.damaged = d.damaged /\ e.mixed = d.mixed

LEMMA SamePartsOK ==
  ASSUME NEW d, NEW e, DbOK(d), SameParts(e, d)
  PROVE  DbOK(e)
  BY DEF DbOK, ToldUpTo, SameParts

LEMMA AnnounceOK ==
  ASSUME NEW d \in Database, DbOK(d), d.snapshot, NEW e \in Database,
         e.version = d.version, e.user = d.user, e.marker = d.marker,
         ~e.snapshot, e.announced = Append(d.announced, d.restores),
         e.restores = d.restores, e.dirty = d.dirty, e.damaged = d.damaged,
         e.mixed = d.mixed
  PROVE  DbOK(e)
  <1> DEFINE a == d.announced
             n == Len(a)
             b == e.announced
  <1>1. a \in Seq(Nat) /\ n \in Nat /\ DOMAIN a = 1..n /\ d.restores \in Nat
    BY DEF Database
  <1>2. b = Append(a, d.restores)  OBVIOUS
  <1>3. /\ DOMAIN b = 1..(n + 1)
        /\ b[n + 1] = d.restores
        /\ \A i \in 1..n : b[i] = a[i]
    BY <1>1, <1>2
  <1>0. CASE d.mixed  BY <1>0 DEF DbOK, ToldUpTo
  <1> SUFFICES ASSUME ~d.mixed PROVE DbOK(e)  BY <1>0
  <1>4. \A i \in 1..n : a[i] \in Nat /\ a[i] < d.restores  BY <1>1 DEF DbOK
  <1>5. \A i, j \in 1..n : i < j => a[i] < a[j]  BY <1>1 DEF DbOK, ToldUpTo, Ascends
  <1> HIDE DEF a, n, b
  <1>6. ASSUME NEW i \in DOMAIN b, NEW j \in DOMAIN b, i < j PROVE b[i] < b[j]
    <2>1. i \in 1..n  BY <1>1, <1>3, <1>6
    <2>2. CASE j = n + 1  BY <2>1, <2>2, <1>3, <1>4
    <2>3. CASE j \in 1..n  BY <2>1, <2>3, <1>3, <1>5, <1>6
    <2> QED  BY <2>2, <2>3, <1>1, <1>3
  <1>7. ASSUME NEW i \in DOMAIN b PROVE b[i] <= d.restores
    <2>1. CASE i = n + 1  BY <2>1, <1>1, <1>3
    <2>2. CASE i \in 1..n  BY <2>2, <1>1, <1>3, <1>4
    <2> QED  BY <2>1, <2>2, <1>1, <1>3
  <1>8. \E i \in DOMAIN b : b[i] = d.restores  BY <1>1, <1>3
  <1>9. ToldUpTo(e)  BY <1>6, <1>7 DEF ToldUpTo, Ascends, b
  <1> QED  BY <1>8, <1>9 DEF DbOK, b

LEMMA DbPhaseStep ==
  ASSUME TypeOK, LockInv, DbOK(db), PhaseInv, DestInv, [Next]_vars
  PROVE  DbOK(db') /\ PhaseInv'
  <1> USE ConstantsAssumption
  <1>0. db \in Database /\ \A q \in Procs : from[q] \in Nat  BY DEF TypeOK
  <1>a. ASSUME NEW p \in Procs PROVE PhaseOK(pc[p], from[p], db)  BY DEF PhaseInv
  <1>b. ASSUME NEW p \in Procs, cleanup(p), db' = db, from' = from PROVE PhaseInv'
    <2>1. PhaseOK("down", from'[p], db')  BY PhaseIdle DEF WriterSteps
    <2> QED  BY <1>b, <2>1, PhaseMove DEF cleanup
  <1>1. ASSUME NEW p \in Procs, ensureDataDir(p) \/ readOnDiskIdentity(p)
        PROVE  DbOK(db') /\ PhaseInv'
    <2>1. /\ db' = db /\ from' = from
          /\ Goto(p, "lock") \/ Goto(p, "inspecting")
      BY <1>1 DEF ensureDataDir, readOnDiskIdentity
    <2>2. PhaseOK("lock", from'[p], db') /\ PhaseOK("inspecting", from'[p], db')
      BY PhaseIdle DEF WriterSteps
    <2> QED  BY <2>1, <2>2, PhaseMove
  <1>2. ASSUME NEW p \in Procs, lockDataDir(p) PROVE DbOK(db') /\ PhaseInv'
    <2>1. /\ db' = db /\ from' = from
          /\ cleanup(p) \/ Goto(p, "inspect") \/ Goto(p, "migrate")
      BY <1>2 DEF lockDataDir
    <2>2. PhaseOK("inspect", from'[p], db') /\ PhaseOK("migrate", from'[p], db')
      BY DEF PhaseOK
    <2> QED  BY <2>1, <2>2, <1>b, PhaseMove
  <1>3. ASSUME NEW p \in Procs, migrate(p) PROVE DbOK(db') /\ PhaseInv'
    <2>1. CASE cleanup(p) /\ UNCHANGED <<db, from>>  BY <2>1, <1>b
    <2>2. CASE ~(cleanup(p) /\ UNCHANGED <<db, from>>)
      <3>1. /\ db' = [db EXCEPT !.version = Ships[p], !.user = Ships[p],
                                !.sums = @ \cup 1..Ships[p], !.wal = FALSE]
            /\ from' = [from EXCEPT ![p] = db.version]
            /\ Goto(p, "bookkeeping")
            /\ pc[p] = "migrate"
        BY <1>3, <2>2 DEF migrate
      <3>2. Ships[p] \in Nat /\ Ships[p] > 0  OBVIOUS
      <3>3. /\ db'.version = Ships[p] /\ db'.user = Ships[p] /\ db'.marker = db.marker
            /\ db'.snapshot = db.snapshot /\ db'.announced = db.announced
            /\ db'.restores = db.restores /\ db'.dirty = db.dirty /\ db'.damaged = db.damaged
            /\ db'.mixed = db.mixed
        BY <1>0, <3>1 DEF Database
      <3>4. from'[p] = db.version /\ \A q \in Procs : q # p => from'[q] = from[q]
        BY <3>1 DEF TypeOK
      <3>5. DbOK(db')  BY <3>2, <3>3 DEF DbOK, ToldUpTo
      <3>6. PhaseOK("bookkeeping", from'[p], db')
        BY <3>2, <3>3, <3>4 DEF PhaseOK, DbOK
      <3> QED  BY <3>1, <3>4, <3>5, <3>6, PhaseMove DEF WriterSteps
    <2> QED  BY <2>1, <2>2
  <1>4. ASSUME NEW p \in Procs, ensureCreationBookkeeping(p) PROVE DbOK(db') /\ PhaseInv'
    <2>1. pc[p] = "bookkeeping" /\ Goto(p, "marker") /\ from' = from
      BY <1>4 DEF ensureCreationBookkeeping
    <2>2. SameParts(db', db)
      BY <1>0, <1>4 DEF ensureCreationBookkeeping, SameParts, Database
    <2>3. PhaseOK("marker", from'[p], db')
      BY <1>a, <2>1, <2>2 DEF PhaseOK, SameParts
    <2> QED  BY <2>1, <2>2, <2>3, SamePartsOK, PhaseMove DEF WriterSteps
  <1>5. ASSUME NEW p \in Procs, readMarker(p) PROVE DbOK(db') /\ PhaseInv'
    <2> DEFINE unclean == from[p] > 0 /\ db.marker \in {Absent, "0"}
    <2>1. /\ pc[p] = "marker" /\ db' = [db EXCEPT !.noticed = unclean]
          /\ unclean => Goto(p, "check")
          /\ ~unclean => Goto(p, "provenance")
      BY <1>5 DEF readMarker
    <2>2. \A q \in Procs : q # p => from'[q] = from[q]  BY <1>5 DEF readMarker, TypeOK
    <2>3. db.dirty => unclean
      BY <1>0, <1>a, <2>1 DEF PhaseOK, DbOK
    <2> HIDE DEF unclean
    <2>4. SameParts(db', db) /\ db'.noticed = unclean  BY <1>0, <2>1 DEF SameParts, Database
    <2>5. db'.version > 0  BY <1>a, <2>1, <2>4 DEF PhaseOK, SameParts
    <2>6. CASE unclean
      <3>1. PhaseOK("check", from'[p], db')  BY <2>4, <2>5, <2>6 DEF PhaseOK
      <3> QED  BY <2>1, <2>2, <2>4, <2>6, <3>1, SamePartsOK, PhaseMove DEF WriterSteps
    <2>7. CASE ~unclean
      <3>1. ~db'.dirty /\ ~(Checked /\ db'.damaged)
        BY <2>3, <2>4, <2>7 DEF SameParts, DbOK
      <3>2. PhaseOK("provenance", from'[p], db')  BY <2>5, <3>1 DEF PhaseOK
      <3> QED  BY <2>1, <2>2, <2>4, <2>7, <3>2, SamePartsOK, PhaseMove DEF WriterSteps
    <2> QED  BY <2>6, <2>7
  <1>6. ASSUME NEW p \in Procs, runStartupCheck(p) PROVE DbOK(db') /\ PhaseInv'
    <2>1. pc[p] = "check" /\ db' = db /\ from' = from  BY <1>6 DEF runStartupCheck
    <2>2. CASE cleanup(p)  BY <2>1, <2>2, <1>b
    <2>3. CASE ~cleanup(p)
      <3>1. ~db.damaged /\ Goto(p, "provenance")
        BY <1>6, <2>3 DEF runStartupCheck, quickCheckFails
      <3>2. PhaseOK("provenance", from'[p], db')  BY <1>a, <2>1, <3>1 DEF PhaseOK
      <3> QED  BY <2>1, <3>1, <3>2, PhaseMove
    <2> QED  BY <2>2, <2>3
  <1>7. ASSUME NEW p \in Procs, detectRestoredProvenance(p) PROVE DbOK(db') /\ PhaseInv'
    <2>1. pc[p] = "provenance" /\ Goto(p, "reclaim") /\ from' = from
      BY <1>7 DEF detectRestoredProvenance
    <2>2. CASE ~db.snapshot
      <3>1. db' = db  BY <1>7, <2>2 DEF detectRestoredProvenance
      <3>2. PhaseOK("reclaim", from'[p], db')  BY <1>a, <2>1, <2>2, <3>1 DEF PhaseOK
      <3> QED  BY <2>1, <3>1, <3>2, PhaseMove
    <2>3. CASE db.snapshot
      <3> DEFINE a == Append(db.announced, db.restores)
      <3>1. db' = [db EXCEPT !.snapshot = FALSE, !.restored = TRUE, !.announced = a]
        BY <1>7, <2>3 DEF detectRestoredProvenance
      <3> HIDE DEF a
      <3>2. /\ db'.version = db.version /\ db'.user = db.user /\ db'.marker = db.marker
            /\ ~db'.snapshot /\ db'.announced = a /\ db'.noticed = db.noticed
            /\ db'.restores = db.restores /\ db'.dirty = db.dirty /\ db'.damaged = db.damaged
            /\ db'.mixed = db.mixed
        BY <1>0, <3>1 DEF Database
      <3>3. PhaseOK("reclaim", from'[p], db')  BY <1>a, <2>1, <3>2 DEF PhaseOK
      <3>4. db' \in Database  BY TypeStep DEF TypeOK
      <3>5. DbOK(db')  BY <1>0, <2>3, <3>2, <3>4, AnnounceOK DEF a
      <3> QED  BY <2>1, <3>3, <3>5, PhaseMove DEF WriterSteps
    <2> QED  BY <2>2, <2>3
  <1>8. ASSUME NEW p \in Procs, reclaimLeases(p) PROVE DbOK(db') /\ PhaseInv'
    <2>1. pc[p] = "reclaim" /\ Goto(p, "dirty") /\ from' = from
      BY <1>8 DEF reclaimLeases
    <2>2. SameParts(db', db) /\ db'.noticed = db.noticed
      BY <1>0, <1>8 DEF reclaimLeases, SameParts, Database
    <2>3. PhaseOK("dirty", from'[p], db')  BY <1>a, <2>1, <2>2 DEF PhaseOK, SameParts
    <2> QED  BY <2>1, <2>2, <2>3, SamePartsOK, PhaseMove DEF WriterSteps
  <1>9. ASSUME NEW p \in Procs, markDirty(p) PROVE DbOK(db') /\ PhaseInv'
    <2>1. pc[p] = "dirty" /\ Goto(p, "open") /\ from' = from
      BY <1>9 DEF markDirty
    <2>2. /\ db'.version = db.version /\ db'.user = db.user /\ db'.marker = "0"
          /\ db'.snapshot = db.snapshot /\ db'.announced = db.announced
          /\ db'.restores = db.restores /\ db'.dirty /\ db'.damaged = db.damaged
          /\ db'.mixed = db.mixed
      BY <1>0, <1>9 DEF markDirty, Database
    <2>3. PhaseOK("open", from'[p], db') /\ db.version > 0  BY <1>a, <2>1, <2>2 DEF PhaseOK
    <2>4. DbOK(db')  BY <2>2, <2>3 DEF DbOK, ToldUpTo
    <2> QED  BY <2>1, <2>3, <2>4, PhaseMove DEF WriterSteps
  <1>10. ASSUME NEW p \in Procs, OpenFails(p) PROVE DbOK(db') /\ PhaseInv'
    BY <1>10, <1>b DEF OpenFails
  <1>11. ASSUME NEW p \in Procs, Serve(p) PROVE DbOK(db') /\ PhaseInv'
    <2>1. pc[p] = "open" /\ pc' = pc /\ from' = from  BY <1>11 DEF Serve
    <2>2. SameParts(db', db) /\ db'.noticed = db.noticed
      <3>1. CASE db' = [db EXCEPT !.next = @ + 1, !.msgs = @ \cup {db.next}]
        BY <1>0, <3>1 DEF SameParts, Database
      <3>2. ASSUME NEW s \in db.msgs \ db.inflight,
                   db' = [db EXCEPT !.inflight = @ \cup {s}]
            PROVE  SameParts(db', db) /\ db'.noticed = db.noticed
        BY <1>0, <3>2 DEF SameParts, Database
      <3>3. ASSUME NEW s \in db.msgs,
                   db' = [db EXCEPT !.msgs = @ \ {s}, !.inflight = @ \ {s}]
            PROVE  SameParts(db', db) /\ db'.noticed = db.noticed
        BY <1>0, <3>3 DEF SameParts, Database
      <3> QED  BY <1>11, <3>1, <3>2, <3>3 DEF Serve
    <2>3. ASSUME NEW q \in Procs PROVE PhaseOK(pc'[q], from'[q], db')
      BY <1>a, <2>1, <2>2 DEF PhaseOK, SameParts
    <2> QED  BY <2>2, <2>3, SamePartsOK DEF PhaseInv
  <1>c. ASSUME NEW p \in Procs, Goto(p, "down"), from' = from, pc[p] \in WriterSteps
        PROVE  PhaseInv'
    <2>1. PhaseOK("down", from'[p], db')  BY PhaseIdle DEF WriterSteps
    <2> QED  BY <1>c, <2>1, PhaseMove
  <1>12. ASSUME NEW p \in Procs, Close(p) PROVE DbOK(db') /\ PhaseInv'
    <2>1. Goto(p, "down") /\ from' = from  BY <1>12 DEF Close, cleanup
    <2>2. CASE pc[p] = "inspecting"
      BY <1>12, <2>2, <2>1, <1>b DEF Close
    <2>3. CASE pc[p] = "open"
      <3>0. PhaseInv'  BY <2>1, <2>3, <1>c DEF WriterSteps
      <3>1. PICK w \in BOOLEAN :
               \/ db' = db
               \/ db' = [db EXCEPT !.wal = w]
               \/ db' = [db EXCEPT !.marker = "1", !.dirty = FALSE, !.wal = w]
        BY <1>12, CloseCases
      <3>2. CASE db' = db \/ db' = [db EXCEPT !.wal = w]
        <4>1. SameParts(db', db)  BY <1>0, <3>2 DEF SameParts, Database
        <4> QED  BY <3>0, <4>1, SamePartsOK
      <3>3. CASE db' = [db EXCEPT !.marker = "1", !.dirty = FALSE, !.wal = w]
        <4>2. /\ db'.version = db.version /\ db'.user = db.user
              /\ db'.snapshot = db.snapshot /\ db'.announced = db.announced
              /\ db'.restores = db.restores /\ ~db'.dirty /\ db'.damaged = db.damaged
              /\ db'.mixed = db.mixed
          BY <1>0, <3>3 DEF Database
        <4>3. ~(Checked /\ db.damaged)  BY <1>a, <2>3 DEF PhaseOK
        <4>4. DbOK(db')  BY <4>2, <4>3 DEF DbOK, ToldUpTo
        <4> QED  BY <3>0, <4>4
      <3> QED  BY <3>1, <3>2, <3>3
    <2> QED  BY <1>12, <2>2, <2>3 DEF Close
  <1>13. ASSUME NEW p \in Procs, Crash(p) PROVE DbOK(db') /\ PhaseInv'
    <2>1. Goto(p, "down") /\ from' = from /\ cleanup(p)  BY <1>13 DEF Crash, cleanup
    <2>2. CASE pc[p] \notin WriterSteps  BY <1>13, <2>2, <2>1, <1>b DEF Crash
    <2>3. CASE pc[p] \in WriterSteps
      <3>0. PhaseInv'  BY <2>1, <2>3, <1>c
      <3>1. \/ db' = [db EXCEPT !.wal = TRUE]
            \/ db.dirty /\ db' = [db EXCEPT !.wal = TRUE, !.damaged = TRUE]
            \/ db' = [db EXCEPT !.wal = TRUE, !.unseen = TRUE]
        BY <1>13, <2>3 DEF Crash
      <3>2. CASE db' = [db EXCEPT !.wal = TRUE] \/ db' = [db EXCEPT !.wal = TRUE, !.unseen = TRUE]
        <4>1. SameParts(db', db)  BY <1>0, <3>2 DEF SameParts, Database
        <4> QED  BY <3>0, <4>1, SamePartsOK
      <3>3. CASE db.dirty /\ db' = [db EXCEPT !.wal = TRUE, !.damaged = TRUE]
        <4>1. /\ db'.version = db.version /\ db'.user = db.user /\ db'.marker = db.marker
              /\ db'.snapshot = db.snapshot /\ db'.announced = db.announced
              /\ db'.restores = db.restores /\ db'.dirty = db.dirty
              /\ db'.mixed = db.mixed
          BY <1>0, <3>3 DEF Database
        <4>2. DbOK(db')  BY <3>3, <4>1 DEF DbOK, ToldUpTo
        <4> QED  BY <3>0, <4>2
      <3> QED  BY <3>1, <3>2, <3>3
    <2> QED  BY <2>2, <2>3
  <1>14. CASE Restore
    <2>1. /\ \A p \in Procs : pc[p] = "down"
          /\ dest.version > 0
          /\ pc' = pc
      BY <1>14 DEF Restore
    <2>2. dest \in Database /\ dest.version \in Nat /\ dest.restores \in Nat
      BY DEF TypeOK, Database
    <2>3. dest # NoDatabase  BY <2>1 DEF NoDatabase
    <2>4. /\ dest.snapshot /\ ~dest.dirty /\ dest.user = dest.version
          /\ ~(Checked /\ dest.damaged) /\ ToldUpTo(dest)
      BY <2>3 DEF DestInv, quickCheckFails
    <2>p. PhaseInv'
      <3>1. ASSUME NEW q \in Procs PROVE PhaseOK(pc'[q], from'[q], db')
        BY <2>1, PhaseIdle DEF WriterSteps
      <3> QED  BY <3>1 DEF PhaseInv
    <2>c. CASE db' = [dest EXCEPT !.restores = @ + 1]
      <3>5. /\ db'.version = dest.version /\ db'.user = dest.user
            /\ db'.snapshot = dest.snapshot /\ db'.announced = dest.announced
            /\ db'.restores = dest.restores + 1 /\ db'.dirty = dest.dirty
            /\ db'.damaged = dest.damaged /\ db'.mixed = dest.mixed
        BY <2>c, <2>2 DEF Database
      <3>6. \A i \in DOMAIN dest.announced : dest.announced[i] \in Nat
        <4>1. dest.announced \in Seq(Nat)  BY <2>2 DEF Database
        <4> QED  BY <4>1
      <3>7. ~dest.mixed =>
              \A i \in DOMAIN dest.announced : dest.announced[i] < dest.restores + 1
        BY <2>2, <2>4, <3>6 DEF ToldUpTo
      <3>8. ToldUpTo(db')  BY <2>2, <2>4, <3>5, <3>6, <3>7 DEF ToldUpTo
      <3>9. DbOK(db')  BY <2>4, <3>5, <3>7, <3>8 DEF DbOK
      <3> QED  BY <2>p, <3>9
    <2>m. CASE db' # [dest EXCEPT !.restores = @ + 1]
      <3>1. PICK d \in {dest, db}, u \in BOOLEAN : db' = Replayed(d, u)
        BY <1>0, <1>14, <2>2, <2>m, RestoreCases
      <3>2. d \in Database  BY <1>0, <2>2
      <3>3. /\ db'.version = d.version /\ db'.user = d.user /\ db'.marker = d.marker
            /\ db'.dirty = d.dirty /\ db'.damaged = d.damaged /\ db'.mixed
        BY <2>2, <3>1, <3>2 DEF Replayed, Database
      <3>4. /\ d.user = d.version
            /\ d.dirty => d.marker = "0" /\ d.version > 0
            /\ Checked /\ d.damaged => d.dirty
        BY <2>4, <3>2 DEF DbOK
      <3>5. DbOK(db')  BY <3>3, <3>4 DEF DbOK, ToldUpTo
      <3> QED  BY <2>p, <3>5
    <2> QED  BY <2>c, <2>m
  <1>15. CASE db' = db /\ pc' = pc /\ from' = from  BY <1>15, PhaseSame
  <1>16. ASSUME Age \/ OtherRunSweeps PROVE db' = db /\ pc' = pc /\ from' = from
    BY <1>16 DEF Age, OtherRunSweeps, store
  <1>17. ASSUME NEW b \in Backups, BackupStep(b) PROVE db' = db /\ pc' = pc /\ from' = from
    BY <1>17, BackupLeavesStore
  <1>18. CASE UNCHANGED vars  BY <1>15, <1>18 DEF vars
  <1> QED
    BY <1>1, <1>2, <1>3, <1>4, <1>5, <1>6, <1>7, <1>8, <1>9, <1>10, <1>11, <1>12, <1>13,
       <1>14, <1>15, <1>16, <1>17, <1>18 DEF Next, BackupStep

-----------------------------------------------------------------------------
(* The runs of a backup and the destination. *)

\* The schema version of a file never goes back to nothing.
LEMMA VersionStays ==
  ASSUME TypeOK, [Next]_vars, db.version > 0
  PROVE  db'.version > 0
  <1> USE ConstantsAssumption
  <1>0. db \in Database /\ dest \in Database  BY DEF TypeOK
  <1>1. ASSUME NEW p \in Procs, migrate(p) PROVE db'.version > 0
    <2>1. Ships[p] > 0  OBVIOUS
    <2>2. CASE db' = db  BY <2>2
    <2>3. CASE db' # db
      <3>1. db' = [db EXCEPT !.version = Ships[p], !.user = Ships[p],
                             !.sums = @ \cup 1..Ships[p], !.wal = FALSE]
        BY <1>1, <2>3 DEF migrate
      <3>2. db'.version = Ships[p]  BY <1>0, <3>1 DEF Database
      <3> QED  BY <2>1, <3>2
    <2> QED  BY <2>2, <2>3
  <1>2. CASE Restore
    <2>1. dest.version > 0  BY <1>2 DEF Restore
    <2>2. PICK d \in {dest, db}, u \in BOOLEAN :
             db' = [dest EXCEPT !.restores = @ + 1] \/ db' = Replayed(d, u)
      BY <1>0, <1>2, RestoreCases
    <2>3. d \in Database  BY <1>0
    <2>4. db'.version = dest.version \/ db'.version = d.version
      BY <1>0, <2>2, <2>3 DEF Replayed, Database
    <2> QED  BY <2>1, <2>4
  <1>3. ASSUME NEW p \in Procs,
               \/ ensureCreationBookkeeping(p) \/ readMarker(p) \/ reclaimLeases(p)
               \/ markDirty(p) \/ Serve(p)
        PROVE  db'.version > 0
    <2>1. db'.version = db.version
      BY <1>0, <1>3 DEF ensureCreationBookkeeping, readMarker, reclaimLeases, markDirty,
                        Serve, Database
    <2> QED  BY <2>1
  <1>4. ASSUME NEW p \in Procs, detectRestoredProvenance(p) PROVE db'.version > 0
    <2> DEFINE a == Append(db.announced, db.restores)
    <2>1. db' = db \/ db' = [db EXCEPT !.snapshot = FALSE, !.restored = TRUE, !.announced = a]
      BY <1>4 DEF detectRestoredProvenance
    <2> HIDE DEF a
    <2>2. db'.version = db.version  BY <1>0, <2>1 DEF Database
    <2> QED  BY <2>2
  <1>5. ASSUME NEW p \in Procs, Close(p) \/ Crash(p) PROVE db'.version > 0
    <2>1. PICK w \in BOOLEAN :
             \/ db' = db
             \/ db' = [db EXCEPT !.wal = w]
             \/ db' = [db EXCEPT !.marker = "1", !.dirty = FALSE, !.wal = w]
             \/ db' = [db EXCEPT !.wal = w, !.damaged = TRUE]
             \/ db' = [db EXCEPT !.wal = w, !.unseen = TRUE]
      <3>1. CASE Close(p)  BY <3>1, CloseCases
      <3>2. CASE Crash(p)  BY <3>2 DEF Crash
      <3> QED  BY <1>5, <3>1, <3>2
    <2>2. db'.version = db.version  BY <1>0, <2>1 DEF Database
    <2> QED  BY <2>2
  <1>6. CASE db' = db  BY <1>6
  <1>7. ASSUME NEW p \in Procs,
               \/ ensureDataDir(p) \/ lockDataDir(p) \/ readOnDiskIdentity(p)
               \/ runStartupCheck(p) \/ OpenFails(p)
        PROVE  db' = db
    BY <1>7 DEF ensureDataDir, lockDataDir, readOnDiskIdentity, runStartupCheck, OpenFails
  <1>8. ASSUME Age \/ OtherRunSweeps \/ UNCHANGED vars PROVE db' = db
    BY <1>8 DEF Age, OtherRunSweeps, store, vars
  <1>9. ASSUME NEW b \in Backups, BackupStep(b) PROVE db' = db
    BY <1>9, BackupLeavesStore
  <1> QED
    BY <1>1, <1>2, <1>3, <1>4, <1>5, <1>6, <1>7, <1>8, <1>9 DEF Next, BackupStep

RunOK(r) == CopyOK(r) /\ (r.step \in {"planned", "temp", "heads"} => db.version > 0)

\* A step of one run.
LEMMA RunMove ==
  ASSUME TypeOK, BackupInv, NEW b \in Backups, NEW r, Advance(b, r), db' = db, RunOK(r)
  PROVE  BackupInv'
  <1> SUFFICES ASSUME NEW c \in Backups
               PROVE  /\ CopyOK(bk'[c])
                      /\ bk'[c].step \in {"planned", "temp", "heads"} => db'.version > 0
    BY DEF BackupInv
  <1>1. CASE c = b
    <2>1. bk'[c] = r  BY <1>1 DEF Advance, TypeOK
    <2> QED  BY <2>1 DEF RunOK
  <1>2. CASE c # b
    <2>1. bk'[c] = bk[c]  BY <1>2 DEF Advance, TypeOK
    <2> QED  BY <2>1 DEF BackupInv
  <1> QED  BY <1>1, <1>2

LEMMA RunEnds ==
  ASSUME NEW s \in {"renamed", "done", "failed"}
  PROVE  RunOK([Idle EXCEPT !.step = s])
  <1>1. [Idle EXCEPT !.step = s].step = s  BY DEF Idle
  <1> QED  BY <1>1 DEF RunOK, CopyOK

LEMMA BackupInvStep ==
  ASSUME TypeOK, DbOK(db), BackupInv, DestInv, [Next]_vars
  PROVE  BackupInv' /\ DestInv'
  <1> USE ConstantsAssumption
  <1>0. ASSUME NEW b \in Backups
        PROVE  bk[b] \in RunRecord /\ bk[b].copy \in Database /\ RunOK(bk[b])
    BY DEF TypeOK, RunRecord, BackupInv, RunOK
  <1>b. ASSUME dest' = dest PROVE DestInv'  BY <1>b DEF DestInv
  <1>1. ASSUME NEW b \in Backups, Plan(b) PROVE BackupInv' /\ DestInv'
    <2>1. PICK v \in VerifyModes :
             Advance(b, [Idle EXCEPT !.step = "planned", !.version = db.version, !.verify = v])
      BY <1>1 DEF Plan
    <2> DEFINE r == [Idle EXCEPT !.step = "planned", !.version = db.version, !.verify = v]
    <2>2. r.step = "planned" /\ r.verify = v  BY DEF Idle
    <2> HIDE DEF r
    <2>3. RunOK(r)  BY <1>1, <2>2 DEF RunOK, CopyOK, Plan
    <2>4. dest' = dest /\ db' = db  BY <1>1 DEF Plan, store
    <2> QED  BY <1>b, <2>1, <2>3, <2>4, RunMove DEF r
  <1>2. ASSUME NEW b \in Backups, NewTempDir(b) PROVE BackupInv' /\ DestInv'
    <2> DEFINE r == [bk[b] EXCEPT !.step = "temp"]
    <2>1. r.step = "temp" /\ r.verify = bk[b].verify  BY <1>0 DEF RunRecord
    <2>2. Advance(b, r) /\ dest' = dest /\ db' = db /\ bk[b].step = "planned"
      BY <1>2 DEF NewTempDir, At, store
    <2> HIDE DEF r
    <2>3. RunOK(r)  BY <1>0, <2>1, <2>2 DEF RunOK, CopyOK
    <2> QED  BY <1>b, <2>2, <2>3, RunMove
  <1>3. ASSUME NEW b \in Backups, readStreamHeads(b) PROVE BackupInv' /\ DestInv'
    <2> DEFINE r == [bk[b] EXCEPT !.step = "heads", !.head = db.next - 1]
    <2>1. r.step = "heads" /\ r.verify = bk[b].verify  BY <1>0 DEF RunRecord
    <2>2. Advance(b, r) /\ dest' = dest /\ db' = db /\ bk[b].step = "temp"
      BY <1>3 DEF readStreamHeads, At, store
    <2> HIDE DEF r
    <2>3. RunOK(r)  BY <1>0, <2>1, <2>2 DEF RunOK, CopyOK
    <2> QED  BY <1>b, <2>2, <2>3, RunMove
  <1>4. ASSUME NEW b \in Backups, VacuumInto(b) PROVE BackupInv' /\ DestInv'
    <2> DEFINE c == [db EXCEPT !.wal = FALSE, !.noticed = FALSE]
               r == [bk[b] EXCEPT !.step = "copied", !.copy = c]
    <2>1. r.step = "copied" /\ r.verify = bk[b].verify /\ r.copy = c  BY <1>0 DEF RunRecord
    <2>4. /\ c.user = db.user /\ c.version = db.version /\ c.mixed = db.mixed
          /\ c.announced = db.announced /\ c.restores = db.restores
      BY DEF TypeOK, Database
    <2>2. Advance(b, r) /\ dest' = dest /\ db' = db /\ bk[b].step = "heads"
      BY <1>4 DEF VacuumInto, At, store
    <2> HIDE DEF r, c
    <2>3. RunOK(r)  BY <1>0, <2>1, <2>2, <2>4 DEF RunOK, CopyOK, DbOK, ToldUpTo
    <2> QED  BY <1>b, <2>2, <2>3, RunMove
  <1>5. ASSUME NEW b \in Backups, stamp(b) PROVE BackupInv' /\ DestInv'
    <2> DEFINE r == StampedRun(bk[b])
               c == StampedCopy(bk[b].copy)
    <2>1. r.step = "stamped" /\ r.verify = bk[b].verify /\ r.copy = c
      BY <1>0, StampedRunIs
    <2>2. Advance(b, r) /\ dest' = dest /\ db' = db /\ bk[b].step = "copied"
      BY <1>5 DEF stamp, At, store, StampedRun
    <2>3. /\ c.snapshot /\ c.marker = "1" /\ ~c.dirty
          /\ c.user = bk[b].copy.user /\ c.version = bk[b].copy.version
          /\ c.announced = bk[b].copy.announced /\ c.restores = bk[b].copy.restores
          /\ c.mixed = bk[b].copy.mixed
      BY <1>0, StampedCopyIs
    <2> HIDE DEF r, c
    <2>4. RunOK(r)  BY <1>0, <2>1, <2>2, <2>3 DEF RunOK, CopyOK, ToldUpTo
    <2> QED  BY <1>b, <2>2, <2>4, RunMove
  <1>6. ASSUME NEW b \in Backups, Check(b) PROVE BackupInv' /\ DestInv'
    <2>1. dest' = dest /\ db' = db /\ bk[b].step = "stamped"
      BY <1>6 DEF Check, At, store
    <2>2. CASE selfCheck(bk[b])
      <3> DEFINE r == [bk[b] EXCEPT !.step = "checked"]
      <3>1. r.step = "checked" /\ r.verify = bk[b].verify /\ r.copy = bk[b].copy
        BY <1>0 DEF RunRecord
      <3>2. Advance(b, r)  BY <1>6, <2>2 DEF Check
      <3>3. ~(Checked /\ quickCheckFails(bk[b].copy))
        BY <1>0, <2>1, <2>2 DEF selfCheck, RunOK, CopyOK, Checked
      <3> HIDE DEF r
      <3>4. RunOK(r)  BY <1>0, <2>1, <3>1, <3>3 DEF RunOK, CopyOK
      <3> QED  BY <1>b, <2>1, <3>2, <3>4, RunMove
    <2>3. CASE ~selfCheck(bk[b])
      <3> DEFINE r == [bk[b] EXCEPT !.step = "rejected"]
      <3>1. r.step = "rejected"  BY <1>0 DEF RunRecord
      <3>2. Advance(b, r)  BY <1>6, <2>3 DEF Check, RemoveTemp
      <3> HIDE DEF r
      <3>3. RunOK(r)  BY <3>1 DEF RunOK, CopyOK
      <3> QED  BY <1>b, <2>1, <3>2, <3>3, RunMove
    <2> QED  BY <2>2, <2>3
  <1>7. ASSUME NEW b \in Backups, RenameIntoPlace(b) PROVE BackupInv' /\ DestInv'
    <2>1. /\ bk[b].step = "checked" /\ dest' = bk[b].copy /\ db' = db
          /\ Advance(b, [Idle EXCEPT !.step = "renamed"])
      BY <1>7 DEF RenameIntoPlace, At, store
    <2>2. DestInv'  BY <1>0, <2>1 DEF DestInv, RunOK, CopyOK
    <2> QED  BY <2>1, <2>2, RunEnds, RunMove
  <1>8. ASSUME NEW b \in Backups, SweepStale(b) PROVE BackupInv' /\ DestInv'
    <2>1. dest' = dest /\ db' = db /\ Advance(b, [Idle EXCEPT !.step = "done"])
      BY <1>8 DEF SweepStale, store
    <2> QED  BY <1>b, <2>1, RunEnds, RunMove
  <1>9. ASSUME NEW b \in Backups, BackupFails(b) PROVE BackupInv' /\ DestInv'
    <2>1. dest' = dest /\ db' = db /\ Advance(b, [Idle EXCEPT !.step = "failed"])
      BY <1>9 DEF BackupFails, RemoveTemp
    <2> QED  BY <1>b, <2>1, RunEnds, RunMove
  <1>10. CASE bk' = bk /\ dest' = dest
    <2>1. BackupInv'  BY <1>10, VersionStays DEF BackupInv
    <2> QED  BY <1>10, <1>b, <2>1
  <1>11. ASSUME NEW p \in Procs,
                \/ ensureDataDir(p) \/ lockDataDir(p) \/ readOnDiskIdentity(p) \/ migrate(p)
                \/ ensureCreationBookkeeping(p) \/ readMarker(p) \/ runStartupCheck(p)
                \/ detectRestoredProvenance(p) \/ reclaimLeases(p) \/ markDirty(p)
                \/ OpenFails(p) \/ Serve(p) \/ Close(p) \/ Crash(p)
         PROVE  bk' = bk /\ dest' = dest
    BY <1>11 DEF ensureDataDir, lockDataDir, readOnDiskIdentity, migrate,
                 ensureCreationBookkeeping, readMarker, runStartupCheck,
                 detectRestoredProvenance, reclaimLeases, markDirty, OpenFails, Serve,
                 Close, Crash, files
  <1>12. ASSUME Restore \/ Age \/ OtherRunSweeps \/ UNCHANGED vars
         PROVE  bk' = bk /\ dest' = dest
    BY <1>12 DEF Restore, Age, OtherRunSweeps, files, vars
  <1> QED
    BY <1>1, <1>2, <1>3, <1>4, <1>5, <1>6, <1>7, <1>8, <1>9, <1>10, <1>11, <1>12 DEF Next

-----------------------------------------------------------------------------
(* The invariant, and what it says. *)

LEMMA IInvInit == Init => IInv
  <1> SUFFICES ASSUME Init PROVE IInv  OBVIOUS
  <1>1. TypeOK  BY TypeInit
  <1>2. \A p \in Procs : pc[p] = "down"  BY DEF Init
  <1>3. LockInv  BY <1>2 DEF LockInv, Init, WriterSteps, ReaderSteps
  <1>4. DbOK(db)
    <2>1. /\ db.user = db.version /\ ~db.dirty /\ ~db.damaged /\ ~db.snapshot
          /\ db.restores = 0 /\ db.announced = <<>>
      <3>1. CASE db = NoDatabase  BY <3>1 DEF NoDatabase
      <3>2. CASE db = Established  BY <3>2 DEF NoDatabase, Established
      <3>3. CASE db = [Established EXCEPT !.sums = {}]  BY <3>3 DEF NoDatabase, Established
      <3> QED  BY <3>1, <3>2, <3>3 DEF Init, Databases
    <2>2. DOMAIN db.announced = {}  BY <2>1
    <2>3. ToldUpTo(db)  BY <2>2 DEF ToldUpTo, Ascends
    <2> QED  BY <2>1, <2>3 DEF DbOK
  <1>5. PhaseInv  BY <1>2, PhaseIdle DEF PhaseInv, WriterSteps
  <1>6. BackupInv
    <2>1. \A b \in Backups : bk[b].step = "idle"  BY DEF Init, Idle
    <2> QED  BY <2>1 DEF BackupInv, CopyOK
  <1>7. DestInv  BY DEF DestInv, Init
  <1> QED  BY <1>1, <1>3, <1>4, <1>5, <1>6, <1>7 DEF IInv

\* The inductive invariant: who holds the lock, what the tables of the file say
\* about each other, what the process in the middle of Open has found in them,
\* and what each backup has in hand.
THEOREM Inductive == Spec => []IInv
  <1>1. IInv /\ [Next]_vars => IInv'
    <2> SUFFICES ASSUME IInv, [Next]_vars PROVE IInv'  OBVIOUS
    <2> USE DEF IInv
    <2>1. TypeOK' /\ LockInv'  BY TypeStep, LockStep
    <2>2. DbOK(db') /\ PhaseInv'  BY DbPhaseStep
    <2>3. BackupInv' /\ DestInv'  BY BackupInvStep
    <2> QED  BY <2>1, <2>2, <2>3
  <1> QED  BY <1>1, IInvInit, PTL DEF Spec

\* Only a process that holds the flock alone writes, and readers never meet one:
\* two processes are never past the lock of one directory unless both only read
\* (lock.go: the exclusive and the shared flock).
WritersAreAlone ==
    \A p, q \in Procs : pc[p] \in WriterSteps /\ q # p => pc[q] \in {"down", "lock"}

THEOREM OneWriter == Spec => []WritersAreAlone
  <1>1. IInv => WritersAreAlone
    BY DEF IInv, TypeOK, Places, LockInv, WritersAreAlone
  <1> QED  BY <1>1, Inductive, PTL

LEMMA AscendsIsInjective == ASSUME NEW s \in Seq(Nat), Ascends(s) PROVE IsInjective(s)
  <1> SUFFICES ASSUME NEW i \in DOMAIN s, NEW j \in DOMAIN s, s[i] = s[j] PROVE i = j
    BY DEF IsInjective
  <1>1. i \in Nat /\ j \in Nat /\ s[i] \in Nat /\ s[j] \in Nat  OBVIOUS
  <1>2. CASE i < j  BY <1>1, <1>2 DEF Ascends
  <1>3. CASE j < i  BY <1>1, <1>3 DEF Ascends
  <1> QED  BY <1>1, <1>2, <1>3

\* A directory that is served has announced the restore it comes from, none
\* twice, unless an old WAL was replayed onto it, and what a crash damaged after
\* a session that was never closed is not served unless a backup skipped its
\* check, for any number of processes, builds, crashes, backups and restores
\* (store.go: the steps of Open; provenance.go: detectRestoredProvenance).
THEOREM ServedAndAnnounced == Spec => []ServedIsSound
  <1>1. IInv => ServedIsSound
    <2> SUFFICES ASSUME IInv, NEW p \in Procs, pc[p] = "open"
                 PROVE  /\ ~db.snapshot
                        /\ ~db.mixed => IsInjective(db.announced)
                        /\ ~db.mixed /\ db.restores > 0 => db.restores \in Range(db.announced)
                        /\ "none" \notin VerifyModes => ~db.damaged
      BY DEF ServedIsSound, AnnouncedOnce, DamageNotServed
    <2>1. PhaseOK(pc[p], from[p], db) /\ DbOK(db)  BY DEF IInv, PhaseInv
    <2>2. ~db.snapshot /\ ~(Checked /\ db.damaged)  BY <2>1 DEF PhaseOK
    <2>3. db.announced \in Seq(Nat)  BY DEF IInv, TypeOK, Database
    <2>4. ~db.mixed => Ascends(db.announced)  BY <2>1 DEF DbOK, ToldUpTo
    <2>5. ~db.mixed => IsInjective(db.announced)  BY <2>3, <2>4, AscendsIsInjective
    <2>6. ~db.mixed /\ db.restores > 0 => db.restores \in Range(db.announced)
      BY <2>1, <2>2 DEF DbOK, Range
    <2> QED  BY <2>2, <2>5, <2>6 DEF Checked
  <1> QED  BY <1>1, Inductive, PTL

\* The destination of a backup is absent or one finished run's whole copy, with
\* any number of runs, kills and sweeps (backup.go, tmp.go, selfcheck.go).
THEOREM DestinationIsWhole == Spec => []DestinationWhole
  <1>1. IInv => DestinationWhole
    BY DEF IInv, DestInv, DestinationWhole, Checked
  <1> QED  BY <1>1, Inductive, PTL

\* No start marks the directory dirty over an unclean stop it did not record
\* (store.go: Open reads the marker of the last session before it writes its
\* own).
THEOREM UncleanStopsAreSeen == Spec => CrashIsSeen
  <1>1. IInv => [CrashStep]_vars
    <2> SUFFICES ASSUME IInv, NEW p \in Procs, markDirty(p), db.dirty PROVE db.noticed
      BY DEF CrashStep
    <2>1. PhaseOK(pc[p], from[p], db) /\ pc[p] = "dirty"  BY DEF IInv, PhaseInv, markDirty
    <2> QED  BY <2>1 DEF PhaseOK
  <1> QED  BY <1>1, Inductive, PTL DEF CrashIsSeen

-----------------------------------------------------------------------------
(* Verify: the inductive invariant. *)

EventNames == {"stream.create", "stream.delete", "stream.purge", "msg.publish", "msg.dup",
               "msg.deliver", "msg.ack", "msg.nak", "msg.dead", "consumer.create",
               "consumer.delete", "consumer.update", "consumer.seek"}
JournalRow == [ev : EventNames, stream : V!Names, seq : Nat, dlq : {"", "written"},
               dlqSeq : Nat, gen : Nat]
DeliveryRow == {r \in [state : {V!READY, V!INFLIGHT}, attempts : Nat, gen : Nat] :
                  r.state = V!INFLIGHT => r.attempts >= 1}
ConsumerRow == [cursor : Nat, gen : Nat, maxDeliver : Nat, maxAckPending : Nat,
                policy : {"dlq"}]

\* What stream n's rows in streams, stream_seq, meta, messages and stream_stats
\* say of each other, with and without the stream.  Only the dead-letter stream
\* can be provisioned over the mark or the messages of a deleted one.
Counted(n) ==
    /\ \A q \in msgs[n] : q \in 1 .. next[n] - 1
    /\ stats[n] = Cardinality(msgs[n])
    /\ n \notin reaping
Bounded(n) == \E u \in Nat : \A q \in msgs[n] : q <= u
StreamOK(n) ==
    /\ Bounded(n)
    /\ n \in streams =>
         /\ next[n] \in Nat /\ next[n] >= 1
         /\ (n = V!S \/ born # "overlaid" => Counted(n))
         /\ (n = V!S \/ born = "fresh" => next[n] > hwm[n])
    /\ n \notin streams =>
         /\ next[n] = V!Absent /\ stats[n] = V!Absent
         /\ (n \notin reaping => msgs[n] = {})

TablesInv ==
    /\ streams \subseteq V!Names /\ reaping \subseteq V!Names
    /\ next \in [V!Names -> Int] /\ stats \in [V!Names -> Int]
    /\ hwm \in [V!Names -> Nat] /\ msgs \in [V!Names -> SUBSET Nat]
    /\ \A n \in V!Names : StreamOK(n)

\* The cursor of c is in the stream, and its rows are behind it.
ConsumerOK(c) ==
    /\ c \in ConsumerRow
    /\ 1 <= c.cursor /\ c.cursor <= next[V!S]
    /\ \A q \in DOMAIN rows : q < c.cursor

ConsumerInv ==
    /\ rows \in [DOMAIN rows -> DeliveryRow] /\ DOMAIN rows \subseteq msgs[V!S]
    /\ \/ cons = {} /\ DOMAIN rows = {}
       \/ V!S \in streams /\ \E c \in cons : cons = {c} /\ ConsumerOK(c)

JournalInv == journal \in Seq(JournalRow)

\* What an out-of-band write leaves behind: the check about its table fails.
DamageSeen ==
    /\ damage \in {"message"} => ~V!I2
    /\ damage \in {"counter"} => ~V!V6
    /\ damage \in {"stats", "copy"} => ~V!V7 \/ born = "overlaid"
    /\ damage \in {"cursor", "rewind"} => ~V!I6
    /\ damage \in {"row"} => ~V!I7Lease
    /\ damage \in {"none", "message", "counter", "stats", "copy", "cursor", "rewind", "row"}

AuditInv ==
    /\ damage = "none" => TablesInv /\ ConsumerInv /\ JournalInv
    /\ DamageSeen
\* A non-empty set of naturals has a least element, and V!Min picks it.
LEMMA MinIsLeast ==
    ASSUME NEW S, S \subseteq Nat, S # {}
    PROVE  V!Min(S) \in S /\ \A y \in S : V!Min(S) <= y
<1> DEFINE R == {p \in Nat \X Nat : p[1] < p[2]}
<1>1. IsWellFoundedOn(R, Nat)
  <2>1. OpToRel(<, Nat) = R
    BY Zenon DEF OpToRel
  <2>2. QED
    BY <2>1, NatLessThanWellFounded, Zenon
<1> HIDE DEF R
<1>2. \E x \in S : \A y \in S : ~ (<<y, x>> \in R)
  BY <1>1, WFMin, Zenon
<1>3. \E x \in S : \A y \in S : x <= y
  <2>1. PICK x \in S : \A y \in S : ~ (<<y, x>> \in R)
    BY <1>2
  <2>2. ASSUME NEW y \in S PROVE x <= y
    <3>1. ~ (<<y, x>> \in R)
      BY <2>1
    <3>2. x \in Nat /\ y \in Nat /\ (y < x => <<y, x>> \in R)
      BY DEF R
    <3>3. QED
      BY <3>1, <3>2
  <2>3. QED
    BY <2>2
<1>4. QED
  BY <1>3 DEF V!Min

\* A non-empty bounded set of naturals has a greatest element, V!Max picks it.
LEMMA MaxIsGreatest ==
    ASSUME NEW n \in Nat, NEW S, S \subseteq 0 .. n, S # {}
    PROVE  V!Max(S) \in S /\ \A y \in S : y <= V!Max(S)
<1> DEFINE T == {x \in 0 .. n : n - x \in S}
<1>1. T \subseteq Nat /\ T # {}
  <2>1. PICK s \in S : TRUE
    OBVIOUS
  <2>2. n - s \in 0 .. n /\ n - (n - s) = s
    BY <2>1
  <2>3. n - s \in T
    BY <2>1, <2>2
  <2>4. QED
    BY <2>3
<1>2. V!Min(T) \in T /\ \A y \in T : V!Min(T) <= y
  BY <1>1, MinIsLeast
<1>3. n - V!Min(T) \in S /\ V!Min(T) \in 0 .. n
  BY <1>2
<1>4. ASSUME NEW y \in S PROVE y <= n - V!Min(T)
  <2>1. n - y \in 0 .. n /\ n - (n - y) = y
    BY <1>4
  <2>2. n - y \in T
    BY <1>4, <2>1
  <2>3. V!Min(T) <= n - y
    BY <2>2, <1>2
  <2>4. QED
    BY <2>3, <1>3, <1>4
<1>5. \E x \in S : \A y \in S : x >= y
  BY <1>3, <1>4
<1>6. QED
  BY <1>5 DEF V!Max

-----------------------------------------------------------------------------
(* Verify: the commands. *)

LEMMA TwoNames == V!S \in V!Names /\ V!D \in V!Names /\ V!S # V!D /\ V!Names = {V!S, V!D}
  BY DEF V!S, V!D, V!Names

LEMMA EventType ==
  ASSUME NEW e \in EventNames, NEW n \in V!Names, NEW q \in Nat
  PROVE  V!Event(e, n, q) \in JournalRow
  BY DEF V!Event, JournalRow, EventNames

\* The messages of a stream are finitely many.
LEMMA Finite == ASSUME TablesInv, NEW n \in V!Names PROVE IsFiniteSet(msgs[n])
  <1>1. PICK u \in Nat : \A q \in msgs[n] : q <= u  BY DEF TablesInv, StreamOK, Bounded
  <1>2. msgs[n] \in SUBSET Nat  BY DEF TablesInv
  <1> QED  BY <1>1, <1>2, FS_BoundedSetOfNaturals

\* One message more, or some less.
LEMMA StillBounded ==
  ASSUME TablesInv, NEW n \in V!Names, NEW m \in Nat, msgs'[n] \subseteq msgs[n] \cup {m}
  PROVE  Bounded(n)'
  <1>1. PICK u \in Nat : \A q \in msgs[n] : q <= u  BY DEF TablesInv, StreamOK, Bounded
  <1>2. msgs[n] \in SUBSET Nat  BY DEF TablesInv
  <1>3. u + m \in Nat /\ \A q \in msgs'[n] : q <= u + m  BY <1>1, <1>2
  <1> QED  BY <1>3 DEF Bounded

LEMMA JournalKept ==
  ASSUME JournalInv, NEW e \in JournalRow, V!Emit(<<e>>)
  PROVE  JournalInv'
  <1>1. <<e>> \in Seq(JournalRow) /\ journal' = journal \o <<e>>  BY DEF V!Emit
  <1> QED  BY <1>1 DEF JournalInv

\* Verify counts as the library does.
LEMMA SameSize == \A A : V!Cardinality(A) = Cardinality(A)
  BY Zenon DEF V!Cardinality, Cardinality

LEMMA NoRowsEmpty == DOMAIN V!NoRows = {} /\ V!NoRows \in [DOMAIN V!NoRows -> DeliveryRow]
  BY DEF V!NoRows

\* A step that leaves the streams' tables alone.
LEMMA TablesKept ==
  ASSUME TablesInv, UNCHANGED <<streams, next, hwm, reaping, born, msgs, stats>>
  PROVE  TablesInv'
  BY DEF TablesInv, StreamOK, Bounded, Counted

\* A step that leaves the consumer and its rows alone and takes away nothing
\* they stand on.
LEMMA ConsumerKept ==
  ASSUME ConsumerInv, UNCHANGED <<cons, rows>>, msgs[V!S] \subseteq msgs'[V!S],
         V!S \in streams => V!S \in streams' /\ next[V!S] <= next'[V!S] /\ next[V!S] \in Int
                            /\ next'[V!S] \in Int
  PROVE  ConsumerInv'
  <1>1. ASSUME NEW c, ConsumerOK(c), V!S \in streams PROVE ConsumerOK(c)'
    <2>1. c.cursor \in Int  BY <1>1 DEF ConsumerOK, ConsumerRow
    <2> QED  BY <1>1, <2>1 DEF ConsumerOK
  <1> QED  BY <1>1 DEF ConsumerInv

LEMMA CreateStreamStep ==
  ASSUME TablesInv, ConsumerInv, JournalInv, V!CreateStream
  PROVE  TablesInv' /\ ConsumerInv' /\ JournalInv'
  <1> USE DEF V!CreateStream
  <1>0. cons = {} /\ DOMAIN rows = {}  BY DEF ConsumerInv
  <1>1. JournalInv'
    <2>1. V!Event("stream.create", V!S, 0) \in JournalRow  BY TwoNames DEF V!Event, JournalRow, EventNames
    <2>2. V!Emit(<<V!Event("stream.create", V!S, 0)>>)  OBVIOUS
    <2> HIDE DEF V!CreateStream
    <2> QED  BY <2>1, <2>2, JournalKept
  <1>2. ConsumerInv'  BY <1>0 DEF ConsumerInv
  <1>3. ASSUME NEW n \in V!Names PROVE StreamOK(n)'
    <2>1. CASE n = V!S
      <3>1. msgs[n] = {} /\ Cardinality(msgs[n]) = 0
        BY <2>1, FS_EmptySet, TwoNames DEF TablesInv, StreamOK
      <3> QED  BY <2>1, <3>1, StillBounded, TwoNames DEF TablesInv, StreamOK, Bounded, Counted
    <2>2. CASE n # V!S  BY <2>2, TwoNames DEF TablesInv, StreamOK, Bounded, Counted
    <2> QED  BY <2>1, <2>2
  <1> QED  BY <1>1, <1>2, <1>3, TwoNames DEF TablesInv

LEMMA DeleteStreamStep ==
  ASSUME TablesInv, ConsumerInv, JournalInv, V!DeleteStream
  PROVE  TablesInv' /\ ConsumerInv' /\ JournalInv'
  <1>1. PICK n \in streams :
             /\ streams' = streams \ {n}
             /\ hwm' = [hwm EXCEPT ![n] = next[n] - 1]
             /\ reaping' = reaping \cup {n}
             /\ next' = [next EXCEPT ![n] = V!Absent]
             /\ stats' = [stats EXCEPT ![n] = V!Absent]
             /\ IF n = V!S THEN cons' = {} /\ rows' = V!NoRows /\ UNCHANGED born
                ELSE born' = "fresh" /\ UNCHANGED <<cons, rows>>
             /\ V!Emit(<<V!Event("stream.delete", n, 0)>>)
             /\ UNCHANGED msgs
    BY DEF V!DeleteStream
  <1>2. n \in V!Names  BY DEF TablesInv
  <1>3. JournalInv'
    <2>1. V!Event("stream.delete", n, 0) \in JournalRow
      BY <1>2 DEF V!Event, JournalRow, EventNames
    <2> QED  BY <1>1, <2>1, JournalKept
  <1>4. ConsumerInv'
    <2>1. CASE n = V!S  BY <1>1, <2>1, NoRowsEmpty DEF ConsumerInv
    <2>2. CASE n # V!S
      <3>1. next'[V!S] = next[V!S] /\ next[V!S] \in Int /\ (V!S \in streams => V!S \in streams')
        BY <1>1, <2>2, TwoNames DEF TablesInv
      <3> QED  BY <1>1, <2>2, <3>1, ConsumerKept
    <2> QED  BY <2>1, <2>2
  <1>5. ASSUME NEW p \in V!Names PROVE StreamOK(p)'
    <2>1. CASE p = n  BY <1>2, <1>1, <2>1 DEF TablesInv, StreamOK, Bounded
    <2>2. CASE p # n
      <3>1. p = V!S \/ UNCHANGED born  BY <1>2, <1>1, <2>2, TwoNames
      <3> QED  BY <1>2, <1>1, <2>2, <3>1 DEF TablesInv, StreamOK, Bounded, Counted
    <2> QED  BY <2>1, <2>2
  <1>6. next[n] - 1 \in Nat  BY <1>2 DEF TablesInv, StreamOK
  <1> QED  BY <1>2, <1>1, <1>3, <1>4, <1>5, <1>6 DEF TablesInv, V!Absent

LEMMA ReapChunkStep ==
  ASSUME TablesInv, ConsumerInv, JournalInv, V!ReapChunk
  PROVE  TablesInv' /\ ConsumerInv' /\ JournalInv'
  <1>1. PICK n, gone :
             /\ n \in reaping /\ gone \in SUBSET msgs[n]
             /\ \/ V!Cardinality(gone) = deleteChunkRows
                \/ V!Cardinality(gone) < deleteChunkRows /\ gone = msgs[n]
             /\ msgs' = [msgs EXCEPT ![n] = @ \ gone]
             /\ reaping' = IF V!Cardinality(gone) < deleteChunkRows THEN reaping \ {n} ELSE reaping
             /\ UNCHANGED <<streams, next, hwm, stats, cons, rows, journal, born>>
    BY DEF V!ReapChunk
  <1>2. JournalInv'  BY <1>1 DEF JournalInv
  <1>3. n \in V!Names  BY <1>1 DEF TablesInv
  <1>4. msgs'[n] = msgs[n] \ gone /\ \A p \in V!Names : p # n => msgs'[p] = msgs[p]
    BY <1>1, <1>3 DEF TablesInv
  <1>5. n \in reaping' \/ msgs'[n] = {}
    <2>1. Cardinality(gone) \in Nat  BY <1>1, <1>3, Finite, FS_Subset, FS_CardinalityType
    <2>2. deleteChunkRows \in Nat  BY AuditAssumption DEF V!ConstantsAssumption
    <2> QED  BY <1>1, <1>4, <2>1, <2>2, SameSize
  <1>6. n \in streams => n # V!S /\ born = "overlaid"
    BY <1>1, <1>3 DEF TablesInv, StreamOK, Bounded, Counted
  <1>7. ASSUME NEW p \in V!Names PROVE StreamOK(p)'
    <2>1. CASE p = n
      <3>1. Bounded(n)'  BY <1>3, <1>4, StillBounded
      <3> QED  BY <1>1, <1>5, <1>6, <2>1, <3>1 DEF TablesInv, StreamOK
    <2>2. CASE p # n
      <3>1. p \in reaping' <=> p \in reaping  BY <1>1, <2>2
      <3> QED  BY <1>1, <1>4, <2>2, <3>1 DEF TablesInv, StreamOK, Bounded, Counted
    <2> QED  BY <2>1, <2>2
  <1>8. TablesInv'  BY <1>1, <1>3, <1>7 DEF TablesInv
  <1>9. ConsumerInv'
    <2>1. CASE n = V!S
      <3>1. cons = {} /\ DOMAIN rows = {}  BY <1>6, <2>1 DEF ConsumerInv
      <3> QED  BY <1>1, <3>1 DEF ConsumerInv
    <2>2. CASE n # V!S
      <3>1. msgs'[V!S] = msgs[V!S]  BY <1>4, <2>2, TwoNames
      <3> QED  BY <1>1, <3>1 DEF ConsumerInv, ConsumerOK
    <2> QED  BY <2>1, <2>2
  <1> QED  BY <1>2, <1>8, <1>9

LEMMA PublishStep ==
  ASSUME TablesInv, ConsumerInv, JournalInv, V!Publish
  PROVE  TablesInv' /\ ConsumerInv' /\ JournalInv'
  <1>1. PICK n \in streams :
             /\ next[n] \notin msgs[n]
             /\ msgs' = [msgs EXCEPT ![n] = @ \union {next[n]}]
             /\ next' = [next EXCEPT ![n] = @ + 1]
             /\ stats' = [stats EXCEPT ![n] = @ + 1]
             /\ V!Emit(<<V!Event("msg.publish", n, next[n])>>)
             /\ UNCHANGED <<streams, hwm, reaping, cons, rows, born>>
    BY DEF V!Publish
  <1>2. n \in V!Names /\ StreamOK(n) /\ next[n] \in Nat /\ next[n] >= 1
    BY <1>1 DEF TablesInv, StreamOK
  <1>3. JournalInv'
    <2>1. V!Event("msg.publish", n, next[n]) \in JournalRow
      BY <1>2 DEF V!Event, JournalRow, EventNames
    <2> QED  BY <1>1, <2>1, JournalKept
  <1>4. ConsumerInv'
    <2>1. /\ msgs[V!S] \subseteq msgs'[V!S] /\ next[V!S] <= next'[V!S]
          /\ next[V!S] \in Int /\ next'[V!S] \in Int
      BY <1>2, <1>1, TwoNames DEF TablesInv
    <2> QED  BY <1>1, <2>1, ConsumerKept
  <1>5. ASSUME NEW p \in V!Names PROVE StreamOK(p)'
    <2>1. CASE p = n
      <3>1. Cardinality(msgs[n] \cup {next[n]}) = Cardinality(msgs[n]) + 1
        BY <1>2, <1>1, Finite, FS_AddElement
      <3>2. /\ msgs'[n] = msgs[n] \cup {next[n]} /\ next'[n] = next[n] + 1
            /\ stats'[n] = stats[n] + 1 /\ hwm'[n] = hwm[n] /\ hwm[n] \in Nat
            /\ streams' = streams /\ reaping' = reaping /\ born' = born
        BY <1>2, <1>1 DEF TablesInv
      <3>3. Counted(n) => Counted(n)'
        BY <1>2, <3>1, <3>2 DEF Counted
      <3>4. Bounded(n)'  BY <1>2, <3>2, StillBounded
      <3> QED  BY <1>2, <1>1, <2>1, <3>2, <3>3, <3>4 DEF StreamOK
    <2>2. CASE p # n  BY <1>2, <1>1, <2>2 DEF TablesInv, StreamOK, Bounded, Counted
    <2> QED  BY <2>1, <2>2
  <1> QED  BY <1>2, <1>1, <1>3, <1>4, <1>5 DEF TablesInv

LEMMA DupPublishStep ==
  ASSUME TablesInv, ConsumerInv, JournalInv, V!DupPublish
  PROVE  TablesInv' /\ ConsumerInv' /\ JournalInv'
  <1> USE DEF V!DupPublish
  <1>1. V!Max(msgs[V!S]) \in Nat
    <2>1. StreamOK(V!S) /\ V!S \in streams  BY TwoNames DEF TablesInv
    <2>2. next[V!S] \in Nat /\ msgs[V!S] \subseteq 0 .. next[V!S] /\ msgs[V!S] # {}
      BY <2>1 DEF StreamOK, Counted
    <2> QED  BY <2>2, MaxIsGreatest
  <1>2. JournalInv'
    <2>1. V!Event("msg.dup", V!S, V!Max(msgs[V!S])) \in JournalRow  BY <1>1, TwoNames DEF V!Event, JournalRow, EventNames
    <2>2. V!Emit(<<V!Event("msg.dup", V!S, V!Max(msgs[V!S]))>>)  OBVIOUS
    <2> HIDE DEF V!DupPublish
    <2> QED  BY <2>1, <2>2, JournalKept
  <1>3. ConsumerInv'  BY ConsumerKept, TwoNames DEF TablesInv
  <1> QED  BY <1>2, <1>3, TablesKept

\* Where a consumer starts is in the stream.
LEMMA FirstSeqInStream ==
  ASSUME TablesInv, V!S \in streams
  PROVE  V!FirstSeq \in Nat /\ 1 <= V!FirstSeq /\ V!FirstSeq <= next[V!S]
  <1>1. msgs[V!S] \subseteq Nat /\ next[V!S] \in Nat /\ next[V!S] >= 1
        /\ \A q \in msgs[V!S] : q \in 1 .. next[V!S] - 1
    BY TwoNames DEF TablesInv, StreamOK, Bounded, Counted
  <1>2. msgs[V!S] # {} => V!Min(msgs[V!S]) \in msgs[V!S]  BY <1>1, MinIsLeast
  <1> QED  BY <1>1, <1>2 DEF V!FirstSeq

\* The consumer, where there is one.
LEMMA TheConsumer ==
  ASSUME TablesInv, ConsumerInv, cons # {}
  PROVE  /\ cons = {V!Consumer} /\ ConsumerOK(V!Consumer)
         /\ V!S \in streams /\ next[V!S] \in Nat
  BY TwoNames DEF ConsumerInv, V!Consumer, TablesInv, StreamOK

LEMMA CreateConsumerStep ==
  ASSUME TablesInv, ConsumerInv, JournalInv, V!CreateConsumer
  PROVE  TablesInv' /\ ConsumerInv' /\ JournalInv'
  <1> USE DEF V!CreateConsumer
  <1>1. JournalInv'
    <2>1. V!Event("consumer.create", V!S, 0) \in JournalRow  BY TwoNames DEF V!Event, JournalRow, EventNames
    <2>2. V!Emit(<<V!Event("consumer.create", V!S, 0)>>)  OBVIOUS
    <2> HIDE DEF V!CreateConsumer
    <2> QED  BY <2>1, <2>2, JournalKept
  <1>2. ConsumerInv'
    <2>1. DOMAIN rows = {}  BY DEF ConsumerInv
    <2>0. PICK c : c = [cursor |-> V!FirstSeq, gen |-> 1, maxDeliver |-> MaxDeliver,
                        maxAckPending |-> MaxAckPending, policy |-> "dlq"]
      OBVIOUS
    <2>2. c \in ConsumerRow /\ c.cursor = V!FirstSeq
      BY <2>0, FirstSeqInStream, AuditAssumption DEF ConsumerRow, V!ConstantsAssumption
    <2>3. cons' = {c}  BY <2>0
    <2>4. ConsumerOK(c)'  BY <2>1, <2>2, FirstSeqInStream DEF ConsumerOK
    <2> QED  BY <2>1, <2>3, <2>4 DEF ConsumerInv
  <1> QED  BY <1>1, <1>2, TablesKept

LEMMA DeleteConsumerStep ==
  ASSUME TablesInv, ConsumerInv, JournalInv, V!DeleteConsumer
  PROVE  TablesInv' /\ ConsumerInv' /\ JournalInv'
  <1> USE DEF V!DeleteConsumer
  <1>1. JournalInv'
    <2>1. V!Event("consumer.delete", V!S, 0) \in JournalRow  BY TwoNames DEF V!Event, JournalRow, EventNames
    <2>2. V!Emit(<<V!Event("consumer.delete", V!S, 0)>>)  OBVIOUS
    <2> HIDE DEF V!DeleteConsumer
    <2> QED  BY <2>1, <2>2, JournalKept
  <1>2. ConsumerInv'  BY NoRowsEmpty DEF ConsumerInv
  <1> QED  BY <1>1, <1>2, TablesKept

LEMMA UpdateConsumerStep ==
  ASSUME TablesInv, ConsumerInv, JournalInv, V!UpdateConsumer
  PROVE  TablesInv' /\ ConsumerInv' /\ JournalInv'
  <1> USE DEF V!UpdateConsumer
  <1>1. JournalInv'
    <2>1. V!Event("consumer.update", V!S, 0) \in JournalRow  BY TwoNames DEF V!Event, JournalRow, EventNames
    <2>2. V!Emit(<<V!Event("consumer.update", V!S, 0)>>)  OBVIOUS
    <2> HIDE DEF V!UpdateConsumer
    <2> QED  BY <2>1, <2>2, JournalKept
  <1>2. ConsumerInv'
    <2>0. PICK c : c = [V!Consumer EXCEPT !.maxDeliver = 1, !.maxAckPending = 1]  OBVIOUS
    <2>1. ConsumerOK(V!Consumer) /\ V!S \in streams  BY TheConsumer
    <2>2. c \in ConsumerRow /\ c.cursor = V!Consumer.cursor
      BY <2>0, <2>1 DEF ConsumerOK, ConsumerRow
    <2>3. cons' = {c}  BY <2>0
    <2>4. ConsumerOK(c)'  BY <2>1, <2>2 DEF ConsumerOK
    <2> QED  BY <2>1, <2>3, <2>4 DEF ConsumerInv
  <1> QED  BY <1>1, <1>2, TablesKept

LEMMA SeekStep ==
  ASSUME TablesInv, ConsumerInv, JournalInv, V!Seek
  PROVE  TablesInv' /\ ConsumerInv' /\ JournalInv'
  <1> USE DEF V!Seek
  <1>1. JournalInv'
    <2>1. V!Event("consumer.seek", V!S, 0) \in JournalRow  BY TwoNames DEF V!Event, JournalRow, EventNames
    <2>2. V!Emit(<<V!Event("consumer.seek", V!S, 0)>>)  OBVIOUS
    <2> HIDE DEF V!Seek
    <2> QED  BY <2>1, <2>2, JournalKept
  <1>2. ConsumerInv'
    <2>0. PICK c : c = [V!Consumer EXCEPT !.cursor = V!FirstSeq, !.gen = @ + 1]  OBVIOUS
    <2>1. ConsumerOK(V!Consumer) /\ V!S \in streams  BY TheConsumer
    <2>2. c \in ConsumerRow /\ c.cursor = V!FirstSeq
      <3>1. V!Consumer \in ConsumerRow /\ V!Consumer.gen + 1 \in Nat /\ V!FirstSeq \in Nat
        BY <2>1, FirstSeqInStream DEF ConsumerOK, ConsumerRow
      <3> HIDE DEF V!Seek
      <3> QED  BY <2>0, <3>1 DEF ConsumerRow
    <2>3. cons' = {c}  BY <2>0
    <2>4. ConsumerOK(c)'  BY <2>1, <2>2, FirstSeqInStream, NoRowsEmpty DEF ConsumerOK
    <2> QED  BY <2>1, <2>3, <2>4, NoRowsEmpty DEF ConsumerInv
  <1> QED  BY <1>1, <1>2, TablesKept

\* The rows that remain are rows of the messages that remain.
LEMMA FewerRows ==
  ASSUME ConsumerInv, NEW qs, rows' = V!RowsWithout(qs), msgs[V!S] \ qs \subseteq msgs'[V!S]
  PROVE  /\ DOMAIN rows' = DOMAIN rows \ qs /\ rows' \in [DOMAIN rows' -> DeliveryRow]
         /\ DOMAIN rows' \subseteq msgs'[V!S]
  <1>1. DOMAIN rows' = DOMAIN rows \ qs /\ rows' = [p \in DOMAIN rows \ qs |-> rows[p]]
    BY DEF V!RowsWithout
  <1> QED  BY <1>1 DEF ConsumerInv

\* A row is settled; the consumer stays.
LEMMA RowGone ==
  ASSUME TablesInv, ConsumerInv, NEW q \in DOMAIN rows, rows' = V!RowsWithout({q}), UNCHANGED cons,
         msgs'[V!S] = msgs[V!S], next'[V!S] = next[V!S], V!S \in streams => V!S \in streams'
  PROVE  ConsumerInv'
  <1>1. DOMAIN rows' = DOMAIN rows \ {q} /\ rows' \in [DOMAIN rows' -> DeliveryRow]
        /\ DOMAIN rows' \subseteq msgs'[V!S]
    BY FewerRows
  <1>2. ASSUME NEW c, ConsumerOK(c) PROVE ConsumerOK(c)'  BY <1>1, <1>2 DEF ConsumerOK
  <1>3. cons # {}  BY DEF ConsumerInv
  <1> QED  BY <1>1, <1>2, <1>3 DEF ConsumerInv

LEMMA AckStep ==
  ASSUME TablesInv, ConsumerInv, JournalInv, V!Ack
  PROVE  TablesInv' /\ ConsumerInv' /\ JournalInv'
  <1>1. PICK q \in DOMAIN rows :
             /\ rows' = V!RowsWithout({q}) /\ V!Emit(<<V!Event("msg.ack", V!S, q)>>)
             /\ UNCHANGED <<streams, next, hwm, reaping, born, msgs, stats, cons>>
    BY DEF V!Ack
  <1>2. q \in Nat  BY <1>1, TwoNames DEF ConsumerInv, TablesInv
  <1>3. V!Event("msg.ack", V!S, q) \in JournalRow
    BY <1>2, TwoNames DEF V!Event, JournalRow, EventNames
  <1>4. JournalInv'  BY <1>1, <1>3, JournalKept
  <1>5. ConsumerInv'  BY <1>1, RowGone
  <1> QED  BY <1>1, <1>4, <1>5, TablesKept

LEMMA NakStep ==
  ASSUME TablesInv, ConsumerInv, JournalInv, V!Nak
  PROVE  TablesInv' /\ ConsumerInv' /\ JournalInv'
  <1>1. PICK q \in DOMAIN rows :
             /\ rows' = [rows EXCEPT ![q].state = V!READY] /\ V!Emit(<<V!Event("msg.nak", V!S, q)>>)
             /\ UNCHANGED <<streams, next, hwm, reaping, born, msgs, stats, cons>>
    BY DEF V!Nak
  <1>2. q \in Nat  BY <1>1, TwoNames DEF ConsumerInv, TablesInv
  <1>3. V!Event("msg.nak", V!S, q) \in JournalRow
    BY <1>2, TwoNames DEF V!Event, JournalRow, EventNames
  <1>4. JournalInv'  BY <1>1, <1>3, JournalKept
  <1>5. DOMAIN rows' = DOMAIN rows /\ rows' \in [DOMAIN rows -> DeliveryRow]
    BY <1>1 DEF ConsumerInv, DeliveryRow
  <1>6. ASSUME NEW c, ConsumerOK(c) PROVE ConsumerOK(c)'  BY <1>1, <1>5, <1>6 DEF ConsumerOK
  <1>7. ConsumerInv'  BY <1>1, <1>5, <1>6 DEF ConsumerInv
  <1> QED  BY <1>1, <1>4, <1>7, TablesKept

LEMMA FetchStep ==
  ASSUME TablesInv, ConsumerInv, JournalInv, V!Fetch
  PROVE  TablesInv' /\ ConsumerInv' /\ JournalInv'
  <1>1. PICK q \in msgs[V!S] :
             /\ \/ /\ q \in DOMAIN rows
                   /\ rows' = [rows EXCEPT ![q].state = V!INFLIGHT, ![q].attempts = @ + 1]
                   /\ UNCHANGED cons
                \/ /\ q >= V!Consumer.cursor
                   /\ rows' = [p \in DOMAIN rows \union {q} |->
                                 IF p = q THEN [state |-> V!INFLIGHT, attempts |-> 1, gen |-> V!Consumer.gen]
                                 ELSE rows[p]]
                   /\ cons' = {[V!Consumer EXCEPT !.cursor = q + 1]}
             /\ V!Emit(<<V!Event("msg.deliver", V!S, q)>>)
    BY DEF V!Fetch
  <1>2. cons # {} /\ UNCHANGED <<streams, next, hwm, reaping, born, msgs, stats>>  BY DEF V!Fetch
  <1>3. V!S \in streams /\ ConsumerOK(V!Consumer)  BY <1>2, TheConsumer
  <1>4. q \in Nat /\ q < next[V!S] /\ next[V!S] \in Nat
    BY <1>1, <1>3, TwoNames DEF TablesInv, StreamOK, Bounded, Counted
  <1>5. V!Event("msg.deliver", V!S, q) \in JournalRow
    BY <1>4, TwoNames DEF V!Event, JournalRow, EventNames
  <1>6. JournalInv'  BY <1>1, <1>2, <1>5, JournalKept
  <1>7. CASE /\ q \in DOMAIN rows
             /\ rows' = [rows EXCEPT ![q].state = V!INFLIGHT, ![q].attempts = @ + 1]
             /\ UNCHANGED cons
    <2>1. PICK r : r = rows[q]  OBVIOUS
    <2>2. PICK d : d = [r EXCEPT !.state = V!INFLIGHT, !.attempts = @ + 1]  OBVIOUS
    <2>3. r \in [state : {V!READY, V!INFLIGHT}, attempts : Nat, gen : Nat]
      BY <1>7, <2>1 DEF ConsumerInv, DeliveryRow
    <2>4. r.attempts \in Nat /\ r.gen \in Nat  BY <2>3
    <2>5. d = [state |-> V!INFLIGHT, attempts |-> r.attempts + 1, gen |-> r.gen]  BY <2>2, <2>3
    <2>6. /\ d \in [state : {V!READY, V!INFLIGHT}, attempts : Nat, gen : Nat]
          /\ d.attempts = r.attempts + 1 /\ r.attempts \in Nat
      BY <2>4, <2>5
    <2>7. d \in DeliveryRow  BY <2>6 DEF DeliveryRow
    <2>8. rows' = [rows EXCEPT ![q] = d]  BY <1>7, <2>1, <2>2
    <2>9. DOMAIN rows' = DOMAIN rows /\ rows' \in [DOMAIN rows -> DeliveryRow]
      BY <2>7, <2>8 DEF ConsumerInv
    <2>10. ASSUME NEW c, ConsumerOK(c) PROVE ConsumerOK(c)'  BY <1>2, <2>9, <2>10 DEF ConsumerOK
    <2> QED  BY <1>2, <1>6, <1>7, <2>9, <2>10, TablesKept DEF ConsumerInv
  <1>8. CASE /\ q >= V!Consumer.cursor
             /\ rows' = [p \in DOMAIN rows \union {q} |->
                           IF p = q THEN [state |-> V!INFLIGHT, attempts |-> 1, gen |-> V!Consumer.gen]
                           ELSE rows[p]]
             /\ cons' = {[V!Consumer EXCEPT !.cursor = q + 1]}
    <2>0. PICK c : c = [V!Consumer EXCEPT !.cursor = q + 1]  OBVIOUS
    <2>1. V!Consumer \in ConsumerRow /\ V!Consumer.cursor \in Nat /\ V!Consumer.gen \in Nat
      BY <1>3 DEF ConsumerOK, ConsumerRow
    <2>2. DOMAIN rows' = DOMAIN rows \cup {q} /\ rows' \in [DOMAIN rows' -> DeliveryRow]
      BY <1>8, <2>1 DEF ConsumerInv, DeliveryRow
    <2>3. c \in ConsumerRow /\ c.cursor = q + 1  BY <1>4, <2>0, <2>1 DEF ConsumerRow
    <2>4. cons' = {c}  BY <1>8, <2>0
    <2>5. \A p \in DOMAIN rows : p \in Nat /\ p < V!Consumer.cursor
      BY <1>3, TwoNames DEF ConsumerOK, ConsumerInv, TablesInv
    <2>6. \A p \in DOMAIN rows' : p < q + 1  BY <1>4, <1>8, <2>1, <2>2, <2>5
    <2>7. ConsumerOK(c)'  BY <1>2, <1>4, <2>3, <2>6 DEF ConsumerOK
    <2>8. DOMAIN rows' \subseteq msgs'[V!S]  BY <1>2, <2>2 DEF ConsumerInv
    <2>9. ConsumerInv'  BY <1>2, <1>3, <2>2, <2>4, <2>7, <2>8 DEF ConsumerInv
    <2> QED  BY <1>2, <1>6, <2>9, TablesKept
  <1> QED  BY <1>1, <1>7, <1>8

LEMMA DeadStep ==
  ASSUME TablesInv, ConsumerInv, JournalInv, V!Dead
  PROVE  TablesInv' /\ ConsumerInv' /\ JournalInv'
  <1> DEFINE new == V!D \notin streams
             copy == IF new THEN 1 ELSE next[V!D]
             tell(q) == [V!Event("msg.dead", V!S, q) EXCEPT !.dlq = "written", !.dlqSeq = copy,
                                                            !.gen = rows[q].gen]
             made == IF new THEN <<V!Event("stream.create", V!D, 0)>> ELSE <<>>
  <1>1. PICK q \in DOMAIN rows :
             /\ copy \notin msgs[V!D]
             /\ streams' = streams \union {V!D}
             /\ next' = [next EXCEPT ![V!D] = copy + 1]
             /\ msgs' = [msgs EXCEPT ![V!D] = @ \union {copy}]
             /\ stats' = [stats EXCEPT ![V!D] = IF new THEN 1 ELSE @ + 1]
             /\ V!Emit(made \o <<tell(q)>>)
             /\ born' = IF ~new THEN born
                        ELSE IF V!D \in reaping THEN "overlaid"
                        ELSE IF hwm[V!D] > 0 THEN "reseeded" ELSE "fresh"
             /\ rows' = V!RowsWithout({q})
             /\ UNCHANGED <<hwm, reaping, cons>>
    BY DEF V!Dead
  <1>2. q \in Nat /\ rows[q].gen \in Nat
    BY <1>1, TwoNames DEF ConsumerInv, TablesInv, DeliveryRow
  <1>3. StreamOK(V!D) /\ hwm[V!D] \in Nat /\ msgs[V!D] \in SUBSET Nat  BY TwoNames DEF TablesInv
  <1>4. copy \in Nat /\ copy >= 1  BY <1>3 DEF StreamOK
  <1>5. PICK m : m = copy  OBVIOUS
  <1>6. JournalInv'
    <2>1. PICK e : e = tell(q)  OBVIOUS
    <2>2. e \in JournalRow
      BY <1>2, <1>4, <2>1, TwoNames DEF V!Event, JournalRow, EventNames
    <2>3. PICK b : b = made  OBVIOUS
    <2>4. b \in Seq(JournalRow)
      <3>1. V!Event("stream.create", V!D, 0) \in JournalRow
        BY TwoNames DEF V!Event, JournalRow, EventNames
      <3> QED  BY <2>3, <3>1
    <2>5. journal' = journal \o (b \o <<e>>)  BY <1>1, <2>1, <2>3 DEF V!Emit
    <2>6. <<e>> \in Seq(JournalRow)  BY <2>2
    <2>7. b \o <<e>> \in Seq(JournalRow)  BY <2>4, <2>6
    <2> QED  BY <2>5, <2>7 DEF JournalInv
  <1>7. ConsumerInv'
    <2>1. msgs'[V!S] = msgs[V!S] /\ next'[V!S] = next[V!S] /\ streams \subseteq streams'
      BY <1>1, TwoNames DEF TablesInv
    <2> QED  BY <1>1, <2>1, RowGone
  <1>8. StreamOK(V!D)'
    <2>1. /\ next'[V!D] = m + 1 /\ msgs'[V!D] = msgs[V!D] \cup {m} /\ V!D \in streams'
          /\ hwm' = hwm /\ reaping' = reaping /\ m \notin msgs[V!D] /\ m \in Nat /\ m >= 1
          /\ stats'[V!D] = IF new THEN 1 ELSE stats[V!D] + 1
          /\ m = IF new THEN 1 ELSE next[V!D]
      BY <1>1, <1>4, <1>5, TwoNames DEF TablesInv
    <2>2. Cardinality(msgs[V!D] \cup {m}) = Cardinality(msgs[V!D]) + 1 /\ Bounded(V!D)'
      BY <2>1, TwoNames, Finite, StillBounded, FS_AddElement
    <2>3. CASE new
      <3>1. CASE V!D \in reaping
        <4>1. born' = "overlaid"  BY <1>1, <2>3, <3>1
        <4> QED  BY <2>1, <2>2, <4>1, TwoNames DEF StreamOK
      <3>2. CASE V!D \notin reaping
        <4>1. msgs[V!D] = {} /\ Cardinality(msgs[V!D]) = 0
          BY <1>3, <2>3, <3>2, FS_EmptySet DEF StreamOK
        <4>2. Counted(V!D)'  BY <2>1, <2>2, <2>3, <3>2, <4>1 DEF Counted
        <4>3. born' = IF hwm[V!D] > 0 THEN "reseeded" ELSE "fresh"  BY <1>1, <2>3, <3>2
        <4>4. born' = "fresh" => next'[V!D] > hwm'[V!D]  BY <1>3, <2>1, <4>3
        <4> QED  BY <2>1, <2>2, <4>2, <4>4, TwoNames DEF StreamOK
      <3> QED  BY <3>1, <3>2
    <2>4. CASE ~new
      <3>1. born' = born  BY <1>1, <2>4
      <3>2. Counted(V!D) => Counted(V!D)'  BY <1>3, <2>1, <2>2, <2>4 DEF Counted
      <3> QED  BY <1>3, <2>1, <2>2, <2>4, <3>1, <3>2, TwoNames DEF StreamOK
    <2> QED  BY <2>3, <2>4
  <1>9. StreamOK(V!S)'
    BY <1>1, TwoNames DEF TablesInv, StreamOK, Bounded, Counted
  <1>10. TablesInv'
    BY <1>1, <1>4, <1>8, <1>9, TwoNames DEF TablesInv
  <1> QED  BY <1>6, <1>7, <1>10

LEMMA PurgeStep ==
  ASSUME TablesInv, ConsumerInv, JournalInv, V!Purge
  PROVE  TablesInv' /\ ConsumerInv' /\ JournalInv'
  <1>1. PICK n, victims :
             /\ n \in streams /\ victims \in SUBSET msgs[n]
             /\ msgs' = [msgs EXCEPT ![n] = @ \ victims]
             /\ stats' = [stats EXCEPT ![n] = @ - V!Cardinality(victims)]
             /\ IF n = V!S
                THEN /\ rows' = V!RowsWithout(victims)
                     /\ cons' = {IF victims \intersect DOMAIN rows # {} THEN [c EXCEPT !.gen = @ + 1] ELSE c
                                  : c \in cons}
                ELSE UNCHANGED <<rows, cons>>
             /\ V!Emit(<<V!Event("stream.purge", n, 0)>>)
             /\ UNCHANGED <<streams, next, hwm, reaping, born>>
    BY DEF V!Purge
  <1>2. n \in V!Names /\ msgs'[n] = msgs[n] \ victims /\ \A p \in V!Names : p # n => msgs'[p] = msgs[p]
    BY <1>1 DEF TablesInv
  <1>3. JournalInv'
    <2>1. V!Event("stream.purge", n, 0) \in JournalRow
      BY <1>2 DEF V!Event, JournalRow, EventNames
    <2> QED  BY <1>1, <2>1, JournalKept
  <1>4. ASSUME NEW p \in V!Names PROVE StreamOK(p)'
    <2>1. CASE p = n
      <3>1. IsFiniteSet(msgs[n]) /\ msgs[n] \cap victims = victims  BY <1>1, <1>2, Finite
      <3>2. Cardinality(msgs[n] \ victims) = Cardinality(msgs[n]) - Cardinality(victims)
        BY <3>1, FS_Difference
      <3>3. Bounded(n)'  BY <1>2, StillBounded
      <3>4. stats'[n] = stats[n] - Cardinality(victims)  BY <1>1, <1>2, SameSize DEF TablesInv
      <3>5. Counted(n) => Counted(n)'  BY <1>1, <1>2, <3>2, <3>4 DEF Counted
      <3> QED  BY <1>1, <1>2, <2>1, <3>3, <3>5 DEF TablesInv, StreamOK
    <2>2. CASE p # n  BY <1>1, <1>2, <2>2 DEF TablesInv, StreamOK, Bounded, Counted
    <2> QED  BY <2>1, <2>2
  <1>5. TablesInv'
    <2>1. IsFiniteSet(victims)  BY <1>1, <1>2, Finite, FS_Subset
    <2>2. Cardinality(victims) \in Nat  BY <2>1, FS_CardinalityType
    <2>3. stats' \in [V!Names -> Int]  BY <1>1, <1>2, <2>2, SameSize DEF TablesInv
    <2> QED  BY <1>1, <1>2, <1>4, <2>3 DEF TablesInv
  <1>6. CASE n # V!S
    <2>1. msgs'[V!S] = msgs[V!S]  BY <1>2, <1>6, TwoNames
    <2>2. next[V!S] \in Int  BY TwoNames DEF TablesInv
    <2>3. ConsumerInv'  BY <1>1, <1>6, <2>1, <2>2, ConsumerKept
    <2> QED  BY <1>3, <1>5, <2>3
  <1>7. CASE n = V!S
    <2>1. rows' = V!RowsWithout(victims) /\ msgs[V!S] \ victims \subseteq msgs'[V!S]
      BY <1>1, <1>2, <1>7
    <2>2. DOMAIN rows' = DOMAIN rows \ victims /\ rows' \in [DOMAIN rows' -> DeliveryRow]
          /\ DOMAIN rows' \subseteq msgs'[V!S]
      BY <2>1, FewerRows
    <2>3. CASE cons = {}  BY <1>1, <1>3, <1>5, <1>7, <2>2, <2>3 DEF ConsumerInv
    <2>4. CASE cons # {}
      <3>1. cons = {V!Consumer} /\ ConsumerOK(V!Consumer) /\ V!S \in streams  BY <2>4, TheConsumer
      <3>2. PICK k : k = V!Consumer  OBVIOUS
      <3>3. PICK d : d = IF victims \intersect DOMAIN rows # {} THEN [k EXCEPT !.gen = @ + 1] ELSE k
        OBVIOUS
      <3>4. cons' = {d}  BY <1>1, <1>7, <3>1, <3>2, <3>3
      <3>5. k \in ConsumerRow /\ k.gen + 1 \in Nat  BY <3>1, <3>2 DEF ConsumerOK, ConsumerRow
      <3>6. d \in ConsumerRow /\ d.cursor = k.cursor  BY <3>3, <3>5 DEF ConsumerRow
      <3>7. ConsumerOK(d)'  BY <1>1, <2>2, <3>1, <3>2, <3>6 DEF ConsumerOK
      <3> QED  BY <1>1, <1>3, <1>5, <2>2, <3>1, <3>4, <3>7 DEF ConsumerInv
    <2> QED  BY <2>3, <2>4
  <1> QED  BY <1>6, <1>7

LEMMA CommandStep ==
  ASSUME TablesInv, ConsumerInv, JournalInv, V!Command
  PROVE  TablesInv' /\ ConsumerInv' /\ JournalInv'
  BY CreateStreamStep, DeleteStreamStep, ReapChunkStep, PublishStep, DupPublishStep,
     CreateConsumerStep, DeleteConsumerStep, UpdateConsumerStep, SeekStep, FetchStep, AckStep, NakStep, DeadStep,
     PurgeStep
     DEF V!Command

-----------------------------------------------------------------------------
(* Verify: what the checks say. *)

LEMMA SoundIsSilent ==
  ASSUME TablesInv, ConsumerInv, JournalInv
  PROVE  /\ \A n \in V!Names :
              /\ (n = V!S \/ born # "overlaid" => V!V6Of(n) /\ V!V7Of(n) /\ V!P5Of(n))
              /\ (n = V!S \/ born = "fresh" => V!P2Of(n))
         /\ V!I2 /\ V!I6 /\ V!I7Lease /\ V!PDLQ4 /\ V!C1 /\ V!C2 /\ V!C4
  <1>1. ASSUME NEW n \in V!Names, n \in streams, Counted(n) PROVE next[n] > V!MaxOr0(msgs[n])
    <2>1. next[n] \in Nat /\ next[n] > 0 /\ \A q \in msgs[n] : q \in 1 .. next[n] - 1
      BY <1>1 DEF TablesInv, StreamOK, Bounded, Counted
    <2>2. ASSUME msgs[n] # {} PROVE V!Max(msgs[n]) < next[n]
      <3>1. msgs[n] \subseteq 0 .. next[n]  BY <2>1
      <3>2. V!Max(msgs[n]) \in msgs[n]  BY <2>1, <2>2, <3>1, MaxIsGreatest
      <3> QED  BY <2>1, <3>2
    <2> QED  BY <2>1, <2>2 DEF V!MaxOr0
  <1>2. ASSUME NEW n \in V!Names, n = V!S \/ born # "overlaid"
        PROVE  V!V6Of(n) /\ V!V7Of(n) /\ V!P5Of(n)
    <2>1. Cardinality(msgs[n]) \in Nat  BY Finite, FS_CardinalityType
    <2>2. StreamOK(n)  BY DEF TablesInv
    <2>3. n \in streams => Counted(n)  BY <1>2, <2>2 DEF StreamOK
    <2>4. V!V6Of(n)  BY <1>1, <2>2, <2>3 DEF V!V6Of, StreamOK
    <2> QED  BY <2>1, <2>2, <2>3, <2>4, SameSize DEF V!V7Of, V!P5Of, StreamOK, Counted, V!Absent
  <1>3. ASSUME NEW n \in V!Names, n = V!S \/ born = "fresh" PROVE V!P2Of(n)
    <2>1. StreamOK(n)  BY DEF TablesInv
    <2>2. n \in streams => Counted(n)  BY <1>3, <2>1 DEF StreamOK
    <2> QED  BY <1>1, <1>3, <2>1, <2>2 DEF V!P2Of, StreamOK, V!Absent
  <1>4. V!I2 /\ V!C2 /\ V!I7Lease  BY DEF V!I2, V!C2, V!I7Lease, ConsumerInv, DeliveryRow
  <1>5. V!I6 /\ V!C1 /\ V!C4  BY DEF V!I6, V!C1, V!C4, ConsumerInv, ConsumerOK
  <1>6. V!PDLQ4
    <2>1. \A i \in DOMAIN journal : journal[i] \in JournalRow  BY DEF JournalInv
    <2>2. \A i \in DOMAIN journal : journal[i].dlq # "origin_missing"  BY <2>1 DEF JournalRow
    <2> QED  BY <2>2 DEF V!PDLQ4, V!Deaths
  <1> QED  BY <1>2, <1>3, <1>4, <1>5, <1>6

\* A check that fails is reported, a deep one with --deep, and then the command
\* fails.
LEMMA FailedIsReported ==
  ASSUME NEW deep \in BOOLEAN
  PROVE  /\ ~V!V6 => "V6" \in V!Reported(deep)
         /\ ~V!I2 => "I2" \in V!Reported(deep)
         /\ ~V!I6 => "I6" \in V!Reported(deep)
         /\ ~V!I7 => "I7" \in V!Reported(deep)
         /\ ~V!V7 /\ deep => "V7" \in V!Reported(deep)
         /\ V!Reported(deep) # {} => V!runVerify(deep) = V!exitError
  <1>1. /\ V!Registry["V6"] = V!V6 /\ V!Registry["I2"] = V!I2 /\ V!Registry["I6"] = V!I6
        /\ V!Registry["I7"] = V!I7 /\ V!Registry["V7"] = V!V7
    BY DEF V!Registry
  <1>2. {"V6", "I2", "I6", "I7", "V7"} \subseteq DOMAIN V!Registry
    BY DEF V!Registry
  <1>3. \A k \in DOMAIN V!Registry :
          ~V!Registry[k] /\ (k \in V!Deep => deep) => k \in V!Reported(deep)
    BY DEF V!Reported
  <1>4. "V6" \notin V!Deep /\ "I2" \notin V!Deep /\ "I6" \notin V!Deep /\ "I7" \notin V!Deep
    BY DEF V!Deep
  <1>5. V!Reported(deep) # {} => V!runVerify(deep) = V!exitError  BY DEF V!runVerify
  <1> QED  BY <1>1, <1>2, <1>3, <1>4, <1>5

LEMMA DamageStep ==
  ASSUME TablesInv, ConsumerInv, JournalInv, NEW k \in Damages, V!Damage(k)
  PROVE  DamageSeen' /\ damage' # "none"
  <1>0. damage' = k /\ UNCHANGED <<streams, hwm, reaping, journal, born>>  BY DEF V!Damage
  <1>1. ASSUME k = "message" PROVE ~V!I2'
    <2>1. PICK q \in DOMAIN rows : msgs' = [msgs EXCEPT ![V!S] = @ \ {q}] /\ rows' = rows
      BY <1>1 DEF V!Damage
    <2>2. q \in DOMAIN rows' /\ q \notin msgs'[V!S]  BY <2>1, TwoNames DEF TablesInv
    <2> QED  BY <2>2 DEF V!I2
  <1>2. ASSUME k = "counter" PROVE ~V!V6'
    <2>1. PICK n \in streams : msgs[n] # {} /\ next' = [next EXCEPT ![n] = V!Max(msgs[n])]
                               /\ msgs' = msgs
      BY <1>2 DEF V!Damage
    <2>2. n \in V!Names /\ msgs[n] \in SUBSET Nat  BY <2>1 DEF TablesInv
    <2>3. V!Max(msgs[n]) \in msgs[n]
      <3>1. PICK u \in Nat : \A x \in msgs[n] : x <= u
        BY <2>2 DEF TablesInv, StreamOK, Bounded
      <3>2. msgs[n] \subseteq 0 .. u  BY <2>2, <3>1
      <3> QED  BY <2>1, <3>1, <3>2, MaxIsGreatest
    <2>4. V!Max(msgs[n]) \in Nat  BY <2>2, <2>3
    <2>5. next'[n] = V!Max(msgs[n])  BY <2>1, <2>2 DEF TablesInv
    <2>6. V!MaxOr0(msgs[n])' = next'[n] /\ next'[n] # V!Absent
      BY <2>1, <2>4, <2>5 DEF V!MaxOr0, V!Absent
    <2>7. ~V!V6Of(n)'  BY <2>4, <2>5, <2>6 DEF V!V6Of
    <2> QED  BY <2>2, <2>7 DEF V!V6
  <1>3. ASSUME k = "stats" PROVE ~V!V7' \/ born = "overlaid"
    <2> SUFFICES ASSUME born # "overlaid" PROVE ~V!V7'  OBVIOUS
    <2>1. PICK n, x : /\ n \in streams /\ x \in {V!Absent, stats[n] + 1}
                      /\ stats' = [stats EXCEPT ![n] = x] /\ msgs' = msgs
      BY <1>3 DEF V!Damage
    <2>2. n \in V!Names /\ stats[n] = Cardinality(msgs[n]) /\ stats'[n] = x
      BY <2>1 DEF TablesInv, StreamOK, Bounded, Counted
    <2>3. Cardinality(msgs[n]) \in Nat  BY <2>2, Finite, FS_CardinalityType
    <2>4. x = V!Absent \/ x # Cardinality(msgs[n])  BY <2>1, <2>2, <2>3
    <2>5. ~V!V7Of(n)'  BY <1>0, <2>1, <2>2, <2>4, SameSize DEF V!V7Of
    <2> QED  BY <2>2, <2>5 DEF V!V7
  <1>4. ASSUME k = "cursor" PROVE ~V!I6'
    <2>1. PICK c \in cons : cons' = {[c EXCEPT !.cursor = x] : x \in {next[V!S] + 1}}
                            /\ next' = next
      BY <1>4 DEF V!Damage
    <2>2. c \in ConsumerRow /\ next[V!S] \in Nat
      BY <2>1, TwoNames DEF ConsumerInv, ConsumerOK, TablesInv, StreamOK
    <2>3. PICK d : d = [c EXCEPT !.cursor = next[V!S] + 1]  OBVIOUS
    <2>4. d \in cons' /\ d.cursor = next[V!S] + 1  BY <2>1, <2>2, <2>3 DEF ConsumerRow
    <2> QED  BY <2>1, <2>2, <2>4 DEF V!I6, V!Absent
  <1>5. ASSUME k = "rewind" PROVE ~V!I6'
    <2>1. PICK c \in cons : cons' = {[c EXCEPT !.cursor = V!Min(DOMAIN rows)]} /\ rows' = rows
      BY <1>5 DEF V!Damage
    <2>2. DOMAIN rows # {}  BY <1>5 DEF V!Damage
    <2>3. DOMAIN rows \subseteq Nat /\ c \in ConsumerRow
      BY <2>1, TwoNames DEF ConsumerInv, ConsumerOK, TablesInv
    <2>4. PICK q : q = V!Min(DOMAIN rows)  OBVIOUS
    <2>5. q \in DOMAIN rows /\ q \in Nat  BY <2>2, <2>3, <2>4, MinIsLeast
    <2>6. PICK d : d = [c EXCEPT !.cursor = q]  OBVIOUS
    <2>7. d \in cons' /\ d.cursor = q  BY <2>1, <2>3, <2>4, <2>6 DEF ConsumerRow
    <2>8. q \in DOMAIN rows' /\ ~(q < d.cursor)  BY <2>1, <2>5, <2>7
    <2> QED  BY <2>7, <2>8 DEF V!I6
  <1>6. ASSUME k = "row" PROVE ~V!I7Lease'
    <2>1. PICK q \in DOMAIN rows :
               rows' = [rows EXCEPT ![q] = [state |-> V!INFLIGHT, attempts |-> 0, gen |-> @.gen]]
      BY <1>6 DEF V!Damage
    <2>2. q \in DOMAIN rows' /\ rows'[q].state = V!INFLIGHT /\ rows'[q].attempts = 0
      BY <2>1 DEF ConsumerInv
    <2> QED  BY <2>2 DEF V!I7Lease
  <1>7. ASSUME k = "copy" PROVE ~V!V7' \/ born = "overlaid"
    <2> SUFFICES ASSUME born # "overlaid" PROVE ~V!V7'  OBVIOUS
    <2>1. PICK q \in msgs[V!D] : /\ V!D \in streams /\ UNCHANGED stats
                                  /\ msgs' = [msgs EXCEPT ![V!D] = @ \ {q}]
      BY <1>7 DEF V!Damage
    <2>2. msgs'[V!D] = msgs[V!D] \ {q} /\ stats[V!D] = Cardinality(msgs[V!D])
      BY <2>1, TwoNames DEF TablesInv, StreamOK, Bounded, Counted
    <2>3. Cardinality(msgs[V!D] \ {q}) = Cardinality(msgs[V!D]) - 1
          /\ Cardinality(msgs[V!D]) \in Nat
      BY <2>1, TwoNames, Finite, FS_RemoveElement, FS_CardinalityType
    <2>4. V!D \in streams'  BY <1>0, <2>1
    <2>5. stats'[V!D] # Cardinality(msgs'[V!D])
      <3>1. stats'[V!D] = Cardinality(msgs[V!D])  BY <2>1, <2>2, Zenon
      <3>2. Cardinality(msgs'[V!D]) = Cardinality(msgs[V!D]) - 1  BY <2>2, <2>3, Zenon
      <3>3. PICK c \in Nat : c = Cardinality(msgs[V!D])  BY <2>3
      <3>4. c # c - 1  OBVIOUS
      <3> QED  BY <3>1, <3>2, <3>3, <3>4, Zenon
    <2>6. V!Cardinality(msgs'[V!D]) = Cardinality(msgs'[V!D])  BY SameSize, Zenon
    <2>7. V!V7Of(V!D)' => stats'[V!D] = V!Cardinality(msgs'[V!D])  BY <2>4 DEF V!V7Of
    <2>8. ~V!V7Of(V!D)'  BY <2>5, <2>6, <2>7
    <2> QED  BY <2>8, TwoNames DEF V!V7
  <1>8. k \in {"message", "counter", "stats", "cursor", "rewind", "row", "copy"}
    BY DEF V!Damage
  <1> QED  BY <1>0, <1>1, <1>2, <1>3, <1>4, <1>5, <1>6, <1>7, <1>8 DEF DamageSeen

-----------------------------------------------------------------------------
LEMMA AuditInit == DiskInit => AuditInv
  <1> SUFFICES ASSUME V!Init PROVE AuditInv  BY DEF DiskInit
  <1> USE DEF V!Init
  <1>1. ASSUME NEW n \in V!Names PROVE StreamOK(n)
    BY <1>1 DEF StreamOK, Bounded
  <1>2. TablesInv  BY <1>1, TwoNames DEF TablesInv, V!Absent
  <1>3. ConsumerInv  BY NoRowsEmpty DEF ConsumerInv
  <1>4. JournalInv  BY DEF JournalInv
  <1> QED  BY <1>2, <1>3, <1>4 DEF AuditInv, DamageSeen

LEMMA AuditStep == AuditInv /\ [DiskNext]_<<part, tables, report, vars>> => AuditInv'
  <1> SUFFICES ASSUME AuditInv, [DiskNext]_<<part, tables, report, vars>> PROVE AuditInv'
    OBVIOUS
  <1>1. CASE V!Next
    <2>1. damage = "none"  BY <1>1 DEF V!Next, V!Command, V!Damage
    <2>2. TablesInv /\ ConsumerInv /\ JournalInv  BY <2>1 DEF AuditInv
    <2>3. CASE V!Command
      <3>1. damage' = "none"  BY <2>1, <2>3 DEF V!Command
      <3> QED  BY <2>2, <2>3, <3>1, CommandStep DEF AuditInv, DamageSeen
    <2>4. CASE \E k \in Damages : V!Damage(k)
      BY <2>2, <2>4, DamageStep DEF AuditInv
    <2> QED  BY <1>1, <2>3, <2>4 DEF V!Next
  <1>2. CASE UNCHANGED tables
    <2>1. UNCHANGED <<streams, next, hwm, reaping, msgs, stats, cons, rows, journal, born, damage>>
      BY <1>2 DEF tables
    <2>2. TablesInv => TablesInv'  BY <2>1, TablesKept
    <2>3. ConsumerInv => ConsumerInv'  BY <2>1 DEF ConsumerInv, ConsumerOK
    <2>4. JournalInv => JournalInv'  BY <2>1 DEF JournalInv
    <2>5. DamageSeen => DamageSeen'
      BY <2>1 DEF DamageSeen, V!V6, V!V6Of, V!V7, V!V7Of, V!I2, V!I6, V!I7Lease, V!MaxOr0
    <2> QED  BY <2>1, <2>2, <2>3, <2>4, <2>5 DEF AuditInv
  <1> QED  BY <1>1, <1>2 DEF DiskNext

\* Whatever commands ran, in whatever state a delete and its reap are, the
\* checks that can be silent are, except for a dead-letter stream provisioned
\* over a deleted one; whatever table an out-of-band write broke, the check
\* about that table reports it and the command exits 1 (verify.go: Run;
\* cli/verify.go: runVerify).
THEOREM AuditsAreTrue == DiskSpec => []AuditIsTrue
  <1>1. AuditInv => V!HealthyIsSilent  BY SoundIsSilent DEF AuditInv, V!HealthyIsSilent
  <1>2. ASSUME DamageSeen PROVE V!DamageIsReported
    <2> SUFFICES ASSUME damage # "none", NEW deep \in BOOLEAN,
                        ~(V!Watches(damage) \in V!Deep /\ ~deep),
                        ~(damage \in {"stats", "copy"} /\ born = "overlaid")
                 PROVE  /\ V!Watches(damage) \in V!Reported(deep)
                        /\ (damage = "row" => ~V!I7Lease)
                        /\ V!runVerify(deep) = V!exitError
      BY DEF V!DamageIsReported
    <2>1. ~V!I7Lease => ~V!I7  BY DEF V!I7
    <2>2. V!Watches(damage) \in V!Reported(deep)
      <3>1. CASE damage = "message"
        BY <1>2, <3>1, FailedIsReported DEF DamageSeen, V!Watches
      <3>2. CASE damage = "counter"
        BY <1>2, <3>2, FailedIsReported DEF DamageSeen, V!Watches
      <3>3. CASE damage \in {"stats", "copy"}
        <4>1. V!Watches(damage) = "V7" /\ "V7" \in V!Deep  BY <3>3 DEF V!Watches, V!Deep
        <4> QED  BY <1>2, <3>3, <4>1, FailedIsReported DEF DamageSeen
      <3>4. CASE damage \in {"cursor", "rewind"}
        <4>1. V!Watches(damage) = "I6"  BY <3>4 DEF V!Watches
        <4> QED  BY <1>2, <3>4, <4>1, FailedIsReported DEF DamageSeen
      <3>5. CASE damage = "row"
        BY <1>2, <2>1, <3>5, FailedIsReported DEF DamageSeen, V!Watches
      <3> QED  BY <1>2, <3>1, <3>2, <3>3, <3>4, <3>5 DEF DamageSeen
    <2> QED  BY <1>2, <2>2, FailedIsReported DEF DamageSeen
  <1>3. AuditInv => AuditIsTrue  BY <1>1, <1>2 DEF AuditInv, AuditIsTrue
  <1> QED  BY <1>3, AuditInit, AuditStep, PTL DEF DiskSpec
=============================================================================
