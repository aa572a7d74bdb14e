------------------------------- MODULE MCDisk -------------------------------
(***************************************************************************)
(* The data directory and the tools that look at it, Storage, Verify and   *)
(* Doctor, on small instances for TLC.  They share no state: a behaviour   *)
(* belongs to one of them, and leaves the variables of the others alone.   *)
(***************************************************************************)
EXTENDS MCStorage

CONSTANTS
    MaxEvents, MaxPlain, AuditSeq, \* bounds of Verify: journal entries, sequence numbers
    MaxDeliver, MaxAckPending,     \* the consumer of Verify, as created
    deleteChunkRows,               \* the messages one command of its reap deletes
    Damages, Ops                   \* its out-of-band writes and its commands

VARIABLES
    part,       \* the part this behaviour is about
    \* the tables messq verify audits
    streams, next, hwm, reaping, msgs, stats, cons, rows, journal, born, damage,
    \* a run of messq doctor
    world, opts, phase, snap, ran, findings, exit

tables == <<streams, next, hwm, reaping, msgs, stats, cons, rows, journal, born, damage>>
report == <<world, opts, phase, snap, ran, findings, exit>>

-----------------------------------------------------------------------------
(* messq verify over every history of commands and one out-of-band write. *)
V == INSTANCE Verify WITH MaxSeq <- AuditSeq

ASSUME AuditAssumption == V!ConstantsAssumption

(* messq doctor over every pair of problems. *)
SeenProblems ==
    {"consumer.max_deliver_unlimited", "stream.no_consumers", "stream.typo_suspect",
     "server.restored", "dlq.no_consumer", "dlq.no_retention", "drop", "old deaths", "unclean once",
     "storage.fs_type", "consumer.idle", "consumer.paused", "security.permissions",
     "dlq.growing_undrained", "server.unclean_last_start", "server.restart_loop",
     "server.unreachable", "server.version_skew", "durability.mode_relaxed",
     "durability.tmpfs", "consumer.flow_blocked"}
D == INSTANCE Doctor WITH
    Problems <- SeenProblems, MaxProblems <- 2, Sources <- {"live", "data-dir"},
    BackupDirs <- {""}, FailOns <- {"info"}, Skips <- {{}, {"dlq.no_consumer"}},
    Cuts <- {1, 15, 16, 27, 43}

-----------------------------------------------------------------------------
\* No run of doctor.
NoReport ==
    /\ world = {} /\ opts = {} /\ phase = "none" /\ snap = {} /\ ran = {}
    /\ findings = {} /\ exit = {}

\* The tables of Verify are empty at first in every part.
DiskInit ==
    /\ Init /\ V!Init
    /\ \/ part \in {"backup", "readers"} /\ NoReport
       \/ part = "verify" /\ db = NoDatabase /\ NoReport
       \/ part = "doctor" /\ db = NoDatabase /\ D!Init

\* A directory has a backup and no reader, or readers and no backup: both only
\* read the file.
DiskNext ==
    /\ UNCHANGED part
    /\ \/ /\ Next /\ UNCHANGED <<tables, report>>
          /\ part = "backup" => \A p \in ReadOnly : pc'[p] = "down"
          /\ part = "readers" => UNCHANGED bk
          /\ part \in {"backup", "readers"}
       \/ part = "verify" /\ V!Next /\ UNCHANGED <<report, vars>>
       \/ part = "doctor" /\ D!Next /\ UNCHANGED <<tables, vars>>

DiskSpec == DiskInit /\ [][DiskNext]_<<part, tables, report, vars>>

-----------------------------------------------------------------------------
\* messq verify reports every out-of-band write by the check about the table it
\* broke, and stays silent about every state the store reaches by itself, on the
\* checks that can, unless the dead-letter stream was provisioned over a deleted
\* one (verify/verify.go, cli/verify.go, store/invariants.go).
AuditIsTrue == V!HealthyIsSilent /\ V!DamageIsReported

\* messq doctor names every problem its source collects, and nothing else but
\* what a failed listing or an old journal entry tells it (doctor/check.go:
\* RunChecks; the collectors).
FindingsMatch == part = "doctor" => D!SeenIsReported /\ D!NoFalseAlarm
=============================================================================
