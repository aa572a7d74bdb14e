------------------------------- MODULE Doctor -------------------------------
(***************************************************************************)
(* `messq doctor` (internal/doctor, internal/cli/doctor.go): one snapshot  *)
(* is collected from a running daemon or from a data directory, every      *)
(* registered check is a function of that snapshot, and the exit code is   *)
(* read off the findings.                                                  *)
(*                                                                         *)
(* The world is the set of problems the installation has; a collector sees *)
(* the part of it its queries select.  Ages are in hours.                  *)
(***************************************************************************)
EXTENDS Integers, Sequences, FiniteSets, SequencesExt, FiniteSetsExt

CONSTANTS
    Problems,       \* the problems an installation may have
    MaxProblems,    \* bound: problems it has at once
    Sources,        \* the sources asked: "live", "data-dir"
    BackupDirs,     \* the values of --backup-dir
    FailOns,        \* the values of --fail-on
    Skips,          \* the values of --skip: sets of ids
    Cuts            \* the checks during which the whole-run context may end

VARIABLES
    world,      \* the problems that hold
    opts,       \* [source, backupDir, failOn, skip]
    phase,      \* "collect", "check", "done"
    snap,       \* the collected snapshot
    ran,        \* ids of the checks that were evaluated
    findings,   \* the findings: [id, sev, subject]
    exit        \* the exit code, -1 before

vars == <<world, opts, phase, snap, ran, findings, exit>>

(***************************************************************************)
(* Severities, findings and the registry.                                  *)
(***************************************************************************)
SevSkipped == 0
SevOK == 1
SevInfo == 2
SevWarn == 3
SevFail == 4
Found(id, sev, subject) == {[id |-> id, sev |-> sev, subject |-> subject]}
skippedCheck(id) == Found(id, SevSkipped, "")
SkipUnless(known, id, verdict) == IF known THEN verdict ELSE skippedCheck(id)
Alarm(cond, id, sev, subject) == IF cond THEN Found(id, sev, subject) ELSE {}

\* Registry.List: every registered id, sorted.
List == <<
    "backup.none_configured", "backup.perms", "backup.stale", "backup.unreadable",
    "consumer.filter_matches_nothing", "consumer.flow_blocked", "consumer.idle",
    "consumer.idle_no_backlog", "consumer.max_deliver_unlimited",
    "consumer.max_deliver_unlimited_no_dlq", "consumer.oldest_pending", "consumer.paused",
    "consumer.stale_acks", "consumer.time_to_dead_exceeds_events", "dlq.growing_undrained",
    "dlq.no_consumer", "dlq.no_retention", "dlq.template_drift",
    "durability.fsync_implausible", "durability.fsync_probe", "durability.mode_relaxed",
    "durability.pragma", "durability.tmpfs", "metrics.dropped_series",
    "security.cleartext_public", "security.permissions", "security.tcp_no_auth",
    "server.clock_jump", "server.janitor_disabled", "server.restart_loop", "server.restored",
    "server.sweep_interval", "server.unclean_last_start", "server.unreachable",
    "server.version_skew", "storage.disk_headroom", "storage.events_share",
    "storage.fs_type", "storage.mount_options", "storage.readonly_latch",
    "storage.reserve_unavailable", "storage.wal_size", "stream.no_consumers",
    "stream.typo_suspect" >>

(***************************************************************************)
(* The installation: the tables and files the collectors read.            *)
(***************************************************************************)
Has(p) == p \in world
week == 168

StreamRows ==
    {[name |-> "orders", msgs |-> 20, retention |-> TRUE, age |-> 500]}
    \union (IF Has("stream.no_consumers")
            THEN {[name |-> "audit", msgs |-> 20, retention |-> TRUE, age |-> 200]} ELSE {})
    \union (IF Has("stream.typo_suspect")
            THEN {[name |-> "ordres", msgs |-> 2, retention |-> TRUE, age |-> 10]} ELSE {})
    \union (IF world \intersect {"dlq.growing_undrained", "dlq.no_consumer", "dlq.no_retention"} # {}
            THEN {[name |-> "orders.dlq", msgs |-> 20, age |-> 10,
                   retention |-> ~Has("dlq.no_retention")]} ELSE {})
ConsumerRows ==
    {[stream |-> "orders", name |-> "w", dead |-> IF Has("drop") THEN "drop" ELSE "dlq",
      maxDeliver |-> IF Has("consumer.max_deliver_unlimited") THEN 0 ELSE 5,
      paused |-> Has("consumer.paused"), maxAckPending |-> 2, ackWait |-> 30, filters |-> 2]}
    \union (IF Has("dlq.no_consumer") THEN {}
            ELSE {[stream |-> "orders.dlq", name |-> "watch", dead |-> "drop", maxDeliver |-> 5,
                   paused |-> FALSE, maxAckPending |-> 2, ackWait |-> 30, filters |-> 0]})
\* deliveries of orders/w: READY and INFLIGHT rows, hours since the last delivery
DeliveryRows ==
    IF Has("consumer.flow_blocked") THEN [rows |-> 2, inflight |-> 2, last |-> 1]
    ELSE IF Has("consumer.idle") THEN [rows |-> 2, inflight |-> 0, last |-> 30]
    ELSE [rows |-> 1, inflight |-> 1, last |-> 1]
\* The journal as far as the aggregates ask for it.  An open after a session
\* that was not closed writes recovery.unclean, a death writes msg.dead; a start
\* of the daemon is a log line only, and nothing redrives.
EventRows ==
    (IF Has("unclean once") THEN {[id |-> 1, ev |-> "recovery.unclean", age |-> 400]} ELSE {})
    \union (IF Has("old deaths") THEN {[id |-> 2, ev |-> "msg.dead", age |-> 400]} ELSE {})
    \union (IF Has("server.unclean_last_start")
            THEN {[id |-> 3, ev |-> "recovery.unclean", age |-> 1]} ELSE {})
    \union (IF Has("dlq.growing_undrained") THEN {[id |-> 4, ev |-> "msg.dead", age |-> 1]} ELSE {})
\* files of the backup directory: hours old, readable beyond the owner, and
\* whether the meta page holds the stamp
BackupRows ==
    {[age |-> IF Has("backup.stale") THEN 300 ELSE 10, open |-> Has("backup.perms"),
      stamped |-> ~Has("backup.unreadable")]}

\* A fact nobody collected is the empty set.
NoEvents == [retention |-> 0, deadKnown |-> FALSE, dead |-> 0, redrives |-> 0, drift |-> FALSE,
             startsKnown |-> FALSE, unclean |-> FALSE, starts |-> 0, clockJump |-> 0]
Empty(source) ==
    [source |-> source, unreachable |-> FALSE, server |-> {}, streams |-> {}, consumers |-> {},
     restored |-> FALSE, storage |-> {}, durability |-> {}, fsync |-> {}, pending |-> {},
     metrics |-> {}, security |-> {}, sweep |-> 0, janitor |-> 0, backupDir |-> "",
     maxAge |-> 0, idleAfter |-> 0, backups |-> {}, events |-> NoEvents, minFree |-> 0,
     walMax |-> 0]

Init ==
    /\ world \in UNION {kSubset(k, Problems) : k \in 0..MaxProblems}
    /\ opts \in [source : Sources, backupDir : BackupDirs, failOn : FailOns, skip : Skips]
    /\ phase = "collect" /\ snap = Empty(opts.source) /\ ran = {} /\ findings = {} /\ exit = -1

(***************************************************************************)
(* The collectors.                                                         *)
(***************************************************************************)
\* The key is looked for in the first 4096 bytes of the file: its first page,
\* which holds the schema.  The meta rows are on a page of their own.
probeStampMarker(b) ==
    LET firstPage == {"schema"} IN "snapshot_taken_at" \in firstPage
\* The newest twenty .db files; the world has one.
collectBackupFacts ==
    {[age |-> b.age, open |-> b.open,
      stamp |-> IF probeStampMarker(b) THEN "ok" ELSE "missing"] : b \in BackupRows}
applyRunKnobs(s) ==
    [s EXCEPT !.idleAfter = 24, !.backupDir = opts.backupDir, !.maxAge = week,
              !.backups = IF opts.backupDir # "" THEN collectBackupFacts ELSE {}]

\* OfflineCollector: filters, backoff and max_ack_pending are not selected.
collectStorageFacts ==
    [fs |-> IF Has("storage.fs_type") THEN "nfs" ELSE IF Has("durability.tmpfs") THEN "tmpfs" ELSE "ext4",
     tmpfs |-> Has("durability.tmpfs"), mount |-> {}, total |-> 100, free |-> 50, wal |-> 1,
     walIdle |-> 0, growth |-> 0, shareKnown |-> FALSE, share |-> 0, latched |-> FALSE,
     reserveMissing |-> FALSE]
collectPendingFacts ==
    [rows |-> DeliveryRows.rows, inflight |-> DeliveryRows.inflight, last |-> DeliveryRows.last,
     oldestReady |-> 0, pausedFor |-> 0]
collectPausedAges(p, cs) == \* the age of the pause, from its event
    IF \E c \in cs : c.paused THEN [p EXCEPT !.pausedFor = 2] ELSE p
\* Nothing to match: no consumer has a filter set in an offline snapshot.
hasFanOutFilter(c) == c.filters = 0
collectSubjectSamples(streams, cs) ==
    {n \in {s.name : s \in streams} : \E c \in cs : c.stream = n /\ ~hasFanOutFilter(c)}
sinceFloorMS(nowKnown) == IF nowKnown THEN 24 ELSE 1000000   \* hours looked back
collectEventAggregates ==
    \* Collect stamps the snapshot's clock only after the collector returned
    LET In(ev) == Cardinality({e \in EventRows : e.ev = ev /\ e.age <= sinceFloorMS(FALSE)})
        opens == {e \in EventRows : e.ev \in {"server.start", "recovery.unclean"}}
    IN [NoEvents EXCEPT
          !.deadKnown = TRUE, !.dead = In("msg.dead"), !.redrives = In("dlq.redrive"),
          !.starts = In("server.start"), !.startsKnown = opens # {},
          !.unclean = \E e \in opens : e.ev = "recovery.unclean" /\ \A f \in opens : f.id <= e.id]
collectProvenance == Has("server.restored")
collectPermFacts == [open |-> Has("security.permissions"), tcpNoAuth |-> FALSE, cleartext |-> FALSE]
OfflineCollector ==
    LET cs == {[c EXCEPT !.filters = 0, !.maxAckPending = 0] : c \in ConsumerRows}
    IN [Empty("data-dir") EXCEPT
          !.streams = StreamRows, !.consumers = cs, !.restored = collectProvenance,
          !.storage = {collectStorageFacts},
          !.durability = {[mode |-> "", sync |-> 2, own |-> TRUE]},
          !.pending = {collectPausedAges(collectPendingFacts, cs)},
          !.events = collectEventAggregates, !.security = {collectPermFacts}]

\* LiveCollector: identity, then streams, then consumers; a failed call leaves
\* its part empty.  The durability mode goes to the server facts.
LiveCollector(streamsOK, consumersOK) ==
    IF Has("server.unreachable") THEN [Empty("live") EXCEPT !.unreachable = TRUE]
    ELSE [Empty("live") EXCEPT
            !.server = {[skew |-> Has("server.version_skew"),
                         mode |-> IF Has("durability.mode_relaxed") THEN "relaxed" ELSE "full"]},
            !.restored = Has("server.restored"),
            !.streams = IF streamsOK THEN StreamRows ELSE {},
            !.consumers = IF streamsOK /\ consumersOK
                          THEN {c \in ConsumerRows : \E s \in StreamRows : s.name = c.stream} ELSE {}]

\* Collect: the knobs are applied on the live path only.
Collect ==
    /\ phase = "collect"
    /\ \/ opts.source = "data-dir" /\ snap' = OfflineCollector
       \/ /\ opts.source = "live"
          /\ \E s, c \in BOOLEAN : snap' = applyRunKnobs(LiveCollector(s, c))
    /\ phase' = "check"
    /\ UNCHANGED <<world, opts, ran, findings, exit>>

(***************************************************************************)
(* The checks.                                                             *)
(***************************************************************************)
Stor(s) == CHOOSE x \in s.storage : TRUE
Dur(s) == CHOOSE x \in s.durability : TRUE
Pend(s) == CHOOSE x \in s.pending : TRUE
streamConsumers(s, n) == {c \in s.consumers : c.stream = n}
Key(c) == c.name

\* checks_first.go
evalConsumerMaxDeliver(s) ==   \* registered under both ids
    UNION {Found("consumer.max_deliver_unlimited", SevWarn, Key(c))
             \union Alarm(c.dead = "drop", "consumer.max_deliver_unlimited_no_dlq", SevFail, Key(c))
           : c \in {c \in s.consumers : c.maxDeliver = 0}}
evalServerRestored(s) == Alarm(s.restored, "server.restored", SevInfo, "")
NoConsumersAnyAge(s) ==
    UNION {Alarm(x.msgs # 0 /\ streamConsumers(s, x.name) = {},
                 "stream.no_consumers", SevInfo, x.name) : x \in s.streams}
evalStreamNoConsumers(s) ==
    UNION {Alarm(x.msgs # 0 /\ streamConsumers(s, x.name) = {} /\ x.age >= week,
                 "stream.no_consumers", SevInfo, x.name) : x \in s.streams}
levenshtein(a, b) == IF {a, b} = {"orders", "ordres"} THEN 2 ELSE 5
evalStreamTypoSuspect(s) ==
    UNION {Alarm(/\ x.msgs \in 1..10 /\ streamConsumers(s, x.name) = {} /\ x.age < week
                 /\ \E y \in s.streams : y.name # x.name /\ levenshtein(x.name, y.name) <= 2,
                 "stream.typo_suspect", SevInfo, x.name) : x \in s.streams}

\* checks_durability.go
evalDurabilityPragma(s) ==
    SkipUnless(s.durability # {}, "durability.pragma",
        LET d == Dur(s) IN
        Found("durability.pragma",
              IF d.own \/ d.mode = "" THEN (IF d.sync < 2 THEN SevInfo ELSE SevOK)
              ELSE IF d.mode = "full" /\ d.sync < 2 THEN SevFail ELSE SevOK, ""))
evalDurabilityModeRelaxed(s) ==
    IF s.source = "live" /\ (s.durability = {} \/ \E d \in s.durability : d.mode = "")
    THEN skippedCheck("durability.mode_relaxed")
    ELSE Alarm(s.source = "live" /\ \E d \in s.durability : d.mode = "relaxed",
               "durability.mode_relaxed", SevWarn, "")
evalDurabilityFsyncProbe(s) ==
    SkipUnless(s.fsync # {}, "durability.fsync_probe", Found("durability.fsync_probe", SevOK, ""))
evalDurabilityFsyncImplausible(s) ==
    SkipUnless(s.fsync # {} /\ s.storage # {}, "durability.fsync_implausible",
        Alarm(\E f \in s.fsync : f.median < 25 /\ ~Stor(s).tmpfs,
              "durability.fsync_implausible", SevWarn, ""))
evalDurabilityTmpfs(s) ==
    SkipUnless(s.storage # {}, "durability.tmpfs",
        Alarm(Stor(s).tmpfs /\ \E d \in s.durability : d.mode = "full",
              "durability.tmpfs", SevFail, ""))

\* checks_storage.go
isFlockLiar(fs) == fs \in {"nfs", "cifs", "fuse", "overlay"}
evalStorageFsType(s) ==
    SkipUnless(s.storage # {}, "storage.fs_type",
        Found("storage.fs_type", IF isFlockLiar(Stor(s).fs) THEN SevFail ELSE SevOK, ""))
evalStorageMountOptions(s) ==
    SkipUnless(s.storage # {}, "storage.mount_options",
        Alarm(Stor(s).mount \intersect {"nobarrier", "barrier=0"} # {},
              "storage.mount_options", SevWarn, ""))
evalStorageDiskHeadroom(s) ==
    SkipUnless(s.storage # {} /\ (Stor(s).total > 0 \/ Stor(s).free > 0), "storage.disk_headroom",
        LET st == Stor(s)
            low(n) == s.minFree > 0 /\ st.free < n * s.minFree
        IN Alarm(low(4) \/ st.growth > 0, "storage.disk_headroom",
                 IF low(1) THEN SevFail
                 ELSE IF low(4) \/ st.free \div st.growth < 14 THEN SevWarn ELSE SevOK, ""))
evalStorageWALSize(s) ==
    SkipUnless(s.storage # {}, "storage.wal_size",
        Alarm(s.walMax > 0 /\ Stor(s).wal > s.walMax, "storage.wal_size", SevWarn, "size"))
evalStorageWALPinned(s) ==
    Alarm(s.source = "live" /\ \E st \in s.storage : st.wal > 0 /\ st.walIdle > 0,
          "storage.wal_size", SevWarn, "pinned")
evalStorageWALSizeAndPinned(s) == evalStorageWALSize(s) \union evalStorageWALPinned(s)
evalStorageEventsShare(s) ==
    SkipUnless(\E st \in s.storage : st.shareKnown, "storage.events_share",
        Alarm(Stor(s).share > 40, "storage.events_share", SevWarn, ""))
evalStorageReadonlyLatch(s) ==
    SkipUnless(s.storage # {}, "storage.readonly_latch",
        Alarm(Stor(s).latched, "storage.readonly_latch", SevFail, ""))

\* checks_consumers.go
evalConsumerStaleAcks(s) ==
    SkipUnless(s.metrics # {}, "consumer.stale_acks",
        Alarm(\E m \in s.metrics : m.staleAcks >= 1, "consumer.stale_acks", SevWarn, ""))
evalConsumerTTDvsEvents(s) == \* a ladder, were it known, compared to the retention
    SkipUnless(s.events.retention > 0, "consumer.time_to_dead_exceeds_events", {})
WorkerRows(s) == {c \in s.consumers : c.name = "w"}   \* the consumer that has deliveries
evalConsumerIdle(s, requireBacklog) ==
    LET id == IF requireBacklog THEN "consumer.idle" ELSE "consumer.idle_no_backlog"
    IN SkipUnless(s.pending # {}, id,
         UNION {Alarm(/\ Pend(s).last # 0 /\ ~c.paused
                      /\ Pend(s).last >= (IF s.idleAfter <= 0 THEN 24 ELSE s.idleAfter)
                      /\ requireBacklog <=> Pend(s).rows > 0,
                      id, IF requireBacklog THEN SevFail ELSE SevWarn, Key(c)) : c \in WorkerRows(s)})
evalConsumerPaused(s) ==
    SkipUnless(s.pending # {}, "consumer.paused",
        UNION {Alarm(c.paused /\ (Pend(s).pausedFor = 0 \/ Pend(s).pausedFor >= 1),
                     "consumer.paused", SevWarn, Key(c)) : c \in s.consumers})
evalConsumerOldestPending(s) ==
    SkipUnless(s.pending # {}, "consumer.oldest_pending",
        UNION {Alarm(Pend(s).oldestReady # 0, "consumer.oldest_pending",
                     IF Pend(s).oldestReady >= 1 THEN SevFail ELSE SevWarn, Key(c)) : c \in WorkerRows(s)})
evalConsumerFlowBlocked(s) ==
    SkipUnless(s.pending # {}, "consumer.flow_blocked",
        UNION {Alarm(c.maxAckPending > 0 /\ Pend(s).inflight >= c.maxAckPending,
                     "consumer.flow_blocked", SevInfo, Key(c)) : c \in WorkerRows(s)})
evalConsumerFilterMatchesNothing(s) == \* judged on sampled streams, and none is
    UNION {Alarm(x.name \in (IF s.source = "live" THEN {} ELSE collectSubjectSamples(s.streams, s.consumers))
                 /\ \E c \in streamConsumers(s, x.name) : ~hasFanOutFilter(c),
                 "consumer.filter_matches_nothing", SevWarn, x.name) : x \in s.streams}

\* checks_ops.go, checks_server.go
evalDLQGrowingUndrained(s) ==
    SkipUnless(s.events.deadKnown, "dlq.growing_undrained",
        Alarm(s.events.dead > 0 /\ s.events.redrives = 0, "dlq.growing_undrained", SevFail, ""))
IsDLQ(x) == x.name = "orders.dlq"
evalDLQNoRetention(s) ==
    UNION {Alarm(IsDLQ(x) /\ ~x.retention, "dlq.no_retention", SevWarn, x.name) : x \in s.streams}
evalDLQNoConsumer(s) ==
    UNION {Alarm(IsDLQ(x) /\ x.msgs # 0 /\ streamConsumers(s, x.name) = {},
                 "dlq.no_consumer", SevWarn, x.name) : x \in s.streams}
evalDLQTemplateDrift(s) == Alarm(s.events.drift, "dlq.template_drift", SevInfo, "")
evalServerUncleanLastStart(s) ==
    SkipUnless(s.events.startsKnown, "server.unclean_last_start",
        Alarm(s.events.unclean, "server.unclean_last_start", SevInfo, ""))
evalServerRestartLoop(s) ==
    SkipUnless(s.events.startsKnown, "server.restart_loop",
        Alarm(s.events.starts >= 3, "server.restart_loop", SevFail, ""))
evalServerClockJump(s) == Alarm(s.events.clockJump # 0, "server.clock_jump", SevWarn, "")
evalServerSweepInterval(s) ==
    SkipUnless(s.sweep # 0, "server.sweep_interval",
        Alarm(\E c \in s.consumers : c.ackWait > 0 /\ s.sweep > c.ackWait,
              "server.sweep_interval", SevWarn, ""))
evalServerJanitorDisabled(s) ==
    SkipUnless(s.janitor # 0, "server.janitor_disabled",
        Alarm(s.janitor < 0, "server.janitor_disabled", SevWarn, ""))
\* A live snapshot without the facts skips, an offline one is silent.
LiveOnly(facts, s, cond, id, sev) ==
    IF facts = {} /\ s.source = "live" THEN skippedCheck(id) ELSE Alarm(cond, id, sev, "")
evalStorageReserveUnavailable(s) ==
    LiveOnly(s.storage, s, \E st \in s.storage : st.reserveMissing, "storage.reserve_unavailable", SevInfo)
evalMetricsDroppedSeries(s) ==
    SkipUnless(s.metrics # {}, "metrics.dropped_series",
        Alarm(\E m \in s.metrics : m.dropped > 0, "metrics.dropped_series", SevWarn, ""))
evalSecurityPermissions(s) ==
    SkipUnless(s.security # {}, "security.permissions",
        Alarm(\E x \in s.security : x.open, "security.permissions", SevFail, ""))
evalSecurityTCPNoAuth(s) ==
    LiveOnly(s.security, s, \E x \in s.security : x.tcpNoAuth, "security.tcp_no_auth", SevWarn)
evalSecurityCleartextPublic(s) ==
    LiveOnly(s.security, s, \E x \in s.security : x.cleartext, "security.cleartext_public", SevWarn)
evalBackupNoneConfigured(s) == Alarm(s.backupDir = "", "backup.none_configured", SevInfo, "")
evalBackupStale(s) ==
    Alarm(s.backupDir # "" /\ \A b \in s.backups : b.age >= s.maxAge, "backup.stale", SevWarn, "")
evalBackupUnreadable(s) ==
    Alarm(s.backupDir # "" /\ \E b \in s.backups : b.stamp \in {"missing", "quickcheck_failed"},
          "backup.unreadable", SevFail, "")
evalBackupPerms(s) ==
    Alarm(s.backupDir # "" /\ \E b \in s.backups : b.open, "backup.perms", SevWarn, "")
evalServerUnreachable(s) == Alarm(s.source = "live" /\ s.unreachable, "server.unreachable", SevFail, "")
evalServerVersionSkew(s) ==
    SkipUnless(s.source = "live" /\ s.server # {}, "server.version_skew",
        Alarm(\E x \in s.server : x.skew, "server.version_skew", SevInfo, ""))

\* The registrations, file by file: which function judges which id.
RegisterFirst(id, s) ==
    CASE id \in {"consumer.max_deliver_unlimited", "consumer.max_deliver_unlimited_no_dlq"} ->
             evalConsumerMaxDeliver(s)
      [] id = "stream.no_consumers" -> evalStreamNoConsumers(s)
      [] id = "stream.typo_suspect" -> evalStreamTypoSuspect(s)
      [] id = "server.restored" -> evalServerRestored(s)
      [] OTHER -> {}
RegisterDurability(id, s) ==
    CASE id = "durability.fsync_implausible" -> evalDurabilityFsyncImplausible(s)
      [] id = "durability.fsync_probe" -> evalDurabilityFsyncProbe(s)
      [] id = "durability.mode_relaxed" -> evalDurabilityModeRelaxed(s)
      [] id = "durability.pragma" -> evalDurabilityPragma(s)
      [] id = "durability.tmpfs" -> evalDurabilityTmpfs(s)
      [] OTHER -> {}
RegisterStorage(id, s) ==
    CASE id = "storage.disk_headroom" -> evalStorageDiskHeadroom(s)
      [] id = "storage.events_share" -> evalStorageEventsShare(s)
      [] id = "storage.fs_type" -> evalStorageFsType(s)
      [] id = "storage.mount_options" -> evalStorageMountOptions(s)
      [] id = "storage.readonly_latch" -> evalStorageReadonlyLatch(s)
      [] id = "storage.wal_size" -> evalStorageWALSizeAndPinned(s)
      [] OTHER -> {}
RegisterConsumers(id, s) ==
    CASE id = "consumer.filter_matches_nothing" -> evalConsumerFilterMatchesNothing(s)
      [] id = "consumer.flow_blocked" -> evalConsumerFlowBlocked(s)
      [] id = "consumer.idle" -> evalConsumerIdle(s, TRUE)
      [] id = "consumer.idle_no_backlog" -> evalConsumerIdle(s, FALSE)
      [] id = "consumer.oldest_pending" -> evalConsumerOldestPending(s)
      [] id = "consumer.paused" -> evalConsumerPaused(s)
      [] id = "consumer.stale_acks" -> evalConsumerStaleAcks(s)
      [] id = "consumer.time_to_dead_exceeds_events" -> evalConsumerTTDvsEvents(s)
      [] OTHER -> {}
RegisterOps(id, s) ==
    CASE id = "backup.none_configured" -> evalBackupNoneConfigured(s)
      [] id = "backup.perms" -> evalBackupPerms(s)
      [] id = "backup.stale" -> evalBackupStale(s)
      [] id = "backup.unreadable" -> evalBackupUnreadable(s)
      [] id = "dlq.growing_undrained" -> evalDLQGrowingUndrained(s)
      [] id = "dlq.no_consumer" -> evalDLQNoConsumer(s)
      [] id = "dlq.no_retention" -> evalDLQNoRetention(s)
      [] id = "dlq.template_drift" -> evalDLQTemplateDrift(s)
      [] id = "metrics.dropped_series" -> evalMetricsDroppedSeries(s)
      [] id = "security.cleartext_public" -> evalSecurityCleartextPublic(s)
      [] id = "security.permissions" -> evalSecurityPermissions(s)
      [] id = "security.tcp_no_auth" -> evalSecurityTCPNoAuth(s)
      [] id = "server.clock_jump" -> evalServerClockJump(s)
      [] id = "server.janitor_disabled" -> evalServerJanitorDisabled(s)
      [] id = "server.restart_loop" -> evalServerRestartLoop(s)
      [] id = "server.sweep_interval" -> evalServerSweepInterval(s)
      [] id = "server.unclean_last_start" -> evalServerUncleanLastStart(s)
      [] id = "storage.reserve_unavailable" -> evalStorageReserveUnavailable(s)
      [] OTHER -> {}
RegisterServer(id, s) ==
    CASE id = "server.unreachable" -> evalServerUnreachable(s)
      [] id = "server.version_skew" -> evalServerVersionSkew(s)
      [] OTHER -> {}
Eval(id, s) ==
    RegisterFirst(id, s) \union RegisterDurability(id, s) \union RegisterStorage(id, s)
      \union RegisterConsumers(id, s) \union RegisterOps(id, s) \union RegisterServer(id, s)

(***************************************************************************)
(* RunChecks and the exit code.                                            *)
(***************************************************************************)
ParseFailOn(v) ==
    CASE v = "info" -> SevInfo [] v = "warn" -> SevWarn [] v = "fail" -> SevFail [] v = "never" -> 255
Summarize(fs) == [sev \in SevSkipped..SevFail |-> Cardinality({f \in fs : f.sev = sev})]
ExitCodeFor(fs, v) ==
    IF \E sev \in SevSkipped..SevFail : sev >= ParseFailOn(v) /\ Summarize(fs)[sev] > 0 THEN 1 ELSE 0
FilterRegistry == SelectSeq(List, LAMBDA id : id \notin opts.skip)

\* Check k is the last one evaluated: the whole-run context ended while it
\* ran, or there is no other.  A check that said nothing when its context was
\* done is reported as skipped; the ones after it are not evaluated.
RunChecks ==
    /\ phase = "check"
    /\ LET ids == FilterRegistry
           n == Len(ids)
           verdicts == {<<i, Eval(ids[i], snap)>> : i \in 1..n}
       IN \E k \in 1..n :
            /\ k \in Cuts \cup {n}
            /\ ran' = {ids[i] : i \in 1..k}
            /\ LET said == UNION {v[2] : v \in {w \in verdicts : w[1] <= k}}
                   late == IF k < n /\ <<k, {}>> \in verdicts THEN skippedCheck(ids[k]) ELSE {}
               IN /\ findings' = said \union late
                  /\ exit' = ExitCodeFor(findings', opts.failOn)
    /\ phase' = "done"
    /\ UNCHANGED <<world, opts, snap>>

Next == Collect \/ RunChecks
DSpec == Init /\ [][Next]_vars

(***************************************************************************)
(* Properties.                                                             *)
(***************************************************************************)
Alarms == {f.id : f \in {g \in findings : g.sev >= SevInfo}}
\* The problems as the findings name them.
Present ==
    ({id \in world : id \in ToSet(List)}
       \ ((IF Has("consumer.paused") THEN {"consumer.idle"} ELSE {})
          \union (IF Has("consumer.flow_blocked") THEN {"consumer.idle"} ELSE {})))
    \union (IF {"consumer.max_deliver_unlimited", "drop"} \subseteq world
            THEN {"consumer.max_deliver_unlimited_no_dlq"} ELSE {})
Tables == {"consumer.max_deliver_unlimited", "consumer.max_deliver_unlimited_no_dlq",
           "stream.no_consumers", "stream.typo_suspect", "server.restored", "dlq.no_consumer",
           "dlq.no_retention"}
\* What the source of a run lets it see.  A restart loop is in neither: the
\* starts are not in the journal.
InReach ==
    IF opts.source = "data-dir"
    THEN Tables \union {"storage.fs_type", "consumer.idle", "consumer.paused", "security.permissions",
            "dlq.growing_undrained", "server.unclean_last_start"}
    ELSE IF snap.unreachable THEN {"server.unreachable"}
    ELSE {"server.restored", "server.version_skew"}
           \union (IF {s.name : s \in snap.streams} # {} /\ snap.consumers # {} THEN Tables ELSE {})

\* Whatever combination of problems an installation has, a run that is not cut
\* short names every one its source collects, and its exit code says so: no
\* problem hides another (Collect, RunChecks, ExitCodeFor).
SeenIsReported ==
    phase = "done" /\ ran = ToSet(FilterRegistry) =>
        /\ (Present \intersect InReach) \ opts.skip \subseteq Alarms
        /\ opts.failOn = "info" /\ (Present \intersect InReach) \ opts.skip # {} => exit = 1

\* A failed listing of consumers reads as a stream without any.
Unlisted ==
    IF opts.source = "live" /\ snap.consumers = {}
    THEN {"stream.no_consumers", "dlq.no_consumer", "stream.typo_suspect"} ELSE {}
\* Problems that are over and still in the journal: no row says that a later
\* start was a clean one, and deaths are counted over the whole of it.
Remembered ==
    (IF Has("unclean once") THEN {"server.unclean_last_start"} ELSE {})
    \union (IF Has("old deaths") THEN {"dlq.growing_undrained"} ELSE {})
\* A finding of severity info or worse names a problem the installation has,
\* but for what a failed listing or the journal misleads it about: nothing
\* else healthy fails a cron job (the eval functions, the collectors).
NoFalseAlarm ==
    phase = "done" => Alarms \subseteq Present \union {"backup.none_configured"}
                                       \union Unlisted \union Remembered

=============================================================================
