------------------------------ MODULE Retention ------------------------------
(***************************************************************************)
(* The retention sweep of one stream (internal/queue/retention.go,         *)
(* internal/store/retention.go): the janitor's RetentionCmd reads a window *)
(* of the oldest messages, plans which of them the limits (or, in a        *)
(* workqueue, the slowest cursor) ask for, deletes them unless a delivery  *)
(* row pins them, and blames a holder when a limit stays broken.           *)
(*                                                                         *)
(* Publishes, claims, settles and the clock are the surroundings: what a   *)
(* claim or a settle decides is the subject of Delivery, what discard=new  *)
(* refuses that of Streams.                                                *)
(***************************************************************************)
EXTENDS Integers, FiniteSets, SeqSets

CONSTANTS
    Consumers,
    Sizes,          \* the sizes of messages
    Configs,        \* stream configurations: [mode, maxMsgs, maxBytes, maxAge]
    Batches,        \* the values of RetentionCmd.Batch
    MaxBlame,       \* maxBlameHolders
    MaxSeq,         \* bound: messages published
    MaxNow          \* bound: the clock

\* What the proofs use.
ConstantsAssumption ==
    /\ Sizes \subseteq Nat /\ Batches \subseteq Nat \ {0} /\ MaxBlame \in Nat \ {0}
    /\ MaxSeq \in Nat /\ MaxNow \in Nat
    /\ Configs \subseteq [mode : {"limits", "workqueue"}, maxMsgs : Nat, maxBytes : Nat, maxAge : Nat]

VARIABLES
    msgs,       \* seq -> [size, at]
    next,       \* the next sequence number
    cursor,     \* consumer -> cursor_seq, for the consumers that exist
    pins,       \* the delivery rows: <<consumer, seq>>
    cfg,        \* the stream's configuration
    stats,      \* its stream_stats row: [msgs, bytes, expired]
    now,
    answer      \* what a sweep answered in the step before

vars == <<msgs, next, cursor, pins, cfg, stats, now, answer>>

NoAnswer == [more |-> FALSE, blame |-> {}]

Init ==
    /\ msgs = <<>> /\ next = 1
    /\ \E C \in SUBSET Consumers : cursor = [c \in C |-> 1]
    /\ pins = {}
    /\ cfg \in Configs
    /\ stats = [msgs |-> 0, bytes |-> 0, expired |-> 0]
    /\ now = 1
    /\ answer = NoAnswer

Live == DOMAIN msgs
Pinned(s) == \E c \in Consumers : <<c, s>> \in pins

\* The size of the messages in S.
Bytes(S) ==
    LET sum[n \in 0 .. MaxSeq] ==
          IF n = 0 THEN 0 ELSE sum[n - 1] + (IF n \in S THEN msgs[n].size ELSE 0)
    IN  sum[MaxSeq]

-----------------------------------------------------------------------------
(* The surroundings. *)

Publish(size) ==
    /\ next <= MaxSeq
    /\ msgs' = [s \in Live \cup {next} |->
                  IF s = next THEN [size |-> size, at |-> now] ELSE msgs[s]]
    /\ next' = next + 1
    /\ stats' = [stats EXCEPT !.msgs = @ + 1, !.bytes = @ + size]
    /\ answer' = NoAnswer /\ UNCHANGED <<cursor, pins, cfg, now>>

\* A claim pins the message and moves the cursor past it.
Claim(c) ==
    /\ c \in DOMAIN cursor
    /\ \E s \in Live :
         /\ s >= cursor[c] /\ \A t \in Live : t >= cursor[c] => s <= t
         /\ pins' = pins \cup {<<c, s>>}
         /\ cursor' = [cursor EXCEPT ![c] = s + 1]
    /\ answer' = NoAnswer /\ UNCHANGED <<msgs, next, cfg, stats, now>>

Settle(pin) ==
    /\ pins' = pins \ {pin}
    /\ answer' = NoAnswer /\ UNCHANGED <<msgs, next, cursor, cfg, stats, now>>

UpdateStream(new) ==
    /\ new # cfg
    /\ cfg' = new
    /\ answer' = NoAnswer /\ UNCHANGED <<msgs, next, cursor, pins, stats, now>>

Tick ==
    /\ now < MaxNow
    /\ now' = now + 1
    /\ answer' = NoAnswer /\ UNCHANGED <<msgs, next, cursor, pins, cfg, stats>>

-----------------------------------------------------------------------------
(* The plan. *)

\* RetentionView of the limits, on the stats read in the same transaction.
StillViolating(m, b) ==
    \/ cfg.maxMsgs > 0 /\ m > cfg.maxMsgs
    \/ cfg.maxBytes > 0 /\ b > cfg.maxBytes

NoPlan == [seqs |-> {}, blocked |-> {}, done |-> FALSE]

Selected(plan, s) == [plan EXCEPT !.seqs = @ \cup {s}]
Blocked(plan, s) == [plan EXCEPT !.blocked = @ \cup {s}]
Stopped(plan) == [plan EXCEPT !.done = TRUE]

\* (as a bug) pressure by count or size may take the last message too.
KeepsTheLastNever(plan) == FALSE

\* Count and byte pressure stop at exactly one kept message.
KeepsTheLast(plan) == stats.msgs - Cardinality(plan.seqs) <= 1

Excess == IF cfg.maxMsgs > 0 /\ stats.msgs > cfg.maxMsgs THEN stats.msgs - cfg.maxMsgs ELSE 0
Need == IF cfg.maxBytes > 0 /\ stats.bytes > cfg.maxBytes THEN stats.bytes - cfg.maxBytes ELSE 0

WantedByAge(s) == cfg.maxAge > 0 /\ msgs[s].at < now - cfg.maxAge
Pressed(plan) == Cardinality(plan.seqs) < Excess \/ Bytes(plan.seqs) < Need
Full(plan, batch) == Cardinality(plan.seqs) >= batch

\* (as a bug) the walk stops at the first pinned message.
StallAtPin(plan, s, batch) ==
    IF Full(plan, batch) \/ ~(WantedByAge(s) \/ Pressed(plan)) THEN plan
    ELSE IF Pinned(s) THEN Stopped(Blocked(plan, s))
    ELSE IF ~WantedByAge(s) /\ KeepsTheLast(plan) THEN Stopped(plan)
    ELSE Selected(plan, s)

\* One turn of its loop: age, then count, then bytes; a pinned message is
\* counted and skipped; the loop ends at a full batch or the last message.
PlanEviction(plan, s, batch) ==
    IF Full(plan, batch) \/ ~(WantedByAge(s) \/ Pressed(plan)) THEN plan
    ELSE IF Pinned(s) THEN Blocked(plan, s)
    ELSE IF ~WantedByAge(s) /\ KeepsTheLast(plan) THEN Stopped(plan)
    ELSE Selected(plan, s)

\* One turn of its loop: in a workqueue every unpinned message below the
\* floor goes; the loop ends at the one after a full batch.
planWorkqueue(plan, s, batch) ==
    IF Pinned(s) THEN Blocked(plan, s)
    ELSE IF Full(plan, batch) THEN Stopped(plan)
    ELSE Selected(plan, s)

WorkQueue == cfg.mode = "workqueue"

\* (as a bug) the floor is the fastest consumer's.
FastestFloor(s) == WorkQueue => \E c \in DOMAIN cursor : s < cursor[c]

BelowFloor(s) == WorkQueue => \A c \in DOMAIN cursor : s < cursor[c]

\* The oldest messages (below the floor).
candidatesFor(window) == Oldest({s \in Live : BelowFloor(s)}, window)

\* The loop over the candidates, oldest first.
Turn(plan, s, batch) ==
    IF plan.done THEN plan
    ELSE IF WorkQueue THEN planWorkqueue(plan, s, batch) ELSE PlanEviction(plan, s, batch)

Planned(cands, batch) ==
    LET plan[n \in 0 .. MaxSeq] ==
          IF n = 0 THEN NoPlan
          ELSE IF n \in cands THEN Turn(plan[n - 1], n, batch) ELSE plan[n - 1]
    IN  plan[MaxSeq]

\* SelectBlame: the holder of the oldest row (of these, the smallest name).
SelectBlame(holders) == {p \in holders : \A q \in holders : p[2] <= q[2]}

\* emitBlockedEvent looks at the rows up to the highest blocked message.
emitBlockedEvent(blocked) == SelectBlame({p \in pins : \E s \in blocked : p[2] <= s})

-----------------------------------------------------------------------------
(* The sweep. *)

Window(batch) == 2 * batch + MaxBlame

\* (as a bug) the bytes that went are not booked.
BooksPlan(dead) == [stats EXCEPT !.msgs = @ - Cardinality(dead), !.expired = Max(dead)]

\* updateWatermarks: what the statement reports deleted leaves the counters.
updateWatermarks(dead) ==
    [stats EXCEPT !.msgs = @ - Cardinality(dead), !.bytes = @ - Bytes(dead),
                  !.expired = Max({@} \cup dead)]

Delete(dead) ==
    /\ msgs' = [s \in Live \ dead |-> msgs[s]]
    /\ stats' = IF dead = {} THEN stats ELSE updateWatermarks(dead)

\* sweepOne: plan, guarded delete, counters, More and the blame.
sweepOne(batch) ==
    LET plan == Planned(candidatesFor(Window(batch)), batch)
        dead == {s \in plan.seqs : ~Pinned(s)}
        still == StillViolating(stats.msgs - Cardinality(dead), stats.bytes - Bytes(dead))
        full == Cardinality(dead) = batch
    IN  /\ Delete(dead)
        /\ answer' = [more |-> full /\ (WorkQueue \/ still),
                      blame |-> IF plan.blocked # {} /\ still THEN emitBlockedEvent(plan.blocked) ELSE {}]

\* RetentionCmd.Apply; a workqueue nobody consumes is left alone.
Sweep(batch) ==
    /\ IF WorkQueue /\ DOMAIN cursor = {}
       THEN answer' = NoAnswer /\ UNCHANGED <<msgs, stats>>
       ELSE sweepOne(batch)
    /\ UNCHANGED <<next, cursor, pins, cfg, now>>

Next ==
    \/ \E size \in Sizes : Publish(size)
    \/ \E c \in Consumers : Claim(c)
    \/ \E pin \in pins : Settle(pin)
    \/ \E new \in Configs : UpdateStream(new)
    \/ Tick
    \/ \E batch \in Batches : Sweep(batch)

Spec == Init /\ [][Next]_vars

-----------------------------------------------------------------------------
\* What the configuration asks of message s when the messages of D are gone,
\* without a plan: too old, or too many or too much with s and the newer ones,
\* unless s is the last.
Asked(s, D) ==
    LET kept == Live \ D IN
    IF WorkQueue THEN DOMAIN cursor # {} /\ \A c \in DOMAIN cursor : s < cursor[c]
    ELSE \/ cfg.maxAge > 0 /\ msgs[s].at + cfg.maxAge < now
         \/ /\ kept # {s}
            /\ \/ cfg.maxMsgs > 0 /\ Cardinality(kept) > cfg.maxMsgs
               \/ cfg.maxBytes > 0 /\ Bytes(kept) > cfg.maxBytes

Gone == Live \ DOMAIN msgs'

\* A sweep deletes only messages no delivery row pins and the configuration
\* asks for once the older victims are gone, oldest first and at most a batch;
\* if it deletes less than a batch it leaves no unpinned message that is asked
\* for among the oldest it looks at (Window), since a pinned message
\* is skipped and does not shield the newer ones;
\* the counters stay the real counts, sizes included; and the consumer it
\* blames really holds the oldest delivery row of a stream whose limit is still
\* broken (retention.go: PlanEviction, the guarded delete, SelectBlame,
\* updateWatermarks).
SweepStep ==
    LET left == Live \ Gone IN
    /\ \A s \in Gone :
         /\ ~Pinned(s)
         /\ Asked(s, {d \in Gone : d < s})
         /\ \A old \in Live : old < s /\ ~Pinned(old) => old \in Gone
    /\ \A batch \in Batches : Sweep(batch) =>
         /\ Cardinality(Gone) <= batch
         /\ Cardinality(Gone) < batch =>
              \A s \in left : \/ Pinned(s) \/ ~Asked(s, Gone)
                             \/ Cardinality({t \in Live : t < s}) >= Window(batch)
         /\ stats'.msgs = Cardinality(left) /\ stats'.bytes = Bytes(left)
    /\ \A p \in answer'.blame :
         /\ p \in pins /\ \A q \in pins : p[2] <= q[2]
         /\ StillViolating(Cardinality(left), Bytes(left))
SweepIsJustified == [][SweepStep]_vars
=============================================================================
