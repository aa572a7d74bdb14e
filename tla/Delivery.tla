------------------------------ MODULE Delivery ------------------------------
(***************************************************************************)
(* The delivery core of messq: one stream, its durable consumers and the   *)
(* `deliveries` table that records which messages a consumer owes an       *)
(* answer for.  Every command of the store that writes these tables is one *)
(* action: the store runs all commands on one writer goroutine, each       *)
(* inside a savepoint of one SQLite transaction, so a command is atomic.   *)
(*                                                                         *)
(* Clients are not modelled as processes: a client holds the ack tokens of *)
(* every delivery it ever received and may settle any of them at any time, *)
(* in any order, more than once, before or after the lease ran out and     *)
(* across restarts of the broker.                                          *)
(*                                                                         *)
(* Wall-clock columns are kept relative to the present: visibleIn is       *)
(* visible_at - now and holdLeft is delivered_at + max_ack_wait - now,     *)
(* both cut off at 0, and Tick lets one unit of time pass.                 *)
(***************************************************************************)
EXTENDS Integers, FiniteSets, SeqSets

CONSTANTS
    Consumers,      \* consumer names
    Subjects,       \* subjects a message may carry
    Configs,        \* the consumer configurations operators may choose
    Ops,            \* the operator and maintenance commands issued here
    WorkQueue,      \* retention mode: TRUE workqueue, FALSE limits
    AckWait,        \* ack_wait, in time units
    MaxAckWait,     \* --max-ack-wait, the cap on one lease
    Delays,         \* what backoff, jitter and explicit nak delays come to
    ScanLimit,      \* messages one top-up examines
    FetchBatch,     \* deliveries one fetch claims at most
    SettleBatch,    \* --max-settle-batch
    SweepLimit,     \* rows one sweep, or one consumer of a retire, handles
    DeadBudget,     \* dead-letter copies one transaction may write
    MaxSeq,         \* bound: messages ever published
    MaxAttempts,    \* bound: deliveries of one row
    MaxGen,         \* bound: generations of one consumer
    MaxEpoch        \* bound: times one consumer name is created

Seqs == 1 .. MaxSeq

\* A consumer's configuration; maxDeliver = 0 means no delivery bound.
Config == [filter : SUBSET Subjects, maxDeliver : Nat,
           maxAckPending : Nat \ {0}, deadPolicy : {"dlq", "drop"}]

OpNames == {"pause", "update", "seek", "delete", "restart", "retain",
            "purge_range", "purge_scan"}

ASSUME ConstantsAssumption ==
    /\ IsFiniteSet(Consumers)
    /\ Configs \subseteq Config
    /\ Ops \subseteq OpNames
    /\ WorkQueue \in BOOLEAN
    /\ AckWait \in Nat \ {0} /\ MaxAckWait \in Nat /\ AckWait <= MaxAckWait
    /\ Delays \subseteq Nat /\ 0 \in Delays
    /\ {ScanLimit, FetchBatch, SettleBatch, SweepLimit, DeadBudget} \subseteq Nat \ {0}
    /\ {MaxSeq, MaxAttempts, MaxGen, MaxEpoch} \subseteq Nat

VARIABLES
    msgs,       \* messages table: live seq -> subject
    next,       \* stream_seq.next
    cons,       \* consumers table: name -> row, for the names that exist
    rows,       \* deliveries table: consumer -> (seq -> row)
    latched,    \* the writer met an infrastructure error and refuses writes
    tokens,     \* every ack token ever handed to a client
    epoch,      \* history: how often each consumer name has been created
    settled,    \* history: consumer -> (seq -> how it was finished)
    passed,     \* history: consumer -> seqs it is not owed
    discarded   \* history: seqs an operator or limits retention deleted

store == <<msgs, next, cons, rows, latched>>
ghosts == <<tokens, epoch, settled, passed, discarded>>
vars == <<msgs, next, cons, rows, latched, tokens, epoch, settled, passed, discarded>>

Live == DOMAIN msgs

ConsumerRow == [cfg : Config, cursor : Nat \ {0}, gen : Nat \ {0}, paused : BOOLEAN]

Row == [state : {"ready", "inflight"}, attempts : Nat, visibleIn : Nat,
        holdLeft : Nat, gen : Nat \ {0}]

Token == [consumer : Consumers, seq : Seqs, attempt : Nat, gen : Nat, epoch : Nat]

Outcomes == {"acked", "copied", "dropped", "orphaned"}

\* f is a table keyed by some of S with entries in T.
IsTable(f, S, T) == DOMAIN f \subseteq S /\ f \in [DOMAIN f -> T]

\* One such table for every consumer name.
AreTables(f, S, T) ==
    /\ f = [c \in Consumers |-> f[c]]
    /\ \A c \in Consumers : IsTable(f[c], S, T)

\* One type invariant for the module: the columns hold what the schema says.
TypeOK ==
    /\ IsTable(msgs, Seqs, Subjects)
    /\ next \in 1 .. MaxSeq + 1
    /\ IsTable(cons, Consumers, ConsumerRow)
    /\ AreTables(rows, Seqs, Row)
    /\ latched \in BOOLEAN
    /\ tokens \subseteq Token
    /\ epoch \in [Consumers -> Nat]
    /\ AreTables(settled, Seqs, Outcomes)
    /\ passed \in [Consumers -> SUBSET Seqs]
    /\ discarded \subseteq Seqs

EmptyFun == [x \in {} |-> x]

Init ==
    /\ msgs = EmptyFun
    /\ next = 1
    /\ cons = EmptyFun
    /\ rows = [c \in Consumers |-> EmptyFun]
    /\ latched = FALSE
    /\ tokens = {}
    /\ epoch = [c \in Consumers |-> 0]
    /\ settled = [c \in Consumers |-> EmptyFun]
    /\ passed = [c \in Consumers |-> {}]
    /\ discarded = {}

-----------------------------------------------------------------------------
\* streamBounds: the oldest live message, or next when there is none.
FirstSeq == IF Live = {} THEN next ELSE Min(Live)

-----------------------------------------------------------------------------
(* The deliveries table.                                                     *)

Keys == UNION {{c} \X DOMAIN rows[c] : c \in Consumers}

RowOf(k) == rows[k[1]][k[2]]

Pending(c) == Cardinality(DOMAIN rows[c])

\* Mutant: the insert leaves the generation column at its zero value.
FreshRowWithoutGen(gen) ==
    [state |-> "ready", attempts |-> 0, visibleIn |-> 0, holdLeft |-> 0, gen |-> 0]

FreshRow(gen) ==
    [state |-> "ready", attempts |-> 0, visibleIn |-> 0, holdLeft |-> 0, gen |-> gen]

\* A claim hands out a lease of ack_wait and counts the attempt at once.
ClaimedRow(r) ==
    [state |-> "inflight", attempts |-> r.attempts + 1,
     visibleIn |-> AckWait, holdLeft |-> MaxAckWait, gen |-> r.gen]

ReleasedRow(r, delay) ==
    [r EXCEPT !.state = "ready", !.visibleIn = delay, !.holdLeft = 0]

ExtendedRow(r) == [r EXCEPT !.visibleIn = @ + AckWait]

\* Drop the rows with keys in gone, overwrite those new gives a value for.
UpdateRows(gone, new) ==
    rows' = [c \in Consumers |->
               [s \in {t \in DOMAIN rows[c] : <<c, t>> \notin gone} |->
                  IF <<c, s>> \in DOMAIN new THEN new[<<c, s>>] ELSE rows[c][s]]]

NoNewRows == EmptyFun

-----------------------------------------------------------------------------
(* Dead-lettering.  The DLQ stream is not a variable of this module: a copy  *)
(* committed there shows as the outcome "copied" of its origin.              *)

\* DLQSink.Dead: dead_policy, then the origin's row, decide what is left.
DeadOutcome(k) ==
    CASE cons[k[1]].cfg.deadPolicy = "drop" -> "dropped"
      [] cons[k[1]].cfg.deadPolicy = "dlq" /\ k[2] \in Live -> "copied"
      [] OTHER -> "orphaned"

\* The deaths of D that need a copy, each charged to the transaction's budget.
Copies(D) == {k \in D : DeadOutcome(k) = "copied"}

\* Mutant: off by one at the delivery bound.
ExhaustedTooLate(c, attempts) ==
    cons[c].cfg.maxDeliver > 0 /\ attempts > cons[c].cfg.maxDeliver

\* The delivery bound: attempts counts this delivery already.
Exhausted(c, attempts) ==
    cons[c].cfg.maxDeliver > 0 /\ attempts >= cons[c].cfg.maxDeliver

RecordOutcomes(acked, dead) ==
    settled' = [c \in Consumers |->
                  [s \in DOMAIN settled[c] \cup {t \in Seqs : <<c, t>> \in acked \cup dead} |->
                     IF <<c, s>> \in dead THEN DeadOutcome(<<c, s>>)
                     ELSE IF <<c, s>> \in acked THEN "acked" ELSE settled[c][s]]]

-----------------------------------------------------------------------------
(* Publish and fetch.                                                        *)

Publish(subject) ==
    /\ ~latched
    /\ next <= MaxSeq
    /\ msgs' = [s \in Live \cup {next} |-> IF s = next THEN subject ELSE msgs[s]]
    /\ next' = next + 1
    /\ UNCHANGED <<cons, rows, latched, ghosts>>

\* topUp examines at most ScanLimit messages from the cursor on.
Window(c) == Oldest({s \in Live : s >= cons[c].cursor}, ScanLimit)

Matching(c) == {s \in Window(c) : msgs[s] \in cons[c].cfg.filter}

\* The matches flow control leaves for later: by the time the scan meets them
\* the rows present and the rows just inserted fill max_ack_pending.
Declined(c) ==
    {s \in Matching(c) :
       Pending(c) + Cardinality({t \in Matching(c) \ DOMAIN rows[c] : t < s})
         >= cons[c].cfg.maxAckPending}

\* Mutant: the cursor steps over the match flow control declined.
NextCursorPastDeclined(c) ==
    CASE Declined(c) # {} -> Min(Declined(c)) + 1
      [] Declined(c) = {} /\ Cardinality(Window(c)) = ScanLimit -> Max(Window(c)) + 1
      [] OTHER -> next

\* The cursor stops at the first declined match, after a full window, or at
\* the head; it never rewinds.
NextCursor(c) ==
    LET target == CASE Declined(c) # {} -> Min(Declined(c))
                    [] Declined(c) = {} /\ Cardinality(Window(c)) = ScanLimit ->
                         Max(Window(c)) + 1
                    [] OTHER -> next
    IN  IF target < cons[c].cursor THEN cons[c].cursor ELSE target

FlowOpen(c) == Pending(c) < cons[c].cfg.maxAckPending

Admitted(c) == IF FlowOpen(c) THEN Matching(c) \ Declined(c) ELSE {}

CursorAfterFetch(c) == IF FlowOpen(c) THEN NextCursor(c) ELSE cons[c].cursor

\* The consumer's rows after the top-up; an existing row wins a conflict.
ToppedUp(c) ==
    [s \in DOMAIN rows[c] \cup Admitted(c) |->
       IF s \in DOMAIN rows[c] THEN rows[c][s] ELSE FreshRow(cons[c].gen)]

Claimable(c) ==
    {s \in DOMAIN ToppedUp(c) :
       /\ s \in Live
       /\ ToppedUp(c)[s].state = "ready"
       /\ ToppedUp(c)[s].visibleIn = 0}

\* Mutant: the candidates are claimed in any order.
ClaimsUnordered(c) ==
    {P \in SUBSET Claimable(c) :
       /\ Cardinality(P) <= FetchBatch
       /\ Claimable(c) # {} => P # {}}

\* The request's batch size and byte budget cut the candidates short, but
\* never below one.
Claims(c) ==
    {P \in SUBSET Claimable(c) :
       /\ IsPrefix(P, Claimable(c))
       /\ Cardinality(P) <= FetchBatch
       /\ Claimable(c) # {} => P # {}}

\* The token a client gets carries the consumer's generation, not the row's.
TokenFor(c, s) ==
    [consumer |-> c, seq |-> s, attempt |-> ToppedUp(c)[s].attempts + 1,
     gen |-> cons[c].gen, epoch |-> epoch[c]]

Fetch(c) ==
    /\ ~latched
    /\ c \in DOMAIN cons
    /\ ~cons[c].paused
    /\ \E claimed \in Claims(c) :
         /\ \A s \in claimed : ToppedUp(c)[s].attempts < MaxAttempts
         /\ rows' = [rows EXCEPT ![c] =
                       [s \in DOMAIN ToppedUp(c) |->
                          IF s \in claimed THEN ClaimedRow(ToppedUp(c)[s])
                          ELSE ToppedUp(c)[s]]]
         /\ cons' = [cons EXCEPT ![c].cursor = CursorAfterFetch(c)]
         /\ tokens' = tokens \cup {TokenFor(c, s) : s \in claimed}
         /\ passed' = [passed EXCEPT ![c] =
                         (@ \ Admitted(c)) \cup
                         {s \in Window(c) \ Matching(c) : s < CursorAfterFetch(c)}]
    /\ UNCHANGED <<msgs, next, latched, epoch, settled, discarded>>

-----------------------------------------------------------------------------
(* Settle: ack, nak, term and extend.                                        *)

Requests == [verb : {"ack", "term", "extend"}, delay : {0}]
              \cup [verb : {"nak"}, delay : Delays]

AckRequest == [verb |-> "ack", delay |-> 0]

\* One request is a sequence of items; a client may send any token it holds.
SettleRequests ==
    UNION {[1 .. n -> [token : tokens, req : Requests]] : n \in 1 .. SettleBatch}

KeyOf(t) == <<t.consumer, t.seq>>

HasRow(t) == t.seq \in DOMAIN rows[t.consumer]

\* The wire form of a token has no epoch: two incarnations of a consumer name
\* share their token strings.
SameToken(t, u) ==
    /\ KeyOf(t) = KeyOf(u)
    /\ t.attempt = u.attempt
    /\ t.gen = u.gen

\* The fence every mutating statement repeats in its WHERE clause.
RowFence(t) ==
    /\ HasRow(t)
    /\ RowOf(KeyOf(t)).attempts = t.attempt
    /\ RowOf(KeyOf(t)).gen = t.gen

\* Mutant: the cap on a lease is measured from now, not from the claim.
ExtendAlwaysFits(r) == r.visibleIn + AckWait <= MaxAckWait

\* planExtend: one more ack_wait, unless the lease would outgrow its cap.
ExtendFits(r) == r.visibleIn + AckWait <= r.holdLeft

\* planAck, planNak, planTerm, planExtend on a row the token still names.
PlanVerb(t, req) ==
    LET row == RowOf(KeyOf(t)) IN
    CASE req.verb = "ack" -> "ack"
      [] req.verb = "nak" ->
           IF row.state = "inflight" /\ Exhausted(t.consumer, row.attempts)
           THEN "dead" ELSE "release"
      [] req.verb = "term" -> "dead"
      [] req.verb = "extend" ->
           IF row.state # "inflight" THEN "stale_ack"
           ELSE IF ExtendFits(row) THEN "extend" ELSE "bad_request"

\* Mutant: the attempt fence is gone.
PlanSettleAnyAttempt(t, req) ==
    CASE t.consumer \notin DOMAIN cons -> "unknown"
      [] t.consumer \in DOMAIN cons /\ t.gen # cons[t.consumer].gen -> "wrong_generation"
      [] t.consumer \in DOMAIN cons /\ t.gen = cons[t.consumer].gen /\ ~HasRow(t) ->
           IF t.seq < cons[t.consumer].cursor THEN "stale" ELSE "unknown"
      [] OTHER -> PlanVerb(t, req)

\* PlanSettle: the generation fence, the absent row, the attempt fence.
PlanSettle(t, req) ==
    CASE t.consumer \notin DOMAIN cons -> "unknown"
      [] t.consumer \in DOMAIN cons /\ t.gen # cons[t.consumer].gen -> "wrong_generation"
      [] t.consumer \in DOMAIN cons /\ t.gen = cons[t.consumer].gen /\ ~HasRow(t) ->
           IF t.seq < cons[t.consumer].cursor THEN "stale" ELSE "unknown"
      [] OTHER -> IF t.attempt # RowOf(KeyOf(t)).attempts THEN "stale_ack"
                  ELSE PlanVerb(t, req)

\* A nak of a READY row only ever pulls it in.
SettledRow(row, req) ==
    IF req.verb = "extend" THEN ExtendedRow(row)
    ELSE ReleasedRow(row, IF row.state = "ready" /\ row.visibleIn < req.delay
                          THEN row.visibleIn ELSE req.delay)

\* Mutant: a token repeated in one request acts twice.
ActingTwice(items, plans) ==
    {i \in DOMAIN items : PlanSettle(items[i].token, items[i].req) \in plans}

\* The items of a request that act by one of plans; a repeated token is answered
\* "stale" and does nothing.
Acting(items, plans) ==
    {i \in DOMAIN items :
       /\ PlanSettle(items[i].token, items[i].req) \in plans
       /\ \A j \in 1 .. i - 1 : ~SameToken(items[j].token, items[i].token)}

KeysOf(items, I) == {KeyOf(items[i].token) : i \in I}

\* A request whose deaths ask for more dead-letter copies than one transaction
\* may write.
OverBudget(items) ==
    Cardinality(Copies(KeysOf(items, Acting(items, {"dead"})))) > DeadBudget

\* applyAction fails the whole batch when a statement changes no row, because
\* the fence misses or an earlier item took the row away, or when the
\* dead-letter budget runs out; the writer rolls back and latches.
BatchFails(items) ==
    \/ \E i \in Acting(items, {"ack", "release", "extend", "dead"}) :
         \/ ~RowFence(items[i].token)
         \/ \E j \in Acting(items, {"ack", "dead"}) :
              j < i /\ KeyOf(items[j].token) = KeyOf(items[i].token)
    \/ OverBudget(items)

SettleCommits(items) ==
    LET acked == KeysOf(items, Acting(items, {"ack"}))
        dead  == KeysOf(items, Acting(items, {"dead"}))
        moved == Acting(items, {"release", "extend"})
    IN  /\ ~BatchFails(items)
        /\ UpdateRows(acked \cup dead,
             [k \in KeysOf(items, moved) |->
                SettledRow(RowOf(k),
                  items[CHOOSE i \in moved : KeyOf(items[i].token) = k].req)])
        /\ RecordOutcomes(acked, dead)
        /\ UNCHANGED <<msgs, next, cons, latched, tokens, epoch, passed, discarded>>

SettleAborts(items) ==
    /\ BatchFails(items)
    /\ latched' = TRUE
    /\ UNCHANGED <<msgs, next, cons, rows, ghosts>>

Settle(items) == ~latched /\ (SettleCommits(items) \/ SettleAborts(items))

-----------------------------------------------------------------------------
(* Time, the expiry sweep, the retire pass and recovery.                     *)

Dec(n) == IF n > 0 THEN n - 1 ELSE 0

Tick ==
    /\ \E k \in Keys : RowOf(k).visibleIn > 0 \/ RowOf(k).holdLeft > 0
    /\ UpdateRows({}, [k \in Keys |-> [RowOf(k) EXCEPT !.visibleIn = Dec(@),
                                                       !.holdLeft = Dec(@)]])
    /\ UNCHANGED <<msgs, next, cons, latched, ghosts>>

Inflight == {k \in Keys : RowOf(k).state = "inflight"}

Expired == {k \in Inflight : RowOf(k).visibleIn = 0}

\* A row whose consumer is gone or has moved to another generation is skipped.
Sweepable(k) == k[1] \in DOMAIN cons /\ RowOf(k).gen = cons[k[1]].gen

\* Mutant: a delivery at its bound is neither redelivered nor dead.
DecideSweepNeverDies(k) ==
    IF ~Sweepable(k) \/ Exhausted(k[1], RowOf(k).attempts) THEN "skip" ELSE "redeliver"

\* DecideSweep on an expired row.
DecideSweep(k) ==
    IF ~Sweepable(k) THEN "skip"
    ELSE IF Exhausted(k[1], RowOf(k).attempts) THEN "dead" ELSE "redeliver"

\* The deaths one transaction carries out: all that need no copy, and as many
\* copies as the budget allows; the rest stay for a later pass.
WithinBudget(dead, dying) ==
    /\ dead \subseteq dying
    /\ dying \ Copies(dying) \subseteq dead
    /\ Copies(dying) \subseteq dead \/ Cardinality(Copies(dead)) = DeadBudget
    /\ Cardinality(Copies(dead)) <= DeadBudget

Sweep ==
    /\ ~latched
    /\ \E picked \in SUBSET Expired :
         /\ Cardinality(picked) <= SweepLimit
         /\ picked = Expired \/ Cardinality(picked) = SweepLimit
         /\ LET dying == {k \in picked : DecideSweep(k) = "dead"}
                redelivered == {k \in picked : DecideSweep(k) = "redeliver"}
            IN \E dead \in SUBSET dying, delay \in [redelivered -> Delays] :
                 /\ WithinBudget(dead, dying)
                 /\ UpdateRows(dead, [k \in redelivered |-> ReleasedRow(RowOf(k), delay[k])])
                 /\ RecordOutcomes({}, dead)
    /\ UNCHANGED <<msgs, next, cons, latched, tokens, epoch, passed, discarded>>

\* READY rows a lowered max_deliver, or a restart, left at their bound.
Stranded(c) ==
    {s \in DOMAIN rows[c] :
       /\ c \in DOMAIN cons
       /\ rows[c][s].state = "ready"
       /\ rows[c][s].gen = cons[c].gen
       /\ Exhausted(c, rows[c][s].attempts)}

\* The pass stops at the first copy the budget refuses.  The query that lists
\* the consumers has no ORDER BY, so any of them may be the one it stops at.
Retire ==
    /\ ~latched
    /\ LET dying == UNION {{c} \X Oldest(Stranded(c), SweepLimit) : c \in Consumers}
       IN  /\ dying # {}
           /\ \E dead \in SUBSET dying :
                /\ \A c \in Consumers :
                     IsPrefix({s \in Seqs : <<c, s>> \in dead}, Oldest(Stranded(c), SweepLimit))
                /\ Cardinality(Copies(dead)) <= DeadBudget
                /\ dead = dying \/ Cardinality(Copies(dead)) = DeadBudget
                /\ UpdateRows(dead, NoNewRows)
                /\ RecordOutcomes({}, dead)
    /\ UNCHANGED <<msgs, next, cons, latched, tokens, epoch, passed, discarded>>

\* A stop or a crash, then startup: committed rows survive, every lease is
\* void, attempts stay, and the new process has no latch.
Restart ==
    /\ "restart" \in Ops
    /\ Inflight # {} \/ latched
    /\ \E delay \in [Inflight -> Delays] :
         UpdateRows({}, [k \in Inflight |-> ReleasedRow(RowOf(k), delay[k])])
    /\ latched' = FALSE
    /\ UNCHANGED <<msgs, next, cons, ghosts>>

-----------------------------------------------------------------------------
(* Consumer administration.                                                  *)

\* History of a consumer that starts over at target: it is owed the live
\* messages from there on and nothing else.
StartOver(c, target) ==
    /\ settled' = [settled EXCEPT ![c] = EmptyFun]
    /\ passed' = [passed EXCEPT ![c] = {s \in 1 .. next - 1 : s < target \/ s \notin Live}]

CreateConsumer(c, cfg, target) ==
    /\ ~latched
    /\ c \notin DOMAIN cons
    /\ epoch[c] < MaxEpoch
    /\ target \in FirstSeq .. next
    /\ cons' = [d \in DOMAIN cons \cup {c} |->
                  IF d = c THEN [cfg |-> cfg, cursor |-> target, gen |-> 1, paused |-> FALSE]
                  ELSE cons[d]]
    /\ epoch' = [epoch EXCEPT ![c] = @ + 1]
    /\ StartOver(c, target)
    /\ UNCHANGED <<msgs, next, rows, latched, tokens, discarded>>

\* Creating a name that another client created first, with another
\* configuration: the create command rewrites the configuration in place.
RecreateConsumer(c, cfg) ==
    /\ ~latched
    /\ "update" \in Ops
    /\ c \in DOMAIN cons
    /\ cons' = [cons EXCEPT ![c].cfg = cfg]
    /\ UNCHANGED <<msgs, next, rows, latched, ghosts>>

\* Mutant: any READY row may be dropped, delivered before or not.
DroppableReady(c) == {s \in DOMAIN rows[c] : rows[c][s].state = "ready"}

\* shrinkDeliveries: the newest never-delivered rows above the new bound.
Droppable(c) ==
    {s \in DOMAIN rows[c] : rows[c][s].state = "ready" /\ rows[c][s].attempts = 0}

Dropped(c, cfg) ==
    IF cfg.maxAckPending < cons[c].cfg.maxAckPending /\ Pending(c) > cfg.maxAckPending
    THEN Newest(Droppable(c), Pending(c) - cfg.maxAckPending)
    ELSE {}

\* The cursor is rewound to the lowest dropped row so it is admitted again.
ShrunkCursor(c, dropped) == IF dropped = {} THEN cons[c].cursor ELSE Min(dropped)

UpdateConsumer(c, cfg) ==
    /\ ~latched
    /\ "update" \in Ops
    /\ c \in DOMAIN cons
    /\ UpdateRows({c} \X Dropped(c, cfg), NoNewRows)
    /\ cons' = [cons EXCEPT ![c].cfg = cfg,
                            ![c].cursor = ShrunkCursor(c, Dropped(c, cfg))]
    /\ UNCHANGED <<msgs, next, latched, ghosts>>

SetPaused(c) ==
    /\ ~latched
    /\ "pause" \in Ops
    /\ c \in DOMAIN cons
    /\ cons' = [cons EXCEPT ![c].paused = ~@]
    /\ UNCHANGED <<msgs, next, rows, latched, ghosts>>

DeleteConsumer(c) ==
    /\ ~latched
    /\ "delete" \in Ops
    /\ c \in DOMAIN cons
    /\ cons' = [d \in DOMAIN cons \ {c} |-> cons[d]]
    /\ rows' = [rows EXCEPT ![c] = EmptyFun]
    /\ UNCHANGED <<msgs, next, latched, ghosts>>

\* Mutant: a seek that leaves the old tokens valid.
SeekKeepsGeneration(c, target) ==
    /\ ~latched
    /\ "seek" \in Ops
    /\ c \in DOMAIN cons
    /\ cons[c].gen < MaxGen
    /\ target \in FirstSeq .. next
    /\ rows' = [rows EXCEPT ![c] = EmptyFun]
    /\ cons' = [cons EXCEPT ![c].cursor = target]
    /\ StartOver(c, target)
    /\ UNCHANGED <<msgs, next, latched, tokens, epoch, discarded>>

\* Every row goes and the generation fences the tokens still out.
Seek(c, target) ==
    /\ ~latched
    /\ "seek" \in Ops
    /\ c \in DOMAIN cons
    /\ cons[c].gen < MaxGen
    /\ target \in FirstSeq .. next
    /\ rows' = [rows EXCEPT ![c] = EmptyFun]
    /\ cons' = [cons EXCEPT ![c].cursor = target, ![c].gen = @ + 1]
    /\ StartOver(c, target)
    /\ UNCHANGED <<msgs, next, latched, tokens, epoch, discarded>>

-----------------------------------------------------------------------------
(* Purge and retention: the ways a message leaves the stream.                *)

Holders(S) == {c \in DOMAIN cons : DOMAIN rows[c] \cap S # {}}

\* The part both purge paths share: rows and messages of S go, and only the
\* consumers that held one of the rows get a new generation.
DeleteMessages(S) ==
    /\ S # {}
    /\ \A c \in Holders(S) : cons[c].gen < MaxGen
    /\ msgs' = [s \in Live \ S |-> msgs[s]]
    /\ discarded' = discarded \cup S
    /\ UNCHANGED <<next, latched, tokens, epoch, settled, passed>>

GenAfterPurge(c, S) == IF c \in Holders(S) THEN cons[c].gen + 1 ELSE cons[c].gen

\* Cursors below the purged range move just past it; none moves back.
ClampedCursor(c, upper) ==
    IF cons[c].cursor <= upper THEN upper + 1 ELSE cons[c].cursor

\* applyFastRange: everything up to and including upper; cursors move past it.
PurgeRange(upper) ==
    /\ ~latched
    /\ "purge_range" \in Ops
    /\ upper < next
    /\ LET doomed == {s \in Seqs : s <= upper} IN
       /\ DeleteMessages({s \in Live : s <= upper})
       /\ UpdateRows(Consumers \X doomed, NoNewRows)
       /\ cons' = [c \in DOMAIN cons |->
                     [cons[c] EXCEPT !.gen = GenAfterPurge(c, doomed),
                                     !.cursor = ClampedCursor(c, upper)]]

\* selectVictims: the matching messages up to upper, except the keep newest.
Victims(pattern, upper, keep) ==
    LET candidates == {s \in Live : s <= upper /\ msgs[s] \in pattern}
    IN  candidates \ Newest(candidates, keep)

\* applyScanPath: exactly the victims; no cursor moves.
PurgeScan(pattern, upper, keep) ==
    /\ ~latched
    /\ "purge_scan" \in Ops
    /\ keep > 0 => upper = MaxSeq
    /\ LET victims == Victims(pattern, upper, keep) IN
       /\ DeleteMessages(victims)
       /\ UpdateRows(Consumers \X victims, NoNewRows)
       /\ cons' = [c \in DOMAIN cons |->
                     [cons[c] EXCEPT !.gen = GenAfterPurge(c, victims)]]

\* Mutant: the guard is missing.
UnpinnedUnguarded == Live

\* The in-SQL guard of every retention delete: no delivery row names it.
Unpinned == {s \in Live : \A c \in Consumers : s \notin DOMAIN rows[c]}

\* Workqueue retention stays below every cursor and needs a consumer to exist.
Evictable ==
    IF ~WorkQueue THEN Unpinned
    ELSE {s \in Unpinned : DOMAIN cons # {} /\ \A c \in DOMAIN cons : s < cons[c].cursor}

\* Ages, sizes and the batch bound decide how many of the oldest go.
Retain ==
    /\ ~latched
    /\ "retain" \in Ops
    /\ \E S \in SUBSET Evictable :
         /\ S # {}
         /\ IsPrefix(S, Evictable)
         /\ msgs' = [s \in Live \ S |-> msgs[s]]
         /\ discarded' = IF WorkQueue THEN discarded ELSE discarded \cup S
    /\ UNCHANGED <<next, cons, rows, latched, tokens, epoch, settled, passed>>

-----------------------------------------------------------------------------
ClientNext ==
    \/ \E subject \in Subjects : Publish(subject)
    \/ \E c \in Consumers : Fetch(c)
    \/ \E items \in SettleRequests : Settle(items)

SystemNext == Tick \/ Sweep \/ Retire \/ Restart \/ Retain

AdminNext ==
    \/ \E c \in Consumers :
         \/ \E cfg \in Configs :
              \/ \E target \in Seqs \cup {MaxSeq + 1} : CreateConsumer(c, cfg, target)
              \/ RecreateConsumer(c, cfg)
              \/ UpdateConsumer(c, cfg)
         \/ SetPaused(c)
         \/ DeleteConsumer(c)
         \/ \E target \in Seqs \cup {MaxSeq + 1} : Seek(c, target)
    \/ \E upper \in Seqs :
         \/ PurgeRange(upper)
         \/ \E pattern \in SUBSET Subjects, keep \in 0 .. MaxSeq :
              PurgeScan(pattern, upper, keep)

Next == ClientNext \/ SystemNext \/ AdminNext

Spec == Init /\ [][Next]_vars

\* Deliveries that no operator, restart or retention disturbs.
ServiceNext ==
    \/ ClientNext
    \/ Tick \/ Sweep
    \/ \E c \in Consumers, cfg \in Configs, target \in Seqs \cup {MaxSeq + 1} :
         CreateConsumer(c, cfg, target)

\* The server's clock and its sweeper goroutine keep running; fetchers poll.
SweeperFairness == WF_vars(Tick) /\ WF_vars(Sweep)

PollingSpec ==
    /\ Init /\ [][ServiceNext]_vars
    /\ SweeperFairness
    /\ \A c \in Consumers : WF_vars(Fetch(c))

-----------------------------------------------------------------------------
(* Safety.                                                                   *)

\* At-least-once (SEMANTICS I2): a published message that nobody deleted and
\* the consumer's position does not exclude is, for that consumer, still ahead
\* of the cursor and stored, or has a delivery row, or was acked or died.
NoLoss ==
    \A c \in DOMAIN cons : \A s \in 1 .. next - 1 :
      \/ s \in discarded \cup passed[c]
      \/ s >= cons[c].cursor /\ s \in Live
      \/ s < cons[c].cursor /\ s \in DOMAIN rows[c] \cup DOMAIN settled[c]

\* Acked or dead is final (I3, I8): no later top-up, rewind of the cursor by a
\* shrink, sweep or restart gives a settled message a row again.
NoResurrection ==
    \A c \in DOMAIN cons : \A s \in DOMAIN settled[c] :
      s \notin DOMAIN rows[c] /\ s < cons[c].cursor

\* A row nobody was ever handed is newer than every message the consumer was
\* handed (claims are oldest first), so the rewind of a shrink, which drops
\* only such rows, never takes the cursor back over a settled message.
FreshRowsAreNewest ==
    \A c \in DOMAIN cons : \A s \in DOMAIN rows[c] :
      rows[c][s].attempts = 0 =>
        /\ \A t \in DOMAIN settled[c] : t < s
        /\ \A t \in DOMAIN rows[c] : rows[c][t].attempts > 0 => t < s

\* A delivery row always has its message (verify C2): retention and purge
\* never pull the payload from under a row, so no death finds its origin gone.
RowsPinMessages ==
    \A c \in Consumers :
      DOMAIN rows[c] \subseteq Live /\ "orphaned" \notin {settled[c][s] : s \in DOMAIN settled[c]}

\* The fence (I7): of all the tokens ever issued for a message, only that of
\* the latest delivery, in the consumer's present incarnation, can change it.
OnlyLatestLeaseSettles ==
    \A t \in tokens :
      PlanSettle(t, AckRequest) = "ack" => \A u \in tokens : KeyOf(u) = KeyOf(t) =>
           \/ u.epoch < t.epoch
           \/ u.epoch = t.epoch /\ u.gen < t.gen
           \/ u.epoch = t.epoch /\ u.gen = t.gen /\ u.attempt <= t.attempt

\* The answer to a late ack is the truth (T3a): "stale" is said only of a
\* message that was settled or deleted, and "unknown" never of one that was
\* delivered by the consumer as it stands.
TokenAnswersAreTrue ==
    \A t \in tokens :
      t.consumer \in DOMAIN cons =>
        LET answer == PlanSettle(t, AckRequest) IN
        /\ answer # "unknown"
        /\ answer = "stale" => t.seq \in DOMAIN settled[t.consumer] \cup discarded

\* No request of a client makes the writer latch.
StoreHealthy == ~latched

\* Only a request with more deaths than the dead-letter budget makes the writer
\* latch: for every other one a client can put together of the tokens it was
\* ever given, the planner and the WHERE fence of each settle statement agree.
OnlyOverBudgetLatches == \A items \in SettleRequests : BatchFails(items) => OverBudget(items)

\* The delivery bound (I4): delivery stops at max_deliver.
AttemptsWithinMaxDeliver ==
    \A c \in DOMAIN cons : cons[c].cfg.maxDeliver > 0 =>
      \A s \in DOMAIN rows[c] : rows[c][s].attempts <= cons[c].cfg.maxDeliver

-----------------------------------------------------------------------------
(* Action properties.                                                        *)

-----------------------------------------------------------------------------
(* Liveness.                                                                 *)

Leased(c, s, n) ==
    /\ s \in DOMAIN rows[c]
    /\ rows[c][s].state = "inflight"
    /\ rows[c][s].attempts = n

\* Every lease ends (I1, T5): whatever its holder does, extend included, the
\* delivery is settled, released by the sweep or dead, or the store is latched,
\* and the restart that has to follow voids the lease.
LeaseExpires ==
    \A c \in Consumers, s \in Seqs, n \in 1 .. MaxAttempts :
      Leased(c, s, n) ~> (~Leased(c, s, n) \/ latched)

\* A poison message dies: with a delivery bound and a worker that polls, each
\* message the consumer is owed is acked, dead-lettered or deleted, even if
\* every handler fails or hangs, unless a request latches the store first.
EverythingSettles ==
    \A c \in Consumers, s \in Seqs :
      (c \in DOMAIN cons /\ s \in Live /\ s >= cons[c].cursor)
        ~> (s \in DOMAIN settled[c] \cup passed[c] \cup discarded \/ latched)
=============================================================================
