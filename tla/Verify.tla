------------------------------- MODULE Verify -------------------------------
(***************************************************************************)
(* The auditors: `messq verify` (internal/verify, internal/cli/verify.go)  *)
(* and the invariant checks of the store (internal/store/invariants.go,    *)
(* invariants_consumer.go).  Each check is the predicate its query states  *)
(* over the tables; a run reads one committed state.                       *)
(*                                                                         *)
(* The tables change by the commands that are modelled in Streams and      *)
(* Delivery; here each command is one step that keeps what the checks read *)
(* (rows, counters, the journal), on one stream, its dead-letter stream    *)
(* and one consumer.  An out-of-band write damages one table.              *)
(***************************************************************************)
EXTENDS Integers, Sequences, FiniteSets, SequencesExt, FiniteSetsExt

CONSTANTS
    MaxEvents,      \* bound: journal entries
    MaxPlain,       \* bound: journal entries of a history of PlainEvents only
    MaxSeq,         \* bound: sequence numbers of a stream
    MaxDeliver,     \* consumers.max_deliver as created; an update lowers it to 1
    MaxAckPending,  \* consumers.max_ack_pending as created; an update lowers it to 1
    deleteChunkRows,\* messages one reap command deletes
    Damages,        \* the out-of-band writes that may happen
    Ops             \* the commands that may run

ConstantsAssumption ==
    /\ MaxEvents \in Nat /\ MaxPlain \in Nat /\ MaxSeq \in Nat /\ MaxDeliver \in Nat /\ MaxAckPending \in Nat
    /\ deleteChunkRows \in Nat \ {0}

S == "orders"
D == "orders.dlq"
Names == {S, D}
READY == 0
INFLIGHT == 1
Absent == -1

VARIABLES
    streams,    \* names in the streams table
    next,       \* stream_seq.next, Absent without a row
    hwm,        \* meta seq_hwm of a deleted stream, 0 without
    reaping,    \* names with a reap marker in meta
    msgs,       \* per stream: the sequence numbers of its messages
    stats,      \* stream_stats.msgs, Absent without a row
    cons,       \* the consumer of S as a set of at most one record
    rows,       \* deliveries: seq -> [state, attempts, gen]
    journal,    \* events in id order
    born,       \* history: how D came to be, over nothing ("fresh"), over the
                \* high-water mark of a deleted one ("reseeded") or over its
                \* messages ("overlaid")
    damage      \* the out-of-band write that happened, or "none"

vars == <<streams, next, hwm, reaping, msgs, stats, cons, rows, journal, born, damage>>

Event(e, n, q) == [ev |-> e, stream |-> n, seq |-> q, dlq |-> "", dlqSeq |-> 0, gen |-> 0]
\* The events it takes to lose a dead-letter stream and to provision it again.
PlainEvents == {"stream.create", "stream.delete", "msg.publish", "consumer.create",
                "msg.deliver", "msg.dead"}
Emit(evs) ==
    /\ journal' = journal \o evs
    /\ Len(journal') <= IF \A e \in Range(journal') : e.ev \in PlainEvents THEN MaxPlain ELSE MaxEvents
NoRows == <<>>   \* the empty function
Consumer == CHOOSE c \in cons : TRUE

Init ==
    /\ streams = {} /\ cons = {} /\ rows = NoRows /\ journal = <<>> /\ damage = "none"
    /\ reaping = {} /\ born = "fresh"
    /\ next = [n \in Names |-> Absent] /\ hwm = [n \in Names |-> 0]
    /\ msgs = [n \in Names |-> {}] /\ stats = [n \in Names |-> Absent]

(***************************************************************************)
(* The commands, as far as the checks can tell.                            *)
(***************************************************************************)
\* A name ending in .dlq is refused (ErrReservedName), and one whose messages
\* are still being deleted (refuseDuringReap).
CreateStream ==
    /\ S \notin streams \cup reaping
    /\ streams' = streams \union {S}
    /\ next' = [next EXCEPT ![S] = hwm[S] + 1]
    /\ stats' = [stats EXCEPT ![S] = 0]
    /\ Emit(<<Event("stream.create", S, 0)>>)
    /\ UNCHANGED <<hwm, reaping, msgs, cons, rows, born>>

\* Either stream can be deleted; its messages stay for the reap.
DeleteStream ==
    \E n \in streams :
        /\ streams' = streams \ {n}
        /\ hwm' = [hwm EXCEPT ![n] = next[n] - 1]
        /\ reaping' = reaping \cup {n}
        /\ next' = [next EXCEPT ![n] = Absent]
        /\ stats' = [stats EXCEPT ![n] = Absent]
        /\ IF n = S THEN cons' = {} /\ rows' = NoRows /\ UNCHANGED born
           ELSE born' = "fresh" /\ UNCHANGED <<cons, rows>>
        /\ Emit(<<Event("stream.delete", n, 0)>>)
        /\ UNCHANGED msgs

\* reapChunkCmd: any rows of that name, a full chunk if there are as many; a
\* chunk that comes up short clears the marker.
ReapChunk ==
    \E n \in reaping : \E gone \in SUBSET msgs[n] :
        /\ \/ Cardinality(gone) = deleteChunkRows
           \/ Cardinality(gone) < deleteChunkRows /\ gone = msgs[n]
        /\ msgs' = [msgs EXCEPT ![n] = @ \ gone]
        /\ reaping' = IF Cardinality(gone) < deleteChunkRows THEN reaping \ {n} ELSE reaping
        /\ UNCHANGED <<streams, next, hwm, stats, cons, rows, journal, born>>

\* (as a bug) a publish leaves stream_stats alone.
PublishUncounted ==
    \E n \in streams :
        /\ next[n] <= MaxSeq
        /\ msgs' = [msgs EXCEPT ![n] = @ \union {next[n]}]
        /\ next' = [next EXCEPT ![n] = @ + 1]
        /\ Emit(<<Event("msg.publish", n, next[n])>>)
        /\ UNCHANGED <<streams, hwm, reaping, cons, rows, stats, born>>

\* To either stream: a dead-letter stream that exists takes publishes.  A row
\* in the way fails the insert, and with it the store (module Streams).
Publish ==
    \E n \in streams :
        /\ next[n] <= MaxSeq /\ next[n] \notin msgs[n]
        /\ msgs' = [msgs EXCEPT ![n] = @ \union {next[n]}]
        /\ next' = [next EXCEPT ![n] = @ + 1]
        /\ stats' = [stats EXCEPT ![n] = @ + 1]
        /\ Emit(<<Event("msg.publish", n, next[n])>>)
        /\ UNCHANGED <<streams, hwm, reaping, cons, rows, born>>

DupPublish ==
    /\ S \in streams /\ msgs[S] # {}
    /\ Emit(<<Event("msg.dup", S, Max(msgs[S]))>>)
    /\ UNCHANGED <<streams, next, hwm, reaping, born, msgs, stats, cons, rows>>

\* streamBounds: where a consumer starts, and where a seek to the first message leads.
FirstSeq == IF msgs[S] = {} THEN next[S] ELSE Min(msgs[S])

CreateConsumer ==
    /\ S \in streams /\ cons = {}
    /\ cons' = {[cursor |-> FirstSeq, gen |-> 1, maxDeliver |-> MaxDeliver,
                 maxAckPending |-> MaxAckPending, policy |-> "dlq"]}
    /\ Emit(<<Event("consumer.create", S, 0)>>)
    /\ UNCHANGED <<streams, next, hwm, reaping, born, msgs, stats, rows>>

DeleteConsumer ==
    /\ cons # {}
    /\ cons' = {} /\ rows' = NoRows
    /\ Emit(<<Event("consumer.delete", S, 0)>>)
    /\ UNCHANGED <<streams, next, hwm, reaping, born, msgs, stats>>

\* Legal: the rows above a lowered bound stay.
UpdateConsumer ==
    /\ cons # {}
    /\ cons' = {[Consumer EXCEPT !.maxDeliver = 1, !.maxAckPending = 1]}
    /\ Emit(<<Event("consumer.update", S, 0)>>)
    /\ UNCHANGED <<streams, next, hwm, reaping, born, msgs, stats, rows>>

Seek ==
    /\ cons # {}
    /\ cons' = {[Consumer EXCEPT !.cursor = FirstSeq, !.gen = @ + 1]}
    /\ rows' = NoRows
    /\ Emit(<<Event("consumer.seek", S, 0)>>)
    /\ UNCHANGED <<streams, next, hwm, reaping, born, msgs, stats>>

\* A fetch claims one message: a READY row, or the one at the cursor.
Fetch ==
    /\ cons # {}
    /\ \E q \in msgs[S] :
          /\ \/ /\ q \in DOMAIN rows /\ rows[q].state = READY
                /\ rows' = [rows EXCEPT ![q].state = INFLIGHT, ![q].attempts = @ + 1]
                /\ UNCHANGED cons
             \/ /\ q >= Consumer.cursor /\ q \notin DOMAIN rows
                /\ \A p \in msgs[S] : p >= Consumer.cursor => p >= q
                /\ Cardinality(DOMAIN rows) < Consumer.maxAckPending
                /\ rows' = [p \in DOMAIN rows \union {q} |->
                              IF p = q THEN [state |-> INFLIGHT, attempts |-> 1, gen |-> Consumer.gen]
                              ELSE rows[p]]
                /\ cons' = {[Consumer EXCEPT !.cursor = q + 1]}
          /\ Emit(<<Event("msg.deliver", S, q)>>)
    /\ UNCHANGED <<streams, next, hwm, reaping, born, msgs, stats>>

RowsWithout(qs) == [p \in DOMAIN rows \ qs |-> rows[p]]
Ack ==
    \E q \in DOMAIN rows :
        /\ rows[q].state = INFLIGHT /\ rows[q].gen = Consumer.gen
        /\ rows' = RowsWithout({q})
        /\ Emit(<<Event("msg.ack", S, q)>>)
        /\ UNCHANGED <<streams, next, hwm, reaping, born, msgs, stats, cons>>

Nak ==
    \E q \in DOMAIN rows :
        /\ rows[q].state = INFLIGHT /\ rows[q].gen = Consumer.gen
        /\ rows[q].attempts < Consumer.maxDeliver
        /\ rows' = [rows EXCEPT ![q].state = READY]
        /\ Emit(<<Event("msg.nak", S, q)>>)
        /\ UNCHANGED <<streams, next, hwm, reaping, born, msgs, stats, cons>>

\* DLQSink.Dead: the copy, the stream it may have to create, the event.  The
\* stream is seeded at 1 whatever a deleted one left; a message of that one
\* which is still there fails the insert.
Dead ==
    \E q \in DOMAIN rows :
        /\ rows[q].state = INFLIGHT /\ rows[q].gen = Consumer.gen
        /\ LET new == D \notin streams
               seq == IF new THEN 1 ELSE next[D]
               dead == [Event("msg.dead", S, q) EXCEPT !.dlq = "written", !.dlqSeq = seq,
                                                       !.gen = rows[q].gen]
           IN /\ seq <= MaxSeq /\ seq \notin msgs[D]
              /\ streams' = streams \union {D}
              /\ next' = [next EXCEPT ![D] = seq + 1]
              /\ msgs' = [msgs EXCEPT ![D] = @ \union {seq}]
              /\ stats' = [stats EXCEPT ![D] = IF new THEN 1 ELSE @ + 1]
              /\ Emit((IF new THEN <<Event("stream.create", D, 0)>> ELSE <<>>) \o <<dead>>)
              /\ born' = IF ~new THEN born
                         ELSE IF D \in reaping THEN "overlaid"
                         ELSE IF hwm[D] > 0 THEN "reseeded" ELSE "fresh"
        /\ rows' = RowsWithout({q})
        /\ UNCHANGED <<hwm, reaping, cons>>

\* A purge by subject of any messages, in either stream: the rows of the
\* victims go, a consumer that held one moves to a new generation.
Purge ==
    \E n \in streams : \E victims \in SUBSET msgs[n] :
        /\ victims # {}
        /\ msgs' = [msgs EXCEPT ![n] = @ \ victims]
        /\ stats' = [stats EXCEPT ![n] = @ - Cardinality(victims)]
        /\ IF n = S
           THEN /\ rows' = RowsWithout(victims)
                /\ cons' = {IF victims \intersect DOMAIN rows # {} THEN [c EXCEPT !.gen = @ + 1] ELSE c
                             : c \in cons}
           ELSE UNCHANGED <<rows, cons>>
        /\ Emit(<<Event("stream.purge", n, 0)>>)
        /\ UNCHANGED <<streams, next, hwm, reaping, born>>

Command ==
    /\ damage = "none"
    /\ UNCHANGED damage
    /\ \/ "stream" \in Ops /\ (CreateStream \/ DeleteStream \/ ReapChunk)
       \/ "publish" \in Ops /\ Publish
       \/ "dup" \in Ops /\ DupPublish
       \/ "consumer" \in Ops /\ CreateConsumer
       \/ "position" \in Ops /\ (DeleteConsumer \/ UpdateConsumer \/ Seek)
       \/ "deliver" \in Ops /\ (Fetch \/ Dead)
       \/ "settle" \in Ops /\ (Ack \/ Nak)
       \/ "purge" \in Ops /\ Purge

\* Out-of-band writes and lost pages, one table each.
Damage(k) ==
    /\ damage = "none" /\ k \in Damages
    /\ damage' = k
    /\ \/ k = "message" /\ \E q \in DOMAIN rows : msgs' = [msgs EXCEPT ![S] = @ \ {q}]
          /\ UNCHANGED <<next, stats, cons, rows>>
       \/ k = "counter" /\ \E n \in streams : msgs[n] # {} /\ next' = [next EXCEPT ![n] = Max(msgs[n])]
          /\ UNCHANGED <<msgs, stats, cons, rows>>
       \/ k = "stats" /\ \E n \in streams : \E x \in {Absent, stats[n] + 1} : stats' = [stats EXCEPT ![n] = x]
          /\ UNCHANGED <<msgs, next, cons, rows>>
       \/ k = "cursor" /\ \E c \in cons : cons' = {[c EXCEPT !.cursor = x] : x \in {next[S] + 1}}
          /\ UNCHANGED <<msgs, next, stats, rows>>
       \/ k = "rewind" /\ DOMAIN rows # {} /\ \E c \in cons : cons' = {[c EXCEPT !.cursor = Min(DOMAIN rows)]}
          /\ UNCHANGED <<msgs, next, stats, rows>>
       \/ k = "row" /\ \E q \in DOMAIN rows :
             rows' = [rows EXCEPT ![q] = [state |-> INFLIGHT, attempts |-> 0, gen |-> @.gen]]
          /\ UNCHANGED <<msgs, next, stats, cons>>
       \/ k = "copy" /\ D \in streams /\ \E q \in msgs[D] : msgs' = [msgs EXCEPT ![D] = @ \ {q}]
          /\ UNCHANGED <<next, stats, cons, rows>>
    /\ UNCHANGED <<streams, hwm, reaping, journal, born>>

Next == Command \/ \E k \in Damages : Damage(k)
VSpec == Init /\ [][Next]_vars

(***************************************************************************)
(* The checks of internal/verify.  A check is clean or reports.            *)
(***************************************************************************)
MaxOr0(A) == IF A = {} THEN 0 ELSE Max(A)

V6Of(n) == next[n] # Absent => next[n] > MaxOr0(msgs[n])
V6 == \A n \in Names : V6Of(n)
\* stream_stats equals scan, and no row without its stream.
V7Of(n) ==
    IF n \in streams THEN stats[n] # Absent /\ stats[n] = Cardinality(msgs[n])
    ELSE stats[n] = Absent
V7 == \A n \in Names : V7Of(n)
I2Rows == \A q \in DOMAIN rows : rows[q].state \in {READY, INFLIGHT}
I2 == \A q \in DOMAIN rows : q \in msgs[S] /\ rows[q].state \in {READY, INFLIGHT}
I4 == \A c \in cons : c.maxDeliver > 0 => \A q \in DOMAIN rows : rows[q].attempts <= c.maxDeliver
I5 == \A c \in cons : Cardinality(DOMAIN rows) <= c.maxAckPending
I6 == \A c \in cons : (next[S] # Absent => c.cursor <= next[S]) /\ \A q \in DOMAIN rows : q < c.cursor
I7Lease == \A q \in DOMAIN rows : rows[q].state = INFLIGHT => rows[q].attempts >= 1
I7 == /\ I7Lease
      /\ \A c \in cons, q \in DOMAIN rows : rows[q].gen = c.gen
S2 == \A c \in cons : c.maxDeliver > 0 =>
        \A q \in DOMAIN rows : rows[q].state = READY => rows[q].attempts <= c.maxDeliver
S3 == \A c \in cons, q \in DOMAIN rows : rows[q].gen = c.gen

Deaths == {i \in DOMAIN journal : journal[i].ev = "msg.dead"}
I8 == \A i, j \in Deaths : journal[i].seq = journal[j].seq /\ journal[i].gen = journal[j].gen => i = j
PDLQ1 == \* the copy is there, or the first message of the dead-letter stream is past it
    \A i \in Deaths : journal[i].dlq = "written" =>
        \/ journal[i].dlqSeq \in msgs[D]
        \/ msgs[D] # {} /\ Min(msgs[D]) > journal[i].dlqSeq
PDLQ4 == \A i \in Deaths : journal[i].dlq # "origin_missing"

\* checkI10: the events fold into streams, publish counts and last sequence
\* numbers; an event without a fold arm is itself reported.
FoldArms == {"stream.create", "stream.update", "stream.delete", "msg.publish", "msg.dup",
             "recovery.unclean", "recovery.reclaimed"}
Publishes(n) == SelectSeq(journal, LAMBDA e : e.ev = "msg.publish" /\ e.stream = n)
FoldLive(n) ==
    LET marks == {i \in DOMAIN journal : journal[i].stream = n
                    /\ journal[i].ev \in {"stream.create", "stream.delete"}}
    IN marks # {} /\ journal[Max(marks)].ev = "stream.create"
FoldKnown(n) == \E i \in DOMAIN journal : journal[i].stream = n /\ journal[i].ev = "stream.create"
FoldContiguous(n) ==
    LET p == Publishes(n) IN \A i \in 1..(Len(p) - 1) : p[i + 1].seq = p[i].seq + 1
FoldDiff(n) ==
    /\ FoldKnown(n) => (FoldLive(n) <=> n \in streams)
    /\ n \in streams => FoldLive(n)
    /\ LET p == Publishes(n) IN p # <<>> =>
         /\ Cardinality(msgs[n]) = Len(p)
         /\ next[n] = p[Len(p)].seq + 1      \* a missing row ends the check with an error
I10 ==
    /\ \A i \in DOMAIN journal : journal[i].ev \in FoldArms
    /\ \A n \in Names : FoldContiguous(n) /\ FoldDiff(n)

(***************************************************************************)
(* The checks of internal/store/invariants.go and invariants_consumer.go.  *)
(***************************************************************************)
P2Of(n) ==
    n \in streams => next[n] # Absent /\ next[n] > MaxOr0(msgs[n]) /\ (hwm[n] > 0 => next[n] > hwm[n])
P5Of(n) == n \in streams /\ stats[n] # Absent => stats[n] = Cardinality(msgs[n])
C1 == \A c \in cons, q \in DOMAIN rows : q < c.cursor
C2 == \A q \in DOMAIN rows : q \in msgs[S]
C4 == \A c \in cons : c.cursor >= 1 /\ c.cursor <= next[S]
(***************************************************************************)
(* Run, and what the command answers.                                      *)
(***************************************************************************)
Registry ==
    [V6 |-> V6, I2 |-> I2, I4 |-> I4, I5 |-> I5, I6 |-> I6, I7 |-> I7, S2 |-> S2, S3 |-> S3,
     I8 |-> I8, PDLQ1 |-> PDLQ1, PDLQ4 |-> PDLQ4, I10 |-> I10, V7 |-> V7]
Deep == {"I8", "PDLQ1", "PDLQ4", "I10", "V7"}
Reported(deep) == {k \in DOMAIN Registry : ~Registry[k] /\ (k \in Deep => deep)}
exitOK == 0
exitError == 1
runVerify(deep) == IF Reported(deep) = {} THEN exitOK ELSE exitError

(***************************************************************************)
(* Properties.                                                             *)
(***************************************************************************)
\* Whatever commands ran and wherever a delete stands with its reap, these
\* checks stay silent: the counters, the dead-letter outcomes, the cursor and
\* the rows agree in every state a store reaches by itself (Registry,
\* CheckPublishInvariants, CheckConsumerInvariants).  The exception is a
\* dead-letter stream that was deleted and provisioned again by a death: it is
\* seeded at 1, below the high-water mark P2 compares with, and if the reap was
\* still running V6, V7 and P5 count the old messages with the new.
HealthyIsSilent ==
    damage = "none" =>
        /\ \A n \in Names :
            /\ n = S \/ born # "overlaid" => V6Of(n) /\ V7Of(n) /\ P5Of(n)
            /\ n = S \/ born = "fresh" => P2Of(n)
        /\ I2 /\ I6 /\ I7Lease /\ PDLQ4 /\ C1 /\ C2 /\ C4

\* The same of every stream, whatever became of it.
EveryStreamIsSilent ==
    damage = "none" => \A n \in Names : V6Of(n) /\ V7Of(n) /\ P5Of(n) /\ P2Of(n)

\* The check that is about the table an out-of-band write broke; each of them
\* is silent before (HealthyIsSilent).
Watches(k) ==
    CASE k = "message" -> "I2" [] k = "counter" -> "V6" [] k \in {"stats", "copy"} -> "V7"
      [] k \in {"cursor", "rewind"} -> "I6" [] k = "row" -> "I7"

\* Every out-of-band write is reported by the check that is about the table it
\* broke, without --deep too unless that check is a deep one, and the command
\* exits 1; of rows, by the lease query of I7 (Run, runVerify).  The counts of
\* an overlaid dead-letter stream are wrong already and may come out right.
DamageIsReported ==
    damage # "none" =>
        \A deep \in BOOLEAN :
            \/ Watches(damage) \in Deep /\ ~deep
            \/ damage \in {"stats", "copy"} /\ born = "overlaid"
            \/ /\ Watches(damage) \in Reported(deep)
               /\ damage = "row" => ~I7Lease
               /\ runVerify(deep) = exitError

\* Folding the journal reproduces the tables of a store nobody damaged, so
\* verify --deep is silent about it (checkI10).
LogIsState == damage = "none" => I10
=============================================================================
