------------------------------ MODULE Streams -------------------------------
(***************************************************************************)
(* The life of a stream: create, update, publish, dead-letter creation,    *)
(* delete, and the reap that removes a deleted stream's messages in        *)
(* chunks (internal/store/streams.go, commands.go, update.go, delete.go,   *)
(* publish.go, batch.go, dedup.go, dead.go).                               *)
(*                                                                         *)
(* Every command is one transaction of the single writer, so one step.     *)
(* DeleteStream is not: its caller submits the delete and then chunk after *)
(* chunk, and may be cut off between any two; the janitor's reaper and the *)
(* startup recovery work on the same markers.                              *)
(***************************************************************************)
EXTENDS Integers, FiniteSets, Sequences

CONSTANTS
    Names,       \* stream names, ordered by Before
    Before,      \* the order the reaper takes the markers in
    Fold,        \* name -> its case-folded form
    DlqOf,       \* origin -> its dead-letter stream
    Configs,     \* [retention, maxMsgs, maxAge, window]
    Entries,     \* publish requests: a message id, or NoId
    Invalid,     \* entries that ValidatePublish refuses
    NoId,
    None,
    Callers,     \* DeleteStream calls
    Deletable,   \* the names they delete
    Chunk,       \* deleteChunkRows
    SweepBound,  \* sweepBound
    MaxBatch,    \* MaxBatchMsgs
    MaxSeq, MaxNow, MaxDeletes, MaxCrashes,  \* bounds
    Faults       \* "cut": callers give up; "loss": updates with allow_data_loss

ASSUME ConstantsAssumption ==
    /\ Fold \in [Names -> Names] /\ DOMAIN DlqOf \subseteq Names
    /\ \A n \in DOMAIN DlqOf : DlqOf[n] \in Names
    /\ Before \subseteq Names \X Names /\ Deletable \subseteq Names
    /\ \A c \in Configs : c.retention \in {"limits", "workqueue"}
                          /\ {c.maxMsgs, c.maxAge, c.window} \subseteq Nat
    /\ None \notin Configs /\ None \notin Names
    /\ Invalid \subseteq Entries /\ NoId \in Entries
    /\ {Chunk, SweepBound, MaxBatch} \subseteq Nat \ {0}
    /\ {MaxSeq, MaxNow, MaxDeletes, MaxCrashes} \subseteq Nat
    /\ Faults \subseteq {"cut", "loss"}

VARIABLES
    phase,     \* "up", "recovering" in Open, or "latched" after a fatal batch
    row,       \* name -> the streams row, or None
    next,      \* name -> stream_seq.next, 0 without a row
    count,     \* name -> stream_stats.msgs, 0 without a row
    hwm,       \* name -> meta seq_hwm.<name>, 0 when there is none
    marked,    \* names with a meta reap.<name> marker
    msgs,      \* name -> its rows in messages: [seq, id, key, at]
    call,      \* caller -> the name whose chunks it still submits, or None
    now,
    issued,    \* history: name -> the highest sequence number ever allocated
    narrowest, \* history: name -> the smallest dedup window since its creation
    deletes, crashes

meta == <<hwm, marked>>
table == <<row, next, count, msgs>>
history == <<issued, narrowest>>
bounds == <<deletes, crashes>>
vars == <<phase, row, next, count, hwm, marked, msgs, call, now, issued, narrowest,
          deletes, crashes>>

Messages == [seq : 1 .. MaxSeq, id : Entries, key : Entries, at : 0 .. MaxNow]

Init ==
    /\ phase = "up"
    /\ row = [n \in Names |-> None]
    /\ next = [n \in Names |-> 0] /\ count = [n \in Names |-> 0]
    /\ hwm = [n \in Names |-> 0] /\ marked = {}
    /\ msgs = [n \in Names |-> {}]
    /\ call = [c \in Callers |-> None] /\ now = 0
    /\ issued = [n \in Names |-> 0] /\ narrowest = [n \in Names |-> 0]
    /\ deletes = 0 /\ crashes = 0

Least(a, b) == IF a <= b THEN a ELSE b
Live(n) == row[n] # None

-----------------------------------------------------------------------------
(* Create and update.                                                        *)

RefuseDuringReapNever(n) == FALSE

\* A name whose reap marker is still there cannot be created.
RefuseDuringReap(n) == n \in marked

ResumeSeqAtMark(n) == IF hwm[n] = 0 THEN 1 ELSE hwm[n]

\* Above the high-water mark of the deleted stream of that name, or 1.
ResumeSeq(n) == hwm[n] + 1

\* Of the rows that differ at most in case there is one: the same name with the
\* same configuration answers that it exists, anything else is a conflict.
CreateStream(n, cfg) ==
    /\ phase = "up" /\ ~RefuseDuringReap(n)
    /\ \A other \in Names : Fold[other] = Fold[n] => ~Live(other)
    /\ row' = [row EXCEPT ![n] = cfg]
    /\ next' = [next EXCEPT ![n] = ResumeSeq(n)]
    /\ count' = [count EXCEPT ![n] = 0]
    /\ narrowest' = [narrowest EXCEPT ![n] = cfg.window]
    /\ UNCHANGED <<phase, meta, msgs, call, now, issued, bounds>>

\* measureUsage: the rows the next janitor pass would delete under `cfg`.
AtRisk(n, cfg) ==
    {m \in msgs[n] :
        \/ cfg.maxAge > 0 /\ m.at < now - cfg.maxAge
        \/ cfg.maxMsgs > 0 /\ Cardinality({o \in msgs[n] : o.seq >= m.seq}) > cfg.maxMsgs}

\* ValidateUpdate without allow_data_loss.  Every message has one size here, so
\* max_bytes is max_msgs over again.
LosesData(n, old, cfg) ==
    \/ cfg.maxMsgs # 0 /\ count[n] > cfg.maxMsgs /\ (old.maxMsgs = 0 \/ old.maxMsgs > cfg.maxMsgs)
    \/ cfg.maxAge # 0 /\ AtRisk(n, cfg) # {} /\ (old.maxAge = 0 \/ old.maxAge > cfg.maxAge)
    \/ old.retention = "limits" /\ cfg.retention = "workqueue"

\* applyPatch leaves what the patch does not name: any configuration may come
\* of it, the old one when the patch is empty.
UpdateStream(n, cfg) ==
    /\ phase = "up" /\ Live(n) /\ cfg # row[n]
    /\ LosesData(n, row[n], cfg) => "loss" \in Faults
    /\ row' = [row EXCEPT ![n] = cfg]
    /\ narrowest' = [narrowest EXCEPT ![n] = Least(@, cfg.window)]
    /\ UNCHANGED <<phase, next, count, msgs, meta, call, now, issued, bounds>>

-----------------------------------------------------------------------------
(* Publish, with deduplication by message id.                                *)

LoadStreamConfig(n) == row[n]

FindDedupHit(st, id) == {m \in st.msgs : m.key = id}

\* published_at never goes back within a stream, whatever the clock says.
ClampPublishedAt(st) ==
    IF \E m \in st.msgs : m.at > now
    THEN (CHOOSE m \in st.msgs : \A o \in st.msgs : o.at <= m.at).at
    ELSE now

AllocSeq(st) == st.next

Inserted(st, id, key) ==
    [st EXCEPT !.next = @ + 1, !.count = @ + 1,
               !.msgs = @ \cup {[seq |-> AllocSeq(st), id |-> id, key |-> key,
                                 at |-> ClampPublishedAt(st)]}]

\* An id that is still a key is answered with the original; a stream without a
\* window keeps no keys.
PublishTx(st, id, window) ==
    IF id # NoId /\ window > 0
    THEN IF FindDedupHit(st, id) # {} THEN st ELSE Inserted(st, id, id)
    ELSE Inserted(st, id, NoId)

TableOf(n) == [next |-> next[n], count |-> count[n], msgs |-> msgs[n]]

\* The entries one after the other, all on one configuration.
PublishAll(before, batch, window) ==
    LET st[i \in 0 .. Len(batch)] ==
            IF i = 0 THEN before ELSE PublishTx(st[i - 1], batch[i], window)
    IN  st[Len(batch)]

\* PublishBatch: an entry that is refused takes the batch with it.  A single
\* publish is a batch of one.
PublishBatch(n, batch) ==
    LET after == PublishAll(TableOf(n), batch, LoadStreamConfig(n).window)
    IN  /\ phase = "up" /\ Live(n)
        /\ \A i \in 1 .. Len(batch) : batch[i] \notin Invalid
        /\ after.next <= MaxSeq + 1
        /\ next' = [next EXCEPT ![n] = after.next]
        /\ count' = [count EXCEPT ![n] = after.count]
        /\ msgs' = [msgs EXCEPT ![n] = after.msgs]
        /\ issued' = [issued EXCEPT ![n] = IF after.next - 1 > @ THEN after.next - 1 ELSE @]
        /\ UNCHANGED <<phase, row, meta, call, now, narrowest, bounds>>

\* Keys of messages older than the window are cleared, oldest first.
SweepDedupAll(n) ==
    /\ phase = "up" /\ Live(n) /\ \E m \in msgs[n] : m.key # NoId
    /\ msgs' = [msgs EXCEPT ![n] = {[m EXCEPT !.key = NoId] : m \in @}]
    /\ UNCHANGED <<phase, row, next, count, meta, call, now, history, bounds>>

SweepDedup(n) ==
    LET old == {m \in msgs[n] : m.at < now - row[n].window /\ m.key # NoId}
    IN  /\ phase = "up" /\ Live(n) /\ old # {}
        /\ \E swept \in SUBSET old :
             /\ Cardinality(swept) = Least(SweepBound, Cardinality(old))
             /\ \A m \in swept, o \in old \ swept : m.at <= o.at
             /\ msgs' = [msgs EXCEPT ![n] = (@ \ swept) \cup {[m EXCEPT !.key = NoId] : m \in swept}]
        /\ UNCHANGED <<phase, row, next, count, meta, call, now, history, bounds>>

-----------------------------------------------------------------------------
(* The copy of a dead message: DLQSink.Dead.                                 *)

\* ensureDLQStream asks for neither the reap marker nor the high-water mark.
EnsureDLQStream(d, cfg) ==
    [row |-> IF Live(d) THEN row[d] ELSE cfg,
     next |-> IF next[d] = 0 THEN 1 ELSE next[d],
     count |-> count[d]]

\* A copy whose sequence number is taken by a row that the reap has not removed
\* yet fails on the primary key, which dooms the batch and the writer with it.
\* The template of a dead-letter stream has no window.
DeadLetter(o, cfg) ==
    LET d == DlqOf[o]
        ensured == EnsureDLQStream(d, cfg)
        st == [next |-> ensured.next, count |-> ensured.count, msgs |-> msgs[d]]
        after == Inserted(st, NoId, NoId)
    IN  /\ phase = "up" /\ o \in DOMAIN DlqOf /\ Live(o) /\ msgs[o] # {}
        /\ cfg.window = 0 /\ cfg.retention = "limits"
        /\ ensured.next <= MaxSeq
        /\ IF \E m \in msgs[d] : m.seq = ensured.next
           THEN phase' = "latched" /\ UNCHANGED <<table, history>>
           ELSE /\ row' = [row EXCEPT ![d] = ensured.row]
                /\ next' = [next EXCEPT ![d] = after.next]
                /\ count' = [count EXCEPT ![d] = after.count]
                /\ msgs' = [msgs EXCEPT ![d] = after.msgs]
                /\ issued' = [issued EXCEPT ![d] = IF ensured.next > @ THEN ensured.next ELSE @]
                /\ narrowest' = [narrowest EXCEPT ![d] = IF Live(d) THEN @ ELSE 0]
                /\ UNCHANGED phase
        /\ UNCHANGED <<meta, call, now, bounds>>

-----------------------------------------------------------------------------
(* Delete and reap.                                                          *)

\* deleteStreamCmd: everything but the messages goes; the high-water mark and
\* the reap marker stay.
DeleteStream(c, n) ==
    /\ phase = "up" /\ call[c] = None /\ n \in Deletable /\ Live(n)
    /\ deletes < MaxDeletes
    /\ hwm' = [hwm EXCEPT ![n] = next[n] - 1]
    /\ marked' = marked \cup {n}
    /\ row' = [row EXCEPT ![n] = None]
    /\ next' = [next EXCEPT ![n] = 0] /\ count' = [count EXCEPT ![n] = 0]
    /\ call' = [call EXCEPT ![c] = n]
    /\ deletes' = deletes + 1
    /\ UNCHANGED <<phase, msgs, now, history, crashes>>

\* reapChunkCmd: up to Chunk messages of that name, whoever owns them by now;
\* a chunk that comes up short clears the marker.
ReapChunk(n) ==
    \E gone \in SUBSET msgs[n] :
        /\ Cardinality(gone) = Least(Chunk, Cardinality(msgs[n]))
        /\ msgs' = [msgs EXCEPT ![n] = @ \ gone]
        /\ marked' = IF Cardinality(gone) < Chunk THEN marked \ {n} ELSE marked

\* The loop of DeleteStream: until a chunk clears the marker, which it does
\* exactly when it comes up short.
CallerReaps(c) ==
    LET n == call[c]
    IN  /\ phase = "up" /\ n # None
        /\ ReapChunk(n)
        /\ call' = [call EXCEPT ![c] = IF Cardinality(msgs[n]) < Chunk THEN None ELSE @]
        /\ UNCHANGED <<phase, row, next, count, hwm, now, history, bounds>>

\* The request is cancelled or refused between two chunks; the marker stays.
CallerGivesUp(c) ==
    /\ "cut" \in Faults /\ phase = "up" /\ call[c] # None
    /\ call' = [call EXCEPT ![c] = None]
    /\ UNCHANGED <<phase, table, meta, now, history, bounds>>

FirstMarked(n) == n \in marked /\ \A o \in marked \ {n} : <<n, o>> \in Before

ReapResumeNever == FALSE /\ UNCHANGED vars

\* The janitor's reaper: one chunk of the first marker.
ReapResume ==
    /\ phase = "up"
    /\ \E n \in Names : FirstMarked(n) /\ ReapChunk(n)
    /\ UNCHANGED <<phase, row, next, count, hwm, call, now, history, bounds>>

-----------------------------------------------------------------------------
(* Crash, and finishInterruptedReaps before the store opens.                 *)

Crash ==
    /\ crashes < MaxCrashes \/ phase = "latched"
    /\ crashes' = IF crashes < MaxCrashes THEN crashes + 1 ELSE crashes
    /\ phase' = "recovering"
    /\ call' = [c \in Callers |-> None]
    /\ UNCHANGED <<table, meta, now, history, deletes>>

\* Each chunk is a transaction of its own: a crash may come between two.
FinishInterruptedReaps ==
    /\ phase = "recovering" /\ marked # {}
    /\ \E n \in marked : ReapChunk(n)
    /\ UNCHANGED <<phase, row, next, count, hwm, call, now, history, bounds>>

Opened ==
    /\ phase = "recovering" /\ marked = {}
    /\ phase' = "up"
    /\ UNCHANGED <<table, meta, call, now, history, bounds>>

\* batchNow never goes back while the process lives, and no model run lets the
\* clock go back across a restart.
Tick ==
    /\ now < MaxNow
    /\ now' = now + 1
    /\ UNCHANGED <<phase, table, meta, call, history, bounds>>

-----------------------------------------------------------------------------
Batches == UNION {[1 .. k -> Entries] : k \in 1 .. MaxBatch}

Recovery == FinishInterruptedReaps \/ Opened

Next ==
    \/ \E n \in Names, cfg \in Configs :
         CreateStream(n, cfg) \/ UpdateStream(n, cfg) \/ DeadLetter(n, cfg)
    \/ \E n \in Names : SweepDedup(n) \/ \E batch \in Batches : PublishBatch(n, batch)
    \/ \E c \in Callers : CallerReaps(c) \/ CallerGivesUp(c)
                          \/ \E n \in Names : DeleteStream(c, n)
    \/ ReapResume \/ Crash \/ Recovery \/ Tick

\* The janitor's ticker runs and a daemon that died is started again; nothing
\* makes a caller go on.
Spec == Init /\ [][Next]_vars /\ WF_vars(ReapResume) /\ WF_vars(Recovery)
             /\ WF_vars(Crash /\ phase = "latched")

-----------------------------------------------------------------------------
\* No sequence number is handed out twice, across deletion and re-creation too:
\* the stream and the sequence number identify a message for ever.
SeqNeverReused == \A n \in Names : Live(n) => next[n] > issued[n]

\* A stream starts empty: whoever was reaping the deleted stream of that name,
\* and wherever a crash cut it, a create never finds its messages.
StartsEmpty ==
    [][\A n \in Names : (row[n] = None /\ row'[n] # None) => msgs[n] = {}]_vars

\* A retry with the same message id, after an answer that never came, is not
\* stored again while the original is in the stream and the window is open.
RetryStoresOnce ==
    \A n \in Names : Live(n) /\ narrowest[n] > 0 =>
        \A m, o \in msgs[n] :
            (m.id = o.id /\ m.id # NoId /\ m.seq < o.seq) => o.at - m.at > narrowest[n]

\* Every deletion that was begun comes to its end, whether its caller stays,
\* gives up, or the process dies between two chunks.
ReapFinishes == \A n \in Names : n \in marked ~> n \notin marked

\* Stated by internal/store/delete.go: between the phases of a deletion no
\* writer can repopulate the name.  No chunk takes a message of a live stream.
LiveMessagesStay ==
    [][\A n \in Names : (Live(n) /\ row'[n] # None) =>
          {m.seq : m \in msgs[n]} \subseteq {m.seq : m \in msgs'[n]}]_vars
=============================================================================
