------------------------------ MODULE Queries -------------------------------
(***************************************************************************)
(* What is read without the writer: pages of the event journal, of a       *)
(* stream's messages and of a consumer's pending deliveries                *)
(* (internal/store/events.go, peek.go, pending.go, info.go and the         *)
(* handlers of internal/api/peek.go and pending.go), while the writer      *)
(* appends events, trims the journal (events_trim.go), publishes, deletes, *)
(* delivers, settles and reschedules.                                      *)
(*                                                                         *)
(* A client walks a table page by page, resuming where the last page told  *)
(* it to.  `no` numbers the rows of the journal as they are written: the   *)
(* id column alone does not tell two rows apart, because it is a plain     *)
(* INTEGER PRIMARY KEY and an id may come back.                            *)
(***************************************************************************)
EXTENDS Integers, FiniteSets, FiniteSetsExt

CONSTANTS
    Clients,        \* walkers, one walk each
    MaxAge,         \* --event-retention; 0 = no age bound
    MaxRows,        \* --event-max-rows; 0 = no row ceiling
    TrimBatch,      \* rows one trim command may delete
    Limit,          \* rows of a page asked for
    MaxLimit,       \* --peek-max-limit, --pending-max-limit, Options.EventQueryMaxLimit
    ScanLimit,      \* --peek-scan-limit, Options.EventScanBudget
    Tables,         \* the tables walked: subset of {"events", "messages", "pending"}
    MaxNo,          \* bound on the rows written to each table
    MaxNow          \* bound on the clock

ConstantsAssumption ==
    /\ {MaxAge, MaxRows, Limit} \subseteq Nat
    /\ {TrimBatch, MaxLimit, ScanLimit, MaxNo, MaxNow} \subseteq Nat \ {0}
    /\ Tables \subseteq {"events", "messages", "pending"}

VARIABLES
    now,        \* the writer's clock
    events,     \* the journal: rows [id, no, ts, hit], hit = the filter matches
    messages,   \* the stream: rows [id, no, hit], id = seq
    pending,    \* deliveries of one consumer: rows [id, no, at], id = seq, at = visible_at
    count,      \* table -> rows written so far
    walk        \* client -> its walk

vars == <<now, events, messages, pending, count, walk>>

\* A walk: the table, the cursor, the rows got so far (their `no`) and
\* whether the last page ended it.
Walks == [table : Tables, cursor : 0 .. MaxNo, got : SUBSET (1 .. MaxNo), done : BOOLEAN]

\* One type invariant for the module.
TypeOK ==
    /\ now \in 0 .. MaxNow
    /\ events \subseteq [id : 1 .. MaxNo, no : 1 .. MaxNo, ts : 0 .. MaxNow, hit : BOOLEAN]
    /\ messages \subseteq [id : 1 .. MaxNo, no : 1 .. MaxNo, hit : BOOLEAN]
    /\ pending \subseteq [id : 1 .. MaxNo, no : 1 .. MaxNo, at : 0 .. MaxNow]
    /\ count \in [Tables -> 0 .. MaxNo]
    /\ walk \in [Clients -> Walks]

Init ==
    /\ now = 0
    /\ events = {} /\ messages = {} /\ pending = {}
    /\ count = [t \in Tables |-> 0]
    /\ walk \in [Clients -> {[table |-> t, cursor |-> 0, got |-> {}, done |-> FALSE] : t \in Tables}]

Ids(rows) == {r.id : r \in rows}
\* The tables do not depend on each other: only those somebody walks are written.
Walked(t) == \E c \in Clients : walk[c].table = t

\* ORDER BY id ASC LIMIT n.
Before(rows, r) == {q \in rows : q.id < r.id}
LowestIds(rows, n) == {r \in rows : Cardinality(Before(rows, r)) < n}

-----------------------------------------------------------------------------
(* The writer's side *)

\* insertEvent: the id is one more than the largest in the table.
InsertEvent(hit) ==
    /\ Walked("events") /\ count["events"] < MaxNo
    /\ count' = [count EXCEPT !["events"] = @ + 1]
    /\ events' = events \cup {[id |-> Max(Ids(events) \cup {0}) + 1, no |-> count'["events"],
                               ts |-> now, hit |-> hit]}
    /\ UNCHANGED <<now, messages, pending, walk>>

Aged(rows) == IF MaxAge > 0 THEN {r \in rows : r.ts < now - MaxAge} ELSE {}

\* One round of TrimEventsCmd.Apply.  A second round deletes nothing: each
\* pass ends with the budget spent or with nothing left for it to delete.
Trimmed ==
    LET old == LowestIds(Aged(events), TrimBatch)
        rest == events \ old
        budget == TrimBatch - Cardinality(old)
        excess == IF MaxRows > 0 THEN Cardinality(rest) - MaxRows ELSE 0
    IN  rest \ LowestIds(rest, IF excess < budget THEN excess ELSE budget)

\* trimStillOwed: the janitor's job goes on while it is true.
TrimStillOwed(rows) ==
    \/ MaxRows > 0 /\ Cardinality(rows) > MaxRows
    \/ MaxAge > 0 /\ Aged(rows) # {}

TrimEvents ==
    /\ Trimmed # events
    /\ events' = Trimmed
    /\ UNCHANGED <<now, messages, pending, count, walk>>

\* The rest of the writer as far as a reader can tell: a publish, a message
\* deleted by retention or purge, a delivery made, settled, or rescheduled by a
\* claim, an extension, a nak or the sweep of its lease.
Publish(hit) ==
    /\ Walked("messages") /\ count["messages"] < MaxNo
    /\ count' = [count EXCEPT !["messages"] = @ + 1]
    /\ messages' = messages \cup {[id |-> count'["messages"], no |-> count'["messages"], hit |-> hit]}
    /\ UNCHANGED <<now, events, pending, walk>>

Retire(r) ==
    /\ messages' = messages \ {r}
    /\ UNCHANGED <<now, events, pending, count, walk>>

Deliver(at) ==
    /\ Walked("pending") /\ count["pending"] < MaxNo
    /\ count' = [count EXCEPT !["pending"] = @ + 1]
    /\ pending' = pending \cup {[id |-> count'["pending"], no |-> count'["pending"], at |-> at]}
    /\ UNCHANGED <<now, events, messages, walk>>

Settle(r) ==
    /\ pending' = pending \ {r}
    /\ UNCHANGED <<now, events, messages, count, walk>>

Reschedule(r, at) ==
    /\ pending' = (pending \ {r}) \cup {[r EXCEPT !.at = at]}
    /\ UNCHANGED <<now, events, messages, count, walk>>

Tick ==
    /\ now < MaxNow
    /\ now' = now + 1
    /\ UNCHANGED <<events, messages, pending, count, walk>>

-----------------------------------------------------------------------------
(* Pages *)

\* EventFilter.matches, Set.Match: what the filter lets through.
Hits(rows) == {r \in rows : r.hit}

\* A scan reads up to the row that fills the page and at most ScanLimit rows.
Read(rows, limit) ==
    {r \in LowestIds(rows, ScanLimit) :
       Cardinality(Hits(Before(rows, r))) < limit}

Page(rows, limit) ==
    LET read == Read(rows, limit)
        found == Hits(read)
    IN  [found  |-> found,
         filled |-> Cardinality(found) = limit,
         bound  |-> Cardinality(found) < limit /\ read # rows,
         last   |-> Max(Ids(read) \cup {0})]

Clamp(limit) == IF limit = 0 \/ limit > MaxLimit THEN MaxLimit ELSE limit

\* Store.Events: the cursor is exclusive; a filled page and a spent budget
\* both hand back the last row examined.
EventsPage(cursor) ==
    LET page == Page({r \in events : r.id > cursor}, Clamp(Limit))
    IN  [found |-> page.found, full |-> page.filled,
         complete |-> ~(page.filled \/ page.bound), next |-> page.last]

\* Mutant: A page cut short by the scan budget calls itself complete.
ListMessagesBudgetEnds(cursor) ==
    LET page == Page({r \in messages : r.id > cursor}, Clamp(Limit))
    IN  [found |-> page.found, full |-> page.filled, complete |-> TRUE, next |-> 0]

\* Store.ListMessages: only a page that the scan budget cut short is not
\* complete and has a resume point; a filled page is complete, whatever
\* follows it.
ListMessages(cursor) ==
    LET page == Page({r \in messages : r.id > cursor}, Clamp(Limit))
    IN  [found |-> page.found, full |-> page.filled, complete |-> ~page.bound,
         next |-> IF page.bound THEN page.last ELSE 0]

\* Store.PendingList behind handlePendingList: the rows in order of their
\* deadline, the cursor a sequence number.  A limit of 0 is no limit at all.
Sooner(a, b) == a.at < b.at \/ (a.at = b.at /\ a.id < b.id)
PendingList(cursor) ==
    LET rows == {r \in pending : r.id > cursor}
        limit == IF Limit < MaxLimit THEN Limit ELSE MaxLimit
        found == {r \in rows : limit = 0 \/ Cardinality({q \in rows : Sooner(q, r)}) < limit}
        full == limit # 0 /\ Cardinality(found) = limit
    IN  [found |-> found, full |-> full, complete |-> ~full,
         next |-> IF full THEN (CHOOSE r \in found : \A q \in found : q = r \/ Sooner(q, r)).id
                  ELSE 0]

PageOf(t, cursor) ==
    CASE t = "events"   -> EventsPage(cursor)
      [] t = "messages" -> ListMessages(cursor)
      [] t = "pending"  -> PendingList(cursor)

RowsOf(t) == CASE t = "events" -> events [] t = "messages" -> messages [] t = "pending" -> pending

\* A client that has read all of the journal or of a stream asks again for what
\* came after, the handoff of a follower.
MayAsk(c) == walk[c].done => walk[c].table # "pending"

\* Where the next page starts: at the resume point, or behind the last row
\* shown by a page that gives none.
Resume(page, cursor) == IF page.next # 0 THEN page.next ELSE Max(Ids(page.found) \cup {cursor})

\* One request: a page, and the cursor of the next one.  A walk ends with a
\* page that is complete and not full.
ReadPage(c) ==
    /\ MayAsk(c)
    /\ LET page == PageOf(walk[c].table, walk[c].cursor)
       IN  walk' = [walk EXCEPT ![c].got = @ \cup {r.no : r \in page.found},
                                ![c].cursor = Resume(page, @),
                                ![c].done = page.complete /\ ~page.full]
    /\ walk' # walk
    /\ UNCHANGED <<now, events, messages, pending, count>>

Next ==
    \/ \E hit \in BOOLEAN : InsertEvent(hit) \/ Publish(hit)
    \/ TrimEvents
    \/ \E r \in messages : Retire(r)
    \/ \E at \in 0 .. MaxNow : Deliver(at)
    \/ \E r \in pending : Settle(r) \/ \E at \in 0 .. MaxNow : Reschedule(r, at)
    \/ \E c \in Clients : ReadPage(c)
    \/ Tick

Spec == Init /\ [][Next]_vars

-----------------------------------------------------------------------------
(* Properties *)

\* The newest row of the journal is the last that was written.  A trim by age
\* that empties the journal ends that for good: the ids start again at 1, behind
\* the cursors handed out before.
Numbered == "events" \in Tables /\ count["events"] # 0 => \E r \in events : r.id = count["events"]
ById(t) == t = "messages" \/ (t = "events" /\ Numbered)

\* What a cursor says is behind it has been shown (events.go, EventFilter.AfterID:
\* "the resume point handed back"; peek.go, Page.ScannedToSeq): no row at or before
\* a client's cursor was passed over, and the next page shows none again, whatever
\* was written, trimmed or deleted between pages, unless the journal was emptied.
NothingBehindCursor ==
    \A c \in Clients :
        LET w == walk[c] IN
        ById(w.table) =>
            /\ \A r \in Hits(RowsOf(w.table)) : r.id <= w.cursor => r.no \in w.got
            /\ MayAsk(c) => \A r \in PageOf(w.table, w.cursor).found : r.no \notin w.got

\* A page that is complete and not full ends a walk that has shown every row that
\* was there when the page was read, unless the journal was emptied (events.go,
\* EventPage: "Complete is false only when the page stopped before exhausting the
\* filter range"; peek.go: "page filled, or the whole source fit inside the bound").
PageStep ==
    \A c \in Clients :
        walk'[c] # walk[c] /\ walk'[c].done /\ ById(walk[c].table) =>
            \A r \in Hits(RowsOf(walk[c].table)) : r.no \in walk'[c].got

\* Of the deliveries behind its cursor a page leaves out only those due after all
\* it shows, and the last page none (pending.go: "Ordered by visible_at ascending so
\* the first row is the next thing to go wrong").
DueStep ==
    \A c \in Clients :
        walk'[c] # walk[c] /\ walk[c].table = "pending" =>
            \A r \in pending : r.id > walk[c].cursor =>
                \/ r.no \in walk'[c].got
                \/ ~walk'[c].done /\ \A q \in PendingList(walk[c].cursor).found : Sooner(q, r)

\* The same of every walk, those of the deliveries and of a journal that was
\* emptied included.
NothingPassedOver ==
    \A c \in Clients : \A r \in RowsOf(walk[c].table) :
        (walk[c].table = "pending" \/ r.hit) /\ r.id <= walk[c].cursor => r.no \in walk[c].got

\* events_trim.go, jobs.go, EventsJob: "keeps the journal inside its two bounds".  A
\* trim stops with rows still owed only because its batch is spent, so a job that
\* goes on while rows are owed makes progress each time; and only one that empties
\* the journal makes ids come back.
TrimStep ==
    LET gone == events \ events'
    IN  /\ gone # {} /\ TrimStillOwed(events') => Cardinality(gone) = TrimBatch
        /\ Numbered /\ ~Numbered' => events' = {}
=============================================================================
