------------------------------- MODULE MCRequests -------------------------------
(***************************************************************************)
(* What requests meet on their way, Gateway, Rules, Retention and Queries, *)
(* on small instances for TLC.  They share no state: a behaviour belongs   *)
(* to one of them, and leaves the variables of the others alone.           *)
(***************************************************************************)
EXTENDS MCGateway, Integers, Sequences

CONSTANTS
    Literals, MaxTokens, PatternSets,       \* subjects and patterns
    StreamNames, ConsumerConfigs,           \* what callers try to create
    AckWaitCap, DeliverCap, LadderCap, NakDelays, MaxNakDelay, AttemptBound,
    Holders, Sizes, StreamConfigs, Batches, MaxBlame, SeqBound, NowBound,     \* retention
    Readers, JournalAge, JournalRows, TrimBatch, PageLimit, MaxPage, ScanLimit, ReadTables,
    RowBound, ClockBound                    \* paged reads

VARIABLES
    part,                               \* the part this behaviour is about
    x1, x2, x3, x4, x5, x6, x7, x8      \* the state of the others

others == <<x1, x2, x3, x4, x5, x6, x7, x8>>

Unused == "unused"

-----------------------------------------------------------------------------
(* Subjects, names and the backoff ladder. *)
SomePatterns ==
    {{<<">">>}, {<<"a", ">">>, <<"b">>}, {<<"*", "b">>}, {<<"a", "*", ">">>}, {<<"a">>},
     {<<">", "a">>}, {}}
SomeNames == [len : {1, 60, 61}, dlqs : {0}] \cup {[len |-> 8, dlqs |-> 1]}
SomeConfigs ==
    [filters : SomePatterns, ackWait : {2}, maxDeliver : {0, 3}, backoff : {<<5, 10>>, <<10>>},
     policy : {"", "dlq"}]
    \cup [filters : {{<<">">>}}, ackWait : {2}, maxDeliver : {1, 3},
          backoff : {<<5, 20, 10>>, <<>>}, policy : {"drop"}]
R == INSTANCE Rules WITH
    Names <- StreamNames, Configs <- ConsumerConfigs, stream <- x1, cons <- x2, msg <- x3

ASSUME RulesAssumption == R!ConstantsAssumption

(* Retention under a count, a byte and an age limit and in a work queue. *)
Limits(mode, n, b, a) == [mode |-> mode, maxMsgs |-> n, maxBytes |-> b, maxAge |-> a]
SomeLimits == {Limits("limits", 1, 0, 0), Limits("limits", 0, 4, 1), Limits("workqueue", 2, 0, 0)}
E == INSTANCE Retention WITH
    Consumers <- Holders, Configs <- StreamConfigs, MaxSeq <- SeqBound, MaxNow <- NowBound,
    msgs <- x1, next <- x2, cursor <- x3, pins <- x4, cfg <- x5, stats <- x6, now <- x7,
    answer <- x8

ASSUME RetentionAssumption == E!ConstantsAssumption

(* Paged reads of the journal, the messages and the pending deliveries. *)
Q == INSTANCE Queries WITH
    Clients <- Readers, MaxAge <- JournalAge, MaxRows <- JournalRows, Limit <- PageLimit,
    MaxLimit <- MaxPage, Tables <- ReadTables, MaxNo <- RowBound, MaxNow <- ClockBound,
    now <- x1, events <- x2, messages <- x3, pending <- x4, count <- x5, walk <- x6

ASSUME QueriesAssumption == Q!ConstantsAssumption

-----------------------------------------------------------------------------
\* The gateway before its first call, one state of it.
NoCalls ==
    /\ Init
    /\ kind = [c \in Calls |-> CHOOSE k \in Kinds[c] : TRUE]
    /\ ~st.stream /\ ~st.dev

From4 == x4 = Unused /\ x5 = Unused /\ x6 = Unused /\ x7 = Unused /\ x8 = Unused

RequestsInit ==
    \/ part = "gateway" /\ Init /\ x1 = Unused /\ x2 = Unused /\ x3 = Unused /\ From4
    \/ part = "rules" /\ NoCalls /\ R!Init /\ From4
    \/ part = "retention" /\ NoCalls /\ E!Init
    \/ part = "pages" /\ NoCalls /\ Q!Init /\ x7 = Unused /\ x8 = Unused

RequestsNext ==
    /\ UNCHANGED part
    /\ \/ part = "gateway" /\ Next /\ UNCHANGED others
       \/ part = "rules" /\ R!Next /\ UNCHANGED <<x4, x5, x6, x7, x8, vars>>
       \/ part = "retention" /\ E!Next /\ UNCHANGED vars
       \/ part = "pages" /\ Q!Next /\ UNCHANGED <<x7, x8, vars>>

RequestsSpec == RequestsInit /\ [][RequestsNext]_<<part, others, vars>>

-----------------------------------------------------------------------------
\* A message is in a stream and before a consumer exactly when its subject is
\* in the languages of their patterns (subject.go: Pattern.Match).
RoutedBySubject == part = "rules" => R!RoutedBySubject

\* Whatever dies, dies within max_deliver attempts and TimeToDead plus the
\* jitter, under a legal name, and not into a dead-letter stream's own
\* dead-letter stream (consumer.go, backoff.go, name.go).
DeathsEnd == part = "rules" => R!DeadLettersEnd /\ R!DeadInTime

\* A retention sweep deletes the oldest unpinned messages the limits ask for,
\* no others and no fewer, books exactly them, and blames a real holder
\* (Retention.SweepStep; retention.go).
SweepIsJustified ==
    [][part = "retention" => E!SweepStep]_<<part, others, vars>>

\* A page of the journal or of messages shows every row between the old cursor
\* and the new one, and one that is complete and not full ends the table; a page
\* of deliveries shows those due first; a trim of the journal between two pages
\* stops short only because its batch is spent (Queries: NothingBehindCursor,
\* PageStep, DueStep, TrimStep; events.go, peek.go, pending.go, events_trim.go).
PagesAreWhole ==
    [][part = "pages" => /\ Q!TypeOK' /\ Q!NothingBehindCursor'
                         /\ Q!PageStep /\ Q!DueStep /\ Q!TrimStep]_<<part, others, vars>>
=============================================================================
