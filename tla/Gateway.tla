------------------------------- MODULE Gateway -------------------------------
(***************************************************************************)
(* A call of the Go client library through the HTTP API to the engine and  *)
(* back: the middleware chain, the handler's reads and refusals, the       *)
(* submit, the error envelope, the client's classification and its one     *)
(* retry.  Handlers of several calls interleave between their read of the  *)
(* store and their submit; connections break and time out while the daemon *)
(* keeps working.  The engine is abstracted to what one command does to    *)
(* one stream with one consumer (modules Delivery, Streams and Writer have *)
(* the detail).                                                            *)
(***************************************************************************)
EXTENDS Naturals, FiniteSets

CONSTANTS
    Calls,     \* client calls
    Kinds,     \* Kinds[c]: what call c may ask for, records as in Kind
    MaxConns   \* --max-conns

Routes == {"publish_message", "publish_batch", "ack", "nak", "term", "extend",
           "create_stream", "update_stream", "delete_stream", "purge_stream",
           "create_consumer", "update_consumer", "delete_consumer",
           "pause_consumer", "resume_consumer", "seek_consumer"}
Filters == {"f1", "f2"}
None == "none"

\* What the caller gives: a message id, a reason, the filters, whether a stream
\* has a dedup window, and the consent a route asks for (?confirm=,
\* ?allow_filter_change=1).
Kind == [route : Routes, id : BOOLEAN, reason : BOOLEAN, filters : Filters \cup {None},
         window : BOOLEAN, consent : BOOLEAN]

ASSUME ConstantsAssumption ==
    /\ IsFiniteSet(Calls) /\ Kinds \in [Calls -> SUBSET Kind]
    /\ MaxConns \in Nat \ {0}

VARIABLES
    kind,    \* kind[c]: what call c asks for
    client,  \* client[c]: the call as its caller sees it
    req,     \* req[c][a]: the request of attempt a at the daemon
    slots,   \* the connection limiter's semaphore
    st,      \* the store: one stream, whether it has a dedup window, its consumer's
             \* filters, the row under the tokens, the message ids (dedup_key), the
             \* calls whose id it did not keep (history), the latch; and --dev
    stored,  \* stored[c]: messages that c's requests stored (history)
    posted   \* a POST replaced the configuration of a taken name (history)

vars == <<kind, client, req, slots, st, stored, posted>>

Attempts == 1..2
Unsent == [at |-> "unsent", code |-> ""]

\* A store in one of these shapes, before any call.
Fresh(shapes) ==
    {[stream |-> x.stream, window |-> x.window, consumer |-> x.consumer, row |-> x.row,
      paused |-> FALSE, ids |-> {}, lost |-> {}, latched |-> FALSE, dev |-> x.dev] : x \in shapes}

Init ==
    /\ kind \in {f \in [Calls -> UNION {Kinds[c] : c \in Calls}] : \A c \in Calls : f[c] \in Kinds[c]}
    /\ client = [c \in Calls |-> [attempt |-> 1, waiting |-> FALSE, outcome |-> ""]]
    /\ req = [c \in Calls |-> [a \in Attempts |-> Unsent]]
    /\ slots = 0
    /\ \/ st \in Fresh([stream : {FALSE}, consumer : {None}, row : {FALSE}, window : {TRUE}, dev : BOOLEAN])
       \/ st \in Fresh([stream : {TRUE}, consumer : {None}, row : {FALSE}, window : BOOLEAN, dev : {FALSE}])
       \/ st \in Fresh([stream : {TRUE}, consumer : {"f1"}, row : BOOLEAN, window : {TRUE}, dev : {FALSE}])
    /\ stored = [c \in Calls |-> 0]
    /\ posted = FALSE

Move(c, a, at, code) == req' = [req EXCEPT ![c][a] = [at |-> at, code |-> code]]

-----------------------------------------------------------------------------
(* The client library. *)

\* send: the request goes out.
send(c) ==
    /\ ~client[c].waiting /\ client[c].outcome = ""
    /\ client' = [client EXCEPT ![c].waiting = TRUE]
    /\ Move(c, client[c].attempt, "wire", "")
    /\ UNCHANGED <<kind, slots, st, stored, posted>>

\* The codes that say nothing about whether the commit happened.
Classify(code) ==
    CASE code = "timeout" -> "timeout"
      [] code \in {"unavailable", "commit_unknown", "busy", "read_only"} -> "unavailable"
      [] code = "bad_request" -> "usage"
      [] code = "not_found" -> "not_found"
      [] code = "internal" -> "internal"
      [] OTHER -> "conflict"

\* (as a bug) the dedup key is not asked for.
RetryAnyPublish(k, code) ==
    k.route = "publish_message" /\ code \in {"commit_unknown", "unavailable"}

\* retrySafePublish: with a message id, after commit_unknown or a transport
\* that died; any other answer is a real one.
retrySafePublish(k, code) ==
    /\ k.route = "publish_message" /\ k.id
    /\ code = "commit_unknown" \/ (code = "unavailable" /\ Classify(code) = "unavailable")

\* The caller's side of an answer: Publish's one retry, or the outcome.
Answered(c, code) ==
    client' = [client EXCEPT ![c] =
        IF client[c].attempt = 1 /\ retrySafePublish(kind[c], code)
        THEN [attempt |-> 2, waiting |-> FALSE, outcome |-> ""]
        ELSE [attempt |-> client[c].attempt, waiting |-> FALSE, outcome |-> code]]

\* decodeFailure, or the decoded result.
Receive(c) ==
    /\ client[c].waiting
    /\ req[c][client[c].attempt].at = "replied"
    /\ Answered(c, req[c][client[c].attempt].code)
    /\ Move(c, client[c].attempt, "gone", "")
    /\ UNCHANGED <<kind, slots, st, stored, posted>>

\* unreachable: the connection breaks, with the request lost, under way or
\* answered; or the caller's request timeout ends first.
Break(c) ==
    /\ client[c].waiting
    /\ \E code \in {"unavailable", "timeout"} : Answered(c, code)
    /\ \/ /\ req[c][client[c].attempt].at \in {"wire", "replied"}
          /\ Move(c, client[c].attempt, "gone", "")
       \/ req[c][client[c].attempt].at # "replied" /\ UNCHANGED req
    /\ UNCHANGED <<kind, slots, st, stored, posted>>

\* Nobody waits for this request's answer any more.
Left(c, a) == ~client[c].waiting \/ client[c].attempt # a

-----------------------------------------------------------------------------
(* The middleware chain and the error envelope. *)

Reply(c, a, code) == IF Left(c, a) THEN Move(c, a, "gone", "") ELSE Move(c, a, "replied", code)

\* connLimitMW: no slot, no service; the slot is given back with the answer.
connLimitMW(c, a) ==
    /\ req[c][a].at = "wire"
    /\ IF slots < MaxConns THEN slots' = slots + 1 /\ Move(c, a, "handling", "")
                           ELSE Reply(c, a, "busy") /\ UNCHANGED slots
    /\ UNCHANGED <<kind, client, st, stored, posted>>

\* (as a bug) a refusal keeps its slot.
LeakOnRefusal(c, a, code) ==
    Reply(c, a, code) /\ slots' = IF code = "ok" THEN slots - 1 ELSE slots

Finish(c, a, code) == Reply(c, a, code) /\ slots' = slots - 1

\* recoverMW: a handler that panics answers internal and frees its slot.
recoverMW(c, a) ==
    /\ req[c][a].at = "handling"
    /\ Finish(c, a, "internal")
    /\ UNCHANGED <<kind, client, st, stored, posted>>

-----------------------------------------------------------------------------
(* The handlers up to their submit: a refusal code, "ok" for an answer     *)
(* without a command, or "submit".                                         *)

\* devAutocreateStream: --dev creates a stream that is not there.
devAutocreateStream(k) ==
    st.dev /\ ~st.stream /\ k.route \in {"publish_message", "publish_batch"}

handlePublishMessage ==
    IF st.stream THEN "submit"
    ELSE IF ~st.dev THEN "not_found"
    ELSE IF st.latched THEN "read_only" ELSE "submit"
handlePublishBatch == handlePublishMessage

\* The JSON members Nak, Term, Ack and Extend put in the body, and the ones
\* settleReq knows at its top level; decodeJSONInto refuses any other.
WireFields(k) ==
    CASE k.route = "ack" -> {"tokens"}
      [] k.route = "extend" -> {"items"}
      [] OTHER -> {"token"} \cup (IF k.reason THEN {"reason"} ELSE {})
settleReq == {"token", "delay_ms", "tokens", "items"}
handleSettle(k) == IF WireFields(k) \subseteq settleReq THEN "submit" ELSE "bad_request"

\* confirmRefusal: the stored facts are read only to word the refusal.
confirmRefusal(k, present) ==
    IF k.consent THEN "submit" ELSE IF present THEN "confirm_required" ELSE "not_found"
handleDeleteStream(k) == confirmRefusal(k, st.stream)
handleDeleteConsumer(k) == confirmRefusal(k, st.consumer # None)

\* consumerExistsRefusal: a taken name with another configuration.
consumerExistsRefusal(k) == st.consumer \notin {None, k.filters}
handleCreateConsumer(k) == IF consumerExistsRefusal(k) THEN "consumer_exists" ELSE "submit"

checkFilterChangeRefusal(k) == st.consumer # k.filters /\ ~k.consent
handleUpdateConsumer(k) ==
    IF k.filters = None THEN "submit"
    ELSE IF st.consumer = None THEN "not_found"
    ELSE IF checkFilterChangeRefusal(k) THEN "would_change_filters" ELSE "submit"

handleSetPausedRoute(k) ==
    IF st.consumer = None THEN "not_found"
    ELSE IF st.paused = (k.route = "pause_consumer") THEN "ok" ELSE "submit"

\* These check nothing of the store before their command.
handleCreateStream == "submit"
handleUpdateStream == "submit"
handlePurgeStream == "submit"
handleSeekConsumer == "submit"

Handler(k) ==
    CASE k.route = "publish_message" -> handlePublishMessage
      [] k.route = "publish_batch" -> handlePublishBatch
      [] k.route \in {"ack", "nak", "term", "extend"} -> handleSettle(k)
      [] k.route = "create_stream" -> handleCreateStream
      [] k.route = "update_stream" -> handleUpdateStream
      [] k.route = "delete_stream" -> handleDeleteStream(k)
      [] k.route = "purge_stream" -> handlePurgeStream
      [] k.route = "create_consumer" -> handleCreateConsumer(k)
      [] k.route = "update_consumer" -> handleUpdateConsumer(k)
      [] k.route = "delete_consumer" -> handleDeleteConsumer(k)
      [] k.route = "seek_consumer" -> handleSeekConsumer
      [] k.route \in {"pause_consumer", "resume_consumer"} -> handleSetPausedRoute(k)

routeHandler(c, a) ==
    /\ req[c][a].at = "handling"
    /\ LET code == Handler(kind[c]) IN
       IF code = "submit" THEN Move(c, a, "submitting", "") /\ UNCHANGED slots
                          ELSE Finish(c, a, code)
    /\ st' = IF devAutocreateStream(kind[c]) /\ ~st.latched
             THEN [st EXCEPT !.stream = TRUE, !.window = TRUE] ELSE st
    /\ UNCHANGED <<kind, client, stored, posted>>

-----------------------------------------------------------------------------
(* The engine: what one command does and answers. *)

\* The messages go, and with them their ids.
Emptied == [st EXCEPT !.row = FALSE, !.ids = {}, !.lost = @ \cup st.ids]
Gone == [Emptied EXCEPT !.stream = FALSE, !.consumer = None, !.paused = FALSE]

\* renderSettle and the single form's status: a batch answers 200.
SettleCode(k) ==
    IF st.row \/ k.route \in {"ack", "extend"} THEN "ok"
    ELSE IF st.consumer # None THEN "stale_ack" ELSE "not_found"

OfConsumer == {"update_consumer", "delete_consumer", "pause_consumer", "resume_consumer",
               "seek_consumer"}

CommandCode(k) ==
    IF k.route \in {"ack", "nak", "term", "extend"} THEN SettleCode(k)
    ELSE IF k.route = "create_stream"
         THEN IF st.stream /\ k.window # st.window THEN "stream_exists" ELSE "ok"
    ELSE IF st.stream /\ (k.route \in OfConsumer => st.consumer # None)
         THEN "ok" ELSE "not_found"

\* publishTx: without a window the id is not kept.
Published(c, k) ==
    IF ~k.id THEN st
    ELSE IF st.window THEN [st EXCEPT !.ids = @ \cup {c}] ELSE [st EXCEPT !.lost = @ \cup {c}]

Applied(c, k) ==
    CASE k.route = "publish_message" -> Published(c, k)
      [] k.route \in {"ack", "term", "seek_consumer"} -> [st EXCEPT !.row = FALSE]
      [] k.route = "create_stream" -> [st EXCEPT !.stream = TRUE, !.window = k.window]
      [] k.route = "update_stream" -> [st EXCEPT !.window = k.window]
      [] k.route = "delete_stream" -> Gone
      [] k.route = "purge_stream" -> Emptied
      [] k.route \in {"create_consumer", "update_consumer"} ->
            [st EXCEPT !.consumer = IF k.filters = None THEN @ ELSE k.filters]
      [] k.route = "delete_consumer" -> [st EXCEPT !.consumer = None, !.row = FALSE, !.paused = FALSE]
      [] k.route \in {"pause_consumer", "resume_consumer"} ->
            [st EXCEPT !.paused = (k.route = "pause_consumer")]
      [] OTHER -> st

\* findDedupHit: asked only under a window.
Known(c, k) == k.id /\ st.window /\ c \in st.ids

Effect(c) ==
    LET k == kind[c] IN
    /\ st' = IF CommandCode(k) = "ok" THEN Applied(c, k) ELSE st
    /\ stored' = IF k.route \in {"publish_message", "publish_batch"}
                    /\ CommandCode(k) = "ok" /\ ~Known(c, k)
                 THEN [stored EXCEPT ![c] = @ + 1] ELSE stored
    /\ posted' = (posted \/ ( /\ k.route = "create_consumer" /\ CommandCode(k) = "ok"
                              /\ st.consumer \notin {None, k.filters} ))

\* The writer accepts and commits; the reply is the command's.
Commit(c, a) ==
    /\ req[c][a].at = "submitting" /\ ~st.latched
    /\ Effect(c)
    /\ Finish(c, a, CommandCode(kind[c]))
    /\ UNCHANGED <<kind, client>>

\* --writer-submit-timeout bounds the wait of a publish and of a settle; the
\* other handlers wait as long as their caller does.
Timed(k) == k.route \in {"publish_message", "publish_batch", "ack", "nak", "term", "extend"}

\* The wait ends after acceptance: the answer is commit_unknown, and the
\* command runs all the same.
SubmitTimeout(c, a) ==
    /\ req[c][a].at = "submitting" /\ ~st.latched
    /\ Timed(kind[c]) \/ Left(c, a)
    /\ Effect(c)
    /\ Finish(c, a, "commit_unknown")
    /\ UNCHANGED <<kind, client>>

\* doomedCommit: the commit of a batch fails, and the store latches.
Submitting == {x \in Calls \X Attempts : req[x[1]][x[2]].at = "submitting"}
doomedCommit(batch) ==
    /\ batch # {} /\ ~st.latched
    /\ st' = [st EXCEPT !.latched = TRUE]
    /\ req' = [c \in Calls |-> [a \in Attempts |->
                 IF <<c, a>> \in batch THEN [at |-> "doomed", code |-> ""] ELSE req[c][a]]]
    /\ UNCHANGED <<kind, client, slots, stored, posted>>

\* failAll: every caller of that batch is told commit_unknown.
failAll(c, a) ==
    /\ req[c][a].at = "doomed"
    /\ Finish(c, a, "commit_unknown")
    /\ UNCHANGED <<kind, client, st, stored, posted>>

\* A sweep of the janitor clears the key of a message older than the window, or
\* retention deletes the message.
sweepDedup(c) ==
    /\ c \in st.ids /\ ~st.latched
    /\ st' = [st EXCEPT !.ids = @ \ {c}, !.lost = @ \cup {c}]
    /\ UNCHANGED <<kind, client, req, slots, stored, posted>>

\* (as a bug) the command that was accepted is called busy, too.
BusyAfterAccept(c, a) ==
    /\ req[c][a].at = "submitting" /\ ~st.latched
    /\ Effect(c)
    /\ Finish(c, a, "busy")
    /\ UNCHANGED <<kind, client>>

\* classifySubmit: not accepted within the timeout, or refused by the latch.
classifySubmit(c, a) ==
    /\ req[c][a].at = "submitting"
    /\ st.latched \/ Timed(kind[c])
    /\ Finish(c, a, IF st.latched THEN "read_only" ELSE "busy")
    /\ UNCHANGED <<kind, client, st, stored, posted>>

\* Every handler but publish works under the request's context: its caller
\* leaves, and a command not yet accepted is given up.
Abandon(c, a) ==
    /\ req[c][a].at \in {"handling", "submitting"} /\ Left(c, a)
    /\ kind[c].route \notin {"publish_message", "publish_batch"}
    /\ Finish(c, a, "gone")
    /\ UNCHANGED <<kind, client, st, stored, posted>>

-----------------------------------------------------------------------------
Next ==
    \/ \E c \in Calls :
        \/ send(c) \/ Receive(c) \/ Break(c) \/ sweepDedup(c)
        \/ \E a \in Attempts :
            \/ connLimitMW(c, a) \/ recoverMW(c, a) \/ routeHandler(c, a) \/ Commit(c, a)
            \/ SubmitTimeout(c, a) \/ failAll(c, a) \/ classifySubmit(c, a) \/ Abandon(c, a)
    \/ \E batch \in SUBSET Submitting : doomedCommit(batch)

Spec == Init /\ [][Next]_vars

-----------------------------------------------------------------------------
\* One call of Publish stores at most one message, with a message id through
\* its retry while the first attempt may still be under way at the daemon, and
\* without one because it is never repeated (publish.go: retrySafePublish).  It
\* is stored again only when the store did not keep the id: no dedup window, or
\* the message purged, deleted or swept between the attempts.
StoredOnce == \A c \in Calls : c \notin st.lost => stored[c] <= 1

\* publish.go: "same MsgID, so the dedup pre-check turns 'did it land?' into
\* Duplicate:true instead of a second seq".
NoSecondSeq == \A c \in Calls : stored[c] <= 1

\* What the caller of a publish is told is true: an ok has stored the message;
\* a refusal of its only attempt has not, and no request of it is left behind
\* that still could.
AnswersAreTrue ==
    \A c \in Calls : kind[c].route = "publish_message" =>
        /\ client[c].outcome = "ok" => stored[c] > 0
        /\ (/\ client[c].outcome \notin {"", "ok"}
            /\ client[c].attempt = 1
            /\ client[c].outcome \notin {"commit_unknown", "unavailable", "timeout"})
           => stored[c] = 0 /\ req[c][1].at = "gone"

\* The limiter's slots are the requests being served, never more than
\* --max-conns, whatever path the answer took (middleware.go: connLimitMW).
SlotsFit ==
    /\ slots <= MaxConns
    /\ slots = Cardinality({x \in Calls \X Attempts :
                               req[x[1]][x[2]].at \in {"handling", "submitting", "doomed"}})

\* A call of Publish stores at most one message and its caller is told the
\* truth about it, and the limiter's slots come back (client/publish.go,
\* api/middleware.go).
CallsAreTrue == StoredOnce /\ AnswersAreTrue /\ SlotsFit

\* consumers.go: a taken name with a different configuration is refused "so
\* the store never sees an update through POST".
NoUpdateThroughPost == ~posted

\* settle.go: a nak or a term with a reason is understood by the daemon.
ReasonsAreUnderstood ==
    \A c \in Calls : kind[c].route \in {"nak", "term"} => client[c].outcome # "bad_request"
=============================================================================
