--------------------------- MODULE RequestsProofs ---------------------------
(***************************************************************************)
(* Proofs about what requests meet.  Gateway: one call of Publish stores   *)
(* at most one message, its caller is told the truth, and the connection   *)
(* limiter counts the requests being served, for any number of calls of    *)
(* any kind.  Rules: a message goes where the language of the patterns     *)
(* says and dies in time, for any patterns, configurations and ladders.    *)
(* Retention: a sweep deletes what the configuration asks for and no more, *)
(* for any limits, sizes, batches and consumers.  Queries: pages read      *)
(* beside the writer show every row once, for any clients and limits.      *)
(***************************************************************************)
EXTENDS MCRequests, FiniteSetTheorems, WellFoundedInduction, NaturalsInduction, TLAPS

-----------------------------------------------------------------------------
(* The inductive invariant. *)

Codes == {"ok", "timeout", "unavailable", "commit_unknown", "busy", "read_only",
          "bad_request", "not_found", "internal", "stale_ack", "confirm_required",
          "consumer_exists", "would_change_filters", "stream_exists", "gone"}
Code == Codes \cup {""}
Ats == {"unsent", "wire", "handling", "submitting", "doomed", "replied", "gone"}
Caller == [attempt : Attempts, waiting : BOOLEAN, outcome : Code]
Request == [at : Ats, code : Code]
Store == [stream : BOOLEAN, window : BOOLEAN, consumer : Filters \cup {None}, row : BOOLEAN,
          paused : BOOLEAN, ids : SUBSET Calls, lost : SUBSET Calls, latched : BOOLEAN,
          dev : BOOLEAN]

TypeOK ==
    /\ kind \in [Calls -> Kind]
    /\ client \in [Calls -> Caller]
    /\ req \in [Calls -> [Attempts -> Request]]
    /\ slots \in Nat
    /\ stored \in [Calls -> Nat]
    /\ st \in Store

\* Where a request has not reached its command.
Early == {"unsent", "wire", "handling", "submitting", "doomed"}

\* A kind of call that may be repeated.
Repeats(k) == k.route = "publish_message" /\ k.id

\* The codes after which the caller of a publish knows that nothing was stored.
Refusals == Codes \ {"ok", "commit_unknown", "unavailable", "timeout"}

\* Only a call that may be repeated has a second request, and a request is sent
\* once.
SendInv(c) ==
    /\ client[c].attempt = 2 => Repeats(kind[c])
    /\ client[c].attempt = 1 => req[c][2].at = "unsent"
    /\ ~client[c].waiting /\ client[c].outcome = "" => req[c][client[c].attempt].at = "unsent"
    /\ \A a \in Attempts : req[c][a].at = "replied" => req[c][a].code \in Codes

\* A first request that has not reached its command stored nothing; an id is
\* in the store with its message, until the store loses it.
StoreInv(c) ==
    /\ client[c].attempt = 1 /\ req[c][1].at \in Early => stored[c] = 0
    /\ c \in st.ids => stored[c] > 0
    /\ c \notin st.lost => stored[c] <= 1 /\ (Repeats(kind[c]) /\ stored[c] > 0 => c \in st.ids)

\* An answer under way is true, and so is the one that was given.
AnswerInv(c) ==
    /\ \A a \in Attempts :
         kind[c].route = "publish_message" /\ req[c][a].at = "replied" /\ req[c][a].code = "ok"
            => stored[c] > 0
    /\ client[c].attempt = 1 /\ req[c][1].at = "replied" /\ req[c][1].code \in Refusals
        => stored[c] = 0
    /\ kind[c].route = "publish_message" /\ client[c].outcome = "ok" => stored[c] > 0
    /\ client[c].outcome \in Refusals /\ client[c].attempt = 1
        => stored[c] = 0 /\ req[c][1].at = "gone"

CallInv == \A c \in Calls : SendInv(c) /\ StoreInv(c) /\ AnswerInv(c)

\* The requests being served.
Served == {x \in Calls \X Attempts : req[x[1]][x[2]].at \in {"handling", "submitting", "doomed"}}
SlotInv == slots <= MaxConns /\ slots = Cardinality(Served)

IInv == TypeOK /\ CallInv /\ SlotInv

-----------------------------------------------------------------------------
(* Where a request moves, and what the moves leave alone. *)

\* A move rewrites one attempt of one call.
LEMMA MoveOne ==
    ASSUME TypeOK, NEW c \in Calls, NEW a \in Attempts, NEW at \in Ats,
           NEW code \in Code, Move(c, a, at, code)
    PROVE  /\ req' \in [Calls -> [Attempts -> Request]]
           /\ req'[c][a].at = at /\ req'[c][a].code = code
           /\ \A b \in Attempts : b # a => req'[c][b] = req[c][b]
           /\ \A d \in Calls : d # c => req'[d] = req[d]
<1> DEFINE r == [at |-> at, code |-> code]
<1>1. r \in Request /\ r.at = at /\ r.code = code
  BY DEF Request
<1>2. req \in [Calls -> [Attempts -> Request]]
  BY DEF TypeOK
<1>3. req' = [req EXCEPT ![c] = [req[c] EXCEPT ![a] = r]]
  BY DEF Move
<1>4. [req[c] EXCEPT ![a] = r] \in [Attempts -> Request]
  BY <1>1, <1>2
<1> HIDE DEF r
<1>5. req'[c] = [req[c] EXCEPT ![a] = r]
  BY <1>2, <1>3
<1>6. req'[c][a] = r /\ \A b \in Attempts : b # a => req'[c][b] = req[c][b]
  BY <1>2, <1>5
<1>7. \A d \in Calls : d # c => req'[d] = req[d]
  BY <1>2, <1>3
<1>8. req' \in [Calls -> [Attempts -> Request]]
  BY <1>2, <1>3, <1>4
<1> QED
  BY <1>1, <1>6, <1>7, <1>8

\* A call whose requests rest keeps what is said of it, when the store keeps its
\* id or loses it, and takes none for it.
LEMMA OtherCalls ==
    ASSUME CallInv, NEW d \in Calls,
           kind' = kind, client'[d] = client[d], req'[d] = req[d], stored'[d] = stored[d],
           d \in st'.ids => d \in st.ids,
           d \in st.ids => d \in st'.ids \/ d \in st'.lost,
           d \in st.lost => d \in st'.lost
    PROVE  SendInv(d)' /\ StoreInv(d)' /\ AnswerInv(d)'
<1>1. SendInv(d) /\ StoreInv(d) /\ AnswerInv(d)
  BY DEF CallInv
<1>2. SendInv(d)'
  BY <1>1 DEF SendInv, Repeats, Attempts
<1>3. AnswerInv(d)'
  BY <1>1 DEF AnswerInv, Attempts
<1>7. StoreInv(d)'
  BY <1>1 DEF StoreInv, Repeats
<1> QED
  BY <1>2, <1>3, <1>7

-----------------------------------------------------------------------------
(* The limiter: what a move does to the set of requests being served. *)

Serving == {"handling", "submitting", "doomed"}

\* The requests being served are finitely many.
LEMMA ServedFinite == IsFiniteSet(Served)
<1>1. IsFiniteSet(1..2)
  <2>1. 1 \in Int /\ 2 \in Int
    OBVIOUS
  <2> QED
    BY <2>1, FS_Interval, Zenon
<1>2. IsFiniteSet(Calls \X Attempts)
  BY <1>1, ConstantsAssumption, FS_Product DEF Attempts
<1>3. Served \subseteq Calls \X Attempts
  BY DEF Served
<1> QED
  BY <1>2, <1>3, FS_Subset

\* Whether one request is among them, before and after a step.
LEMMA ServedMember ==
    /\ \A d \in Calls, b \in Attempts :
         /\ <<d, b>> \in Served <=> req[d][b].at \in Serving
         /\ <<d, b>> \in Served' <=> req'[d][b].at \in Serving
    /\ Served \subseteq Calls \X Attempts /\ Served' \subseteq Calls \X Attempts
BY DEF Served, Serving

\* A move that neither enters nor leaves the service.
LEMMA ServedKept ==
    ASSUME TypeOK, NEW c \in Calls, NEW a \in Attempts, NEW at \in Ats,
           NEW code \in Code, Move(c, a, at, code),
           at \in Serving <=> req[c][a].at \in Serving
    PROVE  Served' = Served
<1>1. /\ req'[c][a].at = at
      /\ \A b \in Attempts : b # a => req'[c][b] = req[c][b]
      /\ \A d \in Calls : d # c => req'[d] = req[d]
  BY MoveOne
<1>2. \A d \in Calls, b \in Attempts : req'[d][b].at \in Serving <=> req[d][b].at \in Serving
  BY <1>1
<1>3. \A d \in Calls, b \in Attempts : <<d, b>> \in Served' <=> <<d, b>> \in Served
  BY <1>2, ServedMember
<1>4. \A x \in Calls \X Attempts : x \in Served' <=> x \in Served
  BY <1>3
<1> QED
  BY <1>4, ServedMember

\* A request taken into service.
LEMMA ServedMore ==
    ASSUME TypeOK, NEW c \in Calls, NEW a \in Attempts, NEW at \in Ats,
           NEW code \in Code, Move(c, a, at, code), req[c][a].at \notin Serving, at \in Serving
    PROVE  Cardinality(Served') = Cardinality(Served) + 1
<1> DEFINE x0 == <<c, a>>
<1>1. /\ req'[c][a].at = at
      /\ \A b \in Attempts : b # a => req'[c][b] = req[c][b]
      /\ \A d \in Calls : d # c => req'[d] = req[d]
  BY MoveOne
<1>2. \A d \in Calls, b \in Attempts :
         req'[d][b].at \in Serving <=> (req[d][b].at \in Serving \/ (d = c /\ b = a))
  BY <1>1
<1>3. \A d \in Calls, b \in Attempts :
         <<d, b>> \in Served' <=> (<<d, b>> \in Served \/ <<d, b>> = x0)
  BY <1>2, ServedMember
<1>4. x0 \notin Served /\ x0 \in Calls \X Attempts
  BY ServedMember
<1> HIDE DEF x0
<1>5. \A x \in Calls \X Attempts : x \in Served' <=> (x \in Served \/ x = x0)
  BY <1>3
<1>6. Served' = Served \cup {x0}
  <2>1. \A x : x \in Served' => x \in Served \cup {x0}
    BY <1>5, ServedMember
  <2>2. \A x : x \in Served \cup {x0} => x \in Served'
    BY <1>4, <1>5, ServedMember
  <2> QED
    BY <2>1, <2>2
<1> QED
  BY <1>4, <1>6, ServedFinite, FS_AddElement

\* A request answered.
LEMMA ServedLess ==
    ASSUME TypeOK, NEW c \in Calls, NEW a \in Attempts, req[c][a].at \in Serving,
           NEW at \in {"gone", "replied"}, NEW code \in Code, Move(c, a, at, code)
    PROVE  Cardinality(Served') = Cardinality(Served) - 1 /\ Cardinality(Served) \in Nat \ {0}
<1> DEFINE x0 == <<c, a>>
<1>0. at \in Ats /\ at \notin Serving
  BY DEF Ats, Serving
<1>1. /\ req'[c][a].at = at
      /\ \A b \in Attempts : b # a => req'[c][b] = req[c][b]
      /\ \A d \in Calls : d # c => req'[d] = req[d]
  BY <1>0, MoveOne
<1>2. \A d \in Calls, b \in Attempts :
         req'[d][b].at \in Serving <=> (req[d][b].at \in Serving /\ ~(d = c /\ b = a))
  BY <1>0, <1>1
<1>3. \A d \in Calls, b \in Attempts :
         <<d, b>> \in Served' <=> (<<d, b>> \in Served /\ <<d, b>> # x0)
  BY <1>2, ServedMember
<1>4. x0 \in Served
  BY ServedMember
<1> HIDE DEF x0
<1>8. \A x \in Calls \X Attempts : x \in Served' <=> (x \in Served /\ x # x0)
  BY <1>3
<1>5. Served' = Served \ {x0}
  BY <1>8, <1>4, ServedMember
<1>6. Cardinality(Served \ {x0}) = Cardinality(Served) - 1
  BY <1>4, ServedFinite, FS_RemoveElement
<1>7. Cardinality(Served) \in Nat /\ Cardinality(Served) # 0
  BY <1>4, ServedFinite, FS_CardinalityType, FS_EmptySet
<1> QED
  BY <1>5, <1>6, <1>7

-----------------------------------------------------------------------------
(* The answer to a request. *)

\* An answer is sent to a caller who waits for this attempt, and dropped for any
\* other.
LEMMA ReplyFacts ==
    ASSUME TypeOK, NEW c \in Calls, NEW a \in Attempts, NEW code \in Codes, Reply(c, a, code)
    PROVE  \E at \in {"gone", "replied"}, x \in Code :
              /\ Move(c, a, at, x)
              /\ at = "replied" => x = code /\ client[c].waiting /\ client[c].attempt = a
<1>1. code \in Code /\ "" \in Code
  BY DEF Code
<1>2. CASE Left(c, a)
  <2>1. Move(c, a, "gone", "")
    BY <1>2 DEF Reply
  <2> QED
    BY <1>1, <2>1
<1>3. CASE ~Left(c, a)
  <2>1. Move(c, a, "replied", code) /\ client[c].waiting /\ client[c].attempt = a
    BY <1>3 DEF Reply, Left
  <2> QED
    BY <1>1, <2>1
<1> QED
  BY <1>2, <1>3

\* The slot comes back with the answer.
LEMMA FinishSlots ==
    ASSUME TypeOK, SlotInv, NEW c \in Calls, NEW a \in Attempts, NEW code \in Codes,
           req[c][a].at \in Serving, Finish(c, a, code)
    PROVE  SlotInv' /\ slots' \in Nat
<1>1. Reply(c, a, code) /\ slots' = slots - 1
  BY DEF Finish
<1>2. PICK at \in {"gone", "replied"}, x \in Code : Move(c, a, at, x)
  BY <1>1, ReplyFacts
<1>3. Cardinality(Served') = Cardinality(Served) - 1 /\ Cardinality(Served) \in Nat \ {0}
  BY <1>2, ServedLess
<1> QED
  BY <1>1, <1>3, ConstantsAssumption DEF SlotInv

\* A step of the daemon that ends request a of call c with an answer keeps what
\* is said of c, given what the step did to the store: a refusal of the first
\* attempt stored nothing, an ok of a publish has stored its message.
LEMMA ReplyKeeps ==
    ASSUME IInv, NEW c \in Calls, NEW a \in Attempts, NEW code \in Codes, Reply(c, a, code),
           req[c][a].at \in {"wire", "handling", "submitting", "doomed"},
           kind' = kind, client' = client, stored' \in [Calls -> Nat],
           stored'[c] >= stored[c],
           client[c].attempt = 1 /\ code \in Refusals => stored'[c] = stored[c],
           kind[c].route = "publish_message" /\ code = "ok" => stored'[c] > 0,
           c \in st'.ids => stored'[c] > 0,
           c \notin st'.lost => stored'[c] <= 1 /\ (Repeats(kind[c]) /\ stored'[c] > 0 => c \in st'.ids)
    PROVE  SendInv(c)' /\ StoreInv(c)' /\ AnswerInv(c)'
<1>0. TypeOK /\ SendInv(c) /\ StoreInv(c) /\ AnswerInv(c)
  BY DEF IInv, CallInv
<1>1. PICK at \in {"gone", "replied"}, x \in Code :
         /\ Move(c, a, at, x)
         /\ at = "replied" => x = code /\ client[c].waiting /\ client[c].attempt = a
  BY <1>0, ReplyFacts
<1>2. at \in Ats
  BY DEF Ats
<1>3. /\ req'[c][a].at = at /\ req'[c][a].code = x
      /\ \A b \in Attempts : b # a => req'[c][b] = req[c][b]
  BY <1>0, <1>1, <1>2, MoveOne
<1>4. client[c].attempt \in Attempts /\ Attempts = {1, 2}
      /\ stored[c] \in Nat /\ stored'[c] \in Nat
  BY <1>0 DEF TypeOK, Caller, Attempts
<1>5. client[c].attempt = 1 => a = 1
  BY <1>0, <1>4 DEF SendInv
<1>6. client[c].attempt = 1 /\ req[c][1].at \in Early => stored[c] = 0
  BY <1>0 DEF StoreInv
<1>7. client[c].attempt = 1 => stored[c] = 0
  BY <1>5, <1>6 DEF Early
<1>8. SendInv(c)'
  <2>1. client[c].attempt = 1 => req'[c][2].at = "unsent"
    BY <1>0, <1>3, <1>4, <1>5 DEF SendInv
  <2>2. ~client[c].waiting /\ client[c].outcome = "" => req'[c][client[c].attempt].at = "unsent"
    BY <1>0, <1>1, <1>3, <1>4 DEF SendInv
  <2>3. \A b \in Attempts : req'[c][b].at = "replied" => req'[c][b].code \in Codes
    BY <1>0, <1>1, <1>3 DEF SendInv
  <2> QED
    BY <1>0, <2>1, <2>2, <2>3 DEF SendInv, Repeats
<1>9. StoreInv(c)'
  <2>1. client[c].attempt = 1 => req'[c][1].at \notin Early
    BY <1>1, <1>3, <1>5 DEF Early
  <2> QED
    BY <2>1 DEF StoreInv, Repeats
<1>10. AnswerInv(c)'
  <2>1. \A b \in Attempts :
           kind[c].route = "publish_message" /\ req'[c][b].at = "replied" /\ req'[c][b].code = "ok"
              => stored'[c] > 0
    <3> SUFFICES ASSUME NEW b \in Attempts, kind[c].route = "publish_message",
                        req'[c][b].at = "replied", req'[c][b].code = "ok"
                 PROVE  stored'[c] > 0
      OBVIOUS
    <3>1. CASE b = a
      BY <1>1, <1>3, <3>1
    <3>2. CASE b # a
      <4>1. stored[c] > 0
        BY <1>0, <1>3, <3>2 DEF AnswerInv
      <4> QED
        BY <1>4, <4>1
    <3> QED
      BY <3>1, <3>2
  <2>2. client[c].attempt = 1 /\ req'[c][1].at = "replied" /\ req'[c][1].code \in Refusals
           => stored'[c] = 0
    BY <1>1, <1>3, <1>5, <1>7
  <2>3. kind[c].route = "publish_message" /\ client[c].outcome = "ok" => stored'[c] > 0
    <3>1. kind[c].route = "publish_message" /\ client[c].outcome = "ok" => stored[c] > 0
      BY <1>0 DEF AnswerInv
    <3> QED
      BY <1>4, <3>1
  <2>4. ~(client[c].outcome \in Refusals /\ client[c].attempt = 1)
    BY <1>0, <1>5 DEF AnswerInv
  <2> QED
    BY <2>1, <2>2, <2>3, <2>4 DEF AnswerInv
<1> QED
  BY <1>8, <1>9, <1>10

\* One step further on the way to its command, a request keeps what is said of
\* its call.
LEMMA MoveKeeps ==
    ASSUME IInv, NEW c \in Calls, NEW a \in Attempts, NEW at \in Serving,
           NEW x \in Code, Move(c, a, at, x), req[c][a].at \in {"wire", "handling", "submitting", "doomed"},
           kind' = kind, client' = client, stored' = stored, st'.ids = st.ids, st'.lost = st.lost
    PROVE  SendInv(c)' /\ StoreInv(c)' /\ AnswerInv(c)'
<1>0. TypeOK /\ SendInv(c) /\ StoreInv(c) /\ AnswerInv(c)
  BY DEF IInv, CallInv
<1>1. at \in Ats /\ at \in Early /\ at # "replied" /\ at # "unsent"
  BY DEF Serving, Ats, Early
<1>3. /\ req'[c][a].at = at
      /\ \A b \in Attempts : b # a => req'[c][b] = req[c][b]
  BY <1>0, <1>1, MoveOne
<1>4. client[c].attempt \in Attempts /\ Attempts = {1, 2}
  BY <1>0 DEF TypeOK, Caller, Attempts
<1>5. client[c].attempt = 1 => a = 1
  BY <1>0, <1>4 DEF SendInv
<1>7. client[c].attempt = 1 => stored[c] = 0
  BY <1>0, <1>5 DEF StoreInv, Early
<1>8. SendInv(c)'
  <2>1. client'[c].attempt = 2 => Repeats(kind'[c])
    BY <1>0 DEF SendInv
  <2>2. client'[c].attempt = 1 => req'[c][2].at = "unsent"
    BY <1>0, <1>3, <1>4, <1>5 DEF SendInv
  <2>3. ~client'[c].waiting /\ client'[c].outcome = "" => req'[c][client'[c].attempt].at = "unsent"
    <3>1. ASSUME ~client[c].waiting, client[c].outcome = "" PROVE a # client[c].attempt
      BY <1>0, <3>1 DEF SendInv
    <3> QED
      BY <1>0, <1>3, <1>4, <3>1 DEF SendInv
  <2>4. ASSUME NEW b \in Attempts, req'[c][b].at = "replied" PROVE req'[c][b].code \in Codes
    BY <1>0, <1>1, <1>3, <2>4 DEF SendInv
  <2> QED
    BY <2>1, <2>2, <2>3, <2>4 DEF SendInv, Repeats
<1>9. StoreInv(c)'
  <2> QED
    BY <1>0, <1>7 DEF StoreInv, Repeats
<1>10. AnswerInv(c)'
  BY <1>0, <1>1, <1>3, <1>4, <1>5 DEF AnswerInv
<1> QED
  BY <1>8, <1>9, <1>10

-----------------------------------------------------------------------------
(* What a handler answers, and what a command does. *)

\* What a handler answers before its command; ok is not among a publish's.
LEMMA HandlerCodes ==
    ASSUME TypeOK, NEW k \in Kind
    PROVE  /\ Handler(k) \in Codes \cup {"submit"}
           /\ k.route = "publish_message" => Handler(k) # "ok"
<1> USE DEF Codes
<1>0. k.route \in Routes
  BY DEF Kind
<1>1. handlePublishMessage \in {"submit", "not_found", "read_only"}
  BY DEF handlePublishMessage
<1>2. handleSettle(k) \in {"submit", "bad_request"}
  BY DEF handleSettle
<1>3. /\ handleDeleteStream(k) \in {"submit", "confirm_required", "not_found"}
      /\ handleDeleteConsumer(k) \in {"submit", "confirm_required", "not_found"}
  BY DEF handleDeleteStream, handleDeleteConsumer, confirmRefusal
<1>4. /\ handleCreateConsumer(k) \in {"submit", "consumer_exists"}
      /\ handleUpdateConsumer(k) \in {"submit", "not_found", "would_change_filters"}
  BY DEF handleCreateConsumer, handleUpdateConsumer
<1>5. handleSetPausedRoute(k) \in {"ok", "submit", "not_found"}
  BY DEF handleSetPausedRoute
<1>6. Handler(k) \in {handlePublishMessage, handleSettle(k), handleDeleteStream(k),
                      handleDeleteConsumer(k), handleCreateConsumer(k), handleUpdateConsumer(k),
                      handleSetPausedRoute(k), "submit"}
  BY <1>0 DEF Handler, Routes, handlePublishBatch, handleCreateStream, handleUpdateStream,
              handlePurgeStream, handleSeekConsumer
<1>7. k.route = "publish_message" => Handler(k) = handlePublishMessage
  BY DEF Handler
<1> QED
  BY <1>1, <1>2, <1>3, <1>4, <1>5, <1>6, <1>7

\* What a command answers.
LEMMA CommandCodes ==
    ASSUME NEW k
    PROVE  CommandCode(k) \in {"ok", "stale_ack", "not_found", "stream_exists"}
BY DEF CommandCode, SettleCode

\* The store keeps a call's id or loses it, and takes none for it.
Held(d) ==
    /\ d \in st'.ids => d \in st.ids
    /\ d \in st.ids => d \in st'.ids \/ d \in st'.lost
    /\ d \in st.lost => d \in st'.lost

\* A command leaves a store behind; it keeps the id of its own publish, or loses
\* it without a window, and a purge or a deletion loses every id.
LEMMA AppliedStore ==
    ASSUME TypeOK, NEW c \in Calls, NEW k \in Kind
    PROVE  /\ Applied(c, k) \in Store
           /\ k.route = "publish_message" =>
                /\ Applied(c, k).ids = IF k.id /\ st.window THEN st.ids \cup {c} ELSE st.ids
                /\ Applied(c, k).lost = IF k.id /\ ~st.window THEN st.lost \cup {c} ELSE st.lost
           /\ k.route \notin {"publish_message", "delete_stream", "purge_stream"} =>
                Applied(c, k).ids = st.ids /\ Applied(c, k).lost = st.lost
           /\ k.route \in {"delete_stream", "purge_stream"} =>
                Applied(c, k).ids = {} /\ Applied(c, k).lost = st.lost \cup st.ids
<1>0. /\ st \in Store /\ k.route \in Routes /\ k.filters \in Filters \cup {None}
      /\ k.id \in BOOLEAN /\ k.window \in BOOLEAN
  BY DEF TypeOK, Kind
<1>1. CASE k.route = "publish_message"
  <2>1. Applied(c, k) = Published(c, k)
    BY <1>1 DEF Applied
  <2>2. CASE ~k.id
    BY <1>0, <1>1, <2>1, <2>2 DEF Published
  <2>3. CASE k.id /\ st.window
    <3>1. Applied(c, k) = [st EXCEPT !.ids = @ \cup {c}]
      BY <2>1, <2>3 DEF Published
    <3> QED
      BY <1>0, <1>1, <2>3, <3>1 DEF Store
  <2>4. CASE k.id /\ ~st.window
    <3>1. Applied(c, k) = [st EXCEPT !.lost = @ \cup {c}]
      BY <2>1, <2>4 DEF Published
    <3> QED
      BY <1>0, <1>1, <2>4, <3>1 DEF Store
  <2> QED
    BY <2>2, <2>3, <2>4
<1>2. CASE k.route \in {"ack", "term", "seek_consumer"}
  <2>1. Applied(c, k) = [st EXCEPT !.row = FALSE]
    BY <1>2 DEF Applied
  <2> QED
    BY <1>0, <1>2, <2>1 DEF Store
<1>3. CASE k.route = "create_stream"
  <2>1. Applied(c, k) = [st EXCEPT !.stream = TRUE, !.window = k.window]
    BY <1>3 DEF Applied
  <2> QED
    BY <1>0, <1>3, <2>1 DEF Store
<1>9. CASE k.route = "update_stream"
  <2>1. Applied(c, k) = [st EXCEPT !.window = k.window]
    BY <1>9 DEF Applied
  <2> QED
    BY <1>0, <1>9, <2>1 DEF Store
<1>10. Emptied \in Store /\ Emptied.ids = {} /\ Emptied.lost = st.lost \cup st.ids
  BY <1>0 DEF Store, Emptied
<1>4. CASE k.route = "delete_stream"
  <2>1. Applied(c, k) = [Emptied EXCEPT !.stream = FALSE, !.consumer = None, !.paused = FALSE]
    BY <1>4 DEF Applied, Gone
  <2> QED
    BY <1>10, <1>4, <2>1 DEF Store
<1>11. CASE k.route = "purge_stream"
  <2>1. Applied(c, k) = Emptied
    BY <1>11 DEF Applied
  <2> QED
    BY <1>10, <1>11, <2>1
<1>5. CASE k.route \in {"create_consumer", "update_consumer"}
  <2>1. Applied(c, k) = [st EXCEPT !.consumer = IF k.filters = None THEN @ ELSE k.filters]
    BY <1>5 DEF Applied
  <2> QED
    BY <1>0, <1>5, <2>1 DEF Store
<1>6. CASE k.route = "delete_consumer"
  <2>1. Applied(c, k) = [st EXCEPT !.consumer = None, !.row = FALSE, !.paused = FALSE]
    BY <1>6 DEF Applied
  <2> QED
    BY <1>0, <1>6, <2>1 DEF Store
<1>7. CASE k.route \in {"pause_consumer", "resume_consumer"}
  <2>1. Applied(c, k) = [st EXCEPT !.paused = (k.route = "pause_consumer")]
    BY <1>7 DEF Applied
  <2>2. (k.route = "pause_consumer") \in BOOLEAN
    OBVIOUS
  <2> QED
    BY <1>0, <1>7, <2>1, <2>2 DEF Store
<1>8. CASE k.route \in {"publish_batch", "nak", "extend"}
  <2>1. Applied(c, k) = st
    BY <1>8 DEF Applied
  <2> QED
    BY <1>0, <1>8, <2>1
<1> QED
  BY <1>0, <1>1, <1>2, <1>3, <1>4, <1>5, <1>6, <1>7, <1>8, <1>9, <1>11 DEF Routes

\* A command that runs stores a message of its own call at most, and not one
\* whose id the store has: a first attempt finds nothing stored, and a second
\* one is only made of a call with an id.
LEMMA EffectStores ==
    ASSUME IInv, NEW c \in Calls, NEW a \in Attempts, req[c][a].at = "submitting", Effect(c)
    PROVE  /\ st' \in Store /\ stored' \in [Calls -> Nat]
           /\ \A d \in Calls : d # c => stored'[d] = stored[d]
           /\ \A d \in Calls : d # c => Held(d)
           /\ stored'[c] >= stored[c]
           /\ CommandCode(kind[c]) # "ok" => stored'[c] = stored[c]
           /\ kind[c].route = "publish_message" /\ CommandCode(kind[c]) = "ok" => stored'[c] > 0
           /\ c \in st'.ids => stored'[c] > 0
           /\ c \notin st'.lost => stored'[c] <= 1 /\ (Repeats(kind[c]) /\ stored'[c] > 0 => c \in st'.ids)
<1> DEFINE k == kind[c]
<1> DEFINE fresh == /\ k.route \in {"publish_message", "publish_batch"}
                    /\ CommandCode(k) = "ok" /\ ~Known(c, k)
<1>0. TypeOK /\ SendInv(c) /\ StoreInv(c)
  BY DEF IInv, CallInv
<1>1. k \in Kind /\ st \in Store /\ stored \in [Calls -> Nat] /\ stored[c] \in Nat
      /\ client[c].attempt \in {1, 2} /\ Attempts = {1, 2}
  BY <1>0 DEF TypeOK, Caller, Attempts
<1>2. /\ st' = IF CommandCode(k) = "ok" THEN Applied(c, k) ELSE st
      /\ stored' = IF fresh THEN [stored EXCEPT ![c] = @ + 1] ELSE stored
  BY DEF Effect
<1>3. /\ Applied(c, k) \in Store
      /\ k.route = "publish_message" =>
           /\ Applied(c, k).ids = IF k.id /\ st.window THEN st.ids \cup {c} ELSE st.ids
           /\ Applied(c, k).lost = IF k.id /\ ~st.window THEN st.lost \cup {c} ELSE st.lost
      /\ k.route \notin {"publish_message", "delete_stream", "purge_stream"} =>
           Applied(c, k).ids = st.ids /\ Applied(c, k).lost = st.lost
      /\ k.route \in {"delete_stream", "purge_stream"} =>
           Applied(c, k).ids = {} /\ Applied(c, k).lost = st.lost \cup st.ids
  BY <1>0, <1>1, AppliedStore
<1>4. client[c].attempt = 1 => a = 1
  BY <1>0, <1>1 DEF SendInv
<1>5. client[c].attempt = 1 => stored[c] = 0
  BY <1>0, <1>4 DEF StoreInv, Early
<1>6. client[c].attempt = 2 => k.route = "publish_message" /\ k.id
  BY <1>0 DEF SendInv, Repeats
<1>7. /\ c \in st.ids => stored[c] > 0
      /\ c \notin st.lost => stored[c] <= 1 /\ (k.route = "publish_message" /\ k.id /\ stored[c] > 0
                                                => c \in st.ids)
  BY <1>0 DEF StoreInv, Repeats
<1>8. Known(c, k) <=> k.id /\ st.window /\ c \in st.ids
  BY DEF Known
<1> HIDE DEF k
<1>9. /\ stored'[c] = IF fresh THEN stored[c] + 1 ELSE stored[c]
      /\ stored' \in [Calls -> Nat]
      /\ \A d \in Calls : d # c => stored'[d] = stored[d]
  <2> HIDE DEF fresh
  <2>1. CASE fresh
    BY <1>1, <1>2, <2>1
  <2>2. CASE ~fresh
    BY <1>1, <1>2, <2>2
  <2> QED
    BY <2>1, <2>2
<1>10. st' \in Store
  BY <1>1, <1>2, <1>3
<1>11. k.route = "publish_message" /\ CommandCode(k) = "ok" => stored'[c] > 0
  BY <1>1, <1>7, <1>8, <1>9
<1>12. ASSUME NEW d \in Calls, d # c PROVE Held(d)
  BY <1>2, <1>3, <1>12 DEF Held
<1>13. c \in st'.ids => c \in st.ids \/ (k.route = "publish_message" /\ CommandCode(k) = "ok")
  BY <1>2, <1>3
<1>14. c \in st'.ids => stored'[c] > 0
  BY <1>1, <1>7, <1>9, <1>11, <1>13
<1>18. c \in st.lost => c \in st'.lost
  BY <1>2, <1>3
<1>19. k.route = "publish_message" /\ CommandCode(k) = "ok" /\ k.id /\ c \notin st'.lost
          => st.window /\ c \in st'.ids
  BY <1>2, <1>3
<1>15. c \notin st'.lost => stored'[c] <= 1
  <2>1. c \notin st'.lost /\ fresh => stored[c] = 0
    BY <1>1, <1>5, <1>6, <1>7, <1>8, <1>18, <1>19
  <2> QED
    BY <1>1, <1>7, <1>9, <1>18, <2>1
<1>16. ASSUME c \notin st'.lost, k.route = "publish_message", k.id, stored'[c] > 0
       PROVE  c \in st'.ids
  <2>1. CASE CommandCode(k) = "ok"
    BY <1>19, <1>16, <2>1
  <2>2. CASE CommandCode(k) # "ok"
    BY <1>2, <1>7, <1>9, <1>16, <1>18, <2>2
  <2> QED
    BY <2>1, <2>2
<1>17. stored'[c] >= stored[c] /\ (CommandCode(k) # "ok" => stored'[c] = stored[c])
  BY <1>1, <1>9
<1> QED
  BY <1>9, <1>10, <1>11, <1>12, <1>14, <1>15, <1>16, <1>17 DEF k, Repeats

-----------------------------------------------------------------------------
(* The steps of the daemon. *)

\* A request that ends with an answer, with what its command did to the store.
LEMMA FinishStep ==
    ASSUME IInv, NEW c \in Calls, NEW a \in Attempts, NEW code \in Codes, Finish(c, a, code),
           req[c][a].at \in Serving, kind' = kind, client' = client,
           st' \in Store, stored' \in [Calls -> Nat],
           \A d \in Calls : d # c => stored'[d] = stored[d],
           \A d \in Calls : d # c => Held(d),
           stored'[c] >= stored[c],
           client[c].attempt = 1 /\ code \in Refusals => stored'[c] = stored[c],
           kind[c].route = "publish_message" /\ code = "ok" => stored'[c] > 0,
           c \in st'.ids => stored'[c] > 0,
           c \notin st'.lost => stored'[c] <= 1 /\ (Repeats(kind[c]) /\ stored'[c] > 0 => c \in st'.ids)
    PROVE  IInv'
<1>0. TypeOK /\ CallInv /\ SlotInv
  BY DEF IInv
<1>1. Reply(c, a, code)
  BY DEF Finish
<1>2. PICK at \in {"gone", "replied"}, x \in Code : Move(c, a, at, x)
  BY <1>0, <1>1, ReplyFacts
<1>3. at \in Ats
  BY DEF Ats
<1>4. req' \in [Calls -> [Attempts -> Request]] /\ \A d \in Calls : d # c => req'[d] = req[d]
  BY <1>0, <1>2, <1>3, MoveOne
<1>5. SlotInv' /\ slots' \in Nat
  BY <1>0, FinishSlots
<1>6. TypeOK'
  BY <1>0, <1>4, <1>5 DEF TypeOK
<1>7. req[c][a].at \in {"wire", "handling", "submitting", "doomed"}
  BY DEF Serving
<1>8. SendInv(c)' /\ StoreInv(c)' /\ AnswerInv(c)'
  BY <1>1, <1>7, ReplyKeeps
<1>9. ASSUME NEW d \in Calls, d # c
      PROVE  SendInv(d)' /\ StoreInv(d)' /\ AnswerInv(d)'
  BY <1>0, <1>4, <1>9, OtherCalls DEF Held
<1>10. CallInv'
  BY <1>8, <1>9 DEF CallInv
<1> QED
  BY <1>5, <1>6, <1>10 DEF IInv

\* A request that ends without a command.
LEMMA FinishQuietly ==
    ASSUME IInv, NEW c \in Calls, NEW a \in Attempts, NEW code \in Codes, Finish(c, a, code),
           req[c][a].at \in Serving, kind' = kind, client' = client,
           st' \in Store, st'.ids = st.ids, st'.lost = st.lost, stored' = stored,
           kind[c].route = "publish_message" => code # "ok"
    PROVE  IInv'
<1>1. stored \in [Calls -> Nat] /\ stored[c] \in Nat /\ StoreInv(c)
  BY DEF IInv, TypeOK, CallInv
<1>2. /\ c \in st.ids => stored[c] > 0
      /\ c \notin st.lost => stored[c] <= 1 /\ (Repeats(kind[c]) /\ stored[c] > 0 => c \in st.ids)
  BY <1>1 DEF StoreInv
<1>3. stored'[c] >= stored[c] /\ stored' \in [Calls -> Nat]
  BY <1>1
<1>4. \A d \in Calls : Held(d)
  BY DEF Held
<1> QED
  BY <1>2, <1>3, <1>4, FinishStep

\* A request one step further on the way to its command.
LEMMA MoveStep ==
    ASSUME IInv, NEW c \in Calls, NEW a \in Attempts, NEW at \in Serving, NEW x \in Code,
           Move(c, a, at, x), req[c][a].at \in {"wire", "handling", "submitting", "doomed"},
           kind' = kind, client' = client, stored' = stored, st' \in Store, st'.ids = st.ids,
           st'.lost = st.lost, slots' \in Nat
    PROVE  TypeOK' /\ CallInv'
<1>0. TypeOK /\ CallInv
  BY DEF IInv
<1>3. at \in Ats
  BY DEF Ats, Serving
<1>4. req' \in [Calls -> [Attempts -> Request]] /\ \A d \in Calls : d # c => req'[d] = req[d]
  BY <1>0, <1>3, MoveOne
<1>6. TypeOK'
  BY <1>0, <1>4 DEF TypeOK
<1>8. SendInv(c)' /\ StoreInv(c)' /\ AnswerInv(c)'
  BY MoveKeeps
<1>9. ASSUME NEW d \in Calls, d # c
      PROVE  SendInv(d)' /\ StoreInv(d)' /\ AnswerInv(d)'
  BY <1>0, <1>4, <1>9, OtherCalls
<1> QED
  BY <1>6, <1>8, <1>9 DEF CallInv

\* The limiter takes a request into service, or refuses it.
LEMMA connLimitMWStep ==
    ASSUME IInv, NEW c \in Calls, NEW a \in Attempts, connLimitMW(c, a)
    PROVE  IInv'
<1>0. TypeOK /\ CallInv /\ SlotInv
  BY DEF IInv
<1>1. /\ req[c][a].at = "wire" /\ kind' = kind /\ client' = client /\ st' = st
      /\ stored' = stored
  BY DEF connLimitMW
<1>2. st' \in Store /\ slots \in Nat /\ stored' \in [Calls -> Nat] /\ stored[c] \in Nat
  BY <1>0, <1>1 DEF TypeOK
<1>3. req[c][a].at \in {"wire", "handling", "submitting", "doomed"} /\ req[c][a].at \notin Serving
  BY <1>1 DEF Serving
<1>4. CASE slots < MaxConns
  <2>0. slots' = slots + 1
    BY <1>4 DEF connLimitMW
  <2>1. Move(c, a, "handling", "")
    BY <1>4 DEF connLimitMW
  <2>2. PICK at \in Serving, x \in Code : Move(c, a, at, x)
    BY <2>1 DEF Serving, Code
  <2>3. at \in Ats
    BY DEF Serving, Ats
  <2>4. Cardinality(Served') = Cardinality(Served) + 1
    BY <1>0, <1>3, <2>2, <2>3, ServedMore
  <2>7. slots' = slots + 1 /\ slots' \in Nat /\ MaxConns \in Nat
    BY <1>2, <2>0, ConstantsAssumption
  <2>5. SlotInv'
    <3>1. slots' <= MaxConns
      BY <1>2, <1>4, <2>7
    <3>2. slots' = Cardinality(Served')
      BY <1>0, <2>4, <2>7 DEF SlotInv
    <3> QED
      BY <3>1, <3>2 DEF SlotInv
  <2>6. TypeOK' /\ CallInv'
    <3>1. st'.ids = st.ids /\ st'.lost = st.lost
      BY <1>1
    <3> QED
      BY <1>1, <1>2, <1>3, <2>2, <2>7, <3>1, MoveStep
  <2> QED
    BY <2>5, <2>6 DEF IInv
<1>5. CASE ~(slots < MaxConns)
  <2>0. "busy" \in Codes /\ "busy" # "ok"
    BY DEF Codes
  <2>1. slots' = slots /\ Reply(c, a, "busy")
    BY <1>5 DEF connLimitMW
  <2>2. PICK code \in Codes : code = "busy" /\ Reply(c, a, code)
    BY <2>0, <2>1
  <2>3. PICK at \in {"gone", "replied"}, x \in Code : Move(c, a, at, x)
    BY <1>0, <2>2, ReplyFacts
  <2>4. at \in Ats /\ at \notin Serving
    BY DEF Ats, Serving
  <2>5. Served' = Served
    BY <1>0, <1>3, <2>3, <2>4, ServedKept
  <2>6. SlotInv'
    BY <1>0, <2>1, <2>5 DEF SlotInv
  <2>7. req' \in [Calls -> [Attempts -> Request]] /\ \A d \in Calls : d # c => req'[d] = req[d]
    BY <1>0, <2>3, <2>4, MoveOne
  <2>8. TypeOK'
    BY <1>0, <1>1, <2>1, <2>7 DEF TypeOK
  <2>9. SendInv(c)' /\ StoreInv(c)' /\ AnswerInv(c)'
    <3>1. StoreInv(c)
      BY <1>0 DEF CallInv
    <3>2. /\ c \in st'.ids => stored'[c] > 0
          /\ c \notin st'.lost => stored'[c] <= 1
                         /\ (Repeats(kind[c]) /\ stored'[c] > 0 => c \in st'.ids)
      BY <1>1, <3>1 DEF StoreInv
    <3>3. stored'[c] >= stored[c] /\ stored'[c] = stored[c] /\ code # "ok"
      BY <1>1, <1>2, <2>0, <2>2
    <3> QED
      BY <1>1, <1>2, <1>3, <2>2, <3>2, <3>3, ReplyKeeps
  <2>10. ASSUME NEW d \in Calls, d # c
         PROVE  SendInv(d)' /\ StoreInv(d)' /\ AnswerInv(d)'
    <3>1. client'[d] = client[d] /\ stored'[d] = stored[d] /\ st' = st /\ kind' = kind
          /\ req'[d] = req[d]
      BY <1>1, <2>7, <2>10
    <3> QED
      BY <1>0, <2>10, <3>1, OtherCalls
  <2>11. CallInv'
    BY <2>9, <2>10 DEF CallInv
  <2> QED
    BY <2>6, <2>8, <2>11 DEF IInv
<1> QED
  BY <1>4, <1>5

\* A panic of the handler, a refusal and a caller who left end a request without
\* a command, whatever the code.
LEMMA recoverMWStep ==
    ASSUME IInv, NEW c \in Calls, NEW a \in Attempts, recoverMW(c, a)
    PROVE  IInv'
<1>1. /\ req[c][a].at \in Serving /\ kind' = kind /\ client' = client /\ st' = st
      /\ stored' = stored
  BY DEF recoverMW, Serving
<1>2. Finish(c, a, "internal")
  BY DEF recoverMW
<1>3. "internal" \in Codes /\ "internal" # "ok"
  BY DEF Codes
<1>4. st' \in Store /\ st'.ids = st.ids /\ st'.lost = st.lost
  BY <1>1 DEF IInv, TypeOK
<1> QED
  BY <1>1, <1>2, <1>3, <1>4, FinishQuietly

LEMMA routeHandlerStep ==
    ASSUME IInv, NEW c \in Calls, NEW a \in Attempts, routeHandler(c, a)
    PROVE  IInv'
<1>0. TypeOK /\ SlotInv
  BY DEF IInv
<1>1. /\ req[c][a].at = "handling" /\ kind' = kind /\ client' = client
      /\ stored' = stored
  BY DEF routeHandler
<1>2. req[c][a].at \in Serving /\ req[c][a].at \in {"wire", "handling", "submitting", "doomed"}
  BY <1>1 DEF Serving
<1>3. st' = st \/ st' = [st EXCEPT !.stream = TRUE, !.window = TRUE]
  BY DEF routeHandler
<1>4. st \in Store /\ kind[c] \in Kind /\ slots \in Nat
  BY <1>0 DEF TypeOK
<1>5. st' \in Store /\ st'.ids = st.ids /\ st'.lost = st.lost
  BY <1>3, <1>4 DEF Store
<1>6. CASE Handler(kind[c]) = "submit"
  <2>1. slots' = slots
    BY <1>6 DEF routeHandler
  <2>2. Move(c, a, "submitting", "")
    BY <1>6 DEF routeHandler
  <2>3. PICK at \in Serving, x \in Code : Move(c, a, at, x)
    BY <2>2 DEF Serving, Code
  <2>4. at \in Ats
    BY DEF Serving, Ats
  <2>5. Served' = Served
    BY <1>0, <1>2, <2>3, <2>4, ServedKept
  <2>6. SlotInv'
    BY <1>0, <2>1, <2>5 DEF SlotInv
  <2>7. slots' \in Nat
    BY <1>4, <2>1
  <2>8. TypeOK' /\ CallInv'
    BY <1>1, <1>2, <1>5, <2>3, <2>7, MoveStep
  <2> QED
    BY <2>6, <2>8 DEF IInv
<1>7. CASE Handler(kind[c]) # "submit"
  <2>1. PICK code \in Codes :
           /\ code = Handler(kind[c])
           /\ kind[c].route = "publish_message" => code # "ok"
    BY <1>0, <1>4, <1>7, HandlerCodes
  <2>2. Finish(c, a, code)
    BY <1>7, <2>1 DEF routeHandler
  <2> QED
    BY <1>1, <1>2, <1>5, <2>1, <2>2, FinishQuietly
<1> QED
  BY <1>6, <1>7

LEMMA classifySubmitStep ==
    ASSUME IInv, NEW c \in Calls, NEW a \in Attempts, classifySubmit(c, a)
    PROVE  IInv'
<1>1. /\ req[c][a].at \in Serving /\ kind' = kind /\ client' = client /\ st' = st
      /\ stored' = stored
  BY DEF classifySubmit, Serving
<1>2. PICK code \in Codes : code # "ok" /\ Finish(c, a, code)
  <2>1. Finish(c, a, IF st.latched THEN "read_only" ELSE "busy")
    BY DEF classifySubmit
  <2> DEFINE code == IF st.latched THEN "read_only" ELSE "busy"
  <2>2. code \in Codes /\ code # "ok"
    BY DEF Codes
  <2> HIDE DEF code
  <2>3. Finish(c, a, code)
    BY <2>1 DEF code
  <2> QED
    BY <2>2, <2>3
<1>4. st' \in Store /\ st'.ids = st.ids /\ st'.lost = st.lost
  BY <1>1 DEF IInv, TypeOK
<1> QED
  BY <1>1, <1>2, <1>4, FinishQuietly

LEMMA AbandonStep ==
    ASSUME IInv, NEW c \in Calls, NEW a \in Attempts, Abandon(c, a)
    PROVE  IInv'
<1>1. /\ req[c][a].at \in Serving /\ kind' = kind /\ client' = client /\ st' = st
      /\ stored' = stored
  BY DEF Abandon, Serving
<1>2. Finish(c, a, "gone")
  BY DEF Abandon
<1>3. "gone" \in Codes /\ "gone" # "ok"
  BY DEF Codes
<1>4. st' \in Store /\ st'.ids = st.ids /\ st'.lost = st.lost
  BY <1>1 DEF IInv, TypeOK
<1> QED
  BY <1>1, <1>2, <1>3, <1>4, FinishQuietly

\* The callers of a batch whose commit failed are told so.
LEMMA failAllStep ==
    ASSUME IInv, NEW c \in Calls, NEW a \in Attempts, failAll(c, a)
    PROVE  IInv'
<1>1. /\ req[c][a].at \in Serving /\ kind' = kind /\ client' = client /\ st' = st
      /\ stored' = stored
  BY DEF failAll, Serving
<1>2. Finish(c, a, "commit_unknown")
  BY DEF failAll
<1>3. "commit_unknown" \in Codes /\ "commit_unknown" # "ok"
  BY DEF Codes
<1>4. st' \in Store /\ st'.ids = st.ids /\ st'.lost = st.lost
  BY <1>1 DEF IInv, TypeOK
<1> QED
  BY <1>1, <1>2, <1>3, <1>4, FinishQuietly

\* The requests of a batch whose commit fails stay served and store nothing.
LEMMA doomedCommitStep ==
    ASSUME IInv, NEW batch \in SUBSET Submitting, doomedCommit(batch)
    PROVE  IInv'
<1> DEFINE r == [at |-> "doomed", code |-> ""]
<1>0. TypeOK /\ CallInv /\ SlotInv
  BY DEF IInv
<1>1. /\ kind' = kind /\ client' = client /\ slots' = slots /\ stored' = stored
      /\ st' = [st EXCEPT !.latched = TRUE]
      /\ req' = [c \in Calls |-> [a \in Attempts |-> IF <<c, a>> \in batch THEN r ELSE req[c][a]]]
  BY DEF doomedCommit
<1>2. r \in Request /\ r.at = "doomed"
  BY DEF Request, Ats, Code
<1> HIDE DEF r
<1>3. ASSUME NEW c \in Calls, NEW a \in Attempts
      PROVE  /\ req'[c][a] \in Request
             /\ \/ req'[c][a] = req[c][a]
                \/ req'[c][a].at = "doomed" /\ req[c][a].at = "submitting"
  <2>1. <<c, a>> \in batch => req[c][a].at = "submitting"
    BY DEF Submitting
  <2>2. req'[c][a] = IF <<c, a>> \in batch THEN r ELSE req[c][a]
    BY <1>1
  <2>3. req[c][a] \in Request
    BY <1>0 DEF TypeOK
  <2> QED
    BY <1>2, <2>1, <2>2, <2>3
<1>4. req' \in [Calls -> [Attempts -> Request]]
  <2> DEFINE row(c) == [a \in Attempts |-> IF <<c, a>> \in batch THEN r ELSE req[c][a]]
  <2>1. \A c \in Calls : req'[c] = row(c)
    BY <1>1
  <2>2. ASSUME NEW c \in Calls PROVE row(c) \in [Attempts -> Request]
    BY <1>0, <1>2 DEF TypeOK
  <2>3. req' = [c \in Calls |-> row(c)]
    BY <1>1
  <2> HIDE DEF row
  <2> QED
    BY <2>2, <2>3
<1>5. st \in Store /\ st' \in Store /\ st'.ids = st.ids /\ st'.lost = st.lost
  BY <1>0, <1>1 DEF TypeOK, Store
<1>6. TypeOK'
  BY <1>0, <1>1, <1>4, <1>5 DEF TypeOK
<1>7. SlotInv'
  <2>1. \A c \in Calls, a \in Attempts : req'[c][a].at \in Serving <=> req[c][a].at \in Serving
    BY <1>3 DEF Serving
  <2>2. \A c \in Calls, a \in Attempts : <<c, a>> \in Served' <=> <<c, a>> \in Served
    BY <2>1, ServedMember
  <2>3. \A x \in Calls \X Attempts : x \in Served' <=> x \in Served
    BY <2>2
  <2>4. Served' = Served
    BY <2>3, ServedMember
  <2> QED
    BY <1>0, <1>1, <2>4 DEF SlotInv
<1>8. ASSUME NEW c \in Calls PROVE SendInv(c)' /\ StoreInv(c)' /\ AnswerInv(c)'
  <2>0. SendInv(c) /\ StoreInv(c) /\ AnswerInv(c) /\ client[c].attempt \in Attempts
        /\ Attempts = {1, 2}
    BY <1>0 DEF CallInv, TypeOK, Caller, Attempts
  <2>1. \A a \in Attempts :
           /\ req'[c][a].at = "unsent" <=> req[c][a].at = "unsent"
           /\ req'[c][a].at = "replied" => req'[c][a] = req[c][a]
           /\ req'[c][a].at \in Early <=> req[c][a].at \in Early
           /\ req'[c][a].at = "gone" <=> req[c][a].at = "gone"
    BY <1>3 DEF Early
  <2>2. SendInv(c)'
    BY <1>1, <2>0, <2>1 DEF SendInv, Repeats
  <2>3. StoreInv(c)'
    BY <1>1, <1>5, <2>0, <2>1 DEF StoreInv, Repeats
  <2>4. AnswerInv(c)'
    BY <1>1, <2>0, <2>1 DEF AnswerInv
  <2> QED
    BY <2>2, <2>3, <2>4
<1> QED
  BY <1>6, <1>7, <1>8 DEF IInv, CallInv

\* A sweep, or retention, loses one id.
LEMMA sweepDedupStep ==
    ASSUME IInv, NEW c \in Calls, sweepDedup(c)
    PROVE  IInv'
<1>0. TypeOK /\ CallInv /\ SlotInv
  BY DEF IInv
<1>1. /\ kind' = kind /\ client' = client /\ slots' = slots /\ stored' = stored /\ req' = req
      /\ st' = [st EXCEPT !.ids = @ \ {c}, !.lost = @ \cup {c}]
  BY DEF sweepDedup
<1>2. st' \in Store /\ st'.ids = st.ids \ {c} /\ st'.lost = st.lost \cup {c}
  BY <1>0, <1>1 DEF TypeOK, Store
<1>3. TypeOK'
  BY <1>0, <1>1, <1>2 DEF TypeOK
<1>4. SlotInv'
  BY <1>0, <1>1 DEF SlotInv, Served
<1>5. ASSUME NEW d \in Calls PROVE SendInv(d)' /\ StoreInv(d)' /\ AnswerInv(d)'
  BY <1>0, <1>1, <1>2, OtherCalls
<1> QED
  BY <1>3, <1>4, <1>5 DEF IInv, CallInv

\* A command that runs, with its answer or with commit_unknown.
LEMMA CommitStep ==
    ASSUME IInv, NEW c \in Calls, NEW a \in Attempts,
           Commit(c, a) \/ SubmitTimeout(c, a)
    PROVE  IInv'
<1>1. req[c][a].at = "submitting" /\ Effect(c) /\ kind' = kind /\ client' = client
  BY DEF Commit, SubmitTimeout
<1>2. PICK code \in Codes :
         code \in {CommandCode(kind[c]), "commit_unknown"} /\ Finish(c, a, code)
  <2>1. CommandCode(kind[c]) \in Codes /\ "commit_unknown" \in Codes
    BY CommandCodes DEF Codes
  <2>2. Finish(c, a, CommandCode(kind[c])) \/ Finish(c, a, "commit_unknown")
    BY DEF Commit, SubmitTimeout
  <2> QED
    BY <2>1, <2>2
<1>3. req[c][a].at \in Serving
  BY <1>1 DEF Serving
<1>4. /\ st' \in Store /\ stored' \in [Calls -> Nat]
      /\ \A d \in Calls : d # c => stored'[d] = stored[d]
      /\ \A d \in Calls : d # c => Held(d)
      /\ stored'[c] >= stored[c]
      /\ CommandCode(kind[c]) # "ok" => stored'[c] = stored[c]
      /\ kind[c].route = "publish_message" /\ CommandCode(kind[c]) = "ok" => stored'[c] > 0
      /\ c \in st'.ids => stored'[c] > 0
      /\ c \notin st'.lost => stored'[c] <= 1 /\ (Repeats(kind[c]) /\ stored'[c] > 0 => c \in st'.ids)
  BY <1>1, EffectStores
<1>5. code \in Refusals => code = CommandCode(kind[c]) /\ code # "ok"
  BY <1>2 DEF Refusals
<1>6. code = "ok" => CommandCode(kind[c]) = "ok"
  BY <1>2
<1>7. client[c].attempt = 1 /\ code \in Refusals => stored'[c] = stored[c]
  BY <1>4, <1>5
<1>8. kind[c].route = "publish_message" /\ code = "ok" => stored'[c] > 0
  BY <1>4, <1>6
<1> QED
  BY <1>1, <1>2, <1>3, <1>4, <1>7, <1>8, FinishStep

-----------------------------------------------------------------------------
(* The steps of the client library. *)

\* A call is sent, once per attempt.
LEMMA sendStep ==
    ASSUME IInv, NEW c \in Calls, send(c)
    PROVE  IInv'
<1> DEFINE a == client[c].attempt
<1>0. TypeOK /\ CallInv /\ SlotInv /\ SendInv(c) /\ StoreInv(c) /\ AnswerInv(c)
  BY DEF IInv, CallInv
<1>1. /\ kind' = kind /\ slots' = slots /\ st' = st /\ stored' = stored
      /\ client[c].outcome = "" /\ ~client[c].waiting
      /\ client' = [client EXCEPT ![c].waiting = TRUE]
  BY DEF send
<1>2. Move(c, a, "wire", "")
  BY DEF send
<1>3. a \in Attempts /\ Attempts = {1, 2} /\ client \in [Calls -> Caller]
  BY <1>0 DEF TypeOK, Caller, Attempts
<1>4. /\ client'[c].attempt = a /\ client'[c].waiting = TRUE /\ client'[c].outcome = ""
      /\ client' \in [Calls -> Caller]
      /\ \A d \in Calls : d # c => client'[d] = client[d]
  BY <1>1, <1>3 DEF Caller
<1> HIDE DEF a
<1>5. PICK at \in Ats, x \in Code : at = "wire" /\ Move(c, a, at, x)
  BY <1>2 DEF Ats, Code
<1>6. /\ req' \in [Calls -> [Attempts -> Request]] /\ req'[c][a].at = "wire"
      /\ \A b \in Attempts : b # a => req'[c][b] = req[c][b]
      /\ \A d \in Calls : d # c => req'[d] = req[d]
  BY <1>0, <1>3, <1>5, MoveOne
<1>7. req[c][a].at = "unsent"
  BY <1>0, <1>1 DEF SendInv, a
<1>8. Served' = Served
  <2>1. at \notin Serving /\ req[c][a].at \notin Serving
    BY <1>5, <1>7 DEF Serving
  <2> QED
    BY <1>0, <1>3, <1>5, <2>1, ServedKept
<1>9. SlotInv' /\ TypeOK'
  BY <1>0, <1>1, <1>4, <1>6, <1>8 DEF SlotInv, TypeOK
<1>10. SendInv(c)'
  <2>1. client'[c].attempt = 2 => Repeats(kind[c])
    BY <1>0, <1>4 DEF SendInv, a
  <2>4. a = 1 => req[c][2].at = "unsent"
    BY <1>0 DEF SendInv, a
  <2>5. 2 \in Attempts /\ (a = 1 => a # 2)
    BY <1>3
  <2>2. client'[c].attempt = 1 => req'[c][2].at = "unsent"
    BY <1>4, <1>6, <2>4, <2>5
  <2>3. \A b \in Attempts : req'[c][b].at = "replied" => req'[c][b].code \in Codes
    BY <1>0, <1>6 DEF SendInv
  <2> QED
    BY <1>1, <1>4, <2>1, <2>2, <2>3 DEF SendInv, Repeats
<1>11. StoreInv(c)'
  <2>1. client'[c].attempt = 1 => stored[c] = 0
    BY <1>0, <1>4, <1>7 DEF StoreInv, Early, a
  <2>3. /\ c \in st.ids => stored[c] > 0
        /\ c \notin st.lost => stored[c] <= 1 /\ (Repeats(kind[c]) /\ stored[c] > 0 => c \in st.ids)
    BY <1>0 DEF StoreInv
  <2> QED
    BY <1>1, <2>1, <2>3 DEF StoreInv, Repeats
<1>12. AnswerInv(c)'
  <2>1. \A b \in Attempts : req'[c][b].at = "replied" => req'[c][b] = req[c][b]
    BY <1>6
  <2>2. client'[c].outcome \notin Refusals /\ client'[c].outcome # "ok"
    BY <1>4 DEF Refusals, Codes
  <2>3. client'[c].attempt = client[c].attempt
    BY <1>4 DEF a
  <2> QED
    BY <1>0, <1>1, <1>3, <2>1, <2>2, <2>3 DEF AnswerInv
<1>13. ASSUME NEW d \in Calls, d # c
       PROVE  SendInv(d)' /\ StoreInv(d)' /\ AnswerInv(d)'
  <2>1. client'[d] = client[d] /\ stored'[d] = stored[d] /\ st' = st /\ kind' = kind
        /\ req'[d] = req[d]
    BY <1>1, <1>4, <1>6, <1>13
  <2> QED
    BY <1>0, <1>13, <2>1, OtherCalls
<1>14. CallInv'
  BY <1>10, <1>11, <1>12, <1>13 DEF CallInv
<1> QED
  BY <1>9, <1>14 DEF IInv

\* An answer, or the want of one, is classified: the call is over, or it is a
\* publish with a message id, and sent once more.
LEMMA AnsweredFacts ==
    ASSUME TypeOK, NEW c \in Calls, NEW code \in Codes, Answered(c, code)
    PROVE  /\ client' \in [Calls -> Caller]
           /\ \A d \in Calls : d # c => client'[d] = client[d]
           /\ client'[c].waiting = FALSE
           /\ \/ /\ client[c].attempt = 1 /\ client'[c].attempt = 2 /\ client'[c].outcome = ""
                 /\ Repeats(kind[c])
              \/ client'[c].attempt = client[c].attempt /\ client'[c].outcome = code
<1>1. client \in [Calls -> Caller] /\ client[c].attempt \in Attempts /\ 2 \in Attempts
  BY DEF TypeOK, Caller, Attempts
<1>2. CASE client[c].attempt = 1 /\ retrySafePublish(kind[c], code)
  <2> DEFINE r == [attempt |-> 2, waiting |-> FALSE, outcome |-> ""]
  <2>1. client' = [client EXCEPT ![c] = r]
    BY <1>2 DEF Answered
  <2>2. r \in Caller
    BY <1>1 DEF Caller, Code
  <2>3. Repeats(kind[c])
    BY <1>2 DEF retrySafePublish, Repeats
  <2> QED
    BY <1>1, <1>2, <2>1, <2>2, <2>3
<1>3. CASE ~(client[c].attempt = 1 /\ retrySafePublish(kind[c], code))
  <2> DEFINE r == [attempt |-> client[c].attempt, waiting |-> FALSE, outcome |-> code]
  <2>1. client' = [client EXCEPT ![c] = r]
    BY <1>3 DEF Answered
  <2>2. r \in Caller
    BY <1>1 DEF Caller, Code
  <2> QED
    BY <1>1, <2>1, <2>2
<1> QED
  BY <1>2, <1>3

\* At most this request goes, and it was not being served.
Dropped(c, a) ==
    /\ req' \in [Calls -> [Attempts -> Request]] /\ Served' = Served
    /\ \A d \in Calls : d # c => req'[d] = req[d]
    /\ \A b \in Attempts : req'[c][b] = req[c][b] \/ (b = a /\ req'[c][b].at = "gone")

\* A request that was not being served goes when its answer was read or its
\* connection broke.
LEMMA GoneIsDropped ==
    ASSUME TypeOK, NEW c \in Calls, NEW a \in Attempts, NEW at \in Ats, NEW x \in Code,
           at = "gone", Move(c, a, at, x), req[c][a].at \notin Serving
    PROVE  Dropped(c, a) /\ req'[c][a].at = "gone"
<1>1. at \notin Serving
  BY DEF Serving
<1>2. Served' = Served
  BY <1>1, ServedKept
<1>3. /\ req' \in [Calls -> [Attempts -> Request]] /\ req'[c][a].at = at
      /\ \A b \in Attempts : b # a => req'[c][b] = req[c][b]
      /\ \A d \in Calls : d # c => req'[d] = req[d]
  BY MoveOne
<1> QED
  BY <1>2, <1>3 DEF Dropped

\* What is said of a call survives its answer, when the answer is true.
LEMMA AnsweredStep ==
    ASSUME IInv, NEW c \in Calls, NEW code \in Codes, Answered(c, code),
           kind' = kind, slots' = slots, st' = st, stored' = stored,
           Dropped(c, client[c].attempt),
           kind[c].route = "publish_message" /\ code = "ok" => stored[c] > 0,
           client[c].attempt = 1 /\ code \in Refusals => stored[c] = 0 /\ req'[c][1].at = "gone"
    PROVE  IInv'
<1> DEFINE a == client[c].attempt
<1>0. TypeOK /\ CallInv /\ SlotInv /\ SendInv(c) /\ StoreInv(c) /\ AnswerInv(c)
  BY DEF IInv, CallInv
<1>1. /\ client' \in [Calls -> Caller]
      /\ \A d \in Calls : d # c => client'[d] = client[d]
      /\ client'[c].waiting = FALSE
      /\ \/ a = 1 /\ client'[c].attempt = 2 /\ client'[c].outcome = "" /\ Repeats(kind[c])
         \/ client'[c].attempt = a /\ client'[c].outcome = code
  BY <1>0, AnsweredFacts
<1>2. a \in Attempts /\ Attempts = {1, 2} /\ stored[c] \in Nat
  BY <1>0 DEF TypeOK, Caller, Attempts
<1>3. /\ req' \in [Calls -> [Attempts -> Request]] /\ Served' = Served
      /\ \A d \in Calls : d # c => req'[d] = req[d]
      /\ \A b \in Attempts : req'[c][b] = req[c][b] \/ (b = a /\ req'[c][b].at = "gone")
  BY DEF Dropped
<1>10. code # ""
  BY DEF Codes
<1>4. SlotInv' /\ TypeOK'
  BY <1>0, <1>1, <1>3 DEF SlotInv, TypeOK
<1>5. SendInv(c)'
  <2>1. client'[c].attempt = 2 => Repeats(kind[c])
    BY <1>0, <1>1 DEF SendInv
  <2>2. a = 1 => req'[c][2].at = "unsent"
    <3>1. a = 1 => req[c][2].at = "unsent"
      BY <1>0 DEF SendInv
    <3>2. 2 \in Attempts /\ (a = 1 => a # 2)
      BY <1>2
    <3> HIDE DEF a
    <3> QED
      BY <1>3, <3>1, <3>2
  <2>3. client'[c].outcome = "" => client'[c].attempt = 2 /\ a = 1
    BY <1>1, <1>10
  <2>4. \A b \in Attempts : req'[c][b].at = "replied" => req'[c][b].code \in Codes
    <3>1. \A b \in Attempts : req[c][b].at = "replied" => req[c][b].code \in Codes
      BY <1>0 DEF SendInv
    <3> QED
      BY <1>3, <3>1
  <2>5. client'[c].attempt = 1 => a = 1
    BY <1>1
  <2> HIDE DEF a
  <2> QED
    BY <1>1, <2>1, <2>2, <2>3, <2>4, <2>5 DEF SendInv, Repeats
<1>6. StoreInv(c)'
  <2>1. client'[c].attempt = 1 /\ req'[c][1].at \in Early => stored[c] = 0
    <3>1. client'[c].attempt = 1 => a = 1
      BY <1>1
    <3>2. "gone" \notin Early /\ 1 \in Attempts
      BY <1>2 DEF Early
    <3>3. a = 1 /\ req[c][1].at \in Early => stored[c] = 0
      BY <1>0 DEF StoreInv
    <3> QED
      BY <1>3, <3>1, <3>2, <3>3
  <2>3. /\ c \in st.ids => stored[c] > 0
        /\ c \notin st.lost => stored[c] <= 1 /\ (Repeats(kind[c]) /\ stored[c] > 0 => c \in st.ids)
    BY <1>0 DEF StoreInv
  <2> QED
    BY <2>1, <2>3 DEF StoreInv, Repeats
<1>7. AnswerInv(c)'
  <2>1. \A b \in Attempts : req'[c][b].at = "replied" => req'[c][b] = req[c][b]
    BY <1>3
  <2>2. \A b \in Attempts :
           kind[c].route = "publish_message" /\ req'[c][b].at = "replied" /\ req'[c][b].code = "ok"
              => stored[c] > 0
    BY <1>0, <2>1 DEF AnswerInv
  <2>3. client'[c].attempt = 1 => a = 1
    BY <1>1
  <2>4. client'[c].attempt = 1 /\ req'[c][1].at = "replied" /\ req'[c][1].code \in Refusals
           => stored[c] = 0
    BY <1>0, <1>2, <2>1, <2>3 DEF AnswerInv
  <2>5. kind[c].route = "publish_message" /\ client'[c].outcome = "ok" => stored[c] > 0
    BY <1>1
  <2>6. client'[c].outcome \in Refusals /\ client'[c].attempt = 1
           => stored[c] = 0 /\ req'[c][1].at = "gone"
    <3>1. a = 1 /\ code \in Refusals => stored[c] = 0 /\ req'[c][1].at = "gone"
      OBVIOUS
    <3>2. "" \notin Refusals
      BY DEF Refusals, Codes
    <3> HIDE DEF a
    <3> QED
      BY <1>1, <2>3, <3>1, <3>2
  <2> HIDE DEF a
  <2> QED
    BY <2>2, <2>4, <2>5, <2>6 DEF AnswerInv
<1>8. ASSUME NEW d \in Calls, d # c
      PROVE  SendInv(d)' /\ StoreInv(d)' /\ AnswerInv(d)'
  <2>1. client'[d] = client[d] /\ stored'[d] = stored[d] /\ st' = st
        /\ req'[d] = req[d]
    BY <1>1, <1>3, <1>8
  <2> QED
    BY <1>0, <1>8, <2>1, OtherCalls
<1>9. CallInv'
  BY <1>5, <1>6, <1>7, <1>8 DEF CallInv
<1> QED
  BY <1>4, <1>9 DEF IInv

\* An answer arrives.
LEMMA ReceiveStep ==
    ASSUME IInv, NEW c \in Calls, Receive(c)
    PROVE  IInv'
<1> DEFINE a == client[c].attempt
<1>0. TypeOK /\ SendInv(c) /\ AnswerInv(c)
  BY DEF IInv, CallInv
<1>1. a \in Attempts /\ "gone" \in Ats /\ "" \in Code
  BY <1>0 DEF TypeOK, Caller, Ats, Code
<1>2. req[c][a].at = "replied" /\ kind' = kind /\ slots' = slots /\ st' = st /\ stored' = stored
  BY DEF Receive
<1>3. Answered(c, req[c][a].code) /\ Move(c, a, "gone", "")
  BY DEF Receive
<1>4. PICK code \in Codes : code = req[c][a].code /\ Answered(c, code)
  BY <1>0, <1>1, <1>2, <1>3 DEF SendInv
<1>5. req[c][a].at \notin Serving
  BY <1>2 DEF Serving
<1>6. Dropped(c, a) /\ req'[c][a].at = "gone"
  <2>1. PICK at \in Ats, x \in Code : at = "gone" /\ Move(c, a, at, x)
    BY <1>1, <1>3
  <2> HIDE DEF a
  <2> QED
    BY <1>0, <1>1, <1>5, <2>1, GoneIsDropped
<1>7. kind[c].route = "publish_message" /\ code = "ok" => stored[c] > 0
  BY <1>0, <1>1, <1>2, <1>4 DEF AnswerInv
<1>8. a = 1 /\ code \in Refusals => stored[c] = 0 /\ req'[c][1].at = "gone"
  BY <1>0, <1>2, <1>4, <1>6 DEF AnswerInv
<1> QED
  BY <1>2, <1>4, <1>6, <1>7, <1>8, AnsweredStep

\* The connection breaks, or the caller's own timeout ends: neither is a refusal.
LEMMA BreakStep ==
    ASSUME IInv, NEW c \in Calls, Break(c)
    PROVE  IInv'
<1>1. PICK code \in Codes : code \in {"unavailable", "timeout"} /\ Answered(c, code)
  BY DEF Break, Codes
<1>2. code # "ok" /\ code \notin Refusals
  BY <1>1 DEF Refusals
<1>3. kind' = kind /\ slots' = slots /\ st' = st /\ stored' = stored
  BY DEF Break
<1>4. Dropped(c, client[c].attempt)
  <2> DEFINE a == client[c].attempt
  <2>0. TypeOK /\ a \in Attempts
    BY DEF IInv, TypeOK, Caller
  <2>1. CASE req' = req
    BY <2>0, <2>1 DEF Dropped, TypeOK, Served
  <2>2. CASE req' # req
    <3>1. req[c][a].at \notin Serving
      BY <2>2 DEF Break, Serving
    <3>2. Move(c, a, "gone", "")
      BY <2>2 DEF Break
    <3> HIDE DEF a
    <3>3. PICK at \in Ats, x \in Code : at = "gone" /\ Move(c, a, at, x)
      BY <3>2 DEF Ats, Code
    <3>4. Dropped(c, a)
      BY <2>0, <3>1, <3>3, GoneIsDropped
    <3> QED
      BY <3>4 DEF a
  <2> QED
    BY <2>1, <2>2
<1> QED
  BY <1>1, <1>2, <1>3, <1>4, AnsweredStep

-----------------------------------------------------------------------------
(* The theorems. *)

\* Nothing is stored, sent or served at first.
LEMMA InitIInv ==
    ASSUME Init
    PROVE  IInv
<1>1. kind \in [Calls -> Kind]
  BY ConstantsAssumption DEF Init
<1>2. client = [c \in Calls |-> [attempt |-> 1, waiting |-> FALSE, outcome |-> ""]]
  BY DEF Init
<1>3. req = [c \in Calls |-> [a \in Attempts |-> Unsent]]
  BY DEF Init
<1>4. slots = 0 /\ stored = [c \in Calls |-> 0]
  BY DEF Init
<1>5. st \in Store /\ st.ids = {}
  <2> DEFINE Shape == [stream : BOOLEAN, consumer : {None, "f1"}, row : BOOLEAN,
                       window : BOOLEAN, dev : BOOLEAN]
  <2>1. PICK x \in Shape :
           st = [stream |-> x.stream, window |-> x.window, consumer |-> x.consumer, row |-> x.row,
                 paused |-> FALSE, ids |-> {}, lost |-> {}, latched |-> FALSE, dev |-> x.dev]
    BY DEF Init, Fresh
  <2>2. x.stream \in BOOLEAN /\ x.window \in BOOLEAN /\ x.row \in BOOLEAN /\ x.dev \in BOOLEAN
        /\ x.consumer \in Filters \cup {None}
    BY DEF Filters
  <2>3. {} \in SUBSET Calls /\ FALSE \in BOOLEAN
    OBVIOUS
  <2> QED
    BY <2>1, <2>2, <2>3 DEF Store
<1>6. Unsent \in Request /\ Unsent.at = "unsent"
  BY DEF Unsent, Request, Ats, Code
<1>7. /\ req \in [Calls -> [Attempts -> Request]]
      /\ \A c \in Calls, a \in Attempts : req[c][a].at = "unsent"
  BY <1>3, <1>6
<1>8. /\ client \in [Calls -> Caller]
      /\ \A c \in Calls : client[c].attempt = 1 /\ client[c].outcome = ""
  <2> DEFINE r == [attempt |-> 1, waiting |-> FALSE, outcome |-> ""]
  <2>1. 1 \in Attempts /\ "" \in Code
    BY DEF Attempts, Code
  <2>2. r \in Caller /\ r.attempt = 1 /\ r.outcome = ""
    BY <2>1 DEF Caller
  <2>3. client = [c \in Calls |-> r]
    BY <1>2
  <2> HIDE DEF r
  <2> QED
    BY <2>2, <2>3
<1>9. TypeOK
  BY <1>1, <1>4, <1>5, <1>7, <1>8 DEF TypeOK
<1>10. Served = {}
  BY <1>7 DEF Served
<1>11. SlotInv
  BY <1>4, <1>10, FS_EmptySet, ConstantsAssumption DEF SlotInv
<1>12. ASSUME NEW c \in Calls PROVE SendInv(c) /\ StoreInv(c) /\ AnswerInv(c)
  <2>1. 1 \in Attempts /\ 2 \in Attempts /\ stored[c] = 0
    BY <1>4 DEF Attempts
  <2>2. SendInv(c)
    <3>1. \A a \in Attempts : req[c][a].at = "unsent"
      BY <1>7
    <3>2. client[c].attempt = 1
      BY <1>8
    <3>3. client[c].attempt # 2
      BY <3>2
    <3>4. req[c][2].at = "unsent" /\ req[c][client[c].attempt].at = "unsent"
      BY <2>1, <3>1, <3>2
    <3>5. \A a \in Attempts : req[c][a].at # "replied"
      BY <3>1
    <3> QED
      BY <3>3, <3>4, <3>5 DEF SendInv
  <2>3. StoreInv(c)
    BY <1>5, <2>1 DEF StoreInv
  <2>4. AnswerInv(c)
    BY <1>7, <1>8, <2>1 DEF AnswerInv, Refusals, Codes
  <2> QED
    BY <2>2, <2>3, <2>4
<1> QED
  BY <1>9, <1>11, <1>12 DEF IInv, CallInv

\* Every step keeps the invariant.
LEMMA NextIInv ==
    ASSUME IInv, [Next]_vars
    PROVE  IInv'
<1>1. ASSUME NEW c \in Calls, send(c) PROVE IInv'
  BY <1>1, sendStep
<1>2. ASSUME NEW c \in Calls, Receive(c) PROVE IInv'
  BY <1>2, ReceiveStep
<1>3. ASSUME NEW c \in Calls, Break(c) PROVE IInv'
  BY <1>3, BreakStep
<1>4. ASSUME NEW c \in Calls, NEW a \in Attempts,
             \/ connLimitMW(c, a) \/ recoverMW(c, a) \/ routeHandler(c, a) \/ Commit(c, a)
             \/ SubmitTimeout(c, a) \/ failAll(c, a) \/ classifySubmit(c, a) \/ Abandon(c, a)
      PROVE  IInv'
  BY <1>4, connLimitMWStep, recoverMWStep, routeHandlerStep, CommitStep, failAllStep,
     classifySubmitStep, AbandonStep
<1>6. ASSUME NEW c \in Calls, sweepDedup(c) PROVE IInv'
  BY <1>6, sweepDedupStep
<1>7. ASSUME NEW batch \in SUBSET Submitting, doomedCommit(batch) PROVE IInv'
  BY <1>7, doomedCommitStep
<1>5. CASE UNCHANGED vars
  <2>1. TypeOK'
    BY <1>5, ZenonT(30) DEF vars, IInv, TypeOK
  <2>2. ASSUME NEW c \in Calls PROVE SendInv(c)' /\ StoreInv(c)' /\ AnswerInv(c)'
    <3>1. SendInv(c) /\ StoreInv(c) /\ AnswerInv(c)
      BY DEF IInv, CallInv
    <3>2. SendInv(c)'
      BY <1>5, <3>1, ZenonT(30) DEF vars, SendInv, Repeats
    <3>3. StoreInv(c)'
      BY <1>5, <3>1, ZenonT(30) DEF vars, StoreInv, Repeats
    <3>4. AnswerInv(c)'
      BY <1>5, <3>1, ZenonT(30) DEF vars, AnswerInv
    <3> QED
      BY <3>2, <3>3, <3>4
  <2>3. SlotInv'
    BY <1>5, ZenonT(30) DEF vars, IInv, SlotInv, Served
  <2> QED
    BY <2>1, <2>2, <2>3 DEF IInv, CallInv
<1> QED
  BY <1>1, <1>2, <1>3, <1>4, <1>5, <1>6, <1>7 DEF Next

\* The inductive invariant holds of every behaviour: for every set of calls of
\* any kinds, every interleaving of their handlers with the engine, and every
\* connection that breaks or times out.
THEOREM Inductive == Spec => []IInv
<1>1. Init => IInv
  BY InitIInv
<1>2. IInv /\ [Next]_vars => IInv'
  BY NextIInv
<1> QED
  BY <1>1, <1>2, PTL DEF Spec

\* A call of Publish stores at most one message, through its retry and beside
\* any other calls, unless the store did not keep its id; its caller is told the
\* truth about it, and the limiter's
\* slots are the requests being served, at most --max-conns of them
\* (client/publish.go, api/publish.go, api/middleware.go).
THEOREM PublishTellsTheTruth == Spec => []CallsAreTrue
<1>1. IInv => CallsAreTrue
  <2> SUFFICES ASSUME IInv PROVE CallsAreTrue
    OBVIOUS
  <2>0. TypeOK /\ CallInv /\ SlotInv
    BY DEF IInv
  <2>1. StoredOnce
    BY <2>0 DEF CallInv, StoreInv, StoredOnce
  <2>2. AnswersAreTrue
    <3> SUFFICES ASSUME NEW c \in Calls, kind[c].route = "publish_message"
                 PROVE  /\ client[c].outcome = "ok" => stored[c] > 0
                        /\ (/\ client[c].outcome \notin {"", "ok"}
                            /\ client[c].attempt = 1
                            /\ client[c].outcome \notin {"commit_unknown", "unavailable", "timeout"})
                           => stored[c] = 0 /\ req[c][1].at = "gone"
      BY DEF AnswersAreTrue
    <3>1. AnswerInv(c) /\ client[c].outcome \in Code
      BY <2>0 DEF CallInv, TypeOK, Caller
    <3> QED
      BY <3>1 DEF AnswerInv, Refusals, Code
  <2>3. SlotsFit
    BY <2>0 DEF SlotInv, SlotsFit, Served
  <2> QED
    BY <2>1, <2>2, <2>3 DEF CallsAreTrue
<1> QED
  BY <1>1, Inductive, PTL

-----------------------------------------------------------------------------
(* Rules: the inductive invariant.  x1, x2 and x3 are its stream, consumer  *)
(* and message.                                                             *)

\* A name with room for the suffix, or one that has used it.
NameOK(n) ==
    /\ n \in [len : Nat, dlqs : Nat]
    /\ \/ n.dlqs = 0 /\ n.len \in 1 .. 60
       \/ n.dlqs = 1 /\ n.len \in 5 .. 64
PatternsOK(ps) == ps \subseteq Seq(R!Tokens) /\ R!ParseSet(ps)
SubjectOK(s) == s \in Seq(R!Tokens) /\ R!ParseSubject(s)
Config == [filters : SUBSET Seq(R!Tokens), ackWait : Nat, maxDeliver : Nat,
           backoff : Seq(Nat), policy : {"", "dlq", "drop"}]
ConfigOK(c) == c \in Config /\ PatternsOK(c.filters) /\ Len(c.backoff) >= 1
Offered == {"ready", "inflight", "dead", "passed"}
Message == [at : {"unsent", "stored"} \cup Offered, subject : Seq(R!Tokens),
            attempts : Nat, elapsed : Nat, asked : Nat]

StreamInv == x1 # R!None => NameOK(x1.name) /\ PatternsOK(x1.subjects)
ConsInv == x2 # R!None => /\ x1 # R!None /\ ConfigOK(x2)
                          /\ x1.name.dlqs > 0 => x2.policy # "dlq"
MsgInv ==
    /\ x3 \in Message
    /\ x3.at # "unsent" => /\ x1 # R!None /\ SubjectOK(x3.subject)
                           /\ R!SetMatch(x1.subjects, x3.subject)
    /\ x3.at \in {"unsent", "stored"} => x3.attempts = 0 /\ x3.elapsed = 0 /\ x3.asked = 0
    /\ x3.at \in Offered => /\ x2 # R!None
                            /\ x3.at = "passed" <=> ~R!SetMatch(x2.filters, x3.subject)

\* Waits(c)[i] is the sum of the first i waits of the ladder.
IsWaits(h, c, n) == h = [i \in 0 .. n |-> IF i = 0 THEN 0 ELSE h[i - 1] + R!Wait(c, i)]
Waits(c) == CHOOSE h : IsWaits(h, c, c.maxDeliver - 1)

\* The message has spent at most `holds` leases and `waits` waits, each wait
\* with its jitter, beside the delays that were asked for.
Within(c, m, holds, waits) ==
    5 * m.elapsed <= 5 * (holds * c.ackWait) + 6 * Waits(c)[waits] + 5 * m.asked
TimeOK(c, m) ==
    /\ m.at = "ready" => m.attempts < c.maxDeliver /\ Within(c, m, m.attempts, m.attempts)
    /\ m.at = "inflight" => /\ m.attempts \in 1 .. c.maxDeliver
                            /\ Within(c, m, m.attempts - 1, m.attempts - 1)
    /\ m.at = "dead" => /\ m.attempts \in 1 .. c.maxDeliver
                        /\ Within(c, m, m.attempts, m.attempts - 1)
TimeInv == x2 # R!None /\ x2.maxDeliver > 0 => TimeOK(x2, x3)

\* A message that is out has been handed out.
LeasedInv == x3.at = "inflight" => x3.attempts >= 1

RulesInv == StreamInv /\ ConsInv /\ MsgInv /\ TimeInv /\ LeasedInv
\* The inductive invariant of the run's specification.
RoutesInv == part = "rules" => RulesInv

-----------------------------------------------------------------------------
(* Patterns. *)

LEMMA RulesBounds ==
  /\ MaxTokens \in Nat
  /\ "*" \notin Literals /\ ">" \notin Literals /\ "" \notin Literals
  BY RulesAssumption DEF R!ConstantsAssumption

\* A subject that parses is made of literals.
LEMMA SubjectIsLiteral ==
  ASSUME NEW s, SubjectOK(s)
  PROVE  /\ Len(s) \in 1 .. MaxTokens /\ s \in [1 .. Len(s) -> Literals]
         /\ \A i \in 1 .. Len(s) : R!validSegment(s[i])
  <1>1. Len(s) \in 1 .. MaxTokens /\ s \in [1 .. Len(s) -> R!Tokens]
    <2>1. Len(s) \in 1 .. MaxTokens  BY Zenon DEF SubjectOK, R!ParseSubject, R!parse
    <2>2. s \in Seq(R!Tokens)  BY DEF SubjectOK
    <2> QED  BY <2>1, <2>2
  <1>2. ASSUME NEW i \in 1 .. Len(s)
        PROVE  s[i] \in Literals /\ R!validSegment(s[i])
    <2>1. R!classify(s[i], FALSE, i = Len(s))  BY DEF SubjectOK, R!ParseSubject, R!parse
    <2>2. s[i] \in R!Tokens  BY <1>1
    <2>3. s[i] # "" /\ s[i] # "*" /\ s[i] # ">"  BY <2>1 DEF R!classify
    <2> QED  BY <2>2, <2>3 DEF R!Tokens, R!validSegment
  <1> QED  BY <1>1, <1>2

\* In a pattern that parses only the last token can be >.
LEMMA TailIsLast ==
  ASSUME NEW p \in Seq(R!Tokens), R!ParsePattern(p)
  PROVE  /\ Len(p) \in 1 .. MaxTokens /\ Len(p) \in Nat /\ p # <<>>
         /\ \A i \in 1 .. Len(p) : i # Len(p) => p[i] # ">"
  <1>1. Len(p) \in 1 .. MaxTokens  BY Zenon DEF R!ParsePattern, R!parse
  <1>0. Len(p) \in Nat  OBVIOUS
  <1>2. ASSUME NEW i \in 1 .. Len(p), i # Len(p) PROVE p[i] # ">"
    <2>1. R!classify(p[i], TRUE, i = Len(p))  BY DEF R!ParsePattern, R!parse
    <2> QED  BY <1>2, <2>1 DEF R!classify
  <1>3. p # <<>>
    <2>1. MaxTokens \in Nat  BY RulesBounds
    <2>2. Len(p) >= 1  BY <1>0, <1>1, <2>1
    <2> QED  BY <2>2
  <1> QED  BY <1>0, <1>1, <1>2, <1>3

\* Pattern.Match decides the language of the pattern.
LEMMA MatchIsLanguage ==
  ASSUME NEW p \in Seq(R!Tokens), R!ParsePattern(p), NEW s, SubjectOK(s)
  PROVE  R!Match(p, s) <=> s \in R!Language(p)
  <1>0. /\ Len(s) \in 1 .. MaxTokens /\ s \in [1 .. Len(s) -> Literals]
        /\ \A i \in 1 .. Len(s) : R!validSegment(s[i])
    BY SubjectIsLiteral
  <1>1. /\ Len(s) \in 1 .. MaxTokens /\ Len(s) \in Nat /\ s \in [1 .. Len(s) -> Literals]
        /\ \A i \in 1 .. Len(s) : R!validSegment(s[i])
    <2>1. MaxTokens \in Nat  BY RulesBounds
    <2>2. Len(s) \in Nat  BY <1>0, <2>1
    <2> QED  BY <1>0, <2>2
  <1>2. /\ Len(p) \in 1 .. MaxTokens /\ Len(p) \in Nat /\ p # <<>>
        /\ \A i \in 1 .. Len(p) : i # Len(p) => p[i] # ">"
    BY TailIsLast
  <1>3. s \in UNION {[1 .. k -> Literals] : k \in 1 .. MaxTokens}  BY <1>1
  <1>4. CASE p[Len(p)] = ">"
    <2> DEFINE Prefix == \A i \in 1 .. Len(p) - 1 : p[i] = "*" \/ p[i] = s[i]
    <2>1. s \in R!Language(p) <=> Len(p) <= Len(s) /\ Prefix
      <3>1. s \in R!Language(p) <=>
              \E tail \in 0 .. Len(s) : tail >= 1 /\ Len(s) - tail = Len(p) - 1 /\ Prefix
        BY <1>3, <1>4 DEF R!Language
      <3>2. (\E tail \in 0 .. Len(s) : tail >= 1 /\ Len(s) - tail = Len(p) - 1)
              <=> Len(p) <= Len(s)
        <4>1. Len(p) <= Len(s) => /\ Len(s) - Len(p) + 1 \in 0 .. Len(s)
                                  /\ Len(s) - Len(p) + 1 >= 1
                                  /\ Len(s) - (Len(s) - Len(p) + 1) = Len(p) - 1
          BY <1>1, <1>2
        <4>2. ASSUME NEW tail \in 0 .. Len(s), tail >= 1, Len(s) - tail = Len(p) - 1
              PROVE  Len(p) <= Len(s)
          BY <1>1, <1>2, <4>2
        <4> QED  BY <4>1, <4>2
      <3> HIDE DEF Prefix
      <3> QED  BY <3>1, <3>2
    <2>2. R!validTail(s, Len(p)) <=> Len(p) <= Len(s)  BY <1>1, <1>2 DEF R!validTail
    <2>3. R!Match(p, s) => Len(p) <= Len(s) /\ Prefix
      <3> SUFFICES ASSUME R!Match(p, s) PROVE Len(p) <= Len(s) /\ Prefix  OBVIOUS
      <3>1. R!validTail(s, Len(p))  BY <1>2, <1>4 DEF R!Match
      <3>2. ASSUME NEW i \in 1 .. Len(p) - 1 PROVE p[i] = "*" \/ p[i] = s[i]
        <4>1. i \in 1 .. Len(p) /\ i # Len(p)  BY <1>2
        <4>2. p[i] # ">"  BY <1>2, <4>1
        <4> QED  BY <4>1, <4>2 DEF R!Match
      <3> QED  BY <2>2, <3>1, <3>2
    <2>4. Len(p) <= Len(s) /\ Prefix => R!Match(p, s)
      <3> SUFFICES ASSUME Len(p) <= Len(s), Prefix PROVE R!Match(p, s)  OBVIOUS
      <3>1. ASSUME NEW i \in 1 .. Len(p)
            PROVE  IF p[i] = ">" THEN R!validTail(s, i)
                   ELSE i <= Len(s) /\ R!validSegment(s[i]) /\ p[i] \in {"*", s[i]}
        <4>1. CASE i = Len(p)  BY <1>4, <2>2, <4>1
        <4>2. CASE i # Len(p)
          <5>1. i \in 1 .. Len(p) - 1 /\ i \in 1 .. Len(s)  BY <1>1, <1>2, <4>2
          <5> QED  BY <1>1, <1>2, <4>2, <5>1
        <4> QED  BY <4>1, <4>2
      <3> QED  BY <1>2, <1>4, <3>1 DEF R!Match
    <2> QED  BY <2>1, <2>3, <2>4
  <1>5. CASE p[Len(p)] # ">"
    <2>0. \A i \in 1 .. Len(p) : p[i] # ">"  BY <1>2, <1>5
    <2> DEFINE Same == Len(s) = Len(p) /\ \A i \in 1 .. Len(p) : p[i] = "*" \/ p[i] = s[i]
    <2>1. s \in R!Language(p) <=> Same
      <3>1. s \in R!Language(p) <=> \E tail \in 0 .. Len(s) : tail = 0 /\ Same
        BY <1>3, <1>5 DEF R!Language
      <3> HIDE DEF Same
      <3> QED  BY <1>1, <3>1
    <2>2. R!Match(p, s) => Same  BY <1>2, <1>5, <2>0 DEF R!Match
    <2>3. Same => R!Match(p, s)
      <3> SUFFICES ASSUME Same PROVE R!Match(p, s)  OBVIOUS
      <3>1. ASSUME NEW i \in 1 .. Len(p)
            PROVE  i <= Len(s) /\ R!validSegment(s[i]) /\ p[i] \in {"*", s[i]}
        <4>1. i \in 1 .. Len(s) /\ i <= Len(s) /\ (p[i] = "*" \/ p[i] = s[i])  BY <1>2
        <4> QED  BY <1>1, <4>1
      <3> QED  BY <1>2, <2>0, <3>1 DEF R!Match
    <2> QED  BY <2>1, <2>2, <2>3
  <1> QED  BY <1>4, <1>5

LEMMA SetIsAccepted ==
  ASSUME NEW ps, PatternsOK(ps), NEW s, SubjectOK(s)
  PROVE  R!SetMatch(ps, s) <=> s \in R!Accepts(ps)
  <1>1. ASSUME NEW p \in ps PROVE R!Match(p, s) <=> s \in R!Language(p)
    BY MatchIsLanguage DEF PatternsOK, R!ParseSet
  <1> QED  BY <1>1 DEF R!SetMatch, R!Accepts

-----------------------------------------------------------------------------
(* The ladder. *)

\* The least number of a non-empty set.
LEMMA LeastExists ==
  ASSUME NEW S, S \subseteq Nat, S # {}
  PROVE  \E x \in S : \A y \in S : x <= y
  <1> DEFINE Less == {p \in Nat \X Nat : p[1] < p[2]}
  <1>1. IsWellFoundedOn(Less, Nat)
    <2>1. OpToRel(<, Nat) = Less  BY Zenon DEF OpToRel
    <2> QED  BY <2>1, NatLessThanWellFounded, Zenon
  <1> HIDE DEF Less
  <1>2. PICK x \in S : \A y \in S : ~(<<y, x>> \in Less)  BY <1>1, WFMin, Zenon
  <1>3. ASSUME NEW y \in S PROVE x <= y
    <2>1. ~(<<y, x>> \in Less)  BY <1>2
    <2>2. x \in Nat /\ y \in Nat /\ (y < x => <<y, x>> \in Less)  BY DEF Less
    <2> QED  BY <2>1, <2>2
  <1> QED  BY <1>3

\* The sums exist: the least length without them would extend a shorter one.
LEMMA WaitsExist ==
  ASSUME NEW c, NEW n \in Nat
  PROVE  \E h : IsWaits(h, c, n)
  <1> DEFINE bad == {k \in Nat : ~\E h : IsWaits(h, c, k)}
  <1> SUFFICES ASSUME bad # {} PROVE FALSE  BY Zenon
  <1>1. bad \subseteq Nat  OBVIOUS
  <1>2. PICK k \in bad : \A j \in bad : k <= j  BY <1>1, LeastExists, Zenon
  <1>3. k \in Nat /\ ~\E h : IsWaits(h, c, k)  OBVIOUS
  <1>4. CASE k = 0
    <2> DEFINE h == [i \in 0 .. 0 |-> 0]
    <2>1. h = [i \in 0 .. 0 |-> IF i = 0 THEN 0 ELSE h[i - 1] + R!Wait(c, i)]  OBVIOUS
    <2>2. IsWaits(h, c, k)  BY <1>4, <2>1 DEF IsWaits
    <2> QED  BY <1>3, <2>2, Zenon
  <1>5. CASE k # 0
    <2>1. k - 1 \in Nat /\ ~(k <= k - 1)  BY <1>3, <1>5
    <2>2. k - 1 \notin bad  BY <1>2, <2>1, Zenon
    <2>3. \E h : IsWaits(h, c, k - 1)  BY <2>1, <2>2, Zenon
    <2>4. PICK h : IsWaits(h, c, k - 1)  BY <2>3, Zenon
    <2> DEFINE g == [i \in 0 .. k |-> IF i = k THEN h[k - 1] + R!Wait(c, k) ELSE h[i]]
    <2>5. ASSUME NEW i \in 0 .. k
          PROVE  g[i] = IF i = 0 THEN 0 ELSE g[i - 1] + R!Wait(c, i)
      <3>1. CASE i = 0
        <4>1. 0 \in 0 .. (k - 1) /\ 0 # k  BY <1>3, <1>5
        <4>2. h[0] = 0  BY <2>4, <4>1 DEF IsWaits
        <4> QED  BY <3>1, <4>1, <4>2
      <3>2. CASE i # 0 /\ i = k
        <4>1. i - 1 \in 0 .. k /\ i - 1 # k  BY <1>3, <3>2
        <4> QED  BY <3>2, <4>1
      <3>3. CASE i # 0 /\ i # k
        <4>1. i - 1 \in 0 .. k /\ i - 1 # k /\ i \in 0 .. (k - 1)  BY <1>3, <3>3
        <4>2. h[i] = h[i - 1] + R!Wait(c, i)  BY <2>4, <3>3, <4>1 DEF IsWaits
        <4>3. g[i - 1] = h[i - 1] /\ g[i] = h[i]  BY <3>3, <4>1
        <4> QED  BY <3>3, <4>2, <4>3
      <3> QED  BY <3>1, <3>2, <3>3
    <2>6. g = [i \in 0 .. k |-> g[i]]  OBVIOUS
    <2> HIDE DEF g
    <2>7. IsWaits(g, c, k)  BY <2>5, <2>6 DEF IsWaits
    <2> QED  BY <1>3, <2>7, Zenon
  <1> QED  BY <1>4, <1>5

\* Every wait is an entry of the ladder.
LEMMA WaitIsNat ==
  ASSUME NEW c, ConfigOK(c), NEW i \in Nat, i >= 1
  PROVE  R!Wait(c, i) \in Nat /\ R!BackoffFor(c, i) = R!Wait(c, i)
  <1>1. c.backoff \in Seq(Nat) /\ Len(c.backoff) >= 1  BY DEF ConfigOK, Config
  <1>2. PICK j : j = IF i > Len(c.backoff) THEN Len(c.backoff) ELSE i  OBVIOUS
  <1>3. j \in 1 .. Len(c.backoff)  BY <1>1, <1>2
  <1>4. c.backoff[j] \in Nat  BY <1>1, <1>3
  <1>5. R!Wait(c, i) = c.backoff[j] /\ R!BackoffFor(c, i) = c.backoff[j]
    BY <1>2, Zenon DEF R!Wait, R!BackoffFor
  <1> QED  BY <1>4, <1>5

LEMMA WaitsAreSums ==
  ASSUME NEW c, ConfigOK(c), c.maxDeliver > 0
  PROVE  /\ c.maxDeliver - 1 \in Nat
         /\ Waits(c)[0] = 0
         /\ \A i \in 0 .. c.maxDeliver - 1 : Waits(c)[i] \in Nat
         /\ \A i \in 1 .. c.maxDeliver - 1 : Waits(c)[i] = Waits(c)[i - 1] + R!Wait(c, i)
         /\ R!RetryHorizon(c) = Waits(c)[c.maxDeliver - 1]
  <1>1. c.maxDeliver \in Nat  BY DEF ConfigOK, Config
  <1>2. PICK n \in Nat : n = c.maxDeliver - 1  BY <1>1
  <1>3. IsWaits(Waits(c), c, n)
    <2>1. \E h : IsWaits(h, c, n)  BY WaitsExist
    <2> QED  BY <1>2, <2>1, Zenon DEF Waits
  <1>4. R!RetryHorizon(c) = Waits(c)[n]
    BY <1>2, Zenon DEF R!RetryHorizon, Waits, IsWaits
  <1>5. PICK w : w = Waits(c)  OBVIOUS
  <1>6. w = [i \in 0 .. n |-> IF i = 0 THEN 0 ELSE w[i - 1] + R!Wait(c, i)]
    BY <1>3, <1>5, Zenon DEF IsWaits
  <1>7. \A i \in 0 .. n : w[i] = IF i = 0 THEN 0 ELSE w[i - 1] + R!Wait(c, i)
    BY <1>6, Zenon
  <1>8. w[0] = 0  BY <1>7
  <1>9. \A i \in 1 .. n : w[i] = w[i - 1] + R!Wait(c, i)  BY <1>7
  <1>10. \A i \in 0 .. n : w[i] \in Nat
    <2> DEFINE bad == {i \in 0 .. n : w[i] \notin Nat}
    <2> SUFFICES ASSUME bad # {} PROVE FALSE  OBVIOUS
    <2>1. bad \subseteq Nat  OBVIOUS
    <2>2. PICK i \in bad : \A j \in bad : i <= j  BY <2>1, LeastExists, Zenon
    <2>3. i \in 1 .. n /\ i \in Nat /\ i >= 1 /\ i - 1 \in 0 .. n /\ ~(i <= i - 1)  BY <1>8
    <2>4. w[i - 1] \in Nat  BY <2>2, <2>3
    <2>5. R!Wait(c, i) \in Nat  BY <2>3, WaitIsNat
    <2>6. w[i] = w[i - 1] + R!Wait(c, i)  BY <1>9, <2>3
    <2> QED  BY <2>4, <2>5, <2>6
  <1> QED  BY <1>2, <1>4, <1>5, <1>8, <1>9, <1>10

\* The sums grow, up to the horizon.
LEMMA WaitsGrow ==
  ASSUME NEW c, ConfigOK(c), c.maxDeliver > 0, NEW i \in 0 .. c.maxDeliver - 1
  PROVE  Waits(c)[i] <= R!RetryHorizon(c) /\ R!RetryHorizon(c) \in Nat
  <1>1. PICK n \in Nat : n = c.maxDeliver - 1  BY WaitsAreSums
  <1>2. PICK w : w = Waits(c)  OBVIOUS
  <1>3. /\ \A j \in 0 .. n : w[j] \in Nat
        /\ \A j \in 1 .. n : w[j] = w[j - 1] + R!Wait(c, j)
        /\ R!RetryHorizon(c) = w[n]
    BY <1>1, <1>2, WaitsAreSums
  <1> DEFINE bad == {j \in 0 .. n : i <= j /\ ~(w[i] <= w[j])}
  <1>4. CASE bad = {}
    <2>1. n \in 0 .. n /\ i <= n /\ i \in 0 .. n  BY <1>1
    <2>2. n \notin bad  BY <1>4
    <2> QED  BY <1>2, <1>3, <2>1, <2>2
  <1>5. CASE bad # {}
    <2>1. bad \subseteq Nat  OBVIOUS
    <2>2. PICK j \in bad : \A k \in bad : j <= k  BY <1>5, <2>1, LeastExists, Zenon
    <2>3. w[i] \in Nat /\ i \in 0 .. n  BY <1>1, <1>3
    <2>4. j \in 1 .. n /\ i <= j - 1 /\ j - 1 \in 0 .. n /\ ~(j <= j - 1) /\ j \in Nat /\ j >= 1
      <3>1. j # i  BY <2>2, <2>3
      <3> QED  BY <2>2, <2>3, <3>1
    <2>5. w[i] <= w[j - 1]  BY <2>2, <2>4
    <2>6. R!Wait(c, j) \in Nat  BY <2>4, WaitIsNat
    <2>7. w[j] = w[j - 1] + R!Wait(c, j) /\ w[j - 1] \in Nat  BY <1>3, <2>4
    <2>8. w[i] <= w[j]  BY <2>3, <2>5, <2>6, <2>7
    <2> QED  BY <2>2, <2>8
  <1> QED  BY <1>4, <1>5

-----------------------------------------------------------------------------
(* The steps. *)

LEMMA StreamIsSome ==
  ASSUME NEW n, NEW ps PROVE [name |-> n, subjects |-> ps] # R!None
  <1>1. DOMAIN [name |-> n, subjects |-> ps] = {"name", "subjects"}  OBVIOUS
  <1>2. DOMAIN R!None = {"none"}  BY DEF R!None
  <1> QED  BY <1>1, <1>2

LEMMA CreateStreamStep ==
  ASSUME RulesInv, NEW n \in StreamNames, NEW ps \in PatternSets, R!CreateStream(n, ps)
  PROVE  RulesInv'
  <1>1. x1 = R!None /\ x1' = [name |-> n, subjects |-> ps] /\ UNCHANGED <<x2, x3>>
    BY DEF R!CreateStream
  <1>2. NameOK(n)
    <2>1. n \in [len : Nat, dlqs : Nat]  BY RulesAssumption DEF R!ConstantsAssumption
    <2>2. n.dlqs = 0 /\ n.len \in 1 .. 60
      BY DEF R!CreateStream, R!ValidateStreamConfig, R!ValidateStreamName,
         R!MaxNewStreamNameBytes, R!MaxStreamNameBytes
    <2> QED  BY <2>1, <2>2 DEF NameOK
  <1>3. PatternsOK(ps)
    <2>1. ps \subseteq Seq(R!Tokens)  BY RulesAssumption DEF R!ConstantsAssumption
    <2>2. R!ParseSet(ps)  BY DEF R!CreateStream, R!ValidateStreamConfig
    <2> QED  BY <2>1, <2>2 DEF PatternsOK
  <1>4. x2 = R!None /\ x3.at = "unsent" /\ x3 \in Message
    BY <1>1 DEF RulesInv, ConsInv, MsgInv, Message, Offered
  <1>5. StreamInv'  BY <1>1, <1>2, <1>3 DEF StreamInv
  <1>6. ConsInv'  BY <1>1, <1>4 DEF ConsInv
  <1>7. MsgInv'  BY <1>1, <1>4 DEF RulesInv, MsgInv, Offered
  <1>8. TimeInv' /\ LeasedInv'  BY <1>1, <1>4 DEF TimeInv, TimeOK, LeasedInv
  <1> QED  BY <1>5, <1>6, <1>7, <1>8 DEF RulesInv

LEMMA PublishStep ==
  ASSUME RulesInv, NEW s \in R!Strings(MaxTokens + 1), R!Publish(s)
  PROVE  RulesInv'
  <1>1. /\ x1 # R!None /\ x3.at = "unsent" /\ UNCHANGED <<x1, x2>>
        /\ x3' = [x3 EXCEPT !.at = "stored", !.subject = s]
        /\ R!ParseSubject(s) /\ R!SetMatch(x1.subjects, s)
    BY DEF R!Publish, R!ValidatePublish
  <1>2. s \in Seq(R!Tokens)
    <2>1. MaxTokens \in Nat  BY RulesBounds
    <2>2. PICK k \in 1 .. MaxTokens + 1 : s \in [1 .. k -> R!Tokens]  BY DEF R!Strings
    <2> QED  BY <2>1, <2>2
  <1>3. x3 \in Message  BY DEF RulesInv, MsgInv
  <1>4. /\ x3' \in Message /\ x3'.at = "stored" /\ x3'.subject = s
        /\ x3'.attempts = x3.attempts /\ x3'.elapsed = x3.elapsed /\ x3'.asked = x3.asked
    BY <1>1, <1>2, <1>3 DEF Message
  <1>5. StreamInv' /\ ConsInv'  BY <1>1 DEF RulesInv, StreamInv, ConsInv
  <1>6. SubjectOK(s)  BY <1>1, <1>2 DEF SubjectOK
  <1>7. MsgInv'  BY <1>1, <1>4, <1>6 DEF RulesInv, MsgInv, Offered
  <1>8. TimeInv' /\ LeasedInv'  BY <1>4 DEF TimeInv, TimeOK, LeasedInv
  <1> QED  BY <1>5, <1>7, <1>8 DEF RulesInv

LEMMA CreateConsumerStep ==
  ASSUME RulesInv, NEW c \in ConsumerConfigs, R!CreateConsumer(c)
  PROVE  RulesInv'
  <1>1. PICK d : d = R!Completed(c)  OBVIOUS
  <1>2. /\ x1 # R!None /\ x2 = R!None /\ x2' = d /\ UNCHANGED <<x1, x3>>
        /\ R!ValidateConsumerConfig(d) /\ R!ValidateDeadPolicyForStream(x1.name, d.policy)
    BY <1>1 DEF R!CreateConsumer
  <1>3. c \in Config  BY RulesAssumption DEF R!ConstantsAssumption, Config
  <1>4. d \in Config
    BY <1>1, <1>3 DEF R!Completed, R!DefaultDeadPolicyForStream, Config
  <1>5. R!ParseSet(d.filters) /\ Len(d.backoff) \in 1 .. LadderCap
    BY <1>2 DEF R!ValidateConsumerConfig
  <1>6. Len(d.backoff) >= 1
    <2>1. LadderCap \in Nat  BY RulesAssumption DEF R!ConstantsAssumption
    <2> QED  BY <1>5, <2>1
  <1>7. ConfigOK(d)  BY <1>4, <1>5, <1>6 DEF ConfigOK, PatternsOK, Config
  <1>8. x1.name.dlqs > 0 => d.policy # "dlq"
    BY <1>2 DEF R!ValidateDeadPolicyForStream, R!IsDLQ
  <1>9. x3.at \in {"unsent", "stored"} /\ x3 \in Message
    BY <1>2 DEF RulesInv, MsgInv, Message
  <1>10. StreamInv' /\ ConsInv'  BY <1>2, <1>7, <1>8 DEF RulesInv, StreamInv, ConsInv
  <1>11. MsgInv'  BY <1>2, <1>9 DEF RulesInv, MsgInv, Offered
  <1>12. TimeInv' /\ LeasedInv'  BY <1>2, <1>9 DEF TimeInv, TimeOK, LeasedInv
  <1> QED  BY <1>10, <1>11, <1>12 DEF RulesInv

\* What every step of a message that is there leaves alone.
LEMMA KeptAround ==
  ASSUME RulesInv, UNCHANGED <<x1, x2>>, x3.at # "unsent", x3' \in Message,
         x3'.subject = x3.subject, x3'.at \notin {"unsent", "stored"}, x2 # R!None,
         (x3'.at = "passed") <=> ~R!SetMatch(x2.filters, x3.subject),
         TimeInv', LeasedInv'
  PROVE  RulesInv'
  <1>1. StreamInv' /\ ConsInv'  BY DEF RulesInv, StreamInv, ConsInv
  <1>2. MsgInv'  BY DEF RulesInv, MsgInv, Offered
  <1> QED  BY <1>1, <1>2 DEF RulesInv

LEMMA OfferStep ==
  ASSUME RulesInv, R!Offer
  PROVE  RulesInv'
  <1>1. PICK to : to = IF R!SetMatch(x2.filters, x3.subject) THEN "ready" ELSE "passed"
    OBVIOUS
  <1>2. /\ x2 # R!None /\ x3.at = "stored" /\ UNCHANGED <<x1, x2>>
        /\ x3' = [x3 EXCEPT !.at = to]
    BY <1>1 DEF R!Offer
  <1>3. x3 \in Message /\ x3.attempts = 0 /\ x3.elapsed = 0 /\ x3.asked = 0
    BY <1>2 DEF RulesInv, MsgInv
  <1>4. /\ x3' \in Message /\ x3'.at = to /\ x3'.subject = x3.subject
        /\ x3'.attempts = 0 /\ x3'.elapsed = 0 /\ x3'.asked = 0
    BY <1>1, <1>2, <1>3 DEF Message, Offered
  <1>5. TimeInv'
    <2> SUFFICES ASSUME x2.maxDeliver > 0 PROVE TimeOK(x2, x3')  BY <1>2 DEF TimeInv
    <2>1. ConfigOK(x2)  BY <1>2 DEF RulesInv, ConsInv
    <2>2. Waits(x2)[0] = 0  BY <2>1, WaitsAreSums
    <2>3. x2.ackWait \in Nat  BY <2>1 DEF ConfigOK, Config
    <2>4. 0 * x2.ackWait = 0  BY <2>3
    <2>5. Within(x2, x3', 0, 0)  BY <1>4, <2>2, <2>4 DEF Within
    <2> QED  BY <1>1, <1>4, <2>5 DEF TimeOK
  <1>6. LeasedInv'  BY <1>1, <1>4 DEF LeasedInv
  <1> QED  BY <1>1, <1>2, <1>4, <1>5, <1>6, KeptAround

LEMMA ClaimStep ==
  ASSUME RulesInv, R!Claim
  PROVE  RulesInv'
  <1>1. /\ x3.at = "ready" /\ UNCHANGED <<x1, x2>>
        /\ x3' = [x3 EXCEPT !.at = "inflight", !.attempts = @ + 1]
    BY DEF R!Claim
  <1>2. x3 \in Message /\ x2 # R!None /\ R!SetMatch(x2.filters, x3.subject)
    BY <1>1 DEF RulesInv, MsgInv, Offered
  <1>3. /\ x3' \in Message /\ x3'.at = "inflight" /\ x3'.subject = x3.subject
        /\ x3'.attempts = x3.attempts + 1 /\ x3'.elapsed = x3.elapsed /\ x3'.asked = x3.asked
    <2>1. PICK a : a = x3.attempts + 1  OBVIOUS
    <2>2. a \in Nat /\ x3' = [x3 EXCEPT !.at = "inflight", !.attempts = a]
      BY <1>1, <1>2, <2>1 DEF Message
    <2> QED  BY <1>2, <2>1, <2>2 DEF Message, Offered
  <1>4. TimeInv'
    <2> SUFFICES ASSUME x2.maxDeliver > 0 PROVE TimeOK(x2, x3')  BY <1>1 DEF TimeInv
    <2>1. x3.attempts < x2.maxDeliver /\ Within(x2, x3, x3.attempts, x3.attempts)
      BY <1>1, <1>2 DEF RulesInv, TimeInv, TimeOK
    <2>2. x3.attempts \in Nat /\ x2.maxDeliver \in Nat
      BY <1>2 DEF RulesInv, ConsInv, ConfigOK, Config, Message
    <2>3. x3'.attempts - 1 = x3.attempts /\ x3'.attempts \in 1 .. x2.maxDeliver
      BY <1>3, <2>1, <2>2
    <2>4. Within(x2, x3', x3'.attempts - 1, x3'.attempts - 1)
      BY <1>3, <2>1, <2>3 DEF Within
    <2> QED  BY <1>3, <2>3, <2>4 DEF TimeOK
  <1>5. LeasedInv'  BY <1>2, <1>3 DEF LeasedInv, Message
  <1> QED  BY <1>1, <1>2, <1>3, <1>4, <1>5, KeptAround

\* One more wait with its jitter fits.
LEMMA JitterIsWithin ==
  ASSUME NEW w \in Nat, NEW d \in R!StandardJitter(w)
  PROVE  d \in Nat /\ 5 * d <= 6 * w
  BY DEF R!StandardJitter

\* A message that is released: the lease took at most ack_wait, the delay is a
\* wait of the ladder or was asked for.
LEMMA ReleasedStep ==
  ASSUME RulesInv, x3.at = "inflight", ~R!Exhausted(x2, x3.attempts),
         NEW held \in {0, x2.ackWait}, NEW d \in Nat, NEW asked \in Nat,
         R!Released(held, d, asked),
         5 * d <= 6 * R!Wait(x2, x3.attempts) + 5 * asked
  PROVE  RulesInv'
  <1>1. x3 \in Message /\ x2 # R!None /\ R!SetMatch(x2.filters, x3.subject) /\ ConfigOK(x2)
    BY DEF RulesInv, MsgInv, ConsInv, Offered
  <1>2. x2.ackWait \in Nat /\ held \in Nat /\ held <= x2.ackWait /\ x2.maxDeliver \in Nat
    <2>1. x2.ackWait \in Nat /\ x2.maxDeliver \in Nat  BY <1>1 DEF ConfigOK, Config
    <2> QED  BY <2>1
  <1>3. /\ x3' \in Message /\ x3'.at = "ready" /\ x3'.subject = x3.subject
        /\ x3'.attempts = x3.attempts
        /\ x3'.elapsed = x3.elapsed + held + d /\ x3'.asked = x3.asked + asked
        /\ UNCHANGED <<x1, x2>>
    <2>1. PICK e : e = x3.elapsed + held + d  OBVIOUS
    <2>2. PICK a : a = x3.asked + asked  OBVIOUS
    <2>0. x3.elapsed \in Nat /\ x3.asked \in Nat  BY <1>1 DEF Message
    <2>3. e \in Nat /\ a \in Nat  BY <1>2, <2>0, <2>1, <2>2
    <2>4. x3' = [x3 EXCEPT !.at = "ready", !.elapsed = e, !.asked = a] /\ UNCHANGED <<x1, x2>>
      BY <2>1, <2>2 DEF R!Released
    <2> QED  BY <1>1, <2>1, <2>2, <2>3, <2>4 DEF Message, Offered
  <1>4. TimeInv'
    <2> SUFFICES ASSUME x2.maxDeliver > 0 PROVE TimeOK(x2, x3')  BY <1>3 DEF TimeInv
    <2>1. PICK n \in Nat : n = x3.attempts  BY <1>1 DEF Message
    <2>2. n \in 1 .. x2.maxDeliver /\ Within(x2, x3, n - 1, n - 1)
      BY <1>1, <2>1 DEF RulesInv, TimeInv, TimeOK
    <2>3. n < x2.maxDeliver  BY <1>2, <2>1, <2>2 DEF R!Exhausted
    <2>4. PICK w : w = Waits(x2)  OBVIOUS
    <2>5. n \in 1 .. x2.maxDeliver - 1 /\ n \in 0 .. x2.maxDeliver - 1
          /\ n - 1 \in 0 .. x2.maxDeliver - 1
      BY <1>2, <2>2, <2>3
    <2>6. w[n] = w[n - 1] + R!Wait(x2, n) /\ w[n] \in Nat /\ w[n - 1] \in Nat
      BY <1>1, <2>4, <2>5, WaitsAreSums
    <2>7. R!Wait(x2, n) \in Nat  BY <1>1, <2>2, WaitIsNat
    <2>8. n * x2.ackWait = (n - 1) * x2.ackWait + x2.ackWait /\ (n - 1) * x2.ackWait \in Nat
      BY <1>2, <2>2
    <2>9. 5 * x3.elapsed <= 5 * ((n - 1) * x2.ackWait) + 6 * w[n - 1] + 5 * x3.asked
      BY <2>2, <2>4 DEF Within
    <2>10. x3.elapsed \in Nat /\ x3.asked \in Nat  BY <1>1 DEF Message
    <2>11. 5 * d <= 6 * R!Wait(x2, n) + 5 * asked  BY <2>1
    <2>12. PICK p \in Nat : p = (n - 1) * x2.ackWait  BY <2>8
    <2>13. PICK q \in Nat : q = R!Wait(x2, n)  BY <2>7
    <2>14. 5 * (x3.elapsed + held + d) <=
             5 * (n * x2.ackWait) + 6 * w[n] + 5 * (x3.asked + asked)
      BY <1>2, <2>6, <2>8, <2>9, <2>10, <2>11, <2>12, <2>13
    <2>15. Within(x2, x3', n, n)  BY <1>3, <2>4, <2>14 DEF Within
    <2> QED  BY <1>3, <2>1, <2>3, <2>15 DEF TimeOK
  <1>5. LeasedInv'  BY <1>3 DEF LeasedInv
  <1> QED  BY <1>1, <1>3, <1>4, <1>5, KeptAround

LEMMA DeadStep ==
  ASSUME RulesInv, x3.at = "inflight", NEW held \in {0, x2.ackWait}, R!Dead(held)
  PROVE  RulesInv'
  <1>1. x3 \in Message /\ x2 # R!None /\ R!SetMatch(x2.filters, x3.subject) /\ ConfigOK(x2)
    BY DEF RulesInv, MsgInv, ConsInv, Offered
  <1>2. x1 # R!None /\ SubjectOK(x3.subject) /\ NameOK(x1.name)
    BY DEF RulesInv, MsgInv, StreamInv
  <1>3. CASE x2.policy = "dlq"
    <2>1. /\ x1' = [name |-> R!DLQName(x1.name), subjects |-> {<<">">>}] /\ x2' = R!None
          /\ x3' = [R!NoMessage EXCEPT !.at = "stored", !.subject = x3.subject]
      BY <1>3 DEF R!Dead
    <2>2. x1.name.dlqs = 0
      BY <1>1, <1>2, <1>3 DEF RulesInv, ConsInv, NameOK
    <2>3. NameOK(R!DLQName(x1.name))
      <3>1. PICK n : n = x1.name  OBVIOUS
      <3>2. n \in [len : Nat, dlqs : Nat] /\ n.dlqs = 0 /\ n.len \in 1 .. 60
        BY <1>2, <2>2, <3>1 DEF NameOK
      <3>3. PICK l, k : l = n.len + 4 /\ k = n.dlqs + 1  OBVIOUS
      <3>4. l \in Nat /\ l \in 5 .. 64 /\ k = 1  BY <3>2, <3>3
      <3>5. PICK x : x = [n EXCEPT !.len = l, !.dlqs = k]  OBVIOUS
      <3>6. x = R!DLQName(x1.name)  BY <3>1, <3>3, <3>5 DEF R!DLQName
      <3>7. x \in [len : Nat, dlqs : Nat] /\ x.len = l /\ x.dlqs = 1  BY <3>2, <3>4, <3>5
      <3> QED  BY <3>4, <3>6, <3>7 DEF NameOK
    <2>4. PatternsOK({<<">">>})
      <3>1. ">" \in R!Tokens /\ <<">">> \in Seq(R!Tokens)  BY DEF R!Tokens
      <3>2. 1 \in 1 .. MaxTokens
        <4>1. MaxTokens \in Nat  BY RulesBounds
        <4>2. Len(x3.subject) \in 1 .. MaxTokens  BY <1>2, SubjectIsLiteral
        <4> QED  BY <4>1, <4>2
      <3>3. Len(<<">">>) = 1 /\ <<">">>[1] = ">"  OBVIOUS
      <3>4. R!classify(">", TRUE, TRUE)  BY DEF R!classify
      <3>5. R!ParsePattern(<<">">>)
        <4>1. ASSUME NEW i \in 1 .. Len(<<">">>)
              PROVE  R!classify(<<">">>[i], TRUE, i = Len(<<">">>))
          <5>1. i = 1  BY <3>3
          <5> QED  BY <3>3, <3>4, <5>1
        <4> QED  BY <3>2, <3>3, <4>1, Zenon DEF R!ParsePattern, R!parse
      <3> QED  BY <3>1, <3>5 DEF PatternsOK, R!ParseSet
    <2>5. R!SetMatch({<<">">>}, x3.subject)
      <3>1. PICK s : s = x3.subject  OBVIOUS
      <3>2. PICK p : p = <<">">>  OBVIOUS
      <3>3. p \in Seq(R!Tokens) /\ R!ParsePattern(p) /\ Len(p) = 1 /\ p[1] = ">"
        BY <2>4, <3>2 DEF PatternsOK, R!ParseSet
      <3>4. /\ Len(s) \in 1 .. MaxTokens /\ s \in [1 .. Len(s) -> Literals]
            /\ \A i \in 1 .. Len(s) : R!validSegment(s[i])
        BY <1>2, <3>1, SubjectIsLiteral
      <3>5. 1 <= Len(s)
        <4>1. MaxTokens \in Nat  BY RulesBounds
        <4> QED  BY <3>4, <4>1
      <3>6. R!validTail(s, 1)  BY <3>4, <3>5 DEF R!validTail
      <3>7. p # <<>> /\ p[Len(p)] = ">"
        <4>1. p[Len(p)] = ">"  BY <3>3
        <4>2. Len(p) # 0  BY <3>3
        <4> QED  BY <4>1, <4>2
      <3>8. \A i \in 1 .. Len(p) : i = 1  BY <3>3
      <3>9. R!Match(p, s)  BY <3>3, <3>6, <3>7, <3>8 DEF R!Match
      <3> QED  BY <3>1, <3>2, <3>9 DEF R!SetMatch
    <2>6. /\ x3' \in Message /\ x3'.at = "stored" /\ x3'.subject = x3.subject
          /\ x3'.attempts = 0 /\ x3'.elapsed = 0 /\ x3'.asked = 0
      BY <1>1, <2>1 DEF R!NoMessage, Message
    <2>7. x1'.name = R!DLQName(x1.name) /\ x1'.subjects = {<<">">>} /\ x1' # R!None
      BY <2>1, StreamIsSome
    <2>8. StreamInv'  BY <2>3, <2>4, <2>7 DEF StreamInv
    <2>9. ConsInv' /\ TimeInv'  BY <2>1 DEF ConsInv, TimeInv
    <2>10. MsgInv'  BY <1>2, <2>5, <2>6, <2>7 DEF MsgInv, Offered
    <2>11. LeasedInv'  BY <2>6 DEF LeasedInv
    <2> QED  BY <2>8, <2>9, <2>10, <2>11 DEF RulesInv
  <1>4. CASE x2.policy # "dlq"
    <2>1. x2.ackWait \in Nat /\ held \in Nat /\ held <= x2.ackWait /\ x2.maxDeliver \in Nat
      <3>1. x2.ackWait \in Nat /\ x2.maxDeliver \in Nat  BY <1>1 DEF ConfigOK, Config
      <3> QED  BY <3>1
    <2>2. /\ x3' \in Message /\ x3'.at = "dead" /\ x3'.subject = x3.subject
          /\ x3'.attempts = x3.attempts /\ x3'.elapsed = x3.elapsed + held
          /\ x3'.asked = x3.asked /\ UNCHANGED <<x1, x2>>
      <3>1. PICK e : e = x3.elapsed + held  OBVIOUS
      <3>2. e \in Nat  BY <1>1, <2>1, <3>1 DEF Message
      <3>3. x3' = [x3 EXCEPT !.at = "dead", !.elapsed = e] /\ UNCHANGED <<x1, x2>>
        BY <1>4, <3>1 DEF R!Dead
      <3> QED  BY <1>1, <3>1, <3>2, <3>3 DEF Message, Offered
    <2>3. TimeInv'
      <3> SUFFICES ASSUME x2.maxDeliver > 0 PROVE TimeOK(x2, x3')  BY <2>2 DEF TimeInv
      <3>1. PICK n \in Nat : n = x3.attempts  BY <1>1 DEF Message
      <3>2. n \in 1 .. x2.maxDeliver /\ Within(x2, x3, n - 1, n - 1)
        BY <1>1, <3>1 DEF RulesInv, TimeInv, TimeOK
      <3>3. n * x2.ackWait = (n - 1) * x2.ackWait + x2.ackWait /\ (n - 1) * x2.ackWait \in Nat
        BY <2>1, <3>2
      <3>4. PICK v \in Nat : v = Waits(x2)[n - 1]
        <4>1. n - 1 \in 0 .. x2.maxDeliver - 1  BY <2>1, <3>2
        <4> QED  BY <1>1, <4>1, WaitsAreSums
      <3>5. 5 * x3.elapsed <= 5 * ((n - 1) * x2.ackWait) + 6 * v + 5 * x3.asked
        BY <3>2, <3>4 DEF Within
      <3>6. x3.elapsed \in Nat /\ x3.asked \in Nat  BY <1>1 DEF Message
      <3>7. PICK p \in Nat : p = (n - 1) * x2.ackWait  BY <3>3
      <3>8. 5 * (x3.elapsed + held) <= 5 * (n * x2.ackWait) + 6 * v + 5 * x3.asked
        BY <2>1, <3>3, <3>5, <3>6, <3>7
      <3>9. Within(x2, x3', n, n - 1)  BY <2>2, <3>4, <3>8 DEF Within
      <3> QED  BY <2>2, <3>1, <3>2, <3>9 DEF TimeOK
    <2>4. LeasedInv'  BY <2>2 DEF LeasedInv
    <2> QED  BY <1>1, <2>2, <2>3, <2>4, KeptAround
  <1> QED  BY <1>3, <1>4

\* A release by the ladder, from a nak or from an expired lease.
LEMMA LadderStep ==
  ASSUME RulesInv, x3.at = "inflight", ~R!Exhausted(x2, x3.attempts),
         NEW held \in {0, x2.ackWait},
         NEW d \in R!StandardJitter(R!BackoffFor(x2, x3.attempts)), R!Released(held, d, 0)
  PROVE  RulesInv'
  <1>1. ConfigOK(x2) /\ x3 \in Message  BY DEF RulesInv, MsgInv, ConsInv, Offered
  <1>2. PICK n \in Nat : n = x3.attempts  BY <1>1 DEF Message
  <1>3. n >= 1  BY <1>2 DEF RulesInv, LeasedInv
  <1>4. PICK w \in Nat : w = R!BackoffFor(x2, n) /\ w = R!Wait(x2, n)
    BY <1>1, <1>3, WaitIsNat
  <1>5. d \in Nat /\ 5 * d <= 6 * w  BY <1>2, <1>4, JitterIsWithin
  <1>6. 5 * d <= 6 * R!Wait(x2, x3.attempts) + 5 * 0  BY <1>2, <1>4, <1>5
  <1> QED  BY <1>5, <1>6, ReleasedStep

LEMMA NakStep ==
  ASSUME RulesInv, R!Nak
  PROVE  RulesInv'
  <1>1. x3.at = "inflight"  BY DEF R!Nak
  <1>2. PICK held \in {0, x2.ackWait} :
          IF R!Exhausted(x2, x3.attempts) THEN R!Dead(held) ELSE R!ReleaseDelay(held)
    BY DEF R!Nak
  <1>3. CASE R!Exhausted(x2, x3.attempts)  BY <1>1, <1>2, <1>3, DeadStep
  <1>4. CASE ~R!Exhausted(x2, x3.attempts)
    <2>1. CASE \E d \in R!StandardJitter(R!BackoffFor(x2, x3.attempts)) : R!Released(held, d, 0)
      BY <1>1, <1>4, <2>1, LadderStep
    <2>2. CASE \E d \in NakDelays : d <= MaxNakDelay /\ R!Released(held, d, d)
      <3>1. PICK d \in NakDelays : R!Released(held, d, d)  BY <2>2
      <3>2. d \in Nat  BY RulesAssumption DEF R!ConstantsAssumption
      <3>3. PICK w \in Nat : w = R!Wait(x2, x3.attempts)
        <4>1. ConfigOK(x2) /\ x3 \in Message /\ x3.attempts >= 1
          BY <1>1 DEF RulesInv, MsgInv, ConsInv, Offered, LeasedInv
        <4> QED  BY <4>1, WaitIsNat DEF Message
      <3>4. 5 * d <= 6 * R!Wait(x2, x3.attempts) + 5 * d  BY <3>2, <3>3
      <3> QED  BY <1>1, <1>4, <3>1, <3>2, <3>4, ReleasedStep
    <2> QED  BY <1>2, <1>4, <2>1, <2>2 DEF R!ReleaseDelay
  <1> QED  BY <1>3, <1>4

LEMMA DecideSweepStep ==
  ASSUME RulesInv, R!DecideSweep
  PROVE  RulesInv'
  <1>1. x3.at = "inflight"  BY DEF R!DecideSweep
  <1>2. CASE R!Exhausted(x2, x3.attempts)  BY <1>1, <1>2, DeadStep DEF R!DecideSweep
  <1>3. CASE ~R!Exhausted(x2, x3.attempts)
    <2>1. PICK d \in R!StandardJitter(R!BackoffFor(x2, x3.attempts)) :
            R!Released(x2.ackWait, d, 0)
      BY <1>3 DEF R!DecideSweep
    <2> QED  BY <1>1, <1>3, <2>1, LadderStep
  <1> QED  BY <1>2, <1>3

LEMMA TermStep ==
  ASSUME RulesInv, R!Term
  PROVE  RulesInv'
  BY DeadStep DEF R!Term

LEMMA RoutesInit == RequestsInit => RoutesInv
  <1> SUFFICES ASSUME RequestsInit, part = "rules" PROVE RulesInv  BY DEF RoutesInv
  <1>1. x1 = R!None /\ x2 = R!None /\ x3 = R!NoMessage  BY DEF RequestsInit, R!Init
  <1>2. x3 \in Message /\ x3.at = "unsent" /\ x3.attempts = 0 /\ x3.elapsed = 0 /\ x3.asked = 0
    BY <1>1 DEF R!NoMessage, Message
  <1> QED  BY <1>1, <1>2 DEF RulesInv, StreamInv, ConsInv, MsgInv, TimeInv, LeasedInv, Offered

LEMMA RoutesStep == RoutesInv /\ [RequestsNext]_<<part, others, vars>> => RoutesInv'
  <1> SUFFICES ASSUME RoutesInv, [RequestsNext]_<<part, others, vars>>, part' = "rules"
               PROVE  RulesInv'
    BY DEF RoutesInv
  <1>1. part = "rules" /\ (R!Next \/ UNCHANGED <<x1, x2, x3>>)
    BY DEF RequestsNext, others
  <1>2. RulesInv  BY <1>1 DEF RoutesInv
  <1>3. CASE UNCHANGED <<x1, x2, x3>>
    BY <1>2, <1>3 DEF RulesInv, StreamInv, ConsInv, MsgInv, TimeInv, LeasedInv
  <1>4. CASE R!Next
    BY <1>2, <1>4, CreateStreamStep, PublishStep, CreateConsumerStep, OfferStep, ClaimStep,
       NakStep, DecideSweepStep, TermStep DEF R!Next
  <1> QED  BY <1>1, <1>3, <1>4

\* A message is in a stream and before a consumer exactly when its subject is in
\* the languages of their patterns, for any tokens, patterns and configurations:
\* Pattern.Match decides exactly the language of rules S5 to S9 (subject.go).
THEOREM SubjectsAreRouted == RequestsSpec => []RoutedBySubject
  <1>1. RoutesInv => RoutedBySubject
    <2> SUFFICES ASSUME RulesInv PROVE R!RoutedBySubject  BY DEF RoutesInv, RoutedBySubject
    <2> SUFFICES ASSUME x3.at # "unsent"
                 PROVE  /\ x3.subject \in R!Accepts(x1.subjects)
                        /\ x3.at \in {"ready", "inflight", "dead"} =>
                             x3.subject \in R!Accepts(x2.filters)
                        /\ x3.at = "passed" => x3.subject \notin R!Accepts(x2.filters)
      BY DEF R!RoutedBySubject
    <2>1. SubjectOK(x3.subject) /\ R!SetMatch(x1.subjects, x3.subject)
          /\ PatternsOK(x1.subjects)
      BY DEF RulesInv, MsgInv, StreamInv
    <2>2. ASSUME x3.at \in Offered
          PROVE  /\ PatternsOK(x2.filters)
                 /\ x3.at = "passed" <=> ~R!SetMatch(x2.filters, x3.subject)
      BY <2>2 DEF RulesInv, MsgInv, ConsInv, ConfigOK
    <2>3. x3.subject \in R!Accepts(x1.subjects)  BY <2>1, SetIsAccepted
    <2>4. ASSUME x3.at \in Offered
          PROVE  x3.at = "passed" <=> x3.subject \notin R!Accepts(x2.filters)
      <3>1. R!SetMatch(x2.filters, x3.subject) <=> x3.subject \in R!Accepts(x2.filters)
        BY <2>1, <2>2, <2>4, SetIsAccepted
      <3> QED  BY <2>2, <2>4, <3>1
    <2> QED  BY <2>3, <2>4 DEF Offered
  <1> QED  BY <1>1, RoutesInit, RoutesStep, PTL DEF RequestsSpec

\* Whatever dies, dies within max_deliver attempts and within TimeToDead, the
\* jitter and the delays that were asked for, under a legal name, and a
\* dead-letter stream has no dead-letter stream of its own, for any ladder and
\* any limits (consumer.go: RetryHorizon, TimeToDead; backoff.go; name.go).
THEOREM DeathsComeInTime == RequestsSpec => []DeathsEnd
  <1>1. ASSUME RulesInv PROVE R!DeadLettersEnd
    BY <1>1 DEF RulesInv, StreamInv, NameOK, R!DeadLettersEnd, R!ValidateExistingStreamName,
       R!MaxStreamNameBytes
  <1>2. ASSUME RulesInv PROVE R!DeadInTime
    <2> SUFFICES ASSUME x2 # R!None, x3.at \in {"ready", "inflight", "dead"}, x2.maxDeliver > 0
                 PROVE  /\ x3.attempts <= x2.maxDeliver
                        /\ x3.elapsed <= R!TimeToDead(x2) + R!RetryHorizon(x2) \div 5 + x3.asked
      BY DEF R!DeadInTime
    <2>1. ConfigOK(x2) /\ x3 \in Message /\ TimeOK(x2, x3)
      BY <1>2 DEF RulesInv, ConsInv, MsgInv, TimeInv
    <2>2. /\ x2.ackWait \in Nat /\ x2.maxDeliver \in Nat
          /\ x3.attempts \in Nat /\ x3.elapsed \in Nat /\ x3.asked \in Nat
      BY <2>1 DEF ConfigOK, Config, Message
    <2>3. PICK m \in Nat : m = x2.maxDeliver  BY <2>2
    <2>4. PICK holds \in 0 .. m, waits \in 0 .. m - 1 :
            x3.attempts <= m /\ Within(x2, x3, holds, waits)
      <3>1. CASE x3.at = "ready"
        <4>1. /\ x3.attempts \in 0 .. m /\ x3.attempts \in 0 .. m - 1
              /\ Within(x2, x3, x3.attempts, x3.attempts)
          BY <2>1, <2>2, <2>3, <3>1 DEF TimeOK
        <4> QED  BY <4>1, <2>3
      <3>2. CASE x3.at = "inflight"
        <4>1. /\ x3.attempts \in 1 .. m /\ x3.attempts - 1 \in 0 .. m
              /\ x3.attempts - 1 \in 0 .. m - 1 /\ x3.attempts <= m
              /\ Within(x2, x3, x3.attempts - 1, x3.attempts - 1)
          BY <2>1, <2>2, <2>3, <3>2 DEF TimeOK
        <4> QED  BY <4>1
      <3>3. CASE x3.at = "dead"
        <4>1. /\ x3.attempts \in 0 .. m /\ x3.attempts - 1 \in 0 .. m - 1 /\ x3.attempts <= m
              /\ Within(x2, x3, x3.attempts, x3.attempts - 1)
          BY <2>1, <2>2, <2>3, <3>3 DEF TimeOK
        <4> QED  BY <4>1
      <3> QED  BY <3>1, <3>2, <3>3
    <2>5. PICK h \in Nat : h = R!RetryHorizon(x2)
      <3>1. 0 \in 0 .. x2.maxDeliver - 1  BY <2>2
      <3> QED  BY <2>1, <3>1, WaitsGrow
    <2>6. PICK v \in Nat : v = Waits(x2)[waits] /\ v <= h
      BY <2>1, <2>3, <2>4, <2>5, WaitsAreSums, WaitsGrow
    <2>7. PICK p \in Nat : p = holds * x2.ackWait  BY <2>2, <2>4
    <2>8. PICK q \in Nat : q = m * x2.ackWait  BY <2>2
    <2>9. p <= q
      <3>1. holds \in Nat /\ holds <= m  BY <2>4
      <3>2. \A a, b, k \in Nat : a <= b => a * k <= b * k  OBVIOUS
      <3> QED  BY <2>2, <2>7, <2>8, <3>1, <3>2
    <2>10. 5 * x3.elapsed <= 5 * p + 6 * v + 5 * x3.asked
      BY <2>4, <2>6, <2>7 DEF Within
    <2>11. x3.elapsed <= q + h + h \div 5 + x3.asked  BY <2>2, <2>6, <2>9, <2>10
    <2>12. R!TimeToDead(x2) = q + h  BY <2>3, <2>5, <2>8 DEF R!TimeToDead
    <2> QED  BY <2>3, <2>4, <2>5, <2>11, <2>12
  <1>3. RoutesInv => DeathsEnd  BY <1>1, <1>2 DEF RoutesInv, DeathsEnd
  <1> QED  BY <1>3, RoutesInit, RoutesStep, PTL DEF RequestsSpec

-----------------------------------------------------------------------------
(***************************************************************************)
(* Retention.  Sums over messages and the plan are recursive functions of  *)
(* the sequence number; what they compute is shown for the least number at *)
(* which it would fail.                                                    *)
(***************************************************************************)

\* w gives each sequence number a weight, h its partial sums.
IsTotal(h, w) ==
    /\ h \in [0 .. SeqBound -> Nat] /\ h[0] = 0
    /\ \A n \in 1 .. SeqBound : h[n] = h[n - 1] + w[n]
Weights == [1 .. SeqBound -> Nat]
Sized(m, S) == [n \in 1 .. SeqBound |-> IF n \in S THEN m[n].size ELSE 0]
IsSum(h, m, S, k) ==
    h = [n \in 0 .. k |-> IF n = 0 THEN 0
                          ELSE h[n - 1] + (IF n \in S THEN m[n].size ELSE 0)]
SumOf(m, S) == (CHOOSE h : IsSum(h, m, S, SeqBound))[SeqBound]

\* What the module's assumption says of this instance's constants.
LEMMA RetentionBounds ==
  /\ SeqBound \in Nat /\ NowBound \in Nat /\ MaxBlame \in Nat \ {0}
  /\ Batches \subseteq Nat \ {0} /\ Sizes \subseteq Nat
  /\ \A c \in StreamConfigs : c \in [mode : {"limits", "workqueue"}, maxMsgs : Nat,
                                     maxBytes : Nat, maxAge : Nat]
  BY RetentionAssumption DEF E!ConstantsAssumption

\* The instance's Cardinality is that of FiniteSets.
LEMMA CardIs == \A S : E!Cardinality(S) = Cardinality(S)
  BY DEF E!Cardinality, Cardinality

\* Bytes as a sum over the table it reads.
LEMMA BytesIs == \A S : E!Bytes(S) = SumOf(x1, S)
  BY DEF E!Bytes, SumOf, IsSum

\* Partial sums exist.
LEMMA SumsExist ==
  ASSUME NEW m, NEW S, NEW n \in Nat
  PROVE  \E h : IsSum(h, m, S, n)
  <1> DEFINE bad == {k \in Nat : ~\E h : IsSum(h, m, S, k)}
  <1> SUFFICES ASSUME bad # {} PROVE FALSE  OBVIOUS
  <1>1. bad \subseteq Nat  OBVIOUS
  <1>2. PICK k \in bad : \A j \in bad : k <= j  BY <1>1, LeastExists, Zenon
  <1>3. k \in Nat /\ ~\E h : IsSum(h, m, S, k)  OBVIOUS
  <1>4. CASE k = 0
    <2> DEFINE h == [i \in 0 .. 0 |-> 0]
    <2>1. h = [i \in 0 .. 0 |-> IF i = 0 THEN 0
                                ELSE h[i - 1] + (IF i \in S THEN m[i].size ELSE 0)]  OBVIOUS
    <2>2. IsSum(h, m, S, k)  BY <1>4, <2>1 DEF IsSum
    <2> QED  BY <1>3, <2>2
  <1>5. CASE k # 0
    <2>1. k - 1 \in Nat /\ k - 1 < k  BY <1>3, <1>5
    <2>2. k - 1 \notin bad  BY <1>2, <2>1
    <2>3. \E h : IsSum(h, m, S, k - 1)  BY <2>1, <2>2, Zenon
    <2>4. PICK h : IsSum(h, m, S, k - 1)  BY <2>3, Zenon
    <2> DEFINE w(i) == IF i \in S THEN m[i].size ELSE 0
               g == [i \in 0 .. k |-> IF i = k THEN h[k - 1] + w(k) ELSE h[i]]
    <2>5. \A i \in 0 .. k : g[i] = IF i = 0 THEN 0 ELSE g[i - 1] + w(i)
      <3> TAKE i \in 0 .. k
      <3>1. h = [j \in 0 .. k - 1 |-> IF j = 0 THEN 0 ELSE h[j - 1] + w(j)]  BY <2>4 DEF IsSum
      <3> HIDE DEF w
      <3>2. CASE i = 0  BY <1>3, <1>5, <2>1, <3>1, <3>2
      <3>3. CASE i = k  BY <1>3, <1>5, <2>1, <3>3
      <3>4. CASE i # 0 /\ i # k
        <4>1. i \in 0 .. k - 1 /\ i - 1 \in 0 .. k - 1 /\ i - 1 # k  BY <1>3, <3>4
        <4>2. h[i] = h[i - 1] + w(i)  BY <3>1, <3>4, <4>1
        <4> QED  BY <1>3, <3>4, <4>1, <4>2
      <3> QED  BY <3>2, <3>3, <3>4
    <2>6. g = [i \in 0 .. k |-> g[i]]  OBVIOUS
    <2>7. IsSum(g, m, S, k)  BY <2>5, <2>6 DEF IsSum
    <2> QED  BY <1>3, <2>7
  <1> QED  BY <1>4, <1>5

\* Equal weights, added up.
LEMMA TotalsAdd ==
  ASSUME NEW u \in Weights, NEW v \in Weights, NEW w \in Weights,
         NEW f, NEW g, NEW h, IsTotal(f, u), IsTotal(g, v), IsTotal(h, w),
         \A n \in 1 .. SeqBound : w[n] = u[n] + v[n]
  PROVE  h[SeqBound] = f[SeqBound] + g[SeqBound]
  <1> DEFINE bad == {n \in 0 .. SeqBound : h[n] # f[n] + g[n]}
  <1>0. SeqBound \in Nat  BY RetentionBounds
  <1> SUFFICES ASSUME bad # {} PROVE FALSE  BY <1>0
  <1>1. bad \subseteq Nat  BY <1>0
  <1>2. PICK n \in bad : \A j \in bad : n <= j  BY <1>1, LeastExists, Zenon
  <1>3. n # 0  BY <1>0 DEF IsTotal
  <1>4. n - 1 \in 0 .. SeqBound /\ n \in 1 .. SeqBound  BY <1>0, <1>3
  <1>5. h[n - 1] = f[n - 1] + g[n - 1]  BY <1>2, <1>4
  <1>6. /\ h[n] = h[n - 1] + w[n] /\ f[n] = f[n - 1] + u[n] /\ g[n] = g[n - 1] + v[n]
        /\ w[n] = u[n] + v[n]
    BY <1>4 DEF IsTotal
  <1>7. /\ h[n - 1] \in Nat /\ f[n - 1] \in Nat /\ g[n - 1] \in Nat
        /\ u[n] \in Nat /\ v[n] \in Nat
    BY <1>4 DEF IsTotal, Weights
  <1> QED  BY <1>2, <1>5, <1>6, <1>7

\* One number has all the weight.
LEMMA TotalOfOne ==
  ASSUME NEW w \in Weights, NEW h, IsTotal(h, w), NEW s \in 1 .. SeqBound,
         \A n \in 1 .. SeqBound : n # s => w[n] = 0
  PROVE  h[SeqBound] = w[s]
  <1> DEFINE bad == {n \in 0 .. SeqBound : h[n] # (IF n < s THEN 0 ELSE w[s])}
  <1>0. SeqBound \in Nat  BY RetentionBounds
  <1> SUFFICES ASSUME bad # {} PROVE FALSE  BY <1>0
  <1>1. bad \subseteq Nat  BY <1>0
  <1>2. PICK n \in bad : \A j \in bad : n <= j  BY <1>1, LeastExists, Zenon
  <1>3. n # 0  BY <1>0 DEF IsTotal
  <1>4. n - 1 \in 0 .. SeqBound /\ n \in 1 .. SeqBound  BY <1>0, <1>3
  <1>5. h[n - 1] = IF n - 1 < s THEN 0 ELSE w[s]  BY <1>2, <1>4
  <1>6. h[n] = h[n - 1] + w[n]  BY <1>4 DEF IsTotal
  <1>7. w[n] \in Nat /\ w[s] \in Nat  BY <1>4 DEF Weights
  <1>8. n # s => w[n] = 0  BY <1>4
  <1> QED  BY <1>0, <1>2, <1>4, <1>5, <1>6, <1>7, <1>8

\* The size of a set of messages is the total of its weights.
LEMMA SumIsTotal ==
  ASSUME NEW m, NEW S, \A n \in S : m[n].size \in Nat
  PROVE  /\ Sized(m, S) \in Weights
         /\ \E h : IsTotal(h, Sized(m, S)) /\ SumOf(m, S) = h[SeqBound]
         /\ SumOf(m, S) \in Nat
  <1>0. SeqBound \in Nat  BY RetentionBounds
  <1>1. Sized(m, S) \in Weights  BY DEF Sized, Weights
  <1>2. PICK h : IsSum(h, m, S, SeqBound) /\ SumOf(m, S) = h[SeqBound]
    <2>1. \E h : IsSum(h, m, S, SeqBound)  BY <1>0, SumsExist
    <2> QED  BY <2>1, Zenon DEF SumOf
  <1> DEFINE w == Sized(m, S)
  <1>3. /\ h = [n \in 0 .. SeqBound |-> h[n]] /\ h[0] = 0
        /\ \A n \in 1 .. SeqBound : h[n] = h[n - 1] + w[n]
    <2> DEFINE Term(n) == IF n = 0 THEN 0 ELSE h[n - 1] + (IF n \in S THEN m[n].size ELSE 0)
    <2>1. h = [n \in 0 .. SeqBound |-> Term(n)]  BY <1>2 DEF IsSum
    <2> HIDE DEF Term
    <2>2. \A n \in 0 .. SeqBound : h[n] = Term(n)  BY <2>1
    <2>3. h = [n \in 0 .. SeqBound |-> h[n]]  BY <2>1, <2>2
    <2>4. h[0] = 0  BY <1>0, <2>2 DEF Term
    <2>5. ASSUME NEW n \in 1 .. SeqBound PROVE h[n] = h[n - 1] + w[n]
      <3>1. n \in 0 .. SeqBound /\ n # 0  BY <1>0
      <3>2. h[n] = h[n - 1] + (IF n \in S THEN m[n].size ELSE 0)  BY <2>2, <3>1 DEF Term
      <3> QED  BY <3>2 DEF Sized
    <2> QED  BY <2>3, <2>4, <2>5
  <1> HIDE DEF w
  <1>4. w \in Weights  BY <1>1 DEF w
  <1>5. \A n \in 0 .. SeqBound : h[n] \in Nat
    <2> DEFINE bad == {n \in 0 .. SeqBound : h[n] \notin Nat}
    <2> SUFFICES ASSUME bad # {} PROVE FALSE  OBVIOUS
    <2>1. bad \subseteq Nat  BY <1>0
    <2>2. PICK n \in bad : \A j \in bad : n <= j  BY <2>1, LeastExists, Zenon
    <2>3. n # 0  BY <1>3
    <2>4. n - 1 \in 0 .. SeqBound /\ n \in 1 .. SeqBound  BY <1>0, <2>3
    <2>5. h[n - 1] \in Nat  BY <2>2, <2>4
    <2>6. h[n] = h[n - 1] + w[n] /\ w[n] \in Nat  BY <1>3, <1>4, <2>4 DEF Weights
    <2> QED  BY <2>2, <2>5, <2>6
  <1>6. IsTotal(h, w)  BY <1>3, <1>5 DEF IsTotal
  <1> QED  BY <1>0, <1>1, <1>2, <1>5, <1>6 DEF w

\* The sizes of two sets of messages add up.
LEMMA SumsAdd ==
  ASSUME NEW m, NEW k, NEW l, NEW S, NEW A, NEW B,
         \A n \in S : m[n].size \in Nat,
         \A n \in A : k[n].size \in Nat,
         \A n \in B : l[n].size \in Nat,
         \A n \in 1 .. SeqBound : Sized(m, S)[n] = Sized(k, A)[n] + Sized(l, B)[n]
  PROVE  SumOf(m, S) = SumOf(k, A) + SumOf(l, B)
  <1>1. PICK h : IsTotal(h, Sized(m, S)) /\ SumOf(m, S) = h[SeqBound]  BY SumIsTotal
  <1>2. PICK f : IsTotal(f, Sized(k, A)) /\ SumOf(k, A) = f[SeqBound]  BY SumIsTotal
  <1>3. PICK g : IsTotal(g, Sized(l, B)) /\ SumOf(l, B) = g[SeqBound]  BY SumIsTotal
  <1>4. Sized(m, S) \in Weights /\ Sized(k, A) \in Weights /\ Sized(l, B) \in Weights
    BY SumIsTotal
  <1>5. h[SeqBound] = f[SeqBound] + g[SeqBound]
    BY <1>1, <1>2, <1>3, <1>4, TotalsAdd
  <1> QED  BY <1>1, <1>2, <1>3, <1>5

\* A part and the rest make the whole.
LEMMA SumOfRest ==
  ASSUME NEW m, NEW S, NEW D \in SUBSET S, \A n \in S : m[n].size \in Nat
  PROVE  SumOf(m, S) = SumOf(m, S \ D) + SumOf(m, D)
  <1>1. \A n \in 1 .. SeqBound : Sized(m, S)[n] = Sized(m, S \ D)[n] + Sized(m, D)[n]
    BY DEF Sized
  <1> QED  BY <1>1, SumsAdd

\* One message has its own size.
LEMMA SumOfOne ==
  ASSUME NEW m, NEW s \in 1 .. SeqBound, m[s].size \in Nat
  PROVE  SumOf(m, {s}) = m[s].size
  <1>1. PICK h : IsTotal(h, Sized(m, {s})) /\ SumOf(m, {s}) = h[SeqBound]  BY SumIsTotal
  <1>2. Sized(m, {s}) \in Weights  BY SumIsTotal
  <1>3. /\ \A n \in 1 .. SeqBound : n # s => Sized(m, {s})[n] = 0
        /\ Sized(m, {s})[s] = m[s].size
    BY DEF Sized
  <1>4. h[SeqBound] = Sized(m, {s})[s]  BY <1>1, <1>2, <1>3, TotalOfOne
  <1> QED  BY <1>1, <1>3, <1>4

\* No messages have no size.
LEMMA SumOfNone ==
  ASSUME NEW m
  PROVE  SumOf(m, {}) = 0
  <1> DEFINE none == SumOf(m, {})
  <1>1. none = SumOf(m, {} \ {}) + none  BY SumOfRest
  <1>2. {} \ {} = {}  OBVIOUS
  <1>3. none = none + none  BY <1>1, <1>2, Zenon
  <1>4. none \in Nat  BY SumIsTotal
  <1> HIDE DEF none
  <1>5. none = 0  BY <1>3, <1>4
  <1> QED  BY <1>5, Zenon DEF none

\* The same messages under another function.
LEMMA SumOfSame ==
  ASSUME NEW m, NEW k, NEW S, \A n \in S : m[n].size \in Nat /\ k[n].size = m[n].size
  PROVE  SumOf(k, S) = SumOf(m, S)
  <1>1. \A n \in 1 .. SeqBound : Sized(k, S)[n] = Sized(m, S)[n] + Sized(m, {})[n]
    BY DEF Sized
  <1>2. \A n \in {} : m[n].size \in Nat  OBVIOUS
  <1>3. SumOf(k, S) = SumOf(m, S) + SumOf(m, {})  BY <1>1, <1>2, SumsAdd
  <1>4. SumOf(m, S) \in Nat  BY SumIsTotal
  <1> QED  BY <1>3, <1>4, SumOfNone

-----------------------------------------------------------------------------
\* The plan is the last of the plans the loop goes through.
IsWalk(g, C, b, k) ==
    g = [n \in 0 .. k |-> IF n = 0 THEN E!NoPlan
                          ELSE IF n \in C THEN E!Turn(g[n - 1], n, b) ELSE g[n - 1]]

\* The plans of the loop exist: the least length without them would extend a
\* shorter one.
LEMMA WalksExist ==
  ASSUME NEW C, NEW b, NEW n \in Nat
  PROVE  \E g : IsWalk(g, C, b, n)
  <1> DEFINE bad == {k \in Nat : ~\E h : IsWalk(h, C, b, k)}
  <1> SUFFICES ASSUME bad # {} PROVE FALSE  OBVIOUS
  <1>1. bad \subseteq Nat  OBVIOUS
  <1>2. PICK k \in bad : \A j \in bad : k <= j  BY <1>1, LeastExists, Zenon
  <1>3. k \in Nat /\ ~\E h : IsWalk(h, C, b, k)  OBVIOUS
  <1> DEFINE t(p, i) == IF i \in C THEN E!Turn(p, i, b) ELSE p
  <1>4. CASE k = 0
    <2> DEFINE h == [i \in 0 .. 0 |-> E!NoPlan]
    <2>1. h = [i \in 0 .. 0 |-> IF i = 0 THEN E!NoPlan ELSE t(h[i - 1], i)]  OBVIOUS
    <2>2. IsWalk(h, C, b, k)  BY <1>4, <2>1 DEF IsWalk
    <2> QED  BY <1>3, <2>2
  <1>5. CASE k # 0
    <2>1. k - 1 \in Nat /\ k - 1 < k  BY <1>3, <1>5
    <2>2. k - 1 \notin bad  BY <1>2, <2>1
    <2>3. \E h : IsWalk(h, C, b, k - 1)  BY <2>1, <2>2, Zenon
    <2>4. PICK h : IsWalk(h, C, b, k - 1)  BY <2>3, Zenon
    <2> DEFINE g == [i \in 0 .. k |-> IF i = k THEN t(h[k - 1], k) ELSE h[i]]
    <2>5. \A i \in 0 .. k : g[i] = IF i = 0 THEN E!NoPlan ELSE t(g[i - 1], i)
      <3> TAKE i \in 0 .. k
      <3>1. h = [j \in 0 .. k - 1 |-> IF j = 0 THEN E!NoPlan ELSE t(h[j - 1], j)]
        BY <2>4 DEF IsWalk
      <3> HIDE DEF t
      <3>2. CASE i = 0  BY <1>3, <1>5, <2>1, <3>1, <3>2
      <3>3. CASE i = k  BY <1>3, <1>5, <2>1, <3>3
      <3>4. CASE i # 0 /\ i # k
        <4>1. i \in 0 .. k - 1 /\ i - 1 \in 0 .. k - 1 /\ i - 1 # k  BY <1>3, <3>4
        <4>2. h[i] = t(h[i - 1], i)  BY <3>1, <3>4, <4>1
        <4> QED  BY <1>3, <3>4, <4>1, <4>2
      <3> QED  BY <3>2, <3>3, <3>4
    <2>6. g = [i \in 0 .. k |-> g[i]]  OBVIOUS
    <2>7. IsWalk(g, C, b, k)  BY <2>5, <2>6 DEF IsWalk
    <2> QED  BY <1>3, <2>7
  <1> QED  BY <1>4, <1>5

\* The first plan is empty, each other one is a turn after the one before.
LEMMA PlanIsWalk ==
  ASSUME NEW C, NEW b
  PROVE  \E g : /\ g[0] = E!NoPlan /\ E!Planned(C, b) = g[SeqBound]
                /\ \A n \in 1 .. SeqBound :
                     g[n] = IF n \in C THEN E!Turn(g[n - 1], n, b) ELSE g[n - 1]
  <1>0. SeqBound \in Nat  BY RetentionBounds
  <1> DEFINE walk == CHOOSE g : IsWalk(g, C, b, SeqBound)
  <1>1. IsWalk(walk, C, b, SeqBound)
    <2>1. \E g : IsWalk(g, C, b, SeqBound)  BY <1>0, WalksExist
    <2> QED  BY <2>1, Zenon
  <1>2. E!Planned(C, b) = walk[SeqBound]  BY DEF E!Planned, IsWalk
  <1> HIDE DEF walk
  <1>3. PICK g : g = walk  OBVIOUS
  <1>4. /\ g[0] = E!NoPlan
        /\ \A n \in 1 .. SeqBound :
             g[n] = IF n \in C THEN E!Turn(g[n - 1], n, b) ELSE g[n - 1]
    BY <1>0, <1>1, <1>3 DEF IsWalk
  <1> QED  BY <1>2, <1>3, <1>4

-----------------------------------------------------------------------------
\* The stream's tables, its clock and its books.
TablesOK ==
    /\ x2 \in 1 .. SeqBound + 1 /\ DOMAIN x1 \subseteq 1 .. x2 - 1
    /\ x3 \in [DOMAIN x3 -> Nat] /\ x4 \subseteq Holders \X Nat /\ x5 \in StreamConfigs
ClockOK ==
    /\ x7 \in Nat
    /\ \A s \in DOMAIN x1 : x1[s] \in [size : Nat, at : Nat] /\ x1[s].at <= x7
    /\ \A s, t \in DOMAIN x1 : s < t => x1[s].at <= x1[t].at
BooksOK ==
    /\ DOMAIN x6 = {"msgs", "bytes", "expired"}
    /\ x6.msgs = Cardinality(DOMAIN x1) /\ x6.bytes = SumOf(x1, DOMAIN x1)
SweepInv == TablesOK /\ ClockOK /\ BooksOK

\* What the invariant says of the numbers a sweep reads.
LEMMA LiveFacts ==
  ASSUME SweepInv
  PROVE  /\ DOMAIN x1 \subseteq 1 .. SeqBound /\ IsFiniteSet(DOMAIN x1)
         /\ \A s \in DOMAIN x1 : s \in Nat /\ x1[s].size \in Nat /\ x1[s].at \in Nat
         /\ x6.msgs = Cardinality(DOMAIN x1) /\ x6.bytes = SumOf(x1, DOMAIN x1)
         /\ x6.msgs \in Nat /\ x6.bytes \in Nat /\ x7 \in Nat
         /\ x5.maxMsgs \in Nat /\ x5.maxBytes \in Nat /\ x5.maxAge \in Nat
  <1>1. SeqBound \in Nat  BY RetentionBounds
  <1>2. DOMAIN x1 \subseteq 1 .. SeqBound  BY <1>1 DEF SweepInv, TablesOK
  <1>3. IsFiniteSet(1 .. SeqBound)  BY <1>1, FS_Interval
  <1>4. IsFiniteSet(DOMAIN x1)  BY <1>2, <1>3, FS_Subset
  <1>5. \A s \in DOMAIN x1 : s \in Nat /\ x1[s].size \in Nat /\ x1[s].at \in Nat
    BY <1>1, <1>2 DEF SweepInv, ClockOK
  <1>6. x6.msgs = Cardinality(DOMAIN x1) /\ x6.bytes = SumOf(x1, DOMAIN x1)
    BY DEF SweepInv, BooksOK
  <1>7. Cardinality(DOMAIN x1) \in Nat  BY <1>4, FS_CardinalityType
  <1>8. SumOf(x1, DOMAIN x1) \in Nat  BY <1>5, SumIsTotal
  <1>9. x5.maxMsgs \in Nat /\ x5.maxBytes \in Nat /\ x5.maxAge \in Nat
    BY RetentionBounds DEF SweepInv, TablesOK
  <1> QED  BY <1>2, <1>4, <1>5, <1>6, <1>7, <1>8, <1>9 DEF SweepInv, ClockOK

\* What is kept when the messages of D go.
LEMMA KeptFacts ==
  ASSUME SweepInv, NEW D \in SUBSET DOMAIN x1
  PROVE  /\ IsFiniteSet(D) /\ Cardinality(D) \in Nat /\ SumOf(x1, D) \in Nat
         /\ Cardinality(DOMAIN x1 \ D) = x6.msgs - Cardinality(D)
         /\ SumOf(x1, DOMAIN x1 \ D) = x6.bytes - SumOf(x1, D)
  <1>1. IsFiniteSet(D)  BY LiveFacts, FS_Subset
  <1>2. Cardinality(D) \in Nat  BY <1>1, FS_CardinalityType
  <1>3. \A n \in D : x1[n].size \in Nat  BY LiveFacts
  <1>4. SumOf(x1, D) \in Nat  BY <1>3, SumIsTotal
  <1>5. \A n \in DOMAIN x1 \ D : x1[n].size \in Nat  BY LiveFacts
  <1>6. SumOf(x1, DOMAIN x1 \ D) \in Nat  BY <1>5, SumIsTotal
  <1>7. SumOf(x1, DOMAIN x1) = SumOf(x1, DOMAIN x1 \ D) + SumOf(x1, D)
    BY LiveFacts, SumOfRest
  <1>8. Cardinality(DOMAIN x1 \ D) = Cardinality(DOMAIN x1) - Cardinality(D)
    <2>1. DOMAIN x1 \cap D = D  OBVIOUS
    <2>2. IsFiniteSet(DOMAIN x1)  BY LiveFacts
    <2>3. Cardinality(DOMAIN x1 \ D) = Cardinality(DOMAIN x1) - Cardinality(DOMAIN x1 \cap D)
      BY <2>2, FS_Difference, Zenon
    <2> QED  BY <2>1, <2>3, Zenon
  <1> QED  BY <1>1, <1>2, <1>4, <1>6, <1>7, <1>8, LiveFacts

\* What the loop decides on, in the terms of the configuration.
LEMMA AskedIsWanted ==
  ASSUME SweepInv, ~E!WorkQueue, NEW D \in SUBSET DOMAIN x1, NEW p, p.seqs = D,
         NEW s \in DOMAIN x1 \ D
  PROVE  /\ E!Asked(s, D) <=> (E!WantedByAge(s) \/ (E!Pressed(p) /\ ~E!KeepsTheLast(p)))
         /\ E!KeepsTheLast(p) => DOMAIN x1 \ D = {s}
  <1> DEFINE kept == DOMAIN x1 \ D
  <1>1. PICK k \in Nat : k = Cardinality(kept) /\ k = x6.msgs - Cardinality(D)
    <2>1. IsFiniteSet(kept)  BY LiveFacts, FS_Subset
    <2> QED  BY <2>1, KeptFacts, FS_CardinalityType
  <1>2. PICK y \in Nat : y = SumOf(x1, kept) /\ y = x6.bytes - SumOf(x1, D)
    <2>1. \A n \in kept : x1[n].size \in Nat  BY LiveFacts
    <2> QED  BY <2>1, KeptFacts, SumIsTotal
  <1>3. PICK d \in Nat : d = Cardinality(D)  BY KeptFacts
  <1>4. PICK f \in Nat : f = SumOf(x1, D)  BY KeptFacts
  <1>5. E!KeepsTheLast(p) <=> k <= 1  BY <1>1, CardIs DEF E!KeepsTheLast
  <1>6. k <= 1 <=> kept = {s}
    <2>1. IsFiniteSet(kept)  BY LiveFacts, FS_Subset
    <2>2. s \in kept  OBVIOUS
    <2>3. kept = {s} => k = 1  BY <1>1, FS_Singleton
    <2>4. ASSUME k <= 1 PROVE kept = {s}
      <3>1. k # 0  BY <1>1, <2>1, <2>2, FS_EmptySet
      <3>2. k = 1  BY <2>4, <3>1
      <3>3. {s} \subseteq kept /\ Cardinality({s}) = Cardinality(kept)
        BY <1>1, <3>2, FS_Singleton
      <3> QED  BY <2>1, <3>3, FS_Subset
    <2> QED  BY <2>3, <2>4
  <1>7. E!Pressed(p) <=> \/ x5.maxMsgs > 0 /\ k > x5.maxMsgs
                         \/ x5.maxBytes > 0 /\ y > x5.maxBytes
    BY <1>1, <1>2, <1>3, <1>4, CardIs, BytesIs, LiveFacts DEF E!Pressed, E!Excess, E!Need
  <1>8. E!Asked(s, D) <=> \/ E!WantedByAge(s)
                          \/ kept # {s} /\ (\/ x5.maxMsgs > 0 /\ k > x5.maxMsgs
                                            \/ x5.maxBytes > 0 /\ y > x5.maxBytes)
    BY <1>1, <1>2, CardIs, BytesIs, LiveFacts DEF E!Asked, E!Live, E!WantedByAge
  <1> QED  BY <1>5, <1>6, <1>7, <1>8

-----------------------------------------------------------------------------
\* What is true of the plan p after the candidates of C up to n: it has only
\* unpinned messages that are asked for once the older victims are gone, none
\* is passed over, and those left behind are not asked for or the batch is
\* full.  A loop that stopped has a full batch or a single message left.
PlanOK(p, n, C, b) ==
    /\ p \in [seqs : SUBSET Nat, blocked : SUBSET Nat, done : BOOLEAN]
    /\ \A s \in p.seqs : s \in C /\ s <= n /\ ~E!Pinned(s) /\ E!Asked(s, {d \in p.seqs : d < s})
    /\ Cardinality(p.seqs) <= b
    /\ \A s \in p.seqs, old \in C : old < s /\ ~E!Pinned(old) => old \in p.seqs
    /\ \A s \in C : s <= n /\ s \notin p.seqs /\ ~E!Pinned(s) =>
         Cardinality(p.seqs) >= b \/ ~E!Asked(s, p.seqs)
    /\ p.done => \/ Cardinality(p.seqs) >= b
                 \/ \E u \in 1 .. n : DOMAIN x1 \ p.seqs = {u}

Candidates(C) ==
    /\ C \subseteq DOMAIN x1
    /\ E!WorkQueue => \A s \in C : \A D : E!Asked(s, D)

\* A turn that takes nothing.
LEMMA PassOver ==
  ASSUME SweepInv, NEW C, Candidates(C), NEW b \in Nat \ {0}, NEW n \in 1 .. SeqBound,
         NEW p, PlanOK(p, n - 1, C, b),
         NEW q \in [seqs : SUBSET Nat, blocked : SUBSET Nat, done : BOOLEAN], q.seqs = p.seqs,
         n \in C /\ ~E!Pinned(n) => Cardinality(p.seqs) >= b \/ ~E!Asked(n, p.seqs),
         q.done => \/ Cardinality(p.seqs) >= b
                   \/ \E u \in 1 .. n : DOMAIN x1 \ p.seqs = {u}
  PROVE  PlanOK(q, n, C, b)
  <1>0. SeqBound \in Nat /\ n \in Nat /\ C \subseteq Nat
    BY RetentionBounds, LiveFacts DEF Candidates
  <1>1. ASSUME NEW s \in C, s <= n PROVE s <= n - 1 \/ s = n
    <2>1. s \in Nat /\ n \in Nat  BY <1>0
    <2> QED  BY <1>1, <2>1, SMT
  <1>2. ASSUME NEW s \in C, s <= n - 1 PROVE s <= n
    <2>1. s \in Nat /\ n \in Nat  BY <1>0
    <2> QED  BY <1>2, <2>1, SMT
  <1>3. \A s \in q.seqs : s \in C /\ s <= n /\ ~E!Pinned(s) /\ E!Asked(s, {d \in q.seqs : d < s})
    BY <1>2 DEF PlanOK
  <1>4. \A s \in C : s <= n /\ s \notin q.seqs /\ ~E!Pinned(s) =>
          Cardinality(q.seqs) >= b \/ ~E!Asked(s, q.seqs)
    BY <1>1 DEF PlanOK
  <1>5. Cardinality(q.seqs) <= b
    BY DEF PlanOK
  <1>6. \A s \in q.seqs, old \in C : old < s /\ ~E!Pinned(old) => old \in q.seqs
    BY DEF PlanOK
  <1>7. q.done => \/ Cardinality(q.seqs) >= b
                  \/ \E u \in 1 .. n : DOMAIN x1 \ q.seqs = {u}
    OBVIOUS
  <1> QED  BY <1>3, <1>4, <1>5, <1>6, <1>7, Zenon DEF PlanOK

\* A turn that takes its candidate.
LEMMA Take ==
  ASSUME SweepInv, NEW C, Candidates(C), NEW b \in Nat \ {0}, NEW n \in 1 .. SeqBound,
         NEW p, PlanOK(p, n - 1, C, b), ~p.done, n \in C, ~E!Pinned(n),
         ~(Cardinality(p.seqs) >= b), E!Asked(n, p.seqs),
         \A old \in C : old < n /\ ~E!Pinned(old) => old \in p.seqs
  PROVE  PlanOK(E!Selected(p, n), n, C, b)
  <1> DEFINE q == E!Selected(p, n)
             S == p.seqs
  <1>0. /\ SeqBound \in Nat /\ n \in Nat /\ C \subseteq Nat /\ S \subseteq C
        /\ p \in [seqs : SUBSET Nat, blocked : SUBSET Nat, done : BOOLEAN]
        /\ \A s \in S : s <= n - 1
    BY RetentionBounds, LiveFacts DEF Candidates, PlanOK
  <1>1. /\ q \in [seqs : SUBSET Nat, blocked : SUBSET Nat, done : BOOLEAN]
        /\ q.seqs = S \cup {n} /\ q.done = p.done
    BY <1>0 DEF E!Selected
  <1>2. IsFiniteSet(S) /\ n \notin S
    <2>1. S \in SUBSET DOMAIN x1  BY <1>0 DEF Candidates
    <2>2. IsFiniteSet(S)  BY <2>1, KeptFacts
    <2>3. ~(n <= n - 1)  BY <1>0
    <2>4. n \notin S  BY <1>0, <2>3
    <2> QED  BY <2>2, <2>4
  <1>3. Cardinality(S \cup {n}) = Cardinality(S) + 1 /\ Cardinality(S) \in Nat
    BY <1>2, FS_AddElement, FS_CardinalityType
  <1>4. Cardinality(q.seqs) <= b
    BY <1>1, <1>3
  <1>5. ASSUME NEW s \in q.seqs
        PROVE  s \in C /\ s <= n /\ ~E!Pinned(s) /\ E!Asked(s, {d \in q.seqs : d < s})
    <2>1. CASE s = n
      <3>1. {d \in q.seqs : d < s} = S  BY <1>0, <1>1, <2>1
      <3>2. n <= n  BY <1>0
      <3> QED  BY <2>1, <3>1, <3>2, Zenon
    <2>2. CASE s \in S
      <3>1. s <= n /\ ~(n < s)  BY <1>0, <2>2
      <3>2. {d \in q.seqs : d < s} = {d \in S : d < s}  BY <1>1, <3>1
      <3>3. s \in C /\ ~E!Pinned(s) /\ E!Asked(s, {d \in S : d < s})  BY <2>2 DEF PlanOK
      <3> QED  BY <3>1, <3>2, <3>3
    <2> QED  BY <1>1, <2>1, <2>2
  <1>6. ASSUME NEW s \in q.seqs, NEW old \in C, old < s, ~E!Pinned(old) PROVE old \in q.seqs
    <2>1. old < n
      <3>1. s <= n  BY <1>0, <1>1
      <3> QED  BY <1>0, <1>1, <1>6, <3>1
    <2> QED  BY <1>1, <1>6, <2>1
  <1>7. ASSUME NEW s \in C, s <= n, s \notin q.seqs, ~E!Pinned(s) PROVE FALSE
    <2>1. s < n  BY <1>0, <1>1, <1>7
    <2> QED  BY <1>1, <1>7, <2>1
  <1> HIDE DEF q
  <1>8. ~q.done  BY <1>1
  <1> QED  BY <1>1, <1>4, <1>5, <1>6, <1>7, <1>8, Zenon DEF PlanOK, q

\* A turn of either loop keeps PlanOK.
LEMMA TurnKeeps ==
  ASSUME SweepInv, NEW C, Candidates(C), NEW b \in Nat \ {0}, NEW n \in 1 .. SeqBound,
         NEW p, PlanOK(p, n - 1, C, b), n \in C
  PROVE  PlanOK(E!Turn(p, n, b), n, C, b)
  <1> DEFINE S == p.seqs
             Plan == [seqs : SUBSET Nat, blocked : SUBSET Nat, done : BOOLEAN]
  <1>0. /\ SeqBound \in Nat /\ n \in Nat /\ C \subseteq Nat /\ S \subseteq C /\ p \in Plan
        /\ \A s \in S : s <= n - 1
        /\ n \in DOMAIN x1 /\ C \subseteq DOMAIN x1
    BY RetentionBounds, LiveFacts DEF Candidates, PlanOK
  <1>1. n \in DOMAIN x1 \ S /\ S \in SUBSET DOMAIN x1  BY <1>0
  <1>2. E!Full(p, b) <=> Cardinality(S) >= b  BY CardIs DEF E!Full
  <1>3. p.done => \/ Cardinality(S) >= b
                  \/ \E u \in 1 .. n : DOMAIN x1 \ S = {u}
    <2>1. 1 .. (n - 1) \subseteq 1 .. n  BY <1>0
    <2> QED  BY <2>1 DEF PlanOK
  <1>4. /\ E!Blocked(p, n) \in Plan /\ E!Blocked(p, n).seqs = S /\ E!Blocked(p, n).done = p.done
        /\ E!Stopped(p) \in Plan /\ E!Stopped(p).seqs = S
    BY <1>0 DEF E!Blocked, E!Stopped
  <1>5. CASE p.done
    <2>1. Cardinality(S) >= b
      <3>1. ASSUME NEW u \in 1 .. n - 1, DOMAIN x1 \ S = {u} PROVE FALSE
        <4>1. n = u  BY <1>1, <3>1
        <4> QED  BY <1>0, <4>1
      <3> QED  BY <1>5, <3>1 DEF PlanOK
    <2>2. PlanOK(p, n, C, b)  BY <1>0, <1>3, <2>1, PassOver
    <2> QED  BY <1>5, <2>2 DEF E!Turn
  <1>6. CASE ~p.done /\ E!WorkQueue
    <2>1. \A s \in C : \A D : E!Asked(s, D)  BY <1>6 DEF Candidates
    <2>2. E!Turn(p, n, b) = E!planWorkqueue(p, n, b)  BY <1>6 DEF E!Turn
    <2>3. CASE E!Pinned(n)
      <3>1. E!planWorkqueue(p, n, b) = E!Blocked(p, n)  BY <2>3 DEF E!planWorkqueue
      <3>2. PlanOK(E!Blocked(p, n), n, C, b)  BY <1>3, <1>4, <2>3, PassOver
      <3> QED  BY <2>2, <3>1, <3>2
    <2>4. CASE ~E!Pinned(n) /\ E!Full(p, b)
      <3>1. E!planWorkqueue(p, n, b) = E!Stopped(p)  BY <2>4 DEF E!planWorkqueue
      <3>2. PlanOK(E!Stopped(p), n, C, b)  BY <1>2, <1>4, <2>4, PassOver
      <3> QED  BY <2>2, <3>1, <3>2
    <2>5. CASE ~E!Pinned(n) /\ ~E!Full(p, b)
      <3>1. E!planWorkqueue(p, n, b) = E!Selected(p, n)  BY <2>5 DEF E!planWorkqueue
      <3>2. \A old \in C : old < n /\ ~E!Pinned(old) => old \in S
        <4>1. \A old \in C : old < n => old <= n - 1  BY <1>0
        <4> QED  BY <1>2, <2>1, <2>5, <4>1 DEF PlanOK
      <3>3. PlanOK(E!Selected(p, n), n, C, b)  BY <1>2, <1>6, <2>1, <2>5, <3>2, Take
      <3> QED  BY <2>2, <3>1, <3>3
    <2> QED  BY <2>3, <2>4, <2>5
  <1>7. CASE ~p.done /\ ~E!WorkQueue
    <2>1. E!Turn(p, n, b) = E!PlanEviction(p, n, b)  BY <1>7 DEF E!Turn
    <2>2. \A s \in DOMAIN x1 \ S :
            E!Asked(s, S) <=> (E!WantedByAge(s) \/ (E!Pressed(p) /\ ~E!KeepsTheLast(p)))
      BY <1>1, <1>7, AskedIsWanted
    <2>3. CASE E!Full(p, b) \/ ~(E!WantedByAge(n) \/ E!Pressed(p))
      <3>1. E!PlanEviction(p, n, b) = p  BY <2>3 DEF E!PlanEviction
      <3>2. Cardinality(S) >= b \/ ~E!Asked(n, S)  BY <1>1, <1>2, <2>2, <2>3
      <3>3. PlanOK(p, n, C, b)  BY <1>0, <1>3, <3>2, PassOver
      <3> QED  BY <2>1, <3>1, <3>3
    <2>4. CASE ~(E!Full(p, b) \/ ~(E!WantedByAge(n) \/ E!Pressed(p))) /\ E!Pinned(n)
      <3>1. E!PlanEviction(p, n, b) = E!Blocked(p, n)  BY <2>4 DEF E!PlanEviction
      <3>2. PlanOK(E!Blocked(p, n), n, C, b)  BY <1>3, <1>4, <2>4, PassOver
      <3> QED  BY <2>1, <3>1, <3>2
    <2>5. CASE /\ ~(E!Full(p, b) \/ ~(E!WantedByAge(n) \/ E!Pressed(p))) /\ ~E!Pinned(n)
               /\ ~E!WantedByAge(n) /\ E!KeepsTheLast(p)
      <3>1. E!PlanEviction(p, n, b) = E!Stopped(p)  BY <2>5 DEF E!PlanEviction
      <3>2. ~E!Asked(n, S)  BY <1>1, <2>2, <2>5
      <3>3. DOMAIN x1 \ S = {n}  BY <1>1, <1>7, <2>5, AskedIsWanted
      <3>4. n \in 1 .. n  BY <1>0
      <3>5. PlanOK(E!Stopped(p), n, C, b)  BY <1>4, <3>2, <3>3, <3>4, PassOver
      <3> QED  BY <2>1, <3>1, <3>5
    <2>6. CASE /\ ~(E!Full(p, b) \/ ~(E!WantedByAge(n) \/ E!Pressed(p))) /\ ~E!Pinned(n)
               /\ ~(~E!WantedByAge(n) /\ E!KeepsTheLast(p))
      <3>1. E!PlanEviction(p, n, b) = E!Selected(p, n)  BY <2>6 DEF E!PlanEviction
      <3>2. E!Asked(n, S)  BY <1>1, <2>2, <2>6
      <3>3. ASSUME NEW old \in C, old < n, ~E!Pinned(old), old \notin S PROVE FALSE
        <4>1. old <= n - 1 /\ old \in DOMAIN x1 \ S  BY <1>0, <3>3
        <4>2. ~E!Asked(old, S)  BY <1>2, <2>6, <3>3, <4>1 DEF PlanOK
        <4>3. E!WantedByAge(n) => E!WantedByAge(old)
          <5>1. x1[old].at <= x1[n].at /\ x1[old].at \in Nat /\ x1[n].at \in Nat
            BY <1>0, <3>3, <4>1, LiveFacts DEF SweepInv, ClockOK
          <5> QED  BY <5>1, LiveFacts DEF E!WantedByAge
        <4> QED  BY <2>2, <2>6, <4>1, <4>2, <4>3
      <3>4. PlanOK(E!Selected(p, n), n, C, b)  BY <1>2, <1>7, <2>6, <3>2, <3>3, Take
      <3> QED  BY <2>1, <3>1, <3>4
    <2> QED  BY <2>3, <2>4, <2>5, <2>6
  <1> QED  BY <1>5, <1>6, <1>7

\* The plan a sweep acts on is OK for all its candidates.
LEMMA PlanIsOK ==
  ASSUME SweepInv, NEW C, Candidates(C), NEW b \in Nat \ {0}
  PROVE  PlanOK(E!Planned(C, b), SeqBound, C, b)
  <1>1. PICK g : /\ g[0] = E!NoPlan /\ E!Planned(C, b) = g[SeqBound]
                 /\ \A n \in 1 .. SeqBound :
                      g[n] = IF n \in C THEN E!Turn(g[n - 1], n, b) ELSE g[n - 1]
    BY PlanIsWalk
  <1> DEFINE bad == {n \in 0 .. SeqBound : ~PlanOK(g[n], n, C, b)}
  <1>0. SeqBound \in Nat /\ C \subseteq Nat  BY RetentionBounds, LiveFacts DEF Candidates
  <1> SUFFICES ASSUME bad # {} PROVE FALSE  BY <1>0, <1>1
  <1>2. bad \subseteq Nat  BY <1>0
  <1>3. PICK n \in bad : \A j \in bad : n <= j  BY <1>2, LeastExists, Zenon
  <1>4. n \in 0 .. SeqBound /\ ~PlanOK(g[n], n, C, b)  OBVIOUS
  <1>5. CASE n = 0
    <2>1. PICK p : p = E!NoPlan  OBVIOUS
    <2>2. /\ p \in [seqs : SUBSET Nat, blocked : SUBSET Nat, done : BOOLEAN]
          /\ p.seqs = {} /\ ~p.done
      BY <2>1 DEF E!NoPlan
    <2>3. Cardinality({}) = 0  BY FS_EmptySet
    <2>4. \A s \in C : ~(s <= 0)
      BY LiveFacts DEF Candidates
    <2>5. Cardinality(p.seqs) <= b  BY <2>2, <2>3
    <2>6. PlanOK(p, 0, C, b)  BY <2>2, <2>4, <2>5 DEF PlanOK
    <2> QED  BY <1>1, <1>4, <1>5, <2>1, <2>6
  <1>6. CASE n # 0
    <2>1. n \in 1 .. SeqBound /\ n - 1 \in 0 .. SeqBound /\ ~(n <= n - 1)  BY <1>0, <1>4, <1>6
    <2>2. PlanOK(g[n - 1], n - 1, C, b)  BY <1>3, <2>1
    <2>3. PICK p : p = g[n - 1]  OBVIOUS
    <2>4. CASE n \in C
      <3>1. PlanOK(E!Turn(p, n, b), n, C, b)  BY <2>1, <2>2, <2>3, <2>4, TurnKeeps
      <3>2. g[n] = E!Turn(p, n, b)  BY <1>1, <2>1, <2>3, <2>4
      <3> QED  BY <1>4, <3>1, <3>2
    <2>5. CASE n \notin C
      <3>1. p \in [seqs : SUBSET Nat, blocked : SUBSET Nat, done : BOOLEAN]
        BY <2>2, <2>3 DEF PlanOK
      <3>2. p.done => \/ Cardinality(p.seqs) >= b
                      \/ \E u \in 1 .. n : DOMAIN x1 \ p.seqs = {u}
        <4>1. 1 .. (n - 1) \subseteq 1 .. n  BY <2>1
        <4> QED  BY <2>2, <2>3, <4>1 DEF PlanOK
      <3>3. PlanOK(p, n, C, b)  BY <2>1, <2>2, <2>3, <2>5, <3>1, <3>2, PassOver
      <3>4. g[n] = p  BY <1>1, <2>1, <2>3, <2>5
      <3> QED  BY <1>4, <3>3, <3>4
    <2> QED  BY <2>4, <2>5
  <1> QED  BY <1>5, <1>6

-----------------------------------------------------------------------------
(* The candidates are the oldest messages. *)

Cands(b) == E!candidatesFor(E!Window(b))
Unowned == E!WorkQueue /\ DOMAIN x3 = {}

\* Nothing older than a candidate is left out, and what is left out has a
\* window of older messages.
LEMMA CandidatesAreOldest ==
  ASSUME SweepInv, NEW b \in Nat \ {0}, ~Unowned
  PROVE  /\ Candidates(Cands(b))
         /\ \A s \in Cands(b), old \in DOMAIN x1 : old < s => old \in Cands(b)
         /\ \A s \in DOMAIN x1 : E!BelowFloor(s) =>
              s \in Cands(b) \/ Cardinality({t \in DOMAIN x1 : t < s}) >= E!Window(b)
  <1> DEFINE L == {s \in DOMAIN x1 : E!BelowFloor(s)}
             upTo(s) == {t \in L : t <= s}
             w == E!Window(b)
  <1>0. /\ DOMAIN x1 \subseteq Nat /\ IsFiniteSet(DOMAIN x1) /\ IsFiniteSet(L)
        /\ w \in Nat
    <2>1. IsFiniteSet(L)  BY LiveFacts, FS_Subset
    <2> QED  BY <2>1, LiveFacts, RetentionBounds DEF E!Window
  <1>1. Cands(b) = {s \in L : Cardinality(upTo(s)) <= w}
    BY CardIs DEF Cands, E!candidatesFor, E!Oldest, E!Live
  <1>2. ASSUME NEW s \in DOMAIN x1, NEW old \in DOMAIN x1, old < s, E!BelowFloor(s)
        PROVE  E!BelowFloor(old)
    <2>1. \A c \in DOMAIN x3 : x3[c] \in Nat  BY DEF SweepInv, TablesOK
    <2>2. s \in Nat /\ old \in Nat  BY <1>0
    <2>3. \A c \in DOMAIN x3 : s < x3[c] => old < x3[c]  BY <1>2, <2>1, <2>2
    <2> QED  BY <1>2, <2>3 DEF E!BelowFloor
  <1>3. Candidates(Cands(b))
    <2>1. Cands(b) \subseteq DOMAIN x1  BY <1>1
    <2>2. ASSUME E!WorkQueue, NEW s \in Cands(b), NEW D PROVE E!Asked(s, D)
      <3>1. E!BelowFloor(s)  BY <1>1
      <3>2. DOMAIN x3 # {}  BY <2>2 DEF Unowned
      <3> QED  BY <2>2, <3>1, <3>2 DEF E!Asked, E!BelowFloor
    <2> QED  BY <2>1, <2>2 DEF Candidates
  <1> HIDE DEF L
  <1>4. ASSUME NEW s \in Cands(b), NEW old \in DOMAIN x1, old < s PROVE old \in Cands(b)
    <2>1. s \in L /\ s \in DOMAIN x1 /\ Cardinality(upTo(s)) <= w  BY <1>1 DEF L
    <2>2. old \in L  BY <1>2, <1>4, <2>1 DEF L
    <2>3. L \subseteq Nat  BY <1>0 DEF L
    <2>4. upTo(old) \subseteq upTo(s)  BY <1>4, <2>1, <2>2, <2>3
    <2>5. IsFiniteSet(upTo(s))  BY <1>0, FS_Subset
    <2>6. /\ Cardinality(upTo(old)) <= Cardinality(upTo(s))
          /\ Cardinality(upTo(old)) \in Nat /\ Cardinality(upTo(s)) \in Nat
      BY <2>4, <2>5, FS_Subset, FS_CardinalityType
    <2>7. Cardinality(upTo(old)) <= w  BY <1>0, <2>1, <2>6
    <2> QED  BY <1>1, <2>2, <2>7
  <1>5. ASSUME NEW s \in DOMAIN x1, E!BelowFloor(s), s \notin Cands(b)
        PROVE  Cardinality({t \in DOMAIN x1 : t < s}) >= w
    <2> DEFINE older == {t \in DOMAIN x1 : t < s}
    <2>1. s \in L  BY <1>5 DEF L
    <2>2. ~(Cardinality(upTo(s)) <= w)  BY <1>1, <1>5, <2>1
    <2>3. s \in Nat  BY <1>0
    <2>4. upTo(s) \subseteq older \cup {s}  BY <1>0, <2>3 DEF L
    <2>5. IsFiniteSet(older)  BY <1>0, FS_Subset
    <2>6. /\ IsFiniteSet(older \cup {s})
          /\ Cardinality(older \cup {s}) <= Cardinality(older) + 1 /\ Cardinality(older) \in Nat
      <3>1. s \notin older  BY <2>3
      <3> HIDE DEF older
      <3>2. Cardinality(older) \in Nat  BY <2>5, FS_CardinalityType
      <3>3. IsFiniteSet(older \cup {s})  BY <2>5, FS_AddElement
      <3>4. Cardinality(older \cup {s}) = Cardinality(older) + 1  BY <2>5, <3>1, FS_AddElement
      <3>5. PICK k \in Nat : k = Cardinality(older)  BY <3>2
      <3> QED  BY <3>3, <3>4, <3>5
    <2>7. Cardinality(upTo(s)) <= Cardinality(older \cup {s})  BY <2>4, <2>6, FS_Subset
    <2>8. Cardinality(upTo(s)) \in Nat /\ Cardinality(older \cup {s}) \in Nat
      BY <2>4, <2>6, FS_Subset, FS_CardinalityType
    <2> HIDE DEF older, upTo, w
    <2>9. Cardinality(older) >= w  BY <1>0, <2>2, <2>6, <2>7, <2>8
    <2> QED  BY <2>9 DEF older
  <1> QED  BY <1>3, <1>4, <1>5

\* What a sweep that does its work does.
LEMMA SweepFacts ==
  ASSUME SweepInv, NEW b \in Nat \ {0}, ~Unowned, E!Sweep(b)
  PROVE  \E p : /\ PlanOK(p, SeqBound, Cands(b), b) /\ p.seqs \in SUBSET DOMAIN x1
                /\ x1' = [s \in DOMAIN x1 \ p.seqs |-> x1[s]]
                /\ x6' = IF p.seqs = {} THEN x6 ELSE E!updateWatermarks(p.seqs)
                /\ E!Gone = p.seqs
                /\ \A q \in x8'.blame :
                     /\ q \in E!emitBlockedEvent(p.blocked)
                     /\ E!StillViolating(x6.msgs - Cardinality(p.seqs), x6.bytes - SumOf(x1, p.seqs))
  <1>1. PICK p : p = E!Planned(Cands(b), b)  OBVIOUS
  <1>2. Candidates(Cands(b))  BY CandidatesAreOldest
  <1>3. PlanOK(p, SeqBound, Cands(b), b)  BY <1>1, <1>2, PlanIsOK
  <1>4. p.seqs \in SUBSET DOMAIN x1  BY <1>2, <1>3 DEF PlanOK, Candidates
  <1>5. {s \in p.seqs : ~E!Pinned(s)} = p.seqs  BY <1>3 DEF PlanOK
  <1>6. E!sweepOne(b)  BY DEF E!Sweep, Unowned
  <1> DEFINE still == E!StillViolating(x6.msgs - E!Cardinality(p.seqs), x6.bytes - E!Bytes(p.seqs))
  <1>7. /\ E!Delete(p.seqs)
        /\ \A q \in x8'.blame : still /\ q \in E!emitBlockedEvent(p.blocked)
    <2>1. /\ E!Delete(p.seqs)
          /\ \E m : x8' = [more |-> m,
               blame |-> IF p.blocked # {} /\ still THEN E!emitBlockedEvent(p.blocked) ELSE {}]
      BY <1>1, <1>5, <1>6, Zenon DEF E!sweepOne, Cands
    <2> HIDE DEF still
    <2> QED  BY <2>1
  <1>8. /\ x1' = [s \in DOMAIN x1 \ p.seqs |-> x1[s]]
        /\ x6' = IF p.seqs = {} THEN x6 ELSE E!updateWatermarks(p.seqs)
    BY <1>7 DEF E!Delete, E!Live
  <1>9. E!Gone = p.seqs  BY <1>4, <1>8 DEF E!Gone, E!Live
  <1>10. \A q \in x8'.blame :
           /\ q \in E!emitBlockedEvent(p.blocked)
           /\ E!StillViolating(x6.msgs - Cardinality(p.seqs), x6.bytes - SumOf(x1, p.seqs))
    BY <1>7, CardIs, BytesIs, Zenon
  <1> QED  BY <1>3, <1>4, <1>8, <1>9, <1>10

-----------------------------------------------------------------------------
(* Every step keeps the books. *)

\* A publish books one message and its size.
LEMMA PublishKeeps ==
  ASSUME SweepInv, NEW size \in Sizes, E!Publish(size)
  PROVE  SweepInv'
  <1>0. /\ SeqBound \in Nat /\ size \in Nat /\ x2 \in Nat /\ x2 >= 1 /\ x2 <= SeqBound
        /\ DOMAIN x1 \subseteq 1 .. x2 - 1 /\ x2 \notin DOMAIN x1 /\ x7 \in Nat
    BY RetentionBounds DEF SweepInv, TablesOK, ClockOK, E!Publish
  <1>1. /\ x1' = [s \in DOMAIN x1 \cup {x2} |->
                    IF s = x2 THEN [size |-> size, at |-> x7] ELSE x1[s]]
        /\ x2' = x2 + 1 /\ x3' = x3 /\ x4' = x4 /\ x5' = x5 /\ x7' = x7
        /\ x6' = [x6 EXCEPT !.msgs = @ + 1, !.bytes = @ + size]
    BY DEF E!Publish, E!Live
  <1>2. /\ DOMAIN x1' = DOMAIN x1 \cup {x2} /\ x1'[x2] = [size |-> size, at |-> x7]
        /\ \A s \in DOMAIN x1 : x1'[s] = x1[s]
    BY <1>0, <1>1
  <1>3. TablesOK'
    BY <1>0, <1>1, <1>2 DEF SweepInv, TablesOK
  <1>4. ClockOK'
    <2>1. \A s \in DOMAIN x1' : x1'[s] \in [size : Nat, at : Nat] /\ x1'[s].at <= x7
      BY <1>0, <1>2 DEF SweepInv, ClockOK
    <2>2. ASSUME NEW s \in DOMAIN x1', NEW t \in DOMAIN x1', s < t PROVE x1'[s].at <= x1'[t].at
      <3>1. s # x2
        BY <1>0, <1>2, <2>2
      <3>2. CASE t = x2  BY <1>2, <2>1, <3>2
      <3>3. CASE t # x2  BY <1>2, <2>2, <3>1, <3>3 DEF SweepInv, ClockOK
      <3> QED  BY <3>2, <3>3
    <2> QED  BY <1>0, <1>1, <2>1, <2>2 DEF ClockOK
  <1>5. Cardinality(DOMAIN x1') = x6.msgs + 1
    BY <1>0, <1>2, LiveFacts, FS_AddElement
  <1>6. SumOf(x1', DOMAIN x1') = x6.bytes + size
    <2>1. \A n \in DOMAIN x1' : x1'[n].size \in Nat  BY <1>0, <1>2, LiveFacts
    <2>2. SumOf(x1', DOMAIN x1') = SumOf(x1', DOMAIN x1' \ {x2}) + SumOf(x1', {x2})
      BY <1>2, <2>1, SumOfRest
    <2>3. DOMAIN x1' \ {x2} = DOMAIN x1  BY <1>0, <1>2
    <2>4. SumOf(x1', DOMAIN x1) = SumOf(x1, DOMAIN x1)
      <3>1. \A n \in DOMAIN x1 : x1[n].size \in Nat /\ x1'[n].size = x1[n].size
        BY <1>2, LiveFacts
      <3> QED  BY <3>1, SumOfSame
    <2>5. SumOf(x1', {x2}) = size
      <3>1. x2 \in 1 .. SeqBound /\ x1'[x2].size = size  BY <1>0, <1>2
      <3> QED  BY <1>0, <3>1, SumOfOne
    <2> QED  BY <2>2, <2>3, <2>4, <2>5, LiveFacts
  <1>7. BooksOK'
    BY <1>1, <1>5, <1>6 DEF SweepInv, BooksOK
  <1> QED  BY <1>3, <1>4, <1>7 DEF SweepInv

\* Claims, settles, updates and the clock leave messages and counters alone.
LEMMA AroundKeeps ==
  ASSUME SweepInv,
         \/ \E c \in Holders : E!Claim(c)
         \/ \E pin \in x4 : E!Settle(pin)
         \/ \E new \in StreamConfigs : E!UpdateStream(new)
         \/ E!Tick
  PROVE  SweepInv'
  <1>1. x1' = x1 /\ x2' = x2 /\ x6' = x6 /\ x7' \in Nat /\ x7 <= x7'
    BY DEF E!Claim, E!Settle, E!UpdateStream, E!Tick, SweepInv, ClockOK
  <1>2. x3' \in [DOMAIN x3' -> Nat] /\ x4' \subseteq Holders \X Nat
    <2>1. ASSUME NEW c \in Holders, E!Claim(c)
          PROVE  x3' \in [DOMAIN x3' -> Nat] /\ x4' \subseteq Holders \X Nat
      <3>1. PICK s \in DOMAIN x1 : x4' = x4 \cup {<<c, s>>} /\ x3' = [x3 EXCEPT ![c] = s + 1]
        BY <2>1 DEF E!Claim, E!Live
      <3>2. s \in Nat  BY LiveFacts
      <3>3. x3 \in [DOMAIN x3 -> Nat] /\ x4 \subseteq Holders \X Nat  BY DEF SweepInv, TablesOK
      <3>4. <<c, s>> \in Holders \X Nat  BY <3>2
      <3>5. DOMAIN x3' = DOMAIN x3 /\ \A k \in DOMAIN x3 : x3'[k] \in Nat  BY <3>1, <3>2, <3>3
      <3>6. x3' = [k \in DOMAIN x3' |-> x3'[k]]  BY <3>1
      <3> QED  BY <3>1, <3>3, <3>4, <3>5, <3>6
    <2>2. ASSUME ~\E c \in Holders : E!Claim(c)
          PROVE  x3' = x3 /\ x4' \subseteq x4
      BY <2>2 DEF E!Settle, E!UpdateStream, E!Tick
    <2> QED  BY <2>1, <2>2 DEF SweepInv, TablesOK
  <1>3. x5' \in StreamConfigs
    BY DEF E!Claim, E!Settle, E!UpdateStream, E!Tick, SweepInv, TablesOK
  <1>4. TablesOK'  BY <1>1, <1>2, <1>3 DEF SweepInv, TablesOK
  <1>5. ClockOK'
    <2>1. \A s \in DOMAIN x1 : x1[s].at <= x7'
      BY <1>1, LiveFacts DEF SweepInv, ClockOK
    <2> QED  BY <1>1, <2>1 DEF SweepInv, ClockOK
  <1> QED  BY <1>1, <1>4, <1>5 DEF SweepInv, BooksOK

\* A sweep books what it deletes.
LEMMA SweepKeeps ==
  ASSUME SweepInv, NEW b \in Batches, E!Sweep(b)
  PROVE  SweepInv'
  <1>0. b \in Nat \ {0}  BY RetentionBounds
  <1>1. x2' = x2 /\ x3' = x3 /\ x4' = x4 /\ x5' = x5 /\ x7' = x7  BY DEF E!Sweep
  <1>2. CASE Unowned
    <2>1. x1' = x1 /\ x6' = x6  BY <1>2 DEF E!Sweep, Unowned
    <2> QED  BY <1>1, <2>1 DEF SweepInv, TablesOK, ClockOK, BooksOK
  <1>3. CASE ~Unowned
    <2>1. PICK p : /\ p.seqs \in SUBSET DOMAIN x1
                   /\ x1' = [s \in DOMAIN x1 \ p.seqs |-> x1[s]]
                   /\ x6' = IF p.seqs = {} THEN x6 ELSE E!updateWatermarks(p.seqs)
      BY <1>0, <1>3, SweepFacts
    <2>2. PICK D : D = p.seqs  OBVIOUS
    <2>3. D \in SUBSET DOMAIN x1 /\ x1' = [s \in DOMAIN x1 \ D |-> x1[s]]  BY <2>1, <2>2
    <2>4. DOMAIN x1' = DOMAIN x1 \ D /\ \A s \in DOMAIN x1' : s \in DOMAIN x1 /\ x1'[s] = x1[s]
      BY <2>3
    <2>5. TablesOK'  BY <1>1, <2>4 DEF SweepInv, TablesOK
    <2>6. ClockOK'
      BY <1>1, <2>4 DEF SweepInv, ClockOK
    <2>7. SumOf(x1', DOMAIN x1') = SumOf(x1, DOMAIN x1 \ D)
      <3>1. \A n \in DOMAIN x1 \ D : x1[n].size \in Nat /\ x1'[n].size = x1[n].size
        BY <2>4, LiveFacts
      <3> QED  BY <2>4, <3>1, SumOfSame
    <2>8. PICK k \in Nat : k = Cardinality(D) /\ Cardinality(DOMAIN x1') = x6.msgs - k
      BY <2>3, <2>4, KeptFacts
    <2>9. PICK y \in Nat : y = SumOf(x1, D) /\ SumOf(x1', DOMAIN x1') = x6.bytes - y
      BY <2>3, <2>7, KeptFacts
    <2>10. BooksOK'
      <3>1. CASE D = {}
        <4>1. x6' = x6 /\ k = 0 /\ y = 0
          BY <2>1, <2>2, <2>8, <2>9, <3>1, FS_EmptySet, SumOfNone
        <4> QED  BY <2>8, <2>9, <4>1, LiveFacts DEF SweepInv, BooksOK
      <3>2. CASE D # {}
        <4>1. E!Cardinality(D) = k /\ E!Bytes(D) = y  BY <2>8, <2>9, CardIs, BytesIs
        <4>2. \E e : x6' = [x6 EXCEPT !.msgs = @ - k, !.bytes = @ - y, !.expired = e]
          BY <2>1, <2>2, <3>2, <4>1, Zenon DEF E!updateWatermarks
        <4> QED  BY <2>8, <2>9, <4>2 DEF SweepInv, BooksOK
      <3> QED  BY <3>1, <3>2
    <2> QED  BY <2>5, <2>6, <2>10 DEF SweepInv
  <1> QED  BY <1>2, <1>3

KeptInv == part = "retention" => SweepInv

\* The invariant holds at the start.
LEMMA KeptInit == RequestsInit => KeptInv
  <1> SUFFICES ASSUME RequestsInit, part = "retention" PROVE SweepInv  BY DEF KeptInv
  <1>1. E!Init  BY DEF RequestsInit
  <1>2. PICK H \in SUBSET Holders : x3 = [c \in H |-> 1]  BY <1>1 DEF E!Init
  <1>3. /\ DOMAIN x1 = {} /\ x2 = 1 /\ x4 = {} /\ x5 \in StreamConfigs /\ x7 = 1
        /\ x6 = [msgs |-> 0, bytes |-> 0, expired |-> 0]
    BY <1>1 DEF E!Init
  <1>4. TablesOK /\ ClockOK  BY <1>2, <1>3, RetentionBounds DEF TablesOK, ClockOK
  <1>5. SumOf(x1, {}) = 0 /\ Cardinality({}) = 0  BY SumOfNone, FS_EmptySet
  <1>6. BooksOK  BY <1>3, <1>5 DEF BooksOK
  <1> QED  BY <1>4, <1>6 DEF SweepInv

\* Every step keeps it.
LEMMA KeptStep == KeptInv /\ [RequestsNext]_<<part, others, vars>> => KeptInv'
  <1> SUFFICES ASSUME KeptInv, [RequestsNext]_<<part, others, vars>>, part' = "retention"
               PROVE  SweepInv'
    BY DEF KeptInv
  <1>1. CASE UNCHANGED <<part, others, vars>>
    BY <1>1 DEF KeptInv, others, SweepInv, TablesOK, ClockOK, BooksOK
  <1>2. CASE RequestsNext
    <2>1. part = "retention" /\ E!Next  BY <1>2 DEF RequestsNext
    <2>2. SweepInv  BY <2>1 DEF KeptInv
    <2> QED  BY <2>1, <2>2, PublishKeeps, AroundKeeps, SweepKeeps DEF E!Next
  <1> QED  BY <1>1, <1>2

-----------------------------------------------------------------------------
(* What a sweep does. *)

VictimsOK ==
    \A s \in E!Gone :
        /\ ~E!Pinned(s) /\ E!Asked(s, {d \in E!Gone : d < s})
        /\ \A old \in DOMAIN x1 : old < s /\ ~E!Pinned(old) => old \in E!Gone
BatchOK(b) ==
    /\ E!Cardinality(E!Gone) <= b
    /\ E!Cardinality(E!Gone) < b =>
         \A s \in DOMAIN x1 \ E!Gone :
             \/ E!Pinned(s) \/ ~E!Asked(s, E!Gone)
             \/ E!Cardinality({t \in DOMAIN x1 : t < s}) >= E!Window(b)
    /\ x6'.msgs = E!Cardinality(DOMAIN x1 \ E!Gone) /\ x6'.bytes = E!Bytes(DOMAIN x1 \ E!Gone)
BlameOK ==
    \A p \in x8'.blame :
        /\ p \in x4 /\ \A q \in x4 : p[2] <= q[2]
        /\ E!StillViolating(E!Cardinality(DOMAIN x1 \ E!Gone), E!Bytes(DOMAIN x1 \ E!Gone))

\* The parts of the property.
LEMMA StepParts ==
  VictimsOK /\ (\A b \in Batches : E!Sweep(b) => BatchOK(b)) /\ BlameOK => E!SweepStep
  BY Zenon DEF VictimsOK, BatchOK, BlameOK, E!SweepStep, E!Live

\* A sweep of a work queue nobody consumes.
LEMMA IdleSweep ==
  ASSUME SweepInv, NEW b \in Batches, E!Sweep(b), Unowned
  PROVE  VictimsOK /\ BatchOK(b) /\ BlameOK
  <1>1. x1' = x1 /\ x6' = x6 /\ x8' = E!NoAnswer  BY DEF E!Sweep, Unowned
  <1>2. E!Gone = {}  BY <1>1 DEF E!Gone, E!Live
  <1>3. E!Cardinality({}) = 0  BY CardIs, FS_EmptySet
  <1>4. \A s : ~E!Asked(s, {})  BY DEF E!Asked, Unowned
  <1>5. DOMAIN x1 \ {} = DOMAIN x1  OBVIOUS
  <1>6. BatchOK(b)
    <2>1. x6'.msgs = E!Cardinality(DOMAIN x1) /\ x6'.bytes = E!Bytes(DOMAIN x1)
      BY <1>1, LiveFacts, CardIs, BytesIs
    <2>2. b \in Nat  BY RetentionBounds
    <2> QED  BY <1>2, <1>3, <1>4, <1>5, <2>1, <2>2 DEF BatchOK
  <1>7. BlameOK  BY <1>1 DEF BlameOK, E!NoAnswer
  <1> QED  BY <1>2, <1>6, <1>7 DEF VictimsOK

\* A sweep that plans and deletes.
LEMMA WorkingSweep ==
  ASSUME SweepInv, NEW b \in Batches, E!Sweep(b), ~Unowned
  PROVE  VictimsOK /\ BatchOK(b) /\ BlameOK
  <1>0. b \in Nat \ {0}  BY RetentionBounds
  <1>1. PICK p : /\ PlanOK(p, SeqBound, Cands(b), b) /\ p.seqs \in SUBSET DOMAIN x1
                 /\ x1' = [s \in DOMAIN x1 \ p.seqs |-> x1[s]]
                 /\ x6' = IF p.seqs = {} THEN x6 ELSE E!updateWatermarks(p.seqs)
                 /\ E!Gone = p.seqs
                 /\ \A q \in x8'.blame :
                      /\ q \in E!emitBlockedEvent(p.blocked)
                      /\ E!StillViolating(x6.msgs - Cardinality(p.seqs), x6.bytes - SumOf(x1, p.seqs))
    BY <1>0, SweepFacts
  <1>2. PICK D : D = p.seqs  OBVIOUS
  <1>3. E!Gone = D /\ D \in SUBSET DOMAIN x1  BY <1>1, <1>2
  <1>4. /\ \A s \in Cands(b), old \in DOMAIN x1 : old < s => old \in Cands(b)
        /\ \A s \in DOMAIN x1 : E!BelowFloor(s) =>
             s \in Cands(b) \/ Cardinality({t \in DOMAIN x1 : t < s}) >= E!Window(b)
    BY <1>0, CandidatesAreOldest
  <1>5. VictimsOK
    <2>1. \A s \in D : s \in Cands(b) /\ ~E!Pinned(s) /\ E!Asked(s, {d \in D : d < s})
      BY <1>1, <1>2 DEF PlanOK
    <2>2. \A s \in D, old \in Cands(b) : old < s /\ ~E!Pinned(old) => old \in D
      BY <1>1, <1>2 DEF PlanOK
    <2>3. \A s \in D, old \in DOMAIN x1 : old < s /\ ~E!Pinned(old) => old \in D
      BY <1>4, <2>1, <2>2
    <2> QED  BY <1>3, <2>1, <2>3, Zenon DEF VictimsOK
  <1>6. /\ Cardinality(D) <= b
        /\ \A s \in Cands(b) : s <= SeqBound /\ s \notin D /\ ~E!Pinned(s) =>
             Cardinality(D) >= b \/ ~E!Asked(s, D)
    BY <1>1, <1>2 DEF PlanOK
  <1>7. E!Cardinality(D) = Cardinality(D) /\ Cardinality(D) \in Nat
    BY <1>3, CardIs, KeptFacts
  <1>8. ASSUME Cardinality(D) < b, NEW s \in DOMAIN x1 \ D, ~E!Pinned(s), E!Asked(s, D)
        PROVE  E!Cardinality({t \in DOMAIN x1 : t < s}) >= E!Window(b)
    <2>1. s \notin Cands(b)
      <3>1. s <= SeqBound  BY LiveFacts, RetentionBounds
      <3>2. ~(Cardinality(D) >= b)  BY <1>0, <1>7, <1>8
      <3> QED  BY <1>6, <1>8, <3>1, <3>2
    <2>2. E!BelowFloor(s)  BY <1>8 DEF E!BelowFloor, E!Asked
    <2> QED  BY <1>4, <2>1, <2>2, CardIs
  <1>9. /\ x6'.msgs = E!Cardinality(DOMAIN x1 \ D) /\ x6'.bytes = E!Bytes(DOMAIN x1 \ D)
        /\ E!Cardinality(DOMAIN x1 \ D) = x6.msgs - Cardinality(D)
        /\ E!Bytes(DOMAIN x1 \ D) = x6.bytes - SumOf(x1, D)
    <2>1. /\ E!Cardinality(DOMAIN x1 \ D) = x6.msgs - Cardinality(D)
          /\ E!Bytes(DOMAIN x1 \ D) = x6.bytes - SumOf(x1, D)
      BY <1>3, KeptFacts, CardIs, BytesIs
    <2>2. DOMAIN x1' = DOMAIN x1 \ D /\ \A n \in DOMAIN x1 \ D : x1'[n] = x1[n]
      BY <1>1, <1>2
    <2>3. SumOf(x1', DOMAIN x1 \ D) = SumOf(x1, DOMAIN x1 \ D)
      <3>1. \A n \in DOMAIN x1 \ D : x1[n].size \in Nat /\ x1'[n].size = x1[n].size
        BY <2>2, LiveFacts
      <3> QED  BY <3>1, SumOfSame
    <2>4. BooksOK'  BY SweepKeeps DEF SweepInv
    <2>5. x6'.msgs = Cardinality(DOMAIN x1') /\ x6'.bytes = SumOf(x1', DOMAIN x1')
      BY <2>4 DEF BooksOK
    <2> QED  BY <2>1, <2>2, <2>3, <2>5, CardIs, BytesIs
  <1>10. BatchOK(b)
    <2>1. E!Cardinality(E!Gone) <= b  BY <1>3, <1>6, <1>7
    <2>2. ASSUME E!Cardinality(E!Gone) < b, NEW s \in DOMAIN x1 \ E!Gone
          PROVE  \/ E!Pinned(s) \/ ~E!Asked(s, E!Gone)
                 \/ E!Cardinality({t \in DOMAIN x1 : t < s}) >= E!Window(b)
      <3>1. Cardinality(D) < b  BY <1>3, <1>7, <2>2
      <3> QED  BY <1>3, <1>8, <2>2, <3>1, Zenon
    <2> QED  BY <1>3, <1>9, <2>1, <2>2, Zenon DEF BatchOK
  <1>11. BlameOK
    <2> SUFFICES ASSUME NEW q \in x8'.blame
                 PROVE  /\ q \in x4 /\ \A r \in x4 : q[2] <= r[2]
                        /\ E!StillViolating(E!Cardinality(DOMAIN x1 \ D), E!Bytes(DOMAIN x1 \ D))
      BY <1>3, Zenon DEF BlameOK
    <2>1. /\ q \in E!emitBlockedEvent(p.blocked)
          /\ E!StillViolating(x6.msgs - Cardinality(D), x6.bytes - SumOf(x1, D))
      BY <1>1, <1>2
    <2>2. E!StillViolating(E!Cardinality(DOMAIN x1 \ D), E!Bytes(DOMAIN x1 \ D))
      BY <1>9, <2>1
    <2>3. p.blocked \subseteq Nat /\ \A r \in x4 : r[2] \in Nat
      BY <1>1 DEF PlanOK, SweepInv, TablesOK
    <2>4. /\ q \in x4 /\ \E s \in p.blocked : q[2] <= s
          /\ \A r \in x4 : (\E s \in p.blocked : r[2] <= s) => q[2] <= r[2]
      BY <2>1 DEF E!emitBlockedEvent, E!SelectBlame
    <2>5. \A r \in x4 : q[2] <= r[2]
      <3> TAKE r \in x4
      <3>1. PICK s \in p.blocked : q[2] <= s  BY <2>4
      <3>2. s \in Nat /\ q[2] \in Nat /\ r[2] \in Nat  BY <2>3, <2>4
      <3>3. r[2] <= s => q[2] <= r[2]  BY <2>4
      <3> QED  BY <3>1, <3>2, <3>3
    <2> QED  BY <2>2, <2>4, <2>5
  <1> QED  BY <1>5, <1>10, <1>11

\* A retention sweep deletes only unpinned messages the configuration asks
\* for, oldest first and within its batch, leaves none in its window that is
\* asked for while the batch has room, keeps the counters equal to what is
\* stored and blames a holder of the oldest delivery row, for any limits,
\* sizes, batches and consumers (retention.go: PlanEviction, planWorkqueue,
\* sweepOne).
THEOREM SweepsAreJustified == RequestsSpec => SweepIsJustified
  <1>1. KeptInv /\ [RequestsNext]_<<part, others, vars>>
          => [part = "retention" => E!SweepStep]_<<part, others, vars>>
    <2> SUFFICES ASSUME KeptInv, RequestsNext, part = "retention" PROVE E!SweepStep
      BY Zenon
    <2>1. SweepInv /\ E!Next  BY DEF KeptInv, RequestsNext
    <2>2. ASSUME NEW b \in Batches, E!Sweep(b) PROVE VictimsOK /\ BatchOK(b) /\ BlameOK
      BY <2>1, <2>2, IdleSweep, WorkingSweep
    <2>3. CASE \E b \in Batches : E!Sweep(b)
      BY <2>2, <2>3, StepParts
    <2>4. CASE ~\E b \in Batches : E!Sweep(b)
      <3>1. DOMAIN x1 \subseteq DOMAIN x1' /\ x8' = E!NoAnswer
        BY <2>1, <2>4 DEF E!Next, E!Publish, E!Claim, E!Settle, E!UpdateStream, E!Tick, E!Live
      <3>2. E!Gone = {}  BY <3>1 DEF E!Gone, E!Live
      <3>3. VictimsOK /\ BlameOK  BY <3>1, <3>2 DEF VictimsOK, BlameOK, E!NoAnswer
      <3> QED  BY <2>4, <3>3, StepParts
    <2> QED  BY <2>3, <2>4
  <1>2. RequestsSpec => []KeptInv
    BY KeptInit, KeptStep, PTL DEF RequestsSpec
  <1> QED  BY <1>1, <1>2, PTL DEF RequestsSpec, SweepIsJustified

-----------------------------------------------------------------------------
(* Queries: pages read beside the writer. *)

\* What the module's assumption says of this instance's constants.
LEMMA PagesBounds ==
  /\ JournalAge \in Nat /\ JournalRows \in Nat /\ PageLimit \in Nat /\ ClockBound \in Nat
  /\ TrimBatch \in Nat \ {0} /\ MaxPage \in Nat \ {0} /\ ScanLimit \in Nat \ {0}
  /\ RowBound \in Nat \ {0} /\ ReadTables \subseteq {"events", "messages", "pending"}
  BY QueriesAssumption DEF Q!ConstantsAssumption

\* The instance's Cardinality is that of FiniteSets.
LEMMA QCardIs == \A S : Q!Cardinality(S) = Cardinality(S)
  BY DEF Q!Cardinality, Cardinality

-----------------------------------------------------------------------------
(* Rows by their ids. *)

RowSet(S) ==
    /\ IsFiniteSet(S) /\ \A r \in S : r.id \in Nat
    /\ \A r, q \in S : r.id = q.id => r = q
Older(S, r) == {q \in S : q.id < r.id}
Rank(S, r) == Cardinality(Older(S, r))
Low(S, n) == {r \in S : Rank(S, r) < n}

\* The query's LIMIT in terms of ranks.
LEMMA LowestIsLow == \A S, n : Q!LowestIds(S, n) = Low(S, n)
  BY QCardIs DEF Q!LowestIds, Q!Before, Low, Rank, Older

\* A row of a set has a rank, larger for a larger id.
LEMMA RanksGrow ==
  ASSUME NEW S, RowSet(S), NEW r \in S
  PROVE  /\ Rank(S, r) \in Nat
         /\ \A q \in S : q.id < r.id => Rank(S, q) < Rank(S, r)
  <1>1. IsFiniteSet(Older(S, r))  BY FS_Subset DEF RowSet, Older
  <1>2. Rank(S, r) \in Nat  BY <1>1, FS_CardinalityType DEF Rank
  <1>3. ASSUME NEW q \in S, q.id < r.id PROVE Rank(S, q) < Rank(S, r)
    <2>1. q \in Older(S, r) /\ q \notin Older(S, q) /\ Older(S, q) \subseteq Older(S, r)
      BY <1>3 DEF RowSet, Older
    <2>2. /\ IsFiniteSet(Older(S, q)) /\ Rank(S, q) <= Rank(S, r)
          /\ (Rank(S, q) = Rank(S, r) => Older(S, q) = Older(S, r))
      BY <1>1, <2>1, FS_Subset DEF Rank
    <2>3. Rank(S, q) \in Nat  BY <2>2, FS_CardinalityType DEF Rank
    <2> QED  BY <1>2, <2>1, <2>2, <2>3
  <1> QED  BY <1>2, <1>3

\* A set with enough rows has n lowest ones: the least n for which it had not
\* adds the lowest of the rest to n - 1 of them.
LEMMA LowHas ==
  ASSUME NEW S, RowSet(S), NEW n \in Nat, n <= Cardinality(S)
  PROVE  Cardinality(Low(S, n)) = n
  <1> DEFINE bad == {k \in Nat : k <= Cardinality(S) /\ Cardinality(Low(S, k)) # k}
  <1> SUFFICES ASSUME bad # {} PROVE FALSE  OBVIOUS
  <1>0. IsFiniteSet(S) /\ Cardinality(S) \in Nat  BY FS_CardinalityType DEF RowSet
  <1>1. PICK k \in bad : \A j \in bad : k <= j
    <2>1. bad \subseteq Nat  OBVIOUS
    <2> QED  BY <2>1, LeastExists, Zenon
  <1>2. k \in Nat /\ k <= Cardinality(S) /\ Cardinality(Low(S, k)) # k  OBVIOUS
  <1>3. k # 0
    <2>1. Low(S, 0) = {}
      <3>1. \A r \in S : ~(Rank(S, r) < 0)  BY RanksGrow
      <3> QED  BY <3>1 DEF Low
    <2>2. Cardinality({}) = 0  BY FS_EmptySet
    <2> QED  BY <1>2, <2>1, <2>2
  <1> DEFINE A == Low(S, k - 1)
  <1>4. A \subseteq S /\ IsFiniteSet(A) /\ Cardinality(A) = k - 1
    <2>1. k - 1 \in Nat /\ k - 1 <= Cardinality(S) /\ ~(k <= k - 1)  BY <1>0, <1>2, <1>3
    <2>2. k - 1 \notin bad  BY <1>1, <2>1
    <2>3. Cardinality(A) = k - 1  BY <2>1, <2>2
    <2>4. A \subseteq S  BY DEF Low
    <2> QED  BY <1>0, <2>3, <2>4, FS_Subset
  <1>5. S \ A # {}
    <2>1. A # S  BY <1>0, <1>2, <1>4
    <2> QED  BY <1>4, <2>1
  <1>6. PICK m \in S \ A : \A r \in S \ A : m.id <= r.id
    <2> DEFINE I == {r.id : r \in S \ A}
    <2>1. I \subseteq Nat /\ I # {}  BY <1>5 DEF RowSet
    <2>2. PICK i \in I : \A j \in I : i <= j  BY <2>1, LeastExists, Zenon
    <2> QED  BY <2>2
  <1>7. m \in S /\ m \notin A /\ \A r \in S : r.id \in Nat  BY <1>6 DEF RowSet
  <1>8. Older(S, m) = A
    <2>1. ASSUME NEW q \in S, q.id < m.id PROVE q \in A
      <3>1. ~(m.id <= q.id)  BY <1>7, <2>1
      <3> QED  BY <1>6, <3>1
    <2>2. ASSUME NEW x \in A PROVE x.id < m.id
      <3>1. x \in S /\ Rank(S, x) < k - 1  BY DEF Low
      <3>2. x.id # m.id  BY <1>7, <3>1 DEF RowSet
      <3>3. ASSUME m.id < x.id PROVE FALSE
        <4>1. Rank(S, m) < Rank(S, x) /\ Rank(S, m) \in Nat /\ Rank(S, x) \in Nat
          BY <1>7, <3>1, <3>3, RanksGrow
        <4>2. Rank(S, m) < k - 1  BY <1>2, <3>1, <4>1
        <4> QED  BY <1>7, <4>2 DEF Low
      <3> QED  BY <1>7, <3>1, <3>2, <3>3
    <2> QED  BY <1>4, <2>1, <2>2 DEF Older
  <1>9. Rank(S, m) = k - 1  BY <1>4, <1>8 DEF Rank
  <1>10. Low(S, k) = A \cup {m}
    <2>1. ASSUME NEW y \in Low(S, k), y \notin A PROVE y = m
      <3>1. y \in S /\ Rank(S, y) < k  BY DEF Low
      <3>2. m.id <= y.id  BY <1>6, <2>1, <3>1
      <3>3. ASSUME m.id < y.id PROVE FALSE
        <4>1. Rank(S, m) < Rank(S, y) /\ Rank(S, y) \in Nat  BY <1>7, <3>1, <3>3, RanksGrow
        <4> QED  BY <1>2, <1>9, <3>1, <4>1
      <3>4. m.id = y.id  BY <1>7, <3>1, <3>2, <3>3
      <3> QED  BY <1>7, <3>1, <3>4 DEF RowSet
    <2>2. m \in Low(S, k)
      <3>1. k - 1 < k  BY <1>2
      <3> QED  BY <1>7, <1>9, <3>1 DEF Low
    <2>3. A \subseteq Low(S, k)
      <3>1. ASSUME NEW x \in A PROVE x \in Low(S, k)
        <4>1. x \in S /\ Rank(S, x) < k - 1  BY DEF Low
        <4>2. Rank(S, x) \in Nat  BY <4>1, RanksGrow
        <4>3. Rank(S, x) < k  BY <1>2, <4>1, <4>2
        <4> QED  BY <4>1, <4>3 DEF Low
      <3> QED  BY <3>1
    <2> QED  BY <2>1, <2>2, <2>3
  <1>11. Cardinality(A \cup {m}) = k
    <2>1. Cardinality(A \cup {m}) = Cardinality(A) + 1  BY <1>4, <1>7, FS_AddElement
    <2> QED  BY <1>2, <1>4, <2>1
  <1> QED  BY <1>2, <1>10, <1>11

\* A LIMIT holds.
LEMMA LowWithin ==
  ASSUME NEW S, RowSet(S), NEW n \in Nat
  PROVE  /\ IsFiniteSet(Low(S, n)) /\ Cardinality(Low(S, n)) \in Nat
         /\ Cardinality(Low(S, n)) <= n
  <1>1. Low(S, n) \subseteq S /\ IsFiniteSet(S)  BY DEF Low, RowSet
  <1>2. IsFiniteSet(Low(S, n)) /\ Cardinality(Low(S, n)) <= Cardinality(S)
    BY <1>1, FS_Subset
  <1>3. Cardinality(Low(S, n)) \in Nat /\ Cardinality(S) \in Nat
    BY <1>1, <1>2, FS_CardinalityType
  <1>4. n <= Cardinality(S) => Cardinality(Low(S, n)) = n  BY LowHas
  <1> QED  BY <1>2, <1>3, <1>4

\* Max is the greatest of a finite set of numbers.
LEMMA MaxIsGreatest ==
  ASSUME NEW T, T \subseteq 0 .. RowBound, T # {}
  PROVE  Q!Max(T) \in T /\ \A y \in T : y <= Q!Max(T)
  <1> DEFINE U == {k \in Nat : \A y \in T : y <= k}
  <1>0. RowBound \in Nat /\ T \subseteq Nat  BY PagesBounds
  <1>1. RowBound \in U  BY <1>0
  <1>2. PICK u \in U : \A k \in U : u <= k
    <2>1. U \subseteq Nat  OBVIOUS
    <2> QED  BY <1>1, <2>1, LeastExists, Zenon
  <1>3. u \in Nat /\ \A y \in T : y <= u  OBVIOUS
  <1>4. u \in T
    <2> SUFFICES ASSUME u \notin T PROVE FALSE  OBVIOUS
    <2>1. u # 0
      <3>1. PICK y \in T : y \in Nat /\ y <= u  BY <1>0, <1>3
      <3> QED  BY <3>1
    <2>2. u - 1 \in Nat  BY <1>3, <2>1
    <2>3. ASSUME NEW y \in T PROVE y <= u - 1
      <3>1. y \in Nat /\ y <= u /\ y # u  BY <1>0, <1>3
      <3> QED  BY <1>3, <3>1
    <2>4. u - 1 \in U  BY <2>2, <2>3
    <2> QED  BY <1>2, <1>3, <2>4
  <1>5. \A y \in T : u >= y  BY <1>0, <1>3
  <1>6. Q!Max(T) \in T /\ \A y \in T : Q!Max(T) >= y
    <2>1. \E x \in T : \A y \in T : x >= y  BY <1>4, <1>5
    <2> QED  BY <2>1, Zenon DEF Q!Max
  <1> QED  BY <1>0, <1>6

-----------------------------------------------------------------------------
(* A page. *)

\* A scan reads a part of the rows from the lowest id on, finds at most a
\* page, and is neither filled nor bound only when it has read everything.
LEMMA PageFacts ==
  ASSUME NEW rows, RowSet(rows), NEW limit \in Nat \ {0},
         \A r \in rows : r.id \in 1 .. RowBound /\ r.hit \in BOOLEAN
  PROVE  LET page == Q!Page(rows, limit)
             read == Q!Read(rows, limit)
         IN  /\ read \subseteq rows /\ page.found = {r \in read : r.hit}
             /\ \A r \in read : r.id <= page.last
             /\ page.last \in 0 .. RowBound
             /\ page.last # 0 => \E m \in read : m.id = page.last
             /\ \A m \in read, r \in rows : r.id <= m.id => r \in read
             /\ ~page.filled /\ ~page.bound => read = rows
  <1> DEFINE read == Q!Read(rows, limit)
             found == {r \in read : r.hit}
             H == {r \in rows : r.hit}
  <1>0. RowBound \in Nat /\ ScanLimit \in Nat  BY PagesBounds
  <1>1. read = {r \in Low(rows, ScanLimit) : Cardinality({q \in Older(rows, r) : q.hit}) < limit}
    BY QCardIs, LowestIsLow DEF Q!Read, Q!Before, Q!Hits, Older
  <1>2. read \subseteq rows  BY <1>1 DEF Low
  <1>3. RowSet(H)  BY FS_Subset DEF RowSet
  <1>4. \A r \in rows : {q \in Older(rows, r) : q.hit} = Older(H, r)  BY DEF Older
  <1>5. read = {r \in Low(rows, ScanLimit) : Rank(H, r) < limit}
    <2>1. Low(rows, ScanLimit) \subseteq rows  BY DEF Low
    <2> QED  BY <1>1, <1>4, <2>1 DEF Rank
  <1> HIDE DEF H
  <1>6. \A r \in rows : IsFiniteSet(Older(H, r)) /\ Rank(H, r) \in Nat
    <2> TAKE r \in rows
    <2>1. Older(H, r) \subseteq H /\ IsFiniteSet(H)  BY <1>3 DEF Older, RowSet
    <2>2. IsFiniteSet(Older(H, r))  BY <2>1, FS_Subset
    <2> QED  BY <2>2, FS_CardinalityType DEF Rank
  <1>7. ASSUME NEW m \in read, NEW r \in rows, r.id <= m.id PROVE r \in read
    <2>1. m \in rows /\ Rank(rows, m) < ScanLimit /\ Rank(H, m) < limit  BY <1>5 DEF Low
    <2>2. CASE r.id = m.id
      <3>1. r = m  BY <2>1, <2>2 DEF RowSet
      <3> QED  BY <3>1
    <2>3. CASE r.id # m.id
      <3>1. r.id < m.id /\ r.id \in Nat /\ m.id \in Nat  BY <1>7, <2>1, <2>3 DEF RowSet
      <3>2. Rank(rows, r) < Rank(rows, m) /\ Rank(rows, r) \in Nat /\ Rank(rows, m) \in Nat
        BY <2>1, <3>1, RanksGrow
      <3>3. Older(H, r) \subseteq Older(H, m)
        <4>1. \A q \in H : q.id \in Nat  BY <1>3 DEF RowSet
        <4> QED  BY <3>1, <4>1 DEF Older
      <3>4. Rank(H, r) <= Rank(H, m) /\ Rank(H, r) \in Nat /\ Rank(H, m) \in Nat
        BY <1>6, <2>1, <3>3, FS_Subset DEF Rank
      <3>5. Rank(rows, r) < ScanLimit /\ Rank(H, r) < limit  BY <1>0, <2>1, <3>2, <3>4
      <3> QED  BY <1>5, <3>5 DEF Low
    <2> QED  BY <2>2, <2>3
  <1>8. Cardinality(found) <= limit /\ Cardinality(found) \in Nat
    <2>1. found \subseteq Low(H, limit)  BY <1>2, <1>5 DEF H, Low
    <2>2. IsFiniteSet(Low(H, limit)) /\ Cardinality(Low(H, limit)) <= limit
          /\ Cardinality(Low(H, limit)) \in Nat
      BY <1>3, LowWithin
    <2>3. IsFiniteSet(found) /\ Cardinality(found) <= Cardinality(Low(H, limit))
      BY <2>1, <2>2, FS_Subset
    <2>4. Cardinality(found) \in Nat  BY <2>3, FS_CardinalityType
    <2> QED  BY <2>2, <2>3, <2>4
  <1> HIDE DEF read
  <1>9. PICK T : T = Q!Ids(read) \cup {0}  OBVIOUS
  <1>9a. T = {r.id : r \in read} \cup {0}  BY <1>9 DEF Q!Ids
  <1>10. Q!Max(T) \in T /\ \A y \in T : y <= Q!Max(T)
    <2>1. T \subseteq 0 .. RowBound /\ 0 \in T  BY <1>0, <1>2, <1>9a
    <2> QED  BY <2>1, MaxIsGreatest
  <1>11. PICK last : last = Q!Max(T)  OBVIOUS
  <1>12. /\ \A r \in read : r.id <= last
         /\ last \in 0 .. RowBound
         /\ last # 0 => \E m \in read : m.id = last
    <2>1. last \in T /\ \A y \in T : y <= last  BY <1>10, <1>11
    <2>2. T \subseteq 0 .. RowBound  BY <1>0, <1>2, <1>9a
    <2> QED  BY <2>1, <2>2, <1>9a
  <1> DEFINE page == Q!Page(rows, limit)
  <1>13a. page = [found |-> found, filled |-> Q!Cardinality(found) = limit,
                  bound |-> Q!Cardinality(found) < limit /\ read # rows, last |-> Q!Max(Q!Ids(read) \cup {0})]
    BY Zenon DEF Q!Page, Q!Hits, read
  <1>13b. Q!Cardinality(found) = Cardinality(found)  BY QCardIs
  <1> HIDE DEF page, found
  <1>13. /\ page.found = found /\ page.last = last
         /\ page.filled = (Cardinality(found) = limit)
         /\ page.bound = (Cardinality(found) < limit /\ read # rows)
    <2>1. page.found = found /\ page.last = last  BY <1>9, <1>11, <1>13a
    <2>2. PICK full, cut : /\ full = (Q!Cardinality(found) = limit)
                           /\ cut = (Q!Cardinality(found) < limit /\ read # rows)
      OBVIOUS
    <2>3. page.filled = full /\ page.bound = cut  BY <1>13a, <2>2
    <2> QED  BY <2>1, <2>2, <2>3, <1>13b
  <1>14. ~page.filled /\ ~page.bound => read = rows
    <2> SUFFICES ASSUME ~page.filled, ~page.bound PROVE read = rows  OBVIOUS
    <2>1. Cardinality(found) # limit  BY <1>13, Zenon
    <2>2. ~(Cardinality(found) < limit /\ read # rows)  BY <1>13, Zenon
    <2>3. limit \in Nat  OBVIOUS
    <2>4. Cardinality(found) < limit  BY <1>8, <2>1, <2>3
    <2> QED  BY <2>2, <2>4
  <1> USE DEF found
  <1> HIDE DEF page
  <1>15. /\ read \subseteq rows /\ page.found = {r \in read : r.hit}
         /\ \A r \in read : r.id <= page.last
         /\ page.last \in 0 .. RowBound
         /\ page.last # 0 => \E m \in read : m.id = page.last
         /\ \A m \in read, r \in rows : r.id <= m.id => r \in read
         /\ ~page.filled /\ ~page.bound => read = rows
    BY <1>2, <1>7, <1>12, <1>13, <1>14
  <1> QED  BY <1>15 DEF page, read

-----------------------------------------------------------------------------
(* The tables and the walks through them. *)

\* Rows have ids of their own, up to the number of rows written; those of
\* messages and deliveries are numbered as they are written, those of the
\* journal while the newest row is there; no row of the journal is later than a
\* newer one or than the clock.
Top(t) == IF t \in ReadTables THEN x5[t] ELSE 0
RowsOK(rows, top) ==
    /\ IsFiniteSet(rows)
    /\ \A r \in rows : r.id <= top
    /\ \A r, q \in rows : r.id = q.id => r = q
AsWritten(rows) == \A r \in rows : r.id = r.no
TimesOK == \A r \in x2 : r.ts <= x1 /\ \A q \in x2 : q.id <= r.id => q.ts <= r.ts
JournalOK == (Q!Numbered => AsWritten(x2)) /\ TimesOK

\* What is behind the cursor of w, in a table of these rows, was shown, and
\* nothing else.
Shown(w, rows) ==
    /\ \A n \in w.got : n <= w.cursor
    /\ \A r \in rows : r.hit /\ r.id <= w.cursor => r.no \in w.got
WalkOK(c) ==
    /\ x6[c].cursor <= Top(x6[c].table)
    /\ Q!ById(x6[c].table) => Shown(x6[c], Q!RowsOf(x6[c].table))

PageInv ==
    /\ Q!TypeOK
    /\ RowsOK(x2, Top("events")) /\ RowsOK(x3, Top("messages")) /\ RowsOK(x4, Top("pending"))
    /\ AsWritten(x3) /\ JournalOK
    /\ \A c \in Readers : WalkOK(c)

\* Steps of the writer leave the walks as they are: a row they add is numbered
\* behind every cursor.
LEMMA WalksKept ==
  ASSUME PageInv, x6' = x6, NEW t \in ReadTables, NEW old, NEW new,
         \A u \in ReadTables : u # t => /\ Q!RowsOf(u)' = Q!RowsOf(u) /\ x5'[u] = x5[u]
                                        /\ Q!ById(u)' => Q!ById(u),
         Q!RowsOf(t) = old, Q!RowsOf(t)' = new,
         x5[t] <= x5'[t], x5'[t] \in Nat,
         Q!ById(t)' => Q!ById(t) /\ \A r \in new : r \in old \/ (r.id \in Nat /\ r.id > x5[t])
  PROVE  \A c \in Readers : WalkOK(c)'
  <1> TAKE c \in Readers
  <1>0. PICK w : w = x6[c]  OBVIOUS
  <1>1. /\ w.table \in ReadTables /\ w.cursor \in Nat /\ x5[w.table] \in Nat
        /\ w.cursor <= x5[w.table] /\ (Q!ById(w.table) => Shown(w, Q!RowsOf(w.table)))
    <2>1. w \in Q!Walks /\ x5 \in [ReadTables -> 0 .. RowBound]  BY <1>0 DEF PageInv, Q!TypeOK
    <2>2. w.table \in ReadTables /\ w.cursor \in Nat  BY <2>1 DEF Q!Walks
    <2>3. x5[w.table] \in Nat  BY <2>1, <2>2
    <2>4. WalkOK(c)  BY DEF PageInv
    <2>5. w.cursor <= Top(w.table) /\ (Q!ById(w.table) => Shown(w, Q!RowsOf(w.table)))
      BY <1>0, <2>4 DEF WalkOK
    <2> QED  BY <2>2, <2>3, <2>5 DEF Top
  <1>a. x6'[c] = w  BY <1>0
  <1>2. CASE w.table # t
    <2>1. /\ Q!RowsOf(w.table)' = Q!RowsOf(w.table) /\ x5'[w.table] = x5[w.table]
          /\ Q!ById(w.table)' => Q!ById(w.table)
      BY <1>1, <1>2
    <2>2. w.cursor <= Top(w.table)'  BY <1>1, <2>1 DEF Top
    <2> QED  BY <1>1, <1>a, <2>1, <2>2 DEF WalkOK
  <1>3. CASE w.table = t
    <2>1. Q!ById(t)' => Shown(w, new)
      <3> SUFFICES ASSUME Q!ById(t)' PROVE Shown(w, new)  OBVIOUS
      <3>1. Shown(w, old)  BY <1>1, <1>3
      <3>2. \A r \in new : r.id <= w.cursor => r \in old
        <4> SUFFICES ASSUME NEW r \in new, r.id <= w.cursor, r \notin old PROVE FALSE  OBVIOUS
        <4>1. r.id \in Nat /\ r.id > x5[t]  OBVIOUS
        <4> QED  BY <1>1, <1>3, <4>1
      <3> QED  BY <3>1, <3>2 DEF Shown
    <2>2. w.cursor <= x5'[t]  BY <1>1, <1>3
    <2>3. w.cursor <= Top(t)'  BY <2>2 DEF Top
    <2> QED  BY <1>3, <1>a, <2>1, <2>3 DEF WalkOK
  <1> QED  BY <1>2, <1>3

\* A row more, with the id behind the largest, or some rows less.
LEMMA RowAdded ==
  ASSUME NEW rows, NEW n \in Nat, RowsOK(rows, n), \A r \in rows : r.id \in Nat,
         NEW g \in Nat, g <= n, \A r \in rows : r.id <= g, NEW e, e.id = g + 1
  PROVE  RowsOK(rows \cup {e}, n + 1)
  <1>1. IsFiniteSet(rows \cup {e})  BY FS_AddElement DEF RowsOK
  <1>2. \A r \in rows \cup {e} : r.id <= n + 1  BY DEF RowsOK
  <1>3. \A r, q \in rows \cup {e} : r.id = q.id => r = q  BY DEF RowsOK
  <1> QED  BY <1>1, <1>2, <1>3 DEF RowsOK

LEMMA RowsFewer ==
  ASSUME NEW rows, NEW n, RowsOK(rows, n), NEW less, less \subseteq rows
  PROVE  RowsOK(less, n)
  BY FS_Subset DEF RowsOK

\* What PageInv says of the variables' types.
LEMMA PageTypes ==
  ASSUME PageInv
  PROVE  /\ x1 \in 0 .. ClockBound
         /\ \A r \in x2 : /\ r.id \in 1 .. RowBound /\ r.no \in 1 .. RowBound
                          /\ r.hit \in BOOLEAN /\ r.ts \in 0 .. ClockBound
         /\ \A r \in x3 : r.id \in 1 .. RowBound /\ r.no \in 1 .. RowBound /\ r.hit \in BOOLEAN
         /\ \A r \in x4 : r.id \in 1 .. RowBound /\ r.no \in 1 .. RowBound
         /\ \A t \in ReadTables : x5[t] \in 0 .. RowBound
         /\ \A t : Top(t) \in 0 .. RowBound
         /\ \A c \in Readers : x6[c] \in Q!Walks
  <1>1. x1 \in 0 .. ClockBound /\ \A c \in Readers : x6[c] \in Q!Walks  BY DEF PageInv, Q!TypeOK
  <1>2. \A r \in x2 : /\ r.id \in 1 .. RowBound /\ r.no \in 1 .. RowBound
                          /\ r.hit \in BOOLEAN /\ r.ts \in 0 .. ClockBound
    BY DEF PageInv, Q!TypeOK
  <1>3. \A r \in x3 : r.id \in 1 .. RowBound /\ r.no \in 1 .. RowBound /\ r.hit \in BOOLEAN
    BY DEF PageInv, Q!TypeOK
  <1>4. \A r \in x4 : r.id \in 1 .. RowBound /\ r.no \in 1 .. RowBound
    BY DEF PageInv, Q!TypeOK
  <1>5. \A t \in ReadTables : x5[t] \in 0 .. RowBound  BY DEF PageInv, Q!TypeOK
  <1>6. ASSUME NEW t PROVE Top(t) \in 0 .. RowBound
    <2>1. 0 \in 0 .. RowBound  BY PagesBounds
    <2> QED  BY <1>5, <2>1 DEF Top
  <1> QED  BY <1>1, <1>2, <1>3, <1>4, <1>5, <1>6

\* The count of one table goes up by one.
LEMMA CountUp ==
  ASSUME PageInv, NEW t \in ReadTables, x5[t] < RowBound, x5' = [x5 EXCEPT ![t] = @ + 1]
  PROVE  /\ x5' \in [ReadTables -> 0 .. RowBound] /\ x5'[t] = x5[t] + 1
         /\ \A u : u # t => Top(u)' = Top(u)
         /\ Top(t) = x5[t] /\ Top(t)' = x5[t] + 1
  <1>1. x5 \in [ReadTables -> 0 .. RowBound]  BY DEF PageInv, Q!TypeOK
  <1>2. x5[t] + 1 \in 0 .. RowBound  BY <1>1, PagesBounds
  <1> QED  BY <1>1, <1>2 DEF Top

\* insertEvent: the id taken from the table is the row's number while the newest
\* row is there, and less than it ever after.
LEMMA InsertKept ==
  ASSUME PageInv, NEW hit \in BOOLEAN, Q!InsertEvent(hit)
  PROVE  PageInv' /\ x2 \subseteq x2' /\ x6' = x6 /\ (Q!Numbered => Q!Numbered')
  <1>0. PICK t : t = "events"  OBVIOUS
  <1>1. t \in ReadTables /\ x5[t] < RowBound /\ x5' = [x5 EXCEPT ![t] = @ + 1]
    <2>1. PICK c \in Readers : x6[c].table = "events"
      BY DEF Q!InsertEvent, Q!Walked
    <2>2. x6[c] \in Q!Walks  BY PageTypes
    <2>3. x6[c].table \in ReadTables  BY <2>2 DEF Q!Walks
    <2> QED  BY <1>0, <2>1, <2>3 DEF Q!InsertEvent
  <1>2. PICK n : n = x5[t]  OBVIOUS
  <1>3. n \in Nat /\ n < RowBound /\ n = Top(t) /\ RowBound \in Nat
    <2>1. n \in 0 .. RowBound  BY <1>1, <1>2, PageTypes
    <2>2. n = Top(t)  BY <1>1, <1>2 DEF Top
    <2> QED  BY <1>1, <1>2, <2>1, <2>2, PagesBounds
  <1>4. RowsOK(x2, n) /\ (Q!Numbered <=> (n # 0 => \E r \in x2 : r.id = n))
    BY <1>0, <1>1, <1>2, <1>3 DEF PageInv, Q!Numbered
  <1>a. \A r \in x2 : r.id \in 1 .. RowBound /\ r.id <= n  BY <1>4, PageTypes DEF RowsOK
  <1>5. PICK g : g = Q!Max(Q!Ids(x2) \cup {0})  OBVIOUS
  <1>5a. /\ g \in Nat /\ g <= n /\ \A r \in x2 : r.id <= g
         /\ g # 0 => \E r \in x2 : r.id = g
    <2>1. PICK T : T = Q!Ids(x2) \cup {0}  OBVIOUS
    <2>2. T = {r.id : r \in x2} \cup {0}  BY <2>1 DEF Q!Ids
    <2>4. T \subseteq 0 .. RowBound /\ 0 \in T  BY <1>3, <1>a, <2>2
    <2>5. g \in T /\ \A y \in T : y <= g  BY <1>5, <2>1, <2>4, MaxIsGreatest
    <2>6. \A y \in T : y <= n  BY <1>3, <1>a, <2>2
    <2>7. g \in Nat /\ g <= n  BY <1>3, <2>4, <2>5, <2>6
    <2>8. (\A r \in x2 : r.id <= g) /\ (g # 0 => \E r \in x2 : r.id = g)  BY <2>2, <2>5
    <2> QED  BY <2>7, <2>8
  <1>5b. Q!Numbered <=> g = n
    <2>1. CASE n = 0  BY <1>4, <1>5a, <2>1
    <2>2. CASE n # 0
      <3>1. ASSUME NEW r \in x2, r.id = n PROVE g = n
        <4>1. r.id <= g  BY <1>5a
        <4> QED  BY <1>3, <1>5a, <3>1, <4>1
      <3> QED  BY <1>4, <1>5a, <2>2, <3>1
    <2> QED  BY <2>1, <2>2
  <1>6. PICK e : e = [id |-> g + 1, no |-> n + 1, ts |-> x1, hit |-> hit]  OBVIOUS
  <1>7. /\ x2' = x2 \cup {e} /\ x5'[t] = n + 1
        /\ x1' = x1 /\ x3' = x3 /\ x4' = x4 /\ x6' = x6
    <2>1. x5'[t] = n + 1  BY <1>1, <1>2, CountUp
    <2>2. x2' = x2 \cup {[id |-> Q!Max(Q!Ids(x2) \cup {0}) + 1, no |-> x5'[t], ts |-> x1, hit |-> hit]}
      BY <1>0 DEF Q!InsertEvent
    <2> QED  BY <1>5, <1>6, <2>1, <2>2 DEF Q!InsertEvent
  <1>8. /\ e.id = g + 1 /\ e.no = n + 1 /\ e.id \in Nat
        /\ e \in [id : 1 .. RowBound, no : 1 .. RowBound, ts : 0 .. ClockBound, hit : BOOLEAN]
    <2>1. g + 1 \in 1 .. RowBound /\ n + 1 \in 1 .. RowBound /\ x1 \in 0 .. ClockBound
      BY <1>3, <1>5a, PageTypes
    <2> QED  BY <1>5a, <1>6, <2>1
  <1>8a. Q!Numbered' <=> Q!Numbered
    <2>1. Q!Numbered' <=> \E r \in x2' : r.id = n + 1
      <3>1. n + 1 # 0  BY <1>3
      <3> QED  BY <1>0, <1>1, <1>7, <3>1 DEF Q!Numbered
    <2>2. \A r \in x2 : r.id # n + 1  BY <1>3, <1>a
    <2>3. Q!Numbered' <=> g + 1 = n + 1  BY <1>7, <1>8, <2>1, <2>2
    <2> QED  BY <1>3, <1>5a, <1>5b, <2>3
  <1>9. Q!TypeOK'
    <2>1. x5' \in [ReadTables -> 0 .. RowBound]  BY <1>1, CountUp
    <2> QED  BY <1>7, <1>8, <2>1 DEF PageInv, Q!TypeOK
  <1>10. RowsOK(x2, Top("events"))' /\ RowsOK(x3, Top("messages"))' /\ RowsOK(x4, Top("pending"))'
    <2>1. Top(t)' = n + 1 /\ \A u : u # t => Top(u)' = Top(u)  BY <1>1, <1>2, CountUp
    <2>2. \A r \in x2 : r.id \in Nat  BY PageTypes
    <2>3. RowsOK(x2 \cup {e}, n + 1)  BY <1>3, <1>4, <1>5a, <1>8, <2>2, RowAdded
    <2>4. Top("messages")' = Top("messages") /\ Top("pending")' = Top("pending")
      BY <1>0, <2>1
    <2> QED  BY <1>0, <1>7, <2>1, <2>3, <2>4 DEF PageInv
  <1>11. JournalOK' /\ AsWritten(x3)'
    <2>2. Q!Numbered' => AsWritten(x2)'
      <3> SUFFICES ASSUME Q!Numbered PROVE AsWritten(x2)'  BY <1>8a
      <3>1. AsWritten(x2)  BY DEF PageInv, JournalOK
      <3>2. e.id = e.no  BY <1>5b, <1>8
      <3> QED  BY <1>7, <3>1, <3>2 DEF AsWritten
    <2>3. \A r \in x2 : /\ r.id \in Nat /\ r.id <= g /\ r.ts \in Nat /\ r.ts <= x1
                        /\ \A q \in x2 : q.id <= r.id => q.ts <= r.ts
      BY <1>5a, PageTypes DEF PageInv, JournalOK, TimesOK
    <2>4. e.ts = x1 /\ x1 \in Nat /\ e.id = g + 1  BY <1>6, PageTypes
    <2>5. \A r \in x2' : r.ts <= x1  BY <1>7, <2>3, <2>4
    <2>6. \A r, q \in x2' : q.id <= r.id => q.ts <= r.ts  BY <1>5a, <1>7, <2>3, <2>4
    <2>7. TimesOK'  BY <1>7, <2>5, <2>6 DEF TimesOK
    <2>8. AsWritten(x3)'  BY <1>7 DEF PageInv
    <2> QED  BY <2>2, <2>7, <2>8 DEF JournalOK
  <1>12. \A c \in Readers : WalkOK(c)'
    <2>1. Q!RowsOf(t) = x2 /\ Q!RowsOf(t)' = x2'  BY <1>0 DEF Q!RowsOf
    <2>2. \A u \in ReadTables : u # t => /\ Q!RowsOf(u)' = Q!RowsOf(u) /\ x5'[u] = x5[u]
                                         /\ Q!ById(u)' => Q!ById(u)
      <3> TAKE u \in ReadTables
      <3> HAVE u # t
      <3>1. u = "messages" \/ u = "pending"  BY <1>0, PagesBounds
      <3>2. x5'[u] = x5[u]  BY <1>1 DEF PageInv, Q!TypeOK
      <3>3. Q!ById(u)' => Q!ById(u)  BY <3>1 DEF Q!ById
      <3> QED  BY <1>7, <3>1, <3>2, <3>3 DEF Q!RowsOf
    <2>3. Q!ById(t)' => Q!ById(t) /\ \A r \in x2' : r \in x2 \/ (r.id \in Nat /\ r.id > x5[t])
      <3> SUFFICES ASSUME Q!ById(t)'
                   PROVE  Q!ById(t) /\ \A r \in x2' : r \in x2 \/ (r.id \in Nat /\ r.id > x5[t])
        OBVIOUS
      <3>1. Q!Numbered  BY <1>0, <1>8a DEF Q!ById
      <3>2. Q!ById(t)  BY <1>0, <3>1 DEF Q!ById
      <3>3. e.id > x5[t]  BY <1>2, <1>3, <1>5b, <1>8, <3>1
      <3> QED  BY <1>7, <1>8, <3>2, <3>3
    <2>4. x5[t] <= x5'[t] /\ x5'[t] \in Nat  BY <1>2, <1>3, <1>7
    <2> QED  BY <1>1, <1>7, <2>1, <2>2, <2>3, <2>4, WalksKept
  <1> QED  BY <1>7, <1>8a, <1>9, <1>10, <1>11, <1>12 DEF PageInv

\* The journal is a set of rows told apart by their ids.
LEMMA JournalRowSet ==
  ASSUME PageInv
  PROVE  RowSet(x2) /\ RowSet(x3)
  <1>1. \A r \in x2 : r.id \in Nat  BY PageTypes
  <1>2. \A r \in x3 : r.id \in Nat  BY PageTypes
  <1> QED  BY <1>1, <1>2 DEF PageInv, RowsOK, RowSet

\* A prefix of n rows is everything when there are at most n.
LEMMA LowIsAll ==
  ASSUME NEW S, RowSet(S), NEW n \in Nat, Cardinality(S) <= n
  PROVE  Low(S, n) = S
  <1> SUFFICES ASSUME NEW r \in S PROVE Rank(S, r) < n  BY DEF Low
  <1>1. IsFiniteSet(S) /\ Cardinality(S) \in Nat  BY FS_CardinalityType DEF RowSet
  <1>2. Older(S, r) \subseteq S /\ r \in S /\ r \notin Older(S, r)  BY DEF Older, RowSet
  <1>3. Cardinality(Older(S, r)) <= Cardinality(S) /\ IsFiniteSet(Older(S, r))
        /\ (Cardinality(Older(S, r)) = Cardinality(S) => Older(S, r) = S)
    BY <1>1, <1>2, FS_Subset
  <1>4. Cardinality(Older(S, r)) \in Nat  BY <1>3, FS_CardinalityType
  <1> QED  BY <1>1, <1>2, <1>3, <1>4 DEF Rank

\* Where the last row of a set is in a prefix, the prefix is everything.
LEMMA LowWithLast ==
  ASSUME NEW S, RowSet(S), NEW n \in Int, NEW m \in Low(S, n), \A r \in S : r.id <= m.id
  PROVE  Low(S, n) = S
  <1> SUFFICES ASSUME NEW r \in S PROVE Rank(S, r) < n  BY DEF Low
  <1>1. m \in S /\ Rank(S, m) < n  BY DEF Low
  <1>2. Rank(S, m) \in Nat /\ Rank(S, r) \in Nat  BY <1>1, RanksGrow
  <1>3. CASE r.id < m.id
    <2>1. Rank(S, r) < Rank(S, m)  BY <1>1, <1>3, RanksGrow
    <2> QED  BY <1>1, <1>2, <2>1
  <1>4. CASE ~(r.id < m.id)
    <2>1. r.id = m.id  BY <1>1, <1>4 DEF RowSet
    <2> QED  BY <1>1, <2>1 DEF RowSet
  <1> QED  BY <1>3, <1>4

\* The two passes of a trim: the aged rows from the lowest id on, then the
\* rows over the ceiling, as many as are left of the batch.
LEMMA TrimIs ==
  ASSUME PageInv, Q!TrimEvents
  PROVE  \E old, rest, n :
            /\ old = Low(Q!Aged(x2), TrimBatch) /\ rest = x2 \ old
            /\ RowSet(Q!Aged(x2)) /\ RowSet(rest) /\ n \in Int
            /\ old \subseteq Q!Aged(x2) /\ Q!Aged(x2) \subseteq x2
            /\ Cardinality(old) \in Nat /\ Cardinality(rest) \in Nat
            /\ n <= TrimBatch - Cardinality(old)
            /\ JournalRows > 0 => n <= Cardinality(rest) - JournalRows
            /\ JournalRows = 0 => n <= 0
            /\ \/ n = TrimBatch - Cardinality(old) \/ JournalRows = 0
               \/ n = Cardinality(rest) - JournalRows
            /\ x2' = rest \ Low(rest, n)
            /\ x1' = x1 /\ x3' = x3 /\ x4' = x4 /\ x5' = x5 /\ x6' = x6
  <1>0. /\ RowSet(x2) /\ IsFiniteSet(x2) /\ JournalRows \in Nat /\ TrimBatch \in Nat
    BY JournalRowSet, PagesBounds DEF RowSet
  <1>1. PICK aged : aged = Q!Aged(x2)  OBVIOUS
  <1>2. aged \subseteq x2  BY <1>1 DEF Q!Aged
  <1>3. PICK old : old = Low(aged, TrimBatch)  OBVIOUS
  <1>4. old \subseteq aged  BY <1>3 DEF Low
  <1>5. PICK rest : rest = x2 \ old  OBVIOUS
  <1>6. RowSet(aged) /\ RowSet(rest) /\ IsFiniteSet(old)
    <2>1. rest \subseteq x2 /\ old \subseteq x2  BY <1>2, <1>4, <1>5
    <2> QED  BY <1>0, <1>2, <2>1, FS_Subset DEF RowSet
  <1>7. Cardinality(old) \in Nat /\ Cardinality(rest) \in Nat
    BY <1>6, FS_CardinalityType DEF RowSet
  <1>8. PICK excess : excess = IF JournalRows > 0 THEN Cardinality(rest) - JournalRows ELSE 0
    OBVIOUS
  <1>9. PICK budget : budget = TrimBatch - Cardinality(old)  OBVIOUS
  <1>10. PICK n : n = IF excess < budget THEN excess ELSE budget  OBVIOUS
  <1>11. Q!Trimmed = rest \ Low(rest, n)
    <2>1. Q!LowestIds(aged, TrimBatch) = old  BY <1>3, LowestIsLow
    <2>2. Q!Cardinality(old) = Cardinality(old) /\ Q!Cardinality(rest) = Cardinality(rest)
      BY QCardIs
    <2>3. Q!Trimmed = rest \ Q!LowestIds(rest, n)
      BY <1>1, <1>5, <1>8, <1>9, <1>10, <2>1, <2>2 DEF Q!Trimmed
    <2> QED  BY <2>3, LowestIsLow
  <1>12. x2' = Q!Trimmed /\ x1' = x1 /\ x3' = x3 /\ x4' = x4 /\ x5' = x5 /\ x6' = x6
    BY DEF Q!TrimEvents
  <1>13. /\ n \in Int /\ n <= TrimBatch - Cardinality(old)
         /\ JournalRows > 0 => n <= Cardinality(rest) - JournalRows
         /\ JournalRows = 0 => n <= 0
         /\ \/ n = TrimBatch - Cardinality(old) \/ JournalRows = 0
            \/ n = Cardinality(rest) - JournalRows
    BY <1>0, <1>7, <1>8, <1>9, <1>10
  <1> QED  BY <1>1, <1>2, <1>3, <1>4, <1>5, <1>6, <1>7, <1>11, <1>12, <1>13

\* A prefix of at most no rows is empty.
LEMMA LowIsNone ==
  ASSUME NEW S, RowSet(S), NEW n \in Int, n <= 0
  PROVE  Low(S, n) = {}
  <1>1. \A r \in S : Rank(S, r) \in Nat  BY RanksGrow
  <1>2. \A r \in S : ~(Rank(S, r) < n)  BY <1>1
  <1> QED  BY <1>2 DEF Low

\* A trim that leaves a row leaves the newest one: the aged rows are the lowest
\* because no row is later than a newer one.
LEMMA NewestStays ==
  ASSUME PageInv, Q!TrimEvents, x2' # {}, NEW m \in x2, \A r \in x2 : r.id <= m.id
  PROVE  m \in x2'
  <1>1. PICK old, rest, n :
            /\ old = Low(Q!Aged(x2), TrimBatch) /\ rest = x2 \ old
            /\ RowSet(Q!Aged(x2)) /\ RowSet(rest) /\ n \in Int
            /\ old \subseteq Q!Aged(x2) /\ Q!Aged(x2) \subseteq x2
            /\ x2' = rest \ Low(rest, n)
    BY TrimIs
  <1>2. m \notin old
    <2> SUFFICES ASSUME m \in old PROVE FALSE  OBVIOUS
    <2>1. PICK aged : aged = Q!Aged(x2)  OBVIOUS
    <2>2. m \in aged /\ \A r \in aged : r.id <= m.id  BY <1>1, <2>1
    <2>3. Low(aged, TrimBatch) = aged
      BY <1>1, <2>1, <2>2, LowWithLast, PagesBounds
    <2>4. x2 \subseteq aged
      <3>1. \A r \in x2 : r.ts <= m.ts /\ r.ts \in Nat  BY PageTypes DEF PageInv, JournalOK, TimesOK
      <3>2. JournalAge > 0 /\ m.ts < x1 - JournalAge  BY <2>1, <2>2 DEF Q!Aged
      <3>3. x1 \in Nat /\ JournalAge \in Nat  BY PageTypes, PagesBounds
      <3>4. \A r \in x2 : r.ts < x1 - JournalAge  BY <3>1, <3>2, <3>3
      <3> QED  BY <2>1, <3>2, <3>4 DEF Q!Aged
    <2>5. rest = {}  BY <1>1, <2>1, <2>3, <2>4
    <2> QED  BY <1>1, <2>5
  <1>3. m \in rest /\ \A r \in rest : r.id <= m.id  BY <1>1, <1>2
  <1>4. m \notin Low(rest, n)
    <2> SUFFICES ASSUME m \in Low(rest, n) PROVE FALSE  OBVIOUS
    <2>1. Low(rest, n) = rest  BY <1>1, <1>3, LowWithLast
    <2> QED  BY <1>1, <2>1
  <1> QED  BY <1>1, <1>3, <1>4

\* A trim stops with rows owed only when its batch is spent.
LEMMA TrimIsSpent ==
  ASSUME PageInv, Q!TrimEvents, Q!TrimStillOwed(x2')
  PROVE  Cardinality(x2 \ x2') = TrimBatch
  <1>0. JournalRows \in Nat /\ TrimBatch \in Nat  BY PagesBounds
  <1>1. PICK old, rest, n :
            /\ old = Low(Q!Aged(x2), TrimBatch) /\ rest = x2 \ old
            /\ RowSet(Q!Aged(x2)) /\ RowSet(rest) /\ n \in Int
            /\ old \subseteq Q!Aged(x2) /\ Q!Aged(x2) \subseteq x2
            /\ Cardinality(old) \in Nat /\ Cardinality(rest) \in Nat
            /\ n <= TrimBatch - Cardinality(old)
            /\ JournalRows > 0 => n <= Cardinality(rest) - JournalRows
            /\ JournalRows = 0 => n <= 0
            /\ \/ n = TrimBatch - Cardinality(old) \/ JournalRows = 0
               \/ n = Cardinality(rest) - JournalRows
            /\ x2' = rest \ Low(rest, n)
    BY TrimIs
  <1>2. PICK aged, low, gone : aged = Q!Aged(x2) /\ low = Low(rest, n) /\ gone = x2 \ x2'
    OBVIOUS
  <1>3. low \subseteq rest /\ old \cap low = {} /\ gone = old \cup low
    <2>1. low \subseteq rest  BY <1>2 DEF Low
    <2> QED  BY <1>1, <1>2, <2>1
  <1>4. IsFiniteSet(rest) /\ IsFiniteSet(low) /\ IsFiniteSet(old) /\ IsFiniteSet(aged)
        /\ Cardinality(aged) \in Nat /\ Cardinality(low) \in Nat
    <2>1. IsFiniteSet(rest) /\ IsFiniteSet(aged)  BY <1>1, <1>2 DEF RowSet
    <2>2. IsFiniteSet(low) /\ IsFiniteSet(old)  BY <1>1, <1>2, <1>3, <2>1, FS_Subset
    <2> QED  BY <2>1, <2>2, FS_CardinalityType
  <1>5. Cardinality(gone) = Cardinality(old) + Cardinality(low)
    <2>1. Cardinality(old \cap low) = 0  BY <1>3, FS_EmptySet
    <2>2. Cardinality(old \cup low) = Cardinality(old) + Cardinality(low) - Cardinality(old \cap low)
      BY <1>4, FS_Union
    <2> QED  BY <1>1, <1>3, <1>4, <2>1, <2>2
  <1> SUFFICES Cardinality(gone) = TrimBatch  BY <1>2
  <1>6. CASE TrimBatch <= Cardinality(aged)
    <2>1. Cardinality(old) = TrimBatch  BY <1>0, <1>1, <1>2, <1>6, LowHas
    <2>2. n <= 0  BY <1>0, <1>1, <2>1
    <2>3. low = {}  BY <1>1, <1>2, <2>2, LowIsNone
    <2>4. Cardinality(low) = 0  BY <2>3, FS_EmptySet
    <2> QED  BY <1>0, <1>5, <2>1, <2>4
  <1>7. CASE ~(TrimBatch <= Cardinality(aged))
    <2>1. Cardinality(aged) <= TrimBatch  BY <1>0, <1>4, <1>7
    <2>2. old = aged  BY <1>0, <1>1, <1>2, <2>1, LowIsAll
    <2>3. ~(JournalAge > 0 /\ Q!Aged(x2') # {})
      <3> SUFFICES ASSUME JournalAge > 0, NEW r \in Q!Aged(x2') PROVE FALSE  OBVIOUS
      <3>1. r \in x2' /\ r.ts < x1 - JournalAge  BY DEF Q!Aged
      <3>2. r \in x2 /\ r \notin old  BY <1>1, <3>1
      <3>3. r \in aged  BY <1>2, <3>1, <3>2 DEF Q!Aged
      <3> QED  BY <2>2, <3>2, <3>3
    <2>4. JournalRows > 0 /\ Cardinality(x2') > JournalRows
      <3>1. Q!Cardinality(x2') = Cardinality(x2')  BY QCardIs
      <3> QED  BY <2>3, <3>1 DEF Q!TrimStillOwed
    <2>5. TrimBatch - Cardinality(old) >= 0  BY <1>0, <1>1, <1>4, <2>1, <2>2
    <2>6. Cardinality(x2') = Cardinality(rest) - Cardinality(low)
      <3>1. rest \cap low = low  BY <1>3
      <3>2. Cardinality(rest \ low) = Cardinality(rest) - Cardinality(rest \cap low)
        BY <1>4, FS_Difference
      <3> QED  BY <1>1, <1>2, <3>1, <3>2
    <2>7. n >= 0
      <3> SUFFICES ASSUME n < 0 PROVE FALSE  BY <1>1
      <3>1. n = Cardinality(rest) - JournalRows  BY <1>0, <1>1, <2>4, <2>5
      <3> QED  BY <1>0, <1>1, <1>4, <2>4, <2>6, <3>1
    <2>8. Cardinality(low) = n
      <3>1. n \in Nat /\ n <= Cardinality(rest)  BY <1>0, <1>1, <2>4, <2>7
      <3> QED  BY <1>1, <1>2, <3>1, LowHas
    <2>9. n = TrimBatch - Cardinality(old)  BY <1>0, <1>1, <2>4, <2>6, <2>8
    <2> QED  BY <1>0, <1>1, <1>5, <2>8, <2>9
  <1> QED  BY <1>6, <1>7

\* The trim as a step.
LEMMA TrimKept ==
  ASSUME PageInv, Q!TrimEvents
  PROVE  PageInv' /\ Q!TrimStep /\ x6' = x6
  <1>1. x2' \subseteq x2 /\ x1' = x1 /\ x3' = x3 /\ x4' = x4 /\ x5' = x5 /\ x6' = x6
    BY TrimIs
  <1>2. Q!Numbered' => Q!Numbered  BY <1>1 DEF Q!Numbered
  <1>3. Q!Numbered /\ ~Q!Numbered' => x2' = {}
    <2> SUFFICES ASSUME Q!Numbered, ~Q!Numbered', x2' # {} PROVE FALSE  OBVIOUS
    <2>1. PICK k : k = x5["events"]  OBVIOUS
    <2>2. "events" \in ReadTables /\ k # 0 /\ \A r \in x2' : r.id # k
      BY <1>1, <2>1 DEF Q!Numbered
    <2>3. PICK m \in x2 : m.id = k  BY <2>1, <2>2 DEF Q!Numbered
    <2>4. \A r \in x2 : r.id <= m.id  BY <2>1, <2>2, <2>3 DEF PageInv, RowsOK, Top
    <2>5. m \in x2'  BY <2>4, NewestStays
    <2> QED  BY <2>2, <2>3, <2>5
  <1>3a. Q!TrimStep
    <2>1. \A S : Q!Cardinality(S) = Cardinality(S)  BY QCardIs
    <2>2. Q!TrimStillOwed(x2') => Cardinality(x2 \ x2') = TrimBatch  BY TrimIsSpent
    <2> QED  BY <1>3, <2>1, <2>2 DEF Q!TrimStep
  <1>4. Q!TypeOK'  BY <1>1 DEF PageInv, Q!TypeOK
  <1>5. \A t : Top(t)' = Top(t)  BY <1>1 DEF Top
  <1>6. RowsOK(x2, Top("events"))' /\ RowsOK(x3, Top("messages"))' /\ RowsOK(x4, Top("pending"))'
    <2>1. PICK n2 : n2 = Top("events")  OBVIOUS
    <2>2. RowsOK(x2, n2)  BY <2>1 DEF PageInv
    <2>3. RowsOK(x2', n2)  BY <1>1, <2>2, RowsFewer
    <2> QED  BY <1>1, <1>5, <2>1, <2>3 DEF PageInv
  <1>7. JournalOK' /\ AsWritten(x3)'
    <2>1. Q!Numbered' => AsWritten(x2)'  BY <1>1, <1>2 DEF PageInv, JournalOK, AsWritten
    <2>2. TimesOK'  BY <1>1 DEF PageInv, JournalOK, TimesOK
    <2>3. AsWritten(x3)'  BY <1>1 DEF PageInv
    <2> QED  BY <2>1, <2>2, <2>3 DEF JournalOK
  <1>8. ASSUME NEW c \in Readers PROVE WalkOK(c)'
    <2>1. WalkOK(c)  BY DEF PageInv
    <2>2. x6[c] \in Q!Walks  BY PageTypes
    <2>3. PICK w : w = x6[c]  OBVIOUS
    <2>4. w.table \in {"events", "messages", "pending"}  BY <2>2, <2>3, PagesBounds DEF Q!Walks
    <2>5. Q!RowsOf(w.table)' \subseteq Q!RowsOf(w.table)  BY <1>1, <2>4 DEF Q!RowsOf
    <2>6. Q!ById(w.table)' => Q!ById(w.table)  BY <1>2 DEF Q!ById
    <2>7. Q!ById(w.table)' => Shown(w, Q!RowsOf(w.table)')
      BY <2>1, <2>3, <2>5, <2>6 DEF WalkOK, Shown
    <2>8. x6'[c] = w /\ w.cursor <= Top(w.table)'  BY <1>1, <1>5, <2>1, <2>3 DEF WalkOK
    <2> QED  BY <2>7, <2>8 DEF WalkOK
  <1> QED  BY <1>1, <1>3a, <1>4, <1>6, <1>7, <1>8 DEF PageInv

\* Rows deleted from the table of messages, deliveries settled and rescheduled,
\* and the clock.
LEMMA DeletesKept ==
  ASSUME PageInv, x2' = x2, x3' \subseteq x3, x5' = x5, x6' = x6,
         RowsOK(x4, Top("pending"))',
         x4' \subseteq [id : 1 .. RowBound, no : 1 .. RowBound, at : 0 .. ClockBound],
         x1' \in 0 .. ClockBound, x1 <= x1'
  PROVE  PageInv'
  <1>1. Q!TypeOK'  BY DEF PageInv, Q!TypeOK
  <1>2. \A t : Top(t)' = Top(t)  BY DEF Top
  <1>3. RowsOK(x2, Top("events"))' /\ RowsOK(x3, Top("messages"))' /\ RowsOK(x4, Top("pending"))'
    <2>1. PICK m : m = Top("messages")  OBVIOUS
    <2>2. RowsOK(x3, m)  BY <2>1 DEF PageInv
    <2>3. RowsOK(x3', m)  BY <2>2, RowsFewer
    <2> QED  BY <1>2, <2>1, <2>3 DEF PageInv
  <1>4. JournalOK' /\ AsWritten(x3)'
    <2>1. Q!Numbered' => AsWritten(x2)'  BY DEF PageInv, JournalOK, AsWritten, Q!Numbered
    <2>2. \A r \in x2 : r.ts <= x1 /\ r.ts \in Nat /\ x1 \in Nat /\ x1' \in Nat
      BY PageTypes DEF PageInv, JournalOK, TimesOK
    <2>3. TimesOK'  BY <2>2 DEF PageInv, JournalOK, TimesOK
    <2>4. AsWritten(x3)'  BY DEF PageInv, AsWritten
    <2> QED  BY <2>1, <2>3, <2>4 DEF JournalOK
  <1>5. ASSUME NEW c \in Readers PROVE WalkOK(c)'
    <2>1. WalkOK(c)  BY DEF PageInv
    <2>2. x6[c] \in Q!Walks  BY PageTypes
    <2>3. PICK w : w = x6[c]  OBVIOUS
    <2>4. w.table \in {"events", "messages", "pending"}  BY <2>2, <2>3, PagesBounds DEF Q!Walks
    <2>5. Q!ById(w.table)' => Q!ById(w.table) /\ Q!RowsOf(w.table)' \subseteq Q!RowsOf(w.table)
      BY <2>4 DEF Q!RowsOf, Q!ById, Q!Numbered
    <2>6. Q!ById(w.table)' => Shown(w, Q!RowsOf(w.table)')  BY <2>1, <2>3, <2>5 DEF WalkOK, Shown
    <2>7. x6'[c] = w /\ w.cursor <= Top(w.table)'  BY <1>2, <2>1, <2>3 DEF WalkOK
    <2> QED  BY <2>6, <2>7 DEF WalkOK
  <1> QED  BY <1>1, <1>3, <1>4, <1>5 DEF PageInv

\* A publish and a delivery append to their tables.
LEMMA PublishKept ==
  ASSUME PageInv, NEW hit \in BOOLEAN, Q!Publish(hit)
  PROVE  PageInv' /\ x2' = x2 /\ x6' = x6 /\ (Q!Numbered => Q!Numbered')
  <1>0. PICK t : t = "messages"  OBVIOUS
  <1>1. t \in ReadTables /\ x5[t] < RowBound /\ x5' = [x5 EXCEPT ![t] = @ + 1]
    <2>1. PICK c \in Readers : x6[c].table = "messages"  BY DEF Q!Publish, Q!Walked
    <2>2. x6[c] \in Q!Walks  BY PageTypes
    <2>3. x6[c].table \in ReadTables  BY <2>2 DEF Q!Walks
    <2> QED  BY <1>0, <2>1, <2>3 DEF Q!Publish
  <1>2. PICK n : n = x5[t]  OBVIOUS
  <1>3. n \in Nat /\ n < RowBound /\ n = Top(t) /\ RowBound \in Nat
    <2>1. n \in 0 .. RowBound  BY <1>1, <1>2, PageTypes
    <2>2. n = Top(t)  BY <1>1, <1>2 DEF Top
    <2> QED  BY <1>1, <1>2, <2>1, <2>2, PagesBounds
  <1>4. RowsOK(x3, n)  BY <1>0, <1>3 DEF PageInv
  <1>6. PICK e : e = [id |-> n + 1, no |-> n + 1, hit |-> hit]  OBVIOUS
  <1>7. /\ x3' = x3 \cup {e} /\ x5'[t] = n + 1
        /\ x1' = x1 /\ x2' = x2 /\ x4' = x4 /\ x6' = x6
    <2>1. x5'[t] = n + 1  BY <1>1, <1>2, CountUp
    <2>2. x3' = x3 \cup {[id |-> x5'[t], no |-> x5'[t], hit |-> hit]}  BY <1>0 DEF Q!Publish
    <2> QED  BY <1>6, <2>1, <2>2 DEF Q!Publish
  <1>8. /\ e.id = n + 1 /\ e.no = n + 1
        /\ e \in [id : 1 .. RowBound, no : 1 .. RowBound, hit : BOOLEAN]
    <2>1. n + 1 \in 1 .. RowBound  BY <1>3
    <2> QED  BY <1>6, <2>1
  <1>9. Q!TypeOK'
    <2>1. x5' \in [ReadTables -> 0 .. RowBound]  BY <1>1, CountUp
    <2> QED  BY <1>7, <1>8, <2>1 DEF PageInv, Q!TypeOK
  <1>a. Top(t)' = n + 1 /\ \A u : u # t => Top(u)' = Top(u)  BY <1>1, <1>2, CountUp
  <1>b. Top("events")' = Top("events") /\ Top("pending")' = Top("pending")  BY <1>0, <1>a
  <1>10. RowsOK(x2, Top("events"))' /\ RowsOK(x3, Top("messages"))' /\ RowsOK(x4, Top("pending"))'
    <2>1. \A r \in x3 : r.id \in Nat  BY PageTypes
    <2>2. RowsOK(x3 \cup {e}, n + 1)
      <3>1. \A r \in x3 : r.id <= n  BY <1>4 DEF RowsOK
      <3> QED  BY <1>3, <1>4, <1>8, <2>1, <3>1, RowAdded
    <2> QED  BY <1>0, <1>7, <1>a, <1>b, <2>2 DEF PageInv
  <1>n. Q!Numbered' <=> Q!Numbered
    <2>1. "events" \in ReadTables => x5'["events"] = x5["events"]
      BY <1>0, <1>1 DEF PageInv, Q!TypeOK
    <2> QED  BY <1>7, <2>1 DEF Q!Numbered
  <1>11. JournalOK' /\ AsWritten(x3)'
    <2>1. Q!Numbered' => AsWritten(x2)'  BY <1>7, <1>n DEF PageInv, JournalOK
    <2>2. TimesOK'  BY <1>7 DEF PageInv, JournalOK, TimesOK
    <2>3. AsWritten(x3)'  BY <1>7, <1>8 DEF PageInv, AsWritten
    <2> QED  BY <2>1, <2>2, <2>3 DEF JournalOK
  <1>12. \A c \in Readers : WalkOK(c)'
    <2>1. Q!RowsOf(t) = x3 /\ Q!RowsOf(t)' = x3'  BY <1>0 DEF Q!RowsOf
    <2>2. \A u \in ReadTables : u # t => /\ Q!RowsOf(u)' = Q!RowsOf(u) /\ x5'[u] = x5[u]
                                         /\ Q!ById(u)' => Q!ById(u)
      <3> TAKE u \in ReadTables
      <3> HAVE u # t
      <3>1. u = "events" \/ u = "pending"  BY <1>0, PagesBounds
      <3>2. x5'[u] = x5[u]  BY <1>1 DEF PageInv, Q!TypeOK
      <3>3. Q!ById(u)' => Q!ById(u)  BY <1>n DEF Q!ById
      <3> QED  BY <1>7, <3>1, <3>2, <3>3 DEF Q!RowsOf
    <2>3. \A r \in x3' : r \in x3 \/ (r.id \in Nat /\ r.id > x5[t])  BY <1>2, <1>3, <1>7, <1>8
    <2>3a. Q!ById(t)' => Q!ById(t)  BY <1>n DEF Q!ById
    <2>4. x5[t] <= x5'[t] /\ x5'[t] \in Nat  BY <1>2, <1>3, <1>7
    <2> QED  BY <1>1, <1>7, <2>1, <2>2, <2>3, <2>3a, <2>4, WalksKept
  <1> QED  BY <1>7, <1>n, <1>9, <1>10, <1>11, <1>12 DEF PageInv

LEMMA DeliverKept ==
  ASSUME PageInv, NEW at \in 0 .. ClockBound, Q!Deliver(at)
  PROVE  PageInv' /\ x2' = x2 /\ x6' = x6 /\ (Q!Numbered => Q!Numbered')
  <1>0. PICK t : t = "pending"  OBVIOUS
  <1>1. t \in ReadTables /\ x5[t] < RowBound /\ x5' = [x5 EXCEPT ![t] = @ + 1]
    <2>1. PICK c \in Readers : x6[c].table = "pending"  BY DEF Q!Deliver, Q!Walked
    <2>2. x6[c] \in Q!Walks  BY PageTypes
    <2>3. x6[c].table \in ReadTables  BY <2>2 DEF Q!Walks
    <2> QED  BY <1>0, <2>1, <2>3 DEF Q!Deliver
  <1>2. PICK n : n = x5[t]  OBVIOUS
  <1>3. n \in Nat /\ n < RowBound /\ n = Top(t) /\ RowBound \in Nat
    <2>1. n \in 0 .. RowBound  BY <1>1, <1>2, PageTypes
    <2>2. n = Top(t)  BY <1>1, <1>2 DEF Top
    <2> QED  BY <1>1, <1>2, <2>1, <2>2, PagesBounds
  <1>4. RowsOK(x4, n)  BY <1>0, <1>3 DEF PageInv
  <1>6. PICK e : e = [id |-> n + 1, no |-> n + 1, at |-> at]  OBVIOUS
  <1>7. /\ x4' = x4 \cup {e} /\ x5'[t] = n + 1
        /\ x1' = x1 /\ x2' = x2 /\ x3' = x3 /\ x6' = x6
    <2>1. x5'[t] = n + 1  BY <1>1, <1>2, CountUp
    <2>2. x4' = x4 \cup {[id |-> x5'[t], no |-> x5'[t], at |-> at]}  BY <1>0 DEF Q!Deliver
    <2> QED  BY <1>6, <2>1, <2>2 DEF Q!Deliver
  <1>8. /\ e.id = n + 1 /\ e.no = n + 1
        /\ e \in [id : 1 .. RowBound, no : 1 .. RowBound, at : 0 .. ClockBound]
    <2>1. n + 1 \in 1 .. RowBound  BY <1>3
    <2> QED  BY <1>6, <2>1
  <1>9. Q!TypeOK'
    <2>1. x5' \in [ReadTables -> 0 .. RowBound]  BY <1>1, CountUp
    <2> QED  BY <1>7, <1>8, <2>1 DEF PageInv, Q!TypeOK
  <1>a. Top(t)' = n + 1 /\ \A u : u # t => Top(u)' = Top(u)  BY <1>1, <1>2, CountUp
  <1>b. Top("events")' = Top("events") /\ Top("messages")' = Top("messages")  BY <1>0, <1>a
  <1>10. RowsOK(x2, Top("events"))' /\ RowsOK(x3, Top("messages"))' /\ RowsOK(x4, Top("pending"))'
    <2>1. \A r \in x4 : r.id \in Nat  BY PageTypes
    <2>2. RowsOK(x4 \cup {e}, n + 1)
      <3>1. \A r \in x4 : r.id <= n  BY <1>4 DEF RowsOK
      <3> QED  BY <1>3, <1>4, <1>8, <2>1, <3>1, RowAdded
    <2> QED  BY <1>0, <1>7, <1>a, <1>b, <2>2 DEF PageInv
  <1>n. Q!Numbered' <=> Q!Numbered
    <2>1. "events" \in ReadTables => x5'["events"] = x5["events"]
      BY <1>0, <1>1 DEF PageInv, Q!TypeOK
    <2> QED  BY <1>7, <2>1 DEF Q!Numbered
  <1>11. JournalOK' /\ AsWritten(x3)'
    <2>1. Q!Numbered' => AsWritten(x2)'  BY <1>7, <1>n DEF PageInv, JournalOK
    <2>2. TimesOK'  BY <1>7 DEF PageInv, JournalOK, TimesOK
    <2>3. AsWritten(x3)'  BY <1>7, <1>8 DEF PageInv, AsWritten
    <2> QED  BY <2>1, <2>2, <2>3 DEF JournalOK
  <1>12. \A c \in Readers : WalkOK(c)'
    <2>1. Q!RowsOf(t) = x4 /\ Q!RowsOf(t)' = x4'  BY <1>0 DEF Q!RowsOf
    <2>2. \A u \in ReadTables : u # t => /\ Q!RowsOf(u)' = Q!RowsOf(u) /\ x5'[u] = x5[u]
                                         /\ Q!ById(u)' => Q!ById(u)
      <3> TAKE u \in ReadTables
      <3> HAVE u # t
      <3>1. u = "events" \/ u = "messages"  BY <1>0, PagesBounds
      <3>2. x5'[u] = x5[u]  BY <1>1 DEF PageInv, Q!TypeOK
      <3>3. Q!ById(u)' => Q!ById(u)  BY <1>n DEF Q!ById
      <3> QED  BY <1>7, <3>1, <3>2, <3>3 DEF Q!RowsOf
    <2>3. \A r \in x4' : r \in x4 \/ (r.id \in Nat /\ r.id > x5[t])  BY <1>2, <1>3, <1>7, <1>8
    <2>3a. Q!ById(t)' => Q!ById(t)  BY <1>n DEF Q!ById
    <2>4. x5[t] <= x5'[t] /\ x5'[t] \in Nat  BY <1>2, <1>3, <1>7
    <2> QED  BY <1>1, <1>7, <2>1, <2>2, <2>3, <2>3a, <2>4, WalksKept
  <1> QED  BY <1>7, <1>n, <1>9, <1>10, <1>11, <1>12 DEF PageInv

\* The writer's steps, all of them: the walks stay as they are, and only a trim
\* takes rows from the journal.
LEMMA WriterKept ==
  ASSUME PageInv, Q!Next, \A c \in Readers : ~Q!ReadPage(c)
  PROVE  PageInv' /\ Q!TrimStep /\ x6' = x6
  <1>0. ASSUME x2 \subseteq x2', Q!Numbered => Q!Numbered' PROVE Q!TrimStep
    <2>1. x2 \ x2' = {}  BY <1>0
    <2> QED  BY <1>0, <2>1 DEF Q!TrimStep
  <1>a. ASSUME x2' = x2, x5' = x5 PROVE Q!Numbered => Q!Numbered'  BY <1>a DEF Q!Numbered
  <1>b. ASSUME NEW rows, rows \subseteq x4 PROVE RowsOK(rows, Top("pending"))
    BY <1>b, RowsFewer DEF PageInv
  <1>c. x4 \subseteq [id : 1 .. RowBound, no : 1 .. RowBound, at : 0 .. ClockBound]
    BY DEF PageInv, Q!TypeOK
  <1>1. ASSUME NEW hit \in BOOLEAN, Q!InsertEvent(hit) PROVE PageInv' /\ Q!TrimStep /\ x6' = x6
    BY <1>0, <1>1, InsertKept
  <1>2. ASSUME NEW hit \in BOOLEAN, Q!Publish(hit) PROVE PageInv' /\ Q!TrimStep /\ x6' = x6
    BY <1>0, <1>2, PublishKept
  <1>3. CASE Q!TrimEvents  BY <1>3, TrimKept
  <1>4. ASSUME NEW r \in x3, Q!Retire(r) PROVE PageInv' /\ Q!TrimStep /\ x6' = x6
    <2>1. x1' = x1 /\ x2' = x2 /\ x3' \subseteq x3 /\ x4' = x4 /\ x5' = x5 /\ x6' = x6
      BY <1>4 DEF Q!Retire
    <2>2. x1' \in 0 .. ClockBound /\ x1 <= x1'  BY <2>1, PageTypes
    <2>3. RowsOK(x4, Top("pending"))'  BY <1>b, <2>1 DEF Top
    <2> QED  BY <1>0, <1>a, <1>c, <2>1, <2>2, <2>3, DeletesKept
  <1>5. ASSUME NEW at \in 0 .. ClockBound, Q!Deliver(at) PROVE PageInv' /\ Q!TrimStep /\ x6' = x6
    BY <1>0, <1>5, DeliverKept
  <1>6. ASSUME NEW r \in x4, Q!Settle(r) PROVE PageInv' /\ Q!TrimStep /\ x6' = x6
    <2>1. x1' = x1 /\ x2' = x2 /\ x3' = x3 /\ x4' \subseteq x4 /\ x5' = x5 /\ x6' = x6
      BY <1>6 DEF Q!Settle
    <2>2. x1' \in 0 .. ClockBound /\ x1 <= x1'  BY <2>1, PageTypes
    <2>3. RowsOK(x4', Top("pending")) /\ Top("pending")' = Top("pending")  BY <1>b, <2>1 DEF Top
    <2>4. RowsOK(x4, Top("pending"))'  BY <2>3
    <2>5. x4' \subseteq [id : 1 .. RowBound, no : 1 .. RowBound, at : 0 .. ClockBound]
      BY <1>c, <2>1
    <2> QED  BY <1>0, <1>a, <2>1, <2>2, <2>4, <2>5, DeletesKept
  <1>6a. ASSUME NEW r \in x4, NEW at \in 0 .. ClockBound, Q!Reschedule(r, at)
         PROVE  PageInv' /\ Q!TrimStep /\ x6' = x6
    <2>0. PICK e : e = [r EXCEPT !.at = at]  OBVIOUS
    <2>1. /\ x1' = x1 /\ x2' = x2 /\ x3' = x3 /\ x5' = x5 /\ x6' = x6
          /\ x4' = (x4 \ {r}) \cup {e}
      BY <1>6a, <2>0 DEF Q!Reschedule
    <2>2. x1' \in 0 .. ClockBound /\ x1 <= x1'  BY <2>1, PageTypes
    <2>3. /\ e \in [id : 1 .. RowBound, no : 1 .. RowBound, at : 0 .. ClockBound]
          /\ e.id = r.id
      BY <1>c, <2>0
    <2>4. PICK n : n = Top("pending")  OBVIOUS
    <2>5. RowsOK(x4 \ {r}, n) /\ RowsOK(x4, n)  BY <1>b, <2>4
    <2>6. RowsOK((x4 \ {r}) \cup {e}, n)
      <3>1. IsFiniteSet((x4 \ {r}) \cup {e})  BY <2>5, FS_AddElement DEF RowsOK
      <3>2. \A q \in (x4 \ {r}) \cup {e} : q.id <= n  BY <2>3, <2>5 DEF RowsOK
      <3>3. \A q \in x4 \ {r} : q.id # e.id  BY <2>3, <2>5 DEF RowsOK
      <3>4. \A q, z \in (x4 \ {r}) \cup {e} : q.id = z.id => q = z  BY <2>5, <3>3 DEF RowsOK
      <3> QED  BY <3>1, <3>2, <3>4 DEF RowsOK
    <2>7. Top("pending")' = n  BY <2>1, <2>4 DEF Top
    <2>8. RowsOK(x4, Top("pending"))'  BY <2>1, <2>6, <2>7
    <2>9. x4' \subseteq [id : 1 .. RowBound, no : 1 .. RowBound, at : 0 .. ClockBound]
      BY <1>c, <2>1, <2>3
    <2> QED  BY <1>0, <1>a, <2>1, <2>2, <2>8, <2>9, DeletesKept
  <1>7. CASE Q!Tick
    <2>1. x2' = x2 /\ x3' = x3 /\ x4' = x4 /\ x5' = x5 /\ x6' = x6  BY <1>7 DEF Q!Tick
    <2>2. x1' \in 0 .. ClockBound /\ x1 <= x1'
      <3>1. x1 \in 0 .. ClockBound /\ ClockBound \in Nat  BY PageTypes, PagesBounds
      <3> QED  BY <1>7, <3>1 DEF Q!Tick
    <2>3. RowsOK(x4, Top("pending"))'  BY <1>b, <2>1 DEF Top
    <2> QED  BY <1>0, <1>a, <1>c, <2>1, <2>2, <2>3, DeletesKept
  <1> QED  BY <1>1, <1>2, <1>3, <1>4, <1>5, <1>6, <1>6a, <1>7 DEF Q!Next

\* A page p of rows behind a cursor k, the next one behind n: it shows rows behind
\* the cursor, all of them up to n, and all there are when it ends the walk.
PageIsWhole(p, n, rows, k) ==
    /\ p.found \subseteq {r \in rows : r.id > k}
    /\ \A r \in p.found : r.hit /\ r.id <= n
    /\ n \in 0 .. RowBound /\ k <= n
    /\ n # k => \E m \in rows : m.id = n
    /\ \A r \in rows : r.hit /\ r.id > k /\ r.id <= n => r \in p.found
    /\ p.complete /\ ~p.full => \A r \in rows : r.hit /\ r.id > k => r \in p.found

\* Where the next page starts, for a page with or without a resume point.
LEMMA ResumeIs ==
  ASSUME NEW p, NEW k \in 0 .. RowBound, p.next \in 0 .. RowBound,
         \A r \in p.found : r.id \in 1 .. RowBound /\ r.id > k,
         p.next # 0 => p.next > k
  PROVE  /\ Q!Resume(p, k) \in 0 .. RowBound /\ k <= Q!Resume(p, k)
         /\ p.next # 0 => Q!Resume(p, k) = p.next
         /\ p.next = 0 => /\ \A r \in p.found : r.id <= Q!Resume(p, k)
                          /\ Q!Resume(p, k) # k => \E m \in p.found : m.id = Q!Resume(p, k)
  <1>0. RowBound \in Nat  BY PagesBounds
  <1>1. CASE p.next # 0
    <2>1. Q!Resume(p, k) = p.next  BY <1>1 DEF Q!Resume
    <2> QED  BY <1>0, <1>1, <2>1
  <1>2. CASE p.next = 0
    <2>1. PICK T : T = Q!Ids(p.found) \cup {k}  OBVIOUS
    <2>2. T = {r.id : r \in p.found} \cup {k}  BY <2>1 DEF Q!Ids
    <2>3. T \subseteq 0 .. RowBound /\ T # {}  BY <1>0, <2>2
    <2>4. PICK n : n = Q!Max(T)  OBVIOUS
    <2>5. n \in T /\ \A y \in T : y <= n  BY <2>3, <2>4, MaxIsGreatest
    <2>6. Q!Resume(p, k) = n  BY <1>2, <2>1, <2>4 DEF Q!Resume
    <2>7. n \in 0 .. RowBound /\ k <= n  BY <2>2, <2>3, <2>5
    <2>8. \A r \in p.found : r.id <= n  BY <2>2, <2>5
    <2>9. n # k => \E m \in p.found : m.id = n  BY <2>2, <2>5
    <2> QED  BY <1>2, <2>6, <2>7, <2>8, <2>9
  <1> QED  BY <1>1, <1>2

LEMMA ScanIsWhole ==
  ASSUME PageInv, NEW t \in {"events", "messages"}, NEW k \in 0 .. RowBound
  PROVE  PageIsWhole(Q!PageOf(t, k), Q!Resume(Q!PageOf(t, k), k), Q!RowsOf(t), k)
  <1>0. RowBound \in Nat  BY PagesBounds
  <1>1. PICK all : all = Q!RowsOf(t)  OBVIOUS
  <1>2. /\ RowSet(all)
        /\ \A r \in all : r.id \in 1 .. RowBound /\ r.hit \in BOOLEAN
    <2>1. CASE t = "events"
      <3>1. all = x2  BY <1>1, <2>1 DEF Q!RowsOf
      <3> QED  BY <3>1, JournalRowSet, PageTypes
    <2>2. CASE t = "messages"
      <3>1. all = x3  BY <1>1, <2>2 DEF Q!RowsOf
      <3> QED  BY <3>1, JournalRowSet, PageTypes
    <2> QED  BY <2>1, <2>2
  <1>3. PICK rows : rows = {r \in all : r.id > k}  OBVIOUS
  <1>4. RowSet(rows) /\ \A r \in rows : r.id \in 1 .. RowBound /\ r.hit \in BOOLEAN
    <2>1. rows \subseteq all  BY <1>3
    <2> QED  BY <1>2, <2>1, FS_Subset DEF RowSet
  <1>5. PICK limit : limit = Q!Clamp(PageLimit)  OBVIOUS
  <1>6. limit \in Nat \ {0}  BY <1>5, PagesBounds DEF Q!Clamp
  <1>7. PICK page : page = Q!Page(rows, limit)  OBVIOUS
  <1>8. PICK p : p = Q!PageOf(t, k)  OBVIOUS
  <1>9. /\ p.found = page.found /\ p.next \in {0, page.last}
        /\ p.complete /\ ~p.full => ~page.filled /\ ~page.bound
    <2>1. CASE t = "events"
      <3>1. p = [found |-> page.found, full |-> page.filled,
                 complete |-> ~(page.filled \/ page.bound), next |-> page.last]
        <4>1. p = Q!EventsPage(k)  BY <1>8, <2>1 DEF Q!PageOf
        <4>2. rows = {r \in x2 : r.id > k}  BY <1>1, <1>3, <2>1 DEF Q!RowsOf
        <4> QED  BY <1>5, <1>7, <4>1, <4>2 DEF Q!EventsPage
      <3>2. PICK b : b = ~(page.filled \/ page.bound)  OBVIOUS
      <3>3. p.found = page.found /\ p.next = page.last /\ p.complete = b  BY <3>1, <3>2
      <3> QED  BY <3>2, <3>3
    <2>2. CASE t = "messages"
      <3>1. p = [found |-> page.found, full |-> page.filled, complete |-> ~page.bound,
                 next |-> IF page.bound THEN page.last ELSE 0]
        <4>1. p = Q!ListMessages(k)  BY <1>8, <2>2 DEF Q!PageOf
        <4>2. rows = {r \in x3 : r.id > k}  BY <1>1, <1>3, <2>2 DEF Q!RowsOf
        <4> QED  BY <1>5, <1>7, <4>1, <4>2 DEF Q!ListMessages
      <3>2. PICK b, f : b = ~page.bound /\ f = page.filled  OBVIOUS
      <3>3. PICK x : x = IF page.bound THEN page.last ELSE 0  OBVIOUS
      <3>4. p.found = page.found /\ p.next = x /\ p.complete = b /\ p.full = f
        BY <3>1, <3>2, <3>3
      <3>5. x \in {0, page.last}  BY <3>3
      <3> QED  BY <3>2, <3>4, <3>5
    <2> QED  BY <2>1, <2>2
  <1>10. PICK read : read = Q!Read(rows, limit)  OBVIOUS
  <1>11. /\ read \subseteq rows /\ page.found = {r \in read : r.hit}
         /\ \A r \in read : r.id <= page.last
         /\ page.last \in 0 .. RowBound
         /\ page.last # 0 => \E m \in read : m.id = page.last
         /\ \A m \in read, r \in rows : r.id <= m.id => r \in read
         /\ ~page.filled /\ ~page.bound => read = rows
    BY <1>4, <1>6, <1>7, <1>10, PageFacts
  <1>12. p.found = {r \in read : r.hit}  BY <1>9, <1>11
  <1>n. PICK n : n = Q!Resume(p, k)  OBVIOUS
  <1>r. /\ n \in 0 .. RowBound /\ k <= n
        /\ \A r \in p.found : r.id <= n
        /\ n # k => \E m \in read : m.id = n
    <2>1. \A r \in p.found : r.id \in 1 .. RowBound /\ r.id > k  BY <1>3, <1>4, <1>11, <1>12
    <2>2. p.next \in 0 .. RowBound  BY <1>0, <1>9, <1>11
    <2>3. p.next # 0 => p.next = page.last /\ \E m \in read : m.id = page.last  BY <1>9, <1>11
    <2>4. p.next # 0 => p.next > k  BY <1>3, <1>11, <2>3
    <2>5. /\ n \in 0 .. RowBound /\ k <= n
          /\ p.next # 0 => n = p.next
          /\ p.next = 0 => /\ \A r \in p.found : r.id <= n
                           /\ n # k => \E m \in p.found : m.id = n
      BY <1>n, <2>1, <2>2, <2>4, ResumeIs
    <2>6. CASE p.next # 0  BY <1>11, <1>12, <2>3, <2>5, <2>6
    <2>7. CASE p.next = 0  BY <1>12, <2>5, <2>7
    <2> QED  BY <2>6, <2>7
  <1>13. \A r \in all : r.hit /\ r.id > k /\ r.id <= n => r \in p.found
    <2> SUFFICES ASSUME NEW r \in all, r.hit, r.id > k, r.id <= n PROVE r \in p.found
      OBVIOUS
    <2>1. r \in rows /\ r.id \in 1 .. RowBound  BY <1>2, <1>3
    <2>2. n # k  BY <1>0, <1>r, <2>1
    <2>3. PICK m \in read : m.id = n  BY <1>r, <2>2
    <2>4. r \in read  BY <1>11, <2>1, <2>3
    <2> QED  BY <1>12, <2>4
  <1>14. p.complete /\ ~p.full => \A r \in all : r.hit /\ r.id > k => r \in p.found
    <2> SUFFICES ASSUME p.complete, ~p.full, NEW r \in all, r.hit, r.id > k PROVE r \in p.found
      OBVIOUS
    <2>1. read = rows  BY <1>9, <1>11
    <2> QED  BY <1>3, <1>12, <2>1
  <1>15. n # k => \E m \in all : m.id = n  BY <1>3, <1>r, <1>11
  <1>16. /\ p.found \subseteq {r \in all : r.id > k}
         /\ \A r \in p.found : r.hit /\ r.id <= n
    BY <1>3, <1>r, <1>11, <1>12
  <1> QED  BY <1>1, <1>8, <1>n, <1>r, <1>13, <1>14, <1>15, <1>16 DEF PageIsWhole

-----------------------------------------------------------------------------
(* Deliveries by their deadlines. *)

DueSet(S) ==
    /\ IsFiniteSet(S) /\ \A r \in S : r.id \in Nat /\ r.at \in Nat
    /\ \A r, q \in S : r.id = q.id => r = q
Due(S, r) == {q \in S : Q!Sooner(q, r)}
DueRank(S, r) == Cardinality(Due(S, r))
First(S, n) == {r \in S : DueRank(S, r) < n}

\* The deadlines order the rows, and so do the ranks.
LEMMA DueOrder ==
  ASSUME NEW S, DueSet(S), NEW r \in S, NEW q \in S
  PROVE  /\ IsFiniteSet(Due(S, r)) /\ DueRank(S, r) \in Nat
         /\ ~Q!Sooner(r, r)
         /\ r = q \/ Q!Sooner(r, q) \/ Q!Sooner(q, r)
         /\ Q!Sooner(q, r) => DueRank(S, q) < DueRank(S, r)
  <1>1. IsFiniteSet(Due(S, r)) /\ IsFiniteSet(Due(S, q))  BY FS_Subset DEF DueSet, Due
  <1>2. DueRank(S, r) \in Nat /\ DueRank(S, q) \in Nat  BY <1>1, FS_CardinalityType DEF DueRank
  <1>3. \A z \in S : z.id \in Nat /\ z.at \in Nat  BY DEF DueSet
  <1>4. ~Q!Sooner(r, r) /\ ~Q!Sooner(q, q)  BY <1>3 DEF Q!Sooner
  <1>5. r = q \/ Q!Sooner(r, q) \/ Q!Sooner(q, r)
    <2>1. r = q \/ r.id # q.id  BY DEF DueSet
    <2> QED  BY <1>3, <2>1 DEF Q!Sooner
  <1>6. ASSUME Q!Sooner(q, r) PROVE DueRank(S, q) < DueRank(S, r)
    <2>1. Due(S, q) \subseteq Due(S, r)  BY <1>3, <1>6 DEF Due, Q!Sooner
    <2>2. q \in Due(S, r) /\ q \notin Due(S, q)  BY <1>4, <1>6 DEF Due
    <2>3. /\ DueRank(S, q) <= DueRank(S, r)
          /\ DueRank(S, q) = DueRank(S, r) => Due(S, q) = Due(S, r)
      BY <1>1, <2>1, FS_Subset DEF DueRank
    <2> QED  BY <1>2, <2>2, <2>3
  <1> QED  BY <1>1, <1>2, <1>4, <1>5, <1>6

\* A page of the first n: what it leaves out is due after all of it, one of it is
\* the last, and a page that leaves something out has n rows.
LEMMA FirstAreDue ==
  ASSUME NEW S, DueSet(S), NEW n \in Nat
  PROVE  /\ \A r \in S \ First(S, n), q \in First(S, n) : Q!Sooner(q, r)
         /\ First(S, n) # {} => \E l \in First(S, n) : \A q \in First(S, n) : q = l \/ Q!Sooner(q, l)
         /\ First(S, n) # S => Cardinality(First(S, n)) = n
  <1> DEFINE F == First(S, n)
  <1>0. F \subseteq S /\ \A r \in S : r \in F <=> DueRank(S, r) < n  BY DEF First
  <1> HIDE DEF F
  <1>1. ASSUME NEW r \in S \ F, NEW q \in F PROVE Q!Sooner(q, r)
    <2>1. r \in S /\ q \in S /\ r # q /\ DueRank(S, q) < n /\ ~(DueRank(S, r) < n)  BY <1>0, <1>1
    <2>2. DueRank(S, r) \in Nat /\ DueRank(S, q) \in Nat  BY <2>1, DueOrder
    <2>3. Q!Sooner(r, q) => DueRank(S, r) < DueRank(S, q)  BY <2>1, DueOrder
    <2>4. Q!Sooner(r, q) \/ Q!Sooner(q, r)  BY <2>1, DueOrder
    <2> QED  BY <2>1, <2>2, <2>3, <2>4
  <1>2. ASSUME F # {} PROVE \E l \in F : \A q \in F : q = l \/ Q!Sooner(q, l)
    <2> DEFINE D == {n - DueRank(S, r) : r \in F}
    <2>1. \A r \in F : r \in S /\ DueRank(S, r) \in Nat /\ DueRank(S, r) < n  BY <1>0, DueOrder
    <2>2. D \subseteq Nat /\ D # {}  BY <1>2, <2>1
    <2>3. PICK d \in D : \A e \in D : d <= e  BY <2>2, LeastExists, Zenon
    <2>4. PICK l \in F : d = n - DueRank(S, l)  OBVIOUS
    <2>5. ASSUME NEW q \in F PROVE q = l \/ Q!Sooner(q, l)
      <3>1. n - DueRank(S, l) <= n - DueRank(S, q)  BY <2>3, <2>4
      <3>2. ~(DueRank(S, l) < DueRank(S, q))  BY <2>1, <3>1
      <3>3. Q!Sooner(l, q) => DueRank(S, l) < DueRank(S, q)  BY <2>1, DueOrder
      <3>4. q = l \/ Q!Sooner(l, q) \/ Q!Sooner(q, l)  BY <2>1, DueOrder
      <3> QED  BY <3>2, <3>3, <3>4
    <2> QED  BY <2>5
  <1>f. IsFiniteSet(F) /\ Cardinality(F) \in Nat
    <2>1. IsFiniteSet(F)  BY <1>0, FS_Subset DEF DueSet
    <2> QED  BY <2>1, FS_CardinalityType
  <1>3. Cardinality(F) <= n
    <2>1. CASE F = {}
      <3>1. Cardinality(F) = 0  BY <2>1, FS_EmptySet
      <3> QED  BY <3>1
    <2>2. CASE F # {}
      <3>1. PICK l \in F : \A q \in F : q = l \/ Q!Sooner(q, l)  BY <1>2, <2>2
      <3>2. l \in S /\ DueRank(S, l) < n  BY <1>0
      <3>3. IsFiniteSet(Due(S, l)) /\ DueRank(S, l) \in Nat /\ ~Q!Sooner(l, l)
        BY <3>2, DueOrder
      <3>4. F \subseteq Due(S, l) \cup {l}  BY <1>0, <3>1 DEF Due
      <3>5. l \notin Due(S, l)  BY <3>3 DEF Due
      <3>6. /\ IsFiniteSet(Due(S, l) \cup {l})
            /\ Cardinality(Due(S, l) \cup {l}) = DueRank(S, l) + 1
        BY <3>3, <3>5, FS_AddElement DEF DueRank
      <3>7. Cardinality(F) <= DueRank(S, l) + 1  BY <3>4, <3>6, FS_Subset
      <3> QED  BY <1>f, <3>2, <3>3, <3>7
    <2> QED  BY <2>1, <2>2
  <1>4. ASSUME F # S PROVE Cardinality(F) = n
    <2> DEFINE K == {DueRank(S, r) : r \in S \ F}
    <2>1. K \subseteq Nat /\ K # {}
      <3>1. \A r \in S \ F : DueRank(S, r) \in Nat  BY DueOrder
      <3>2. S \ F # {}  BY <1>0, <1>4
      <3> QED  BY <3>1, <3>2
    <2>2. PICK k \in K : \A j \in K : k <= j  BY <2>1, LeastExists, Zenon
    <2>3. PICK m \in S \ F : k = DueRank(S, m)  OBVIOUS
    <2>4. m \in S /\ ~(DueRank(S, m) < n) /\ DueRank(S, m) \in Nat  BY <1>0, <2>3, DueOrder
    <2>5. ASSUME NEW q \in Due(S, m) PROVE q \in F
      <3>1. q \in S /\ Q!Sooner(q, m)  BY DEF Due
      <3>2. DueRank(S, q) < DueRank(S, m) /\ DueRank(S, q) \in Nat  BY <2>4, <3>1, DueOrder
      <3>3. q \in S \ F => DueRank(S, m) <= DueRank(S, q)  BY <2>2, <2>3
      <3> QED  BY <2>4, <3>1, <3>2, <3>3
    <2>6. DueRank(S, m) <= Cardinality(F)  BY <1>f, <2>5, FS_Subset DEF DueRank
    <2> QED  BY <1>f, <1>3, <2>4, <2>6
  <1> QED  BY <1>1, <1>2, <1>4 DEF F

\* A page of deliveries leaves out none behind its cursor, or is full and leaves
\* out those due after all it shows.
LEMMA PendingIsDue ==
  ASSUME PageInv, NEW k \in 0 .. RowBound
  PROVE  LET p == Q!PageOf("pending", k)
             n == Q!Resume(p, k)
         IN  /\ p.found \subseteq {r \in x4 : r.id > k}
             /\ n \in 0 .. RowBound /\ k <= n
             /\ n # k => \E m \in x4 : m.id = n
             /\ \A r \in x4 : r.id > k /\ r \notin p.found =>
                    p.full /\ \A q \in p.found : Q!Sooner(q, r)
  <1>0. RowBound \in Nat /\ PageLimit \in Nat /\ MaxPage \in Nat  BY PagesBounds
  <1>1. PICK rows : rows = {r \in x4 : r.id > k}  OBVIOUS
  <1>2. /\ \A r \in x4 : r.id \in 1 .. RowBound /\ r.at \in 0 .. ClockBound /\ ClockBound \in Nat
        /\ DueSet(rows)
    <2>1. \A r \in x4 : r.id \in 1 .. RowBound /\ r.at \in 0 .. ClockBound /\ ClockBound \in Nat
      BY PagesBounds DEF PageInv, Q!TypeOK
    <2>2. RowsOK(x4, Top("pending"))  BY DEF PageInv
    <2>3. IsFiniteSet(rows)  BY <1>1, <2>2, FS_Subset DEF RowsOK
    <2>4. \A r, q \in rows : r.id = q.id => r = q  BY <1>1, <2>2 DEF RowsOK
    <2>5. \A r \in rows : r.id \in Nat /\ r.at \in Nat  BY <1>0, <1>1, <2>1
    <2> QED  BY <2>1, <2>3, <2>4, <2>5 DEF DueSet
  <1>3. PICK limit : limit = IF PageLimit < MaxPage THEN PageLimit ELSE MaxPage  OBVIOUS
  <1>4. limit \in Nat  BY <1>0, <1>3
  <1>5. PICK found : found = {r \in rows : limit = 0 \/ DueRank(rows, r) < limit}  OBVIOUS
  <1>6. PICK full : full = (limit # 0 /\ Cardinality(found) = limit)  OBVIOUS
  <1>6a. PICK last : last = CHOOSE r \in found : \A q \in found : q = r \/ Q!Sooner(q, r)  OBVIOUS
  <1>7. PICK next : next = IF full THEN last.id ELSE 0  OBVIOUS
  <1>8. PICK p : p = Q!PageOf("pending", k)  OBVIOUS
  <1>9. p.found = found /\ p.full = full /\ p.next = next
    <2> DEFINE S == {r \in x4 : r.id > k}
               l == IF PageLimit < MaxPage THEN PageLimit ELSE MaxPage
               f == {r \in S : l = 0 \/ Q!Cardinality({q \in S : Q!Sooner(q, r)}) < l}
               u == l # 0 /\ Q!Cardinality(f) = l
               x == IF u THEN (CHOOSE r \in f : \A q \in f : q = r \/ Q!Sooner(q, r)).id ELSE 0
    <2>1. p = [found |-> f, full |-> u, complete |-> ~u, next |-> x]
      <3>1. p = Q!PendingList(k)  BY <1>8 DEF Q!PageOf
      <3> QED  BY <3>1, Zenon DEF Q!PendingList
    <2>2. S = rows /\ l = limit  BY <1>1, <1>3
    <2> HIDE DEF S, l
    <2>3. f = found
      <3>1. \A r : {q \in rows : Q!Sooner(q, r)} = Due(rows, r)  BY DEF Due
      <3> QED  BY <1>5, <2>2, <3>1, QCardIs DEF DueRank
    <2> HIDE DEF f
    <2>4. u = full  BY <1>6, <2>2, <2>3, QCardIs
    <2> HIDE DEF u
    <2>5. x = next  BY <1>6a, <1>7, <2>3, <2>4
    <2> HIDE DEF x
    <2>6. p.found = f /\ p.full = u /\ p.next = x  BY <2>1
    <2> QED  BY <2>3, <2>4, <2>5, <2>6
  <1>10. found \subseteq rows /\ (limit = 0 => found = rows)  BY <1>5
  <1>11. limit # 0 => found = First(rows, limit)  BY <1>5 DEF First
  <1>12. \A r \in rows \ found : full /\ \A q \in found : Q!Sooner(q, r)
    <2> SUFFICES ASSUME NEW r \in rows \ found
                 PROVE  full /\ \A q \in found : Q!Sooner(q, r)
      OBVIOUS
    <2>1. limit # 0  BY <1>10
    <2>2. Cardinality(found) = limit /\ \A q \in found : Q!Sooner(q, r)
      BY <1>2, <1>4, <1>11, <2>1, FirstAreDue
    <2> QED  BY <1>6, <2>1, <2>2
  <1>13. next \in 0 .. RowBound /\ (next # 0 => \E m \in found : m.id = next)
    <2>1. CASE full
      <3>1. limit # 0 /\ Cardinality(found) = limit  BY <1>6, <2>1
      <3>2. found # {}  BY <3>1, FS_EmptySet
      <3>3. \E l \in found : \A q \in found : q = l \/ Q!Sooner(q, l)
        BY <1>2, <1>4, <1>11, <3>1, <3>2, FirstAreDue
      <3>4. last \in found  BY <1>6a, <3>3, Zenon
      <3>5. next = last.id  BY <1>7, <2>1
      <3>6. last.id \in 1 .. RowBound  BY <1>1, <1>2, <1>10, <3>4
      <3> QED  BY <1>0, <3>4, <3>5, <3>6
    <2>2. CASE ~full
      <3>1. next = 0  BY <1>7, <2>2
      <3> QED  BY <1>0, <3>1
    <2> QED  BY <2>1, <2>2
  <1>14. PICK n : n = Q!Resume(p, k)  OBVIOUS
  <1>15. /\ n \in 0 .. RowBound /\ k <= n
         /\ n # k => \E m \in x4 : m.id = n
    <2>1. \A r \in p.found : r.id \in 1 .. RowBound /\ r.id > k /\ r \in x4
      BY <1>1, <1>2, <1>9, <1>10
    <2>2. p.next \in 0 .. RowBound /\ (p.next # 0 => \E m \in p.found : m.id = p.next)
      BY <1>9, <1>13
    <2>3. p.next # 0 => p.next > k  BY <2>1, <2>2
    <2>4. /\ n \in 0 .. RowBound /\ k <= n
          /\ p.next # 0 => n = p.next
          /\ p.next = 0 => (n # k => \E m \in p.found : m.id = n)
      BY <1>14, <2>1, <2>2, <2>3, ResumeIs
    <2> QED  BY <2>1, <2>2, <2>4
  <1>16. /\ p.found \subseteq {r \in x4 : r.id > k}
         /\ \A r \in x4 : r.id > k /\ r \notin p.found =>
                p.full /\ \A q \in p.found : Q!Sooner(q, r)
    BY <1>1, <1>9, <1>10, <1>12
  <1> QED  BY <1>8, <1>14, <1>15, <1>16

-----------------------------------------------------------------------------
(* Reading beside the writer. *)

\* One request: the walk has shown what is behind its new cursor, and
\* everything there is when the page ends it.
LEMMA ReadKept ==
  ASSUME PageInv, NEW c \in Readers, Q!ReadPage(c)
  PROVE  PageInv' /\ Q!PageStep /\ Q!DueStep /\ x2' = x2 /\ x5' = x5
  <1>0. x1' = x1 /\ x2' = x2 /\ x3' = x3 /\ x4' = x4 /\ x5' = x5  BY DEF Q!ReadPage
  <1>1. PICK w : w = x6[c]  OBVIOUS
  <1>2. PICK p : p = Q!PageOf(w.table, w.cursor)  OBVIOUS
  <1>3. PICK v : v = x6'[c]  OBVIOUS
  <1>4. PICK nos : nos = {r.no : r \in p.found}  OBVIOUS
  <1>4a. PICK n : n = Q!Resume(p, w.cursor)  OBVIOUS
  <1>4b. PICK done : done = (p.complete /\ ~p.full)  OBVIOUS
  <1>5. /\ w \in Q!Walks /\ w.table \in ReadTables /\ w.cursor \in 0 .. RowBound
        /\ w.got \subseteq 1 .. RowBound /\ RowBound \in Nat
    <2>1. w \in Q!Walks  BY <1>1, PageTypes
    <2> QED  BY <2>1, PagesBounds DEF Q!Walks
  <1>6. x6 \in [Readers -> Q!Walks]  BY DEF PageInv, Q!TypeOK
  <1>7. x6' = [x6 EXCEPT ![c].got = @ \cup nos, ![c].cursor = n, ![c].done = done]
    BY <1>1, <1>2, <1>4, <1>4a, <1>4b DEF Q!ReadPage
  <1>8. /\ v = [table |-> w.table, cursor |-> n, got |-> w.got \cup nos, done |-> done]
        /\ \A d \in Readers : d # c => x6'[d] = x6[d]
    BY <1>1, <1>3, <1>5, <1>6, <1>7 DEF Q!Walks
  <1>9. \A t : Top(t)' = Top(t) /\ Q!RowsOf(t)' = Q!RowsOf(t)  BY <1>0 DEF Top, Q!RowsOf
  <1>9a. Q!Numbered' = Q!Numbered /\ \A t : Q!ById(t)' = Q!ById(t)
    BY <1>0 DEF Q!Numbered, Q!ById
  <1>10. w.cursor <= Top(w.table) /\ (Q!ById(w.table) => Shown(w, Q!RowsOf(w.table)))
    BY <1>1 DEF PageInv, WalkOK
  \* What the page does for this walk.
  <1>11. /\ n \in 0 .. RowBound /\ nos \subseteq 1 .. RowBound /\ n <= Top(w.table)
         /\ Q!ById(w.table) => Shown(v, Q!RowsOf(w.table))
         /\ Q!ById(w.table) /\ done => \A r \in Q!RowsOf(w.table) : r.hit => r.no \in v.got
         /\ w.table = "pending" => \A r \in x4 : r.id > w.cursor /\ r \notin p.found =>
                                       ~done /\ \A q \in p.found : Q!Sooner(q, r)
    <2>1. CASE w.table = "pending"
      <3>1. /\ p.found \subseteq {r \in x4 : r.id > w.cursor}
            /\ n \in 0 .. RowBound
            /\ n # w.cursor => \E m \in x4 : m.id = n
            /\ \A r \in x4 : r.id > w.cursor /\ r \notin p.found =>
                   p.full /\ \A q \in p.found : Q!Sooner(q, r)
        BY <1>2, <1>4a, <1>5, <2>1, PendingIsDue
      <3>2. \A r \in x4 : r.no \in 1 .. RowBound  BY PageTypes
      <3>3. nos \subseteq 1 .. RowBound  BY <1>4, <3>1, <3>2
      <3>4. RowsOK(x4, Top(w.table))  BY <2>1 DEF PageInv
      <3>5. n <= Top(w.table)
        <4>1. CASE n = w.cursor  BY <1>10, <4>1
        <4>2. CASE n # w.cursor
          <5>1. PICK m \in x4 : m.id = n  BY <3>1, <4>2
          <5> QED  BY <3>4, <5>1 DEF RowsOK
        <4> QED  BY <4>1, <4>2
      <3>6. ~Q!ById(w.table)  BY <2>1 DEF Q!ById
      <3>7. p.full => ~done  BY <1>4b
      <3> QED  BY <3>1, <3>3, <3>5, <3>6, <3>7
    <2>2. CASE w.table # "pending"
      <3>1. PICK t \in {"events", "messages"} : t = w.table  BY <1>5, <2>2, PagesBounds
      <3>2. PICK all : all = Q!RowsOf(t)  OBVIOUS
      <3>3. PICK k : k = w.cursor  OBVIOUS
      <3>4. k \in Nat /\ k \in 0 .. RowBound  BY <1>5, <3>3
      <3>5. PageIsWhole(p, n, all, k)
        BY <1>2, <1>4a, <3>1, <3>2, <3>3, <3>4, ScanIsWhole
      <3>6. /\ RowsOK(all, Top(t)) /\ (Q!ById(t) => AsWritten(all))
            /\ \A r \in all : r.id \in 1 .. RowBound /\ r.no \in 1 .. RowBound
        <4>1. CASE t = "events"
          <5>1. all = x2  BY <3>2, <4>1 DEF Q!RowsOf
          <5>2. Q!ById(t) => Q!Numbered  BY <4>1 DEF Q!ById
          <5> QED  BY <4>1, <5>1, <5>2, PageTypes DEF PageInv, JournalOK
        <4>2. CASE t = "messages"
          <5>1. all = x3  BY <3>2, <4>2 DEF Q!RowsOf
          <5> QED  BY <4>2, <5>1, PageTypes DEF PageInv
        <4> QED  BY <3>1, <4>1, <4>2
      <3>7. \A r \in all : r.id <= Top(t)  BY <3>6 DEF RowsOK
      <3>8. p.found \subseteq all /\ nos \subseteq 1 .. RowBound  BY <1>4, <3>5, <3>6 DEF PageIsWhole
      <3>9. n \in 0 .. RowBound /\ k <= n /\ n <= Top(t)
        <4>1. n \in 0 .. RowBound /\ k <= n /\ (n # k => \E m \in all : m.id = n)
          BY <3>5 DEF PageIsWhole
        <4> QED  BY <1>10, <3>1, <3>3, <3>7, <4>1
      <3>10. v.table = t /\ v.got = w.got \cup nos /\ v.cursor = n  BY <1>8, <3>1
      <3>11. ASSUME Q!ById(t)
             PROVE  Shown(v, all) /\ (done => \A r \in all : r.hit => r.no \in v.got)
        <4>1. \A r \in all : r.no = r.id  BY <3>6, <3>11 DEF AsWritten
        <4>2. /\ \A i \in w.got : i <= k
              /\ \A r \in all : r.hit /\ r.id <= k => r.no \in w.got
          BY <1>10, <3>1, <3>2, <3>3, <3>11 DEF Shown
        <4>3. \A i \in v.got : i <= n
          <5>1. \A i \in nos : i <= n  BY <1>4, <3>5, <3>8, <4>1 DEF PageIsWhole
          <5>2. \A i \in w.got : i \in Nat  BY <1>5
          <5> QED  BY <3>4, <3>9, <3>10, <4>2, <5>1, <5>2
        <4>4. \A r \in all : r.hit /\ r.id <= n => r.no \in v.got
          <5> SUFFICES ASSUME NEW r \in all, r.hit, r.id <= n PROVE r.no \in v.got  OBVIOUS
          <5>1. r.id \in Nat  BY <3>6
          <5>2. CASE r.id <= k  BY <3>10, <4>2, <5>2
          <5>3. CASE ~(r.id <= k)
            <6>1. r.id > k  BY <3>4, <5>1, <5>3
            <6>2. r \in p.found  BY <3>5, <6>1 DEF PageIsWhole
            <6> QED  BY <1>4, <3>10, <6>2
          <5> QED  BY <5>2, <5>3
        <4>5. ASSUME done, NEW r \in all, r.hit PROVE r.no \in v.got
          <5>1. r.id \in Nat  BY <3>6
          <5>2. CASE r.id <= k  BY <3>10, <4>2, <4>5, <5>2
          <5>3. CASE ~(r.id <= k)
            <6>1. r.id > k  BY <3>4, <5>1, <5>3
            <6>1a. p.complete /\ ~p.full  BY <1>4b, <4>5, Zenon
            <6>2. r \in p.found  BY <3>5, <4>5, <6>1, <6>1a DEF PageIsWhole
            <6> QED  BY <1>4, <3>10, <6>2
          <5> QED  BY <5>2, <5>3
        <4>6. Shown(v, all)  BY <3>10, <4>3, <4>4 DEF Shown
        <4> QED  BY <4>5, <4>6
      <3> QED  BY <2>2, <3>1, <3>2, <3>8, <3>9, <3>11
    <2> QED  BY <2>1, <2>2
  <1>12. v \in Q!Walks
    <2>1. w.got \cup nos \in SUBSET (1 .. RowBound)  BY <1>5, <1>11
    <2>2. done \in BOOLEAN  BY <1>4b
    <2> QED  BY <1>5, <1>8, <1>11, <2>1, <2>2 DEF Q!Walks
  <1>13. x6' \in [Readers -> Q!Walks]
    <2>1. x6' = [x6 EXCEPT ![c] = x6'[c]]  BY <1>6, <1>7
    <2> QED  BY <1>3, <1>6, <1>12, <2>1
  <1>14. Q!TypeOK'  BY <1>0, <1>13 DEF PageInv, Q!TypeOK
  <1>15. ASSUME NEW d \in Readers PROVE WalkOK(d)'
    <2>1. CASE d = c
      <3>1. v.table = w.table /\ v.cursor = n  BY <1>8
      <3>2. x6'[d] = v  BY <1>3, <2>1
      <3> QED  BY <1>9, <1>9a, <1>11, <3>1, <3>2 DEF WalkOK
    <2>2. CASE d # c
      <3>1. x6'[d] = x6[d] /\ WalkOK(d)  BY <1>8, <2>2 DEF PageInv
      <3> QED  BY <1>9, <1>9a, <3>1 DEF WalkOK
    <2> QED  BY <2>1, <2>2
  <1>16. /\ RowsOK(x2, Top("events"))' /\ RowsOK(x3, Top("messages"))' /\ RowsOK(x4, Top("pending"))'
         /\ AsWritten(x3)' /\ JournalOK'
    BY <1>0, <1>9, <1>9a DEF PageInv, JournalOK, AsWritten, TimesOK
  <1>17. Q!PageStep
    <2> SUFFICES ASSUME NEW d \in Readers, x6'[d] # x6[d], x6'[d].done, Q!ById(x6[d].table),
                        NEW r \in Q!Hits(Q!RowsOf(x6[d].table))
                 PROVE  r.no \in x6'[d].got
      BY DEF Q!PageStep
    <2>1. d = c  BY <1>8
    <2>2. v.done = done  BY <1>8
    <2>3. done /\ Q!ById(w.table) /\ r \in Q!RowsOf(w.table) /\ r.hit
      BY <1>1, <1>3, <2>1, <2>2 DEF Q!Hits
    <2> QED  BY <1>3, <1>11, <2>1, <2>3
  <1>18. Q!DueStep
    <2> SUFFICES ASSUME NEW d \in Readers, x6'[d] # x6[d], x6[d].table = "pending",
                        NEW r \in x4, r.id > x6[d].cursor
                 PROVE  \/ r.no \in x6'[d].got
                        \/ ~x6'[d].done /\ \A q \in Q!PendingList(x6[d].cursor).found : Q!Sooner(q, r)
      BY DEF Q!DueStep
    <2>1. d = c  BY <1>8
    <2>2. v.done = done /\ v.got = w.got \cup nos  BY <1>8
    <2>3. p = Q!PendingList(w.cursor) /\ w.table = "pending" /\ r.id > w.cursor
      BY <1>1, <1>2, <2>1 DEF Q!PageOf
    <2>4. CASE r \in p.found  BY <1>3, <1>4, <2>1, <2>2, <2>4
    <2>5. CASE r \notin p.found
      <3>1. ~done /\ \A q \in p.found : Q!Sooner(q, r)  BY <1>11, <2>3, <2>5
      <3>2. ~v.done  BY <2>2, <3>1
      <3> QED  BY <1>1, <1>3, <2>1, <2>3, <3>1, <3>2
    <2> QED  BY <2>4, <2>5
  <1> QED  BY <1>0, <1>14, <1>15, <1>16, <1>17, <1>18 DEF PageInv

\* The invariant says what the run checks of every state.
LEMMA NothingBehind ==
  ASSUME PageInv
  PROVE  Q!NothingBehindCursor
  <1> SUFFICES ASSUME NEW c \in Readers, Q!ById(x6[c].table)
               PROVE  /\ \A r \in Q!Hits(Q!RowsOf(x6[c].table)) :
                            r.id <= x6[c].cursor => r.no \in x6[c].got
                      /\ \A r \in Q!PageOf(x6[c].table, x6[c].cursor).found : r.no \notin x6[c].got
    BY DEF Q!NothingBehindCursor
  <1>1. PICK w : w = x6[c]  OBVIOUS
  <1>2. w.cursor \in 0 .. RowBound /\ w.cursor \in Nat /\ w.got \subseteq Nat
    <2>1. w \in Q!Walks  BY <1>1, PageTypes
    <2> QED  BY <2>1, PagesBounds DEF Q!Walks
  <1>3. Shown(w, Q!RowsOf(w.table))  BY <1>1 DEF PageInv, WalkOK
  <1>4. PICK p : p = Q!PageOf(w.table, w.cursor)  OBVIOUS
  <1>5. PICK t \in {"events", "messages"} : t = w.table  BY <1>1 DEF Q!ById
  <1>6. PICK all : all = Q!RowsOf(t)  OBVIOUS
  <1>7. PICK k : k = w.cursor  OBVIOUS
  <1>8. /\ \A i \in w.got : i <= k
        /\ \A r \in all : r.hit /\ r.id <= k => r.no \in w.got
    BY <1>3, <1>5, <1>6, <1>7 DEF Shown
  <1>9. p.found \subseteq {r \in all : r.id > k}
    BY <1>2, <1>4, <1>5, <1>6, <1>7, ScanIsWhole DEF PageIsWhole
  <1>10. \A r \in all : r.no = r.id /\ r.id \in Nat
    <2>1. CASE t = "events"
      <3>1. all = x2 /\ Q!Numbered  BY <1>1, <1>5, <1>6, <2>1 DEF Q!RowsOf, Q!ById
      <3> QED  BY <3>1, PageTypes DEF PageInv, JournalOK, AsWritten
    <2>2. CASE t = "messages"
      <3>1. all = x3  BY <1>6, <2>2 DEF Q!RowsOf
      <3> QED  BY <3>1, PageTypes DEF PageInv, AsWritten
    <2> QED  BY <1>5, <2>1, <2>2
  <1>11. \A r \in p.found : r.no \notin w.got
    <2> SUFFICES ASSUME NEW r \in p.found, r.no \in w.got PROVE FALSE  OBVIOUS
    <2>1. r \in all /\ r.id > k  BY <1>9
    <2>2. r.id <= k /\ r.id \in Nat  BY <1>8, <1>10, <2>1
    <2> QED  BY <1>2, <1>7, <2>1, <2>2
  <1> QED  BY <1>1, <1>4, <1>5, <1>6, <1>7, <1>8, <1>11 DEF Q!Hits

\* The invariant in the specification of all the parts.
PagesKept == part = "pages" => PageInv

LEMMA PagesInit == RequestsInit => PagesKept
  <1> SUFFICES ASSUME RequestsInit, part = "pages" PROVE PageInv  BY DEF PagesKept
  <1>1. /\ x1 = 0 /\ x2 = {} /\ x3 = {} /\ x4 = {} /\ x5 = [t \in ReadTables |-> 0]
        /\ x6 \in [Readers -> {[table |-> t, cursor |-> 0, got |-> {}, done |-> FALSE] : t \in ReadTables}]
    BY DEF RequestsInit, Q!Init
  <1>2. 0 \in 0 .. ClockBound /\ 0 \in 0 .. RowBound  BY PagesBounds
  <1>3. \A t \in ReadTables : [table |-> t, cursor |-> 0, got |-> {}, done |-> FALSE] \in Q!Walks
    BY <1>2 DEF Q!Walks
  <1>4. x6 \in [Readers -> Q!Walks]
    <2>1. \A c \in Readers : x6[c] \in Q!Walks  BY <1>1, <1>3
    <2> QED  BY <1>1, <2>1
  <1>5. Q!TypeOK  BY <1>1, <1>2, <1>4 DEF Q!TypeOK
  <1>6. \A t : Top(t) = 0  BY <1>1 DEF Top
  <1>7. RowsOK({}, 0)  BY FS_EmptySet DEF RowsOK
  <1>8. ASSUME NEW c \in Readers PROVE WalkOK(c)
    <2>1. PICK t \in ReadTables : x6[c] = [table |-> t, cursor |-> 0, got |-> {}, done |-> FALSE]
      BY <1>1
    <2>2. t \in {"events", "messages", "pending"}  BY PagesBounds
    <2>3. Q!RowsOf(t) = {}  BY <1>1, <2>2 DEF Q!RowsOf
    <2> QED  BY <1>6, <2>1, <2>3 DEF WalkOK, Shown
  <1> QED  BY <1>1, <1>5, <1>6, <1>7, <1>8 DEF PageInv, JournalOK, AsWritten, TimesOK

\* Every step of the pages keeps the invariant and does what the run asks of it.
LEMMA PagesStep ==
  ASSUME PageInv, Q!Next
  PROVE  PageInv' /\ Q!PageStep /\ Q!DueStep /\ Q!TrimStep
  <1>1. ASSUME NEW c \in Readers, Q!ReadPage(c)
        PROVE  PageInv' /\ Q!PageStep /\ Q!DueStep /\ Q!TrimStep
    <2>1. PageInv' /\ Q!PageStep /\ Q!DueStep /\ x2' = x2 /\ x5' = x5  BY <1>1, ReadKept
    <2>2. x2 \ x2' = {} /\ (Q!Numbered => Q!Numbered')  BY <2>1 DEF Q!Numbered
    <2> QED  BY <2>1, <2>2 DEF Q!TrimStep
  <1>2. CASE \A c \in Readers : ~Q!ReadPage(c)
    <2>1. PageInv' /\ Q!TrimStep /\ x6' = x6  BY <1>2, WriterKept
    <2>2. Q!PageStep /\ Q!DueStep  BY <2>1 DEF Q!PageStep, Q!DueStep
    <2> QED  BY <2>1, <2>2
  <1> QED  BY <1>1, <1>2

LEMMA PagesKeptStep ==
  ASSUME PagesKept, [RequestsNext]_<<part, others, vars>>
  PROVE  PagesKept'
  <1>1. CASE RequestsNext
    <2> SUFFICES ASSUME part' = "pages" PROVE PageInv'  BY DEF PagesKept
    <2>1. part = "pages"  BY <1>1 DEF RequestsNext
    <2>2. PageInv /\ Q!Next  BY <1>1, <2>1 DEF PagesKept, RequestsNext
    <2> QED  BY <2>2, PagesStep
  <1>2. CASE UNCHANGED <<part, others, vars>>
    <2>1. part' = part /\ x1' = x1 /\ x2' = x2 /\ x3' = x3 /\ x4' = x4 /\ x5' = x5 /\ x6' = x6
      BY <1>2 DEF others
    <2> SUFFICES ASSUME part = "pages" PROVE PageInv'  BY <2>1 DEF PagesKept
    <2>2. PageInv  BY DEF PagesKept
    <2>3. x1' \in 0 .. ClockBound /\ x1 <= x1'  BY <2>1, <2>2, PageTypes
    <2>4. RowsOK(x4, Top("pending"))'  BY <2>1, <2>2 DEF PageInv, Top
    <2>5. x4' \subseteq [id : 1 .. RowBound, no : 1 .. RowBound, at : 0 .. ClockBound]
      BY <2>1, <2>2 DEF PageInv, Q!TypeOK
    <2> QED  BY <2>1, <2>2, <2>3, <2>4, <2>5, DeletesKept
  <1> QED  BY <1>1, <1>2

\* A page of the journal or of messages shows every row between the cursor it was
\* asked from and the one it hands back, no row twice, and ends the walk only when
\* nothing is left, while the writer appends, trims and deletes, until a trim by age
\* empties the journal; a page of deliveries, cut or not, leaves out only those due
\* after all it shows; a trim stops short of its two bounds only when its batch is
\* spent.  For any clients, bounds and limits.
THEOREM PagesShowEverything == RequestsSpec => PagesAreWhole
  <1> DEFINE Behind == part = "pages" => Q!TypeOK /\ Q!NothingBehindCursor
  <1>1. PagesKept /\ Behind' /\ [RequestsNext]_<<part, others, vars>>
          => [part = "pages" => /\ Q!TypeOK' /\ Q!NothingBehindCursor'
                                /\ Q!PageStep /\ Q!DueStep /\ Q!TrimStep]_<<part, others, vars>>
    <2> SUFFICES ASSUME PagesKept, Behind', RequestsNext, part = "pages"
                 PROVE  /\ Q!TypeOK' /\ Q!NothingBehindCursor'
                        /\ Q!PageStep /\ Q!DueStep /\ Q!TrimStep
      BY Zenon
    <2>1. PageInv /\ Q!Next /\ part' = "pages"  BY DEF PagesKept, RequestsNext
    <2>2. Q!PageStep /\ Q!DueStep /\ Q!TrimStep  BY <2>1, PagesStep
    <2>3. Q!TypeOK' /\ Q!NothingBehindCursor'  BY <2>1
    <2> QED  BY <2>2, <2>3
  <1>2. PagesKept /\ [RequestsNext]_<<part, others, vars>> => PagesKept'
    BY PagesKeptStep
  <1>3. PagesKept => Behind  BY NothingBehind DEF PagesKept, PageInv
  <1>4. RequestsSpec => []PagesKept  BY <1>2, PagesInit, PTL DEF RequestsSpec
  <1> HIDE DEF Behind
  <1> QED  BY <1>1, <1>3, <1>4, PTL DEF RequestsSpec, PagesAreWhole
=============================================================================
