-------------------------------- MODULE Rules --------------------------------
(***************************************************************************)
(* The pure rules of internal/subject and internal/queue, followed along   *)
(* the life of one message: it is accepted by a stream's subject patterns, *)
(* offered to a consumer by its filter, retried on the consumer's backoff  *)
(* ladder, and dies into the stream's dead-letter stream, where a consumer *)
(* may take it up again.  A subject or pattern is the sequence of its      *)
(* tokens; a stream name is its length and its number of .dlq suffixes.    *)
(***************************************************************************)
EXTENDS Naturals, Sequences

CONSTANTS
    Literals,       \* ordinary tokens
    MaxTokens,      \* subject.MaxTokens
    Names,          \* stream names a caller tries
    PatternSets,    \* what a caller gives as subjects or as filters
    Configs,        \* consumer configurations a caller tries
    AckWaitCap,     \* ConsumerLimits.MaxAckWait
    DeliverCap,     \* maxDeliverCap
    LadderCap,      \* ConsumerLimits.MaxBackoffEntries
    NakDelays,      \* explicit delays a handler asks for
    MaxNakDelay,
    AttemptBound    \* bound on the attempts of an unlimited consumer

\* What a subject, a pattern or a filter is made of.
Tokens == Literals \cup {"*", ">", ""}

ConstantsAssumption ==
    /\ Literals \cap {"*", ">", ""} = {}
    /\ Names \subseteq [len : Nat, dlqs : Nat]
    /\ \A ps \in PatternSets : ps \subseteq Seq(Tokens)
    /\ Configs \subseteq [filters : SUBSET Seq(Tokens), ackWait : Nat, maxDeliver : Nat,
                         backoff : Seq(Nat), policy : {"", "dlq", "drop"}]
    /\ NakDelays \subseteq Nat
    /\ {MaxTokens, AckWaitCap, DeliverCap, LadderCap, MaxNakDelay, AttemptBound} \subseteq Nat

VARIABLES
    stream,  \* the stream's name and its subject patterns
    cons,    \* the consumer's configuration, or None
    msg      \* the message

vars == <<stream, cons, msg>>

None == [none |-> TRUE]
NoMessage == [at |-> "unsent", subject |-> <<>>, attempts |-> 0, elapsed |-> 0, asked |-> 0]

Init == stream = None /\ cons = None /\ msg = NoMessage

-----------------------------------------------------------------------------
(* internal/subject *)

validSegment(seg) == seg \notin {"", "*", ">"}

\* classify: a wildcard is a whole token, of a pattern only, and > its last.
classify(seg, wildcards, last) ==
    CASE seg = "" -> FALSE
      [] seg = "*" -> wildcards
      [] seg = ">" -> wildcards /\ last
      [] OTHER -> TRUE

parse(s, wildcards) ==
    /\ Len(s) \in 1..MaxTokens
    /\ \A i \in 1..Len(s) : classify(s[i], wildcards, i = Len(s))

ParseSubject(s) == parse(s, FALSE)
ParsePattern(p) == parse(p, TRUE)

validTail(s, i) == i <= Len(s) /\ \A j \in i..Len(s) : validSegment(s[j])

\* (as a bug) > is content with no token at all.
MatchEmptyTail(p, s) ==
    \A i \in 1..Len(p) :
        IF p[i] = ">" THEN \A j \in i..Len(s) : validSegment(s[j])
        ELSE i <= Len(s) /\ p[i] \in {"*", s[i]}

\* Pattern.Match walks the pattern's tokens; > decides for the rest.
Match(p, s) ==
    LET gt == p # <<>> /\ p[Len(p)] = ">" IN
    /\ p # <<>>
    /\ \A i \in 1..Len(p) :
         IF p[i] = ">" THEN validTail(s, i)
         ELSE i <= Len(s) /\ validSegment(s[i]) /\ p[i] \in {"*", s[i]}
    /\ gt \/ Len(s) = Len(p)

ParseSet(ps) == ps # {} /\ \A p \in ps : ParsePattern(p)
SetMatch(ps, s) == \E p \in ps : Match(p, s)

-----------------------------------------------------------------------------
(* Stream names: S11 and the .dlq suffix. *)

MaxStreamNameBytes == 64
MaxNewStreamNameBytes == MaxStreamNameBytes - 4

ValidateExistingStreamName(n) == n.len \in 1..MaxStreamNameBytes

ValidateStreamName(n) == n.dlqs = 0 /\ n.len \in 1..MaxNewStreamNameBytes

DLQName(n) == [n EXCEPT !.len = @ + 4, !.dlqs = @ + 1]
IsDLQ(n) == n.dlqs > 0

ValidateStreamConfig(n, ps) == ValidateStreamName(n) /\ ParseSet(ps)

CreateStream(n, ps) ==
    /\ stream = None
    /\ ValidateStreamConfig(n, ps)
    /\ stream' = [name |-> n, subjects |-> ps]
    /\ UNCHANGED <<cons, msg>>

\* ValidatePublish: the subject parses and the stream takes it.
ValidatePublish(s) == ParseSubject(s) /\ SetMatch(stream.subjects, s)

Publish(s) ==
    /\ stream # None /\ msg.at = "unsent"
    /\ ValidatePublish(s)
    /\ msg' = [msg EXCEPT !.at = "stored", !.subject = s]
    /\ UNCHANGED <<stream, cons>>

-----------------------------------------------------------------------------
(* Consumers: configuration, the backoff ladder, the horizon. *)

DefaultDeadPolicyForStream(n) == IF IsDLQ(n) THEN "drop" ELSE "dlq"

\* (as a bug) any policy on any stream.
AnyDeadPolicy(n, policy) == TRUE

ValidateDeadPolicyForStream(n, policy) == IsDLQ(n) => policy # "dlq"

ValidateConsumerConfig(c) ==
    /\ ParseSet(c.filters)
    /\ c.ackWait \in 1..AckWaitCap
    /\ c.maxDeliver \in 0..DeliverCap
    /\ Len(c.backoff) \in 1..LadderCap

\* No dead_policy in the request: the stream's default.
Completed(c) ==
    IF c.policy = "" THEN [c EXCEPT !.policy = DefaultDeadPolicyForStream(stream.name)] ELSE c

CreateConsumer(c) ==
    /\ stream # None /\ cons = None
    /\ ValidateConsumerConfig(Completed(c))
    /\ ValidateDeadPolicyForStream(stream.name, Completed(c).policy)
    /\ cons' = Completed(c)
    /\ UNCHANGED <<stream, msg>>

\* (as a bug) the ladder is climbed one step early and falls off its end.
BackoffWraps(c, attempt) == c.backoff[(attempt % Len(c.backoff)) + 1]

\* BackoffFor: the last entry repeats.
BackoffFor(c, attempt) ==
    c.backoff[IF attempt > Len(c.backoff) THEN Len(c.backoff) ELSE attempt]

\* StandardJitter: 80 to 120 percent.
StandardJitter(d) == {(d * 4) \div 5, d, (d * 6) \div 5}

\* The wait after attempt i, and their sum; without max_deliver there is none.
Wait(c, i) == c.backoff[IF i > Len(c.backoff) THEN Len(c.backoff) ELSE i]
RetryHorizon(c) ==
    LET sum[i \in 0 .. c.maxDeliver - 1] == IF i = 0 THEN 0 ELSE sum[i - 1] + Wait(c, i)
    IN  sum[c.maxDeliver - 1]

TimeToDead(c) == c.maxDeliver * c.ackWait + RetryHorizon(c)

\* topUp admits what the filter matches, and passes over the rest.
Offer ==
    /\ cons # None /\ msg.at = "stored"
    /\ msg' = [msg EXCEPT !.at = IF SetMatch(cons.filters, msg.subject) THEN "ready" ELSE "passed"]
    /\ UNCHANGED <<stream, cons>>

Claim ==
    /\ msg.at = "ready" /\ msg.attempts < AttemptBound
    /\ msg' = [msg EXCEPT !.at = "inflight", !.attempts = @ + 1]
    /\ UNCHANGED <<stream, cons>>

\* (as a bug) one attempt too many.
OneTooMany(c, attempts) == c.maxDeliver > 0 /\ attempts > c.maxDeliver

Exhausted(c, attempts) == c.maxDeliver > 0 /\ attempts >= c.maxDeliver

\* PlanDead: a copy under the dead-letter name, whose stream takes every
\* subject, or nothing.
Dead(held) ==
    IF cons.policy = "dlq"
    THEN /\ stream' = [name |-> DLQName(stream.name), subjects |-> {<<">">>}]
         /\ cons' = None
         /\ msg' = [NoMessage EXCEPT !.at = "stored", !.subject = msg.subject]
    ELSE msg' = [msg EXCEPT !.at = "dead", !.elapsed = @ + held] /\ UNCHANGED <<stream, cons>>

Released(held, delay, asked) ==
    /\ msg' = [msg EXCEPT !.at = "ready", !.elapsed = @ + held + delay, !.asked = @ + asked]
    /\ UNCHANGED <<stream, cons>>

\* ReleaseDelay: an explicit delay within its bound is taken as it is.
ReleaseDelay(held) ==
    \/ \E d \in StandardJitter(BackoffFor(cons, msg.attempts)) : Released(held, d, 0)
    \/ \E d \in NakDelays : d <= MaxNakDelay /\ Released(held, d, d)

Nak ==
    /\ msg.at = "inflight"
    /\ \E held \in {0, cons.ackWait} :
         IF Exhausted(cons, msg.attempts) THEN Dead(held) ELSE ReleaseDelay(held)

\* DecideSweep: the lease ran out.
DecideSweep ==
    /\ msg.at = "inflight"
    /\ IF Exhausted(cons, msg.attempts) THEN Dead(cons.ackWait)
       ELSE \E d \in StandardJitter(BackoffFor(cons, msg.attempts)) : Released(cons.ackWait, d, 0)

Term == msg.at = "inflight" /\ Dead(0)

-----------------------------------------------------------------------------
Strings(n) == UNION {[1..k -> Tokens] : k \in 1..n}

Next ==
    \/ \E n \in Names, ps \in PatternSets : CreateStream(n, ps)
    \/ \E s \in Strings(MaxTokens + 1) : Publish(s)
    \/ \E c \in Configs : CreateConsumer(c)
    \/ Offer \/ Claim \/ Nak \/ DecideSweep \/ Term

Spec == Init /\ [][Next]_vars

-----------------------------------------------------------------------------
\* The subjects a pattern stands for, built from rules S5 to S9 of the package
\* comment: * is one token, > one or more, at the end.
Language(p) ==
    {s \in UNION {[1..k -> Literals] : k \in 1..MaxTokens} :
        \E tail \in 0..Len(s) :
            IF p[Len(p)] = ">"
            THEN /\ tail >= 1 /\ Len(s) - tail = Len(p) - 1
                 /\ \A i \in 1 .. Len(p) - 1 : p[i] = "*" \/ p[i] = s[i]
            ELSE /\ tail = 0 /\ Len(s) = Len(p)
                 /\ \A i \in 1..Len(p) : p[i] = "*" \/ p[i] = s[i]}

Accepts(ps) == UNION {Language(p) : p \in ps}

\* A message is in the stream and before the consumer exactly when its subject
\* is in the languages of both patterns (subject.go: Pattern.Match, parse).
RoutedBySubject ==
    msg.at # "unsent" =>
        /\ msg.subject \in Accepts(stream.subjects)
        /\ msg.at \in {"ready", "inflight", "dead"} => msg.subject \in Accepts(cons.filters)
        /\ msg.at = "passed" => msg.subject \notin Accepts(cons.filters)

\* Whatever dies, the name its copy goes to is a legal stream name, and a
\* dead-letter stream has no dead-letter stream of its own (name.go, dlq.go:
\* MaxNewStreamNameBytes leaves room for the suffix, consumers of a .dlq
\* stream only drop).
DeadLettersEnd ==
    stream # None => ValidateExistingStreamName(stream.name) /\ stream.name.dlqs <= 1

\* A limited consumer never sees more than max_deliver attempts, and a message
\* nobody delays on request is dead within TimeToDead and the jitter's fifth of
\* the horizon (consumer.go: RetryHorizon, TimeToDead; backoff.go).
DeadInTime ==
    cons # None /\ msg.at \in {"ready", "inflight", "dead"} /\ cons.maxDeliver > 0 =>
        /\ msg.attempts <= cons.maxDeliver
        /\ msg.elapsed <= TimeToDead(cons) + RetryHorizon(cons) \div 5 + msg.asked
=============================================================================
