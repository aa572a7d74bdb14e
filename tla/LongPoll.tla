------------------------------ MODULE LongPoll ------------------------------
(***************************************************************************)
(* The long-poll fetch: the waiter registry (internal/api/waiters.go), the *)
(* handler that parks on it (internal/api/fetch.go), the sweeper goroutine *)
(* that wakes it (internal/store/sweeper.go) and the shutdown that         *)
(* releases it (internal/api/server.go).                                   *)
(*                                                                         *)
(* What a fetch does to the tables is module Delivery; here a message is   *)
(* only as far as a poll can tell: beyond the scan window, in the window,  *)
(* due, hidden until later, leased or settled.  Every poll asks for one    *)
(* message.  The registry is split into shards by stream, each with its    *)
(* lock; the counter `total` is shared by all of them.                     *)
(***************************************************************************)
EXTENDS Integers, FiniteSets, Sequences

CONSTANTS
    Streams,         \* streams, each in a shard of its own
    Consumers,       \* queue.ConsumerKey
    Polls,           \* fetch requests, one long poll each
    Messages,
    StreamOf,        \* consumer -> its stream
    Target,          \* poll -> the consumer it fetches from
    Owner,           \* message -> the consumer it is for
    MaxWaiters,      \* --max-waiters
    MaxPerConsumer,  \* --max-waiters-per-consumer
    MaxAckPending,   \* the consumers' bound on open deliveries
    WakeBatch,       \* the 256 keys wakeDue looks at per tick
    EventDepth,      \* room in the fan-out channel of the writer
    NoWait,          \* polls with wait_ms 0
    Remote,          \* messages that may have a whole scan window before them
    Faults           \* what else may happen: "gone", "busy", "stop"

ASSUME ConstantsAssumption ==
    /\ IsFiniteSet(Streams) /\ IsFiniteSet(Polls)
    /\ StreamOf \in [Consumers -> Streams]
    /\ Target \in [Polls -> Consumers] /\ Owner \in [Messages -> Consumers]
    /\ {MaxWaiters, MaxPerConsumer, MaxAckPending, WakeBatch, EventDepth} \subseteq Nat \ {0}
    /\ Remote \subseteq Messages /\ NoWait \subseteq Polls
    /\ Faults \subseteq {"gone", "busy", "stop"}

VARIABLES
    pc,          \* poll -> where the handler is
    channel,     \* poll -> its waiter's channel: "empty", "full" or "closed"
    damped,      \* polls past their first attempt: the next park is the damper
    spent,       \* polls whose deadline has passed
    registered,  \* polls whose waiter is in some shard's byKey
    total,       \* Registry.total
    msg,         \* message -> what a fetch would find of it
    events,      \* committed msg.publish events in the fan-out channel
    owed,        \* consumers whose naks are committed and whose Wake is not called yet
    sweeper,     \* where the sweeper is in step
    keys,        \* keys step still has to wake or to look at
    closing,     \* Server.closing is closed
    shards,      \* shards ReleaseAll has not emptied yet
    server,      \* where Server.Serve is
    silent       \* history: messages that came into reach with no wake source told

registry == <<registered, total>>
work == <<msg, events, owed, silent>>
sweep == <<sweeper, keys>>
down == <<closing, shards, server>>
handler == <<pc, damped, spent>>
vars == <<pc, channel, damped, spent, registered, total, msg, events,
          owed, sweeper, keys, closing, shards, server, silent>>

Places == {"unborn", "far", "near", "due", "later", "leased", "settled"}

\* One type invariant for the module.
TypeOK ==
    /\ pc \in [Polls -> {"start", "locked", "fetching", "parked", "answered", "closed"}]
    /\ channel \in [Polls -> {"empty", "full", "closed"}]
    /\ damped \subseteq Polls /\ spent \subseteq Polls /\ registered \subseteq Polls
    /\ total \in -Cardinality(Polls) .. Cardinality(Polls)
    /\ msg \in [Messages -> Places]
    /\ owed \subseteq Consumers /\ keys \subseteq Consumers
    /\ events \in Seq(Messages) /\ Len(events) <= EventDepth
    /\ sweeper \in {"idle", "waking", "looking", "stopped"}
    /\ closing \in BOOLEAN /\ shards \subseteq Streams
    /\ server \in {"serving", "releasing", "draining", "returned"}
    /\ silent \subseteq Messages

Init ==
    /\ pc = [p \in Polls |-> "start"]
    /\ channel = [p \in Polls |-> "empty"]
    /\ damped = {} /\ spent = NoWait /\ registered = {} /\ total = 0
    /\ msg = [m \in Messages |-> "unborn"]
    /\ events = <<>> /\ owed = {} /\ silent = {}
    /\ sweeper = "idle" /\ keys = {}
    /\ closing = FALSE /\ shards = {} /\ server = "serving"

-----------------------------------------------------------------------------
(* The registry.                                                             *)

ShardOf(c) == StreamOf[c]

\* A shard's mutex is held only across the two reads and the write of Subscribe:
\* every other operation on a shard is one step.
Unlocked(s) == \A p \in Polls : pc[p] = "locked" => ShardOf(Target[p]) # s

WaitersOf(c) == {p \in registered : Target[p] = c}

SubscribeRefusedLate(c) == total > MaxWaiters \/ Cardinality(WaitersOf(c)) >= MaxPerConsumer

\* The refusals of Subscribe: the process-wide cap, then the consumer's.
SubscribeRefused(c) == total >= MaxWaiters \/ Cardinality(WaitersOf(c)) >= MaxPerConsumer

\* What a non-blocking send into the waiters' one-slot channels leaves there.
Signalled(woken) ==
    [p \in Polls |-> IF p \in woken /\ channel[p] = "empty" THEN "full" ELSE channel[p]]

Wake(c) == channel' = Signalled(WaitersOf(c))

WakeMatchingNone(m) == UNCHANGED channel

\* Publish and wakeMatching: a msg.publish event wakes the waiters of its stream
\* whose filters match.
WakeMatching(m) == channel' = Signalled(WaitersOf(Owner[m]))

Waiting == IF total = 0 THEN {} ELSE {Target[p] : p \in registered}

-----------------------------------------------------------------------------
(* The fetch command, as far as a poll sees it.                              *)

Of(c) == {m \in Messages : Owner[m] = c}
At(c, places) == {m \in Of(c) : msg[m] \in places}
Pending(c) == At(c, {"due", "later", "leased"})

\* Top-up: the window's messages become delivery rows, as many as the bound
\* leaves room for; a message behind a whole window of others comes into it.
ToppedUp(c, admitted) ==
    [m \in Messages |-> CASE m \in admitted -> "due"
                          [] m \in At(c, {"far"}) -> "near"
                          [] OTHER -> msg[m]]

Admissible(c) ==
    LET room == MaxAckPending - Cardinality(Pending(c))
        near == At(c, {"near"})
    IN  {s \in SUBSET near : Cardinality(s) = IF Cardinality(near) <= room
                                              THEN Cardinality(near) ELSE room}

\* Why a fetch came back short, after its claims.
FetchHold(c, after, claimed) ==
    LET open == {m \in Of(c) : after[m] \in {"due", "later", "leased"}}
    IN  CASE claimed # {} -> "none"
          [] claimed = {} /\ Cardinality(open) >= MaxAckPending -> "flow_control"
          [] claimed = {} /\ open = {} /\ (\E m \in Of(c) : after[m] = "near") -> "catching_up"
          [] claimed = {} /\ open = {} /\ (\A m \in Of(c) : after[m] # "near") -> "empty"
          [] OTHER -> "none"

\* fetchCmd.Apply: a consumer at its bound is not topped up, then the first due
\* message is claimed.  (A paused consumer is answered at once: its polls never
\* park, and module Delivery has what its fetches leave alone.)
Claim(c, rows, claimed) ==
    LET after == [m \in Messages |-> IF m \in claimed THEN "leased" ELSE rows[m]]
    IN  [after |-> after, claimed |-> claimed, hold |-> FetchHold(c, after, claimed)]

Claims(c, rows) ==
    LET due == {m \in Of(c) : rows[m] = "due"}
    IN  IF due = {} THEN {Claim(c, rows, {})} ELSE {Claim(c, rows, {m}) : m \in due}

Apply(c) ==
    IF Cardinality(Pending(c)) >= MaxAckPending THEN Claims(c, msg)
    ELSE UNION {Claims(c, ToppedUp(c, admitted)) : admitted \in Admissible(c)}

-----------------------------------------------------------------------------
(* handleFetchConsumer.                                                      *)

\* Requests that fail validation never reach the registry and are left out.
SubscribeCheck(p) ==
    /\ pc[p] = "start" /\ server # "returned"
    /\ Unlocked(ShardOf(Target[p]))
    /\ pc' = [pc EXCEPT ![p] = IF SubscribeRefused(Target[p]) THEN "closed" ELSE "locked"]
    /\ UNCHANGED <<channel, damped, spent, registry, work, sweep, down>>

SubscribeInsert(p) ==
    /\ pc[p] = "locked"
    /\ registered' = registered \cup {p}
    /\ total' = total + 1
    /\ pc' = [pc EXCEPT ![p] = "fetching"]
    /\ UNCHANGED <<channel, damped, spent, work, sweep, down>>

\* A response is written, or the client that would read it has gone.
Answered(p) == pc' = [pc EXCEPT ![p] = "answered"]

\* Work, flow control, which parking cannot cure, or a spent budget end the poll;
\* anything else parks it.
Fetch(p) ==
    /\ pc[p] = "fetching"
    /\ \E res \in Apply(Target[p]) :
         /\ msg' = res.after
         /\ silent' = (silent \cup {m \in Messages : msg[m] = "far" /\ res.after[m] = "near"})
                        \ res.claimed
         /\ IF res.claimed # {} \/ res.hold = "flow_control" \/ p \in spent
            THEN Answered(p)
            ELSE pc' = [pc EXCEPT ![p] = "parked"]
    /\ UNCHANGED <<channel, damped, spent, registry, events, owed, sweep, down>>

\* The writer refused the command, or the submit timeout cut the wait short: the
\* claim may then be committed all the same.
FetchFails(p) ==
    /\ "busy" \in Faults \/ server = "returned"
    /\ pc[p] = "fetching"
    /\ \/ msg' = msg /\ silent' = silent
       \/ \E m \in At(Target[p], {"due"}) :
            msg' = [msg EXCEPT ![m] = "leased"] /\ silent' = silent \ {m}
    /\ Answered(p)
    /\ UNCHANGED <<channel, damped, spent, registry, events, owed, sweep, down>>

\* The arms of the park's select.
Woken(p) ==
    /\ pc[p] = "parked" /\ channel[p] # "empty"
    /\ IF channel[p] = "closed"
       THEN Answered(p) /\ UNCHANGED <<channel, damped>>
       ELSE /\ pc' = [pc EXCEPT ![p] = "fetching"]
            /\ channel' = [channel EXCEPT ![p] = "empty"]
            /\ damped' = damped \cup {p}
    /\ UNCHANGED <<spent, registry, work, sweep, down>>

\* The first park lasts until the deadline, since nextVisibleAt finds no row;
\* the later ones last for the damper.
TimerFires(p) ==
    /\ pc[p] = "parked" /\ (p \in spent \/ p \in damped)
    /\ pc' = [pc EXCEPT ![p] = "fetching"]
    /\ damped' = damped \cup {p}
    /\ UNCHANGED <<channel, spent, registry, work, sweep, down>>

ClientGone(p) ==
    /\ "gone" \in Faults
    /\ pc[p] = "parked"
    /\ Answered(p)
    /\ UNCHANGED <<channel, damped, spent, registry, work, sweep, down>>

SeesClosingNever(p) == pc[p] = "parked" /\ FALSE /\ UNCHANGED vars

SeesClosing(p) ==
    /\ pc[p] = "parked" /\ closing
    /\ Answered(p)
    /\ UNCHANGED <<channel, damped, spent, registry, work, sweep, down>>

\* The handler's locals and its channel die with it.
HandlerReturns(p) ==
    /\ pc' = [pc EXCEPT ![p] = "closed"]
    /\ channel' = [channel EXCEPT ![p] = "empty"]
    /\ damped' = damped \ {p} /\ spent' = spent \ {p}

CloseLeavesWaiter(p) ==
    /\ pc[p] = "answered" /\ Unlocked(ShardOf(Target[p]))
    /\ total' = total - 1
    /\ HandlerReturns(p)
    /\ UNCHANGED <<registered, work, sweep, down>>

Close(p) ==
    /\ pc[p] = "answered" /\ Unlocked(ShardOf(Target[p]))
    /\ registered' = registered \ {p}
    /\ total' = total - 1
    /\ HandlerReturns(p)
    /\ UNCHANGED <<work, sweep, down>>

DeadlinePasses(p) ==
    /\ pc[p] \in {"fetching", "parked"} /\ p \notin spent
    /\ spent' = spent \cup {p}
    /\ UNCHANGED <<pc, channel, damped, registry, work, sweep, down>>

-----------------------------------------------------------------------------
(* Where work comes from.                                                    *)

\* A publish commits; its event enters the fan-out channel, or is dropped when
\* the channel is full.
Publish(m) ==
    /\ msg[m] = "unborn" /\ server # "returned"
    /\ \E place \in {"near"} \cup (IF m \in Remote THEN {"far"} ELSE {}) :
         msg' = [msg EXCEPT ![m] = place]
    /\ IF Len(events) < EventDepth
       THEN events' = Append(events, m) /\ UNCHANGED silent
       ELSE silent' = silent \cup {m} /\ UNCHANGED events
    /\ UNCHANGED <<handler, channel, registry, owed, sweep, down>>

\* The pump hands an event to the registry.
Deliver ==
    /\ events # <<>> /\ Unlocked(ShardOf(Owner[Head(events)]))
    /\ WakeMatching(Head(events))
    /\ events' = Tail(events)
    /\ UNCHANGED <<handler, registry, msg, owed, silent, sweep, down>>

Ack(m) ==
    /\ msg[m] = "leased"
    /\ msg' = [msg EXCEPT ![m] = "settled"]
    /\ UNCHANGED <<handler, channel, registry, events, owed, silent, sweep, down>>

\* A nak is visible at once, and then the settle handler owes a Wake, or later.
Nak(m) ==
    /\ msg[m] = "leased"
    /\ \/ msg' = [msg EXCEPT ![m] = "due"] /\ owed' = owed \cup {Owner[m]}
       \/ msg' = [msg EXCEPT ![m] = "later"] /\ UNCHANGED owed
    /\ UNCHANGED <<handler, channel, registry, events, silent, sweep, down>>

WakeAfterNak(c) ==
    /\ c \in owed /\ Unlocked(ShardOf(c))
    /\ Wake(c)
    /\ owed' = owed \ {c}
    /\ UNCHANGED <<handler, registry, msg, events, silent, sweep, down>>

\* A delay runs out.
ComesDue(m) ==
    /\ msg[m] = "later"
    /\ msg' = [msg EXCEPT ![m] = "due"]
    /\ UNCHANGED <<handler, channel, registry, events, owed, silent, sweep, down>>

-----------------------------------------------------------------------------
(* The sweeper goroutine: probe and sweep, wake what was released, then look  *)
(* at the keys that wait.                                                     *)

\* Which leases have expired is the clock's business: any of them may have.
Sweep ==
    /\ sweeper = "idle"
    /\ \E expired \in SUBSET {m \in Messages : msg[m] = "leased"} :
         /\ msg' = [m \in Messages |-> IF m \in expired THEN "due" ELSE msg[m]]
         /\ keys' = {Owner[m] : m \in expired}
    /\ sweeper' = "waking"
    /\ UNCHANGED <<handler, channel, registry, events, owed, silent, down>>

\* wakeDue takes the first WakeBatch keys of Waiting.
FirstKeys(all) ==
    IF Cardinality(all) <= WakeBatch THEN {all}
    ELSE {s \in SUBSET all : Cardinality(s) = WakeBatch}

\* wake, one key after the other, and then the snapshot of who waits.
SweepWakes ==
    /\ sweeper = "waking" /\ \A c \in keys : Unlocked(ShardOf(c))
    /\ channel' = Signalled(UNION {WaitersOf(c) : c \in keys})
    /\ keys' \in FirstKeys(Waiting)
    /\ sweeper' = "looking"
    /\ UNCHANGED <<handler, registry, work, down>>

\* A key of the snapshot with a READY row that is due is woken.
WakeDue ==
    /\ sweeper = "looking" /\ \A c \in keys : Unlocked(ShardOf(c))
    /\ channel' = Signalled(UNION {WaitersOf(c) : c \in {k \in keys : At(k, {"due"}) # {}}})
    /\ keys' = {}
    /\ sweeper' = IF closing THEN "stopped" ELSE "idle"
    /\ UNCHANGED <<handler, registry, work, down>>

-----------------------------------------------------------------------------
(* Server.Serve when its context is done, and ReleaseAll.                    *)

BeginShutdown ==
    /\ "stop" \in Faults
    /\ server = "serving"
    /\ closing' = TRUE /\ shards' = Streams /\ server' = "releasing"
    /\ UNCHANGED <<handler, channel, registry, work, sweep>>

ReleaseShard(s) ==
    /\ server = "releasing" /\ s \in shards /\ Unlocked(s)
    /\ LET released == {p \in registered : ShardOf(Target[p]) = s}
       IN  /\ channel' = [p \in Polls |-> IF p \in released THEN "closed" ELSE channel[p]]
           /\ registered' = registered \ released
    /\ shards' = shards \ {s}
    /\ UNCHANGED <<handler, total, work, sweep, closing, server>>

ReleaseDone ==
    /\ server = "releasing" /\ shards = {}
    /\ total' = 0
    /\ server' = "draining"
    /\ UNCHANGED <<handler, channel, registered, work, sweep, closing, shards>>

\* http.Server.Shutdown waits for the handlers or runs into its timeout.
ShutdownReturns ==
    /\ server = "draining"
    /\ server' = "returned"
    /\ UNCHANGED <<handler, channel, registry, work, sweep, closing, shards>>

-----------------------------------------------------------------------------
PollSteps(p) ==
    SubscribeCheck(p) \/ SubscribeInsert(p) \/ Fetch(p) \/ FetchFails(p) \/ Woken(p)
    \/ TimerFires(p) \/ SeesClosing(p) \/ Close(p)
SweeperSteps ==
    Sweep \/ SweepWakes \/ WakeDue
ShutdownSteps ==
    ReleaseDone \/ ShutdownReturns \/ \E s \in Streams : ReleaseShard(s)

Next ==
    \/ \E p \in Polls : PollSteps(p) \/ ClientGone(p) \/ DeadlinePasses(p)
    \/ \E m \in Messages : Publish(m) \/ Ack(m) \/ Nak(m) \/ ComesDue(m)
    \/ \E c \in Consumers : WakeAfterNak(c)
    \/ Deliver \/ SweeperSteps \/ BeginShutdown \/ ShutdownSteps

\* The handlers, the pump, the sweeper's ticker and the settle handler that owes
\* a wake are running goroutines; no fairness moves a deadline, so a poll that
\* is woken only by its deadline may stay parked for good.
Fairness ==
    /\ \A p \in Polls : WF_vars(PollSteps(p))
    /\ WF_vars(Deliver) /\ WF_vars(SweeperSteps) /\ WF_vars(ShutdownSteps)
    /\ WF_vars(\E c \in Consumers : WakeAfterNak(c))

Spec == Init /\ [][Next]_vars /\ Fairness

-----------------------------------------------------------------------------
\* Until the server shuts down, the counter that Waiting trusts is the number
\* of waiters in the shards: no interleaving of Subscribe, Close and Wake on
\* different shards lets the sweeper believe that nobody waits.
CountMatchesWaiters ==
    server = "serving" => total = Cardinality(registered)

\* The process-wide cap is read under one shard's lock and raised under it, so
\* subscriptions in different shards may pass it together: by at most one for
\* every shard but one.
CapOvershoot ==
    server = "serving" => Cardinality(registered) <= MaxWaiters + Cardinality(Streams) - 1

\* The counter is the number of waiters and the cap holds up to the overshoot
\* (waiters.go: Registry.Subscribe, Close, Wake, ReleaseAll).
RegistryCounts == TypeOK /\ CountMatchesWaiters /\ CapOvershoot

Reachable(m) == msg[m] \in {"near", "due"}

\* A message that was published in reach, released by a nak, or came back when
\* its lease or its delay ran out does not wait for the deadline of a poll
\* parked on its consumer: the poll, or another, moves.
WakesArrive ==
    \A p \in Polls : \A m \in Of(Target[p]) :
        (pc[p] = "parked" /\ Reachable(m) /\ m \notin silent)
            ~> (pc[p] # "parked" \/ ~Reachable(m) \/ m \in silent)

\* Once shutdown has begun every long poll that started is answered, whether
\* it subscribed before, during or after ReleaseAll.
ShutdownAnswers ==
    \A p \in Polls : (closing /\ pc[p] # "start") ~> (pc[p] = "closed")

\* Stated by docs/adr/0003-protocol-http-json.md: a fetch parks until a message
\* arrives or wait_ms elapses.  A poll that parks while a matching message is
\* already in the stream moves without its deadline.
ParksUntilMessage ==
    \A p \in Polls : \A m \in Of(Target[p]) :
        (pc[p] = "parked" /\ msg[m] = "near")
            ~> (pc[p] # "parked" \/ msg[m] # "near")

=============================================================================
