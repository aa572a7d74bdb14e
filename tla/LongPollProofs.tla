---------------------------- MODULE LongPollProofs ----------------------------
(***************************************************************************)
(* Proofs about LongPoll: the waiter registry's counter is the number of   *)
(* its waiters, and the cap is passed by at most one waiter for every      *)
(* shard but one, for any number of polls, streams and consumers.          *)
(***************************************************************************)
EXTENDS LongPoll, FiniteSetTheorems, TLAPS

-----------------------------------------------------------------------------
(* The inductive invariant. *)

\* The polls whose Subscribe has taken its lock, those it has inserted and whose
\* Close has not run, and both.
Locked == {p \in Polls : pc[p] = "locked"}
Live == {p \in Polls : pc[p] \in {"fetching", "parked", "answered"}}

\* A shard's mutex has one holder.
MutexInv ==
    \A p, q \in Locked : ShardOf(Target[p]) = ShardOf(Target[q]) => p = q

\* The counter follows the polls that live, from zero again after ReleaseAll;
\* until the server shuts down these are the polls registered.
CountInv ==
    /\ Cardinality(Live) - Cardinality(Polls) <= total /\ total <= Cardinality(Live)
    /\ server = "serving" => registered = Live /\ total = Cardinality(Live)

\* The waiters and those about to be.
CapInv ==
    server = "serving" =>
        Cardinality(Live \cup Locked) <= MaxWaiters + Cardinality(Streams) - 1

\* TypeOK but for the counter.
Shapes ==
    /\ pc \in [Polls -> {"start", "locked", "fetching", "parked", "answered", "closed"}]
    /\ channel \in [Polls -> {"empty", "full", "closed"}]
    /\ damped \subseteq Polls /\ spent \subseteq Polls /\ registered \subseteq Polls
    /\ total \in Int
    /\ msg \in [Messages -> Places]
    /\ owed \subseteq Consumers /\ keys \subseteq Consumers
    /\ events \in Seq(Messages) /\ Len(events) <= EventDepth
    /\ sweeper \in {"idle", "waking", "looking", "stopped"}
    /\ closing \in BOOLEAN /\ shards \subseteq Streams
    /\ server \in {"serving", "releasing", "draining", "returned"}
    /\ silent \subseteq Messages

IInv == Shapes /\ MutexInv /\ CountInv /\ CapInv

-----------------------------------------------------------------------------
(* Types. *)

LEMMA FetchTypes ==
  ASSUME Shapes, NEW c \in Consumers, NEW res \in Apply(c)
  PROVE  res.after \in [Messages -> Places]
  <1>1. ASSUME NEW rows \in [Messages -> Places], NEW r \in Claims(c, rows)
        PROVE  r.after \in [Messages -> Places]
    <2>1. PICK claimed : r = Claim(c, rows, claimed)  BY <1>1 DEF Claims
    <2>2. r.after = [m \in Messages |-> IF m \in claimed THEN "leased" ELSE rows[m]]
      BY <2>1 DEF Claim
    <2> QED  BY <2>2 DEF Places
  <1>2. \A admitted : ToppedUp(c, admitted) \in [Messages -> Places]
    BY DEF ToppedUp, Places, Shapes
  <1>3. CASE res \in Claims(c, msg)  BY <1>1, <1>3 DEF Shapes
  <1>4. ASSUME NEW admitted, res \in Claims(c, ToppedUp(c, admitted))
        PROVE  res.after \in [Messages -> Places]
    BY <1>1, <1>2, <1>4
  <1> QED  BY <1>3, <1>4 DEF Apply

LEMMA SignalledType ==
  ASSUME Shapes, NEW woken
  PROVE  Signalled(woken) \in [Polls -> {"empty", "full", "closed"}]
  BY DEF Signalled, Shapes

LEMMA PollShapes ==
  ASSUME Shapes, NEW p \in Polls, PollSteps(p) \/ ClientGone(p) \/ DeadlinePasses(p)
  PROVE  Shapes'
  <1> USE ConstantsAssumption DEF Shapes
  <1>1. CASE SubscribeCheck(p)
    BY <1>1 DEF SubscribeCheck, registry, work, sweep, down
  <1>2. CASE SubscribeInsert(p)
    BY <1>2 DEF SubscribeInsert, work, sweep, down
  <1>3. CASE Fetch(p)
    <2>1. PICK res \in Apply(Target[p]) :
             /\ msg' = res.after
             /\ silent' = (silent \cup {m \in Messages : msg[m] = "far" /\ res.after[m] = "near"})
                            \ res.claimed
             /\ \/ pc' = [pc EXCEPT ![p] = "answered"]
                \/ pc' = [pc EXCEPT ![p] = "parked"]
      BY <1>3 DEF Fetch, Answered
    <2>2. msg' \in [Messages -> Places]  BY <2>1, FetchTypes
    <2>3. silent' \subseteq Messages  BY <2>1
    <2>4. pc' \in [Polls -> {"start", "locked", "fetching", "parked", "answered", "closed"}]
      BY <2>1
    <2> QED  BY <1>3, <2>2, <2>3, <2>4 DEF Fetch, registry, sweep, down
  <1>4. CASE FetchFails(p)
    <2>1. msg' \in [Messages -> Places] /\ silent' \subseteq Messages
      BY <1>4 DEF FetchFails, At, Of, Places
    <2> QED  BY <1>4, <2>1 DEF FetchFails, Answered, registry, sweep, down
  <1>5. CASE Woken(p)
    BY <1>5 DEF Woken, Answered, registry, work, sweep, down
  <1>6. CASE TimerFires(p)
    BY <1>6 DEF TimerFires, registry, work, sweep, down
  <1>7. CASE SeesClosing(p)
    BY <1>7 DEF SeesClosing, Answered, registry, work, sweep, down
  <1>8. CASE Close(p)
    BY <1>8 DEF Close, HandlerReturns, work, sweep, down
  <1>9. CASE ClientGone(p)
    BY <1>9 DEF ClientGone, Answered, registry, work, sweep, down
  <1>10. CASE DeadlinePasses(p)
    BY <1>10 DEF DeadlinePasses, registry, work, sweep, down
  <1> QED
    BY <1>1, <1>2, <1>3, <1>4, <1>5, <1>6, <1>7, <1>8, <1>9, <1>10 DEF PollSteps

LEMMA MessageShapes ==
  ASSUME Shapes, NEW m \in Messages, Publish(m) \/ Ack(m) \/ Nak(m) \/ ComesDue(m)
  PROVE  Shapes'
  <1> USE ConstantsAssumption DEF Shapes
  <1>1. CASE Publish(m)
    <2>1. msg' \in [Messages -> Places]  BY <1>1 DEF Publish, Places
    <2>2. silent' \subseteq Messages  BY <1>1 DEF Publish
    <2>3. events' \in Seq(Messages) /\ Len(events') <= EventDepth
      <3>1. CASE events' = events  BY <3>1
      <3>2. CASE events' = Append(events, m) /\ Len(events) < EventDepth
        <4>1. Len(Append(events, m)) = Len(events) + 1  OBVIOUS
        <4>2. EventDepth \in Nat /\ Len(events) \in Nat  OBVIOUS
        <4>3. Append(events, m) \in Seq(Messages)  OBVIOUS
        <4> QED  BY <3>2, <4>1, <4>2, <4>3
      <3> QED  BY <1>1, <3>1, <3>2 DEF Publish
    <2> QED  BY <1>1, <2>1, <2>2, <2>3 DEF Publish, handler, registry, sweep, down
  <1>2. CASE Ack(m)
    BY <1>2 DEF Ack, Places, handler, registry, sweep, down
  <1>3. CASE Nak(m)
    <2>1. msg' \in [Messages -> Places] /\ owed' \subseteq Consumers
      BY <1>3 DEF Nak, Places
    <2> QED  BY <1>3, <2>1 DEF Nak, handler, registry, sweep, down
  <1>4. CASE ComesDue(m)
    BY <1>4 DEF ComesDue, Places, handler, registry, sweep, down
  <1> QED  BY <1>1, <1>2, <1>3, <1>4

LEMMA OtherShapes ==
  ASSUME Shapes,
         \/ \E c \in Consumers : WakeAfterNak(c)
         \/ Deliver \/ SweeperSteps \/ BeginShutdown \/ ShutdownSteps
  PROVE  Shapes'
  <1> USE ConstantsAssumption DEF Shapes
  <1>1. ASSUME NEW c \in Consumers, WakeAfterNak(c) PROVE Shapes'
    BY <1>1, SignalledType DEF WakeAfterNak, Wake, handler, registry, sweep, down
  <1>2. CASE Deliver
    <2>1. channel' \in [Polls -> {"empty", "full", "closed"}]
      BY <1>2, SignalledType DEF Deliver, WakeMatching
    <2>2. events' \in Seq(Messages) /\ Len(events') <= EventDepth
      <3>1. events # <<>> /\ events' = Tail(events)  BY <1>2 DEF Deliver
      <3>2. Len(Tail(events)) = Len(events) - 1  BY <3>1
      <3>3. EventDepth \in Nat /\ Len(events) \in Nat  OBVIOUS
      <3>4. Tail(events) \in Seq(Messages)  BY <3>1
      <3> QED  BY <3>1, <3>2, <3>3, <3>4
    <2> QED  BY <1>2, <2>1, <2>2 DEF Deliver, handler, registry, sweep, down
  <1>3. CASE Sweep
    <2>1. PICK expired \in SUBSET {m \in Messages : msg[m] = "leased"} :
             /\ msg' = [m \in Messages |-> IF m \in expired THEN "due" ELSE msg[m]]
             /\ keys' = {Owner[m] : m \in expired}
      BY <1>3 DEF Sweep
    <2>2. msg' \in [Messages -> Places]  BY <2>1 DEF Places
    <2>3. keys' \subseteq Consumers  BY <2>1
    <2> QED  BY <1>3, <2>2, <2>3 DEF Sweep, handler, registry, down
  <1>4. CASE SweepWakes
    <2>1. keys' \subseteq Waiting  BY <1>4 DEF SweepWakes, FirstKeys
    <2>2. Waiting \subseteq Consumers  BY DEF Waiting
    <2> QED
      BY <1>4, <2>1, <2>2, SignalledType DEF SweepWakes, handler, registry, work, down
  <1>5. CASE WakeDue
    <2>1. channel' \in [Polls -> {"empty", "full", "closed"}]
      BY <1>5, SignalledType DEF WakeDue
    <2> QED  BY <1>5, <2>1 DEF WakeDue, handler, registry, work, down
  <1>6. CASE BeginShutdown
    BY <1>6 DEF BeginShutdown, handler, registry, work, sweep
  <1>7. ASSUME NEW s \in Streams, ReleaseShard(s) PROVE Shapes'
    <2>1. channel' \in [Polls -> {"empty", "full", "closed"}] /\ registered' \subseteq Polls
      BY <1>7 DEF ReleaseShard
    <2> QED  BY <1>7, <2>1 DEF ReleaseShard, handler, work, sweep
  <1>8. CASE ReleaseDone
    BY <1>8 DEF ReleaseDone, handler, work, sweep
  <1>9. CASE ShutdownReturns
    BY <1>9 DEF ShutdownReturns, handler, registry, work, sweep
  <1> QED
    BY <1>1, <1>2, <1>3, <1>4, <1>5, <1>6, <1>7, <1>8, <1>9 DEF SweeperSteps, ShutdownSteps

LEMMA ShapesStep == ASSUME Shapes, [Next]_vars PROVE Shapes'
  <1>1. CASE UNCHANGED vars  BY <1>1 DEF vars, Shapes
  <1> QED  BY <1>1, PollShapes, MessageShapes, OtherShapes DEF Next

-----------------------------------------------------------------------------
(* The counter and the cap. *)

\* As many polls as are in different shards are at most as many as the shards.
LEMMA ShardsBound ==
  ASSUME NEW S \in SUBSET Polls,
         \A p, q \in S : ShardOf(Target[p]) = ShardOf(Target[q]) => p = q
  PROVE  Cardinality(S) <= Cardinality(Streams)
  <1> USE ConstantsAssumption
  <1> DEFINE f == [p \in S |-> ShardOf(Target[p])]
  <1>1. f \in [S -> Streams]  BY DEF ShardOf
  <1>2. f \in Injection(S, Streams)  BY <1>1 DEF Injection, IsInjective
  <1> HIDE DEF f
  <1> QED  BY <1>2, FS_Injection

LEMMA Sizes ==
  ASSUME NEW S \in SUBSET Polls
  PROVE  IsFiniteSet(S) /\ Cardinality(S) \in Nat /\ Cardinality(S) <= Cardinality(Polls)
  BY ConstantsAssumption, FS_Subset, FS_CardinalityType

LEMMA LiveLocked ==
  /\ Live \in SUBSET Polls /\ Locked \in SUBSET Polls /\ Live \cap Locked = {}
  /\ Live \cup Locked \in SUBSET Polls
  BY DEF Live, Locked

\* A step that leaves the registry's polls alone keeps everything, and so does
\* one of a server that no longer serves.
LEMMA RegistryKeeps ==
  ASSUME IInv, Live' = Live, Locked' = Locked, total' = total,
         server' = "serving" => server = "serving" /\ registered' = registered
  PROVE  MutexInv' /\ CountInv' /\ CapInv'
  <1>1. MutexInv'  BY DEF IInv, MutexInv
  <1>2. CountInv'  BY DEF IInv, CountInv
  <1>3. CapInv'  BY DEF IInv, CapInv
  <1> QED  BY <1>1, <1>2, <1>3

LEMMA RegistryStep == ASSUME IInv, [Next]_vars PROVE MutexInv' /\ CountInv' /\ CapInv'
  <1> USE ConstantsAssumption
  <1>0. /\ pc \in [Polls -> {"start", "locked", "fetching", "parked", "answered", "closed"}]
        /\ total \in Int
        /\ server \in {"serving", "releasing", "draining", "returned"}
    BY DEF IInv, Shapes
  <1>n. MaxWaiters \in Nat /\ Cardinality(Streams) \in Nat /\ Cardinality(Polls) \in Nat
    BY FS_CardinalityType
  <1>1. ASSUME NEW p \in Polls, SubscribeCheck(p) PROVE MutexInv' /\ CountInv' /\ CapInv'
    <2>1. /\ pc[p] = "start" /\ Unlocked(ShardOf(Target[p]))
          /\ total' = total /\ registered' = registered /\ server' = server
      BY <1>1 DEF SubscribeCheck, registry, down
    <2>2. CASE SubscribeRefused(Target[p])
      <3>1. pc' = [pc EXCEPT ![p] = "closed"]  BY <1>1, <2>2 DEF SubscribeCheck
      <3>2. Live' = Live /\ Locked' = Locked  BY <1>0, <2>1, <3>1 DEF Live, Locked
      <3> QED  BY <2>1, <3>2, RegistryKeeps
    <2>3. CASE ~SubscribeRefused(Target[p])
      <3>1. pc' = [pc EXCEPT ![p] = "locked"]  BY <1>1, <2>3 DEF SubscribeCheck
      <3>2. Live' = Live /\ Locked' = Locked \cup {p}
        BY <1>0, <2>1, <3>1 DEF Live, Locked
      <3>3. \A q \in Locked : ShardOf(Target[q]) # ShardOf(Target[p])
        BY <2>1 DEF Unlocked, Locked
      <3>4. \A q, r \in Locked \cup {p} : ShardOf(Target[q]) = ShardOf(Target[r]) => q = r
        BY <3>3 DEF IInv, MutexInv
      <3>5. MutexInv'  BY <3>2, <3>4 DEF MutexInv
      <3>6. CountInv'  BY <2>1, <3>2 DEF IInv, CountInv
      <3>7. CapInv'
        <4> SUFFICES ASSUME server = "serving"
                     PROVE  Cardinality(Live \cup (Locked \cup {p}))
                              <= MaxWaiters + Cardinality(Streams) - 1
          BY <2>1, <3>2 DEF CapInv
        <4> DEFINE K == Locked \cup {p}
        <4>1. K \in SUBSET Polls /\ Live \in SUBSET Polls /\ Live \cap K \in SUBSET Polls
          BY LiveLocked
        <4>2. total < MaxWaiters /\ total = Cardinality(Live)
          BY <1>0, <1>n, <2>3 DEF SubscribeRefused, IInv, CountInv
        <4>3. Cardinality(K) <= Cardinality(Streams)  BY <3>4, <4>1, ShardsBound
        <4> HIDE DEF K
        <4>4. Cardinality(Live \cup K)
                = Cardinality(Live) + Cardinality(K) - Cardinality(Live \cap K)
          BY <4>1, Sizes, FS_Union
        <4>5. Cardinality(Live) \in Nat /\ Cardinality(K) \in Nat /\ Cardinality(Live \cap K) \in Nat
          BY <4>1, Sizes
        <4>6. Cardinality(Live \cup K) <= MaxWaiters + Cardinality(Streams) - 1
          BY <1>n, <4>2, <4>3, <4>4, <4>5
        <4> QED  BY <4>6 DEF K
      <3> QED  BY <3>5, <3>6, <3>7
    <2> QED  BY <2>2, <2>3
  <1>2. ASSUME NEW p \in Polls, SubscribeInsert(p) PROVE MutexInv' /\ CountInv' /\ CapInv'
    <2>1. /\ pc[p] = "locked" /\ pc' = [pc EXCEPT ![p] = "fetching"]
          /\ registered' = registered \cup {p} /\ total' = total + 1 /\ server' = server
      BY <1>2 DEF SubscribeInsert, down
    <2>2. /\ Live' = Live \cup {p} /\ p \notin Live
          /\ Locked' = Locked \ {p} /\ p \in Locked
      BY <1>0, <2>1 DEF Live, Locked
    <2>3. Cardinality(Live') = Cardinality(Live) + 1 /\ Cardinality(Live) \in Nat
      BY <2>2, LiveLocked, Sizes, FS_AddElement
    <2>4. Live' \cup Locked' = Live \cup Locked  BY <2>2
    <2>5. MutexInv'  BY <2>2 DEF IInv, MutexInv
    <2>6. CountInv'
      <3>1. Cardinality(Live') - Cardinality(Polls) <= total' /\ total' <= Cardinality(Live')
        BY <1>0, <1>n, <2>1, <2>3 DEF IInv, CountInv
      <3>2. server = "serving" => registered' = Live' /\ total' = Cardinality(Live')
        BY <2>1, <2>2, <2>3 DEF IInv, CountInv
      <3> QED  BY <2>1, <3>1, <3>2 DEF CountInv
    <2>7. CapInv'  BY <2>1, <2>4 DEF IInv, CapInv
    <2> QED  BY <2>5, <2>6, <2>7
  <1>3. ASSUME NEW p \in Polls, Close(p) PROVE MutexInv' /\ CountInv' /\ CapInv'
    <2>1. /\ pc[p] = "answered" /\ pc' = [pc EXCEPT ![p] = "closed"]
          /\ registered' = registered \ {p} /\ total' = total - 1 /\ server' = server
      BY <1>3 DEF Close, HandlerReturns, down
    <2>2. Live' = Live \ {p} /\ p \in Live /\ Locked' = Locked /\ p \notin Locked
      BY <1>0, <2>1 DEF Live, Locked
    <2>3. Cardinality(Live') = Cardinality(Live) - 1 /\ Cardinality(Live) \in Nat
      BY <2>2, LiveLocked, Sizes, FS_RemoveElement
    <2>4. MutexInv'  BY <2>2 DEF IInv, MutexInv
    <2>5. CountInv'
      <3>1. Cardinality(Live') - Cardinality(Polls) <= total' /\ total' <= Cardinality(Live')
        BY <1>0, <1>n, <2>1, <2>3 DEF IInv, CountInv
      <3>2. server = "serving" => registered' = Live' /\ total' = Cardinality(Live')
        BY <2>1, <2>2, <2>3 DEF IInv, CountInv
      <3> QED  BY <2>1, <3>1, <3>2 DEF CountInv
    <2>6. CapInv'
      <3>1. Live' \cup Locked' = (Live \cup Locked) \ {p} /\ p \in Live \cup Locked  BY <2>2
      <3>2. IsFiniteSet(Live \cup Locked) /\ Cardinality(Live \cup Locked) \in Nat
        BY LiveLocked, Sizes
      <3>3. Cardinality(Live' \cup Locked') = Cardinality(Live \cup Locked) - 1
        <4> DEFINE W == Live \cup Locked
        <4>1. IsFiniteSet(W) /\ p \in W /\ Live' \cup Locked' = W \ {p}  BY <3>1, <3>2
        <4> HIDE DEF W
        <4>2. Cardinality(W \ {p}) = Cardinality(W) - 1  BY <4>1, FS_RemoveElement
        <4>3. Cardinality(Live' \cup Locked') = Cardinality(W) - 1  BY <4>1, <4>2
        <4> QED  BY <4>3 DEF W
      <3>4. server = "serving" =>
              Cardinality(Live \cup Locked) <= MaxWaiters + Cardinality(Streams) - 1
        BY DEF IInv, CapInv
      <3>5. server = "serving" =>
              Cardinality(Live' \cup Locked') <= MaxWaiters + Cardinality(Streams) - 1
        BY <1>n, <3>2, <3>3, <3>4
      <3> QED  BY <2>1, <3>5 DEF CapInv
    <2> QED  BY <2>4, <2>5, <2>6
  <1>4. ASSUME NEW p \in Polls,
               \/ Fetch(p) \/ FetchFails(p) \/ Woken(p) \/ TimerFires(p) \/ SeesClosing(p)
               \/ ClientGone(p)
        PROVE  MutexInv' /\ CountInv' /\ CapInv'
    <2>1. pc[p] \in {"fetching", "parked"}
      BY <1>4 DEF Fetch, FetchFails, Woken, TimerFires, SeesClosing, ClientGone
    <2>2. \E at \in {"fetching", "parked", "answered"} : pc' = [pc EXCEPT ![p] = at]
      BY <1>4 DEF Fetch, FetchFails, Woken, TimerFires, SeesClosing, ClientGone, Answered
    <2>3. total' = total /\ registered' = registered /\ server' = server
      BY <1>4 DEF Fetch, FetchFails, Woken, TimerFires, SeesClosing, ClientGone, registry, down
    <2>4. Live' = Live /\ Locked' = Locked  BY <1>0, <2>1, <2>2 DEF Live, Locked
    <2> QED  BY <2>3, <2>4, RegistryKeeps
  <1>5. ASSUME pc' = pc PROVE Live' = Live /\ Locked' = Locked
    BY <1>5 DEF Live, Locked
  <1>6. CASE pc' = pc /\ total' = total /\ registered' = registered /\ server' = server
    BY <1>5, <1>6, RegistryKeeps
  <1>7. ASSUME NEW p \in Polls, DeadlinePasses(p)
        PROVE  pc' = pc /\ total' = total /\ registered' = registered /\ server' = server
    BY <1>7 DEF DeadlinePasses, registry, down
  <1>8. ASSUME NEW m \in Messages, Publish(m) \/ Ack(m) \/ Nak(m) \/ ComesDue(m)
        PROVE  pc' = pc /\ total' = total /\ registered' = registered /\ server' = server
    BY <1>8 DEF Publish, Ack, Nak, ComesDue, handler, registry, down
  <1>9. ASSUME (\E c \in Consumers : WakeAfterNak(c)) \/ Deliver \/ SweeperSteps
        PROVE  pc' = pc /\ total' = total /\ registered' = registered /\ server' = server
    BY <1>9 DEF WakeAfterNak, Deliver, SweeperSteps, Sweep, SweepWakes, WakeDue, handler,
                registry, down
  <1>10. ASSUME UNCHANGED vars
         PROVE  pc' = pc /\ total' = total /\ registered' = registered /\ server' = server
    BY <1>10 DEF vars
  <1>11. CASE BeginShutdown \/ ShutdownReturns
    <2>1. pc' = pc /\ total' = total /\ registered' = registered /\ server' # "serving"
      BY <1>11 DEF BeginShutdown, ShutdownReturns, handler, registry
    <2> QED  BY <1>5, <2>1, RegistryKeeps
  <1>12. ASSUME NEW s \in Streams, ReleaseShard(s) PROVE MutexInv' /\ CountInv' /\ CapInv'
    <2>1. pc' = pc /\ total' = total /\ server' = "releasing"
      BY <1>12 DEF ReleaseShard, handler
    <2> QED  BY <1>5, <2>1, RegistryKeeps
  <1>13. CASE ReleaseDone
    <2>1. pc' = pc /\ total' = 0 /\ server' = "draining"  BY <1>13 DEF ReleaseDone, handler
    <2>2. Live' = Live /\ Locked' = Locked  BY <1>5, <2>1
    <2>3. MutexInv'  BY <2>2 DEF IInv, MutexInv
    <2>4. Cardinality(Live) \in Nat /\ Cardinality(Live) <= Cardinality(Polls)
      BY LiveLocked, Sizes
    <2>5. Cardinality(Live) - Cardinality(Polls) <= 0 /\ 0 <= Cardinality(Live)
      BY <1>n, <2>4
    <2>6. CountInv' /\ CapInv'  BY <2>1, <2>2, <2>5 DEF CountInv, CapInv
    <2> QED  BY <2>3, <2>6
  <1> QED
    BY <1>1, <1>2, <1>3, <1>4, <1>6, <1>7, <1>8, <1>9, <1>10, <1>11, <1>12, <1>13
       DEF Next, PollSteps, ShutdownSteps

-----------------------------------------------------------------------------
LEMMA IInvInit == Init => IInv
  <1> USE ConstantsAssumption
  <1> SUFFICES ASSUME Init PROVE IInv  OBVIOUS
  <1>1. Shapes
    <2>1. <<>> \in Seq(Messages) /\ Len(<<>>) = 0 /\ EventDepth \in Nat  OBVIOUS
    <2>2. events = <<>>  BY DEF Init
    <2>3. events \in Seq(Messages) /\ Len(events) <= EventDepth  BY <2>1, <2>2
    <2>4. pc \in [Polls -> {"start", "locked", "fetching", "parked", "answered", "closed"}]
      BY DEF Init
    <2>5. channel \in [Polls -> {"empty", "full", "closed"}] /\ msg \in [Messages -> Places]
      BY DEF Init, Places
    <2>6. /\ damped \subseteq Polls /\ spent \subseteq Polls /\ registered \subseteq Polls
          /\ total \in Int /\ owed \subseteq Consumers /\ keys \subseteq Consumers
          /\ shards \subseteq Streams /\ silent \subseteq Messages
      BY DEF Init
    <2>7. closing \in BOOLEAN  BY Zenon DEF Init
    <2>8. /\ sweeper \in {"idle", "waking", "looking", "stopped"}
          /\ server \in {"serving", "releasing", "draining", "returned"}
      BY DEF Init
    <2> QED  BY <2>3, <2>4, <2>5, <2>6, <2>7, <2>8 DEF Shapes
  <1>2. Live = {} /\ Locked = {}  BY DEF Init, Live, Locked
  <1>3. Cardinality({}) = 0 /\ Cardinality(Polls) \in Nat  BY FS_EmptySet, FS_CardinalityType
  <1>4. CountInv  BY <1>2, <1>3 DEF Init, CountInv
  <1>5. MaxWaiters \in Nat \ {0} /\ Cardinality(Streams) \in Nat  BY FS_CardinalityType
  <1>6. CapInv  BY <1>2, <1>3, <1>5 DEF CapInv
  <1> QED  BY <1>1, <1>2, <1>4, <1>6 DEF IInv, MutexInv

\* The inductive invariant: a shard has one subscriber at a time, the counter
\* follows the polls that live, and those together with the subscribers that
\* have read the counter stay under the cap and the shards.
THEOREM Inductive == Spec => []IInv
  <1>1. IInv /\ [Next]_vars => IInv'  BY ShapesStep, RegistryStep DEF IInv
  <1> QED  BY <1>1, IInvInit, PTL DEF Spec

\* Whatever subscribes, closes, wakes and shuts down in whichever shards, the
\* counter that the sweeper and the cap trust is the number of waiters, and the
\* cap is passed by fewer waiters than there are shards (waiters.go: Registry).
THEOREM RegistryIsCounted == Spec => []RegistryCounts
  <1>1. IInv => RegistryCounts
    <2> SUFFICES ASSUME IInv PROVE RegistryCounts  OBVIOUS
    <2>1. Cardinality(Live) \in Nat /\ Cardinality(Live) <= Cardinality(Polls)
      BY LiveLocked, Sizes
    <2>2. Cardinality(Polls) \in Nat  BY ConstantsAssumption, FS_CardinalityType
    <2>3. total \in -Cardinality(Polls) .. Cardinality(Polls)
      BY <2>1, <2>2 DEF IInv, CountInv, Shapes
    <2>4. TypeOK  BY <2>3 DEF IInv, Shapes, TypeOK
    <2>5. CountMatchesWaiters  BY DEF IInv, CountInv, CountMatchesWaiters
    <2>6. CapOvershoot
      <3> SUFFICES ASSUME server = "serving"
                   PROVE  Cardinality(Live) <= MaxWaiters + Cardinality(Streams) - 1
        BY DEF IInv, CountInv, CapOvershoot
      <3>1. /\ IsFiniteSet(Live \cup Locked) /\ Cardinality(Live \cup Locked) \in Nat
            /\ Live \in SUBSET (Live \cup Locked)
        BY LiveLocked, Sizes
      <3>2. Cardinality(Live) <= Cardinality(Live \cup Locked)  BY <3>1, FS_Subset
      <3>3. Cardinality(Live \cup Locked) <= MaxWaiters + Cardinality(Streams) - 1
        BY DEF IInv, CapInv
      <3>4. MaxWaiters \in Nat /\ Cardinality(Streams) \in Nat
        BY ConstantsAssumption, FS_CardinalityType
      <3> QED  BY <2>1, <3>1, <3>2, <3>3, <3>4
    <2> QED  BY <2>4, <2>5, <2>6 DEF RegistryCounts
  <1> QED  BY <1>1, Inductive, PTL
=============================================================================
