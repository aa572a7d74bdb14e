------------------------------- MODULE Worker -------------------------------
(***************************************************************************)
(* The client's worker (pkg/client/worker.go, leases.go): a fetcher, N     *)
(* handlers, a settler that batches acks, and a lease keeper that extends  *)
(* what is in flight.  They meet in Go channels of fixed capacity; a       *)
(* channel is a sequence, a send waits for room, a select with several     *)
(* ready cases takes any of them.                                          *)
(*                                                                         *)
(* A token stands for one delivery.  Time is nondeterministic: a lease may *)
(* run out at the broker, a timer may fire, a drain deadline may pass at   *)
(* any step; each costs one of MaxFaults where the worker would prevent it.*)
(***************************************************************************)
EXTENDS Integers, Sequences, FiniteSets, SequencesExt

CONSTANTS
    N,          \* WorkerConfig.Concurrency
    Batch,      \* WorkerConfig.Batch
    AckCap,     \* acks held back before a flush; 1 is AckWindow <= 0
    FailFast,   \* WorkerConfig.FailFast
    OutcomesCap, LeaseCap, DoneCap, NakCap,  \* room in the channels: 4N, 4N, 8N and 2N
    Tokens,     \* bound: deliveries the broker makes, 1..Tokens
    MaxFaults,  \* bound: failed calls, expired leases, missed deadlines
    Verdicts    \* what handlers may return: a subset of {"ack","nak","term","none"}

ASSUME ConstantsAssumption ==
    /\ N \in Nat \ {0} /\ Batch \in Nat \ {0} /\ AckCap \in Nat \ {0}
    /\ Tokens \in Nat /\ MaxFaults \in Nat
    /\ OutcomesCap \in Nat \ {0} /\ LeaseCap \in Nat \ {0}
    /\ DoneCap \in Nat \ {0} /\ NakCap \in Nat \ {0}
    /\ FailFast \in BOOLEAN
    /\ Verdicts \subseteq {"ack", "nak", "term", "none"} /\ Verdicts # {}

VARIABLES
    prefetch,   \* WorkerConfig.Prefetch: fetch without regard to free slots
    run,        \* Run: preflight, fetching, waiting, closing, returned
    cancelled,  \* runCtx is done
    stop,       \* stopFetch is closed
    closed,     \* outcomesClosed is closed
    fetcher,    \* [pc, todo]: what fetcherLoop does, deliveries still to dispatch
    handler,    \* per handler: [pc, tok]
    outcomes, addLease, doneToken, forceNaks,  \* the channels
    settler,    \* [pc, acks, sends, release, then]
    keeper,     \* [pc, heap, due]
    draining,   \* the keeper's local of that name
    lost,       \* workerState.lost
    slotsUsed,  \* workerState.slotsUsed
    verdict,    \* per token: what its handler returned, or "none yet"
    broker,     \* per token: state of the delivery at the broker
    faults      \* faults so far

vars == <<prefetch, run, cancelled, stop, closed, fetcher, handler, outcomes, addLease,
          doneToken, forceNaks, settler, keeper, draining, lost, slotsUsed,
          verdict, broker, faults>>
channels == <<outcomes, addLease, doneToken, forceNaks>>

Toks == 1..Tokens
Handlers == 1..N
NoTok == 0

Init ==
    /\ prefetch \in BOOLEAN
    /\ run = "preflight" /\ cancelled = FALSE /\ stop = FALSE /\ closed = FALSE
    /\ fetcher = [pc |-> "off", todo |-> <<>>]
    /\ handler = [h \in Handlers |-> [pc |-> "idle", tok |-> NoTok]]
    /\ outcomes = <<>> /\ addLease = <<>> /\ doneToken = <<>> /\ forceNaks = <<>>
    /\ settler = [pc |-> "select", acks |-> <<>>, sends |-> <<>>, release |-> 0, then |-> "select"]
    /\ keeper = [pc |-> "loop", heap |-> {}, due |-> {}]
    /\ draining = FALSE /\ lost = {} /\ slotsUsed = 0
    /\ verdict = [t \in Toks |-> "none yet"]
    /\ broker = [t \in Toks |-> "ready"]
    /\ faults = 0

Fault == faults < MaxFaults /\ faults' = faults + 1

(***************************************************************************)
(* The broker, as the worker sees it.                                      *)
(***************************************************************************)
\* A lease nobody extended runs out; the message is delivered again under
\* another token.
LeaseRunsOut ==
    \E t \in Toks :
        /\ broker[t] = "leased"
        /\ Fault
        /\ broker' = [broker EXCEPT ![t] = "expired"]
        /\ UNCHANGED <<prefetch, run, cancelled, stop, closed, fetcher, handler, channels, settler,
                       keeper, draining, lost, slotsUsed, verdict>>

\* A settlement request for the tokens ts: applied to the live leases among
\* them, or not applied; answered, or not.  A cancelled context sends nothing.
Settle(ts, to) ==
    \/ /\ ~cancelled
       /\ broker' = [t \in Toks |-> IF t \in ts /\ broker[t] = "leased" THEN to ELSE broker[t]]
       /\ \/ UNCHANGED faults      \* answered
          \/ Fault                 \* applied, the answer lost
    \/ /\ UNCHANGED broker
       /\ \/ cancelled /\ UNCHANGED faults
          \/ Fault

(***************************************************************************)
(* Run, Drain and the caller.                                              *)
(***************************************************************************)
Preflight ==
    /\ run = "preflight"
    /\ \/ /\ ~cancelled
          /\ run' = "fetching"
          /\ fetcher' = [fetcher EXCEPT !.pc = "top"]
          /\ UNCHANGED faults
       \/ /\ cancelled \/ FailFast        \* preflight cancelled, or not_found
          /\ run' = "failed"
          /\ UNCHANGED <<fetcher, faults>>
    /\ UNCHANGED <<prefetch, cancelled, stop, closed, handler, channels, settler, keeper, draining,
                   lost, slotsUsed, verdict, broker>>

\* The caller's Drain.
Drain ==
    /\ run \notin {"preflight", "failed"}
    /\ ~stop
    /\ stop' = TRUE
    /\ UNCHANGED <<prefetch, run, cancelled, closed, fetcher, handler, channels, settler, keeper,
                   draining, lost, slotsUsed, verdict, broker, faults>>

\* The caller's context ends.
Cancel ==
    /\ ~cancelled
    /\ Fault
    /\ cancelled' = TRUE
    /\ UNCHANGED <<prefetch, run, stop, closed, fetcher, handler, channels, settler, keeper, draining,
                   lost, slotsUsed, verdict, broker>>

\* fetcherLoop returned: close(work).
CloseWork ==
    /\ run = "fetching" /\ fetcher.pc = "done"
    /\ run' = "waiting"
    /\ UNCHANGED <<prefetch, cancelled, stop, closed, fetcher, handler, channels, settler, keeper,
                   draining, lost, slotsUsed, verdict, broker, faults>>

HandlersDone == \A h \in Handlers : handler[h].pc = "exited"

\* The select after close(work), then cancelRun and close(outcomesClosed).
StopPipeline ==
    /\ run = "waiting"
    /\ HandlersDone \/ keeper.pc = "gone" \/ cancelled
    /\ cancelled' = TRUE
    /\ closed' = TRUE
    /\ run' = "closing"

Shut ==
    /\ StopPipeline
    /\ UNCHANGED <<prefetch, stop, fetcher, handler, channels, settler, keeper, draining, lost,
                   slotsUsed, verdict, broker, faults>>

Return ==
    /\ run = "closing" /\ settler.pc = "gone" /\ keeper.pc = "gone"
    /\ run' = "returned"
    /\ UNCHANGED <<prefetch, cancelled, stop, closed, fetcher, handler, channels, settler, keeper,
                   draining, lost, slotsUsed, verdict, broker, faults>>

(***************************************************************************)
(* fetcherLoop.                                                            *)
(***************************************************************************)
FreeSlots == IF N > slotsUsed THEN N - slotsUsed ELSE 0

batchSize == IF prefetch \/ Batch < FreeSlots THEN Batch ELSE FreeSlots

FetchTop ==
    /\ fetcher.pc = "top"
    /\ fetcher' = [fetcher EXCEPT !.pc = IF stop \/ cancelled THEN "done"
                                         ELSE IF batchSize = 0 THEN "slot" ELSE "fetch"]
    /\ UNCHANGED <<prefetch, run, cancelled, stop, closed, handler, channels, settler, keeper,
                   draining, lost, slotsUsed, verdict, broker, faults>>

\* All slots busy: wait for one, for stopFetch or for the context.
SlotWait ==
    /\ fetcher.pc = "slot"
    /\ \/ /\ stop \/ cancelled
          /\ fetcher' = [fetcher EXCEPT !.pc = "done"]
       \/ /\ FreeSlots > 0
          /\ fetcher' = [fetcher EXCEPT !.pc = "top"]
    /\ UNCHANGED <<prefetch, run, cancelled, stop, closed, handler, channels, settler, keeper,
                   draining, lost, slotsUsed, verdict, broker, faults>>

\* The long poll answers: k deliveries, an empty answer, or an error (the
\* broker may have claimed deliveries for an answer that is lost).  A cancelled
\* context ends the loop; with FailFast a missing consumer does.
Ready == {t \in Toks : broker[t] = "ready"}
Claim(k) ==   \* the next k deliveries
    LET first == Tokens - Cardinality(Ready) IN [i \in 1..k |-> first + i]
Claimed(got) == [t \in Toks |-> IF t \in ToSet(got) THEN "leased" ELSE broker[t]]
Fetch ==
    /\ fetcher.pc = "fetch"
    /\ \/ /\ ~cancelled
          /\ \E k \in 1..batchSize :
                /\ k <= Cardinality(Ready)
                /\ fetcher' = [pc |-> "lease", todo |-> Claim(k)]
                /\ broker' = Claimed(Claim(k))
          /\ slotsUsed' = IF prefetch THEN slotsUsed ELSE slotsUsed + Len(fetcher'.todo)
          /\ UNCHANGED faults
       \/ /\ fetcher' = [fetcher EXCEPT !.pc = IF cancelled THEN "done" ELSE "hold"]
          /\ \/ UNCHANGED <<broker, faults>>
             \/ Fault /\ Ready # {} /\ broker' = Claimed(Claim(1))
          /\ UNCHANGED slotsUsed
       \/ /\ ~cancelled /\ FailFast
          /\ Fault
          /\ fetcher' = [fetcher EXCEPT !.pc = "done"]
          /\ UNCHANGED <<broker, slotsUsed>>
    /\ UNCHANGED <<prefetch, run, cancelled, stop, closed, handler, channels, settler, keeper,
                   draining, lost, verdict>>

\* holdSleep, and the backoff after an error: a wait the context cuts short.
HoldSleep ==
    /\ fetcher.pc = "hold"
    /\ fetcher' = [fetcher EXCEPT !.pc = IF cancelled THEN "done" ELSE "top"]
    /\ UNCHANGED <<prefetch, run, cancelled, stop, closed, handler, channels, settler, keeper,
                   draining, lost, slotsUsed, verdict, broker, faults>>

\* st.addLease <- newLease(...): a plain send, which nothing interrupts.
SendLease ==
    /\ fetcher.pc = "lease"
    /\ Len(addLease) < LeaseCap
    /\ addLease' = Append(addLease, Head(fetcher.todo))
    /\ fetcher' = [fetcher EXCEPT !.pc = "work"]
    /\ UNCHANGED <<prefetch, run, cancelled, stop, closed, handler, outcomes, doneToken, forceNaks,
                   settler, keeper, draining, lost, slotsUsed, verdict, broker, faults>>

\* st.work <- it meets a waiting handler, or the context ends the fetcher.
Dispatch ==
    /\ fetcher.pc = "work"
    /\ \/ /\ \E h \in Handlers :
                /\ handler[h].pc = "idle"
                /\ \A g \in 1..(h - 1) : handler[g].pc # "idle"   \* any one: they are alike
                /\ handler' = [handler EXCEPT ![h] = [pc |-> "running", tok |-> Head(fetcher.todo)]]
          /\ fetcher' = [pc |-> IF Len(fetcher.todo) = 1 THEN "top" ELSE "lease",
                         todo |-> Tail(fetcher.todo)]
       \/ /\ cancelled
          /\ fetcher' = [fetcher EXCEPT !.pc = "done"]
          /\ UNCHANGED handler
    /\ UNCHANGED <<prefetch, run, cancelled, stop, closed, channels, settler, keeper, draining, lost,
                   slotsUsed, verdict, broker, faults>>

(***************************************************************************)
(* handlerLoop and runHandler.                                             *)
(***************************************************************************)
\* The handler returns; the verdict follows from its error: nil, permanent,
\* lease lost, retry-after or any other (a recovered panic is one of these).
Handle(h) ==
    /\ handler[h].pc = "running"
    /\ \E v \in Verdicts :
          verdict' = [verdict EXCEPT ![handler[h].tok] = v]
    /\ handler' = [handler EXCEPT ![h].pc = "report"]
    /\ UNCHANGED <<prefetch, run, cancelled, stop, closed, fetcher, channels, settler, keeper,
                   draining, lost, slotsUsed, broker, faults>>

Report(h) ==
    /\ handler[h].pc = "report"
    /\ \/ /\ Len(outcomes) < OutcomesCap
          /\ outcomes' = Append(outcomes, handler[h].tok)
          /\ handler' = [handler EXCEPT ![h] = [pc |-> "idle", tok |-> NoTok]]
       \/ /\ cancelled
          /\ handler' = [handler EXCEPT ![h] = [pc |-> "exited", tok |-> NoTok]]
          /\ UNCHANGED outcomes
    /\ UNCHANGED <<prefetch, run, cancelled, stop, closed, fetcher, addLease, doneToken, forceNaks,
                   settler, keeper, draining, lost, slotsUsed, verdict, broker, faults>>

\* range st.work ends once the channel is closed.
HandlerExit(h) ==
    /\ handler[h].pc = "idle"
    /\ run \in {"waiting", "closing", "returned"}
    /\ handler' = [handler EXCEPT ![h].pc = "exited"]
    /\ UNCHANGED <<prefetch, run, cancelled, stop, closed, fetcher, channels, settler, keeper,
                   draining, lost, slotsUsed, verdict, broker, faults>>

(***************************************************************************)
(* settlerLoop.  A step that ends with sends to doneToken leaves them in   *)
(* settler.sends; SettlerSend makes them one by one.                       *)
(***************************************************************************)
\* finishItem: the slot first, then the token to the keeper.
finishItem(t) ==
    /\ slotsUsed' = IF prefetch THEN slotsUsed ELSE slotsUsed - 1
    /\ settler' = [settler EXCEPT !.pc = "send", !.sends = <<t>>, !.release = 0,
                                  !.then = settler.pc]

handleBlind(t) ==
    /\ settler' = [settler EXCEPT !.acks = Append(@, t),
                                  !.pc = IF Len(settler.acks) + 1 >= AckCap THEN "flush" ELSE @,
                                  !.then = settler.pc]
    /\ UNCHANGED <<slotsUsed, broker, faults>>
\* The closure handle of settlerLoop.
handle(t) ==
    \/ /\ t \in lost \/ verdict[t] = "none"
       /\ finishItem(t)
       /\ UNCHANGED <<broker, faults>>
    \/ /\ t \notin lost /\ verdict[t] = "ack"
       /\ settler' = [settler EXCEPT !.acks = Append(@, t),
                                     !.pc = IF Len(settler.acks) + 1 >= AckCap THEN "flush" ELSE @,
                                     !.then = settler.pc]
       /\ UNCHANGED <<slotsUsed, broker, faults>>
    \/ /\ t \notin lost /\ verdict[t] \in {"nak", "term"}
       /\ Settle({t}, verdict[t])
       /\ finishItem(t)

SettlerOutcome ==
    /\ settler.pc \in {"select", "drain"}
    /\ outcomes # <<>>
    /\ handle(Head(outcomes))
    /\ outcomes' = Tail(outcomes)
    /\ UNCHANGED <<prefetch, run, cancelled, stop, closed, fetcher, handler, addLease, doneToken,
                   forceNaks, keeper, draining, lost, verdict>>

\* A nak for a delivery the keeper gave up.
SettlerForceNak ==
    /\ settler.pc = "select"
    /\ forceNaks # <<>>
    /\ Settle({Head(forceNaks)}, "nak")
    /\ forceNaks' = Tail(forceNaks)
    /\ UNCHANGED <<prefetch, run, cancelled, stop, closed, fetcher, handler, outcomes, addLease,
                   doneToken, settler, keeper, draining, lost, slotsUsed, verdict>>

\* The ack window ends, the context ends, or the outcomes are closed.
SettlerTimerNever ==
    /\ settler.pc = "select" /\ settler.acks # <<>> /\ Len(settler.acks) >= AckCap
    /\ settler' = [settler EXCEPT !.pc = "flush", !.then = "select"]
    /\ UNCHANGED <<prefetch, run, cancelled, stop, closed, fetcher, handler, channels, keeper,
                   draining, lost, slotsUsed, verdict, broker, faults>>
SettlerTimer ==
    /\ settler.pc = "select" /\ settler.acks # <<>>
    /\ settler' = [settler EXCEPT !.pc = "flush", !.then = "select"]
    /\ UNCHANGED <<prefetch, run, cancelled, stop, closed, fetcher, handler, channels, keeper,
                   draining, lost, slotsUsed, verdict, broker, faults>>
SettlerDone ==
    /\ settler.pc = "select"
    /\ \/ cancelled /\ settler' = [settler EXCEPT !.pc = "flush", !.then = "gone"]
       \/ closed /\ settler' = [settler EXCEPT !.pc = "drain", !.then = "drain"]
    /\ UNCHANGED <<prefetch, run, cancelled, stop, closed, fetcher, handler, channels, keeper,
                   draining, lost, slotsUsed, verdict, broker, faults>>
SettlerDrained ==
    /\ settler.pc = "drain" /\ outcomes = <<>>
    /\ settler' = [settler EXCEPT !.pc = "flush", !.then = "gone"]
    /\ UNCHANGED <<prefetch, run, cancelled, stop, closed, fetcher, handler, channels, keeper,
                   draining, lost, slotsUsed, verdict, broker, faults>>

\* flush and settleAcks: one request for every ack held back; its retries end
\* in one of Settle's outcomes.
SettlerFlush ==
    /\ settler.pc = "flush"
    /\ IF settler.acks = <<>>
       THEN UNCHANGED <<broker, faults>>
       ELSE Settle(ToSet(settler.acks), "ack")
    /\ settler' = [settler EXCEPT !.pc = "send", !.sends = settler.acks, !.acks = <<>>,
                                  !.release = Len(settler.acks)]
    /\ UNCHANGED <<prefetch, run, cancelled, stop, closed, fetcher, handler, channels, keeper,
                   draining, lost, slotsUsed, verdict>>

\* doneToken sends nothing interrupts, then the slots of the acked items.
Release(k) == IF slotsUsed > k THEN slotsUsed - k ELSE 0
SettlerSend ==
    /\ settler.pc = "send"
    /\ IF settler.sends = <<>>
       THEN /\ settler' = [settler EXCEPT !.pc = settler.then, !.release = 0]
            /\ slotsUsed' = Release(settler.release)
            /\ UNCHANGED doneToken
       ELSE /\ Len(doneToken) < DoneCap
            /\ doneToken' = Append(doneToken, Head(settler.sends))
            /\ settler' = [settler EXCEPT !.sends = Tail(@)]
            /\ UNCHANGED slotsUsed
    /\ UNCHANGED <<prefetch, run, cancelled, stop, closed, fetcher, handler, outcomes, addLease,
                   forceNaks, keeper, draining, lost, verdict, broker, faults>>

(***************************************************************************)
(* keeperLoop (leases.go).                                                 *)
(***************************************************************************)
\* With an empty heap the select has no case for doneToken.
KeeperAdd ==
    /\ keeper.pc = "loop" /\ ~(draining /\ keeper.heap = {})
    /\ addLease # <<>>
    /\ keeper' = [keeper EXCEPT !.heap = @ \union {Head(addLease)}]
    /\ addLease' = Tail(addLease)
    /\ UNCHANGED <<prefetch, run, cancelled, stop, closed, fetcher, handler, outcomes, doneToken,
                   forceNaks, settler, draining, lost, slotsUsed, verdict, broker, faults>>
KeeperToken ==
    /\ keeper.pc = "loop" /\ keeper.heap # {}
    /\ doneToken # <<>>
    /\ keeper' = [keeper EXCEPT !.heap = @ \ {Head(doneToken)}]
    /\ doneToken' = Tail(doneToken)
    /\ UNCHANGED <<prefetch, run, cancelled, stop, closed, fetcher, handler, outcomes, addLease,
                   forceNaks, settler, draining, lost, slotsUsed, verdict, broker, faults>>
KeeperStop ==
    /\ keeper.pc = "loop" /\ stop /\ ~draining
    /\ draining' = TRUE
    /\ UNCHANGED <<prefetch, run, cancelled, stop, closed, fetcher, handler, channels, settler,
                   keeper, lost, slotsUsed, verdict, broker, faults>>

\* Returns: nothing left of a drain, or the context ended.
KeeperReturnDrainOnly ==
    /\ keeper.pc = "loop"
    /\ draining /\ keeper.heap = {}
    /\ keeper' = [keeper EXCEPT !.pc = "gone"]
    /\ UNCHANGED <<prefetch, run, cancelled, stop, closed, fetcher, handler, channels, settler,
                   draining, lost, slotsUsed, verdict, broker, faults>>
KeeperReturn ==
    /\ keeper.pc = "loop"
    /\ (draining /\ keeper.heap = {}) \/ cancelled
    /\ keeper' = [keeper EXCEPT !.pc = "gone"]
    /\ UNCHANGED <<prefetch, run, cancelled, stop, closed, fetcher, handler, channels, settler,
                   draining, lost, slotsUsed, verdict, broker, faults>>

\* The drain deadline: every lease left is given up, then the keeper returns.
KeeperDeadline ==
    /\ keeper.pc = "loop" /\ draining /\ keeper.heap # {}
    /\ keeper' = [keeper EXCEPT !.pc = "giveUpAll"]
    /\ UNCHANGED <<prefetch, run, cancelled, stop, closed, fetcher, handler, channels, settler,
                   draining, lost, slotsUsed, verdict, broker, faults>>

\* giveUp: once per token, marked lost, then a nak queued for the settler.
giveUp(t) ==
    /\ lost' = lost \union {t}
    /\ \/ t \in lost /\ UNCHANGED forceNaks
       \/ /\ t \notin lost /\ Len(forceNaks) < NakCap
          /\ forceNaks' = Append(forceNaks, t)
       \/ t \notin lost /\ cancelled /\ UNCHANGED forceNaks

KeeperGiveUp ==
    /\ keeper.pc = "giveUpAll"
    /\ \/ /\ keeper.heap = {}
          /\ keeper' = [keeper EXCEPT !.pc = "gone"]
          /\ UNCHANGED <<lost, forceNaks>>
       \/ \E t \in keeper.heap :
            /\ giveUp(t)
            /\ keeper' = [keeper EXCEPT !.heap = @ \ {t}]
    /\ UNCHANGED <<prefetch, run, cancelled, stop, closed, fetcher, handler, outcomes, addLease,
                   doneToken, settler, draining, slotsUsed, verdict, broker, faults>>

\* extendDue: the due leases leave the heap ...
KeeperDue ==
    /\ keeper.pc = "loop" /\ keeper.heap # {}
    /\ \E due \in SUBSET keeper.heap :
          /\ due # {}
          /\ keeper' = [keeper EXCEPT !.pc = "extend", !.heap = @ \ due, !.due = due]
    /\ UNCHANGED <<prefetch, run, cancelled, stop, closed, fetcher, handler, channels, settler,
                   draining, lost, slotsUsed, verdict, broker, faults>>

\* ... MaxLease gives one of them up ...
KeeperMaxLease ==
    /\ keeper.pc = "extend"
    /\ \E t \in keeper.due :
          /\ Fault
          /\ giveUp(t)
          /\ keeper' = [keeper EXCEPT !.due = @ \ {t},
                                      !.pc = IF keeper.due = {t} THEN "loop" ELSE @]
    /\ UNCHANGED <<prefetch, run, cancelled, stop, closed, fetcher, handler, outcomes, addLease,
                   doneToken, settler, draining, slotsUsed, verdict, broker>>

\* ... and the rest is extended: a live lease goes back into the heap, any
\* other is lost, and an error or the extend cap loses them all.
KeeperExtend ==
    /\ keeper.pc = "extend"
    /\ \E kept \in {{t \in keeper.due : broker[t] = "leased"}, {}} :
          /\ keeper' = [keeper EXCEPT !.pc = "loop", !.heap = @ \union kept, !.due = {}]
          /\ lost' = lost \union (keeper.due \ kept)
          /\ IF kept = {} /\ ~cancelled /\ \E t \in keeper.due : broker[t] = "leased"
             THEN Fault ELSE UNCHANGED faults
          /\ cancelled => kept = {}
    /\ UNCHANGED <<prefetch, run, cancelled, stop, closed, fetcher, handler, channels, settler,
                   draining, slotsUsed, verdict, broker>>

(***************************************************************************)
(* The specification.                                                      *)
(***************************************************************************)
FetcherStep == FetchTop \/ SlotWait \/ Fetch \/ HoldSleep \/ SendLease \/ Dispatch
HandlerStep(h) == Report(h) \/ HandlerExit(h)
SettlerStep == SettlerOutcome \/ SettlerForceNak \/ SettlerTimer \/ SettlerDone
                 \/ SettlerDrained \/ SettlerFlush \/ SettlerSend
KeeperStep == KeeperAdd \/ KeeperToken \/ KeeperStop \/ KeeperReturn \/ KeeperDeadline
                \/ KeeperGiveUp \/ KeeperDue \/ KeeperMaxLease \/ KeeperExtend
RunStep == Preflight \/ CloseWork \/ Shut \/ Return

\* A sender waits on a full channel that nothing will empty: the fetcher on
\* the leases of a keeper that has left, the settler on the tokens of one that
\* has left or that waits, giving leases up, on the settler's own channel.
Hung ==
    \/ /\ fetcher.pc = "lease" /\ Len(addLease) >= LeaseCap
       /\ keeper.pc = "gone"
    \/ /\ settler.pc = "send" /\ settler.sends # <<>> /\ Len(doneToken) >= DoneCap
       /\ \/ keeper.pc = "gone"
          \/ keeper.pc = "giveUpAll" /\ Len(forceNaks) >= NakCap

\* After Run returned or failed only leaked handlers run on, unobserved; a hung
\* worker may stop altogether.
Over == run \in {"returned", "failed"}
Ended == (Over \/ Hung) /\ UNCHANGED vars

Next ==
    \/ /\ ~Over
       /\ \/ LeaseRunsOut \/ Drain \/ Cancel
          \/ RunStep \/ FetcherStep \/ SettlerStep \/ KeeperStep
          \/ \E h \in Handlers : Handle(h) \/ HandlerStep(h)
    \/ Ended

\* Goroutines are scheduled; a select takes every case that stays ready in
\* the end, so each case that leads out of a loop is fair by itself.  The
\* user's handler need not return, the caller need not stop the worker.
Fairness ==
    /\ WF_vars(~Over /\ RunStep) /\ WF_vars(~Over /\ FetcherStep)
    /\ WF_vars(~Over /\ SettlerStep) /\ SF_vars(~Over /\ (SettlerDone \/ SettlerTimer))
    /\ WF_vars(~Over /\ KeeperStep) /\ SF_vars(~Over /\ (KeeperStop \/ KeeperReturn \/ KeeperDeadline))
    /\ \A h \in Handlers : WF_vars(~Over /\ HandlerStep(h))

WSpec == Init /\ [][Next]_vars /\ Fairness

(***************************************************************************)
(* Properties.                                                             *)
(***************************************************************************)
\* A delivery is acked, naked or termed only as its handler said, but for the
\* naks of leases the keeper gave up; a delivery whose handler has not
\* returned is never acked (handle, flush, giveUp).
SettledAsHandled ==
    \A t \in Toks :
        /\ broker[t] \in {"ack", "term"} => verdict[t] = broker[t]
        /\ broker[t] = "nak" => verdict[t] = "nak" \/ t \in lost

\* Every handler is busy, and the fetcher waits for one of them.
FetcherWaits ==
    fetcher.pc = "work" /\ ~cancelled /\ \A h \in Handlers : handler[h].pc = "running"

\* Once Drain was called or the context ended, Run returns, unless a sender of
\* the pipeline hangs on a channel whose reader has gone, or a prefetched batch
\* waits for handlers that never return: whatever the four loops do, there is
\* no other way for Run to stay (worker.go Run, leases.go keeperLoop).
RunReturns == <>[](Hung \/ FetcherWaits) \/ ((stop \/ cancelled) ~> Over)

\* worker.go, Run: it "blocks until ctx is done, Drain finishes the worker, or a
\* fatal error occurs", so no sender of the pipeline waits for good.
NobodyHangs == ~Hung

\* What a handler finished reaches the broker while the worker lives: again and
\* again nothing finished is held back, unless its lease was lost, the context
\* ended, the worker hangs or a call failed (settlerLoop, its ack window).
FinishedIsSettled ==
    []<>(\/ cancelled \/ Hung \/ faults > 0
         \/ \A t \in Toks : verdict[t] \in {"ack", "nak", "term"} /\ broker[t] = "leased" => t \in lost)

\* Drain "settles what completed": when a drained worker returns and no call
\* failed and no lease was lost, no finished delivery is still leased
\* (worker.go, Drain).
DrainSettles ==
    run = "returned" /\ faults = 0
        => \A t \in Toks : verdict[t] \in {"ack", "nak", "term"} => broker[t] # "leased" \/ t \in lost
=============================================================================
