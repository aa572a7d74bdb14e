---------------------------- MODULE WorkerProofs ----------------------------
(***************************************************************************)
(* What the client's worker tells the broker is what its handlers said,    *)
(* for any number of handlers and deliveries, any batch size and any       *)
(* number of failing calls.                                                *)
(***************************************************************************)
EXTENDS Worker, FiniteSetTheorems, TLAPS

-----------------------------------------------------------------------------
(* The inductive invariant.                                                  *)

\* What the parts of the worker hold.
TypeInv ==
    /\ broker \in [Toks -> {"ready", "leased", "expired", "ack", "nak", "term"}]
    /\ verdict \in [Toks -> {"none yet", "ack", "nak", "term", "none"}]
    /\ fetcher \in [pc : {"off", "top", "slot", "fetch", "hold", "lease", "work", "done"},
                    todo : Seq(Toks)]
    /\ handler \in [Handlers -> [pc : {"idle", "running", "report", "exited"},
                                 tok : Toks \cup {NoTok}]]
    /\ outcomes \in Seq(Toks) /\ addLease \in Seq(Toks)
    /\ doneToken \in Seq(Toks) /\ forceNaks \in Seq(Toks)
    /\ settler \in [pc : {"select", "drain", "flush", "send", "gone"}, acks : Seq(Toks),
                    sends : Seq(Toks), release : Nat, then : {"select", "drain", "gone"}]
    /\ keeper \in [pc : {"loop", "extend", "giveUpAll", "gone"},
                   heap : SUBSET Toks, due : SUBSET Toks]
    /\ lost \subseteq Toks

\* The broker has handed out a prefix of its deliveries.
ReadyInv == \E r \in 0 .. Tokens : Ready = (r + 1) .. Tokens

\* A delivery at the broker, and one the fetcher still has to dispatch, has no
\* verdict, and the fetcher has it once.
TodoInv ==
    /\ \A t \in Toks : broker[t] = "ready" => verdict[t] = "none yet"
    /\ fetcher.pc \in {"lease", "work"} => fetcher.todo # <<>>
    /\ \A i \in 1 .. Len(fetcher.todo) :
          broker[fetcher.todo[i]] # "ready" /\ verdict[fetcher.todo[i]] = "none yet"
    /\ \A i, j \in 1 .. Len(fetcher.todo) : fetcher.todo[i] = fetcher.todo[j] => i = j

\* A delivery that runs has no verdict, and one handler has it, once.
RunningInv ==
    /\ \A h \in Handlers : handler[h].pc \in {"running", "report"} => handler[h].tok \in Toks
    /\ \A h \in Handlers : handler[h].pc = "running" =>
          /\ broker[handler[h].tok] # "ready" /\ verdict[handler[h].tok] = "none yet"
          /\ \A i \in 1 .. Len(fetcher.todo) : fetcher.todo[i] # handler[h].tok
          /\ \A g \in Handlers :
                handler[g].pc = "running" /\ handler[g].tok = handler[h].tok => g = h

\* What waits to be acked was acked by its handler; what waits to be naked was
\* lost.
QueuesInv ==
    /\ \A i \in 1 .. Len(settler.acks) : verdict[settler.acks[i]] = "ack"
    /\ \A i \in 1 .. Len(forceNaks) : forceNaks[i] \in lost

IInv == TypeInv /\ ReadyInv /\ TodoInv /\ RunningInv /\ QueuesInv /\ SettledAsHandled

-----------------------------------------------------------------------------
(* Sequences of deliveries.                                                  *)

LEMMA TailFacts ==
    ASSUME NEW S, NEW s \in Seq(S), s # <<>>
    PROVE  /\ Head(s) \in S /\ Head(s) = s[1] /\ Tail(s) \in Seq(S)
           /\ Len(s) \in Nat /\ Len(s) >= 1 /\ Len(Tail(s)) = Len(s) - 1
           /\ \A i \in 1 .. Len(Tail(s)) : i + 1 \in 1 .. Len(s) /\ Tail(s)[i] = s[i + 1]
OBVIOUS

LEMMA AppendFacts ==
    ASSUME NEW S, NEW s \in Seq(S), NEW e \in S
    PROVE  /\ Append(s, e) \in Seq(S)
           /\ \A i \in 1 .. Len(Append(s, e)) :
                Append(s, e)[i] = e \/ (i \in 1 .. Len(s) /\ Append(s, e)[i] = s[i])
OBVIOUS

-----------------------------------------------------------------------------
(* A step that gives no verdict and dispatches nothing.                      *)

\* Such a step keeps what is known of deliveries on their way to a handler,
\* whatever it tells the broker about deliveries that were handed out.
LEMMA PipelineKept ==
    ASSUME IInv, TypeInv', UNCHANGED verdict,
           \A t \in Toks : broker'[t] = "ready" <=> broker[t] = "ready",
           fetcher'.todo = fetcher.todo,
           fetcher'.pc \in {"lease", "work"} => fetcher.pc \in {"lease", "work"},
           \A h \in Handlers : handler'[h] = handler[h] \/ handler'[h].pc \in {"idle", "exited"}
                               \/ (handler'[h].pc = "report" /\ handler'[h].tok \in Toks)
    PROVE  ReadyInv' /\ TodoInv' /\ RunningInv'
<1> USE DEF IInv
<1>1. ReadyInv'
  <2>1. Ready' = Ready
    BY DEF Ready
  <2>2. QED
    BY <2>1 DEF ReadyInv
<1>2. \A i \in 1 .. Len(fetcher.todo) : fetcher.todo[i] \in Toks
  <2>1. fetcher.todo \in Seq(Toks)
    BY DEF TypeInv
  <2>2. QED
    BY <2>1
<1>3. TodoInv'
  <2>1. \A t \in Toks : broker'[t] = "ready" => verdict'[t] = "none yet"
    BY DEF TodoInv
  <2>2. fetcher'.pc \in {"lease", "work"} => fetcher'.todo # <<>>
    BY DEF TodoInv
  <2>3. \A i \in 1 .. Len(fetcher.todo) :
          broker'[fetcher.todo[i]] # "ready" /\ verdict[fetcher.todo[i]] = "none yet"
    BY <1>2, ZenonT(30) DEF TodoInv
  <2>4. \A i, j \in 1 .. Len(fetcher'.todo) : fetcher'.todo[i] = fetcher'.todo[j] => i = j
    BY ZenonT(30) DEF TodoInv
  <2>5. QED
    BY <2>1, <2>2, <2>3, <2>4, ZenonT(30) DEF TodoInv
<1>4. RunningInv'
  <2>1. \A h \in Handlers : handler'[h].pc \in {"running", "report"} => handler'[h].tok \in Toks
    BY DEF RunningInv
  <2>2. \A h \in Handlers : handler'[h].pc = "running" => handler'[h] = handler[h]
    OBVIOUS
  <2>3. \A h \in Handlers : handler[h].pc = "running" => handler[h].tok \in Toks
    BY DEF RunningInv
  <2>4. ASSUME NEW h \in Handlers, handler'[h].pc = "running"
        PROVE  /\ broker'[handler'[h].tok] # "ready" /\ verdict'[handler'[h].tok] = "none yet"
               /\ \A i \in 1 .. Len(fetcher'.todo) : fetcher'.todo[i] # handler'[h].tok
               /\ \A g \in Handlers :
                     handler'[g].pc = "running" /\ handler'[g].tok = handler'[h].tok => g = h
    <3>1. handler'[h] = handler[h] /\ handler[h].pc = "running" /\ handler[h].tok \in Toks
      BY <2>2, <2>3, <2>4
    <3>2. /\ broker[handler[h].tok] # "ready" /\ verdict[handler[h].tok] = "none yet"
          /\ \A i \in 1 .. Len(fetcher.todo) : fetcher.todo[i] # handler[h].tok
          /\ \A g \in Handlers :
                handler[g].pc = "running" /\ handler[g].tok = handler[h].tok => g = h
      BY <3>1 DEF RunningInv
    <3>3. broker'[handler[h].tok] # "ready" /\ verdict'[handler[h].tok] = "none yet"
      BY <3>1, <3>2
    <3>4. \A i \in 1 .. Len(fetcher'.todo) : fetcher'.todo[i] # handler[h].tok
      BY <3>2
    <3>5. \A g \in Handlers :
            handler'[g].pc = "running" /\ handler'[g].tok = handler[h].tok => g = h
      BY <3>2, <2>2
    <3>6. QED
      BY <3>1, <3>3, <3>4, <3>5
  <2>5. QED
    BY <2>1, <2>4 DEF RunningInv
<1>5. QED
  BY <1>1, <1>3, <1>4

\* The queues of the settler, when nothing new is put into them.
LEMMA QueuesKept ==
    ASSUME IInv, UNCHANGED verdict, lost \subseteq lost',
           settler'.acks = settler.acks \/ settler'.acks = <<>>,
           forceNaks' = forceNaks \/ (forceNaks # <<>> /\ forceNaks' = Tail(forceNaks))
    PROVE  QueuesInv'
<1> USE DEF IInv
<1>1. \A i \in 1 .. Len(settler'.acks) : verdict'[settler'.acks[i]] = "ack"
  BY DEF QueuesInv
<1>2. \A i \in 1 .. Len(forceNaks') : forceNaks'[i] \in lost'
  <2>1. CASE forceNaks' = forceNaks
    BY <2>1 DEF QueuesInv
  <2>2. CASE forceNaks # <<>> /\ forceNaks' = Tail(forceNaks)
    <3>1. forceNaks \in Seq(Toks)
      BY DEF TypeInv
    <3>2. \A i \in 1 .. Len(Tail(forceNaks)) :
            i + 1 \in 1 .. Len(forceNaks) /\ Tail(forceNaks)[i] = forceNaks[i + 1]
      BY <2>2, <3>1, TailFacts
    <3>3. QED
      BY <2>2, <3>2 DEF QueuesInv
  <2>3. QED
    BY <2>1, <2>2
<1>3. QED
  BY <1>1, <1>2 DEF QueuesInv

\* A request that says what the handlers said, or naks what was lost, leaves
\* the broker with what the handlers said.
LEMMA SettleIsTrue ==
    ASSUME IInv, NEW ts \in SUBSET Toks, NEW to \in {"ack", "nak", "term"}, Settle(ts, to),
           UNCHANGED verdict, lost \subseteq lost',
           \A t \in ts : verdict[t] = to \/ (to = "nak" /\ t \in lost)
    PROVE  /\ broker' \in [Toks -> {"ready", "leased", "expired", "ack", "nak", "term"}]
           /\ \A t \in Toks : broker'[t] = "ready" <=> broker[t] = "ready"
           /\ SettledAsHandled'
<1> USE DEF IInv
<1>1. CASE broker' = [t \in Toks |-> IF t \in ts /\ broker[t] = "leased" THEN to ELSE broker[t]]
  <2>1. \A t \in Toks : broker'[t] = IF t \in ts /\ broker[t] = "leased" THEN to ELSE broker[t]
    BY <1>1
  <2>2. broker' \in [Toks -> {"ready", "leased", "expired", "ack", "nak", "term"}]
    BY <1>1 DEF TypeInv
  <2>3. \A t \in Toks : broker'[t] = "ready" <=> broker[t] = "ready"
    BY <2>1
  <2>4. SettledAsHandled'
    BY <2>1 DEF SettledAsHandled
  <2>5. QED
    BY <2>2, <2>3, <2>4
<1>2. CASE UNCHANGED broker
  BY <1>2 DEF SettledAsHandled, TypeInv
<1>3. QED
  BY <1>1, <1>2 DEF Settle

\* A step that leaves the broker alone leaves it with what the handlers said.
LEMMA BrokerKept ==
    ASSUME IInv, UNCHANGED <<verdict, broker>>, lost \subseteq lost'
    PROVE  SettledAsHandled' /\ \A t \in Toks : broker'[t] = "ready" <=> broker[t] = "ready"
BY DEF IInv, SettledAsHandled

-----------------------------------------------------------------------------
(* Run, the caller and the broker.                                           *)

LEMMA RunKeeps ==
    ASSUME IInv, RunStep \/ Drain \/ Cancel
    PROVE  IInv'
<1>0. TypeInv
  BY DEF IInv
<1>1. /\ UNCHANGED <<handler, outcomes, addLease, doneToken, forceNaks, settler, keeper, lost,
                     verdict, broker>>
      /\ fetcher' = fetcher \/ fetcher' = [fetcher EXCEPT !.pc = "top"]
  BY DEF RunStep, Preflight, CloseWork, Shut, StopPipeline, Return, Drain, Cancel, channels
<1>2. TypeInv' /\ fetcher'.todo = fetcher.todo
      /\ (fetcher'.pc \in {"lease", "work"} => fetcher.pc \in {"lease", "work"})
  BY <1>0, <1>1, ZenonT(30) DEF TypeInv
<1>3. QED
  BY <1>1, <1>2, PipelineKept, QueuesKept, BrokerKept DEF IInv

LEMMA LeaseRunsOutKeeps ==
    ASSUME IInv, LeaseRunsOut
    PROVE  IInv'
<1> USE DEF IInv
<1>1. PICK t \in Toks : broker[t] = "leased" /\ broker' = [broker EXCEPT ![t] = "expired"]
  BY DEF LeaseRunsOut
<1>2. UNCHANGED <<handler, outcomes, addLease, doneToken, forceNaks, settler, keeper, lost,
                  verdict, fetcher>>
  BY DEF LeaseRunsOut, channels
<1>3. TypeInv'
  BY <1>1, <1>2 DEF TypeInv
<1>4. \A x \in Toks : broker'[x] = "ready" <=> broker[x] = "ready"
  BY <1>1 DEF TypeInv
<1>5. SettledAsHandled'
  BY <1>1, <1>2 DEF SettledAsHandled, TypeInv
<1>6. QED
  BY <1>2, <1>3, <1>4, <1>5, PipelineKept, QueuesKept

-----------------------------------------------------------------------------
(* The fetcher.                                                              *)

LEMMA FetcherTurnKeeps ==
    ASSUME IInv, FetchTop \/ SlotWait \/ HoldSleep
    PROVE  IInv'
<1>0. TypeInv
  BY DEF IInv
<1>1. /\ UNCHANGED <<handler, outcomes, addLease, doneToken, forceNaks, settler, keeper, lost,
                     verdict, broker>>
      /\ \E pc \in {"done", "slot", "fetch", "top"} : fetcher' = [fetcher EXCEPT !.pc = pc]
  BY DEF FetchTop, SlotWait, HoldSleep, channels
<1>2. TypeInv' /\ fetcher'.todo = fetcher.todo
      /\ (fetcher'.pc \in {"lease", "work"} => fetcher.pc \in {"lease", "work"})
  BY <1>0, <1>1, ZenonT(30) DEF TypeInv
<1>3. QED
  BY <1>1, <1>2, PipelineKept, QueuesKept, BrokerKept DEF IInv

LEMMA SendLeaseKeeps ==
    ASSUME IInv, SendLease
    PROVE  IInv'
<1>0. TypeInv /\ TodoInv
  BY DEF IInv
<1>1. /\ UNCHANGED <<handler, outcomes, doneToken, forceNaks, settler, keeper, lost,
                     verdict, broker>>
      /\ fetcher.pc = "lease" /\ fetcher' = [fetcher EXCEPT !.pc = "work"]
      /\ addLease' = Append(addLease, Head(fetcher.todo))
  BY DEF SendLease
<1>2. addLease' \in Seq(Toks)
  <2>1. fetcher.todo \in Seq(Toks) /\ fetcher.todo # <<>> /\ addLease \in Seq(Toks)
    BY <1>0, <1>1 DEF TypeInv, TodoInv
  <2>2. Head(fetcher.todo) \in Toks
    BY <2>1, TailFacts
  <2>3. QED
    BY <1>1, <2>1, <2>2, AppendFacts
<1>3. TypeInv' /\ fetcher'.todo = fetcher.todo
      /\ (fetcher'.pc \in {"lease", "work"} => fetcher.pc \in {"lease", "work"})
  BY <1>0, <1>1, <1>2 DEF TypeInv
<1>4. QED
  BY <1>1, <1>3, PipelineKept, QueuesKept, BrokerKept DEF IInv

\* A claim takes the next deliveries in order, each of them once.
LEMMA ClaimFacts ==
    ASSUME ConstantsAssumption, TypeInv, ReadyInv, NEW k \in Nat, k <= Cardinality(Ready)
    PROVE  /\ Claim(k) \in Seq(Toks) /\ Len(Claim(k)) = k
           /\ \A i \in 1 .. k : broker[Claim(k)[i]] = "ready"
           /\ \A i, j \in 1 .. k : Claim(k)[i] = Claim(k)[j] => i = j
           /\ \E r \in 0 .. Tokens : {t \in Toks : Claimed(Claim(k))[t] = "ready"} = (r + 1) .. Tokens
           /\ Claimed(Claim(k)) \in [Toks -> {"ready", "leased", "expired", "ack", "nak", "term"}]
           /\ \A t \in Toks : /\ t \in ToSet(Claim(k)) => Claimed(Claim(k))[t] = "leased"
                              /\ t \notin ToSet(Claim(k)) => Claimed(Claim(k))[t] = broker[t]
<1>0. Tokens \in Nat
  BY DEF ConstantsAssumption
<1>1. PICK r \in 0 .. Tokens : Ready = (r + 1) .. Tokens
  BY DEF ReadyInv
<1>2. Cardinality(Ready) = Tokens - r
  <2>1. r + 1 \in Int /\ Tokens \in Int
    BY <1>0, <1>1
  <2>2. Cardinality((r + 1) .. Tokens) =
          IF r + 1 > Tokens THEN 0 ELSE Tokens - (r + 1) + 1
    BY <2>1, FS_Interval
  <2>3. (IF r + 1 > Tokens THEN 0 ELSE Tokens - (r + 1) + 1) = Tokens - r
    BY <1>0, <1>1
  <2>4. QED
    BY <1>1, <2>2, <2>3
<1>3. Tokens - Cardinality(Ready) = r
  BY <1>0, <1>1, <1>2
<1> DEFINE got == [i \in 1 .. k |-> r + i]
<1>4. Claim(k) = got
  BY <1>3 DEF Claim
<1>5. k <= Tokens - r
  BY <1>2
<1>6. \A i \in 1 .. k : r + i \in Ready
  BY <1>0, <1>1, <1>5
<1>7. Ready \subseteq Toks /\ \A t \in Toks : t \in Ready <=> broker[t] = "ready"
  BY DEF Ready
<1>8. got \in Seq(Toks) /\ Len(got) = k
  <2>1. got \in [1 .. k -> Toks]
    BY <1>6, <1>7
  <2>2. QED
    BY <2>1
<1>9. \A i \in 1 .. k : broker[got[i]] = "ready"
  BY <1>6, <1>7
<1>10. \A i, j \in 1 .. k : got[i] = got[j] => i = j
  BY <1>0, <1>1
<1>11. ToSet(got) = (r + 1) .. (r + k)
  <2>1. ToSet(got) = {r + i : i \in 1 .. k}
    BY DEF ToSet
  <2>2. {r + i : i \in 1 .. k} \subseteq (r + 1) .. (r + k)
    BY <1>0, <1>1
  <2>3. ASSUME NEW t \in (r + 1) .. (r + k) PROVE t \in {r + i : i \in 1 .. k}
    <3>1. t - r \in 1 .. k /\ r + (t - r) = t
      BY <1>0, <1>1, <2>3
    <3>2. QED
      BY <3>1
  <2>4. QED
    BY <2>1, <2>2, <2>3
<1> DEFINE after == Claimed(got)
<1>12. \A t \in Toks : after[t] = IF t \in ToSet(got) THEN "leased" ELSE broker[t]
  BY DEF Claimed
<1>13. after \in [Toks -> {"ready", "leased", "expired", "ack", "nak", "term"}]
  BY DEF Claimed, TypeInv
<1>14. {t \in Toks : after[t] = "ready"} = (r + k + 1) .. Tokens /\ r + k \in 0 .. Tokens
  <2>1. \A t \in Toks : after[t] = "ready" <=> (t \in Ready /\ t \notin ToSet(got))
    BY <1>7, <1>12
  <2>2. r + k \in 0 .. Tokens
    BY <1>0, <1>1, <1>5
  <2>3. \A t \in Toks : (t \in Ready /\ t \notin ToSet(got)) <=> t \in (r + k + 1) .. Tokens
    BY <1>0, <1>1, <1>11, <2>2 DEF Toks
  <2>4. (r + k + 1) .. Tokens \subseteq Toks
    BY <1>0, <2>2 DEF Toks
  <2> HIDE DEF after
  <2>5. QED
    BY <2>1, <2>2, <2>3, <2>4
<1>15. \E q \in 0 .. Tokens : {t \in Toks : after[t] = "ready"} = (q + 1) .. Tokens
  BY <1>14
<1> HIDE DEF got
<1>16. QED
  BY <1>4, <1>8, <1>9, <1>10, <1>12, <1>13, <1>15

\* The fetcher takes up what it claimed: deliveries without a verdict.  Or the
\* answer is lost with what was claimed for it.
LEMMA ClaimKeeps ==
    ASSUME ConstantsAssumption, IInv, NEW k \in Nat, k >= 1, k <= Cardinality(Ready),
           broker' = Claimed(Claim(k)),
           UNCHANGED <<handler, outcomes, addLease, doneToken, forceNaks, settler, keeper, lost,
                       verdict>>,
           \/ fetcher' = [pc |-> "lease", todo |-> Claim(k)]
           \/ fetcher' = [fetcher EXCEPT !.pc = "hold"]
           \/ fetcher' = [fetcher EXCEPT !.pc = "done"]
    PROVE  IInv'
<1> DEFINE got == Claim(k)
<1>0. TypeInv /\ ReadyInv /\ TodoInv /\ RunningInv /\ SettledAsHandled
  BY DEF IInv
<1>1. /\ got \in Seq(Toks) /\ got # <<>>
      /\ \A i \in 1 .. Len(got) : broker[got[i]] = "ready"
      /\ \A i, j \in 1 .. Len(got) : got[i] = got[j] => i = j
      /\ \E r \in 0 .. Tokens : {t \in Toks : broker'[t] = "ready"} = (r + 1) .. Tokens
      /\ broker' \in [Toks -> {"ready", "leased", "expired", "ack", "nak", "term"}]
      /\ \A t \in Toks : /\ t \in ToSet(got) => broker'[t] = "leased"
                         /\ t \notin ToSet(got) => broker'[t] = broker[t]
  <2> DEFINE after == Claimed(got)
  <2>1. got \in Seq(Toks) /\ Len(got) = k
    BY <1>0, ClaimFacts, Zenon
  <2>2. /\ \A i \in 1 .. k : broker[got[i]] = "ready"
        /\ \A i, j \in 1 .. k : got[i] = got[j] => i = j
    BY <1>0, ClaimFacts, Zenon
  <2>3. /\ \E r \in 0 .. Tokens : {t \in Toks : after[t] = "ready"} = (r + 1) .. Tokens
        /\ after \in [Toks -> {"ready", "leased", "expired", "ack", "nak", "term"}]
        /\ \A t \in Toks : /\ t \in ToSet(got) => after[t] = "leased"
                           /\ t \notin ToSet(got) => after[t] = broker[t]
    BY <1>0, ClaimFacts, ZenonT(60)
  <2>4. broker' = after
    BY Zenon
  <2> HIDE DEF got, after
  <2>5. got # <<>>
    BY <2>1
  <2>6. /\ \A i \in 1 .. Len(got) : broker[got[i]] = "ready"
        /\ \A i, j \in 1 .. Len(got) : got[i] = got[j] => i = j
    BY <2>1, <2>2, Zenon
  <2>7. QED
    BY <2>1, <2>3, <2>4, <2>5, <2>6
<1>11. \/ fetcher' = [pc |-> "lease", todo |-> got]
       \/ fetcher' = [fetcher EXCEPT !.pc = "hold"]
       \/ fetcher' = [fetcher EXCEPT !.pc = "done"]
  OBVIOUS
<1> HIDE DEF got
<1>2. TypeInv'
  <2>1. fetcher' \in [pc : {"off", "top", "slot", "fetch", "hold", "lease", "work", "done"},
                      todo : Seq(Toks)]
    <3>1. CASE fetcher' = [pc |-> "lease", todo |-> got]
      BY <1>1, <3>1
    <3>2. CASE fetcher' = [fetcher EXCEPT !.pc = "hold"] \/ fetcher' = [fetcher EXCEPT !.pc = "done"]
      BY <1>0, <3>2 DEF TypeInv
    <3>3. QED
      BY <1>11, <3>1, <3>2
  <2>2. QED
    BY <1>0, <1>1, <2>1 DEF TypeInv
<1>3. ReadyInv'
  BY <1>1 DEF ReadyInv, Ready
<1>4. \A t \in Toks : /\ broker[t] # "ready" => broker'[t] # "ready"
                      /\ t \in ToSet(got) => broker'[t] # "ready"
                      /\ broker'[t] = "ready" => broker[t] = "ready"
  BY <1>1
<1>5. \A i \in 1 .. Len(got) :
        got[i] \in Toks /\ got[i] \in ToSet(got) /\ verdict[got[i]] = "none yet"
  <2>1. \A i \in 1 .. Len(got) : got[i] \in Toks
    BY <1>1
  <2>2. DOMAIN got = 1 .. Len(got)
    BY <1>1
  <2>3. \A i \in 1 .. Len(got) : got[i] \in ToSet(got)
    BY <2>2 DEF ToSet
  <2>4. \A i \in 1 .. Len(got) : verdict[got[i]] = "none yet"
    BY <2>1, <1>0, <1>1 DEF TodoInv
  <2>5. QED
    BY <2>1, <2>3, <2>4
<1>6. \A i \in 1 .. Len(fetcher.todo) : fetcher.todo[i] \in Toks
  <2>1. fetcher.todo \in Seq(Toks)
    BY <1>0 DEF TypeInv
  <2>2. QED
    BY <2>1
<1>7. \/ fetcher'.pc = "lease" /\ fetcher'.todo = got
      \/ fetcher'.pc \in {"hold", "done"} /\ fetcher'.todo = fetcher.todo
  <2>1. CASE fetcher' = [pc |-> "lease", todo |-> got]
    BY <2>1
  <2>2. CASE fetcher' = [fetcher EXCEPT !.pc = "hold"] \/ fetcher' = [fetcher EXCEPT !.pc = "done"]
    BY <1>0, <2>2 DEF TypeInv
  <2>3. QED
    BY <1>11, <2>1, <2>2
<1>8. TodoInv'
  <2>1. \A t \in Toks : broker'[t] = "ready" => verdict'[t] = "none yet"
    BY <1>0, <1>4 DEF TodoInv
  <2>2. CASE fetcher'.pc = "lease" /\ fetcher'.todo = got
    <3>2. \A i \in 1 .. Len(got) : broker'[got[i]] # "ready" /\ verdict[got[i]] = "none yet"
      BY <1>1, <1>4, <1>5
    <3>3. fetcher'.todo # <<>>
      BY <1>1, <2>2, Zenon
    <3>4. \A i \in 1 .. Len(fetcher'.todo) :
            broker'[fetcher'.todo[i]] # "ready" /\ verdict'[fetcher'.todo[i]] = "none yet"
      BY <2>2, <3>2, Zenon
    <3>5. \A i, j \in 1 .. Len(fetcher'.todo) : fetcher'.todo[i] = fetcher'.todo[j] => i = j
      BY <1>1, <2>2
    <3>6. QED
      BY <2>1, <3>3, <3>4, <3>5, Zenon DEF TodoInv
  <2>3. CASE fetcher'.pc \in {"hold", "done"} /\ fetcher'.todo = fetcher.todo
    <3>1. \A i \in 1 .. Len(fetcher.todo) :
            broker'[fetcher.todo[i]] # "ready" /\ verdict[fetcher.todo[i]] = "none yet"
      BY <1>0, <1>4, <1>6 DEF TodoInv
    <3>2. QED
      BY <1>0, <2>1, <2>3, <3>1 DEF TodoInv
  <2>4. QED
    BY <1>7, <2>2, <2>3
<1>9. RunningInv'
  <2>1. ASSUME NEW h \in Handlers, handler[h].pc = "running"
        PROVE  /\ handler[h].tok \in Toks
               /\ broker'[handler[h].tok] # "ready" /\ verdict[handler[h].tok] = "none yet"
               /\ \A i \in 1 .. Len(fetcher'.todo) : fetcher'.todo[i] # handler[h].tok
               /\ \A g \in Handlers :
                     handler[g].pc = "running" /\ handler[g].tok = handler[h].tok => g = h
    <3>1. /\ handler[h].tok \in Toks
          /\ broker[handler[h].tok] # "ready" /\ verdict[handler[h].tok] = "none yet"
          /\ \A i \in 1 .. Len(fetcher.todo) : fetcher.todo[i] # handler[h].tok
          /\ \A g \in Handlers :
                handler[g].pc = "running" /\ handler[g].tok = handler[h].tok => g = h
      BY <1>0, <2>1 DEF RunningInv
    <3>2. \A i \in 1 .. Len(fetcher'.todo) : fetcher'.todo[i] # handler[h].tok
      <4>1. \A i \in 1 .. Len(got) : got[i] # handler[h].tok
        <5>1. \A i \in 1 .. Len(got) : broker[got[i]] = "ready"
          BY <1>1
        <5>2. broker[handler[h].tok] # "ready"
          BY <3>1
        <5>3. QED
          BY <5>1, <5>2
      <4>2. fetcher'.todo = got \/ fetcher'.todo = fetcher.todo
        BY <1>7, Zenon
      <4>3. \A i \in 1 .. Len(fetcher.todo) : fetcher.todo[i] # handler[h].tok
        BY <3>1
      <4>4. CASE fetcher'.todo = got
        BY <4>1, <4>4, Zenon
      <4>5. CASE fetcher'.todo = fetcher.todo
        BY <4>3, <4>5, Zenon
      <4>6. QED
        BY <4>2, <4>4, <4>5
    <3>3. broker'[handler[h].tok] # "ready"
      BY <3>1, <1>4
    <3>4. QED
      BY <3>1, <3>2, <3>3
  <2>2. \A h \in Handlers : handler[h].pc \in {"running", "report"} => handler[h].tok \in Toks
    BY <1>0 DEF RunningInv
  <2>3. QED
    BY <2>1, <2>2 DEF RunningInv
<1>10. QueuesInv'
  BY QueuesKept
<1>12. SettledAsHandled'
  BY <1>0, <1>1 DEF SettledAsHandled
<1>13. QED
  BY <1>2, <1>3, <1>8, <1>9, <1>10, <1>12 DEF IInv

LEMMA FetchKeeps ==
    ASSUME ConstantsAssumption, IInv, Fetch
    PROVE  IInv'
<1>0. TypeInv
  BY DEF IInv
<1>1. UNCHANGED <<handler, outcomes, addLease, doneToken, forceNaks, settler, keeper, lost,
                  verdict>>
  BY DEF Fetch, channels
<1>2. CASE \E k \in 1 .. batchSize : /\ k <= Cardinality(Ready)
                                     /\ fetcher' = [pc |-> "lease", todo |-> Claim(k)]
                                     /\ broker' = Claimed(Claim(k))
  <2>1. PICK k \in 1 .. batchSize : /\ k <= Cardinality(Ready)
                                    /\ fetcher' = [pc |-> "lease", todo |-> Claim(k)]
                                    /\ broker' = Claimed(Claim(k))
    BY <1>2
  <2>2. k \in Nat /\ k >= 1
    BY <2>1
  <2>3. QED
    BY <1>1, <2>1, <2>2, ClaimKeeps
<1>3. CASE /\ \E pc \in {"done", "hold"} : fetcher' = [fetcher EXCEPT !.pc = pc]
           /\ UNCHANGED broker
  <2>1. TypeInv' /\ fetcher'.todo = fetcher.todo
        /\ (fetcher'.pc \in {"lease", "work"} => fetcher.pc \in {"lease", "work"})
    BY <1>0, <1>1, <1>3 DEF TypeInv
  <2>2. QED
    BY <1>1, <1>3, <2>1, PipelineKept, QueuesKept, BrokerKept DEF IInv
<1>4. CASE /\ fetcher' = [fetcher EXCEPT !.pc = "done"] \/ fetcher' = [fetcher EXCEPT !.pc = "hold"]
           /\ Ready # {} /\ broker' = Claimed(Claim(1))
  <2>1. 1 <= Cardinality(Ready)
    <3>1. Ready \subseteq Toks /\ IsFiniteSet(Toks)
      <4>1. Tokens \in Int
        BY DEF ConstantsAssumption
      <4>2. QED
        BY <4>1, FS_Interval DEF Ready, Toks
    <3>2. IsFiniteSet(Ready)
      BY <3>1, FS_Subset
    <3>3. Cardinality(Ready) \in Nat /\ Cardinality(Ready) # 0
      BY <1>4, <3>2, FS_CardinalityType, FS_EmptySet
    <3>4. QED
      BY <3>3
  <2>2. 1 \in Nat /\ 1 >= 1
    OBVIOUS
  <2>3. QED
    BY <1>1, <1>4, <2>1, <2>2, ClaimKeeps
<1>5. QED
  BY <1>2, <1>3, <1>4 DEF Fetch

\* A handler gets what no other has; the fetcher no longer has it.
LEMMA DispatchKeeps ==
    ASSUME IInv, Dispatch
    PROVE  IInv'
<1>0. TypeInv /\ ReadyInv /\ TodoInv /\ RunningInv /\ SettledAsHandled
  BY DEF IInv
<1>1. UNCHANGED <<outcomes, addLease, doneToken, forceNaks, settler, keeper, lost, verdict, broker>>
  BY DEF Dispatch, channels
<1>2. CASE fetcher' = [fetcher EXCEPT !.pc = "done"] /\ UNCHANGED handler
  <2>1. TypeInv' /\ fetcher'.todo = fetcher.todo
        /\ (fetcher'.pc \in {"lease", "work"} => fetcher.pc \in {"lease", "work"})
    BY <1>0, <1>1, <1>2 DEF TypeInv
  <2>2. QED
    BY <1>1, <1>2, <2>1, PipelineKept, QueuesKept, BrokerKept DEF IInv
<1>3. ASSUME NEW h \in Handlers, fetcher.pc = "work", handler[h].pc = "idle",
             handler' = [handler EXCEPT ![h] = [pc |-> "running", tok |-> Head(fetcher.todo)]],
             fetcher' = [pc |-> IF Len(fetcher.todo) = 1 THEN "top" ELSE "lease",
                         todo |-> Tail(fetcher.todo)]
      PROVE  IInv'
  <2> DEFINE todo == fetcher.todo
  <2> DEFINE rest == Tail(todo)
  <2> DEFINE t == Head(todo)
  <2>1. todo \in Seq(Toks) /\ todo # <<>>
    BY <1>0, <1>3 DEF TypeInv, TodoInv
  <2>2. /\ \A i \in 1 .. Len(todo) : broker[todo[i]] # "ready" /\ verdict[todo[i]] = "none yet"
        /\ \A i, j \in 1 .. Len(todo) : todo[i] = todo[j] => i = j
    BY <1>0 DEF TodoInv
  <2>3. fetcher'.todo = rest /\ fetcher'.pc = IF Len(todo) = 1 THEN "top" ELSE "lease"
    BY <1>3
  <2> HIDE DEF todo
  <2>4. /\ t \in Toks /\ t = todo[1] /\ rest \in Seq(Toks)
        /\ Len(todo) \in Nat /\ Len(todo) >= 1 /\ Len(rest) = Len(todo) - 1
        /\ \A i \in 1 .. Len(rest) : i + 1 \in 1 .. Len(todo) /\ rest[i] = todo[i + 1]
    BY <2>1, TailFacts
  <2> HIDE DEF rest, t
  <2>5. 1 \in 1 .. Len(todo) /\ \A i \in 1 .. Len(rest) : i + 1 # 1
    BY <2>4
  <2>6. broker[t] # "ready" /\ verdict[t] = "none yet" /\ \A i \in 1 .. Len(rest) : rest[i] # t
    BY <2>2, <2>4, <2>5, Zenon
  <2>7. /\ \A i \in 1 .. Len(rest) : broker[rest[i]] # "ready" /\ verdict[rest[i]] = "none yet"
        /\ \A i, j \in 1 .. Len(rest) : rest[i] = rest[j] => i = j
    <3>1. ASSUME NEW i \in 1 .. Len(rest)
          PROVE  broker[rest[i]] # "ready" /\ verdict[rest[i]] = "none yet"
      <4>1. i + 1 \in 1 .. Len(todo) /\ rest[i] = todo[i + 1]
        BY <2>4
      <4>2. broker[todo[i + 1]] # "ready" /\ verdict[todo[i + 1]] = "none yet"
        BY <2>2, <4>1
      <4>3. QED
        BY <4>1, <4>2
    <3>2. ASSUME NEW i \in 1 .. Len(rest), NEW j \in 1 .. Len(rest), rest[i] = rest[j]
          PROVE  i = j
      <4>1. /\ i + 1 \in 1 .. Len(todo) /\ rest[i] = todo[i + 1]
            /\ j + 1 \in 1 .. Len(todo) /\ rest[j] = todo[j + 1]
        BY <2>4
      <4>2. i + 1 = j + 1
        BY <2>2, <3>2, <4>1
      <4>3. i \in Int /\ j \in Int
        BY <2>4
      <4>4. QED
        BY <4>2, <4>3
    <3>3. QED
      BY <3>1, <3>2
  <2>8. /\ handler'[h] = [pc |-> "running", tok |-> t]
        /\ \A g \in Handlers \ {h} : handler'[g] = handler[g]
        /\ handler' \in [Handlers -> [pc : {"idle", "running", "report", "exited"},
                                      tok : Toks \cup {NoTok}]]
    BY <1>0, <1>3, <2>4 DEF TypeInv, t, todo
  <2>9. TypeInv'
    <3>1. fetcher' \in [pc : {"off", "top", "slot", "fetch", "hold", "lease", "work", "done"},
                        todo : Seq(Toks)]
      BY <1>3, <2>4 DEF rest, todo
    <3>2. QED
      BY <1>0, <1>1, <2>8, <3>1 DEF TypeInv
  <2>10. ReadyInv'
    BY <1>0, <1>1 DEF ReadyInv, Ready
  <2>11. TodoInv'
    <3>1. \A x \in Toks : broker'[x] = "ready" => verdict'[x] = "none yet"
      BY <1>0, <1>1 DEF TodoInv
    <3>2. fetcher'.pc \in {"lease", "work"} => fetcher'.todo # <<>>
      <4>1. SUFFICES ASSUME Len(todo) # 1 PROVE rest # <<>>
        BY <2>3
      <4>2. QED
        BY <2>4, <4>1
    <3>3. \A i \in 1 .. Len(fetcher'.todo) :
            broker'[fetcher'.todo[i]] # "ready" /\ verdict'[fetcher'.todo[i]] = "none yet"
      BY <1>1, <2>3, <2>7, Zenon
    <3>4. \A i, j \in 1 .. Len(fetcher'.todo) : fetcher'.todo[i] = fetcher'.todo[j] => i = j
      BY <2>3, <2>7, Zenon
    <3>5. QED
      BY <3>1, <3>2, <3>3, <3>4, Zenon DEF TodoInv
  <2>12. RunningInv'
    <3>1. ASSUME NEW g \in Handlers, handler[g].pc = "running"
          PROVE  /\ g # h /\ handler[g].tok \in Toks /\ handler[g].tok # t
                 /\ broker[handler[g].tok] # "ready" /\ verdict[handler[g].tok] = "none yet"
                 /\ \A i \in 1 .. Len(rest) : rest[i] # handler[g].tok
                 /\ \A f \in Handlers :
                      handler[f].pc = "running" /\ handler[f].tok = handler[g].tok => f = g
      <4>1. /\ handler[g].tok \in Toks
            /\ broker[handler[g].tok] # "ready" /\ verdict[handler[g].tok] = "none yet"
            /\ \A i \in 1 .. Len(todo) : todo[i] # handler[g].tok
            /\ \A f \in Handlers :
                 handler[f].pc = "running" /\ handler[f].tok = handler[g].tok => f = g
        BY <1>0, <3>1 DEF RunningInv, todo
      <4>2. g # h
        BY <1>3, <3>1
      <4>3. handler[g].tok # t
        BY <2>4, <2>5, <4>1, Zenon
      <4>4. \A i \in 1 .. Len(rest) : rest[i] # handler[g].tok
        BY <2>4, <4>1, Zenon
      <4>5. QED
        BY <4>1, <4>2, <4>3, <4>4
    <3>2. \A g \in Handlers : handler'[g].pc \in {"running", "report"} => handler'[g].tok \in Toks
      <4>1. handler'[h].tok \in Toks
        BY <2>4, <2>8
      <4>2. \A g \in Handlers \ {h} :
              handler'[g].pc \in {"running", "report"} => handler'[g].tok \in Toks
        BY <1>0, <2>8 DEF RunningInv
      <4>3. QED
        BY <4>1, <4>2
    <3>3. ASSUME NEW g \in Handlers, handler'[g].pc = "running"
          PROVE  /\ broker'[handler'[g].tok] # "ready" /\ verdict'[handler'[g].tok] = "none yet"
                 /\ \A i \in 1 .. Len(fetcher'.todo) : fetcher'.todo[i] # handler'[g].tok
                 /\ \A f \in Handlers :
                      handler'[f].pc = "running" /\ handler'[f].tok = handler'[g].tok => f = g
      <4>1. CASE g = h
        <5>1. handler'[g].tok = t
          BY <4>1, <2>8
        <5>2. \A f \in Handlers : handler'[f].pc = "running" /\ handler'[f].tok = t => f = h
          BY <2>8, <3>1
        <5>3. \A i \in 1 .. Len(fetcher'.todo) : fetcher'.todo[i] # t
          BY <2>3, <2>6, Zenon
        <5>4. QED
          BY <1>1, <2>6, <4>1, <5>1, <5>2, <5>3
      <4>2. CASE g # h
        <5>1. handler'[g] = handler[g] /\ handler[g].pc = "running"
          BY <4>2, <3>3, <2>8
        <5>2. \A f \in Handlers :
                handler'[f].pc = "running" /\ handler'[f].tok = handler[g].tok => f = g
          <6>1. handler[g].tok # t
            BY <3>1, <5>1
          <6>2. handler'[h].tok = t
            BY <2>8
          <6>3. \A f \in Handlers : handler[f].pc = "running" /\ handler[f].tok = handler[g].tok => f = g
            BY <3>1, <5>1
          <6>4. QED
            BY <2>8, <6>1, <6>2, <6>3
        <5>3. \A i \in 1 .. Len(fetcher'.todo) : fetcher'.todo[i] # handler[g].tok
          BY <2>3, <3>1, <5>1, Zenon
        <5>4. QED
          BY <1>1, <3>1, <5>1, <5>2, <5>3
      <4>3. QED
        BY <4>1, <4>2
    <3>4. QED
      BY <3>2, <3>3, Zenon DEF RunningInv
  <2>13. QueuesInv' /\ SettledAsHandled'
    BY <1>1, QueuesKept, BrokerKept
  <2>14. QED
    BY <2>9, <2>10, <2>11, <2>12, <2>13 DEF IInv
<1>4. QED
  BY <1>2, <1>3 DEF Dispatch

-----------------------------------------------------------------------------
(* The handlers.                                                             *)

\* The only step that gives a verdict gives it to a delivery that had none, so
\* nothing that was decided on an earlier verdict is overtaken.
LEMMA HandleKeeps ==
    ASSUME ConstantsAssumption, IInv, NEW h \in Handlers, Handle(h)
    PROVE  IInv'
<1> DEFINE t == handler[h].tok
<1>0. TypeInv /\ ReadyInv /\ TodoInv /\ RunningInv /\ QueuesInv /\ SettledAsHandled
  BY DEF IInv
<1>1. /\ UNCHANGED <<fetcher, outcomes, addLease, doneToken, forceNaks, settler, keeper, lost, broker>>
      /\ handler[h].pc = "running" /\ handler' = [handler EXCEPT ![h].pc = "report"]
  BY DEF Handle, channels
<1>2. PICK v \in Verdicts : verdict' = [verdict EXCEPT ![t] = v]
  BY DEF Handle
<1>3. /\ t \in Toks /\ broker[t] # "ready" /\ verdict[t] = "none yet"
      /\ \A i \in 1 .. Len(fetcher.todo) : fetcher.todo[i] # t
      /\ \A g \in Handlers : handler[g].pc = "running" /\ handler[g].tok = t => g = h
  BY <1>0, <1>1 DEF RunningInv
<1>4. v \in {"ack", "nak", "term", "none"}
  BY <1>2 DEF ConstantsAssumption
<1>5. /\ verdict' \in [Toks -> {"none yet", "ack", "nak", "term", "none"}]
      /\ \A x \in Toks \ {t} : verdict'[x] = verdict[x]
  BY <1>0, <1>2, <1>4 DEF TypeInv
<1>6. /\ handler' \in [Handlers -> [pc : {"idle", "running", "report", "exited"},
                                    tok : Toks \cup {NoTok}]]
      /\ handler'[h].pc = "report" /\ handler'[h].tok = t
      /\ \A g \in Handlers \ {h} : handler'[g] = handler[g]
  <2> DEFINE Rec == [pc : {"idle", "running", "report", "exited"}, tok : Toks \cup {NoTok}]
  <2> DEFINE new == [handler[h] EXCEPT !.pc = "report"]
  <2>1. handler \in [Handlers -> Rec] /\ handler[h] \in Rec
    BY <1>0 DEF TypeInv
  <2>2. new \in Rec /\ new.pc = "report" /\ new.tok = t
    BY <2>1
  <2>3. handler' = [handler EXCEPT ![h] = new]
    BY <1>1
  <2> HIDE DEF new, Rec
  <2>4. handler' \in [Handlers -> Rec] /\ handler'[h] = new
        /\ \A g \in Handlers \ {h} : handler'[g] = handler[g]
    BY <2>1, <2>2, <2>3
  <2>5. QED
    BY <2>2, <2>4 DEF Rec
<1> HIDE DEF t
<1>7. TypeInv'
  BY <1>0, <1>1, <1>5, <1>6 DEF TypeInv
<1>8. ReadyInv'
  BY <1>0, <1>1 DEF ReadyInv, Ready
<1>9. TodoInv'
  <2>1. fetcher.todo \in Seq(Toks)
    BY <1>0 DEF TypeInv
  <2>2. \A i \in 1 .. Len(fetcher.todo) : fetcher.todo[i] \in Toks
    BY <2>1
  <2>3. \A i \in 1 .. Len(fetcher.todo) :
          broker[fetcher.todo[i]] # "ready" /\ verdict'[fetcher.todo[i]] = "none yet"
    BY <1>0, <1>3, <1>5, <2>2 DEF TodoInv
  <2>4. \A x \in Toks : broker[x] = "ready" => verdict'[x] = "none yet"
    BY <1>0, <1>3, <1>5 DEF TodoInv
  <2>5. QED
    BY <1>0, <1>1, <2>3, <2>4 DEF TodoInv
<1>10. RunningInv'
  <2>1. \A g \in Handlers : handler'[g].pc \in {"running", "report"} => handler'[g].tok \in Toks
    <3>1. \A g \in Handlers \ {h} : handler'[g].pc \in {"running", "report"} => handler'[g].tok \in Toks
      BY <1>0, <1>6 DEF RunningInv
    <3>2. QED
      BY <1>3, <1>6, <3>1
  <2>2. ASSUME NEW g \in Handlers, handler'[g].pc = "running"
        PROVE  /\ broker'[handler'[g].tok] # "ready" /\ verdict'[handler'[g].tok] = "none yet"
               /\ \A i \in 1 .. Len(fetcher'.todo) : fetcher'.todo[i] # handler'[g].tok
               /\ \A f \in Handlers :
                    handler'[f].pc = "running" /\ handler'[f].tok = handler'[g].tok => f = g
    <3>1. g # h /\ handler'[g] = handler[g] /\ handler[g].pc = "running"
      BY <1>6, <2>2
    <3>2. /\ handler[g].tok \in Toks
          /\ broker[handler[g].tok] # "ready" /\ verdict[handler[g].tok] = "none yet"
          /\ \A i \in 1 .. Len(fetcher.todo) : fetcher.todo[i] # handler[g].tok
          /\ \A f \in Handlers :
               handler[f].pc = "running" /\ handler[f].tok = handler[g].tok => f = g
      BY <1>0, <3>1 DEF RunningInv
    <3>3. handler[g].tok # t
      BY <1>3, <3>1
    <3>4. \A f \in Handlers : handler'[f].pc = "running" => handler'[f] = handler[f]
      BY <1>6
    <3>5. \A f \in Handlers :
            handler'[f].pc = "running" /\ handler'[f].tok = handler[g].tok => f = g
      BY <3>2, <3>4
    <3>6. verdict'[handler[g].tok] = "none yet"
      BY <1>5, <3>2, <3>3
    <3>7. QED
      BY <1>1, <3>1, <3>2, <3>5, <3>6
  <2>3. QED
    BY <2>1, <2>2, Zenon DEF RunningInv
<1>11. QueuesInv'
  <2>1. settler.acks \in Seq(Toks)
    BY <1>0 DEF TypeInv
  <2>2. \A i \in 1 .. Len(settler.acks) : settler.acks[i] \in Toks
    BY <2>1
  <2>3. \A i \in 1 .. Len(settler.acks) : verdict'[settler.acks[i]] = "ack"
    BY <1>0, <1>3, <1>5, <2>2 DEF QueuesInv
  <2>4. QED
    BY <1>0, <1>1, <2>3 DEF QueuesInv
<1>12. SettledAsHandled'
  BY <1>0, <1>1, <1>3, <1>5 DEF SettledAsHandled
<1>13. QED
  BY <1>7, <1>8, <1>9, <1>10, <1>11, <1>12 DEF IInv

LEMMA HandlerStepKeeps ==
    ASSUME IInv, NEW h \in Handlers, HandlerStep(h)
    PROVE  IInv'
<1>0. TypeInv /\ RunningInv
  BY DEF IInv
<1>1. /\ UNCHANGED <<fetcher, addLease, doneToken, forceNaks, settler, keeper, lost, verdict, broker>>
      /\ \/ handler' = [handler EXCEPT ![h] = [pc |-> "idle", tok |-> NoTok]]
         \/ handler' = [handler EXCEPT ![h] = [pc |-> "exited", tok |-> NoTok]]
         \/ handler' = [handler EXCEPT ![h].pc = "exited"]
  BY DEF HandlerStep, Report, HandlerExit, channels
<1>2. outcomes' \in Seq(Toks)
  <2>1. CASE handler[h].pc = "report" /\ outcomes' = Append(outcomes, handler[h].tok)
    <3>1. handler[h].tok \in Toks /\ outcomes \in Seq(Toks)
      BY <1>0, <2>1 DEF RunningInv, TypeInv
    <3>2. QED
      BY <2>1, <3>1, AppendFacts
  <2>2. CASE UNCHANGED outcomes
    BY <1>0, <2>2 DEF TypeInv
  <2>3. QED
    BY <2>1, <2>2 DEF HandlerStep, Report, HandlerExit, channels
<1>3. /\ handler' \in [Handlers -> [pc : {"idle", "running", "report", "exited"},
                                    tok : Toks \cup {NoTok}]]
      /\ handler'[h].pc \in {"idle", "exited"}
      /\ \A g \in Handlers \ {h} : handler'[g] = handler[g]
  <2> DEFINE Rec == [pc : {"idle", "running", "report", "exited"}, tok : Toks \cup {NoTok}]
  <2>1. handler \in [Handlers -> Rec] /\ handler[h] \in Rec
    BY <1>0 DEF TypeInv
  <2>2. ASSUME NEW new \in Rec, new.pc \in {"idle", "exited"}, handler' = [handler EXCEPT ![h] = new]
        PROVE  /\ handler' \in [Handlers -> Rec] /\ handler'[h].pc \in {"idle", "exited"}
               /\ \A g \in Handlers \ {h} : handler'[g] = handler[g]
    <3> HIDE DEF Rec
    <3>1. QED
      BY <2>1, <2>2
  <2>3. CASE handler' = [handler EXCEPT ![h] = [pc |-> "idle", tok |-> NoTok]]
    <3>1. [pc |-> "idle", tok |-> NoTok] \in Rec
      OBVIOUS
    <3>2. QED
      BY <2>2, <2>3, <3>1
  <2>4. CASE handler' = [handler EXCEPT ![h] = [pc |-> "exited", tok |-> NoTok]]
    <3>1. [pc |-> "exited", tok |-> NoTok] \in Rec
      OBVIOUS
    <3>2. QED
      BY <2>2, <2>4, <3>1
  <2>5. CASE handler' = [handler EXCEPT ![h].pc = "exited"]
    <3> DEFINE new == [handler[h] EXCEPT !.pc = "exited"]
    <3>1. new \in Rec /\ new.pc = "exited" /\ handler' = [handler EXCEPT ![h] = new]
      BY <2>1, <2>5
    <3> HIDE DEF new
    <3>2. QED
      BY <2>2, <3>1
  <2>6. QED
    BY <1>1, <2>3, <2>4, <2>5
<1>4. TypeInv'
  BY <1>0, <1>1, <1>2, <1>3 DEF TypeInv
<1>5. \A g \in Handlers : handler'[g] = handler[g] \/ handler'[g].pc \in {"idle", "exited"}
  BY <1>3
<1>6. QED
  BY <1>1, <1>4, <1>5, PipelineKept, QueuesKept, BrokerKept DEF IInv

-----------------------------------------------------------------------------
(* The settler.                                                              *)

\* Between two requests the settler moves deliveries from one of its own places
\* to the next.
LEMMA SettlerTurnKeeps ==
    ASSUME IInv, SettlerTimer \/ SettlerDone \/ SettlerDrained \/ SettlerSend
    PROVE  IInv'
<1>0. TypeInv
  BY DEF IInv
<1>1. UNCHANGED <<fetcher, handler, outcomes, addLease, forceNaks, keeper, lost, verdict, broker>>
  BY DEF SettlerTimer, SettlerDone, SettlerDrained, SettlerSend, channels
<1>2. /\ settler' \in [pc : {"select", "drain", "flush", "send", "gone"}, acks : Seq(Toks),
                       sends : Seq(Toks), release : Nat, then : {"select", "drain", "gone"}]
      /\ settler'.acks = settler.acks
      /\ doneToken' \in Seq(Toks)
  <2>1. settler \in [pc : {"select", "drain", "flush", "send", "gone"}, acks : Seq(Toks),
                     sends : Seq(Toks), release : Nat, then : {"select", "drain", "gone"}]
        /\ doneToken \in Seq(Toks)
    BY <1>0 DEF TypeInv
  <2>2. CASE /\ UNCHANGED doneToken
             /\ \E pc \in {"flush", "drain"}, then \in {"select", "drain", "gone"} :
                  settler' = [settler EXCEPT !.pc = pc, !.then = then]
    BY <2>1, <2>2
  <2>3. CASE UNCHANGED doneToken /\ settler' = [settler EXCEPT !.pc = settler.then, !.release = 0]
    BY <2>1, <2>3
  <2>4. CASE /\ settler.sends # <<>> /\ doneToken' = Append(doneToken, Head(settler.sends))
             /\ settler' = [settler EXCEPT !.sends = Tail(@)]
    <3>1. settler.sends \in Seq(Toks)
      BY <2>1
    <3>2. Head(settler.sends) \in Toks /\ Tail(settler.sends) \in Seq(Toks)
      BY <2>4, <3>1, TailFacts
    <3>3. doneToken' \in Seq(Toks)
      BY <2>1, <2>4, <3>2, AppendFacts
    <3>4. QED
      BY <2>1, <2>4, <3>2, <3>3
  <2>5. QED
    BY <2>2, <2>3, <2>4 DEF SettlerTimer, SettlerDone, SettlerDrained, SettlerSend, channels
<1>3. TypeInv'
  BY <1>0, <1>1, <1>2 DEF TypeInv
<1>4. QED
  BY <1>1, <1>2, <1>3, PipelineKept, QueuesKept, BrokerKept DEF IInv

LEMMA SettlerForceNakKeeps ==
    ASSUME IInv, SettlerForceNak
    PROVE  IInv'
<1>0. TypeInv /\ QueuesInv
  BY DEF IInv
<1>1. /\ UNCHANGED <<fetcher, handler, outcomes, addLease, doneToken, settler, keeper, lost, verdict>>
      /\ forceNaks # <<>> /\ forceNaks' = Tail(forceNaks) /\ Settle({Head(forceNaks)}, "nak")
  BY DEF SettlerForceNak
<1>2. forceNaks \in Seq(Toks)
  BY <1>0 DEF TypeInv
<1>3. /\ Head(forceNaks) \in Toks /\ Head(forceNaks) = forceNaks[1] /\ 1 \in 1 .. Len(forceNaks)
      /\ forceNaks' \in Seq(Toks)
  BY <1>1, <1>2, TailFacts
<1>4. Head(forceNaks) \in lost
  BY <1>0, <1>3 DEF QueuesInv
<1>5. /\ broker' \in [Toks -> {"ready", "leased", "expired", "ack", "nak", "term"}]
      /\ \A t \in Toks : broker'[t] = "ready" <=> broker[t] = "ready"
      /\ SettledAsHandled'
  BY <1>1, <1>3, <1>4, SettleIsTrue
<1>6. TypeInv'
  BY <1>0, <1>1, <1>3, <1>5 DEF TypeInv
<1>7. QED
  BY <1>1, <1>5, <1>6, PipelineKept, QueuesKept DEF IInv

LEMMA SettlerFlushKeeps ==
    ASSUME IInv, SettlerFlush
    PROVE  IInv'
<1>0. TypeInv /\ QueuesInv
  BY DEF IInv
<1>1. /\ UNCHANGED <<fetcher, handler, outcomes, addLease, doneToken, forceNaks, keeper, lost, verdict>>
      /\ settler' = [settler EXCEPT !.pc = "send", !.sends = settler.acks, !.acks = <<>>,
                                    !.release = Len(settler.acks)]
  BY DEF SettlerFlush, channels
<1>2. settler \in [pc : {"select", "drain", "flush", "send", "gone"}, acks : Seq(Toks),
                   sends : Seq(Toks), release : Nat, then : {"select", "drain", "gone"}]
      /\ settler.acks \in Seq(Toks) /\ Len(settler.acks) \in Nat
  <2>1. settler \in [pc : {"select", "drain", "flush", "send", "gone"}, acks : Seq(Toks),
                     sends : Seq(Toks), release : Nat, then : {"select", "drain", "gone"}]
    BY <1>0 DEF TypeInv
  <2>2. settler.acks \in Seq(Toks)
    BY <2>1
  <2>3. QED
    BY <2>1, <2>2
<1>3. ToSet(settler.acks) \subseteq Toks /\ \A t \in ToSet(settler.acks) : verdict[t] = "ack"
  <2>1. DOMAIN settler.acks = 1 .. Len(settler.acks)
    BY <1>2
  <2>2. \A i \in 1 .. Len(settler.acks) : settler.acks[i] \in Toks
    BY <1>2
  <2>3. QED
    BY <1>0, <2>1, <2>2 DEF ToSet, QueuesInv
<1>4. /\ broker' \in [Toks -> {"ready", "leased", "expired", "ack", "nak", "term"}]
      /\ \A t \in Toks : broker'[t] = "ready" <=> broker[t] = "ready"
      /\ SettledAsHandled'
  <2>1. CASE UNCHANGED broker
    BY <1>0, <1>1, <2>1, BrokerKept DEF TypeInv
  <2>2. CASE Settle(ToSet(settler.acks), "ack")
    BY <1>1, <1>3, <2>2, SettleIsTrue
  <2>3. QED
    BY <2>1, <2>2 DEF SettlerFlush
<1>5. <<>> \in Seq(Toks)
  OBVIOUS
<1>6. /\ settler' \in [pc : {"select", "drain", "flush", "send", "gone"}, acks : Seq(Toks),
                       sends : Seq(Toks), release : Nat, then : {"select", "drain", "gone"}]
      /\ settler'.acks = <<>>
  BY <1>1, <1>2, <1>5
<1>7. TypeInv'
  BY <1>0, <1>1, <1>4, <1>6 DEF TypeInv
<1>8. QED
  BY <1>1, <1>4, <1>6, <1>7, PipelineKept, QueuesKept DEF IInv

\* An outcome is dropped when its lease was lost, acked later, or settled now
\* with the verdict of its handler.
LEMMA SettlerOutcomeKeeps ==
    ASSUME IInv, SettlerOutcome
    PROVE  IInv'
<1> DEFINE t == Head(outcomes)
<1>0. TypeInv /\ QueuesInv
  BY DEF IInv
<1>1. /\ UNCHANGED <<fetcher, handler, addLease, doneToken, forceNaks, keeper, lost, verdict>>
      /\ outcomes # <<>> /\ outcomes' = Tail(outcomes) /\ handle(t)
      /\ settler.pc \in {"select", "drain"}
  BY DEF SettlerOutcome
<1>2. /\ settler \in [pc : {"select", "drain", "flush", "send", "gone"}, acks : Seq(Toks),
                      sends : Seq(Toks), release : Nat, then : {"select", "drain", "gone"}]
      /\ settler.acks \in Seq(Toks) /\ outcomes \in Seq(Toks)
  BY <1>0 DEF TypeInv
<1>3. t \in Toks /\ outcomes' \in Seq(Toks)
  BY <1>1, <1>2, TailFacts
<1> HIDE DEF t
<1>4. CASE finishItem(t) /\ (UNCHANGED broker \/ (/\ verdict[t] \in {"nak", "term"}
                                                   /\ Settle({t}, verdict[t])))
  <2>1. settler' = [settler EXCEPT !.pc = "send", !.sends = <<t>>, !.release = 0,
                                   !.then = settler.pc]
    BY <1>4 DEF finishItem
  <2>2. <<t>> \in Seq(Toks)
    BY <1>3
  <2>3. /\ settler' \in [pc : {"select", "drain", "flush", "send", "gone"}, acks : Seq(Toks),
                         sends : Seq(Toks), release : Nat, then : {"select", "drain", "gone"}]
        /\ settler'.acks = settler.acks
    BY <1>1, <1>2, <2>1, <2>2
  <2>4. /\ broker' \in [Toks -> {"ready", "leased", "expired", "ack", "nak", "term"}]
        /\ \A x \in Toks : broker'[x] = "ready" <=> broker[x] = "ready"
        /\ SettledAsHandled'
    <3>1. CASE UNCHANGED broker
      BY <1>0, <1>1, <3>1, BrokerKept DEF TypeInv
    <3>2. CASE verdict[t] \in {"nak", "term"} /\ Settle({t}, verdict[t])
      <4>1. {t} \in SUBSET Toks /\ verdict[t] \in {"ack", "nak", "term"}
        BY <1>3, <3>2
      <4>2. QED
        BY <1>1, <3>2, <4>1, SettleIsTrue
    <3>3. QED
      BY <1>4, <3>1, <3>2
  <2>5. TypeInv'
    BY <1>0, <1>1, <1>3, <2>3, <2>4 DEF TypeInv
  <2>6. QED
    BY <1>1, <2>3, <2>4, <2>5, PipelineKept, QueuesKept DEF IInv
<1>5. CASE /\ verdict[t] = "ack" /\ UNCHANGED broker
           /\ settler' = [settler EXCEPT !.acks = Append(@, t),
                                         !.pc = IF Len(settler.acks) + 1 >= AckCap THEN "flush" ELSE @,
                                         !.then = settler.pc]
  <2>1. /\ Append(settler.acks, t) \in Seq(Toks)
        /\ \A i \in 1 .. Len(Append(settler.acks, t)) :
             \/ Append(settler.acks, t)[i] = t
             \/ i \in 1 .. Len(settler.acks) /\ Append(settler.acks, t)[i] = settler.acks[i]
    BY <1>2, <1>3, AppendFacts
  <2> DEFINE acks == Append(settler.acks, t)
  <2> HIDE DEF acks
  <2>2. \E pc \in {"flush", "select", "drain"} :
          settler' = [settler EXCEPT !.acks = acks, !.pc = pc, !.then = settler.pc]
    BY <1>1, <1>2, <1>5 DEF acks
  <2>3. acks \in Seq(Toks)
    BY <2>1 DEF acks
  <2>4. /\ settler' \in [pc : {"select", "drain", "flush", "send", "gone"}, acks : Seq(Toks),
                         sends : Seq(Toks), release : Nat, then : {"select", "drain", "gone"}]
        /\ settler'.acks = acks
    BY <1>1, <1>2, <2>2, <2>3
  <2>5. TypeInv'
    BY <1>0, <1>1, <1>3, <1>5, <2>4 DEF TypeInv
  <2>6. QueuesInv'
    <3>1. \A i \in 1 .. Len(acks) : verdict[acks[i]] = "ack"
      BY <1>0, <1>5, <2>1 DEF acks, QueuesInv
    <3>2. QED
      BY <1>0, <1>1, <2>4, <3>1 DEF QueuesInv
  <2>7. QED
    BY <1>1, <1>5, <2>5, <2>6, PipelineKept, BrokerKept DEF IInv
<1>6. QED
  BY <1>1, <1>4, <1>5 DEF handle

-----------------------------------------------------------------------------
(* The keeper.                                                               *)

\* What the keeper gives up is lost first, then queued to be naked.
LEMMA GiveUpFacts ==
    ASSUME IInv, NEW t \in Toks, giveUp(t), UNCHANGED <<settler, verdict>>
    PROVE  /\ lost' \subseteq Toks /\ lost \subseteq lost'
           /\ forceNaks' \in Seq(Toks) /\ QueuesInv'
<1>0. TypeInv /\ QueuesInv
  BY DEF IInv
<1>1. lost' = lost \cup {t} /\ lost' \subseteq Toks /\ lost \subseteq lost' /\ t \in lost'
  BY <1>0 DEF giveUp, TypeInv
<1>2. forceNaks \in Seq(Toks)
  BY <1>0 DEF TypeInv
<1>3. CASE UNCHANGED forceNaks
  BY <1>0, <1>1, <1>2, <1>3 DEF QueuesInv
<1>4. CASE forceNaks' = Append(forceNaks, t)
  <2>1. /\ forceNaks' \in Seq(Toks)
        /\ \A i \in 1 .. Len(forceNaks') :
             forceNaks'[i] = t \/ (i \in 1 .. Len(forceNaks) /\ forceNaks'[i] = forceNaks[i])
    BY <1>2, <1>4, AppendFacts
  <2>2. \A i \in 1 .. Len(forceNaks') : forceNaks'[i] \in lost'
    BY <1>0, <1>1, <2>1 DEF QueuesInv
  <2>3. QED
    BY <1>0, <1>1, <2>1, <2>2 DEF QueuesInv
<1>5. QED
  BY <1>3, <1>4 DEF giveUp

LEMMA KeeperKeeps ==
    ASSUME IInv, KeeperStep
    PROVE  IInv'
<1> DEFINE Keeper == [pc : {"loop", "extend", "giveUpAll", "gone"},
                      heap : SUBSET Toks, due : SUBSET Toks]
<1>0. TypeInv /\ QueuesInv /\ keeper \in Keeper /\ lost \subseteq Toks
  BY DEF IInv, TypeInv
<1>1. UNCHANGED <<fetcher, handler, outcomes, settler, verdict, broker>>
  BY DEF KeeperStep, KeeperAdd, KeeperToken, KeeperStop, KeeperReturn, KeeperDeadline, KeeperGiveUp,
         KeeperDue, KeeperMaxLease, KeeperExtend, channels
<1>2. SUFFICES /\ keeper' \in Keeper /\ addLease' \in Seq(Toks) /\ doneToken' \in Seq(Toks)
               /\ forceNaks' \in Seq(Toks) /\ lost' \subseteq Toks /\ lost \subseteq lost'
               /\ QueuesInv'
  <2>1. TypeInv'
    BY <1>0, <1>1, <1>2 DEF TypeInv
  <2>2. QED
    BY <1>1, <1>2, <2>1, PipelineKept, BrokerKept DEF IInv
<1>3. addLease \in Seq(Toks) /\ doneToken \in Seq(Toks) /\ forceNaks \in Seq(Toks)
  BY <1>0 DEF TypeInv
<1>4. CASE KeeperAdd
  <2>1. /\ UNCHANGED <<doneToken, forceNaks, lost>> /\ addLease # <<>> /\ addLease' = Tail(addLease)
        /\ keeper' = [keeper EXCEPT !.heap = @ \union {Head(addLease)}]
    BY <1>4 DEF KeeperAdd
  <2>2. Head(addLease) \in Toks /\ Tail(addLease) \in Seq(Toks)
    BY <1>3, <2>1, TailFacts
  <2>3. keeper' \in Keeper
    BY <1>0, <2>1, <2>2
  <2>4. QED
    BY <1>0, <1>1, <1>3, <2>1, <2>2, <2>3, QueuesKept
<1>5. CASE KeeperToken
  <2>1. /\ UNCHANGED <<addLease, forceNaks, lost>> /\ doneToken # <<>> /\ doneToken' = Tail(doneToken)
        /\ keeper' = [keeper EXCEPT !.heap = @ \ {Head(doneToken)}]
    BY <1>5 DEF KeeperToken
  <2>2. Tail(doneToken) \in Seq(Toks)
    BY <1>3, <2>1, TailFacts
  <2>3. keeper' \in Keeper
    BY <1>0, <2>1
  <2>4. QED
    BY <1>0, <1>1, <1>3, <2>1, <2>2, <2>3, QueuesKept
<1>6. CASE KeeperStop \/ KeeperReturn \/ KeeperDeadline
  <2>1. /\ UNCHANGED <<addLease, doneToken, forceNaks, lost>>
        /\ keeper' = keeper \/ \E pc \in {"gone", "giveUpAll"} : keeper' = [keeper EXCEPT !.pc = pc]
    BY <1>6 DEF KeeperStop, KeeperReturn, KeeperDeadline, channels
  <2>2. keeper' \in Keeper
    BY <1>0, <2>1
  <2>3. QED
    BY <1>0, <1>1, <1>3, <2>1, <2>2, QueuesKept
<1>7. CASE KeeperGiveUp
  <2>1. UNCHANGED <<addLease, doneToken>>
    BY <1>7 DEF KeeperGiveUp
  <2>2. CASE keeper' = [keeper EXCEPT !.pc = "gone"] /\ UNCHANGED <<lost, forceNaks>>
    <3>1. keeper' \in Keeper
      BY <1>0, <2>2
    <3>2. QED
      BY <1>0, <1>1, <1>3, <2>1, <2>2, <3>1, QueuesKept
  <2>3. ASSUME NEW t \in keeper.heap, giveUp(t), keeper' = [keeper EXCEPT !.heap = @ \ {t}]
        PROVE  /\ keeper' \in Keeper /\ lost' \subseteq Toks /\ lost \subseteq lost'
               /\ forceNaks' \in Seq(Toks) /\ QueuesInv'
    <3>1. keeper' \in Keeper /\ t \in Toks
      BY <1>0, <2>3
    <3>2. QED
      BY <1>1, <2>3, <3>1, GiveUpFacts
  <2>4. QED
    BY <1>3, <1>7, <2>1, <2>2, <2>3 DEF KeeperGiveUp
<1>8. CASE KeeperDue
  <2>1. /\ UNCHANGED <<addLease, doneToken, forceNaks, lost>>
        /\ \E due \in SUBSET keeper.heap :
             keeper' = [keeper EXCEPT !.pc = "extend", !.heap = @ \ due, !.due = due]
    BY <1>8 DEF KeeperDue, channels
  <2>2. keeper' \in Keeper
    BY <1>0, <2>1
  <2>3. QED
    BY <1>0, <1>1, <1>3, <2>1, <2>2, QueuesKept
<1>9. CASE KeeperMaxLease
  <2>1. PICK t \in keeper.due :
          /\ giveUp(t)
          /\ keeper' = [keeper EXCEPT !.due = @ \ {t},
                                      !.pc = IF keeper.due = {t} THEN "loop" ELSE @]
    BY <1>9 DEF KeeperMaxLease
  <2>2. UNCHANGED <<addLease, doneToken>>
    BY <1>9 DEF KeeperMaxLease
  <2>3. keeper' \in Keeper /\ t \in Toks
    BY <1>0, <2>1
  <2>4. QED
    BY <1>1, <1>3, <2>1, <2>2, <2>3, GiveUpFacts
<1>10. CASE KeeperExtend
  <2>1. PICK kept \in {{t \in keeper.due : broker[t] = "leased"}, {}} :
          /\ keeper' = [keeper EXCEPT !.pc = "loop", !.heap = @ \union kept, !.due = {}]
          /\ lost' = lost \union (keeper.due \ kept)
    BY <1>10, Zenon DEF KeeperExtend
  <2>2. UNCHANGED <<addLease, doneToken, forceNaks>>
    BY <1>10 DEF KeeperExtend, channels
  <2>3. kept \subseteq keeper.due
    BY <2>1
  <2>4. keeper' \in Keeper /\ lost' \subseteq Toks /\ lost \subseteq lost'
    BY <1>0, <2>1, <2>3
  <2>5. QED
    BY <1>0, <1>1, <1>3, <2>2, <2>4, QueuesKept
<1>11. QED
  BY <1>4, <1>5, <1>6, <1>7, <1>8, <1>9, <1>10 DEF KeeperStep

-----------------------------------------------------------------------------
(* The theorems.                                                             *)

LEMMA InitHolds ==
    ASSUME ConstantsAssumption, Init
    PROVE  IInv
<1>0. <<>> \in Seq(Toks)
  OBVIOUS
<1>1. TypeInv
  <2>1. fetcher \in [pc : {"off", "top", "slot", "fetch", "hold", "lease", "work", "done"},
                     todo : Seq(Toks)]
    BY <1>0 DEF Init
  <2>2. settler \in [pc : {"select", "drain", "flush", "send", "gone"}, acks : Seq(Toks),
                     sends : Seq(Toks), release : Nat, then : {"select", "drain", "gone"}]
    BY <1>0 DEF Init
  <2>3. QED
    BY <1>0, <2>1, <2>2 DEF Init, TypeInv
<1>a. \A t \in Toks : broker[t] = "ready" /\ verdict[t] = "none yet"
  BY DEF Init
<1>b. /\ fetcher.pc = "off" /\ fetcher.todo = <<>>
      /\ settler.acks = <<>> /\ forceNaks = <<>>
  BY DEF Init
<1>c. Len(fetcher.todo) = 0 /\ Len(settler.acks) = 0 /\ Len(forceNaks) = 0
  BY <1>b
<1>d. 1 .. 0 = {}
  OBVIOUS
<1>2. ReadyInv
  <2>1. Tokens \in Nat
    BY DEF ConstantsAssumption
  <2>2. Ready = Toks
    BY <1>a DEF Ready
  <2>3. Toks = (0 + 1) .. Tokens /\ 0 \in 0 .. Tokens
    BY <2>1 DEF Toks
  <2>4. QED
    BY <2>2, <2>3, Zenon DEF ReadyInv
<1>3. TodoInv
  BY <1>a, <1>b, <1>c, <1>d, Zenon DEF TodoInv
<1>4. RunningInv
  <2>1. \A h \in Handlers : handler[h].pc = "idle"
    BY DEF Init
  <2>2. QED
    BY <2>1 DEF RunningInv
<1>5. QueuesInv
  BY <1>c, <1>d, Zenon DEF QueuesInv
<1>6. SettledAsHandled
  BY DEF Init, SettledAsHandled
<1>7. QED
  BY <1>1, <1>2, <1>3, <1>4, <1>5, <1>6 DEF IInv

LEMMA NextKeeps ==
    ASSUME ConstantsAssumption, IInv, [Next]_vars
    PROVE  IInv'
<1>1. CASE RunStep \/ Drain \/ Cancel
  BY <1>1, RunKeeps
<1>2. CASE LeaseRunsOut
  BY <1>2, LeaseRunsOutKeeps
<1>3. CASE FetcherStep
  BY <1>3, FetcherTurnKeeps, FetchKeeps, SendLeaseKeeps, DispatchKeeps DEF FetcherStep
<1>4. CASE \E h \in Handlers : Handle(h)
  BY <1>4, HandleKeeps
<1>5. CASE \E h \in Handlers : HandlerStep(h)
  BY <1>5, HandlerStepKeeps
<1>6. CASE SettlerStep
  BY <1>6, SettlerTurnKeeps, SettlerForceNakKeeps, SettlerFlushKeeps, SettlerOutcomeKeeps
     DEF SettlerStep
<1>7. CASE KeeperStep
  BY <1>7, KeeperKeeps
<1>8. CASE UNCHANGED vars
  <2>1. UNCHANGED <<fetcher, handler, outcomes, addLease, doneToken, forceNaks, settler, keeper,
                    lost, verdict, broker>>
    BY <1>8 DEF vars
  <2>2. TypeInv'
    BY <2>1 DEF IInv, TypeInv
  <2>3. QED
    BY <2>1, <2>2, PipelineKept, QueuesKept, BrokerKept DEF IInv
<1>9. QED
  BY <1>1, <1>2, <1>3, <1>4, <1>5, <1>6, <1>7, <1>8 DEF Next, Ended

\* The invariant holds in every behaviour of the worker, cancelled, drained or
\* with any number of failing calls.
THEOREM InductiveInvariant == WSpec => []IInv
<1>1. Init => IInv
  BY ConstantsAssumption, InitHolds
<1>2. IInv /\ [Next]_vars => IInv'
  BY ConstantsAssumption, NextKeeps
<1>3. QED
  BY <1>1, <1>2, PTL DEF WSpec

\* The broker is told what the handlers said: nothing is acked or termed whose
\* handler did not say so, and a nak that no handler asked for is of a lease the
\* keeper gave up (settlerLoop, finishItem, giveUp).
THEOREM BrokerIsToldTheVerdict == WSpec => []SettledAsHandled
<1>1. IInv => SettledAsHandled
  BY DEF IInv
<1>2. QED
  BY <1>1, InductiveInvariant, PTL

\* No two handlers run on one delivery.
OneHandlerEach ==
    \A g, h \in Handlers :
        handler[g].pc = "running" /\ handler[h].pc = "running" /\ handler[g].tok = handler[h].tok
            => g = h

\* A delivery is dispatched to one handler, once, whatever the fetcher, the
\* batches and a lost fetch answer do (fetcherLoop, handlerLoop).
THEOREM DispatchedOnce == WSpec => []OneHandlerEach
<1>1. IInv => OneHandlerEach
  BY DEF IInv, RunningInv, OneHandlerEach
<1>2. QED
  BY <1>1, InductiveInvariant, PTL
=============================================================================
