---------------------------- MODULE ProcessProofs ----------------------------
(***************************************************************************)
(* Proofs about Daemon, Janitor and Lifecycle, for any number of daemons,  *)
(* directories, requests, stream names, components and reloaders: a daemon *)
(* that serves is reachable, one that returned left nothing behind, and    *)
(* the manager stops each component once, in reverse order.                *)
(***************************************************************************)
EXTENDS MCProcess, FiniteSetTheorems, SequenceTheorems, TLAPS

-----------------------------------------------------------------------------
(* Daemon: the inductive invariant. *)

Order == <<"tmpdir", "store", "listener", "writer", "sweeper", "janitor">>

\* Only a process of --dev has a directory of its own to remove.
Skip(d) == IF d \in Ephemeral THEN 0 ELSE 1

\* How far in Order process d has come.
Height(d) == Len(stack[d]) + Skip(d)

\* The deferred releases are those of a prefix of Order, and where runServe is
\* says how long it is.
StackInv(d) ==
    /\ Height(d) <= 6
    /\ \A i \in 1 .. Len(stack[d]) : stack[d][i] = Order[i + Skip(d)]
    /\ pc[d] \in {"down", "exited"} => stack[d] = <<>>
    /\ pc[d] \in {"admit", "open"} => Height(d) = 1
    /\ pc[d] \in {"preflight", "listen", "probe", "remove", "rebind"} => Height(d) = 2
    /\ pc[d] = "attach" => Height(d) = 3
    /\ pc[d] = "threads" => Height(d) = 4
    /\ pc[d] \in {"serving", "draining"} => Height(d) = 6

\* What a process holds is on its stack, and the lock is what it should be.
HoldInv(d) ==
    /\ \A dir \in Dirs : lock[dir] = d <=> dir = DirOf[d] /\ Height(d) >= 2
    /\ d \in listening => Height(d) >= 3
    /\ pc[d] \in {"attach", "threads", "serving"} => d \in listening
    /\ writer[d] = "running" => Height(d) >= 4
    /\ pc[d] # "down" => starts[d] > 0

\* The socket file was made by a start that has been, and is removed by its own
\* unless it is killed.
PathInv(d) ==
    /\ \A n \in Nat : path = <<d, n>> => n <= starts[d]
    /\ Mine(d) => /\ Class[d] = "unix"
                  /\ d \in listening \/ (pc[d] = "exited" /\ code[d] = "killed")

\* A listener that nobody has shut down is reachable, or a process of another
\* directory has been started.
Reached(d) ==
    d \in listening /\ Class[d] = "unix" =>
        Mine(d) \/ \E e \in Daemons : DirOf[e] # DirOf[d] /\ starts[e] > 0

\* A process that was never started has no goroutines.
Unborn == \A d \in Daemons : pc[d] = "down" => janitor[d] = "none"

DInv ==
    /\ TypeOK /\ starts \in [Daemons -> Nat]
    /\ \A d \in Daemons : StackInv(d) /\ HoldInv(d) /\ PathInv(d) /\ Reached(d)

-----------------------------------------------------------------------------
(* Janitor: the inductive invariant. *)

JInv ==
    /\ JTypeOK
    /\ Len(list) <= Cardinality(Names)
    /\ job = "sweeping" => Len(list) > 0

-----------------------------------------------------------------------------
(* Lifecycle: the inductive invariant. *)

Busy(d) == drain[d] \in {"waiting", "forced", "closing", "teardown"}

\* Manager.mu and Manager.drainMu are held by one.
MuInv ==
    /\ start \in {"running", "undoing"} => stopall # "running"
    /\ \A d \in L!Drainers :
         drain[d] = "teardown" => start \notin {"running", "undoing"} /\ stopall # "running"
    /\ \A d, e \in L!Drainers : Busy(d) /\ Busy(e) => d = e
    /\ left > 0 => ~L!MuFree
    /\ stopall = "running" => ~stopped

\* How far the start has come, and what was stopped by then.
StartInv ==
    /\ state \notin {"Starting", "Recovering"} => start = "up"
    /\ start # "up" => ~stopped \/ stopall = "returned"
    /\ start \in {"idle", "running"} => stops = <<>> /\ ~stopped /\ stopall = "idle" /\ left = 0
    /\ start = "undoing" => ~stopped /\ stopall = "idle"
    /\ start \in {"idle", "failed"} => started = 0 /\ left = 0
    /\ start = "up" =>
         \/ stops = <<>> /\ ~stopped /\ L!MuFree /\ left = 0 /\ started = NComponents
         \/ (stopped \/ ~L!MuFree) /\ Len(stops) + left = NComponents

\* What is stopped comes in reverse order, above what is left.
OrderInv ==
    /\ \A i, j \in DOMAIN stops : i < j => stops[i] > stops[j]
    /\ \A i \in DOMAIN stops : stops[i] > left

\* A drain has begun only from Ready, and whoever absorbs Fatal from Ready has
\* kept it from beginning.
StateInv ==
    /\ \A d \in L!Drainers : Busy(d) => state \in {"Draining", "Fatal"}
    /\ drained => state \in {"Draining", "Stopped", "Fatal"}
    /\ \A d \in L!Drainers : drain[d] \in {"closing", "teardown"} => api = "down"
    /\ state = "Fatal" /\ seen = "Ready" => ~drained /\ \A d \in L!Drainers : ~Busy(d)
    /\ stopped => stopall = "returned" \/ drained
    /\ state = "Stopped" => stopped /\ api = "down"
    /\ state = "Fatal" => fatal \in {"window", "returned"}
    /\ seen = "Ready" => fatal \in {"seen", "window", "returned"} /\ state \notin {"Starting", "Recovering"}
    /\ fatal \in {"window", "returned"} /\ seen = "Ready" => state # "Ready"
    /\ exit = "74" => fatal = "returned"

SignalInv ==
    /\ terms + requests + Len(sigs) <= sent
    /\ terms = 0 => drain["signal"] = "idle"

LInv == L!TypeOK /\ MuInv /\ StartInv /\ OrderInv /\ StateInv /\ SignalInv

PInv == DInv /\ Unborn /\ JInv /\ LInv

-----------------------------------------------------------------------------
(* Daemon: the stack of deferred releases. *)

\* One more release.
LEMMA PushFacts ==
    ASSUME stack \in [Daemons -> Seq(Resources)], NEW d \in Daemons, NEW r \in Resources,
           Push(d, r)
    PROVE  /\ stack' \in [Daemons -> Seq(Resources)]
           /\ Len(stack'[d]) = Len(stack[d]) + 1 /\ stack'[d][Len(stack[d]) + 1] = r
           /\ \A i \in 1 .. Len(stack[d]) : stack'[d][i] = stack[d][i]
           /\ \A e \in Daemons : e # d => stack'[e] = stack[e]
<1>1. stack[d] \in Seq(Resources) /\ Len(stack[d]) \in Nat
  BY LenProperties
<1>2. stack'[d] = Append(stack[d], r) /\ stack' = [stack EXCEPT ![d] = Append(stack[d], r)]
  BY DEF Push
<1>3. /\ Append(stack[d], r) \in Seq(Resources)
      /\ Len(Append(stack[d], r)) = Len(stack[d]) + 1
      /\ \A i \in 1 .. Len(stack[d]) : Append(stack[d], r)[i] = stack[d][i]
      /\ Append(stack[d], r)[Len(stack[d]) + 1] = r
  BY <1>1, AppendProperties
<1> QED
  BY <1>2, <1>3

\* The release that has run is gone.
LEMMA PopFacts ==
    ASSUME stack \in [Daemons -> Seq(Resources)], NEW d \in Daemons, stack[d] # <<>>,
           stack' = [stack EXCEPT ![d] = Front(@)]
    PROVE  /\ stack' \in [Daemons -> Seq(Resources)]
           /\ Len(stack'[d]) = Len(stack[d]) - 1 /\ Len(stack[d]) \in Nat \ {0}
           /\ \A i \in 1 .. Len(stack'[d]) : stack'[d][i] = stack[d][i]
           /\ \A e \in Daemons : e # d => stack'[e] = stack[e]
           /\ NextRelease(d) = stack[d][Len(stack[d])]
<1> DEFINE s == stack[d]
<1>1. s \in Seq(Resources) /\ s # <<>>
  OBVIOUS
<1>2. stack'[d] = Front(s)
  OBVIOUS
<1> HIDE DEF s
<1>3. Len(s) \in Nat \ {0}
  BY <1>1, EmptySeq, LenProperties
<1>4. /\ Front(s) \in Seq(Resources) /\ Len(Front(s)) = Len(s) - 1
      /\ \A i \in 1 .. Len(Front(s)) : Front(s)[i] = s[i]
  <2> DEFINE n == Len(s) - 1
  <2>1. n \in Int /\ n \in Nat
    BY <1>3
  <2>2. \A i \in 1 .. n : s[i] \in Resources
    BY <1>1, <1>3, ElementOfSeq
  <2>3. Front(s) = SubSeq(s, 1, n)
    BY DEF Front
  <2> HIDE DEF n
  <2>4. /\ SubSeq(s, 1, n) \in Seq(Resources)
        /\ Len(SubSeq(s, 1, n)) = IF 1 <= n THEN n - 1 + 1 ELSE 0
        /\ \A i \in 1 .. n - 1 + 1 : SubSeq(s, 1, n)[i] = s[1 + i - 1]
    BY <2>1, <2>2, SubSeqProperties
  <2>5. Len(Front(s)) = n
    BY <2>1, <2>3, <2>4
  <2>6. \A i \in 1 .. n : Front(s)[i] = s[i]
    BY <2>1, <2>3, <2>4
  <2> QED
    BY <2>3, <2>4, <2>5, <2>6 DEF n
<1>5. stack' = [stack EXCEPT ![d] = Front(s)]
  BY DEF s
<1>6. stack' \in [Daemons -> Seq(Resources)] /\ \A e \in Daemons : e # d => stack'[e] = stack[e]
  BY <1>4, <1>5
<1> QED
  BY <1>2, <1>3, <1>4, <1>6 DEF s, NextRelease, Last

-----------------------------------------------------------------------------
(* Daemon: types. *)

DTypes == TypeOK /\ starts \in [Daemons -> Nat]

\* The steps by which a process starts.
LEMMA StartTypes ==
    ASSUME DTypes, NEW d \in Daemons,
           Start(d) \/ Admit(d) \/ Open(d) \/ Preflight(d) \/ Listen(d) \/ ProbeSocket(d)
             \/ RemoveStale(d) \/ Rebind(d) \/ Attach(d) \/ StartThreads(d)
    PROVE  DTypes'
<1> USE DEF DTypes, TypeOK, Goto, Return, files, process, threads, Places
<1>0. DirOf[d] \in Dirs /\ "tmpdir" \in Resources /\ "store" \in Resources
      /\ "listener" \in Resources /\ "writer" \in Resources
  BY ConstantsAssumption DEF Resources
<1>1. CASE Start(d)
  <2>1. stack' \in [Daemons -> Seq(Resources)]
    <3>1. <<"tmpdir">> \in Seq(Resources) /\ <<>> \in Seq(Resources)
      BY <1>0
    <3>2. stack' = [stack EXCEPT ![d] = IF d \in Ephemeral THEN <<"tmpdir">> ELSE <<>>]
      BY <1>1 DEF Start
    <3> QED
      BY <3>1, <3>2
  <2>2. starts' \in [Daemons -> Nat] /\ \A e \in Daemons : starts'[e] \in 0 .. MaxStarts[e]
    <3>1. starts' = [starts EXCEPT ![d] = starts[d] + 1] /\ starts[d] < MaxStarts[d]
      BY <1>1 DEF Start
    <3>2. starts \in [Daemons -> Nat] /\ \A e \in Daemons : starts[e] \in 0 .. MaxStarts[e]
      OBVIOUS
    <3>3. \A e \in Daemons : MaxStarts[e] \in Nat
      BY ConstantsAssumption
    <3>4. starts' \in [Daemons -> Nat]
      BY <3>1, <3>2
    <3>5. starts'[d] \in 0 .. MaxStarts[d] /\ \A e \in Daemons : e # d => starts'[e] = starts[e]
      BY <3>1, <3>2, <3>3
    <3> QED
      BY <3>2, <3>4, <3>5
  <2>3. /\ pc' \in [Daemons -> Places]
        /\ code' \in [Daemons -> {"none", "ok", "error", "config", "killed"}]
    <3>1. pc' = [pc EXCEPT ![d] = "admit"] /\ code' = [code EXCEPT ![d] = "none"]
      BY <1>1 DEF Start
    <3>2. pc \in [Daemons -> Places] /\ "admit" \in Places
      OBVIOUS
    <3>3. pc' \in [Daemons -> Places]
      BY <3>1, <3>2
    <3> QED
      BY <3>1, <3>3
  <2>4. /\ writer' \in [Daemons -> {"none", "running", "closed"}]
        /\ janitor' \in [Daemons -> {"none", "idle", "busy", "gone"}]
    BY <1>1 DEF Start
  <2>5. signal' \subseteq Daemons
    BY <1>1 DEF Start
  <2>6. lock' = lock /\ marker' = marker /\ path' = path /\ listening' = listening
        /\ pool' = pool /\ sweeper' = sweeper /\ req' = req
    BY <1>1 DEF Start
  <2> QED
    BY <2>1, <2>2, <2>3, <2>4, <2>5, <2>6
<1>2. CASE Admit(d)
  BY <1>2, ZenonT(30) DEF Admit
<1>3. CASE Open(d)
  <2>1. CASE lock[DirOf[d]] = None
    <3>1. Push(d, "store")
      BY <1>3, <2>1 DEF Open
    <3>2. stack' \in [Daemons -> Seq(Resources)]
      BY <1>0, <3>1, PushFacts
    <3>3. lock' \in [Dirs -> Daemons \cup {None}] /\ marker' \in [Dirs -> {"absent", "0", "1"}]
      <4>1. /\ lock' = [lock EXCEPT ![DirOf[d]] = d]
            /\ marker' = [marker EXCEPT ![DirOf[d]] = "0"]
        BY <1>3, <2>1 DEF Open
      <4>2. lock \in [Dirs -> Daemons \cup {None}] /\ marker \in [Dirs -> {"absent", "0", "1"}]
        OBVIOUS
      <4>3. lock' \in [Dirs -> Daemons \cup {None}]
        BY <1>0, <4>1, <4>2
      <4> QED
        BY <1>0, <4>1, <4>2, <4>3
    <3>4. pool' \subseteq Daemons /\ pc' \in [Daemons -> Places] /\ code' = code
      BY <1>3, <2>1 DEF Open
    <3>5. path' = path /\ listening' = listening /\ starts' = starts /\ signal' = signal
          /\ writer' = writer /\ sweeper' = sweeper /\ janitor' = janitor /\ req' = req
      BY <1>3, <2>1 DEF Open
    <3> QED
      BY <3>2, <3>3, <3>4, <3>5
  <2>2. CASE lock[DirOf[d]] # None
    BY <1>3, <2>2 DEF Open
  <2> QED
    BY <2>1, <2>2
<1>4. CASE Preflight(d)
  BY <1>4, ZenonT(30) DEF Preflight
<1>5. CASE Bound(d) /\ UNCHANGED <<process, lock, marker, pool, writer, threads, req>>
  <2>1. stack' \in [Daemons -> Seq(Resources)]
    BY <1>0, <1>5, PushFacts DEF Bound
  <2>2. path' \in (Daemons \X Nat) \cup {None}
    BY <1>5 DEF Bound
  <2> QED
    BY <1>5, <2>1, <2>2 DEF Bound
<1>6. CASE Listen(d)
  <2>1. CASE path = None \/ Class[d] # "unix"
    BY <1>5, <1>6, <2>1 DEF Listen
  <2>2. CASE ~(path = None \/ Class[d] # "unix")
    BY <1>6, <2>2 DEF Listen
  <2> QED
    BY <2>1, <2>2
<1>7. CASE ProbeSocket(d)
  BY <1>7, ZenonT(30) DEF ProbeSocket
<1>8. CASE Rebind(d)
  <2>1. CASE path = None
    BY <1>5, <1>8, <2>1 DEF Rebind
  <2>2. CASE path # None
    BY <1>8, <2>2 DEF Rebind
  <2> QED
    BY <2>1, <2>2
<1>11. CASE RemoveStale(d)
  <2>1. path' = None /\ UNCHANGED <<process, stack, lock, marker, listening, pool, writer, threads, req>>
    BY <1>11 DEF RemoveStale
  <2>2. pc' \in [Daemons -> Places] /\ code' \in [Daemons -> {"none", "ok", "error", "config", "killed"}]
    BY <1>11, ZenonT(30) DEF RemoveStale
  <2> QED
    BY <2>1, <2>2
<1>9. CASE Attach(d)
  <2>1. stack' \in [Daemons -> Seq(Resources)]
    <3>1. Push(d, "writer") \/ stack' = stack
      BY <1>9 DEF Attach
    <3> QED
      BY <1>0, <3>1, PushFacts
  <2> QED
    BY <1>9, <2>1 DEF Attach
<1>10. CASE StartThreads(d)
  <2>1. stack' \in [Daemons -> Seq(Resources)]
    <3>1. <<"sweeper", "janitor">> \in Seq(Resources)
      BY DEF Resources
    <3>2. stack[d] \o <<"sweeper", "janitor">> \in Seq(Resources)
      BY <3>1, ConcatProperties
    <3> QED
      BY <1>10, <3>2 DEF StartThreads
  <2> QED
    BY <1>10, <2>1 DEF StartThreads
<1> QED
  BY <1>1, <1>2, <1>3, <1>4, <1>6, <1>7, <1>8, <1>9, <1>10, <1>11

\* The steps of a process that serves.
LEMMA ServeTypes ==
    ASSUME DTypes, NEW d \in Daemons,
           Signal(d) \/ BeginDrain(d) \/ EndDrain(d) \/ SweeperStops(d) \/ JanitorWorks(d)
             \/ JanitorReads(d)
    PROVE  DTypes'
<1> USE DEF DTypes, TypeOK, Goto, Return, files, process, threads, Places
<1>1. CASE Signal(d)
  BY <1>1 DEF Signal
<1>2. CASE BeginDrain(d)
  BY <1>2 DEF BeginDrain, Unlinked
<1>3. CASE EndDrain(d)
  BY <1>3 DEF EndDrain
<1>4. CASE SweeperStops(d)
  BY <1>4 DEF SweeperStops
<1>5. CASE JanitorWorks(d)
  BY <1>5 DEF JanitorWorks
<1>6. CASE JanitorReads(d)
  BY <1>6 DEF JanitorReads
<1> QED
  BY <1>1, <1>2, <1>3, <1>4, <1>5, <1>6

\* The steps of a request.
LEMMA RequestTypes ==
    ASSUME DTypes, NEW r \in Requests, Accept(r) \/ Handle(r)
    PROVE  DTypes'
<1> USE DEF DTypes, TypeOK, files, process, threads
<1> DEFINE Req == [at : Daemons \cup {None}, is : {"new", "running", "answered", "refused", "cut"}]
<1>1. CASE Accept(r)
  <2>1. PICK d \in Daemons : req' = [req EXCEPT ![r] = [at |-> d, is |-> "running"]]
    BY <1>1 DEF Accept
  <2>2. [at |-> d, is |-> "running"] \in Req
    OBVIOUS
  <2>3. req' \in [Requests -> Req]
    BY <2>1, <2>2
  <2> QED
    BY <1>1, <2>3 DEF Accept
<1>2. CASE Handle(r)
  <2>1. PICK i \in {"answered", "refused"} : req' = [req EXCEPT ![r].is = i]
    BY <1>2 DEF Handle
  <2>2. req' \in [Requests -> Req]
    BY <2>1
  <2> QED
    BY <1>2, <2>2 DEF Handle
<1> QED
  BY <1>1, <1>2

\* The deferred releases, and the end.
LEMMA EndTypes ==
    ASSUME DTypes, NEW d \in Daemons,
           Unwind(d) \/ Exit(d) \/ JanitorPanics(d) \/ Kill(d)
    PROVE  DTypes'
<1> USE DEF DTypes, TypeOK, Goto, files, process, threads, Places
<1>0. DirOf[d] \in Dirs
  BY ConstantsAssumption
<1>1. CASE Unwind(d)
  <2>1. stack' \in [Daemons -> Seq(Resources)]
    BY <1>1, PopFacts DEF Unwind
  <2>2. \/ CloseStore(d) \/ CloseListener(d) \/ CloseWriter(d) \/ StopJanitor(d)
        \/ UNCHANGED <<files, pool, writer, janitor>>
    BY <1>1 DEF Unwind
  <2>3. /\ lock' \in [Dirs -> Daemons \cup {None}] /\ marker' \in [Dirs -> {"absent", "0", "1"}]
        /\ path' \in (Daemons \X Nat) \cup {None}
        /\ listening' \subseteq Daemons /\ pool' \subseteq Daemons
        /\ writer' \in [Daemons -> {"none", "running", "closed"}]
        /\ janitor' \in [Daemons -> {"none", "idle", "busy", "gone"}]
    <3>1. CASE CloseStore(d)
      <4>1. marker' \in [Dirs -> {"absent", "0", "1"}]
        BY <1>0, <3>1 DEF CloseStore
      <4>2. lock' \in [Dirs -> Daemons \cup {None}]
        BY <1>0, <3>1 DEF CloseStore
      <4> QED
        BY <3>1, <4>1, <4>2 DEF CloseStore
    <3>2. CASE CloseListener(d)
      BY <3>2 DEF CloseListener, Unlinked
    <3>3. CASE CloseWriter(d)
      BY <3>3 DEF CloseWriter
    <3>4. CASE StopJanitor(d)
      BY <3>4 DEF StopJanitor
    <3>5. CASE UNCHANGED <<files, pool, writer, janitor>>
      BY <3>5
    <3> QED
      BY <2>2, <3>1, <3>2, <3>3, <3>4, <3>5
  <2> QED
    BY <1>1, <2>1, <2>3 DEF Unwind
<1>2. ASSUME NEW k \in {"none", "ok", "error", "config", "killed"}, Die(d, k)
      PROVE  DTypes'
  <2>1. stack' \in [Daemons -> Seq(Resources)]
    <3>1. <<>> \in Seq(Resources)
      OBVIOUS
    <3> QED
      BY <1>2, <3>1 DEF Die
  <2>2. req' \in [Requests -> [at : Daemons \cup {None},
                                is : {"new", "running", "answered", "refused", "cut"}]]
    BY <1>2 DEF Die
  <2> QED
    BY <1>2, <2>1, <2>2 DEF Die
<1>3. CASE Exit(d)
  <2>1. code[d] \in {"none", "ok", "error", "config", "killed"}
    OBVIOUS
  <2> QED
    BY <1>2, <1>3, <2>1 DEF Exit
<1>4. CASE JanitorPanics(d) \/ Kill(d)
  BY <1>2, <1>4 DEF JanitorPanics, Kill
<1> QED
  BY <1>1, <1>3, <1>4

-----------------------------------------------------------------------------
(* Daemon: what a step of one process leaves to the others. *)

Sound(d) == StackInv(d) /\ HoldInv(d) /\ PathInv(d) /\ Reached(d)

\* The lock of a directory is held by one process, so that two which have their
\* stores open are of different directories.
LEMMA LockExcludes ==
    ASSUME DInv, NEW d \in Daemons, NEW e \in Daemons, d # e, Height(d) >= 2, Height(e) >= 2
    PROVE  DirOf[d] # DirOf[e]
<1>1. DirOf[d] \in Dirs /\ DirOf[e] \in Dirs
  BY ConstantsAssumption
<1>2. lock[DirOf[d]] = d /\ lock[DirOf[e]] = e
  BY <1>1 DEF DInv, HoldInv
<1> QED
  BY <1>2

\* A step of d that touches the socket file only while d has its store open
\* keeps what is said of any other process.
LEMMA OtherDaemons ==
    ASSUME DInv, DTypes', NEW d \in Daemons, NEW e \in Daemons, e # d,
           pc'[e] = pc[e], code'[e] = code[e], stack'[e] = stack[e], writer'[e] = writer[e],
           e \in listening' <=> e \in listening,
           starts'[e] = starts[e], starts'[d] >= starts[d],
           \A g \in Daemons \ {d} : starts'[g] = starts[g],
           \A dir \in Dirs : lock'[dir] = e <=> lock[dir] = e,
           \/ path' = path
           \/ /\ path' = None \/ path' = <<d, starts[d]>>
              /\ Height(d) >= 2 /\ pc[d] # "down"
    PROVE  Sound(e)'
<1>0. StackInv(e) /\ HoldInv(e) /\ PathInv(e) /\ Reached(e) /\ HoldInv(d) /\ TypeOK
      /\ starts \in [Daemons -> Nat] /\ starts' \in [Daemons -> Nat]
  BY DEF DInv, DTypes
<1>1. StackInv(e)'
  BY <1>0 DEF StackInv, Height, Skip
<1>2. HoldInv(e)'
  BY <1>0 DEF HoldInv, Height, Skip
<1>3. \A n \in Nat : path' = <<e, n>> => path = <<e, n>>
  <2>1. \A n \in Nat : <<e, n>> # None /\ <<e, n>> # <<d, starts[d]>>
    BY ConstantsAssumption
  <2> QED
    BY <2>1
<1>4. PathInv(e)'
  BY <1>0, <1>3 DEF PathInv, Mine
<1>5. Reached(e)'
  <2>1. SUFFICES ASSUME e \in listening, Class[e] = "unix"
                 PROVE  path' = <<e, starts[e]>>
                        \/ \E g \in Daemons : DirOf[g] # DirOf[e] /\ starts'[g] > 0
    BY DEF Reached, Mine
  <2>2. CASE path' = path
    <3>1. path = <<e, starts[e]>> \/ \E g \in Daemons : DirOf[g] # DirOf[e] /\ starts[g] > 0
      BY <1>0, <2>1 DEF Reached, Mine
    <3>2. \A g \in Daemons : starts[g] > 0 => starts'[g] > 0
      BY <1>0
    <3> QED
      BY <2>2, <3>1, <3>2
  <2>3. CASE path' # path
    <3>1. Height(d) >= 2 /\ pc[d] # "down"
      BY <2>3
    <3>2. Height(e) >= 3
      BY <1>0, <2>1 DEF HoldInv
    <3>3. Height(e) >= 2
      <4>1. Height(e) \in Int
        BY <1>0, LenProperties DEF Height, Skip, TypeOK
      <4> QED
        BY <3>2, <4>1
    <3>4. DirOf[d] # DirOf[e]
      BY <3>1, <3>3, LockExcludes
    <3>5. starts'[d] > 0
      BY <1>0, <3>1 DEF HoldInv
    <3> QED
      BY <3>4, <3>5
  <2> QED
    BY <2>2, <2>3
<1> QED
  BY <1>1, <1>2, <1>4, <1>5 DEF Sound

\* Where nothing but pc and code of d moves.
LEMMA GotoKeeps ==
    ASSUME DInv, DTypes', NEW d \in Daemons, NEW p \in Places \ {"exited", "down"},
           Goto(d, p), pc[d] \notin {"down", "exited"},
           \A e \in Daemons \ {d} : code'[e] = code[e],
           UNCHANGED <<starts, stack, lock, path, listening, writer>>,
           p \in {"admit", "open"} => Height(d) = 1,
           p \in {"preflight", "listen", "probe", "remove", "rebind"} => Height(d) = 2,
           p = "attach" => Height(d) = 3,
           p = "threads" => Height(d) = 4,
           p \in {"serving", "draining"} => Height(d) = 6,
           p \in {"attach", "threads", "serving"} => d \in listening
    PROVE  DInv'
<1>0. StackInv(d) /\ HoldInv(d) /\ PathInv(d) /\ Reached(d) /\ TypeOK
      /\ starts \in [Daemons -> Nat]
  BY DEF DInv
<1>1. pc'[d] = p /\ \A e \in Daemons \ {d} : pc'[e] = pc[e]
  BY <1>0 DEF Goto, TypeOK
<1>2. Sound(d)'
  <2>1. StackInv(d)'
    BY <1>0, <1>1 DEF StackInv, Height, Skip
  <2>2. HoldInv(d)'
    BY <1>0, <1>1 DEF HoldInv, Height, Skip
  <2>3. PathInv(d)'
    BY <1>0, <1>1 DEF PathInv, Mine
  <2>4. Reached(d)'
    BY <1>0 DEF Reached, Mine
  <2> QED
    BY <2>1, <2>2, <2>3, <2>4 DEF Sound
<1>3. ASSUME NEW e \in Daemons, e # d PROVE Sound(e)'
  <2>1. /\ pc'[e] = pc[e] /\ code'[e] = code[e] /\ stack'[e] = stack[e] /\ writer'[e] = writer[e]
        /\ starts'[e] = starts[e] /\ starts'[d] >= starts[d]
        /\ \A g \in Daemons \ {d} : starts'[g] = starts[g]
    BY <1>0, <1>1, <1>3
  <2>2. \A dir \in Dirs : lock'[dir] = e <=> lock[dir] = e
    OBVIOUS
  <2> QED
    BY <1>3, <2>1, <2>2, OtherDaemons
<1>4. \A e \in Daemons : Sound(e)'
  BY <1>2, <1>3
<1> QED
  BY <1>4 DEF DInv, DTypes, Sound

\* A step of d, from what it does to d and what it leaves to the others.
LEMMA StepKeeps ==
    ASSUME DInv, DTypes', NEW d \in Daemons, Sound(d)',
           \A e \in Daemons \ {d} :
              /\ pc'[e] = pc[e] /\ code'[e] = code[e] /\ stack'[e] = stack[e]
              /\ writer'[e] = writer[e] /\ starts'[e] = starts[e]
              /\ e \in listening' <=> e \in listening
              /\ \A dir \in Dirs : lock'[dir] = e <=> lock[dir] = e,
           starts'[d] >= starts[d],
           \/ path' = path
           \/ /\ path' = None \/ path' = <<d, starts[d]>>
              /\ Height(d) >= 2 /\ pc[d] # "down"
    PROVE  DInv'
<1>1. ASSUME NEW e \in Daemons, e # d PROVE Sound(e)'
  BY <1>1, OtherDaemons
<1>2. \A e \in Daemons : Sound(e)'
  BY <1>1
<1> QED
  BY <1>2 DEF DInv, DTypes, Sound

\* What is known of a process before its step.
LEMMA Before ==
    ASSUME DInv, NEW d \in Daemons
    PROVE  /\ StackInv(d) /\ HoldInv(d) /\ PathInv(d) /\ Reached(d) /\ TypeOK /\ DTypes
           /\ starts \in [Daemons -> Nat] /\ stack \in [Daemons -> Seq(Resources)]
           /\ stack[d] \in Seq(Resources) /\ Len(stack[d]) \in Nat /\ Skip(d) \in {0, 1}
           /\ Height(d) = Len(stack[d]) + Skip(d) /\ DirOf[d] \in Dirs /\ starts[d] \in Nat
BY LenProperties, ConstantsAssumption DEF DInv, TypeOK, DTypes, Skip, Height

LEMMA StartKeeps ==
    ASSUME DInv, NEW d \in Daemons, Start(d)
    PROVE  DInv'
<1>0. /\ StackInv(d) /\ HoldInv(d) /\ PathInv(d) /\ Reached(d) /\ TypeOK /\ DTypes
      /\ starts \in [Daemons -> Nat] /\ stack \in [Daemons -> Seq(Resources)]
      /\ stack[d] \in Seq(Resources) /\ Len(stack[d]) \in Nat /\ Skip(d) \in {0, 1}
      /\ Height(d) = Len(stack[d]) + Skip(d) /\ DirOf[d] \in Dirs /\ starts[d] \in Nat
  BY Before
<1>1. DTypes'
  BY <1>0, StartTypes
<1>2. /\ pc[d] \in {"down", "exited"} /\ pc' = [pc EXCEPT ![d] = "admit"]
      /\ code' = [code EXCEPT ![d] = "none"] /\ starts' = [starts EXCEPT ![d] = starts[d] + 1]
      /\ stack' = [stack EXCEPT ![d] = IF d \in Ephemeral THEN <<"tmpdir">> ELSE <<>>]
      /\ writer' = [writer EXCEPT ![d] = "none"]
      /\ lock' = lock /\ path' = path /\ listening' = listening
  BY DEF Start, Goto, files
<1>3. \A e \in Daemons \ {d} :
         /\ pc'[e] = pc[e] /\ code'[e] = code[e] /\ stack'[e] = stack[e]
         /\ writer'[e] = writer[e] /\ starts'[e] = starts[e]
  BY <1>0, <1>2 DEF TypeOK
<1>4. pc'[d] = "admit" /\ writer'[d] = "none" /\ starts'[d] = starts[d] + 1
  BY <1>0, <1>2 DEF TypeOK
<1>5. Len(stack[d]) = 0
  BY <1>0, <1>2 DEF StackInv
<1>6. ~(Height(d) >= 2) /\ ~(Height(d) >= 3)
  BY <1>0, <1>5
<1>7. Height(d)' = 1 /\ \A i \in 1 .. Len(stack'[d]) : stack'[d][i] = Order[i + Skip(d)]
  <2>1. CASE d \in Ephemeral
    <3>1. stack'[d] = <<"tmpdir">> /\ Skip(d) = 0
      BY <1>0, <1>2, <2>1 DEF Skip
    <3>2. Len(stack'[d]) = 1 /\ stack'[d][1] = "tmpdir" /\ Order[1] = "tmpdir"
      BY <3>1 DEF Order
    <3> QED
      BY <3>1, <3>2 DEF Height, Skip
  <2>2. CASE d \notin Ephemeral
    <3>1. stack'[d] = <<>> /\ Skip(d) = 1
      BY <1>0, <1>2, <2>2 DEF Skip
    <3>2. Len(stack'[d]) = 0
      BY <3>1
    <3> QED
      BY <3>1, <3>2 DEF Height, Skip
  <2> QED
    BY <2>1, <2>2
<1>8. StackInv(d)'
  BY <1>4, <1>7 DEF StackInv, Skip
<1>9. HoldInv(d)'
  BY <1>0, <1>2, <1>4, <1>6, <1>7 DEF HoldInv
<1>10. PathInv(d)'
  <2>1. path \notin {<<d, n>> : n \in {starts[d] + 1}}
    <3>1. path = <<d, starts[d] + 1>> => starts[d] + 1 <= starts[d]
      BY <1>0 DEF PathInv
    <3> QED
      BY <1>0, <3>1
  <2>2. ~Mine(d)'
    BY <1>2, <1>4, <2>1 DEF Mine
  <2>3. \A n \in Nat : path = <<d, n>> => n <= starts[d] + 1
    <3>1. \A n \in Nat : path = <<d, n>> => n <= starts[d]
      BY <1>0 DEF PathInv
    <3> QED
      BY <1>0, <3>1
  <2> QED
    BY <1>2, <1>4, <2>2, <2>3 DEF PathInv
<1>11. Reached(d)'
  BY <1>0, <1>2, <1>6 DEF HoldInv, Reached
<1>12. Sound(d)'
  BY <1>8, <1>9, <1>10, <1>11 DEF Sound
<1>13. starts'[d] >= starts[d]
  BY <1>0, <1>4
<1> QED
  BY <1>1, <1>2, <1>3, <1>12, <1>13, StepKeeps

\* The steps that only go on or return.
LEMMA GoKeeps ==
    ASSUME DInv, NEW d \in Daemons,
           Admit(d) \/ Preflight(d) \/ ProbeSocket(d) \/ EndDrain(d)
    PROVE  DInv'
<1>0. StackInv(d) /\ HoldInv(d) /\ TypeOK /\ DTypes
  BY Before
<1>1. DTypes'
  BY <1>0, StartTypes, ServeTypes
<1>2. PICK p \in {"open", "listen", "remove", "unwind"} :
         /\ Goto(d, p)
         /\ p = "open" => pc[d] = "admit"
         /\ p = "listen" => pc[d] = "preflight"
         /\ p = "remove" => pc[d] = "probe"
  BY DEF Admit, Preflight, ProbeSocket, EndDrain, Return
<1>3. /\ UNCHANGED <<starts, stack, lock, path, listening, writer>>
      /\ pc[d] \notin {"down", "exited"}
  BY DEF Admit, Preflight, ProbeSocket, EndDrain, files, process
<1>4. \A e \in Daemons \ {d} : code'[e] = code[e]
  <2>1. code' = code \/ \E k : code' = [code EXCEPT ![d] = k]
    BY DEF Admit, Preflight, ProbeSocket, EndDrain, Return
  <2> QED
    BY <1>0, <2>1 DEF TypeOK
<1>5. p \in Places \ {"exited", "down"}
  BY DEF Places
<1>6. /\ p \in {"admit", "open"} => Height(d) = 1
      /\ p \in {"preflight", "listen", "probe", "remove", "rebind"} => Height(d) = 2
  BY <1>0, <1>2 DEF StackInv
<1>7. p \notin {"attach", "threads", "serving", "draining"}
  OBVIOUS
<1> QED
  BY <1>1, <1>2, <1>3, <1>4, <1>5, <1>6, <1>7, GotoKeeps

LEMMA OpenKeeps ==
    ASSUME DInv, NEW d \in Daemons, Open(d)
    PROVE  DInv'
<1>0. /\ StackInv(d) /\ HoldInv(d) /\ PathInv(d) /\ Reached(d) /\ TypeOK /\ DTypes
      /\ starts \in [Daemons -> Nat] /\ stack \in [Daemons -> Seq(Resources)]
      /\ stack[d] \in Seq(Resources) /\ Len(stack[d]) \in Nat /\ Skip(d) \in {0, 1}
      /\ Height(d) = Len(stack[d]) + Skip(d) /\ DirOf[d] \in Dirs /\ starts[d] \in Nat
  BY Before
<1>1. DTypes'
  BY <1>0, StartTypes
<1>2. pc[d] = "open" /\ starts' = starts /\ path' = path /\ listening' = listening
      /\ writer' = writer
  BY DEF Open, process
<1>3. Height(d) = 1
  BY <1>0, <1>2 DEF StackInv
<1>4. CASE lock[DirOf[d]] = None
  <2>1. /\ lock' = [lock EXCEPT ![DirOf[d]] = d] /\ pc' = [pc EXCEPT ![d] = "preflight"]
        /\ code' = code /\ Push(d, "store")
    BY <1>4 DEF Open, Goto
  <2>2. PICK r \in Resources : r = "store" /\ Push(d, r)
    BY <2>1 DEF Resources
  <2>3. /\ Len(stack'[d]) = Len(stack[d]) + 1 /\ stack'[d][Len(stack[d]) + 1] = "store"
        /\ \A i \in 1 .. Len(stack[d]) : stack'[d][i] = stack[d][i]
        /\ \A e \in Daemons : e # d => stack'[e] = stack[e]
    <3>1. Push(d, r)
      BY <2>2
    <3>2. /\ Len(stack'[d]) = Len(stack[d]) + 1 /\ stack'[d][Len(stack[d]) + 1] = r
          /\ \A i \in 1 .. Len(stack[d]) : stack'[d][i] = stack[d][i]
          /\ \A e \in Daemons : e # d => stack'[e] = stack[e]
      BY <1>0, <3>1, PushFacts
    <3> QED
      BY <2>2, <3>2
  <2>4. Height(d)' = 2
    <3>1. Height(d)' = Len(stack'[d]) + Skip(d)
      BY DEF Height, Skip
    <3> QED
      BY <1>0, <1>3, <2>3, <3>1
  <2>5. pc'[d] = "preflight" /\ \A e \in Daemons \ {d} : pc'[e] = pc[e]
    BY <1>0, <2>1 DEF TypeOK
  <2>6. \A i \in 1 .. Len(stack'[d]) : stack'[d][i] = Order[i + Skip(d)]
    <3>1. Order[2] = "store" /\ Len(stack[d]) + 1 + Skip(d) = 2
      BY <1>0, <1>3 DEF Order
    <3>2. \A i \in 1 .. Len(stack[d]) : stack[d][i] = Order[i + Skip(d)]
      BY <1>0 DEF StackInv
    <3> QED
      BY <1>0, <2>3, <3>1, <3>2
  <2>7. StackInv(d)'
    BY <2>4, <2>5, <2>6 DEF StackInv, Skip
  <2>8. lock'[DirOf[d]] = d /\ \A dir \in Dirs : dir # DirOf[d] => lock'[dir] = lock[dir]
    BY <1>0, <2>1 DEF TypeOK
  <2>9. HoldInv(d)'
    BY <1>0, <1>2, <1>3, <2>4, <2>5, <2>8 DEF HoldInv
  <2>10. PathInv(d)' /\ Reached(d)'
    BY <1>0, <1>2, <2>1, <2>5 DEF PathInv, Reached, Mine
  <2>11. \A e \in Daemons \ {d} :
            /\ pc'[e] = pc[e] /\ code'[e] = code[e] /\ stack'[e] = stack[e]
            /\ writer'[e] = writer[e] /\ starts'[e] = starts[e]
            /\ e \in listening' <=> e \in listening
            /\ \A dir \in Dirs : lock'[dir] = e <=> lock[dir] = e
    <3>1. \A e \in Daemons \ {d} :
             /\ pc'[e] = pc[e] /\ code'[e] = code[e] /\ stack'[e] = stack[e]
             /\ writer'[e] = writer[e] /\ starts'[e] = starts[e]
             /\ e \in listening' <=> e \in listening
      BY <1>2, <2>1, <2>3, <2>5
    <3>2. ASSUME NEW e \in Daemons \ {d}, NEW dir \in Dirs
          PROVE  lock'[dir] = e <=> lock[dir] = e
      <4>1. None # e
        BY ConstantsAssumption
      <4>2. CASE dir = DirOf[d]
        BY <1>4, <2>8, <4>1, <4>2
      <4> QED
        BY <2>8, <4>2
    <3> QED
      BY <3>1, <3>2
  <2>12. starts'[d] >= starts[d] /\ Sound(d)'
    BY <1>0, <1>2, <2>7, <2>9, <2>10 DEF Sound
  <2> QED
    BY <1>1, <1>2, <2>11, <2>12, StepKeeps
<1>5. CASE lock[DirOf[d]] # None
  <2>1. Goto(d, "unwind") /\ code' = [code EXCEPT ![d] = "error"] /\ lock' = lock /\ stack' = stack
    BY <1>5 DEF Open, Return
  <2>2. PICK p \in Places \ {"exited", "down"} : p = "unwind" /\ Goto(d, p)
    BY <2>1 DEF Places
  <2>3. \A e \in Daemons \ {d} : code'[e] = code[e]
    BY <1>0, <2>1 DEF TypeOK
  <2> QED
    BY <1>1, <1>2, <2>1, <2>2, <2>3, GotoKeeps
<1> QED
  BY <1>4, <1>5

LEMMA BoundKeeps ==
    ASSUME DInv, DTypes', NEW d \in Daemons, pc[d] \in {"listen", "rebind"}, Bound(d),
           UNCHANGED <<starts, lock, writer>>
    PROVE  DInv'
<1>0. /\ StackInv(d) /\ HoldInv(d) /\ PathInv(d) /\ Reached(d) /\ TypeOK /\ DTypes
      /\ starts \in [Daemons -> Nat] /\ stack \in [Daemons -> Seq(Resources)]
      /\ stack[d] \in Seq(Resources) /\ Len(stack[d]) \in Nat /\ Skip(d) \in {0, 1}
      /\ Height(d) = Len(stack[d]) + Skip(d) /\ DirOf[d] \in Dirs /\ starts[d] \in Nat
  BY Before
<1>1. Height(d) = 2
  BY <1>0 DEF StackInv
<1>2. /\ path' = IF Class[d] = "unix" THEN <<d, starts[d]>> ELSE path
      /\ listening' = listening \cup {d} /\ Push(d, "listener")
      /\ pc' = [pc EXCEPT ![d] = "attach"] /\ code' = code
  BY DEF Bound, Goto
<1>3. PICK r \in Resources : r = "listener" /\ Push(d, r)
  BY <1>2 DEF Resources
<1>4. /\ Len(stack'[d]) = Len(stack[d]) + 1 /\ stack'[d][Len(stack[d]) + 1] = "listener"
      /\ \A i \in 1 .. Len(stack[d]) : stack'[d][i] = stack[d][i]
      /\ \A e \in Daemons : e # d => stack'[e] = stack[e]
  <2>1. Push(d, r)
    BY <1>3
  <2>2. /\ Len(stack'[d]) = Len(stack[d]) + 1 /\ stack'[d][Len(stack[d]) + 1] = r
        /\ \A i \in 1 .. Len(stack[d]) : stack'[d][i] = stack[d][i]
        /\ \A e \in Daemons : e # d => stack'[e] = stack[e]
    BY <1>0, <2>1, PushFacts
  <2> QED
    BY <1>3, <2>2
<1>5. Height(d)' = 3
  <2>1. Height(d)' = Len(stack'[d]) + Skip(d)
    BY DEF Height, Skip
  <2> QED
    BY <1>0, <1>1, <1>4, <2>1
<1>6. pc'[d] = "attach" /\ \A e \in Daemons \ {d} : pc'[e] = pc[e]
  BY <1>0, <1>2 DEF TypeOK
<1>7. \A i \in 1 .. Len(stack'[d]) : stack'[d][i] = Order[i + Skip(d)]
  <2>1. Order[3] = "listener" /\ Len(stack[d]) + 1 + Skip(d) = 3
    BY <1>0, <1>1 DEF Order
  <2>2. \A i \in 1 .. Len(stack[d]) : stack[d][i] = Order[i + Skip(d)]
    BY <1>0 DEF StackInv
  <2> QED
    BY <1>0, <1>4, <2>1, <2>2
<1>8. StackInv(d)'
  BY <1>5, <1>6, <1>7 DEF StackInv, Skip
<1>9. HoldInv(d)'
  <2>1. \A dir \in Dirs : lock[dir] = d <=> dir = DirOf[d]
    BY <1>0, <1>1 DEF HoldInv
  <2>2. d \in listening' /\ starts[d] > 0 /\ writer[d] # "running"
    BY <1>0, <1>1, <1>2 DEF HoldInv
  <2> QED
    BY <1>5, <1>6, <2>1, <2>2 DEF HoldInv
<1>10. Mine(d) => d \in listening
  BY <1>0 DEF PathInv
<1>11. d \notin listening
  BY <1>0, <1>1 DEF HoldInv
<1>12. PathInv(d)'
  <2>1. CASE Class[d] = "unix"
    <3>1. path' = <<d, starts[d]>> /\ d \in listening'
      BY <1>2, <2>1
    <3>2. \A n \in Nat : path' = <<d, n>> => n <= starts[d]
      BY <1>0, <3>1
    <3> QED
      BY <2>1, <3>1, <3>2 DEF PathInv
  <2>2. CASE Class[d] # "unix"
    <3>1. path' = path
      BY <1>2, <2>2
    <3>2. ~Mine(d)'
      BY <1>10, <1>11, <3>1 DEF Mine
    <3> QED
      BY <1>0, <3>1, <3>2 DEF PathInv
  <2> QED
    BY <2>1, <2>2
<1>13. Reached(d)'
  BY <1>2 DEF Reached, Mine
<1>14. \A e \in Daemons \ {d} :
          /\ pc'[e] = pc[e] /\ code'[e] = code[e] /\ stack'[e] = stack[e]
          /\ writer'[e] = writer[e] /\ starts'[e] = starts[e]
          /\ e \in listening' <=> e \in listening
          /\ \A dir \in Dirs : lock'[dir] = e <=> lock[dir] = e
  BY <1>2, <1>4, <1>6
<1>15. /\ starts'[d] >= starts[d] /\ Sound(d)'
       /\ path' = path \/ path' = <<d, starts[d]>>
       /\ Height(d) >= 2 /\ pc[d] # "down"
  BY <1>0, <1>1, <1>2, <1>8, <1>9, <1>12, <1>13 DEF Sound
<1> QED
  BY <1>14, <1>15, StepKeeps

LEMMA ListenKeeps ==
    ASSUME DInv, NEW d \in Daemons, Listen(d) \/ Rebind(d)
    PROVE  DInv'
<1>0. DTypes /\ StackInv(d) /\ TypeOK
  BY Before
<1>1. DTypes'
  BY <1>0, StartTypes
<1>2. CASE Bound(d)
  BY <1>1, <1>2, BoundKeeps DEF Listen, Rebind, process
<1>3. CASE ~Bound(d)
  <2>1. /\ UNCHANGED <<path, listening, stack, starts, lock, writer>>
        /\ \/ pc[d] = "listen" /\ Goto(d, "probe") /\ code' = code
           \/ pc[d] = "rebind" /\ Goto(d, "unwind") /\ code' = [code EXCEPT ![d] = "error"]
    BY <1>3 DEF Listen, Rebind, Return, process
  <2>2. PICK p \in Places \ {"exited", "down"} : p \in {"probe", "unwind"} /\ Goto(d, p)
    BY <2>1 DEF Places
  <2>3. Height(d) = 2
    BY <1>0, <2>1 DEF StackInv
  <2>4. \A e \in Daemons \ {d} : code'[e] = code[e]
    BY <1>0, <2>1 DEF TypeOK
  <2> QED
    BY <1>1, <2>1, <2>2, <2>3, <2>4, GotoKeeps
<1> QED
  BY <1>2, <1>3

\* The stale file is removed, whosever it is: d has its store open.
LEMMA RemoveKeeps ==
    ASSUME DInv, NEW d \in Daemons, RemoveStale(d)
    PROVE  DInv'
<1>0. /\ StackInv(d) /\ HoldInv(d) /\ TypeOK /\ DTypes /\ starts \in [Daemons -> Nat]
      /\ Height(d) = Len(stack[d]) + Skip(d) /\ Len(stack[d]) \in Nat /\ Skip(d) \in {0, 1}
  BY Before
<1>1. DTypes'
  BY <1>0, StartTypes
<1>2. /\ pc[d] = "remove" /\ path' = None
      /\ UNCHANGED <<stack, starts, lock, listening, writer>>
      /\ \/ Goto(d, "rebind") /\ code' = code
         \/ Goto(d, "unwind") /\ code' = [code EXCEPT ![d] = "error"]
  BY DEF RemoveStale, Return, process
<1>3. Height(d) = 2
  BY <1>0, <1>2 DEF StackInv
<1>4. pc'[d] \in {"rebind", "unwind"} /\ \A e \in Daemons \ {d} : pc'[e] = pc[e]
  BY <1>0, <1>2 DEF TypeOK, Goto
<1>5. \A e \in Daemons \ {d} : code'[e] = code[e]
  BY <1>0, <1>2 DEF TypeOK
<1>6. StackInv(d)'
  BY <1>0, <1>2, <1>3, <1>4 DEF StackInv, Height, Skip
<1>7. HoldInv(d)'
  BY <1>0, <1>2, <1>3, <1>4 DEF HoldInv, Height, Skip
<1>8. d \notin listening
  BY <1>0, <1>3 DEF HoldInv
<1>9. \A n \in Nat : path' # <<d, n>>
  BY <1>2, ConstantsAssumption
<1>10. PathInv(d)' /\ Reached(d)'
  <2>1. starts'[d] \in Nat
    BY <1>0, <1>2
  <2>2. ~Mine(d)'
    BY <1>9, <2>1 DEF Mine
  <2> QED
    BY <1>2, <1>8, <1>9, <2>2 DEF PathInv, Reached
<1>11. Sound(d)'
  BY <1>6, <1>7, <1>10 DEF Sound
<1>12. \A e \in Daemons \ {d} :
         /\ pc'[e] = pc[e] /\ code'[e] = code[e] /\ stack'[e] = stack[e]
         /\ writer'[e] = writer[e] /\ starts'[e] = starts[e]
         /\ e \in listening' <=> e \in listening
         /\ \A dir \in Dirs : lock'[dir] = e <=> lock[dir] = e
  BY <1>2, <1>4, <1>5
<1>13. starts'[d] >= starts[d] /\ Height(d) >= 2 /\ pc[d] # "down"
  BY <1>0, <1>2, <1>3
<1> QED
  BY <1>1, <1>2, <1>11, <1>12, <1>13, StepKeeps

LEMMA AttachKeeps ==
    ASSUME DInv, NEW d \in Daemons, Attach(d)
    PROVE  DInv'
<1>0. /\ StackInv(d) /\ HoldInv(d) /\ PathInv(d) /\ Reached(d) /\ TypeOK /\ DTypes
      /\ starts \in [Daemons -> Nat] /\ stack \in [Daemons -> Seq(Resources)]
      /\ stack[d] \in Seq(Resources) /\ Len(stack[d]) \in Nat /\ Skip(d) \in {0, 1}
      /\ Height(d) = Len(stack[d]) + Skip(d) /\ DirOf[d] \in Dirs /\ starts[d] \in Nat
  BY Before
<1>1. DTypes'
  BY <1>0, StartTypes
<1>2. pc[d] = "attach" /\ starts' = starts /\ path' = path /\ listening' = listening /\ lock' = lock
  BY DEF Attach, process, files
<1>3. Height(d) = 3 /\ d \in listening
  BY <1>0, <1>2 DEF StackInv, HoldInv
<1>4. CASE Push(d, "writer") /\ writer' = [writer EXCEPT ![d] = "running"]
           /\ pc' = [pc EXCEPT ![d] = "threads"] /\ code' = code
  <2>1. PICK r \in Resources : r = "writer" /\ Push(d, r)
    BY <1>4 DEF Resources
  <2>2. /\ Len(stack'[d]) = Len(stack[d]) + 1 /\ stack'[d][Len(stack[d]) + 1] = "writer"
        /\ \A i \in 1 .. Len(stack[d]) : stack'[d][i] = stack[d][i]
        /\ \A e \in Daemons : e # d => stack'[e] = stack[e]
    <3>1. Push(d, r)
      BY <2>1
    <3>2. /\ Len(stack'[d]) = Len(stack[d]) + 1 /\ stack'[d][Len(stack[d]) + 1] = r
          /\ \A i \in 1 .. Len(stack[d]) : stack'[d][i] = stack[d][i]
          /\ \A e \in Daemons : e # d => stack'[e] = stack[e]
      BY <1>0, <3>1, PushFacts
    <3> QED
      BY <2>1, <3>2
  <2>3. Height(d)' = 4
    <3>1. Height(d)' = Len(stack'[d]) + Skip(d)
      BY DEF Height, Skip
    <3> QED
      BY <1>0, <1>3, <2>2, <3>1
  <2>4. /\ pc'[d] = "threads" /\ \A e \in Daemons \ {d} : pc'[e] = pc[e]
        /\ \A e \in Daemons \ {d} : writer'[e] = writer[e]
    BY <1>0, <1>4 DEF TypeOK
  <2>5. \A i \in 1 .. Len(stack'[d]) : stack'[d][i] = Order[i + Skip(d)]
    <3>1. Order[4] = "writer" /\ Len(stack[d]) + 1 + Skip(d) = 4
      BY <1>0, <1>3 DEF Order
    <3>2. \A i \in 1 .. Len(stack[d]) : stack[d][i] = Order[i + Skip(d)]
      BY <1>0 DEF StackInv
    <3> QED
      BY <1>0, <2>2, <3>1, <3>2
  <2>6. StackInv(d)'
    BY <2>3, <2>4, <2>5 DEF StackInv, Skip
  <2>7. HoldInv(d)'
    BY <1>0, <1>2, <1>3, <2>3, <2>4 DEF HoldInv
  <2>8. PathInv(d)' /\ Reached(d)'
    BY <1>0, <1>2, <1>3 DEF PathInv, Reached, Mine
  <2>9. \A e \in Daemons \ {d} :
            /\ pc'[e] = pc[e] /\ code'[e] = code[e] /\ stack'[e] = stack[e]
            /\ writer'[e] = writer[e] /\ starts'[e] = starts[e]
            /\ e \in listening' <=> e \in listening
            /\ \A dir \in Dirs : lock'[dir] = e <=> lock[dir] = e
    BY <1>2, <1>4, <2>2, <2>4
  <2>10. starts'[d] >= starts[d] /\ Sound(d)'
    BY <1>0, <1>2, <2>6, <2>7, <2>8 DEF Sound
  <2> QED
    BY <1>1, <1>2, <2>9, <2>10, StepKeeps
<1>5. CASE stack' = stack /\ writer' = [writer EXCEPT ![d] = "closed"]
           /\ pc' = [pc EXCEPT ![d] = "unwind"] /\ code' = [code EXCEPT ![d] = "error"]
  <2>1. /\ pc'[d] = "unwind" /\ writer'[d] = "closed"
        /\ \A e \in Daemons \ {d} : pc'[e] = pc[e] /\ writer'[e] = writer[e] /\ code'[e] = code[e]
    BY <1>0, <1>5 DEF TypeOK
  <2>2. Height(d)' = 3
    BY <1>3, <1>5 DEF Height, Skip
  <2>3. StackInv(d)'
    BY <1>0, <1>5, <2>1, <2>2 DEF StackInv, Skip
  <2>4. HoldInv(d)'
    BY <1>0, <1>2, <1>3, <2>1, <2>2 DEF HoldInv
  <2>5. PathInv(d)' /\ Reached(d)'
    BY <1>0, <1>2, <1>3 DEF PathInv, Reached, Mine
  <2>6. \A e \in Daemons \ {d} :
            /\ pc'[e] = pc[e] /\ code'[e] = code[e] /\ stack'[e] = stack[e]
            /\ writer'[e] = writer[e] /\ starts'[e] = starts[e]
            /\ e \in listening' <=> e \in listening
            /\ \A dir \in Dirs : lock'[dir] = e <=> lock[dir] = e
    BY <1>2, <1>5, <2>1
  <2>7. starts'[d] >= starts[d] /\ Sound(d)'
    BY <1>0, <1>2, <2>3, <2>4, <2>5 DEF Sound
  <2> QED
    BY <1>1, <1>2, <2>6, <2>7, StepKeeps
<1> QED
  BY <1>4, <1>5 DEF Attach, Goto, Return

LEMMA StartThreadsKeeps ==
    ASSUME DInv, NEW d \in Daemons, StartThreads(d)
    PROVE  DInv'
<1>0. /\ StackInv(d) /\ HoldInv(d) /\ PathInv(d) /\ Reached(d) /\ TypeOK /\ DTypes
      /\ starts \in [Daemons -> Nat] /\ stack \in [Daemons -> Seq(Resources)]
      /\ stack[d] \in Seq(Resources) /\ Len(stack[d]) \in Nat /\ Skip(d) \in {0, 1}
      /\ Height(d) = Len(stack[d]) + Skip(d) /\ DirOf[d] \in Dirs /\ starts[d] \in Nat
  BY Before
<1>1. DTypes'
  BY <1>0, StartTypes
<1>2. /\ pc[d] = "threads" /\ starts' = starts /\ path' = path /\ listening' = listening
      /\ lock' = lock /\ writer' = writer /\ code' = code /\ pc' = [pc EXCEPT ![d] = "serving"]
      /\ stack' = [stack EXCEPT ![d] = stack[d] \o <<"sweeper", "janitor">>]
  BY DEF StartThreads, process, files, Goto
<1>3. Height(d) = 4 /\ d \in listening
  BY <1>0, <1>2 DEF StackInv, HoldInv
<1>4. /\ Len(stack'[d]) = Len(stack[d]) + 2
      /\ stack'[d][Len(stack[d]) + 1] = "sweeper" /\ stack'[d][Len(stack[d]) + 2] = "janitor"
      /\ \A i \in 1 .. Len(stack[d]) : stack'[d][i] = stack[d][i]
  <2> DEFINE two == <<"sweeper", "janitor">>
  <2>1. two \in Seq(Resources) /\ Len(two) = 2 /\ two[1] = "sweeper" /\ two[2] = "janitor"
    BY DEF Resources
  <2>2. stack'[d] = stack[d] \o two
    BY <1>0, <1>2
  <2> HIDE DEF two
  <2>3. /\ Len(stack[d] \o two) = Len(stack[d]) + 2
        /\ \A i \in 1 .. Len(stack[d]) + 2 :
             (stack[d] \o two)[i] = IF i <= Len(stack[d]) THEN stack[d][i] ELSE two[i - Len(stack[d])]
    <3> DEFINE s == stack[d]
    <3>1. s \in Seq(Resources) /\ Len(s) \in Nat
      BY <1>0
    <3> HIDE DEF s
    <3>2. /\ Len(s \o two) = Len(s) + Len(two)
          /\ \A i \in 1 .. Len(s) + Len(two) :
               (s \o two)[i] = IF i <= Len(s) THEN s[i] ELSE two[i - Len(s)]
      BY <2>1, <3>1, ConcatProperties
    <3> QED
      BY <2>1, <3>2 DEF s
  <2> QED
    BY <1>0, <2>1, <2>2, <2>3
<1>5. Height(d)' = 6
  <2>1. Height(d)' = Len(stack'[d]) + Skip(d)
    BY DEF Height, Skip
  <2> QED
    BY <1>0, <1>3, <1>4, <2>1
<1>6. /\ pc'[d] = "serving"
      /\ \A e \in Daemons \ {d} : pc'[e] = pc[e] /\ stack'[e] = stack[e]
  BY <1>0, <1>2 DEF TypeOK
<1>7. \A i \in 1 .. Len(stack'[d]) : stack'[d][i] = Order[i + Skip(d)]
  <2>1. /\ Order[5] = "sweeper" /\ Len(stack[d]) + 1 + Skip(d) = 5
        /\ Order[6] = "janitor" /\ Len(stack[d]) + 2 + Skip(d) = 6
    BY <1>0, <1>3 DEF Order
  <2>2. \A i \in 1 .. Len(stack[d]) : stack[d][i] = Order[i + Skip(d)]
    BY <1>0 DEF StackInv
  <2> SUFFICES ASSUME NEW i \in 1 .. Len(stack'[d])
               PROVE  stack'[d][i] = Order[i + Skip(d)]
    OBVIOUS
  <2>3. i \in 1 .. Len(stack[d]) \/ i = Len(stack[d]) + 1 \/ i = Len(stack[d]) + 2
    BY <1>0, <1>4
  <2>4. CASE i \in 1 .. Len(stack[d])
    BY <1>4, <2>2, <2>4
  <2>5. CASE i = Len(stack[d]) + 1
    BY <1>4, <2>1, <2>5
  <2>6. CASE i = Len(stack[d]) + 2
    BY <1>4, <2>1, <2>6
  <2> QED
    BY <2>3, <2>4, <2>5, <2>6
<1>8. StackInv(d)'
  BY <1>5, <1>6, <1>7 DEF StackInv, Skip
<1>9. HoldInv(d)'
  BY <1>0, <1>2, <1>3, <1>5, <1>6 DEF HoldInv
<1>10. PathInv(d)' /\ Reached(d)'
  BY <1>0, <1>2, <1>3 DEF PathInv, Reached, Mine
<1>11. \A e \in Daemons \ {d} :
          /\ pc'[e] = pc[e] /\ code'[e] = code[e] /\ stack'[e] = stack[e]
          /\ writer'[e] = writer[e] /\ starts'[e] = starts[e]
          /\ e \in listening' <=> e \in listening
          /\ \A dir \in Dirs : lock'[dir] = e <=> lock[dir] = e
  BY <1>2, <1>6
<1>12. starts'[d] >= starts[d] /\ Sound(d)'
  BY <1>0, <1>2, <1>8, <1>9, <1>10 DEF Sound
<1> QED
  BY <1>1, <1>2, <1>11, <1>12, StepKeeps

\* Steps of requests, signals and goroutines that hold nothing.
LEMMA QuietKeeps ==
    ASSUME DInv, DTypes', UNCHANGED <<pc, code, starts, stack, lock, path, listening, writer>>
    PROVE  DInv'
<1>1. ASSUME NEW d \in Daemons PROVE Sound(d)'
  <2>0. StackInv(d) /\ HoldInv(d) /\ PathInv(d) /\ Reached(d)
    BY Before
  <2>1. StackInv(d)'
    BY <2>0 DEF StackInv, Height, Skip
  <2>2. HoldInv(d)'
    BY <2>0 DEF HoldInv, Height, Skip
  <2>3. PathInv(d)'
    BY <2>0 DEF PathInv, Mine
  <2>4. Reached(d)'
    BY <2>0 DEF Reached, Mine
  <2> QED
    BY <2>1, <2>2, <2>3, <2>4 DEF Sound
<1> QED
  BY <1>1 DEF DInv, DTypes, Sound

LEMMA BeginDrainKeeps ==
    ASSUME DInv, NEW d \in Daemons, BeginDrain(d)
    PROVE  DInv'
<1>0. /\ StackInv(d) /\ HoldInv(d) /\ PathInv(d) /\ Reached(d) /\ TypeOK /\ DTypes
      /\ starts \in [Daemons -> Nat] /\ stack \in [Daemons -> Seq(Resources)]
      /\ stack[d] \in Seq(Resources) /\ Len(stack[d]) \in Nat /\ Skip(d) \in {0, 1}
      /\ Height(d) = Len(stack[d]) + Skip(d) /\ DirOf[d] \in Dirs /\ starts[d] \in Nat
  BY Before
<1>1. DTypes'
  BY <1>0, ServeTypes
<1>2. /\ pc[d] = "serving" /\ starts' = starts /\ lock' = lock /\ writer' = writer /\ code' = code
      /\ stack' = stack /\ pc' = [pc EXCEPT ![d] = "draining"] /\ listening' = listening \ {d}
      /\ path' = IF Class[d] = "unix" THEN None ELSE path
  BY DEF BeginDrain, process, Goto, Unlinked
<1>3. Height(d) = 6 /\ Height(d)' = 6
  BY <1>0, <1>2 DEF StackInv, Height, Skip
<1>4. pc'[d] = "draining" /\ \A e \in Daemons \ {d} : pc'[e] = pc[e]
  BY <1>0, <1>2 DEF TypeOK
<1>5. StackInv(d)'
  BY <1>0, <1>2, <1>3, <1>4 DEF StackInv, Skip
<1>6. HoldInv(d)'
  BY <1>0, <1>2, <1>3, <1>4 DEF HoldInv
<1>7. ~Mine(d)' /\ \A n \in Nat : path' = <<d, n>> => path = <<d, n>>
  <2>1. \A n \in Nat : None # <<d, n>>
    BY ConstantsAssumption
  <2>2. Mine(d) => Class[d] = "unix"
    BY <1>0 DEF PathInv
  <2> QED
    BY <1>0, <1>2, <2>1, <2>2 DEF Mine
<1>8. PathInv(d)' /\ Reached(d)'
  BY <1>0, <1>2, <1>7 DEF PathInv, Reached
<1>9. \A e \in Daemons \ {d} :
          /\ pc'[e] = pc[e] /\ code'[e] = code[e] /\ stack'[e] = stack[e]
          /\ writer'[e] = writer[e] /\ starts'[e] = starts[e]
          /\ e \in listening' <=> e \in listening
          /\ \A dir \in Dirs : lock'[dir] = e <=> lock[dir] = e
  BY <1>2, <1>4
<1>10. starts'[d] >= starts[d] /\ Sound(d)'
  BY <1>0, <1>2, <1>5, <1>6, <1>8 DEF Sound
<1>11. /\ path' = path \/ path' = None
       /\ Height(d) >= 2 /\ pc[d] # "down"
  BY <1>2, <1>3
<1> QED
  BY <1>1, <1>9, <1>10, <1>11, StepKeeps

LEMMA DieKeeps ==
    ASSUME DInv, DTypes', NEW d \in Daemons, pc[d] \notin {"down", "exited"}, NEW k,
           Die(d, k), k # "killed" => ~Mine(d)
    PROVE  DInv'
<1>0. /\ StackInv(d) /\ HoldInv(d) /\ PathInv(d) /\ Reached(d) /\ TypeOK /\ DTypes
      /\ starts \in [Daemons -> Nat] /\ stack \in [Daemons -> Seq(Resources)]
      /\ stack[d] \in Seq(Resources) /\ Len(stack[d]) \in Nat /\ Skip(d) \in {0, 1}
      /\ Height(d) = Len(stack[d]) + Skip(d) /\ DirOf[d] \in Dirs /\ starts[d] \in Nat
  BY Before
<1>1. /\ pc' = [pc EXCEPT ![d] = "exited"] /\ code' = [code EXCEPT ![d] = k]
      /\ stack' = [stack EXCEPT ![d] = <<>>]
      /\ lock' = [z \in Dirs |-> IF lock[z] = d THEN None ELSE lock[z]]
      /\ listening' = listening \ {d}
      /\ writer' = [writer EXCEPT ![d] = IF writer[d] = "running" THEN "closed" ELSE writer[d]]
      /\ starts' = starts /\ path' = path
  BY DEF Die, Goto, process
<1>2. /\ pc'[d] = "exited" /\ code'[d] = k /\ stack'[d] = <<>> /\ writer'[d] # "running"
      /\ \A e \in Daemons \ {d} : /\ pc'[e] = pc[e] /\ code'[e] = code[e]
                                  /\ stack'[e] = stack[e] /\ writer'[e] = writer[e]
  BY <1>0, <1>1 DEF TypeOK
<1>3. None # d /\ \A e \in Daemons : None # e
  BY ConstantsAssumption
<1>4. \A dir \in Dirs : lock'[dir] # d /\ \A e \in Daemons \ {d} : lock'[dir] = e <=> lock[dir] = e
  BY <1>1, <1>3
<1>5. Len(stack'[d]) = 0 /\ Height(d)' = Len(stack'[d]) + Skip(d)
  BY <1>2 DEF Height, Skip
<1>6. Height(d)' <= 1
  BY <1>0, <1>5
<1>7. ~(Height(d)' >= 2) /\ Height(d)' <= 6
  BY <1>0, <1>5
<1>8. StackInv(d)'
  BY <1>2, <1>5, <1>7 DEF StackInv
<1>9. HoldInv(d)'
  <2>1. starts'[d] > 0 /\ d \notin listening'
    BY <1>0, <1>1 DEF HoldInv
  <2> QED
    BY <1>2, <1>4, <1>7, <2>1 DEF HoldInv
<1>10. PathInv(d)'
  BY <1>0, <1>1, <1>2 DEF PathInv, Mine
<1>11. Reached(d)'
  BY <1>1 DEF Reached
<1>12. \A e \in Daemons \ {d} :
          /\ pc'[e] = pc[e] /\ code'[e] = code[e] /\ stack'[e] = stack[e]
          /\ writer'[e] = writer[e] /\ starts'[e] = starts[e]
          /\ e \in listening' <=> e \in listening
          /\ \A dir \in Dirs : lock'[dir] = e <=> lock[dir] = e
  BY <1>1, <1>2, <1>4
<1>13. starts'[d] >= starts[d] /\ Sound(d)'
  BY <1>0, <1>1, <1>8, <1>9, <1>10, <1>11 DEF Sound
<1> QED
  BY <1>1, <1>12, <1>13, StepKeeps

LEMMA EndKeeps ==
    ASSUME DInv, Unborn, NEW d \in Daemons, Exit(d) \/ JanitorPanics(d) \/ Kill(d)
    PROVE  DInv'
<1>0. /\ StackInv(d) /\ HoldInv(d) /\ PathInv(d) /\ Reached(d) /\ TypeOK /\ DTypes
      /\ starts \in [Daemons -> Nat] /\ stack \in [Daemons -> Seq(Resources)]
      /\ stack[d] \in Seq(Resources) /\ Len(stack[d]) \in Nat /\ Skip(d) \in {0, 1}
      /\ Height(d) = Len(stack[d]) + Skip(d) /\ DirOf[d] \in Dirs /\ starts[d] \in Nat
  BY Before
<1>1. DTypes'
  BY <1>0, EndTypes
<1>2. CASE Exit(d)
  <2>1. pc[d] = "unwind" /\ stack[d] = <<>> /\ Die(d, code[d])
    BY <1>2 DEF Exit
  <2>2. Len(stack[d]) = 0
    BY <2>1
  <2>3. ~(Height(d) >= 3)
    BY <1>0, <2>2
  <2>4. ~Mine(d) /\ pc[d] \notin {"down", "exited"}
    BY <1>0, <2>1, <2>3 DEF PathInv, HoldInv
  <2> QED
    BY <1>1, <2>1, <2>4, DieKeeps
<1>3. CASE Kill(d) \/ JanitorPanics(d)
  <2>1. pc[d] \notin {"down", "exited"}
    BY <1>3 DEF Kill, JanitorPanics, Unborn
  <2>2. \E k : k = "killed" /\ Die(d, k)
    BY <1>3 DEF Kill, JanitorPanics
  <2>3. PICK k : k = "killed" /\ Die(d, k)
    BY <2>2
  <2> QED
    BY <1>1, <2>1, <2>3, DieKeeps
<1> QED
  BY <1>2, <1>3

\* One deferred release.
LEMMA UnwindKeeps ==
    ASSUME DInv, NEW d \in Daemons, Unwind(d)
    PROVE  DInv'
<1>0. /\ StackInv(d) /\ HoldInv(d) /\ PathInv(d) /\ Reached(d) /\ TypeOK /\ DTypes
      /\ starts \in [Daemons -> Nat] /\ stack \in [Daemons -> Seq(Resources)]
      /\ stack[d] \in Seq(Resources) /\ Len(stack[d]) \in Nat /\ Skip(d) \in {0, 1}
      /\ Height(d) = Len(stack[d]) + Skip(d) /\ DirOf[d] \in Dirs /\ starts[d] \in Nat
  BY Before
<1>1. DTypes'
  BY <1>0, EndTypes
<1>2. /\ pc[d] = "unwind" /\ stack[d] # <<>> /\ pc' = pc /\ code' = code /\ starts' = starts
      /\ stack' = [stack EXCEPT ![d] = Front(@)]
  BY DEF Unwind, process
<1>3. /\ Len(stack'[d]) = Len(stack[d]) - 1 /\ Len(stack[d]) \in Nat \ {0}
      /\ \A i \in 1 .. Len(stack'[d]) : stack'[d][i] = stack[d][i]
      /\ \A e \in Daemons : e # d => stack'[e] = stack[e]
      /\ NextRelease(d) = stack[d][Len(stack[d])]
  BY <1>0, <1>2, PopFacts
<1>4. NextRelease(d) = Order[Height(d)] /\ Height(d) \in 1 .. 6
  <2>1. Height(d) \in 1 .. 6
    BY <1>0, <1>3 DEF StackInv
  <2>2. \A i \in 1 .. Len(stack[d]) : stack[d][i] = Order[i + Skip(d)]
    BY <1>0 DEF StackInv
  <2> QED
    BY <1>0, <1>3, <2>1, <2>2
<1>5. Height(d)' = Height(d) - 1
  <2>1. Height(d)' = Len(stack'[d]) + Skip(d)
    BY DEF Height, Skip
  <2> QED
    BY <1>0, <1>3, <2>1
<1>6. StackInv(d)'
  <2>1. Height(d)' <= 6
    BY <1>4, <1>5
  <2>2. \A i \in 1 .. Len(stack'[d]) : stack'[d][i] = Order[i + Skip(d)]
    <3>1. \A i \in 1 .. Len(stack[d]) : stack[d][i] = Order[i + Skip(d)]
      BY <1>0 DEF StackInv
    <3> QED
      BY <1>3, <3>1
  <2> QED
    BY <1>2, <2>1, <2>2 DEF StackInv, Skip
<1>7. /\ Order[1] = "tmpdir" /\ Order[2] = "store" /\ Order[3] = "listener" /\ Order[4] = "writer"
      /\ Order[5] = "sweeper" /\ Order[6] = "janitor"
  BY DEF Order
<1>8. ASSUME Sound(d)',
             \A e \in Daemons \ {d} : /\ writer'[e] = writer[e]
                                      /\ e \in listening' <=> e \in listening
                                      /\ \A dir \in Dirs : lock'[dir] = e <=> lock[dir] = e,
             path' = path \/ (path' = None /\ Height(d) >= 2)
      PROVE  DInv'
  <2>1. \A e \in Daemons \ {d} :
          /\ pc'[e] = pc[e] /\ code'[e] = code[e] /\ stack'[e] = stack[e]
          /\ writer'[e] = writer[e] /\ starts'[e] = starts[e]
          /\ e \in listening' <=> e \in listening
          /\ \A dir \in Dirs : lock'[dir] = e <=> lock[dir] = e
    BY <1>2, <1>3, <1>8
  <2>2. starts'[d] >= starts[d]
    BY <1>0, <1>2
  <2>3. \/ path' = path
        \/ (path' = None \/ path' = <<d, starts[d]>>) /\ Height(d) >= 2 /\ pc[d] # "down"
    BY <1>2, <1>8
  <2> QED
    BY <1>1, <1>8, <2>1, <2>2, <2>3, StepKeeps
<1>9. starts[d] > 0
  BY <1>0, <1>2 DEF HoldInv
<1>10. CASE Height(d) = 2
  <2>1. CloseStore(d)
    BY <1>4, <1>7, <1>10 DEF Unwind
  <2>2. /\ lock' = [lock EXCEPT ![DirOf[d]] = None]
        /\ path' = path /\ listening' = listening /\ writer' = writer
    BY <2>1 DEF CloseStore
  <2>3. lock'[DirOf[d]] = None /\ \A dir \in Dirs : dir # DirOf[d] => lock'[dir] = lock[dir]
    BY <1>0, <2>2 DEF TypeOK
  <2>4. lock[DirOf[d]] = d /\ \A dir \in Dirs : dir # DirOf[d] => lock[dir] # d
    BY <1>0, <1>10 DEF HoldInv
  <2>5. \A e \in Daemons : None # e
    BY ConstantsAssumption
  <2>6. d \notin listening /\ writer[d] # "running"
    BY <1>0, <1>10 DEF HoldInv
  <2>7. HoldInv(d)'
    <3>1. ~(Height(d)' >= 2)
      BY <1>5, <1>10
    <3>2. \A dir \in Dirs : lock'[dir] # d
      BY <2>3, <2>4, <2>5
    <3> QED
      BY <1>2, <1>9, <2>2, <2>6, <3>1, <3>2 DEF HoldInv
  <2>8. PathInv(d)' /\ Reached(d)'
    BY <1>0, <1>2, <2>2 DEF PathInv, Reached, Mine
  <2>9. \A e \in Daemons \ {d}, dir \in Dirs : lock'[dir] = e <=> lock[dir] = e
    BY <2>3, <2>4, <2>5
  <2> QED
    BY <1>6, <1>8, <2>2, <2>7, <2>8, <2>9 DEF Sound
<1>11. CASE Height(d) = 3
  <2>1. CloseListener(d)
    BY <1>4, <1>7, <1>11 DEF Unwind
  <2>2. /\ path' = IF d \in listening /\ Class[d] = "unix" THEN None ELSE path
        /\ listening' = listening \ {d} /\ writer' = writer /\ lock' = lock
    BY <2>1 DEF CloseListener, Unlinked
  <2>3. HoldInv(d)'
    <3>1. Height(d)' = 2
      BY <1>5, <1>11
    <3>2. \A dir \in Dirs : lock[dir] = d <=> dir = DirOf[d]
      BY <1>0, <1>11 DEF HoldInv
    <3>3. writer[d] # "running"
      BY <1>0, <1>11 DEF HoldInv
    <3> QED
      BY <1>2, <1>9, <2>2, <3>1, <3>2, <3>3 DEF HoldInv
  <2>4. ~Mine(d)' /\ \A n \in Nat : path' = <<d, n>> => path = <<d, n>>
    <3>1. \A n \in Nat : None # <<d, n>>
      BY ConstantsAssumption
    <3>2. Mine(d) => Class[d] = "unix" /\ d \in listening
      BY <1>0, <1>2 DEF PathInv
    <3> QED
      BY <1>0, <1>2, <2>2, <3>1, <3>2 DEF Mine
  <2>5. PathInv(d)' /\ Reached(d)'
    BY <1>0, <1>2, <2>2, <2>4 DEF PathInv, Reached
  <2>6. path' = path \/ (path' = None /\ Height(d) >= 2)
    BY <1>11, <2>2
  <2> QED
    BY <1>6, <1>8, <2>2, <2>3, <2>5, <2>6 DEF Sound
<1>12. CASE Height(d) \in {1, 4, 5, 6}
  <2>1. CloseWriter(d) \/ StopJanitor(d) \/ UNCHANGED <<files, pool, writer, janitor>>
    BY <1>4, <1>7, <1>12 DEF Unwind
  <2>2. lock' = lock /\ path' = path /\ listening' = listening
    BY <2>1 DEF CloseWriter, StopJanitor, files
  <2>3. writer' = writer \/ (Height(d) = 4 /\ writer' = [writer EXCEPT ![d] = "closed"])
    <3>1. CASE Height(d) = 4
      BY <2>1 , <3>1 DEF CloseWriter, StopJanitor
    <3>2. CASE Height(d) # 4
      BY <1>4, <1>7, <1>12, <3>2 DEF Unwind, StopJanitor
    <3> QED
      BY <3>1, <3>2
  <2>4. \A e \in Daemons \ {d} : writer'[e] = writer[e]
    BY <1>0, <2>3 DEF TypeOK
  <2>5. Height(d) = 4 => writer'[d] # "running"
    <3>1. SUFFICES ASSUME Height(d) = 4 PROVE writer'[d] # "running"
      OBVIOUS
    <3>2. CloseWriter(d)
      BY <1>4, <1>7, <3>1 DEF Unwind
    <3> QED
      BY <1>0, <3>2 DEF CloseWriter, TypeOK
  <2>6. Height(d) # 4 => writer'[d] = writer[d]
    BY <2>3
  <2>7. HoldInv(d)'
    <3>1. Height(d) >= 2 <=> Height(d)' >= 2
      BY <1>5, <1>12
    <3>2. Height(d) >= 3 <=> Height(d)' >= 3
      BY <1>5, <1>12
    <3>3. Height(d) # 4 => (Height(d) >= 4 <=> Height(d)' >= 4)
      BY <1>5, <1>12
    <3>4. /\ \A dir \in Dirs : lock'[dir] = d <=> dir = DirOf[d] /\ Height(d)' >= 2
          /\ d \in listening' => Height(d)' >= 3
      BY <1>0, <2>2, <3>1, <3>2 DEF HoldInv
    <3>5. writer'[d] = "running" => Height(d)' >= 4
      BY <1>0, <2>5, <2>6, <3>3 DEF HoldInv
    <3> QED
      BY <1>2, <1>9, <3>4, <3>5 DEF HoldInv
  <2>8. PathInv(d)' /\ Reached(d)'
    BY <1>0, <1>2, <2>2 DEF PathInv, Reached, Mine
  <2> QED
    BY <1>6, <1>8, <2>2, <2>4, <2>7, <2>8 DEF Sound
<1> QED
  BY <1>4, <1>10, <1>11, <1>12

LEMMA UnbornKeeps ==
    ASSUME DTypes, Unborn, [Next]_vars
    PROVE  Unborn'
<1> SUFFICES ASSUME NEW e \in Daemons, pc'[e] = "down" PROVE janitor'[e] = "none"
  BY DEF Unborn
<1>0. /\ pc \in [Daemons -> Places] /\ janitor \in [Daemons -> {"none", "idle", "busy", "gone"}]
      /\ pc[e] = "down" => janitor[e] = "none"
  BY DEF DTypes, TypeOK, Unborn
<1>1. CASE UNCHANGED <<pc, janitor>>
  BY <1>0, <1>1
<1>2. ASSUME NEW d \in Daemons, NEW p, p # "down", Goto(d, p), janitor' = janitor
      PROVE  janitor'[e] = "none"
  BY <1>0, <1>2 DEF Goto
<1>3. ASSUME NEW d \in Daemons, NEW p, p # "down", Goto(d, p),
             NEW j, janitor' = [janitor EXCEPT ![d] = j]
      PROVE  janitor'[e] = "none"
  BY <1>0, <1>3 DEF Goto
<1>4. ASSUME NEW d \in Daemons, pc[d] # "down" \/ janitor[d] # "none", pc' = pc,
             NEW j, janitor' = [janitor EXCEPT ![d] = j]
      PROVE  janitor'[e] = "none"
  BY <1>0, <1>4
<1>5. ASSUME NEW d \in Daemons,
             Admit(d) \/ Open(d) \/ Preflight(d) \/ Listen(d) \/ ProbeSocket(d)
               \/ RemoveStale(d) \/ Rebind(d) \/ Attach(d) \/ BeginDrain(d) \/ EndDrain(d)
      PROVE  janitor'[e] = "none"
  <2>1. janitor' = janitor
    BY <1>5 DEF Admit, Open, Preflight, Listen, ProbeSocket, RemoveStale, Rebind, Attach, BeginDrain,
                EndDrain, threads
  <2>2. PICK p \in Places : p # "down" /\ Goto(d, p)
    BY <1>5 DEF Admit, Open, Preflight, Listen, ProbeSocket, RemoveStale, Rebind, Attach, BeginDrain,
                EndDrain, Bound, Return, Places
  <2> QED
    BY <1>2, <2>1, <2>2
<1>6. ASSUME NEW d \in Daemons,
             Start(d) \/ StartThreads(d) \/ Exit(d) \/ JanitorPanics(d) \/ Kill(d)
      PROVE  janitor'[e] = "none"
  <2>1. PICK p \in Places, j \in {"none", "idle", "gone"} :
           p # "down" /\ Goto(d, p) /\ janitor' = [janitor EXCEPT ![d] = j]
    BY <1>6 DEF Start, StartThreads, Exit, JanitorPanics, Kill, Die, Places
  <2> QED
    BY <1>3, <2>1
<1>7. ASSUME NEW d \in Daemons, Unwind(d) PROVE janitor'[e] = "none"
  <2>1. pc' = pc /\ pc[d] = "unwind"
    BY <1>7 DEF Unwind
  <2>2. CASE janitor' = janitor
    BY <1>1, <2>1, <2>2
  <2>3. CASE janitor' # janitor
    <3>1. \E j : janitor' = [janitor EXCEPT ![d] = j]
      BY <1>7, <2>3 DEF Unwind, CloseStore, CloseListener, CloseWriter, StopJanitor
    <3> QED
      BY <1>4, <2>1, <3>1
  <2> QED
    BY <2>2, <2>3
<1>8. ASSUME NEW d \in Daemons, JanitorWorks(d) \/ JanitorReads(d) PROVE janitor'[e] = "none"
  <2>1. pc' = pc /\ janitor[d] # "none" /\ \E j : janitor' = [janitor EXCEPT ![d] = j]
    BY <1>8 DEF JanitorWorks, JanitorReads
  <2> QED
    BY <1>4, <2>1
<1>9. ASSUME NEW d \in Daemons, Signal(d) \/ SweeperStops(d) PROVE janitor'[e] = "none"
  BY <1>1, <1>9 DEF Signal, SweeperStops, threads
<1>10. ASSUME NEW r \in Requests, Accept(r) \/ Handle(r) PROVE janitor'[e] = "none"
  BY <1>1, <1>10 DEF Accept, Handle, threads
<1>11. CASE UNCHANGED vars
  BY <1>1, <1>11 DEF vars
<1> QED
  BY <1>5, <1>6, <1>7, <1>8, <1>9, <1>10, <1>11 DEF Next, Serve

LEMMA DaemonInit ==
    ASSUME Init
    PROVE  DInv /\ Unborn
<1> USE DEF Init
<1>0. /\ stack = [d \in Daemons |-> <<>>] /\ <<>> \in Seq(Resources)
      /\ \A d \in Daemons : stack[d] = <<>> /\ Len(stack[d]) = 0
  OBVIOUS
<1>1. TypeOK /\ starts \in [Daemons -> Nat]
  <2>1. stack \in [Daemons -> Seq(Resources)]
    BY <1>0
  <2>2. starts \in [Daemons -> Nat] /\ \A d \in Daemons : starts[d] \in 0 .. MaxStarts[d]
    BY ConstantsAssumption
  <2>3. /\ pc \in [Daemons -> Places]
        /\ code \in [Daemons -> {"none", "ok", "error", "config", "killed"}]
    BY DEF Places
  <2>4. req \in [Requests -> [at : Daemons \cup {None}, is : {"new", "running", "answered", "refused", "cut"}]]
    OBVIOUS
  <2>5. /\ lock \in [Dirs -> Daemons \cup {None}] /\ marker \in [Dirs -> {"absent", "0", "1"}]
        /\ path \in (Daemons \X Nat) \cup {None}
    OBVIOUS
  <2>6. /\ signal \subseteq Daemons /\ listening \subseteq Daemons /\ pool \subseteq Daemons
        /\ sweeper \subseteq Daemons
        /\ writer \in [Daemons -> {"none", "running", "closed"}]
        /\ janitor \in [Daemons -> {"none", "idle", "busy", "gone"}]
    OBVIOUS
  <2> QED
    BY <2>1, <2>2, <2>3, <2>4, <2>5, <2>6 DEF TypeOK
<1>2. ASSUME NEW d \in Daemons
      PROVE  StackInv(d) /\ HoldInv(d) /\ PathInv(d) /\ Reached(d)
  <2>1. Skip(d) \in {0, 1} /\ Height(d) = Len(stack[d]) + Skip(d)
    BY DEF Skip, Height
  <2>2. Height(d) \in {0, 1}
    BY <1>0, <2>1
  <2>3. pc[d] = "down" /\ writer[d] = "none" /\ d \notin listening
    OBVIOUS
  <2>4. None # d /\ \A n \in Nat : None # <<d, n>>
    BY ConstantsAssumption
  <2>5. StackInv(d)
    BY <1>0, <2>2, <2>3 DEF StackInv
  <2>6. HoldInv(d)
    BY <2>2, <2>3, <2>4 DEF HoldInv
  <2>7. PathInv(d)
    BY <2>4 DEF PathInv, Mine
  <2> QED
    BY <2>3, <2>5, <2>6, <2>7 DEF Reached
<1> QED
  BY <1>1, <1>2 DEF DInv, Unborn

LEMMA DaemonStep ==
    ASSUME DInv, Unborn, [Next]_vars
    PROVE  DInv' /\ Unborn'
<1>0. DTypes
  BY DEF DInv, DTypes
<1>1. Unborn'
  BY <1>0, UnbornKeeps
<1>2. ASSUME NEW d \in Daemons, Serve(d) PROVE DInv'
  BY <1>2, GoKeeps, OpenKeeps, ListenKeeps, RemoveKeeps, AttachKeeps, StartThreadsKeeps, BeginDrainKeeps,
     UnwindKeeps, EndKeeps DEF Serve
<1>3. ASSUME NEW d \in Daemons,
             Signal(d) \/ SweeperStops(d) \/ JanitorWorks(d) \/ JanitorReads(d)
      PROVE  DInv'
  <2>1. DTypes'
    BY <1>0, <1>3, ServeTypes
  <2>2. UNCHANGED <<pc, code, starts, stack, lock, path, listening, writer>>
    BY <1>3 DEF Signal, SweeperStops, JanitorWorks, JanitorReads, files, process
  <2> QED
    BY <2>1, <2>2, QuietKeeps
<1>4. ASSUME NEW r \in Requests, Accept(r) \/ Handle(r) PROVE DInv'
  <2>1. DTypes'
    BY <1>0, <1>4, RequestTypes
  <2>2. UNCHANGED <<pc, code, starts, stack, lock, path, listening, writer>>
    BY <1>4 DEF Accept, Handle, files, process
  <2> QED
    BY <2>1, <2>2, QuietKeeps
<1>5. ASSUME NEW d \in Daemons, Start(d) \/ Kill(d) \/ JanitorPanics(d) PROVE DInv'
  BY <1>5, StartKeeps, EndKeeps
<1>6. CASE UNCHANGED vars
  <2>1. DTypes'
    BY <1>0, <1>6 DEF DTypes, TypeOK, vars
  <2>2. UNCHANGED <<pc, code, starts, stack, lock, path, listening, writer>>
    BY <1>6 DEF vars
  <2> QED
    BY <1>1, <2>1, <2>2, QuietKeeps
<1>7. DInv'
  BY <1>2, <1>3, <1>4, <1>5, <1>6 DEF Next
<1> QED
  BY <1>1, <1>7

LEMMA DaemonSafe ==
    ASSUME DInv
    PROVE  TypeOK /\ ServingIsReachable /\ ExitReleases
<1>1. TypeOK
  BY DEF DInv
<1>2. ServingIsReachable
  <2> SUFFICES ASSUME NEW d \in Daemons, pc[d] = "serving", Class[d] = "unix"
               PROVE  Mine(d) \/ \E e \in Daemons : DirOf[e] # DirOf[d] /\ starts[e] > 0
    BY DEF ServingIsReachable
  <2>1. HoldInv(d) /\ Reached(d)
    BY DEF DInv
  <2> QED
    BY <2>1 DEF HoldInv, Reached
<1>3. ExitReleases
  <2> SUFFICES ASSUME NEW d \in Daemons, pc[d] = "exited", code[d] # "killed"
               PROVE  (\A z \in Dirs : lock[z] # d) /\ ~Mine(d) /\ writer[d] # "running"
    BY DEF ExitReleases
  <2>1. /\ StackInv(d) /\ HoldInv(d) /\ PathInv(d) /\ Skip(d) \in {0, 1}
        /\ Height(d) = Len(stack[d]) + Skip(d)
    BY Before
  <2>2. Len(stack[d]) = 0
    BY <2>1 DEF StackInv
  <2>3. ~(Height(d) >= 2) /\ ~(Height(d) >= 3) /\ ~(Height(d) >= 4)
    BY <2>1, <2>2
  <2> QED
    BY <2>1, <2>3 DEF HoldInv, PathInv
<1> QED
  BY <1>1, <1>2, <1>3

\* A daemon that serves is reachable and one that returned left nothing behind
\* (serve.go: socketIsStale, the deferred calls), for any number of processes
\* on any directories.
THEOREM DaemonsEndClean == Spec => [](TypeOK /\ ServingIsReachable /\ ExitReleases)
<1>1. Init => DInv /\ Unborn
  BY DaemonInit
<1>2. DInv /\ Unborn /\ [Next]_vars => DInv' /\ Unborn'
  BY DaemonStep
<1>3. DInv => TypeOK /\ ServingIsReachable /\ ExitReleases
  BY DaemonSafe
<1> QED
  BY <1>1, <1>2, <1>3, PTL DEF Spec

-----------------------------------------------------------------------------
(* Janitor *)

\* The job after a job.
LEMMA JobAfterType ==
    ASSUME NEW j \in Range(Jobs)
    PROVE  JobAfter(j) \in Range(Jobs) \cup {"idle"}
<1>1. /\ Len(Jobs) = 7 /\ Jobs[1] = "reaper" /\ Jobs[2] = "retention" /\ Jobs[3] = "dedup"
      /\ Jobs[4] = "events" /\ Jobs[5] = "checkpoint" /\ Jobs[6] = "vacuum" /\ Jobs[7] = "stats"
  BY DEF Jobs
<1>2. Range(Jobs) = {Jobs[i] : i \in 1 .. 7}
  <2>1. DOMAIN Jobs = 1 .. 7
    BY DEF Jobs
  <2> QED
    BY <2>1 DEF Range
<1>3. CASE j = "stats"
  BY <1>3 DEF JobAfter
<1>4. CASE j # "stats"
  <2>1. \E i \in 2 .. 7 : Jobs[i - 1] = j
    <3>1. PICK k \in 1 .. 7 : j = Jobs[k]
      BY <1>2
    <3>2. k \in 1 .. 6
      BY <1>1, <1>4, <3>1
    <3>3. k + 1 \in 2 .. 7 /\ k + 1 - 1 = k
      BY <3>2
    <3> QED
      BY <3>1, <3>3
  <2> DEFINE n == CHOOSE i \in 2 .. 7 : Jobs[i - 1] = j
  <2>2. n \in 2 .. 7
    BY <2>1
  <2>3. JobAfter(j) = Jobs[n]
    BY <1>1, <1>4 DEF JobAfter
  <2> HIDE DEF n
  <2>4. n \in 1 .. 7
    BY <2>2
  <2> QED
    BY <1>2, <2>3, <2>4
<1> QED
  BY <1>3, <1>4

LEMMA JobNames ==
    Range(Jobs) = {"reaper", "retention", "dedup", "events", "checkpoint", "vacuum", "stats"}
<1>1. /\ DOMAIN Jobs = 1 .. 7
      /\ Jobs[1] = "reaper" /\ Jobs[2] = "retention" /\ Jobs[3] = "dedup"
      /\ Jobs[4] = "events" /\ Jobs[5] = "checkpoint" /\ Jobs[6] = "vacuum" /\ Jobs[7] = "stats"
  BY DEF Jobs
<1>2. Range(Jobs) = {Jobs[i] : i \in {1, 2, 3, 4, 5, 6, 7}}
  <2>1. 1 .. 7 = {1, 2, 3, 4, 5, 6, 7}
    OBVIOUS
  <2> QED
    BY <1>1, <2>1 DEF Range
<1> QED
  BY <1>1, <1>2

\* Where the loop goes.
LoopOK == job \in Steps \cup {"idle", "exited"} /\ spent \in BOOLEAN /\ cancelled \in BOOLEAN

LEMMA LeaveType ==
    ASSUME LoopOK, NEW j \in Range(Jobs), Leave(j)
    PROVE  LoopOK' /\ job' # "sweeping"
<1>1. JobAfter(j) \in Range(Jobs) \cup {"idle"}
  BY JobAfterType
<1>2. job' \in Range(Jobs) \cup {"idle", "exited"}
  BY <1>1 DEF Leave
<1>3. job' # "sweeping" /\ job' \in Steps \cup {"idle", "exited"}
  BY <1>2, JobNames DEF Steps
<1>4. spent' = FALSE /\ cancelled' = cancelled
  BY DEF Leave
<1> QED
  BY <1>3, <1>4, Zenon DEF LoopOK

LEMMA ReenterType ==
    ASSUME LoopOK, NEW j \in Range(Jobs), NEW more, Reenter(j, more)
    PROVE  LoopOK' /\ job' # "sweeping"
<1>1. CASE more /\ ~spent /\ ~cancelled
  <2>1. job' = j /\ spent' = spent /\ cancelled' = cancelled
    BY <1>1, Zenon DEF Reenter
  <2>2. job' # "sweeping" /\ job' \in Steps \cup {"idle", "exited"}
    BY <2>1, JobNames DEF Steps
  <2> QED
    BY <2>1, <2>2, Zenon DEF LoopOK
<1>2. CASE ~(more /\ ~spent /\ ~cancelled)
  <2>1. Leave(j)
    BY <1>2, Zenon DEF Reenter
  <2> QED
    BY <2>1, LeaveType
<1> QED
  BY <1>1, <1>2, Zenon

LEMMA MaxOfZero ==
    ASSUME NEW n \in Nat, NEW k \in Nat
    PROVE  Max({0, n - k}) \in 0 .. n
<1>1. CASE n - k >= 0
  <2>1. Max({0, n - k}) = n - k
    BY <1>1 DEF Max
  <2> QED
    BY <1>1, <2>1
<1>2. CASE n - k < 0
  <2>1. Max({0, n - k}) = 0
    BY <1>2 DEF Max
  <2> QED
    BY <2>1
<1> QED
  BY <1>1, <1>2

\* The parts of the type invariant, by the step that changes them.
StreamsOK == live \subseteq Names /\ markers \in [Names -> Amounts] /\ changes \in 0 .. MaxChanges
DedupOK ==
    /\ list \in Seq(Names) /\ swept \in 0 .. DedupLimit /\ cursor \in 0 .. Cardinality(Names)
    /\ last \in Names \cup {0, Failed} /\ Len(list) <= Cardinality(Names)
ExcessOK == excess \in [{"messages", "events"} -> Amounts]
FilesOK == wal \in Amounts /\ freelist \in Amounts /\ before \in Amounts /\ free \in Amounts
FlagsOK == broken \in BOOLEAN /\ quiet \in BOOLEAN /\ disk \in {"ok", "low"} /\ happens \in Scenarios
ListOK == job = "sweeping" => Len(list) > 0

LEMMA JParts == JInv <=> LoopOK /\ StreamsOK /\ DedupOK /\ ExcessOK /\ FilesOK /\ FlagsOK /\ ListOK
BY Zenon DEF JInv, JTypeOK, LoopOK, StreamsOK, DedupOK, ExcessOK, FilesOK, FlagsOK, ListOK

\* What the constants are.
LEMMA JanitorNumbers ==
    /\ Names \subseteq Nat \ {0} /\ IsFiniteSet(Names) /\ Cardinality(Names) \in Nat
    /\ DedupLimit \in Nat \ {0} /\ RetentionBatch \in Nat \ {0} /\ VacuumPages \in Nat \ {0}
    /\ MaxWork \in Nat \ {0} /\ MaxChanges \in Nat /\ MinFree \in Nat
BY JanitorAssumption, FS_CardinalityType

\* The list of streams.
LEMMA ListFacts ==
    ASSUME live \subseteq Names, NEW s \in ListStreams(live)
    PROVE  /\ s \in Seq(Names) /\ Len(s) = Cardinality(live) /\ Len(s) <= Cardinality(Names)
           /\ live # {} => Len(s) > 0
<1>1. IsFiniteSet(live) /\ Cardinality(live) <= Cardinality(Names) /\ Cardinality(live) \in Nat
  BY JanitorNumbers, FS_Subset, FS_CardinalityType
<1>2. s \in [1 .. Cardinality(live) -> live]
  BY DEF ListStreams
<1>3. s \in Seq(live) /\ Len(s) = Cardinality(live)
  BY <1>1, <1>2, IsASeq, LenProperties
<1>4. s \in Seq(Names)
  BY <1>3
<1>5. live # {} => Cardinality(live) # 0
  BY <1>1, FS_EmptySet
<1> QED
  BY <1>1, <1>3, <1>4, <1>5

\* The smaller of two numbers.
LEMMA WindowFacts ==
    ASSUME DedupOK
    PROVE  /\ Window \in Int /\ Window <= DedupLimit /\ Window <= Len(list) - cursor
           /\ Len(list) \in Nat /\ cursor \in Nat /\ swept \in Nat
<1>1. /\ Len(list) \in Nat /\ cursor \in Nat /\ swept \in Nat /\ DedupLimit \in Nat
  BY JanitorNumbers, LenProperties DEF DedupOK
<1> DEFINE m == Len(list) - cursor
<1>2. m \in Int
  BY <1>1
<1>3. Window = Min({DedupLimit, m})
  BY DEF Window
<1> HIDE DEF m
<1>4. Min({DedupLimit, m}) \in {DedupLimit, m} /\ Min({DedupLimit, m}) <= DedupLimit /\ Min({DedupLimit, m}) <= m
  <2>1. CASE DedupLimit <= m
    <3>1. Min({DedupLimit, m}) = DedupLimit
      BY <1>1, <1>2, <2>1 DEF Min
    <3> QED
      BY <1>1, <2>1, <3>1
  <2>2. CASE m < DedupLimit
    <3>1. Min({DedupLimit, m}) = m
      BY <1>1, <1>2, <2>2 DEF Min
    <3> QED
      BY <1>1, <1>2, <2>2, <3>1
  <2> QED
    BY <1>1, <1>2, <2>1, <2>2
<1> QED
  BY <1>1, <1>2, <1>3, <1>4 DEF m

LEMMA DedupKeeps ==
    ASSUME JInv, DedupList \/ DedupSweep
    PROVE  JInv'
<1>0. LoopOK /\ StreamsOK /\ DedupOK /\ ExcessOK /\ FilesOK /\ FlagsOK /\ ListOK
  BY JParts
<1>1. StreamsOK' /\ ExcessOK' /\ FilesOK' /\ FlagsOK'
  <2>1. UNCHANGED <<live, markers, changes, excess, wal, freelist, before, broken, quiet, free, disk, happens>>
    BY DEF DedupList, DedupSweep, reaping, vacuum, monitor
  <2> QED
    BY <1>0, <2>1, Zenon DEF StreamsOK, ExcessOK, FilesOK, FlagsOK
<1>2. PICK dd \in Range(Jobs) : dd = "dedup"
  BY JobNames
<1>3. CASE DedupList
  <2>1. list' \in ListStreams(live) /\ swept' = 0 /\ cursor' = cursor /\ last' = last
    BY <1>3 DEF DedupList
  <2>2. /\ list' \in Seq(Names) /\ Len(list') <= Cardinality(Names)
        /\ live # {} => Len(list') > 0
    BY <1>0, <2>1, ListFacts DEF StreamsOK
  <2>3. DedupOK'
    BY <1>0, <2>1, <2>2, JanitorNumbers DEF DedupOK
  <2>4. CASE live = {}
    <3>1. \E j \in Range(Jobs) : Leave(j)
      BY <1>2, <1>3, <2>4 DEF DedupList
    <3>2. LoopOK' /\ job' # "sweeping"
      BY <1>0, <3>1, LeaveType
    <3> QED
      BY <1>1, <2>3, <3>2, JParts DEF JInv, JTypeOK, LoopOK, StreamsOK, DedupOK, ExcessOK, FilesOK, FlagsOK
  <2>5. CASE live # {}
    <3>1. job' = "sweeping" /\ spent' = spent /\ cancelled' = cancelled
      BY <1>3, <2>5 DEF DedupList
    <3>2. LoopOK'
      <4>1. job' \in Steps \cup {"idle", "exited"}
        BY <3>1 DEF Steps
      <4> QED
        BY <1>0, <3>1, <4>1, Zenon DEF LoopOK
    <3>3. ListOK'
      BY <2>2, <2>5 DEF ListOK
    <3> QED
      BY <1>1, <2>3, <3>2, <3>3 DEF JInv, JTypeOK, LoopOK, StreamsOK, DedupOK, ExcessOK, FilesOK, FlagsOK, ListOK
  <2> QED
    BY <2>4, <2>5
<1>4. CASE DedupSweep
  <2>0. /\ Window \in Int /\ Window <= DedupLimit /\ Window <= Len(list) - cursor
        /\ Len(list) \in Nat /\ cursor \in Nat /\ swept \in Nat /\ Len(list) > 0
        /\ Len(list) <= Cardinality(Names) /\ Cardinality(Names) \in Nat /\ DedupLimit \in Nat
        /\ list \in Seq(Names) /\ swept <= DedupLimit
    BY <1>0, <1>4, WindowFacts, JanitorNumbers DEF DedupSweep, DedupOK, ListOK
  <2>1. list' = list
    BY <1>4 DEF DedupSweep
  <2>2. CASE swept >= Window \/ (swept > 0 /\ spent)
    <3>1. DedupEnd /\ last' = last /\ swept' = swept
      BY <1>4, <2>2, Zenon DEF DedupSweep
    <3>2. \E j \in Range(Jobs), more \in BOOLEAN : Reenter(j, more)
      BY <1>2, <3>1 DEF DedupEnd
    <3>3. LoopOK' /\ job' # "sweeping"
      BY <1>0, <3>2, ReenterType
    <3>4. cursor' = (cursor + swept) % Len(list)
      BY <3>1 DEF DedupEnd
    <3>5. cursor' \in 0 .. Cardinality(Names)
      BY <2>0, <3>4
    <3>6. DedupOK'
      BY <1>0, <2>1, <3>1, <3>5 DEF DedupOK
    <3> QED
      BY <1>1, <3>3, <3>6 DEF JInv, JTypeOK, LoopOK, StreamsOK, DedupOK, ExcessOK, FilesOK, FlagsOK
  <2>3. CASE ~(swept >= Window \/ (swept > 0 /\ spent))
    <3>1. swept + 1 <= Window
      BY <2>0, <2>3
    <3>2. cursor + swept + 1 \in 1 .. Len(list) /\ swept + 1 \in 0 .. DedupLimit
      BY <2>0, <3>1
    <3>3. list[cursor + swept + 1] \in Names
      BY <2>0, <3>2, ElementOfSeq
    <3>4. CASE list[cursor + swept + 1] \in live /\ ~cancelled
      <4>1. /\ last' = list[cursor + swept + 1] /\ swept' = swept + 1 /\ cursor' = cursor
            /\ job' = job /\ spent' = spent /\ cancelled' = cancelled
        BY <1>4, <2>3, <3>4, Zenon DEF DedupSweep, loop
      <4>2. DedupOK'
        BY <1>0, <2>1, <3>2, <3>3, <4>1 DEF DedupOK
      <4>3. LoopOK' /\ ListOK'
        BY <1>0, <2>1, <4>1, Zenon DEF LoopOK, ListOK
      <4> QED
        BY <1>1, <4>2, <4>3 DEF JInv, JTypeOK, LoopOK, StreamsOK, DedupOK, ExcessOK, FilesOK, FlagsOK, ListOK
    <3>5. CASE ~(list[cursor + swept + 1] \in live /\ ~cancelled)
      <4>1. cursor' = cursor + swept /\ Leave("dedup") /\ last' = last /\ swept' = swept
        BY <1>4, <2>3, <3>5, Zenon DEF DedupSweep
      <4>2. \E j \in Range(Jobs) : Leave(j)
        BY <1>2, <4>1
      <4>3. LoopOK' /\ job' # "sweeping"
        BY <1>0, <4>2, LeaveType
      <4>4. cursor + swept \in 0 .. Cardinality(Names)
        BY <2>0, <3>2
      <4>5. DedupOK'
        BY <1>0, <2>1, <4>1, <4>4 DEF DedupOK
      <4> QED
        BY <1>1, <4>3, <4>5 DEF JInv, JTypeOK, LoopOK, StreamsOK, DedupOK, ExcessOK, FilesOK, FlagsOK
    <3> QED
      BY <3>4, <3>5
  <2> QED
    BY <2>2, <2>3
<1> QED
  BY <1>3, <1>4

LEMMA DedupFailsKeeps ==
    ASSUME JInv, DedupFails
    PROVE  JInv'
<1>0. LoopOK /\ StreamsOK /\ DedupOK /\ ExcessOK /\ FilesOK /\ FlagsOK /\ ListOK
  BY JParts
<1>1. /\ UNCHANGED <<live, markers, changes, excess, wal, freelist, before, broken, quiet, free, disk, happens>>
      /\ UNCHANGED <<list, swept>> /\ last' = Failed
  BY DEF DedupFails, reaping, vacuum, monitor
<1>2. StreamsOK' /\ ExcessOK' /\ FilesOK' /\ FlagsOK'
  BY <1>0, <1>1, Zenon DEF StreamsOK, ExcessOK, FilesOK, FlagsOK
<1>3. \E j \in Range(Jobs) : Leave(j)
  BY JobNames DEF DedupFails
<1>4. LoopOK' /\ job' # "sweeping"
  BY <1>0, <1>3, LeaveType
<1>5. cursor' \in 0 .. Cardinality(Names)
  <2>1. /\ Window \in Int /\ Window <= Len(list) - cursor /\ Len(list) \in Nat
        /\ cursor \in Nat /\ swept \in Nat
    BY <1>0, WindowFacts
  <2>2. Cardinality(Names) \in Nat /\ Len(list) <= Cardinality(Names) /\ cursor <= Cardinality(Names)
    BY <1>0, <2>1, JanitorNumbers DEF DedupOK
  <2>3. cursor' = cursor \/ (swept < Window /\ cursor' = cursor + swept)
    BY DEF DedupFails
  <2> QED
    BY <2>1, <2>2, <2>3
<1>6. DedupOK'
  BY <1>0, <1>1, <1>5 DEF DedupOK
<1> QED
  BY <1>2, <1>4, <1>6 DEF JInv, JTypeOK, LoopOK, StreamsOK, DedupOK, ExcessOK, FilesOK, FlagsOK

\* A step that leaves the list alone and does not begin a sweep.
LEMMA JGather ==
    ASSUME JInv, LoopOK', StreamsOK', ExcessOK', FilesOK', FlagsOK',
           UNCHANGED <<list, swept, cursor, last>>, job' = job \/ job' # "sweeping"
    PROVE  JInv'
<1>0. DedupOK /\ ListOK
  BY JParts
<1>1. DedupOK' /\ ListOK'
  BY <1>0 DEF DedupOK, ListOK
<1> QED
  BY <1>1 DEF JInv, JTypeOK, LoopOK, StreamsOK, DedupOK, ExcessOK, FilesOK, FlagsOK, ListOK

LEMMA ReaperKeeps ==
    ASSUME JInv, ReaperRun
    PROVE  JInv'
<1>0. LoopOK /\ StreamsOK /\ DedupOK /\ ExcessOK /\ FilesOK /\ FlagsOK /\ ListOK
  BY JParts
<1>1. /\ UNCHANGED <<excess, wal, freelist, before, broken, quiet, free, disk, happens>>
      /\ UNCHANGED <<list, swept, cursor, last>> /\ UNCHANGED <<live, changes>>
  BY DEF ReaperRun, dedup, vacuum, monitor
<1>2. ExcessOK' /\ FilesOK' /\ FlagsOK'
  BY <1>0, <1>1, Zenon DEF ExcessOK, FilesOK, FlagsOK
<1>3. PICK rr \in Range(Jobs) : rr = "reaper"
  BY JobNames
<1>4. CASE Marked = {} \/ cancelled
  <2>1. Leave("reaper") /\ markers' = markers
    BY <1>4, Zenon DEF ReaperRun
  <2>2. PICK j \in Range(Jobs) : Leave(j)
    BY <1>3, <2>1
  <2>3. LoopOK' /\ job' # "sweeping"
    BY <1>0, <2>2, LeaveType
  <2>4. StreamsOK'
    BY <1>0, <1>1, <2>1 DEF StreamsOK
  <2> QED
    BY <1>1, <1>2, <2>3, <2>4, JGather
<1>5. CASE ~(Marked = {} \/ cancelled)
  <2>1. PICK n \in Marked : /\ markers' = [markers EXCEPT ![n] = markers[n] - 1]
                            /\ Reenter("reaper", markers[n] > 1)
    BY <1>5, Zenon DEF ReaperRun
  <2>2. Reenter(rr, markers[n] > 1)
    BY <1>3, <2>1
  <2>3. LoopOK' /\ job' # "sweeping"
    BY <1>0, <2>2, ReenterType
  <2>4. n \in Names /\ markers[n] > 0 /\ markers[n] \in Amounts
    BY <1>0 DEF Marked, StreamsOK
  <2>5. markers[n] - 1 \in Amounts
    BY <2>4, JanitorNumbers DEF Amounts
  <2>6. StreamsOK'
    BY <1>0, <1>1, <2>1, <2>5 DEF StreamsOK
  <2> QED
    BY <1>1, <1>2, <2>3, <2>6, JGather
<1> QED
  BY <1>4, <1>5

LEMMA ExcessKeeps ==
    ASSUME JInv, RetentionRun \/ EventsRun
    PROVE  JInv'
<1>0. LoopOK /\ StreamsOK /\ DedupOK /\ ExcessOK /\ FilesOK /\ FlagsOK /\ ListOK
  BY JParts
<1>1. /\ UNCHANGED <<wal, freelist, before, broken, quiet, free, disk, happens>>
      /\ UNCHANGED <<list, swept, cursor, last>> /\ UNCHANGED <<live, markers, changes>>
  BY DEF RetentionRun, EventsRun, dedup, vacuum, monitor, reaping
<1>2. StreamsOK' /\ FilesOK' /\ FlagsOK'
  BY <1>0, <1>1, Zenon DEF StreamsOK, FilesOK, FlagsOK
<1>3. PICK w \in {"messages", "events"}, k \in Nat :
         excess' = [excess EXCEPT ![w] = Max({0, excess[w] - k})]
  BY JanitorNumbers DEF RetentionRun, EventsRun
<1>4. Max({0, excess[w] - k}) \in Amounts
  <2>1. excess[w] \in Nat /\ excess[w] <= MaxWork /\ MaxWork \in Nat
    BY <1>0, JanitorNumbers DEF ExcessOK, Amounts
  <2>2. Max({0, excess[w] - k}) \in 0 .. excess[w]
    BY <2>1, MaxOfZero
  <2> QED
    BY <2>1, <2>2 DEF Amounts
<1>5. ExcessOK'
  BY <1>0, <1>3, <1>4 DEF ExcessOK
<1>6. PICK rr \in Range(Jobs), ee \in Range(Jobs) : rr = "retention" /\ ee = "events"
  BY JobNames
<1>7. LoopOK' /\ job' # "sweeping"
  <2>1. CASE RetentionRun
    <3>1. Reenter(rr, excess'["messages"] > 0)
      BY <1>6, <2>1 DEF RetentionRun
    <3> QED
      BY <1>0, <3>1, ReenterType
  <2>2. CASE EventsRun
    <3>1. Reenter(ee, excess'["events"] > 0)
      BY <1>6, <2>2 DEF EventsRun
    <3> QED
      BY <1>0, <3>1, ReenterType
  <2> QED
    BY <2>1, <2>2
<1> QED
  BY <1>1, <1>2, <1>5, <1>7, JGather

LEMMA CheckpointKeeps ==
    ASSUME JInv, CheckpointRun
    PROVE  JInv'
<1>0. LoopOK /\ StreamsOK /\ DedupOK /\ ExcessOK /\ FilesOK /\ FlagsOK /\ ListOK
  BY JParts
<1>1. /\ UNCHANGED <<excess, freelist, before, broken, quiet, free, disk, happens>>
      /\ UNCHANGED <<list, swept, cursor, last>> /\ UNCHANGED <<live, markers, changes>>
  BY DEF CheckpointRun, dedup, vacuum, monitor, reaping
<1>2. StreamsOK' /\ ExcessOK' /\ FlagsOK'
  BY <1>0, <1>1, Zenon DEF StreamsOK, ExcessOK, FlagsOK
<1>3. wal' \in Amounts
  <2>1. wal \in Nat /\ wal <= MaxWork /\ MaxWork \in Nat /\ WalMax \in Nat \ {0}
    BY <1>0, JanitorAssumption DEF FilesOK, Amounts
  <2>2. wal' = wal \/ (wal * 2 > WalMax /\ wal' = wal - 1) \/ wal' = 0
    BY DEF CheckpointRun
  <2>3. wal * 2 > WalMax => wal > 0
    BY <2>1
  <2> QED
    BY <2>1, <2>2, <2>3 DEF Amounts
<1>4. FilesOK'
  BY <1>0, <1>1, <1>3 DEF FilesOK
<1>5. \E j \in Range(Jobs) : Leave(j)
  BY JobNames DEF CheckpointRun
<1>6. LoopOK' /\ job' # "sweeping"
  BY <1>0, <1>5, LeaveType
<1> QED
  BY <1>1, <1>2, <1>4, <1>6, JGather

LEMMA VacuumKeeps ==
    ASSUME JInv, VacuumRun \/ VacuumStep \/ VacuumEnd
    PROVE  JInv'
<1>0. LoopOK /\ StreamsOK /\ DedupOK /\ ExcessOK /\ FilesOK /\ FlagsOK /\ ListOK
  BY JParts
<1>1. /\ UNCHANGED <<excess, wal, quiet, free, disk, happens>>
      /\ UNCHANGED <<list, swept, cursor, last>> /\ UNCHANGED <<live, markers, changes>>
  BY DEF VacuumRun, VacuumStep, VacuumEnd, dedup, monitor, reaping
<1>2. StreamsOK' /\ ExcessOK'
  BY <1>0, <1>1, Zenon DEF StreamsOK, ExcessOK
<1>3. FilesOK'
  <2>1. freelist \in Nat /\ freelist <= MaxWork /\ MaxWork \in Nat /\ VacuumPages \in Nat
    BY <1>0, JanitorNumbers DEF FilesOK, Amounts
  <2>2. Max({0, freelist - VacuumPages}) \in 0 .. freelist
    BY <2>1, MaxOfZero
  <2>3. Max({0, freelist - VacuumPages}) \in Amounts
    BY <2>1, <2>2 DEF Amounts
  <2>4. freelist' = freelist \/ freelist' = Max({0, freelist - VacuumPages})
    BY DEF VacuumRun, VacuumStep, VacuumEnd
  <2>5. before' = before \/ before' = freelist
    BY DEF VacuumRun, VacuumStep, VacuumEnd
  <2> QED
    BY <1>0, <1>1, <2>3, <2>4, <2>5, Zenon DEF FilesOK
<1>4. FlagsOK'
  <2>1. broken' = broken \/ broken' = (broken \/ freelist >= before)
    BY DEF VacuumRun, VacuumStep, VacuumEnd
  <2>2. broken' \in BOOLEAN
    BY <1>0, <2>1 DEF FlagsOK
  <2> QED
    BY <1>0, <1>1, <2>2, Zenon DEF FlagsOK
<1>5. CASE Leave("vacuum")
  <2>1. \E j \in Range(Jobs) : Leave(j)
    BY <1>5, JobNames
  <2>2. LoopOK' /\ job' # "sweeping"
    BY <1>0, <2>1, LeaveType
  <2> QED
    BY <1>1, <1>2, <1>3, <1>4, <2>2, JGather
<1>6. CASE job' \in {"vacuuming", "vacuumed"} /\ spent' = spent /\ cancelled' = cancelled
  <2>1. job' # "sweeping" /\ job' \in Steps \cup {"idle", "exited"}
    BY <1>6 DEF Steps
  <2>2. LoopOK'
    BY <1>0, <1>6, <2>1, Zenon DEF LoopOK
  <2> QED
    BY <1>1, <1>2, <1>3, <1>4, <2>1, <2>2, JGather
<1> QED
  BY <1>5, <1>6 DEF VacuumRun, VacuumStep, VacuumEnd

\* The steps that touch the loop only, or little else.
LEMMA LoopKeeps ==
    ASSUME JInv, Tick \/ Expire \/ Stop \/ StatsRun \/ QuietEnds \/ JobError
    PROVE  JInv'
<1>0. LoopOK /\ StreamsOK /\ DedupOK /\ ExcessOK /\ FilesOK /\ FlagsOK /\ ListOK
  BY JParts
<1>1. /\ UNCHANGED <<excess, wal, freelist, before, broken, free, disk, happens>>
      /\ UNCHANGED <<list, swept, cursor, last>> /\ UNCHANGED <<live, markers, changes>>
  BY DEF Tick, Expire, Stop, StatsRun, QuietEnds, JobError, dedup, monitor, reaping, vacuum
<1>2. StreamsOK' /\ ExcessOK' /\ FilesOK'
  BY <1>0, <1>1, Zenon DEF StreamsOK, ExcessOK, FilesOK
<1>3. FlagsOK'
  <2>1. quiet' \in BOOLEAN
    <3>1. CASE StatsRun
      <4>1. quiet' = quiet \/ quiet' = ("lag" \in happens)
        BY <3>1, Zenon DEF StatsRun
      <4>2. ("lag" \in happens) \in BOOLEAN
        OBVIOUS
      <4> QED
        BY <1>0, <4>1, <4>2, Zenon DEF FlagsOK
    <3>2. CASE QuietEnds
      BY <3>2, Zenon DEF QuietEnds
    <3>3. CASE Tick \/ Expire \/ Stop \/ JobError
      BY <1>0, <3>3, Zenon DEF Tick, Expire, Stop, JobError, FlagsOK
    <3> QED
      BY <3>1, <3>2, <3>3
  <2> QED
    BY <1>0, <1>1, <2>1, Zenon DEF FlagsOK
<1>4. CASE \E j \in Range(Jobs) : Leave(j)
  <2>1. LoopOK' /\ job' # "sweeping"
    BY <1>0, <1>4, LeaveType
  <2> QED
    BY <1>1, <1>2, <1>3, <2>1, JGather
<1>5. CASE job' \in {job, "exited", "reaper"} /\ spent' \in BOOLEAN /\ cancelled' \in BOOLEAN
  <2>1. (job' = job \/ job' # "sweeping") /\ job' \in Steps \cup {"idle", "exited"}
    BY <1>0, <1>5, JobNames DEF Steps, LoopOK
  <2>2. LoopOK'
    BY <1>5, <2>1, Zenon DEF LoopOK
  <2> QED
    BY <1>1, <1>2, <1>3, <2>1, <2>2, JGather
<1>6. CASE Tick \/ Expire \/ Stop \/ QuietEnds
  <2>1. job' \in {job, "exited", "reaper"}
    BY <1>6 DEF Tick, Expire, Stop, QuietEnds, loop, Jobs
  <2>2. spent' \in {spent, TRUE, FALSE} /\ cancelled' \in {cancelled, TRUE}
    BY <1>6, Zenon DEF Tick, Expire, Stop, QuietEnds, loop
  <2>3. spent' \in BOOLEAN /\ cancelled' \in BOOLEAN
    BY <1>0, <2>2, Zenon DEF LoopOK
  <2> QED
    BY <1>5, <2>1, <2>3
<1>7. CASE StatsRun \/ JobError
  <2>1. \E j \in Range(Jobs) : Leave(j)
    BY <1>7, JobNames DEF StatsRun, JobError
  <2> QED
    BY <1>4, <2>1
<1> QED
  BY <1>6, <1>7

\* The writer's other commands and the disk.
LEMMA AroundKeeps ==
    ASSUME JInv,
           \/ Grow \/ Probe
           \/ \E n \in Names : CreateStream(n) \/ \E k \in Amounts : DeleteStream(n, k)
           \/ \E f \in Amounts : SpaceChanges(f)
    PROVE  JInv'
<1>0. LoopOK /\ StreamsOK /\ DedupOK /\ ExcessOK /\ FilesOK /\ FlagsOK /\ ListOK
  BY JParts
<1>1. /\ UNCHANGED <<job, spent, cancelled, before, broken, quiet, happens>>
      /\ UNCHANGED <<list, swept, cursor, last>>
  BY DEF Grow, Probe, CreateStream, DeleteStream, SpaceChanges, dedup, monitor, vacuum, loop
<1>2. LoopOK'
  BY <1>0, <1>1, Zenon DEF LoopOK
<1>3. MaxWork \in Nat /\ MaxChanges \in Nat /\ changes \in Nat
  BY <1>0, JanitorNumbers DEF StreamsOK
<1>4. StreamsOK'
  <2>1. CASE \E n \in Names : CreateStream(n)
    BY <1>0, <1>3, <2>1 DEF CreateStream, StreamsOK
  <2>2. CASE \E n \in Names, k \in Amounts : DeleteStream(n, k)
    BY <1>0, <1>3, <2>2 DEF DeleteStream, StreamsOK
  <2>3. CASE Grow \/ Probe \/ \E f \in Amounts : SpaceChanges(f)
    BY <1>0, <2>3, Zenon DEF Grow, Probe, SpaceChanges, StreamsOK, reaping
  <2> QED
    BY <2>1, <2>2, <2>3
<1>5. ExcessOK'
  <2>1. CASE excess' = excess
    BY <1>0, <2>1 DEF ExcessOK
  <2>2. CASE excess' # excess
    <3>1. PICK w \in DOMAIN excess : excess[w] < MaxWork /\ excess' = [excess EXCEPT ![w] = excess[w] + 1]
      BY <2>2 DEF Grow, Probe, CreateStream, DeleteStream, SpaceChanges
    <3>2. w \in {"messages", "events"} /\ excess[w] \in Amounts
      BY <1>0 DEF ExcessOK
    <3>3. excess[w] + 1 \in Amounts
      BY <1>3, <3>1, <3>2 DEF Amounts
    <3> QED
      BY <1>0, <3>1, <3>2, <3>3 DEF ExcessOK
  <2> QED
    BY <2>1, <2>2
<1>6. FilesOK'
  <2>1. wal' \in Amounts
    <3>1. wal' = wal \/ (wal < MaxWork /\ wal' = wal + 1)
      BY DEF Grow, Probe, CreateStream, DeleteStream, SpaceChanges
    <3> QED
      BY <1>0, <1>3, <3>1 DEF FilesOK, Amounts
  <2>2. freelist' \in Amounts
    <3>1. freelist' = freelist \/ (freelist < MaxWork /\ freelist' = freelist + 1)
      BY DEF Grow, Probe, CreateStream, DeleteStream, SpaceChanges, vacuum
    <3> QED
      BY <1>0, <1>3, <3>1 DEF FilesOK, Amounts
  <2>3. free' \in Amounts
    <3>1. free' = free \/ free' \in Amounts
      BY DEF Grow, Probe, CreateStream, DeleteStream, SpaceChanges, monitor
    <3> QED
      BY <1>0, <3>1 DEF FilesOK
  <2> QED
    BY <1>0, <1>1, <2>1, <2>2, <2>3 DEF FilesOK
<1>7. FlagsOK'
  <2>1. disk' \in {"ok", "low"}
    <3>1. disk' = disk \/ disk' = NextDiskState(disk, free)
      BY DEF Grow, Probe, CreateStream, DeleteStream, SpaceChanges, monitor
    <3> QED
      BY <1>0, <3>1 DEF FlagsOK, NextDiskState
  <2> QED
    BY <1>0, <1>1, <2>1, Zenon DEF FlagsOK
<1> QED
  BY <1>1, <1>2, <1>4, <1>5, <1>6, <1>7, JGather

LEMMA JanitorInit ==
    ASSUME JInit
    PROVE  JInv
<1> USE DEF JInit
<1>0. LoopOK
  <2>1. job \in Steps \cup {"idle", "exited"}
    OBVIOUS
  <2> QED
    BY <2>1, Zenon DEF LoopOK
<1>1. /\ 0 \in Amounts /\ MaxWork \in Amounts /\ 0 \in 0 .. MaxChanges /\ 0 \in 0 .. DedupLimit
      /\ 0 \in 0 .. Cardinality(Names)
  BY JanitorNumbers DEF Amounts
<1>2. StreamsOK /\ ExcessOK
  BY <1>1 DEF StreamsOK, ExcessOK
<1>3. FilesOK /\ FlagsOK
  BY <1>1, Zenon DEF FilesOK, FlagsOK
<1>4. <<>> \in Seq(Names) /\ Len(<<>>) = 0
  OBVIOUS
<1>5. DedupOK /\ ListOK
  BY <1>1, <1>4, JanitorNumbers DEF DedupOK, ListOK
<1> QED
  BY <1>0, <1>2, <1>3, <1>5, JParts

LEMMA JanitorStep ==
    ASSUME JInv, [JNext]_jvars
    PROVE  JInv'
<1>1. CASE JNext
  BY <1>1, DedupKeeps, DedupFailsKeeps, ReaperKeeps, ExcessKeeps, CheckpointKeeps, VacuumKeeps, LoopKeeps, AroundKeeps
     DEF JNext, LoopStep
<1>2. CASE UNCHANGED jvars
  BY <1>2, Zenon DEF jvars, JInv, JTypeOK
<1> QED
  BY <1>1, <1>2

-----------------------------------------------------------------------------
(* Lifecycle *)

\* The part of the type invariant about the manager, and the part about
\* signals and reloads.
ManOK ==
    /\ state \in L!States /\ start \in {"idle", "running", "undoing", "up", "failed"}
    /\ started \in 0 .. NComponents /\ left \in 0 .. NComponents
    /\ stopped \in BOOLEAN /\ drained \in BOOLEAN
    /\ stopall \in {"idle", "running", "returned"} /\ stops \in Seq(L!Components)
    /\ drain \in [L!Drainers -> {"idle", "called", "waiting", "forced", "teardown", "closing", "returned"}]
    /\ api \in {"serving", "released", "down"}
    /\ fatal \in {"watching", "fired", "seen", "window", "returned"} /\ seen \in L!States
    /\ exit \in {"no", "1", "74"}

RestOK ==
    /\ escalated \in BOOLEAN /\ readyz \in {"serving", "draining", "read_only"}
    /\ sigs \in Seq({"TERM", "HUP"}) /\ sent \in 0 .. MaxSignals /\ terms \in 0 .. MaxSignals
    /\ requests \in 0 .. MaxSignals
    /\ pass \in {"idle", "validate", "apply"} /\ turn \in L!Reloaders
    /\ source \in [L!Reloaders -> Contents] /\ inForce \in [L!Reloaders -> Contents]
    /\ pending \in [L!Reloaders -> Contents \cup {0}]

LEMMA LTypes == L!TypeOK <=> ManOK /\ RestOK
BY Zenon DEF L!TypeOK, ManOK, RestOK

LEMMA LNumbers ==
    /\ NComponents \in Nat \ {0} /\ NReloaders \in Nat \ {0} /\ MaxSignals \in Nat
    /\ MaxEdits \in Nat /\ Broken \subseteq Contents
BY LifecycleAssumption DEF L!ConstantsAssumption

Core == MuInv /\ StartInv /\ OrderInv /\ StateInv

\* What the invariant speaks of besides the signals.
coreVars == <<state, start, started, stopped, stopall, left, stops, drain, drained, api, fatal, seen, exit>>

LEMMA CoreStutters ==
    ASSUME Core, ManOK, UNCHANGED coreVars
    PROVE  Core' /\ ManOK'
<1> USE DEF coreVars
<1>1. MuInv'
  BY Zenon DEF Core, MuInv, Busy, L!MuFree
<1>2. StartInv'
  BY Zenon DEF Core, StartInv, L!MuFree
<1>3. OrderInv'
  BY Zenon DEF Core, OrderInv
<1>4. StateInv'
  BY Zenon DEF Core, StateInv, Busy
<1>5. ManOK'
  BY DEF ManOK
<1> QED
  BY <1>1, <1>2, <1>3, <1>4, <1>5 DEF Core

\* The start.
LEMMA StartingKeeps ==
    ASSUME Core, ManOK,
           L!BeginRecovery \/ L!StartCall \/ L!StartOne \/ L!BecomeReady
    PROVE  Core' /\ ManOK'
<1> USE DEF Core
<1>1. CASE L!BeginRecovery \/ L!BecomeReady
  <2>1. /\ state \in {"Starting", "Recovering"} /\ state' \in {"Recovering", "Ready"}
        /\ state' = "Ready" => start = "up"
        /\ UNCHANGED <<start, started, stopped, stopall, left, stops, drain, drained, api, fatal, seen, exit>>
    BY <1>1 DEF L!BeginRecovery, L!BecomeReady, L!advance, L!Advances, L!legalMoves, L!States,
                L!startVars, L!stopVars, L!drainVars, L!fatalVars
  <2>2. MuInv' /\ OrderInv'
    BY <2>1, Zenon DEF MuInv, OrderInv, Busy, L!MuFree
  <2>3. StartInv'
    BY <2>1 DEF StartInv, L!MuFree
  <2>4. StateInv'
    BY <2>1 DEF StateInv, Busy
  <2>5. ManOK'
    BY <2>1 DEF ManOK, L!States
  <2> QED
    BY <2>2, <2>3, <2>4, <2>5
<1>2. CASE L!StartCall
  <2>1. /\ state = "Recovering" /\ start = "idle" /\ L!MuFree
        /\ start' \in {"failed", "running"} /\ (stopped => start' = "failed")
        /\ UNCHANGED <<state, started, stopped, stopall, left, stops, drain, drained, api, fatal, seen, exit>>
    BY <1>2 DEF L!StartCall, L!stopVars, L!drainVars, L!fatalVars
  <2>2. MuInv'
    BY <2>1 DEF MuInv, StartInv, Busy, L!MuFree
  <2>3. StartInv'
    BY <2>1 DEF StartInv, L!MuFree
  <2>4. StateInv' /\ OrderInv'
    BY <2>1, Zenon DEF StateInv, OrderInv, Busy
  <2>5. ManOK'
    BY <2>1 DEF ManOK
  <2> QED
    BY <2>2, <2>3, <2>4, <2>5
<1>3. CASE L!StartOne
  <2>0. started \in Nat /\ NComponents \in Nat /\ started <= NComponents
    BY LNumbers DEF ManOK
  <2>1. /\ start = "running"
        /\ \/ started < NComponents /\ started' = started + 1 /\ start' = start /\ left' = left
           \/ start' = "undoing" /\ left' = started /\ started' = started
           \/ started = NComponents /\ start' = "up" /\ started' = started /\ left' = left
        /\ UNCHANGED <<state, stopped, stopall, stops, drain, drained, api, fatal, seen, exit>>
    BY <1>3 DEF L!StartOne, L!drainVars, L!fatalVars
  <2>2. /\ stops = <<>> /\ ~stopped /\ stopall = "idle" /\ left = 0
        /\ state \in {"Starting", "Recovering"}
        /\ \A d \in L!Drainers : drain[d] # "teardown"
    BY <2>1 DEF StartInv, MuInv, ManOK, L!States
  <2>3. MuInv'
    BY <2>1, <2>2 DEF MuInv, Busy, L!MuFree
  <2>4. StartInv'
    BY <2>1, <2>2 DEF StartInv, L!MuFree
  <2>5. StateInv'
    BY <2>1, Zenon DEF StateInv, Busy
  <2>6. OrderInv'
    <3>1. stops' = <<>> /\ DOMAIN stops' = {}
      BY <2>1, <2>2
    <3> QED
      BY <3>1 DEF OrderInv
  <2>7. ManOK'
    <3>1. started' \in 0 .. NComponents /\ left' \in 0 .. NComponents
      BY <2>0, <2>1, <2>2
    <3> QED
      BY <2>1, <3>1 DEF ManOK
  <2> QED
    BY <2>3, <2>4, <2>5, <2>6, <2>7
<1> QED
  BY <1>1, <1>2, <1>3

\* The call of StopAll.
LEMMA StopAllKeeps ==
    ASSUME Core, ManOK, L!StopAllCall
    PROVE  Core' /\ ManOK'
<1> USE DEF Core
<1>0. started \in Nat /\ NComponents \in Nat /\ started <= NComponents /\ left \in Nat
  BY LNumbers DEF ManOK
<1>1. /\ stopall = "idle" /\ L!MuFree /\ (start = "failed" \/ state \notin {"Starting", "Recovering"})
      /\ \/ stopped /\ stopall' = "returned" /\ left' = left
         \/ ~stopped /\ stopall' = "running" /\ left' = started
      /\ UNCHANGED <<state, start, started, stopped, stops, drain, drained, api, fatal, seen, exit>>
  BY DEF L!StopAllCall, L!startVars, L!drainVars, L!fatalVars
<1>2. start \in {"up", "failed"} /\ left = 0
  BY <1>0, <1>1 DEF StartInv, MuInv
<1>3. start = "up" /\ ~stopped => stops = <<>> /\ started = NComponents
  BY <1>1 DEF StartInv
<1>4. start = "failed" => started = 0
  BY DEF StartInv
<1>5. MuInv'
  BY <1>1, <1>2 DEF MuInv, Busy, L!MuFree
<1>6. StartInv'
  <2>1. CASE start = "failed"
    BY <1>1, <1>2, <1>4, <2>1 DEF StartInv, L!MuFree
  <2>2. CASE start = "up" /\ stopped
    BY <1>1, <1>2, <2>2 DEF StartInv, L!MuFree
  <2>3. CASE start = "up" /\ ~stopped
    <3>1. /\ stopall' = "running" /\ left' = NComponents /\ ~L!MuFree' /\ stops' = <<>> /\ start' = "up"
          /\ ~stopped'
      BY <1>1, <1>3, <2>3 DEF L!MuFree
    <3>2. Len(stops') + left' = NComponents
      BY <1>0, <3>1
    <3> QED
      BY <3>1, <3>2 DEF StartInv
  <2> QED
    BY <1>2, <2>1, <2>2, <2>3
<1>7. StateInv'
  BY <1>1, <1>2 DEF StateInv, Busy
<1>8. OrderInv'
  <2>1. CASE start = "up" /\ ~stopped
    <3>1. stops' = <<>> /\ DOMAIN stops' = {}
      BY <1>1, <1>3, <2>1
    <3> QED
      BY <3>1 DEF OrderInv
  <2>2. CASE left' = left
    BY <1>1, <2>2 DEF OrderInv
  <2> QED
    BY <1>1, <1>2, <1>4, <2>1, <2>2
<1>9. ManOK'
  BY <1>0, <1>1 DEF ManOK
<1> QED
  BY <1>5, <1>6, <1>7, <1>8, <1>9

\* One component is stopped.
LEMMA StopOneKeeps ==
    ASSUME Core, ManOK, L!StopOne
    PROVE  Core' /\ ManOK'
<1> USE DEF Core
<1>0. /\ NComponents \in Nat /\ left \in Nat /\ left <= NComponents /\ stops \in Seq(L!Components)
      /\ Len(stops) \in Nat
  BY LNumbers, LenProperties DEF ManOK
<1>1. /\ left > 0 /\ stops' = Append(stops, left) /\ left' = left - 1
      /\ UNCHANGED <<state, start, started, stopped, stopall, drain, drained, api, fatal, seen, exit>>
  BY DEF L!StopOne, L!startVars, L!drainVars, L!fatalVars
<1>2. left \in L!Components /\ left - 1 \in 0 .. NComponents
  BY <1>0, <1>1 DEF L!Components
<1>3. /\ stops' \in Seq(L!Components) /\ Len(stops') = Len(stops) + 1
      /\ \A i \in 1 .. Len(stops) : stops'[i] = stops[i]
      /\ stops'[Len(stops) + 1] = left
  BY <1>0, <1>1, <1>2, AppendProperties
<1>4. ~L!MuFree /\ start \in {"undoing", "up"}
  BY <1>0, <1>1 DEF MuInv, StartInv, ManOK
<1>5. MuInv'
  <2>1. L!MuFree' <=> L!MuFree
    BY <1>1 DEF L!MuFree
  <2> QED
    BY <1>1, <1>4, <2>1 DEF MuInv, Busy
<1>6. StartInv'
  <2>1. start = "up" => (stopped \/ ~L!MuFree) /\ Len(stops') + left' = NComponents
    BY <1>0, <1>1, <1>3, <1>4 DEF StartInv
  <2>2. L!MuFree' <=> L!MuFree
    BY <1>1 DEF L!MuFree
  <2> QED
    BY <1>1, <1>4, <2>1, <2>2 DEF StartInv
<1>7. StateInv'
  BY <1>1, Zenon DEF StateInv, Busy
<1>8. OrderInv'
  <2>1. DOMAIN stops = 1 .. Len(stops) /\ DOMAIN stops' = 1 .. Len(stops) + 1
    BY <1>0, <1>3, LenProperties
  <2>2. \A i \in 1 .. Len(stops) : stops[i] \in Nat
    BY <1>0, ElementOfSeq DEF L!Components
  <2>3. \A i, j \in 1 .. Len(stops) : i < j => stops[i] > stops[j]
    BY <2>1 DEF OrderInv
  <2>4. \A i \in 1 .. Len(stops) : stops[i] > left
    BY <2>1 DEF OrderInv
  <2>5. \A i, j \in DOMAIN stops' : i < j => stops'[i] > stops'[j]
    BY <1>0, <1>3, <2>1, <2>3, <2>4
  <2>6. \A i \in DOMAIN stops' : stops'[i] > left'
    BY <1>0, <1>1, <1>3, <2>1, <2>2, <2>4
  <2> QED
    BY <2>5, <2>6 DEF OrderInv
<1>9. ManOK'
  BY <1>1, <1>2, <1>3 DEF ManOK
<1> QED
  BY <1>5, <1>6, <1>7, <1>8, <1>9

\* The last of them is stopped.
LEMMA StopDoneKeeps ==
    ASSUME Core, ManOK, L!StopDone
    PROVE  Core' /\ ManOK'
<1> USE DEF Core
<1>0. NComponents \in Nat
  BY LNumbers
<1>1. /\ left = 0 /\ started' = 0
      /\ UNCHANGED <<state, left, stops, drain, drained, api, fatal, seen, exit>>
  BY DEF L!StopDone, L!drainVars, L!fatalVars
<1>2. OrderInv'
  BY <1>1 DEF OrderInv
<1>3. CASE start = "undoing" /\ start' = "failed" /\ stopped' = stopped /\ stopall' = stopall
  <2>1. MuInv'
    BY <1>1, <1>3 DEF MuInv, Busy, L!MuFree
  <2>2. StartInv'
    BY <1>1, <1>3 DEF StartInv, L!MuFree
  <2>3. StateInv'
    BY <1>1, <1>3, Zenon DEF StateInv, Busy
  <2>4. ManOK'
    BY <1>0, <1>1, <1>3 DEF ManOK
  <2> QED
    BY <1>2, <2>1, <2>2, <2>3, <2>4
<1>4. CASE stopall = "running" /\ stopall' = "returned" /\ stopped' = TRUE /\ start' = start
  <2>1. start \notin {"running", "undoing", "idle"} /\ ~L!MuFree
    BY <1>4 DEF MuInv, StartInv, L!MuFree
  <2>2. MuInv'
    BY <1>1, <1>4, <2>1 DEF MuInv, Busy, L!MuFree
  <2>3. StartInv'
    BY <1>1, <1>4, <2>1 DEF StartInv, L!MuFree
  <2>4. StateInv'
    BY <1>1, <1>4 DEF StateInv, Busy
  <2>5. ManOK'
    BY <1>0, <1>1, <1>4 DEF ManOK
  <2> QED
    BY <1>2, <2>2, <2>3, <2>4, <2>5
<1> QED
  BY <1>3, <1>4 DEF L!StopDone

\* A call of Drain moves on without touching Manager.mu.
LEMMA DrainMoves ==
    ASSUME Core, ManOK, NEW d \in L!Drainers, NEW to, L!At(d, drain[d], to),
           drain[d] # "teardown",
           to \in {"called", "waiting", "forced", "closing", "returned"},
           (to \in {"waiting", "forced", "closing"}) <=> Busy(d),
           to = "closing" => api' = "down",
           api' = api \/ api' = "down",
           UNCHANGED <<state, start, started, stopped, stopall, left, stops, drained, fatal, seen>>,
           exit' = exit \/ exit' = "1"
    PROVE  Core' /\ ManOK'
<1> USE DEF Core
<1>1. drain'[d] = to /\ \A e \in L!Drainers \ {d} : drain'[e] = drain[e]
  BY DEF ManOK, L!At
<1>2. \A e \in L!Drainers : (Busy(e)' <=> Busy(e)) /\ (drain'[e] = "teardown" <=> drain[e] = "teardown")
  <2>1. ASSUME NEW e \in L!Drainers, e # d
        PROVE  (Busy(e)' <=> Busy(e)) /\ (drain'[e] = "teardown" <=> drain[e] = "teardown")
    BY <1>1, <2>1 DEF Busy
  <2>2. (Busy(d)' <=> Busy(d)) /\ (drain'[d] = "teardown" <=> drain[d] = "teardown")
    BY <1>1 DEF Busy
  <2> QED
    BY <2>1, <2>2
<1>3. L!MuFree' <=> L!MuFree
  BY <1>2 DEF L!MuFree
<1>4. MuInv'
  BY <1>2, <1>3 DEF MuInv
<1>5. StartInv'
  BY <1>3 DEF StartInv
<1>6. OrderInv'
  BY DEF OrderInv
<1>7. StateInv'
  <2>1. \A e \in L!Drainers : drain'[e] \in {"closing", "teardown"} => api' = "down"
    <3>1. ASSUME NEW e \in L!Drainers, drain'[e] \in {"closing", "teardown"} PROVE api' = "down"
      <4>1. CASE e = d
        BY <1>1, <3>1, <4>1
      <4>2. CASE e # d
        <5>1. drain[e] \in {"closing", "teardown"}
          BY <1>1, <3>1, <4>2
        <5> QED
          BY <5>1 DEF StateInv
      <4> QED
        BY <4>1, <4>2
    <3> QED
      BY <3>1
  <2> QED
    BY <1>2, <2>1 DEF StateInv
<1>8. ManOK'
  <2>1. drain' \in [L!Drainers -> {"idle", "called", "waiting", "forced", "teardown", "closing", "returned"}]
    BY DEF ManOK, L!At
  <2> QED
    BY <2>1 DEF ManOK
<1> QED
  BY <1>4, <1>5, <1>6, <1>7, <1>8

\* The steps of a drain between its begin and its teardown, and a begin that is
\* refused.
LEMMA DrainingKeeps ==
    ASSUME Core, ManOK,
           \/ L!RootDrain
           \/ \E d \in L!Drainers : \/ L!ShutdownReturns(d) \/ L!GiveUp(d) \/ L!ForceClose(d)
                                    \/ L!DrainBegin(d) /\ ~(~drained /\ L!Advances("Ready", "Draining"))
    PROVE  Core' /\ ManOK'
<1> DEFINE Same == UNCHANGED <<state, start, started, stopped, stopall, left, stops, drained, fatal, seen, exit>>
<1>1. ASSUME NEW d \in L!Drainers, NEW to, drain' = [drain EXCEPT ![d] = to], Same,
             \/ drain[d] \in {"idle", "called"} /\ to \in {"called", "returned"} /\ api' = api
             \/ drain[d] \in {"waiting", "forced"} /\ to = "forced" /\ api' = api
             \/ drain[d] \in {"waiting", "forced"} /\ to = "closing" /\ api' = "down"
      PROVE  Core' /\ ManOK'
  <2>1. L!At(d, drain[d], to)
    BY <1>1 DEF L!At
  <2>2. (to \in {"waiting", "forced", "closing"}) <=> Busy(d)
    BY <1>1 DEF Busy
  <2>3. /\ drain[d] # "teardown" /\ to \in {"called", "waiting", "forced", "closing", "returned"}
        /\ to = "closing" => api' = "down"
        /\ api' = api \/ api' = "down"
    BY <1>1
  <2> QED
    BY <1>1, <2>1, <2>2, <2>3, DrainMoves
<1> USE DEF L!At, L!startVars, L!stopVars, L!fatalVars
<1>2. CASE L!RootDrain
  <2>1. PICK d \in L!Drainers : d = "root"
    BY DEF L!Drainers
  <2>2. /\ drain[d] = "idle" /\ drain' = [drain EXCEPT ![d] = "called"] /\ api' = api /\ Same
    BY <1>2, <2>1 DEF L!RootDrain
  <2> QED
    BY <1>1, <2>2
<1>3. ASSUME NEW d \in L!Drainers,
             L!ShutdownReturns(d) \/ L!GiveUp(d) \/ L!ForceClose(d)
      PROVE  Core' /\ ManOK'
  <2>1. Same
    BY <1>3 DEF L!ShutdownReturns, L!GiveUp, L!ForceClose
  <2>2. /\ drain[d] \in {"waiting", "forced"}
        /\ \/ drain' = [drain EXCEPT ![d] = "forced"] /\ api' = api
           \/ drain' = [drain EXCEPT ![d] = "closing"] /\ api' = "down"
    BY <1>3 DEF L!ShutdownReturns, L!GiveUp, L!ForceClose
  <2> QED
    BY <1>1, <2>1, <2>2
<1>4. ASSUME NEW d \in L!Drainers, L!DrainBegin(d), ~(~drained /\ L!Advances("Ready", "Draining"))
      PROVE  Core' /\ ManOK'
  <2>1. Same /\ drain[d] = "called" /\ drain' = [drain EXCEPT ![d] = "returned"] /\ api' = api
    BY <1>4 DEF L!DrainBegin
  <2> QED
    BY <1>1, <2>1
<1> QED
  BY <1>2, <1>3, <1>4

\* The drain that begins: it moves the machine.
LEMMA DrainBeginKeeps ==
    ASSUME Core, ManOK, NEW d \in L!Drainers, L!DrainBegin(d),
           ~drained /\ L!Advances("Ready", "Draining")
    PROVE  Core' /\ ManOK'
<1> USE DEF Core
<1>1. /\ \A e \in L!Drainers : ~Busy(e)
      /\ state = "Ready" /\ state' = "Draining" /\ api' = "released"
      /\ drain[d] = "called" /\ drain' = [drain EXCEPT ![d] = "waiting"]
      /\ UNCHANGED <<start, started, stopped, stopall, left, stops, drained, fatal, seen, exit>>
  BY DEF L!DrainBegin, L!At, L!advance, L!Advances, L!startVars, L!stopVars, L!fatalVars, Busy
<1>2. drain'[d] = "waiting" /\ \A e \in L!Drainers \ {d} : drain'[e] = drain[e]
  BY <1>1 DEF ManOK
<1>3. \A e \in L!Drainers : /\ Busy(e)' <=> e = d
                            /\ drain'[e] \notin {"closing", "teardown"}
                            /\ drain[e] # "teardown"
  <2>1. ASSUME NEW e \in L!Drainers, e # d
        PROVE  ~Busy(e)' /\ drain'[e] \notin {"closing", "teardown"} /\ drain[e] # "teardown"
    BY <1>1, <1>2, <2>1 DEF Busy
  <2> QED
    BY <1>1, <1>2, <2>1 DEF Busy
<1>4. L!MuFree' <=> L!MuFree
  BY <1>1, <1>3 DEF L!MuFree
<1>5. MuInv'
  BY <1>1, <1>3, <1>4 DEF MuInv
<1>6. StartInv'
  BY <1>1, <1>4 DEF StartInv
<1>7. OrderInv'
  BY <1>1 DEF OrderInv
<1>8. StateInv'
  BY <1>1, <1>3 DEF StateInv
<1>9. ManOK'
  <2>1. drain' \in [L!Drainers -> {"idle", "called", "waiting", "forced", "teardown", "closing", "returned"}]
    BY <1>1 DEF ManOK
  <2> QED
    BY <1>1, <2>1 DEF ManOK, L!States
<1> QED
  BY <1>5, <1>6, <1>7, <1>8, <1>9

\* The drain takes Manager.mu for its teardown.
LEMMA TeardownKeeps ==
    ASSUME Core, ManOK, NEW d \in L!Drainers, L!Teardown(d)
    PROVE  Core' /\ ManOK'
<1> USE DEF Core
<1>0. NComponents \in Nat /\ left \in Nat /\ stops \in Seq(L!Components) /\ Len(stops) \in Nat
  BY LNumbers, LenProperties DEF ManOK
<1>1. /\ L!MuFree /\ drain[d] = "closing" /\ drain' = [drain EXCEPT ![d] = "teardown"]
      /\ left' = IF stopped THEN 0 ELSE NComponents
      /\ UNCHANGED <<state, start, started, stopped, stopall, stops, drained, api, fatal, seen, exit>>
  BY DEF L!Teardown, L!At, L!startVars, L!fatalVars
<1>2. drain'[d] = "teardown" /\ \A e \in L!Drainers \ {d} : drain'[e] = drain[e]
  BY <1>1 DEF ManOK
<1>3. /\ \A e \in L!Drainers : Busy(e)' <=> Busy(e)
      /\ \A e \in L!Drainers : drain'[e] \in {"closing", "teardown"} => drain[e] \in {"closing", "teardown"}
  <2>1. ASSUME NEW e \in L!Drainers, e # d
        PROVE  /\ Busy(e)' <=> Busy(e)
               /\ drain'[e] \in {"closing", "teardown"} => drain[e] \in {"closing", "teardown"}
    BY <1>2, <2>1 DEF Busy
  <2>2. (Busy(d)' <=> Busy(d)) /\ drain[d] \in {"closing", "teardown"}
    BY <1>1, <1>2 DEF Busy
  <2> QED
    BY <2>1, <2>2
<1>4. start = "up" /\ left = 0 /\ ~L!MuFree'
  <2>1. Busy(d)
    BY <1>1 DEF Busy
  <2>2. state \in {"Draining", "Fatal"}
    BY <2>1 DEF StateInv
  <2>3. start = "up"
    BY <2>2 DEF StartInv
  <2> QED
    BY <1>0, <1>1, <1>2, <2>3 DEF MuInv, L!MuFree
<1>5. start \notin {"running", "undoing"} /\ stopall # "running"
  BY <1>1 DEF L!MuFree
<1>6. MuInv'
  BY <1>1, <1>3, <1>4, <1>5 DEF MuInv
<1>7. stopped => Len(stops) + 0 = NComponents
  BY <1>0, <1>4 DEF StartInv
<1>8. ~stopped => stops = <<>> /\ Len(stops) = 0
  BY <1>1, <1>4 DEF StartInv
<1>9. Len(stops') + left' = NComponents
  BY <1>0, <1>1, <1>7, <1>8
<1>10. StartInv'
  BY <1>1, <1>4, <1>9 DEF StartInv
<1>11. OrderInv'
  <2>1. CASE stopped
    BY <1>1, <1>4, <2>1 DEF OrderInv
  <2>2. CASE ~stopped
    <3>1. DOMAIN stops' = {}
      BY <1>1, <1>8, <2>2
    <3> QED
      BY <3>1 DEF OrderInv
  <2> QED
    BY <2>1, <2>2
<1>12. StateInv'
  BY <1>1, <1>3 DEF StateInv
<1>13. ManOK'
  <2>1. drain' \in [L!Drainers -> {"idle", "called", "waiting", "forced", "teardown", "closing", "returned"}]
    BY <1>1 DEF ManOK
  <2>2. left' \in 0 .. NComponents
    BY <1>0, <1>1
  <2> QED
    BY <1>1, <2>1, <2>2 DEF ManOK
<1> QED
  BY <1>6, <1>10, <1>11, <1>12, <1>13

\* Drain returns.
LEMMA DrainEndKeeps ==
    ASSUME Core, ManOK, NEW d \in L!Drainers, L!DrainEnd(d)
    PROVE  Core' /\ ManOK'
<1> USE DEF Core
<1>0. NComponents \in Nat
  BY LNumbers
<1>1. /\ left = 0 /\ drain[d] = "teardown" /\ drain' = [drain EXCEPT ![d] = "returned"]
      /\ started' = 0 /\ stopped' = TRUE /\ drained' = TRUE
      /\ state' = IF state = "Draining" THEN "Stopped" ELSE state
      /\ UNCHANGED <<start, stopall, left, stops, api, fatal, seen, exit>>
  BY DEF L!DrainEnd, L!At, L!fatalVars, L!advance, L!Advances, L!legalMoves, L!States
<1>2. drain'[d] = "returned" /\ \A e \in L!Drainers \ {d} : drain'[e] = drain[e]
  BY <1>1 DEF ManOK
<1>3. Busy(d) /\ ~L!MuFree /\ state \in {"Draining", "Fatal"} /\ start = "up" /\ api = "down"
  <2>1. Busy(d)
    BY <1>1 DEF Busy
  <2>2. state \in {"Draining", "Fatal"} /\ api = "down"
    BY <1>1, <2>1 DEF StateInv
  <2>3. start = "up" /\ ~L!MuFree
    BY <1>1, <2>2 DEF StartInv, L!MuFree
  <2> QED
    BY <2>1, <2>2, <2>3
<1>4. \A e \in L!Drainers : ~Busy(e)' /\ drain'[e] \notin {"closing", "teardown"}
  <2>1. ASSUME NEW e \in L!Drainers, e # d PROVE ~Busy(e)' /\ drain'[e] \notin {"closing", "teardown"}
    <3>1. ~Busy(e)
      BY <1>3, <2>1 DEF MuInv
    <3> QED
      BY <1>2, <2>1, <3>1 DEF Busy
  <2>2. ~Busy(d)' /\ drain'[d] \notin {"closing", "teardown"}
    BY <1>2 DEF Busy
  <2> QED
    BY <2>1, <2>2
<1>5. stopall # "running"
  BY <1>1 DEF MuInv
<1>6. MuInv'
  BY <1>1, <1>3, <1>4, <1>5 DEF MuInv
<1>7. Len(stops') + left' = NComponents
  BY <1>1, <1>3 DEF StartInv
<1>8. StartInv'
  BY <1>1, <1>3, <1>7 DEF StartInv
<1>9. OrderInv'
  BY <1>1 DEF OrderInv
<1>10. StateInv'
  BY <1>1, <1>3, <1>4 DEF StateInv
<1>11. ManOK'
  <2>1. drain' \in [L!Drainers -> {"idle", "called", "waiting", "forced", "teardown", "closing", "returned"}]
    BY <1>1 DEF ManOK
  <2> QED
    BY <1>0, <1>1, <2>1 DEF ManOK, L!States
<1> QED
  BY <1>6, <1>8, <1>9, <1>10, <1>11

\* The supervisor.
LEMMA FatalKeeps ==
    ASSUME Core, ManOK, L!Damage \/ L!FatalSeen \/ L!FatalAbsorb \/ L!FatalExit
    PROVE  Core' /\ ManOK'
<1> USE DEF Core
<1>1. UNCHANGED <<start, started, stopped, stopall, left, stops, drain, drained, api>>
  BY DEF L!Damage, L!FatalSeen, L!FatalAbsorb, L!FatalExit, L!startVars, L!stopVars, L!drainVars
<1>2. MuInv' /\ OrderInv'
  BY <1>1, Zenon DEF MuInv, OrderInv, Busy, L!MuFree
<1>3. \/ /\ state' = state
         /\ \/ fatal = "watching" /\ fatal' = "fired" /\ seen' = seen /\ exit' = exit
            \/ fatal = "fired" /\ fatal' = "seen" /\ seen' = state /\ exit' = exit
            \/ fatal = "window" /\ fatal' = "returned" /\ seen' = seen /\ exit' = "74"
      \/ /\ fatal = "seen" /\ fatal' = "window" /\ seen' = seen /\ exit' = exit
         /\ \/ state = seen /\ seen \in {"Ready", "Draining"} /\ state' = "Fatal"
            \/ ~(state = seen /\ seen \in {"Ready", "Draining"}) /\ state' = state
  <2>1. CASE L!FatalAbsorb
    <3>1. seen \in L!States
      BY DEF ManOK
    <3>2. "Fatal" \in L!legalMoves[seen] <=> seen \in {"Ready", "Draining"}
      BY <3>1 DEF L!legalMoves, L!States
    <3> QED
      BY <2>1, <3>2 DEF L!FatalAbsorb, L!advance, L!Advances
  <2>2. CASE L!Damage \/ L!FatalSeen \/ L!FatalExit
    BY <2>2 DEF L!Damage, L!FatalSeen, L!FatalExit
  <2> QED
    BY <2>1, <2>2
<1>4. \A e \in L!Drainers : Busy(e)' <=> Busy(e)
  BY <1>1 DEF Busy
<1>5. StartInv'
  <2>1. state' \notin {"Starting", "Recovering"} => state \notin {"Starting", "Recovering"}
    BY <1>3
  <2>2. L!MuFree' <=> L!MuFree
    BY <1>1 DEF L!MuFree
  <2> QED
    BY <1>1, <2>1, <2>2 DEF StartInv
<1>6. StateInv'
  BY <1>1, <1>3, <1>4 DEF StateInv
<1>7. ManOK'
  BY <1>1, <1>3 DEF ManOK, L!States
<1> QED
  BY <1>2, <1>5, <1>6, <1>7

\* A TERM changes the signal loop's own call of Drain only.
LEMMA TermKeeps ==
    ASSUME Core, ManOK, SignalInv, RestOK, L!HandleTerm
    PROVE  Core' /\ ManOK'
<1>0. terms \in Nat
  BY LNumbers DEF RestOK
<1>1. /\ UNCHANGED <<state, start, started, stopped, stopall, left, stops, drained, api, fatal, seen>>
      /\ exit' = exit \/ exit' = "1"
  BY DEF L!HandleTerm, L!startVars, L!stopVars, L!fatalVars
<1>2. PICK d \in L!Drainers : d = "signal"
  BY DEF L!Drainers
<1>3. CASE terms' = 1
  <2>1. drain[d] = "idle" /\ drain' = [drain EXCEPT ![d] = "called"]
    BY <1>0, <1>2, <1>3 DEF L!HandleTerm, SignalInv
  <2>2. PICK to \in {"called"} : L!At(d, drain[d], to)
    BY <2>1 DEF L!At
  <2>3. ~Busy(d) /\ drain[d] # "teardown"
    BY <2>1 DEF Busy
  <2> QED
    BY <1>1, <2>2, <2>3, DrainMoves
<1>4. CASE terms' # 1
  <2>1. drain' = drain
    BY <1>4 DEF L!HandleTerm
  <2> USE DEF Core
  <2>2. MuInv' /\ StartInv' /\ OrderInv'
    BY <1>1, <2>1, Zenon DEF MuInv, StartInv, OrderInv, Busy, L!MuFree
  <2>3. StateInv'
    BY <1>1, <2>1 DEF StateInv, Busy
  <2>4. ManOK'
    BY <1>1, <2>1 DEF ManOK
  <2> QED
    BY <2>2, <2>3, <2>4
<1> QED
  BY <1>3, <1>4

\* The steps that leave signals and reloads alone.
LEMMA SignalStutters ==
    ASSUME RestOK, SignalInv,
           UNCHANGED <<sigs, sent, terms, escalated, requests, pass, turn, source, pending, inForce>>,
           readyz' \in {readyz, "draining", "read_only"},
           drain["signal"] = "idle" => drain'["signal"] = "idle"
    PROVE  RestOK' /\ SignalInv'
<1>1. RestOK'
  <2>1. readyz' \in {"serving", "draining", "read_only"}
    BY DEF RestOK
  <2> QED
    BY <2>1, Zenon DEF RestOK
<1>2. SignalInv'
  BY DEF SignalInv
<1> QED
  BY <1>1, <1>2

LEMMA ManagerSignals ==
    ASSUME ManOK, RestOK, SignalInv,
           \/ L!Manage \/ L!StopAllCall \/ L!RootDrain \/ L!Damage \/ L!Supervise
           \/ \E d \in L!Drainers : L!Drain(d) \/ L!ShutdownReturns(d)
    PROVE  RestOK' /\ SignalInv'
<1> USE DEF L!sigVars, L!reloadVars, L!drainVars
<1>1. CASE L!Manage \/ L!StopAllCall \/ L!Damage \/ L!Supervise
  <2>1. /\ UNCHANGED <<sigs, sent, terms, escalated, requests, pass, turn, source, pending, inForce, drain>>
        /\ readyz' \in {readyz, "read_only"}
    BY <1>1 DEF L!Manage, L!BeginRecovery, L!StartCall, L!StartOne, L!BecomeReady, L!StopOne, L!StopDone,
                L!StopAllCall, L!Damage, L!Supervise, L!FatalSeen, L!FatalAbsorb, L!FatalExit
  <2> QED
    BY <2>1, SignalStutters
<1>2. CASE L!RootDrain
  <2>1. /\ UNCHANGED <<sigs, sent, terms, escalated, requests, pass, turn, source, pending, inForce, readyz>>
        /\ drain' = [drain EXCEPT !["root"] = "called"]
    BY <1>2 DEF L!RootDrain, L!At
  <2>2. drain'["signal"] = drain["signal"]
    BY <2>1 DEF ManOK, L!Drainers
  <2> QED
    BY <2>1, <2>2, SignalStutters
<1>3. ASSUME NEW d \in L!Drainers, L!Drain(d) \/ L!ShutdownReturns(d)
      PROVE  RestOK' /\ SignalInv'
  <2>1. /\ UNCHANGED <<sigs, sent, terms, escalated, requests, pass, turn, source, pending, inForce>>
        /\ readyz' \in {readyz, "draining", "read_only"}
    BY <1>3 DEF L!Drain, L!DrainBegin, L!GiveUp, L!ForceClose, L!Teardown, L!DrainEnd, L!ShutdownReturns,
                L!SetDraining
  <2>2. drain[d] # "idle" /\ \E to : drain' = [drain EXCEPT ![d] = to]
    BY <1>3 DEF L!Drain, L!DrainBegin, L!GiveUp, L!ForceClose, L!Teardown, L!DrainEnd, L!ShutdownReturns,
                L!At
  <2>3. drain["signal"] = "idle" => drain'["signal"] = "idle"
    BY <2>2 DEF ManOK, L!Drainers
  <2> QED
    BY <2>1, <2>3, SignalStutters
<1> QED
  BY <1>1, <1>2, <1>3

\* What a signal queue is after one was taken.
LEMMA QueueFacts ==
    ASSUME RestOK, sigs # <<>>
    PROVE  Tail(sigs) \in Seq({"TERM", "HUP"}) /\ Len(Tail(sigs)) = Len(sigs) - 1 /\ Len(sigs) \in Nat \ {0}
<1> DEFINE S == {"TERM", "HUP"}
<1>1. sigs \in Seq(S)
  BY DEF RestOK
<1> HIDE DEF S
<1>2. Tail(sigs) \in Seq(S) /\ Len(Tail(sigs)) = Len(sigs) - 1
  BY <1>1, HeadTailProperties
<1>3. Len(sigs) \in Nat \ {0}
  BY <1>1, EmptySeq, LenProperties
<1> QED
  BY <1>2, <1>3 DEF S

LEMMA SignalsKeep ==
    ASSUME ManOK, RestOK, SignalInv, L!Signals \/ \E s \in {"TERM", "HUP"} : L!Signal(s)
    PROVE  RestOK' /\ SignalInv'
<1>0. /\ terms \in Nat /\ requests \in Nat /\ sent \in Nat /\ sent <= MaxSignals /\ MaxSignals \in Nat
      /\ Len(sigs) \in Nat /\ terms + requests + Len(sigs) <= sent
  BY LNumbers, LenProperties DEF RestOK, SignalInv
<1> USE DEF L!reloadVars, L!drainVars
<1>1. ASSUME NEW s \in {"TERM", "HUP"}, L!Signal(s) PROVE RestOK' /\ SignalInv'
  <2>1. /\ sent < MaxSignals /\ sigs' = Append(sigs, s) /\ sent' = sent + 1
        /\ UNCHANGED <<drain, readyz, terms, escalated, requests, pass, turn, source, pending, inForce>>
    BY <1>1 DEF L!Signal
  <2>2. sigs' \in Seq({"TERM", "HUP"}) /\ Len(sigs') = Len(sigs) + 1
    <3> DEFINE S == {"TERM", "HUP"}
    <3>1. sigs \in Seq(S) /\ s \in S
      BY DEF RestOK
    <3> HIDE DEF S
    <3>2. Append(sigs, s) \in Seq(S) /\ Len(Append(sigs, s)) = Len(sigs) + 1
      BY <3>1, AppendProperties
    <3> QED
      BY <2>1, <3>2 DEF S
  <2>3. sent' \in 0 .. MaxSignals /\ terms' + requests' + Len(sigs') <= sent'
    BY <1>0, <2>1, <2>2
  <2>4. SignalInv'
    BY <2>1, <2>3 DEF SignalInv
  <2>5. RestOK'
    BY <2>1, <2>2, <2>3, Zenon DEF RestOK
  <2> QED
    BY <2>4, <2>5
<1>2. CASE L!HandleTerm
  <2>1. /\ sigs # <<>> /\ sigs' = Tail(sigs) /\ terms' = terms + 1
        /\ UNCHANGED <<sent, readyz, requests, pass, turn, source, pending, inForce>>
    BY <1>2 DEF L!HandleTerm
  <2>2. escalated' \in BOOLEAN
    <3>1. escalated' = (escalated \/ terms' = 2)
      BY <1>2 DEF L!HandleTerm
    <3> QED
      BY <3>1, Zenon
  <2>3. sigs' \in Seq({"TERM", "HUP"}) /\ Len(sigs') = Len(sigs) - 1 /\ Len(sigs) # 0
    BY <2>1, QueueFacts
  <2>4. terms' \in 0 .. MaxSignals /\ terms' + requests' + Len(sigs') <= sent' /\ terms' # 0
    BY <1>0, <2>1, <2>3
  <2>5. SignalInv'
    BY <2>4 DEF SignalInv
  <2>6. RestOK'
    BY <2>1, <2>2, <2>3, <2>4, Zenon DEF RestOK
  <2> QED
    BY <2>5, <2>6
<1>3. CASE L!HandleHup
  <2>1. /\ sigs # <<>> /\ sigs' = Tail(sigs) /\ requests' \in {requests, requests + 1}
        /\ UNCHANGED <<drain, sent, terms, escalated, readyz, pass, turn, source, pending, inForce>>
    BY <1>3 DEF L!HandleHup
  <2>2. sigs' \in Seq({"TERM", "HUP"}) /\ Len(sigs') = Len(sigs) - 1 /\ Len(sigs) # 0
    BY <2>1, QueueFacts
  <2>3. requests' \in 0 .. MaxSignals /\ terms' + requests' + Len(sigs') <= sent'
    BY <1>0, <2>1, <2>2
  <2>4. SignalInv'
    BY <2>1, <2>3 DEF SignalInv
  <2>5. RestOK'
    BY <2>1, <2>2, <2>3, Zenon DEF RestOK
  <2> QED
    BY <2>4, <2>5
<1> QED
  BY <1>1, <1>2, <1>3 DEF L!Signals

LEMMA ReloadKeeps ==
    ASSUME RestOK, SignalInv,
           L!Reload \/ \E r \in L!Reloaders, k \in Contents : L!Edit(r, k)
    PROVE  RestOK' /\ SignalInv'
<1>0. /\ terms \in Nat /\ requests \in Nat /\ sent \in Nat /\ MaxSignals \in Nat
      /\ Len(sigs) \in Nat /\ terms + requests + Len(sigs) <= sent
      /\ turn \in 1 .. NReloaders /\ NReloaders \in Nat \ {0} /\ 1 \in L!Reloaders /\ turn \in L!Reloaders
  BY LNumbers, LenProperties DEF RestOK, SignalInv, L!Reloaders
<1>1. UNCHANGED <<drain, readyz, sigs, sent, terms, escalated>>
  BY DEF L!Reload, L!Serve, L!Validate, L!Apply, L!Edit, L!sigVars, L!drainVars
<1>2. requests' \in {0, requests}
  BY DEF L!Reload, L!Serve, L!Validate, L!Apply, L!Edit
<1>3. SignalInv'
  BY <1>0, <1>1, <1>2 DEF SignalInv
<1>4. pass' \in {"idle", "validate", "apply"}
  BY DEF L!Reload, L!Serve, L!Validate, L!Apply, L!Edit, RestOK
<1>5. turn' \in L!Reloaders
  <2>1. turn' = turn \/ turn' = 1 \/ (turn # NReloaders /\ turn' = turn + 1)
    BY DEF L!Reload, L!Serve, L!Validate, L!Apply, L!Edit
  <2> QED
    BY <1>0, <2>1 DEF L!Reloaders
<1>6. source' \in [L!Reloaders -> Contents]
  <2>1. source' = source \/ \E r \in L!Reloaders, k \in Contents : source' = [source EXCEPT ![r] = k]
    BY DEF L!Reload, L!Serve, L!Validate, L!Apply, L!Edit
  <2> QED
    BY <2>1 DEF RestOK
<1>7. pending' \in [L!Reloaders -> Contents \cup {0}]
  <2>1. \/ pending' = pending
        \/ pending' = [pending EXCEPT ![turn] = source[turn]]
        \/ pending' = [pending EXCEPT ![turn] = 0]
    BY DEF L!Reload, L!Serve, L!Validate, L!Apply, L!Edit, L!Park, L!Swap
  <2> QED
    BY <1>0, <2>1 DEF RestOK
<1>8. inForce' \in [L!Reloaders -> Contents]
  <2>1. \/ inForce' = inForce
        \/ inForce' = [inForce EXCEPT ![turn] = IF pending[turn] = 0 THEN inForce[turn] ELSE pending[turn]]
    BY DEF L!Reload, L!Serve, L!Validate, L!Apply, L!Edit, L!Swap
  <2>2. (IF pending[turn] = 0 THEN inForce[turn] ELSE pending[turn]) \in Contents
    BY <1>0 DEF RestOK
  <2> QED
    BY <2>1, <2>2 DEF RestOK
<1>9. requests' \in 0 .. MaxSignals
  BY <1>0, <1>2 DEF RestOK
<1>10. RestOK'
  BY <1>1, <1>4, <1>5, <1>6, <1>7, <1>8, <1>9, Zenon DEF RestOK
<1> QED
  BY <1>3, <1>10

LEMMA LifecycleInit ==
    ASSUME L!Init
    PROVE  LInv
<1> USE DEF L!Init
<1>0. NComponents \in Nat /\ 0 \in 0 .. NComponents /\ 0 \in 0 .. MaxSignals /\ 1 \in L!Reloaders
  BY LNumbers DEF L!Reloaders
<1>1. \A d \in L!Drainers : drain[d] = "idle" /\ ~Busy(d)
  BY DEF Busy
<1>2. <<>> \in Seq(L!Components) /\ <<>> \in Seq({"TERM", "HUP"}) /\ Len(<<>>) = 0 /\ DOMAIN stops = {}
  OBVIOUS
<1>3. ManOK
  <2>1. drain \in [L!Drainers -> {"idle", "called", "waiting", "forced", "teardown", "closing", "returned"}]
    OBVIOUS
  <2>2. state \in L!States /\ seen \in L!States
    BY DEF L!States
  <2> QED
    BY <1>0, <1>2, <2>1, <2>2, Zenon DEF ManOK
<1>4. RestOK
  <2>1. source \in [L!Reloaders -> Contents]
    OBVIOUS
  <2>2. inForce \in [L!Reloaders -> Contents] /\ pending \in [L!Reloaders -> Contents \cup {0}]
    BY <2>1
  <2> QED
    BY <1>0, <1>2, <2>1, <2>2, Zenon DEF RestOK
<1>5. MuInv /\ StartInv /\ StateInv
  BY <1>1 DEF MuInv, StartInv, StateInv
<1>6. OrderInv
  BY <1>2 DEF OrderInv
<1>7. SignalInv
  <2>1. "signal" \in L!Drainers
    BY DEF L!Drainers
  <2> QED
    BY <1>1, <1>2, <2>1 DEF SignalInv
<1> QED
  BY <1>3, <1>4, <1>5, <1>6, <1>7, LTypes DEF LInv

LEMMA LifecycleStep ==
    ASSUME LInv, [L!Next]_L!vars
    PROVE  LInv'
<1>0. Core /\ ManOK /\ RestOK /\ SignalInv
  BY LTypes DEF LInv, Core
<1>1. CASE \/ L!Manage \/ L!StopAllCall \/ L!RootDrain \/ L!Damage \/ L!Supervise
           \/ \E d \in L!Drainers : L!Drain(d) \/ L!ShutdownReturns(d)
  <2>1. RestOK' /\ SignalInv'
    BY <1>0, <1>1, ManagerSignals
  <2>2. L!Manage => Core' /\ ManOK'
    BY <1>0, StartingKeeps, StopOneKeeps, StopDoneKeeps DEF L!Manage
  <2>3. L!StopAllCall => Core' /\ ManOK'
    BY <1>0, StopAllKeeps
  <2>4. L!Damage \/ L!Supervise => Core' /\ ManOK'
    BY <1>0, FatalKeeps DEF L!Supervise
  <2>5. L!RootDrain => Core' /\ ManOK'
    BY <1>0, DrainingKeeps
  <2>6. ASSUME NEW d \in L!Drainers, L!Drain(d) \/ L!ShutdownReturns(d)
        PROVE  Core' /\ ManOK'
    <3>1. CASE L!DrainBegin(d)
      <4>1. CASE ~drained /\ L!Advances("Ready", "Draining")
        BY <1>0, <3>1, <4>1, DrainBeginKeeps
      <4>2. CASE ~(~drained /\ L!Advances("Ready", "Draining"))
        BY <1>0, <3>1, <4>2, DrainingKeeps
      <4> QED
        BY <4>1, <4>2
    <3>2. CASE L!GiveUp(d) \/ L!ForceClose(d) \/ L!ShutdownReturns(d)
      BY <1>0, <3>2, DrainingKeeps
    <3>3. CASE L!Teardown(d)
      BY <1>0, <3>3, TeardownKeeps
    <3>4. CASE L!DrainEnd(d)
      BY <1>0, <3>4, DrainEndKeeps
    <3> QED
      BY <2>6, <3>1, <3>2, <3>3, <3>4 DEF L!Drain
  <2>7. Core' /\ ManOK'
    BY <1>1, <2>2, <2>3, <2>4, <2>5, <2>6
  <2> QED
    BY <2>1, <2>7, LTypes DEF LInv, Core, L!TypeOK, ManOK, RestOK
<1>2. CASE \/ L!Signals \/ \E s \in {"TERM", "HUP"} : L!Signal(s)
           \/ L!Reload \/ \E r \in L!Reloaders, k \in Contents : L!Edit(r, k)
  <2>1. RestOK' /\ SignalInv'
    BY <1>0, <1>2, SignalsKeep, ReloadKeeps
  <2>2. Core' /\ ManOK'
    <3>1. CASE L!HandleTerm
      BY <1>0, <3>1, TermKeeps
    <3>2. CASE ~L!HandleTerm
      <4>1. UNCHANGED coreVars
        BY <1>2, <3>2 DEF coreVars, L!Signals, L!HandleHup, L!Signal, L!Reload, L!Serve, L!Validate,
                          L!Apply, L!Edit, L!startVars, L!stopVars, L!drainVars, L!fatalVars
      <4> QED
        BY <1>0, <4>1, CoreStutters
    <3> QED
      BY <3>1, <3>2
  <2> QED
    BY <2>1, <2>2, LTypes DEF LInv, Core, L!TypeOK, ManOK, RestOK
<1>3. CASE UNCHANGED L!vars
  <2>1. UNCHANGED lvars
    BY <1>3 DEF lvars, L!vars, L!startVars, L!stopVars, L!drainVars, L!sigVars, L!fatalVars, L!reloadVars
  <2>2. Core' /\ ManOK'
    BY <1>0, <2>1, CoreStutters DEF lvars, coreVars
  <2>3. RestOK' /\ SignalInv'
    BY <1>0, <2>1, Zenon DEF lvars, RestOK, SignalInv
  <2> QED
    BY <2>2, <2>3 DEF LInv, Core, L!TypeOK, ManOK, RestOK
<1> QED
  BY <1>1, <1>2, <1>3 DEF L!Next, L!Step

LEMMA LifecycleSafe ==
    ASSUME LInv
    PROVE  L!TypeOK /\ L!TeardownOnce
<1>0. L!TypeOK /\ ManOK /\ MuInv /\ StartInv /\ OrderInv /\ StateInv
  BY LTypes DEF LInv
<1>1. \A i, j \in DOMAIN stops : i < j => stops[i] > stops[j]
  BY <1>0 DEF OrderInv
<1>2. state = "Stopped" => Len(stops) = NComponents /\ api = "down"
  <2> SUFFICES ASSUME state = "Stopped" PROVE Len(stops) = NComponents /\ api = "down"
    OBVIOUS
  <2>1. start = "up" /\ stopped /\ api = "down"
    BY <1>0 DEF StartInv, StateInv
  <2>2. L!MuFree
    <3>1. \A d \in L!Drainers : ~Busy(d)
      BY <1>0 DEF StateInv
    <3>2. \A d \in L!Drainers : drain[d] # "teardown"
      BY <3>1 DEF Busy
    <3> QED
      BY <1>0, <2>1, <3>2 DEF MuInv, L!MuFree
  <2>3. left = 0 /\ Len(stops) \in Nat
    BY <1>0, <2>2, LNumbers, LenProperties DEF MuInv, ManOK
  <2> QED
    BY <1>0, <2>1, <2>3 DEF StartInv
<1>3. state = "Fatal" /\ seen = "Ready" /\ stopall = "idle" => stops = <<>>
  <2> SUFFICES ASSUME state = "Fatal", seen = "Ready", stopall = "idle" PROVE stops = <<>>
    OBVIOUS
  <2>1. start = "up" /\ ~stopped /\ \A d \in L!Drainers : ~Busy(d)
    BY <1>0 DEF StartInv, StateInv
  <2>2. L!MuFree
    BY <2>1 DEF L!MuFree, Busy
  <2> QED
    BY <1>0, <2>1, <2>2 DEF StartInv
<1>4. exit = "74" /\ seen = "Ready" => state # "Ready"
  BY <1>0 DEF StateInv
<1> QED
  BY <1>0, <1>1, <1>2, <1>3, <1>4 DEF L!TeardownOnce

\* Whatever calls of Drain and StopAll, failed starts, signals and fatalities
\* meet, a component is stopped at most once and in the reverse of the start
\* order (drain.go: teardownAll), for any number of components.
THEOREM TeardownHappensOnce == L!Spec => [](L!TypeOK /\ L!TeardownOnce)
<1>1. L!Init => LInv
  BY LifecycleInit
<1>2. LInv /\ [L!Next]_L!vars => LInv'
  BY LifecycleStep
<1>3. LInv => L!TypeOK /\ L!TeardownOnce
  BY LifecycleSafe
<1> QED
  BY <1>1, <1>2, <1>3, PTL DEF L!Spec

-----------------------------------------------------------------------------
(* The three together *)

LEMMA PStep ==
    ASSUME PInv, [OfDaemons(Next) \/ OfJanitor(JNext) \/ OfManager(L!Next)]_pvars
    PROVE  PInv'
<1>0. DInv /\ Unborn /\ JInv /\ LInv
  BY DEF PInv
<1>1. DInv' /\ Unborn'
  <2>1. [Next]_vars
    BY DEF OfDaemons, OfJanitor, OfManager, pvars
  <2> QED
    BY <1>0, <2>1, DaemonStep
<1>2. JInv'
  <2>1. [JNext]_jvars
    BY DEF OfDaemons, OfJanitor, OfManager, pvars
  <2> QED
    BY <1>0, <2>1, JanitorStep
<1>3. LInv'
  <2>1. L!Next \/ UNCHANGED lvars
    BY DEF OfDaemons, OfJanitor, OfManager, pvars
  <2>2. UNCHANGED lvars => UNCHANGED L!vars
    BY DEF lvars, L!vars, L!startVars, L!stopVars, L!drainVars, L!sigVars, L!fatalVars, L!reloadVars
  <2> QED
    BY <1>0, <2>1, <2>2, LifecycleStep
<1> QED
  BY <1>1, <1>2, <1>3 DEF PInv

\* What the run `process` checks of the daemons, the janitor and the manager,
\* for any number of processes, stream names, components and reloaders.
THEOREM ProcessesEndClean == PSpec => []EndsAreClean
<1>1. PInit => PInv
  BY DaemonInit, JanitorInit, LifecycleInit DEF PInit, PInv
<1>2. PInv /\ [OfDaemons(Next) \/ OfJanitor(JNext) \/ OfManager(L!Next)]_pvars => PInv'
  BY PStep
<1>3. PInv => EndsAreClean
  BY DaemonSafe, LifecycleSafe DEF PInv, JInv, EndsAreClean
<1> QED
  BY <1>1, <1>2, <1>3, PTL DEF PSpec
=============================================================================
