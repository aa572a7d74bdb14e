--------------------------- MODULE StreamsProofs ----------------------------
(***************************************************************************)
(* What holds of the life of a stream for every set of names, every        *)
(* configuration and every bound: sequence numbers are not handed out      *)
(* twice, a created stream starts empty, a retry stores once.              *)
(***************************************************************************)
EXTENDS Streams, FiniteSetsExt, TLAPS, FiniteSetTheorems, WellFoundedInduction, NaturalsInduction

\* A non-empty set of naturals has a least element, and Min picks it.
LEMMA MinIsLeast ==
    ASSUME NEW S, S \subseteq Nat, S # {}
    PROVE  Min(S) \in S /\ \A y \in S : Min(S) <= y
<1> DEFINE R == {p \in Nat \X Nat : p[1] < p[2]}
<1>1. IsWellFoundedOn(R, Nat)
  <2>1. OpToRel(<, Nat) = R
    BY Zenon DEF OpToRel
  <2>2. QED
    BY <2>1, NatLessThanWellFounded, Zenon
<1> HIDE DEF R
<1>2. \E x \in S : \A y \in S : ~ (<<y, x>> \in R)
  BY <1>1, WFMin, Zenon
<1>3. \E x \in S : \A y \in S : x <= y
  <2>1. PICK x \in S : \A y \in S : ~ (<<y, x>> \in R)
    BY <1>2
  <2>2. ASSUME NEW y \in S PROVE x <= y
    <3>1. ~ (<<y, x>> \in R)
      BY <2>1
    <3>2. x \in Nat /\ y \in Nat /\ (y < x => <<y, x>> \in R)
      BY DEF R
    <3>3. QED
      BY <3>1, <3>2
  <2>3. QED
    BY <2>2
<1>4. QED
  BY <1>3 DEF Min

-----------------------------------------------------------------------------
(* A batch of publishes is a recursive function over its entries.  What one  *)
(* publish preserves, the batch preserves.                                   *)

\* f holds the tables before, between and after the publishes of a batch.
IsBatchTable(f, before, batch, window, len) ==
    f = [i \in 0 .. len |-> IF i = 0 THEN before ELSE PublishTx(f[i - 1], batch[i], window)]

\* The equation of the batch has a solution for every length: the least length
\* without one would have a solution one shorter, which extends by one entry.
LEMMA BatchTableExists ==
    ASSUME NEW before, NEW batch, NEW window, NEW len \in Nat
    PROVE  \E f : IsBatchTable(f, before, batch, window, len)
<1> DEFINE Eq(f, k) == IsBatchTable(f, before, batch, window, k)
<1> DEFINE bad == {k \in Nat : ~ \E f : Eq(f, k)}
<1>1. SUFFICES ASSUME bad # {} PROVE FALSE
  <2>1. len \notin bad => \E f : Eq(f, len)
    BY Zenon
  <2>2. QED
    BY <1>1, <2>1
<1> DEFINE k == Min(bad)
<1>2. k \in bad /\ \A j \in bad : k <= j
  <2>1. bad \subseteq Nat
    OBVIOUS
  <2>2. QED
    BY <2>1, <1>1, MinIsLeast, Zenon
<1>3. k \in Nat /\ ~ \E f : Eq(f, k)
  BY <1>2
<1> HIDE DEF k
<1>4. CASE k = 0
  <2> DEFINE f == [i \in 0 .. 0 |-> before]
  <2>1. f = [i \in 0 .. 0 |-> IF i = 0 THEN before ELSE PublishTx(f[i - 1], batch[i], window)]
    OBVIOUS
  <2>2. Eq(f, k)
    BY <2>1, <1>4 DEF IsBatchTable
  <2>3. QED
    BY <2>2, <1>3, Zenon
<1>5. CASE k # 0
  <2>1. k - 1 \in Nat /\ ~ (k <= k - 1)
    BY <1>3, <1>5
  <2>2. k - 1 \notin bad
    BY <1>2, <2>1, Zenon
  <2>3. \E f : Eq(f, k - 1)
    BY <2>1, <2>2, Zenon
  <2>4. PICK f : Eq(f, k - 1)
    BY <2>3, Zenon
  <2> DEFINE g == [i \in 0 .. k |->
                     IF i = k THEN PublishTx(f[k - 1], batch[k], window) ELSE f[i]]
  <2>5. ASSUME NEW i \in 0 .. k
        PROVE  g[i] = IF i = 0 THEN before ELSE PublishTx(g[i - 1], batch[i], window)
    <3>1. CASE i = 0
      <4>1. 0 \in 0 .. (k - 1) /\ 0 # k
        BY <1>3, <1>5
      <4>2. f[0] = before
        BY <4>1, <2>4 DEF IsBatchTable
      <4>3. QED
        BY <3>1, <4>1, <4>2
    <3>2. CASE i # 0 /\ i = k
      <4>1. i - 1 \in 0 .. k /\ i - 1 # k
        BY <3>2, <1>3
      <4>2. QED
        BY <3>2, <4>1
    <3>3. CASE i # 0 /\ i # k
      <4>1. i - 1 \in 0 .. k /\ i - 1 # k /\ i \in 0 .. (k - 1)
        BY <3>3, <1>3
      <4>2. f[i] = PublishTx(f[i - 1], batch[i], window)
        BY <2>4, <4>1, <3>3 DEF IsBatchTable
      <4>3. g[i - 1] = f[i - 1] /\ g[i] = f[i]
        BY <4>1, <3>3
      <4>4. QED
        BY <4>2, <4>3, <3>3
    <3>4. QED
      BY <3>1, <3>2, <3>3
  <2>6. g = [i \in 0 .. k |-> g[i]]
    OBVIOUS
  <2> HIDE DEF g
  <2>7. Eq(g, k)
    BY <2>5, <2>6 DEF IsBatchTable
  <2>8. QED
    BY <2>7, <1>3, Zenon
<1>6. QED
  BY <1>4, <1>5

\* A set of tables that one publish does not leave is not left by a batch.
LEMMA BatchStaysIn ==
    ASSUME NEW Good, NEW before \in Good, NEW batch, NEW window, Len(batch) \in Nat,
           \A i \in 1 .. Len(batch) : batch[i] \in Entries,
           \A st \in Good, e \in Entries : PublishTx(st, e, window) \in Good
    PROVE  PublishAll(before, batch, window) \in Good
<1> DEFINE Eq(f) == IsBatchTable(f, before, batch, window, Len(batch))
<1> DEFINE F == CHOOSE f : Eq(f)
<1>1. F = [i \in 0 .. Len(batch) |->
             IF i = 0 THEN before ELSE PublishTx(F[i - 1], batch[i], window)]
  <2>1. \E f : Eq(f)
    BY BatchTableExists, Zenon
  <2> HIDE DEF Eq
  <2>2. Eq(F)
    BY <2>1, Zenon
  <2>3. QED
    BY <2>2, Zenon DEF Eq, IsBatchTable
<1>2. PublishAll(before, batch, window) = F[Len(batch)]
  BY Zenon DEF PublishAll, IsBatchTable
<1> HIDE DEF F
<1> DEFINE bad == {i \in 0 .. Len(batch) : F[i] \notin Good}
<1>3. SUFFICES ASSUME bad # {} PROVE FALSE
  <2>1. Len(batch) \in 0 .. Len(batch)
    OBVIOUS
  <2>2. Len(batch) \notin bad
    BY <1>3
  <2>3. QED
    BY <2>1, <2>2, <1>2
<1> DEFINE i == Min(bad)
<1>4. i \in bad /\ \A j \in bad : i <= j
  <2>1. bad \subseteq Nat
    OBVIOUS
  <2>2. QED
    BY <2>1, <1>3, MinIsLeast, Zenon
<1>5. i \in 0 .. Len(batch) /\ F[i] \notin Good
  BY <1>4
<1> HIDE DEF i
<1>6. CASE i = 0
  BY <1>1, <1>5, <1>6
<1>7. CASE i # 0
  <2>1. i - 1 \in 0 .. Len(batch) /\ ~ (i <= i - 1) /\ i \in 1 .. Len(batch)
    BY <1>5, <1>7
  <2>2. i - 1 \notin bad
    BY <1>4, <2>1, Zenon
  <2>3. F[i - 1] \in Good
    BY <2>1, <2>2
  <2>4. F[i] = PublishTx(F[i - 1], batch[i], window)
    BY <1>1, <1>5, <1>7
  <2>5. QED
    BY <1>5, <2>1, <2>3, <2>4
<1>8. QED
  BY <1>6, <1>7

-----------------------------------------------------------------------------
(* The inductive invariant.                                                  *)

Msg == [seq : Nat, id : Entries, key : Entries, at : Nat]
Table == [next : Nat, count : Nat, msgs : SUBSET Msg]

\* What the tables hold.
TypeInv ==
    /\ row \in [Names -> Configs \cup {None}]
    /\ next \in [Names -> Nat] /\ count \in [Names -> Nat] /\ hwm \in [Names -> Nat]
    /\ marked \subseteq Names
    /\ msgs \in [Names -> SUBSET Msg] /\ \A n \in Names : IsFiniteSet(msgs[n])
    /\ call \in [Callers -> Names \cup {None}]
    /\ now \in Nat /\ issued \in [Names -> Nat] /\ narrowest \in [Names -> Nat]

\* A stream has a sequence row exactly while it has a row.
RowsInv == \A n \in Names : IF Live(n) THEN next[n] >= 1 ELSE next[n] = 0

\* Only deletions leave markers, and what has neither a row nor a marker has no
\* messages.
EmptyInv ==
    /\ marked \subseteq Deletable
    /\ \A n \in Names : ~Live(n) /\ n \notin marked => msgs[n] = {}

\* The dead-letter streams that a caller may delete: they are provisioned again
\* without a look at the high-water mark.
Fragile == Deletable \cap {DlqOf[o] : o \in DOMAIN DlqOf}

\* The numbers issued stay below the counter of a live stream, and within the
\* high-water mark of a deleted one; what was never deleted was never live.
SeqInv ==
    \A n \in Names \ Fragile :
        /\ Live(n) => next[n] > issued[n]
        /\ ~Live(n) => issued[n] <= hwm[n]
        /\ ~Live(n) /\ n \notin Deletable => issued[n] = 0

\* No message is dated after the clock.
ClockInv == \A n \in Names : \A m \in msgs[n] : m.at <= now

\* A message with an id still has its key, or is older than the window `w`; two
\* with one id are further apart than that.
Windowed(st, w) ==
    /\ \A m \in st.msgs : m.seq < st.next
    /\ \A m \in st.msgs : m.id # NoId => m.key = m.id \/ m.at < now - w
    /\ \A m, o \in st.msgs : (m.id = o.id /\ m.id # NoId /\ m.seq < o.seq) => o.at - m.at > w

WindowInv ==
    \A n \in Names : Live(n) /\ narrowest[n] > 0 =>
        row[n].window >= narrowest[n] /\ Windowed(TableOf(n), narrowest[n])

IInv == TypeInv /\ RowsInv /\ EmptyInv /\ SeqInv /\ ClockInv /\ WindowInv

-----------------------------------------------------------------------------
(* What one insert and one publish preserve.                                 *)

\* The tables a stream may be in that had `lo` for its counter and has never
\* had a window below `w`.
GoodTable(lo, w) ==
    {st \in Table : /\ IsFiniteSet(st.msgs) /\ st.next >= lo
                    /\ \A m \in st.msgs : m.at <= now
                    /\ w > 0 => Windowed(st, w)}

\* With no message dated ahead of the clock, the clamp is the clock.
LEMMA ClampIsNow ==
    ASSUME now \in Nat, NEW st \in Table, \A m \in st.msgs : m.at <= now
    PROVE  ClampPublishedAt(st) = now
<1>1. \A m \in st.msgs : m.at \in Nat
  BY DEF Table, Msg
<1>2. ~ \E m \in st.msgs : m.at > now
  BY <1>1
<1>3. QED
  BY <1>2, Zenon DEF ClampPublishedAt

\* The fields of a table after an insert.
LEMMA InsertedFields ==
    ASSUME now \in Nat, NEW st \in Table, \A m \in st.msgs : m.at <= now,
           NEW id \in Entries, NEW key \in Entries
    PROVE  LET new == [seq |-> st.next, id |-> id, key |-> key, at |-> now]
           IN  /\ new \in Msg
               /\ Inserted(st, id, key) =
                    [next |-> st.next + 1, count |-> st.count + 1, msgs |-> st.msgs \cup {new}]
               /\ Inserted(st, id, key) \in Table
<1> DEFINE new == [seq |-> st.next, id |-> id, key |-> key, at |-> now]
<1> DEFINE t == [next |-> st.next + 1, count |-> st.count + 1, msgs |-> st.msgs \cup {new}]
<1>1. new \in Msg
  BY DEF Table, Msg
<1>2. Inserted(st, id, key) = t
  <2>1. ClampPublishedAt(st) = now
    BY ClampIsNow
  <2>2. AllocSeq(st) = st.next
    BY DEF AllocSeq
  <2>3. Inserted(st, id, key) =
          [st EXCEPT !.next = @ + 1, !.count = @ + 1, !.msgs = @ \cup {new}]
    BY <2>1, <2>2, Zenon DEF Inserted
  <2> HIDE DEF new
  <2>4. QED
    BY <2>3 DEF Table
<1>3. t \in Table
  BY <1>1 DEF Table
<1>4. QED
  BY <1>1, <1>2, <1>3, Zenon

\* An insert keeps a good table, when its id is not that of a key in it.
LEMMA InsertedIsGood ==
    ASSUME now \in Nat, NEW lo \in Nat, NEW w \in Nat, NEW st \in GoodTable(lo, w),
           NEW id \in Entries, NEW key \in Entries,
           (w > 0 /\ id # NoId) => key = id /\ \A m \in st.msgs : m.key # id
    PROVE  Inserted(st, id, key) \in GoodTable(lo, w)
<1> DEFINE new == [seq |-> st.next, id |-> id, key |-> key, at |-> now]
<1> DEFINE t == [next |-> st.next + 1, count |-> st.count + 1, msgs |-> st.msgs \cup {new}]
<1>1. st \in Table /\ IsFiniteSet(st.msgs) /\ st.next >= lo /\ \A m \in st.msgs : m.at <= now
  BY DEF GoodTable
<1>2. new \in Msg /\ Inserted(st, id, key) = t /\ t \in Table
  BY <1>1, InsertedFields, Zenon
<1>3. IsFiniteSet(t.msgs)
  BY <1>1, FS_AddElement
<1>4. t.next >= lo
  BY <1>1 DEF Table
<1>5. \A m \in t.msgs : m.at <= now
  BY <1>1
<1>6. ASSUME w > 0 PROVE Windowed(t, w)
  <2>1. Windowed(st, w)
    BY <1>6 DEF GoodTable
  <2>2. \A m \in st.msgs : m \in Msg /\ m.seq < st.next
    BY <2>1, <1>1 DEF Windowed, Table
  <2>3. \A m \in t.msgs : m.seq < t.next
    BY <2>2, <1>1 DEF Table, Msg
  <2>4. \A m \in t.msgs : m.id # NoId => m.key = m.id \/ m.at < now - w
    BY <2>1, <1>6 DEF Windowed
  <2>5. ASSUME NEW m \in t.msgs, NEW o \in t.msgs, m.id = o.id, m.id # NoId, m.seq < o.seq
        PROVE  o.at - m.at > w
    <3>1. CASE m \in st.msgs /\ o \in st.msgs
      BY <2>1, <2>5, <3>1, Zenon DEF Windowed
    <3>2. CASE m = new
      BY <3>2, <2>5, <2>2, <1>1 DEF Table, Msg
    <3>3. CASE m \in st.msgs /\ o = new
      <4>1. m.id = id /\ m.key # id
        BY <3>3, <2>5, <1>6
      <4>2. m.at < now - w
        BY <4>1, <2>5, <3>3, <2>1 DEF Windowed
      <4>3. QED
        BY <4>2, <3>3, <2>2 DEF Msg
    <3>4. QED
      BY <3>1, <3>2, <3>3, <2>5
  <2>6. QED
    BY <2>3, <2>4, <2>5, Zenon DEF Windowed
<1> HIDE DEF t
<1>7. QED
  BY <1>2, <1>3, <1>4, <1>5, <1>6 DEF GoodTable

\* A publish keeps a good table: an id that is still a key is answered, and on
\* a stream whose window was never 0 an insert with an id leaves its key.
LEMMA PublishIsGood ==
    ASSUME ConstantsAssumption, now \in Nat, NEW lo \in Nat, NEW w \in Nat, NEW window \in Nat,
           w > 0 => window >= w, NEW st \in GoodTable(lo, w), NEW id \in Entries
    PROVE  PublishTx(st, id, window) \in GoodTable(lo, w)
<1>0. NoId \in Entries
  BY DEF ConstantsAssumption
<1>1. CASE id # NoId /\ window > 0
  <2>1. CASE FindDedupHit(st, id) # {}
    <3>1. PublishTx(st, id, window) = st
      BY <1>1, <2>1, Zenon DEF PublishTx
    <3>2. QED
      BY <3>1
  <2>2. CASE FindDedupHit(st, id) = {}
    <3>1. PublishTx(st, id, window) = Inserted(st, id, id)
      BY <1>1, <2>2, Zenon DEF PublishTx
    <3>2. \A m \in st.msgs : m.key # id
      BY <2>2 DEF FindDedupHit
    <3>3. QED
      BY <3>1, <3>2, InsertedIsGood
  <2>3. QED
    BY <2>1, <2>2
<1>2. CASE ~ (id # NoId /\ window > 0)
  <2>1. PublishTx(st, id, window) = Inserted(st, id, NoId)
    BY <1>2, Zenon DEF PublishTx
  <2>2. ~ (w > 0 /\ id # NoId)
    BY <1>2
  <2>3. QED
    BY <1>0, <2>1, <2>2, InsertedIsGood
<1>3. QED
  BY <1>1, <1>2

-----------------------------------------------------------------------------
(* The steps that only take messages away: the reapers, a crash, the end of  *)
(* a call.                                                                   *)

\* A configuration is not None and its window is a number.
LEMMA ConfigFacts ==
    ASSUME ConstantsAssumption, NEW cfg \in Configs
    PROVE  cfg # None /\ cfg.window \in Nat
BY DEF ConstantsAssumption

\* A chunk takes messages of its name only, and the marker goes with the last.
LEMMA ChunkEffect ==
    ASSUME ConstantsAssumption, TypeInv, NEW n \in Names, ReapChunk(n)
    PROVE  /\ msgs' \in [Names -> SUBSET Msg]
           /\ \A x \in Names : msgs'[x] \subseteq msgs[x]
           /\ marked' \subseteq marked
           /\ \A x \in marked \ marked' : msgs'[x] = {}
<1>1. PICK gone \in SUBSET msgs[n] :
        /\ Cardinality(gone) = Least(Chunk, Cardinality(msgs[n]))
        /\ msgs' = [msgs EXCEPT ![n] = @ \ gone]
        /\ marked' = IF Cardinality(gone) < Chunk THEN marked \ {n} ELSE marked
  BY Zenon DEF ReapChunk
<1>2. msgs' \in [Names -> SUBSET Msg] /\ \A x \in Names : msgs'[x] \subseteq msgs[x]
  BY <1>1 DEF TypeInv
<1>3. marked' \subseteq marked /\ marked \ marked' \subseteq {n}
  BY <1>1
<1>4. ASSUME Cardinality(gone) < Chunk PROVE msgs'[n] = {}
  <2>1. IsFiniteSet(msgs[n]) /\ Chunk \in Nat
    BY DEF TypeInv, ConstantsAssumption
  <2>2. Cardinality(msgs[n]) \in Nat
    BY <2>1, FS_CardinalityType
  <2>3. Cardinality(gone) = Cardinality(msgs[n])
    BY <1>1, <1>4, <2>1, <2>2 DEF Least
  <2>4. gone = msgs[n]
    BY <2>1, <2>3, FS_Subset
  <2>5. QED
    BY <1>1, <2>4 DEF TypeInv
<1>5. QED
  BY <1>1, <1>2, <1>3, <1>4

\* Taking messages away, and markers where none are left, keeps the invariant.
LEMMA ShrinkKeeps ==
    ASSUME IInv, UNCHANGED <<row, next, count, hwm, now, issued, narrowest>>,
           msgs' \in [Names -> SUBSET Msg], \A x \in Names : msgs'[x] \subseteq msgs[x],
           marked' \subseteq marked, \A x \in marked \ marked' : msgs'[x] = {},
           call' \in [Callers -> Names \cup {None}]
    PROVE  IInv'
<1> USE DEF IInv
<1>0. \A x \in Names : Live(x)' <=> Live(x)
  BY DEF Live
<1>1. TypeInv'
  <2>1. \A x \in Names : IsFiniteSet(msgs'[x])
    BY FS_Subset DEF TypeInv
  <2>2. QED
    BY <2>1 DEF TypeInv
<1>2. RowsInv'
  BY <1>0 DEF RowsInv
<1>3. EmptyInv'
  BY <1>0 DEF EmptyInv, TypeInv
<1>4. SeqInv'
  BY <1>0 DEF SeqInv, Fragile
<1>5. ClockInv'
  BY DEF ClockInv
<1>6. WindowInv'
  <2>1. SUFFICES ASSUME NEW n \in Names, Live(n), narrowest[n] > 0
                 PROVE  row[n].window >= narrowest[n] /\ Windowed(TableOf(n), narrowest[n])'
    BY <1>0 DEF WindowInv
  <2>2. row[n].window >= narrowest[n] /\ Windowed(TableOf(n), narrowest[n])
    BY <2>1 DEF WindowInv
  <2>3. QED
    BY <2>2 DEF Windowed, TableOf
<1>7. QED
  BY <1>1, <1>2, <1>3, <1>4, <1>5, <1>6

LEMMA ReapersKeep ==
    ASSUME ConstantsAssumption, IInv,
           \/ \E c \in Callers : CallerReaps(c)
           \/ ReapResume \/ FinishInterruptedReaps
    PROVE  IInv'
<1>0. TypeInv /\ None \notin Names
  BY DEF IInv, ConstantsAssumption
<1>1. CASE \E c \in Callers : CallerReaps(c)
  <2>1. PICK c \in Callers : CallerReaps(c)
    BY <1>1
  <2>2. call[c] \in Names /\ ReapChunk(call[c])
    BY <2>1, <1>0 DEF CallerReaps, TypeInv
  <2>3. /\ UNCHANGED <<row, next, count, hwm, now, issued, narrowest>>
        /\ call' \in [Callers -> Names \cup {None}]
    BY <2>1, <1>0 DEF CallerReaps, history, TypeInv
  <2>4. QED
    BY <1>0, <2>2, <2>3, ChunkEffect, ShrinkKeeps
<1>2. CASE ReapResume
  <2>1. PICK n \in Names : ReapChunk(n)
    BY <1>2 DEF ReapResume
  <2>2. /\ UNCHANGED <<row, next, count, hwm, now, issued, narrowest>>
        /\ call' \in [Callers -> Names \cup {None}]
    BY <1>2, <1>0 DEF ReapResume, history, TypeInv
  <2>3. QED
    BY <1>0, <2>1, <2>2, ChunkEffect, ShrinkKeeps
<1>3. CASE FinishInterruptedReaps
  <2>1. PICK n \in Names : ReapChunk(n)
    BY <1>3, <1>0 DEF FinishInterruptedReaps, TypeInv
  <2>2. /\ UNCHANGED <<row, next, count, hwm, now, issued, narrowest>>
        /\ call' \in [Callers -> Names \cup {None}]
    BY <1>3, <1>0 DEF FinishInterruptedReaps, history, TypeInv
  <2>3. QED
    BY <1>0, <2>1, <2>2, ChunkEffect, ShrinkKeeps
<1>4. QED
  BY <1>1, <1>2, <1>3

LEMMA EndsKeep ==
    ASSUME ConstantsAssumption, IInv,
           \/ \E c \in Callers : CallerGivesUp(c)
           \/ Crash \/ Opened \/ UNCHANGED vars
    PROVE  IInv'
<1>0. TypeInv
  BY DEF IInv
<1>1. /\ UNCHANGED <<row, next, count, hwm, now, issued, narrowest>>
      /\ UNCHANGED <<msgs, marked>>
  BY DEF CallerGivesUp, Crash, Opened, table, meta, history, vars
<1>2. call' \in [Callers -> Names \cup {None}]
  <2>1. CASE \E c \in Callers : CallerGivesUp(c)
    BY <2>1, <1>0 DEF CallerGivesUp, TypeInv
  <2>2. CASE Crash
    BY <2>2 DEF Crash
  <2>3. CASE Opened \/ UNCHANGED vars
    BY <2>3, <1>0 DEF Opened, vars, TypeInv
  <2>4. QED
    BY <2>1, <2>2, <2>3
<1>3. msgs' \in [Names -> SUBSET Msg] /\ \A x \in Names : msgs'[x] \subseteq msgs[x]
  BY <1>0, <1>1 DEF TypeInv
<1>4. marked' \subseteq marked /\ \A x \in marked \ marked' : msgs'[x] = {}
  BY <1>1
<1>5. QED
  BY <1>1, <1>2, <1>3, <1>4, ShrinkKeeps

\* The clock only makes messages older.
LEMMA TickKeeps ==
    ASSUME IInv, Tick
    PROVE  IInv'
<1> USE DEF IInv
<1>0. /\ UNCHANGED <<row, next, count, hwm, marked, msgs, call, issued, narrowest>>
      /\ now' = now + 1 /\ now \in Nat
  BY DEF Tick, table, meta, history, TypeInv
<1>1. TypeInv'
  BY <1>0 DEF TypeInv
<1>2. RowsInv' /\ EmptyInv' /\ SeqInv'
  BY <1>0 DEF RowsInv, EmptyInv, SeqInv, Fragile, Live
<1>3. ClockInv'
  BY <1>0 DEF ClockInv, TypeInv, Msg
<1>4. WindowInv'
  <2>1. SUFFICES ASSUME NEW n \in Names, Live(n), narrowest[n] > 0
                 PROVE  row[n].window >= narrowest[n] /\ Windowed(TableOf(n), narrowest[n])'
    BY <1>0 DEF WindowInv, Live
  <2>2. row[n].window >= narrowest[n] /\ Windowed(TableOf(n), narrowest[n])
    BY <2>1 DEF WindowInv
  <2>3. \A m \in msgs[n] : m.at \in Nat
    BY DEF TypeInv, Msg
  <2>4. narrowest[n] \in Nat
    BY DEF TypeInv
  <2>5. QED
    BY <1>0, <2>2, <2>3, <2>4 DEF Windowed, TableOf
<1>5. QED
  BY <1>1, <1>2, <1>3, <1>4

-----------------------------------------------------------------------------
(* The sweep of old keys, create, update and delete.                         *)

\* Clearing keys leaves finitely many messages.
LEMMA ClearedFinite ==
    ASSUME NEW swept, IsFiniteSet(swept)
    PROVE  IsFiniteSet({[m EXCEPT !.key = NoId] : m \in swept})
<1> DEFINE image == {[m EXCEPT !.key = NoId] : m \in swept}
<1> DEFINE f == [m \in swept |-> [m EXCEPT !.key = NoId]]
<1>1. f \in Surjection(swept, image)
  <2>1. f \in [swept -> image]
    OBVIOUS
  <2>2. \A t \in image : \E m \in swept : f[m] = t
    OBVIOUS
  <2> HIDE DEF f, image
  <2>3. QED
    BY <2>1, <2>2, Zenon DEF Surjection
<1> HIDE DEF f, image
<1>2. IsFiniteSet(image)
  BY <1>1, FS_Surjection, Zenon
<1>3. QED
  BY <1>2 DEF image

\* Every message after a sweep is one from before it, with its key or, when it
\* is older than the window, without.
LEMMA SweepEffect ==
    ASSUME ConstantsAssumption, TypeInv, NEW n \in Names, SweepDedup(n)
    PROVE  /\ msgs' \in [Names -> SUBSET Msg]
           /\ \A x \in Names \ {n} : msgs'[x] = msgs[x]
           /\ IsFiniteSet(msgs'[n])
           /\ \A t \in msgs'[n] : \E m \in msgs[n] :
                /\ t.seq = m.seq /\ t.id = m.id /\ t.at = m.at
                /\ t.key = m.key \/ m.at < now - row[n].window
<1> DEFINE old == {m \in msgs[n] : m.at < now - row[n].window /\ m.key # NoId}
<1>1. PICK swept \in SUBSET old :
        msgs' = [msgs EXCEPT ![n] = (@ \ swept) \cup {[m EXCEPT !.key = NoId] : m \in swept}]
  BY Zenon DEF SweepDedup
<1> DEFINE image == {[m EXCEPT !.key = NoId] : m \in swept}
<1>2. swept \subseteq msgs[n] /\ msgs[n] \subseteq Msg /\ NoId \in Entries
      /\ \A m \in swept : m.at < now - row[n].window
  BY DEF TypeInv, ConstantsAssumption
<1>3. \A t \in image : \E m \in swept :
        t \in Msg /\ t.seq = m.seq /\ t.id = m.id /\ t.at = m.at
  BY <1>2 DEF Msg
<1>4. IsFiniteSet(msgs[n]) /\ msgs \in [Names -> SUBSET Msg]
  BY DEF TypeInv
<1>5. IsFiniteSet(image) /\ IsFiniteSet(msgs[n] \ swept)
  BY <1>2, <1>4, FS_Subset, ClearedFinite
<1>6. msgs' = [msgs EXCEPT ![n] = (@ \ swept) \cup image]
  BY <1>1
<1> HIDE DEF image
<1>7. msgs'[n] = (msgs[n] \ swept) \cup image
  BY <1>4, <1>6
<1>8. IsFiniteSet(msgs'[n])
  <2>1. IsFiniteSet((msgs[n] \ swept) \cup image)
    BY <1>5, FS_Union, Zenon
  <2>2. QED
    BY <1>7, <2>1, Zenon
<1>9. msgs' \in [Names -> SUBSET Msg] /\ \A x \in Names \ {n} : msgs'[x] = msgs[x]
  BY <1>2, <1>3, <1>4, <1>6
<1>10. ASSUME NEW t \in msgs'[n]
       PROVE  \E m \in msgs[n] :
                /\ t.seq = m.seq /\ t.id = m.id /\ t.at = m.at
                /\ t.key = m.key \/ m.at < now - row[n].window
  BY <1>2, <1>3, <1>7
<1>11. QED
  BY <1>8, <1>9, <1>10

LEMMA SweepKeeps ==
    ASSUME ConstantsAssumption, IInv, NEW n \in Names, SweepDedup(n)
    PROVE  IInv'
<1> USE DEF IInv
<1>0. /\ UNCHANGED <<row, next, count, hwm, marked, call, now, issued, narrowest>>
      /\ Live(n)
  BY DEF SweepDedup, meta, history
<1>1. /\ msgs' \in [Names -> SUBSET Msg]
      /\ \A x \in Names \ {n} : msgs'[x] = msgs[x]
      /\ IsFiniteSet(msgs'[n])
      /\ \A t \in msgs'[n] : \E m \in msgs[n] :
           /\ t.seq = m.seq /\ t.id = m.id /\ t.at = m.at
           /\ t.key = m.key \/ m.at < now - row[n].window
  BY SweepEffect
<1>2. \A x \in Names : Live(x)' <=> Live(x)
  BY <1>0 DEF Live
<1>3. TypeInv'
  BY <1>0, <1>1 DEF TypeInv
<1>4. RowsInv' /\ SeqInv'
  BY <1>0, <1>2 DEF RowsInv, SeqInv, Fragile
<1>5. EmptyInv'
  BY <1>0, <1>1, <1>2 DEF EmptyInv
<1>6. ClockInv'
  BY <1>0, <1>1 DEF ClockInv
<1>7. WindowInv'
  <2>1. SUFFICES ASSUME NEW x \in Names, Live(x), narrowest[x] > 0
                 PROVE  row[x].window >= narrowest[x] /\ Windowed(TableOf(x), narrowest[x])'
    BY <1>0, <1>2 DEF WindowInv
  <2>2. row[x].window >= narrowest[x] /\ Windowed(TableOf(x), narrowest[x])
    BY <2>1 DEF WindowInv
  <2>3. CASE x # n
    BY <2>2, <2>3, <1>0, <1>1 DEF Windowed, TableOf
  <2>4. CASE x = n
    <3>1. row[n].window \in Nat /\ narrowest[n] \in Nat /\ now \in Nat
      BY <1>0, ConfigFacts DEF Live, TypeInv
    <3>2. \A m \in msgs[n] : m.at \in Nat
      BY DEF TypeInv, Msg
    <3>3. \A m \in msgs[n] : m.at < now - row[n].window => m.at < now - narrowest[n]
      BY <2>2, <2>4, <3>1, <3>2
    <3>4. \A t \in msgs'[n] : t.seq < next[n]
      BY <2>2, <2>4, <1>1 DEF Windowed, TableOf
    <3>5. \A t \in msgs'[n] : t.id # NoId => t.key = t.id \/ t.at < now - narrowest[n]
      BY <2>2, <2>4, <1>1, <3>3 DEF Windowed, TableOf
    <3>6. ASSUME NEW t \in msgs'[n], NEW u \in msgs'[n], t.id = u.id, t.id # NoId, t.seq < u.seq
          PROVE  u.at - t.at > narrowest[n]
      <4>1. PICK m \in msgs[n] : t.seq = m.seq /\ t.id = m.id /\ t.at = m.at
        BY <1>1
      <4>2. PICK o \in msgs[n] : u.seq = o.seq /\ u.id = o.id /\ u.at = o.at
        BY <1>1
      <4>3. o.at - m.at > narrowest[n]
        BY <2>2, <2>4, <3>6, <4>1, <4>2 DEF Windowed, TableOf
      <4>4. QED
        BY <4>1, <4>2, <4>3
    <3>7. QED
      BY <2>2, <2>4, <1>0, <3>4, <3>5, <3>6 DEF Windowed, TableOf
  <2>5. QED
    BY <2>3, <2>4
<1>8. QED
  BY <1>3, <1>4, <1>5, <1>6, <1>7

\* A created stream is empty and goes on above the high-water mark.
LEMMA CreateKeeps ==
    ASSUME ConstantsAssumption, IInv, NEW n \in Names, NEW cfg \in Configs, CreateStream(n, cfg)
    PROVE  IInv'
<1> USE DEF IInv
<1>0. /\ UNCHANGED <<hwm, marked, msgs, call, now, issued>>
      /\ row' = [row EXCEPT ![n] = cfg]
      /\ next' = [next EXCEPT ![n] = hwm[n] + 1]
      /\ count' = [count EXCEPT ![n] = 0]
      /\ narrowest' = [narrowest EXCEPT ![n] = cfg.window]
      /\ n \notin marked
  BY DEF CreateStream, meta, ResumeSeq, RefuseDuringReap
<1>1. cfg # None /\ cfg.window \in Nat
  BY ConfigFacts
<1>2. ~Live(n)
  BY DEF CreateStream
<1>3. msgs[n] = {}
  BY <1>0, <1>2 DEF EmptyInv
<1>4. TypeInv'
  BY <1>0, <1>1 DEF TypeInv
<1>5. \A x \in Names : Live(x)' <=> (Live(x) \/ x = n)
  BY <1>0, <1>1 DEF Live, TypeInv
<1>6. RowsInv'
  BY <1>0, <1>5 DEF RowsInv, TypeInv
<1>7. EmptyInv'
  BY <1>0, <1>5 DEF EmptyInv
<1>8. SeqInv'
  BY <1>0, <1>2, <1>5 DEF SeqInv, Fragile, TypeInv
<1>9. ClockInv'
  BY <1>0 DEF ClockInv
<1>10. WindowInv'
  <2>1. SUFFICES ASSUME NEW x \in Names, Live(x)', narrowest'[x] > 0
                 PROVE  row'[x].window >= narrowest'[x] /\ Windowed(TableOf(x), narrowest[x])'
    BY DEF WindowInv
  <2>2. CASE x = n
    <3>1. row'[n].window = cfg.window /\ narrowest'[n] = cfg.window /\ msgs'[n] = {}
      BY <1>0, <1>3 DEF TypeInv
    <3>2. QED
      BY <2>2, <1>1, <3>1 DEF Windowed, TableOf
  <2>3. CASE x # n
    <3>1. row'[x] = row[x] /\ narrowest'[x] = narrowest[x] /\ next'[x] = next[x]
          /\ msgs'[x] = msgs[x] /\ now' = now
      BY <2>3, <1>0 DEF TypeInv
    <3>2. row[x].window >= narrowest[x] /\ Windowed(TableOf(x), narrowest[x])
      BY <2>1, <2>3, <3>1, <1>5 DEF WindowInv
    <3>3. QED
      BY <3>1, <3>2 DEF Windowed, TableOf
  <2>4. QED
    BY <2>2, <2>3
<1>11. QED
  BY <1>4, <1>6, <1>7, <1>8, <1>9, <1>10

\* An update moves the narrowest window down with the configuration's.
LEMMA UpdateKeeps ==
    ASSUME ConstantsAssumption, IInv, NEW n \in Names, NEW cfg \in Configs, UpdateStream(n, cfg)
    PROVE  IInv'
<1> USE DEF IInv
<1>0. /\ UNCHANGED <<next, count, hwm, marked, msgs, call, now, issued>>
      /\ row' = [row EXCEPT ![n] = cfg]
      /\ narrowest' = [narrowest EXCEPT ![n] = Least(narrowest[n], cfg.window)]
      /\ Live(n)
  BY DEF UpdateStream, meta, TypeInv
<1>1. cfg # None /\ cfg.window \in Nat /\ narrowest[n] \in Nat
  BY ConfigFacts DEF TypeInv
<1> DEFINE w == Least(narrowest[n], cfg.window)
<1>2. w \in Nat /\ w <= cfg.window /\ w <= narrowest[n]
  BY <1>1 DEF Least
<1> HIDE DEF w
<1>3. narrowest' = [narrowest EXCEPT ![n] = w]
  BY <1>0 DEF w
<1>4. TypeInv'
  BY <1>0, <1>2, <1>3 DEF TypeInv
<1>5. \A x \in Names : Live(x)' <=> Live(x)
  BY <1>0, <1>1 DEF Live, TypeInv
<1>6. RowsInv' /\ SeqInv'
  BY <1>0, <1>5 DEF RowsInv, SeqInv, Fragile
<1>7. EmptyInv' /\ ClockInv'
  BY <1>0, <1>5 DEF EmptyInv, ClockInv
<1>8. WindowInv'
  <2>1. SUFFICES ASSUME NEW x \in Names, Live(x), narrowest'[x] > 0
                 PROVE  row'[x].window >= narrowest'[x] /\ Windowed(TableOf(x), narrowest[x])'
    BY <1>5 DEF WindowInv
  <2>2. CASE x = n
    <3>1. row'[n].window = cfg.window /\ narrowest'[n] = w
      BY <1>0, <1>3 DEF TypeInv
    <3>2. narrowest[n] > 0
      BY <2>1, <2>2, <3>1, <1>1, <1>2
    <3>3. Windowed(TableOf(n), narrowest[n])
      BY <3>2, <1>0 DEF WindowInv
    <3>4. now \in Nat /\ \A m \in msgs[n] : m.at \in Nat
      BY DEF TypeInv, Msg
    <3>5. \A m \in msgs[n] : m.at < now - narrowest[n] => m.at < now - w
      BY <3>4, <1>1, <1>2
    <3>6. \A m, o \in msgs[n] : o.at - m.at > narrowest[n] => o.at - m.at > w
      BY <3>4, <1>1, <1>2
    <3>7. Windowed(TableOf(n), w)
      BY <3>3, <3>5, <3>6 DEF Windowed, TableOf
    <3>8. Windowed(TableOf(n), narrowest[n])'
      BY <3>7, <3>1, <1>0 DEF Windowed, TableOf
    <3>9. QED
      BY <2>2, <3>1, <3>8, <1>2
  <2>3. CASE x # n
    <3>1. row'[x] = row[x] /\ narrowest'[x] = narrowest[x]
      BY <2>3, <1>0 DEF TypeInv
    <3>2. row[x].window >= narrowest[x] /\ Windowed(TableOf(x), narrowest[x])
      BY <2>1, <3>1 DEF WindowInv
    <3>3. QED
      BY <3>1, <3>2, <1>0 DEF Windowed, TableOf
  <2>4. QED
    BY <2>2, <2>3
<1>9. QED
  BY <1>4, <1>6, <1>7, <1>8

\* A deletion keeps the mark of the last number issued, and leaves the marker.
LEMMA DeleteKeeps ==
    ASSUME ConstantsAssumption, IInv, NEW c \in Callers, NEW n \in Names, DeleteStream(c, n)
    PROVE  IInv'
<1> USE DEF IInv
<1>0. /\ UNCHANGED <<msgs, now, issued, narrowest>>
      /\ hwm' = [hwm EXCEPT ![n] = next[n] - 1]
      /\ marked' = marked \cup {n}
      /\ row' = [row EXCEPT ![n] = None]
      /\ next' = [next EXCEPT ![n] = 0] /\ count' = [count EXCEPT ![n] = 0]
      /\ call' = [call EXCEPT ![c] = n]
      /\ n \in Deletable /\ Live(n)
  BY DEF DeleteStream, history
<1>1. next[n] \in Nat /\ next[n] >= 1
  BY <1>0 DEF RowsInv, TypeInv
<1>2. TypeInv'
  BY <1>0, <1>1 DEF TypeInv
<1>3. \A x \in Names : Live(x)' <=> (Live(x) /\ x # n)
  BY <1>0 DEF Live, TypeInv
<1>4. RowsInv'
  BY <1>0, <1>3 DEF RowsInv, TypeInv
<1>5. EmptyInv' /\ ClockInv'
  BY <1>0, <1>3 DEF EmptyInv, ClockInv
<1>6. SeqInv'
  BY <1>0, <1>1, <1>3 DEF SeqInv, Fragile, TypeInv
<1>7. WindowInv'
  <2>1. SUFFICES ASSUME NEW x \in Names, Live(x), x # n, narrowest[x] > 0
                 PROVE  row'[x].window >= narrowest[x] /\ Windowed(TableOf(x), narrowest[x])'
    BY <1>0, <1>3 DEF WindowInv
  <2>2. row'[x] = row[x] /\ next'[x] = next[x]
    BY <2>1, <1>0 DEF TypeInv
  <2>3. row[x].window >= narrowest[x] /\ Windowed(TableOf(x), narrowest[x])
    BY <2>1 DEF WindowInv
  <2>4. QED
    BY <2>2, <2>3, <1>0 DEF Windowed, TableOf
<1>8. QED
  BY <1>2, <1>4, <1>5, <1>6, <1>7

-----------------------------------------------------------------------------
(* Publish and the copy of a dead message: one table is replaced.            *)

\* A step that replaces the table of one live stream by a good one, and counts
\* the numbers it issued, keeps the invariant.
LEMMA ReplaceKeeps ==
    ASSUME ConstantsAssumption, IInv, NEW n \in Names, NEW after, NEW lo \in Nat,
           UNCHANGED <<hwm, marked, call, now>>,
           row' \in [Names -> Configs \cup {None}], narrowest' \in [Names -> Nat],
           Live(n)', \A x \in Names \ {n} : row'[x] = row[x] /\ narrowest'[x] = narrowest[x],
           narrowest'[n] > 0 => row'[n].window >= narrowest'[n],
           after \in GoodTable(lo, narrowest'[n]), lo >= 1,
           next' = [next EXCEPT ![n] = after.next],
           count' = [count EXCEPT ![n] = after.count],
           msgs' = [msgs EXCEPT ![n] = after.msgs],
           issued' \in [Names -> Nat], \A x \in Names \ {n} : issued'[x] = issued[x],
           n \notin Fragile => after.next > issued'[n]
    PROVE  IInv'
<1> USE DEF IInv
<1>0. /\ after \in Table /\ IsFiniteSet(after.msgs) /\ after.next >= lo
      /\ \A m \in after.msgs : m.at <= now
      /\ narrowest'[n] > 0 => Windowed(after, narrowest'[n])
  BY DEF GoodTable
<1>1. after.next \in Nat /\ after.count \in Nat /\ after.msgs \in SUBSET Msg
  BY <1>0 DEF Table
<1>2. /\ next' \in [Names -> Nat] /\ count' \in [Names -> Nat] /\ msgs' \in [Names -> SUBSET Msg]
      /\ next'[n] = after.next /\ msgs'[n] = after.msgs
      /\ \A x \in Names \ {n} : next'[x] = next[x] /\ msgs'[x] = msgs[x]
  BY <1>1 DEF TypeInv
<1>3. TypeInv'
  <2>1. \A x \in Names : IsFiniteSet(msgs'[x])
    BY <1>0, <1>2 DEF TypeInv
  <2>2. QED
    BY <1>2, <2>1 DEF TypeInv
<1>4. \A x \in Names \ {n} : Live(x)' <=> Live(x)
  BY DEF Live
<1>5. RowsInv'
  <2>1. next'[n] >= 1
    BY <1>0, <1>1, <1>2
  <2>2. QED
    BY <1>2, <1>4, <2>1 DEF RowsInv
<1>6. EmptyInv'
  BY <1>2, <1>4 DEF EmptyInv
<1>7. SeqInv'
  BY <1>2, <1>4 DEF SeqInv, Fragile
<1>8. ClockInv'
  BY <1>0, <1>2 DEF ClockInv
<1>9. WindowInv'
  <2>1. SUFFICES ASSUME NEW x \in Names, Live(x)', narrowest'[x] > 0
                 PROVE  row'[x].window >= narrowest'[x] /\ Windowed(TableOf(x), narrowest[x])'
    BY DEF WindowInv
  <2>2. CASE x = n
    <3>1. row'[n].window >= narrowest'[n] /\ Windowed(after, narrowest'[n])
      BY <2>1, <2>2, <1>0
    <3>2. Windowed(TableOf(n), narrowest[n])'
      BY <3>1, <1>2 DEF Windowed, TableOf
    <3>3. QED
      BY <2>2, <3>1, <3>2
  <2>3. CASE x # n
    <3>1. row[x].window >= narrowest[x] /\ Windowed(TableOf(x), narrowest[x])
      BY <2>1, <2>3, <1>4 DEF WindowInv
    <3>2. row'[x] = row[x] /\ narrowest'[x] = narrowest[x] /\ next'[x] = next[x]
          /\ msgs'[x] = msgs[x]
      BY <2>3, <1>2
    <3>3. QED
      BY <3>1, <3>2 DEF Windowed, TableOf
  <2>4. QED
    BY <2>2, <2>3
<1>10. QED
  BY <1>3, <1>5, <1>6, <1>7, <1>8, <1>9

\* The table of a live stream is a good one.
LEMMA LiveTableIsGood ==
    ASSUME IInv, NEW n \in Names, Live(n)
    PROVE  TableOf(n) \in GoodTable(next[n], narrowest[n])
<1> USE DEF IInv
<1>1. TableOf(n) \in Table /\ IsFiniteSet(msgs[n]) /\ next[n] \in Nat
  BY DEF TableOf, Table, TypeInv
<1>2. \A m \in msgs[n] : m.at <= now
  BY DEF ClockInv
<1>3. narrowest[n] > 0 => Windowed(TableOf(n), narrowest[n])
  BY DEF WindowInv
<1>4. TableOf(n).msgs = msgs[n] /\ TableOf(n).next = next[n]
  BY DEF TableOf
<1>5. QED
  BY <1>1, <1>2, <1>3, <1>4 DEF GoodTable

LEMMA PublishKeeps ==
    ASSUME ConstantsAssumption, IInv, NEW n \in Names, NEW batch \in Batches,
           PublishBatch(n, batch)
    PROVE  IInv'
<1> DEFINE window == row[n].window
<1> DEFINE after == PublishAll(TableOf(n), batch, window)
<1>0. TypeInv /\ RowsInv /\ SeqInv /\ WindowInv
  BY DEF IInv
<1>1. /\ UNCHANGED <<row, hwm, marked, call, now, narrowest>>
      /\ Live(n)
      /\ next' = [next EXCEPT ![n] = after.next]
      /\ count' = [count EXCEPT ![n] = after.count]
      /\ msgs' = [msgs EXCEPT ![n] = after.msgs]
      /\ issued' = [issued EXCEPT ![n] = IF after.next - 1 > @ THEN after.next - 1 ELSE @]
  BY DEF PublishBatch, LoadStreamConfig, meta
<1>2. window \in Nat /\ next[n] \in Nat /\ next[n] >= 1 /\ narrowest[n] \in Nat
      /\ now \in Nat /\ issued[n] \in Nat
      /\ (narrowest[n] > 0 => window >= narrowest[n])
      /\ row \in [Names -> Configs \cup {None}] /\ narrowest \in [Names -> Nat]
      /\ issued \in [Names -> Nat]
  BY <1>0, <1>1, ConfigFacts DEF TypeInv, RowsInv, WindowInv, Live
<1>3. Len(batch) \in Nat /\ \A i \in 1 .. Len(batch) : batch[i] \in Entries
  <2>1. PICK k \in 1 .. MaxBatch : batch \in [1 .. k -> Entries]
    BY DEF Batches
  <2>2. k \in Nat
    BY <2>1 DEF ConstantsAssumption
  <2>3. batch \in Seq(Entries) /\ Len(batch) = k
    BY <2>1, <2>2
  <2>4. QED
    BY <2>1, <2>2, <2>3
<1> DEFINE Good == GoodTable(next[n], narrowest[n])
<1>4. after \in Good
  <2>1. TableOf(n) \in Good
    BY <1>1, LiveTableIsGood
  <2>2. \A st \in Good, e \in Entries : PublishTx(st, e, window) \in Good
    BY <1>2, PublishIsGood
  <2> HIDE DEF Good, window
  <2>3. QED
    BY <1>3, <2>1, <2>2, BatchStaysIn
<1> HIDE DEF after
<1>5. after \in Table /\ after.next \in Nat /\ after.next >= next[n]
  BY <1>4 DEF GoodTable, Table
<1>6. /\ issued' \in [Names -> Nat]
      /\ \A x \in Names \ {n} : issued'[x] = issued[x]
      /\ issued'[n] = IF after.next - 1 > issued[n] THEN after.next - 1 ELSE issued[n]
  BY <1>1, <1>2, <1>5
<1>7. n \notin Fragile => after.next > issued'[n]
  <2>1. n \notin Fragile => next[n] > issued[n]
    BY <1>0, <1>1 DEF SeqInv
  <2>2. QED
    BY <2>1, <1>2, <1>5, <1>6
<1>8. Live(n)' /\ row'[n].window = window /\ narrowest' = narrowest /\ row' = row
  BY <1>1 DEF Live
<1>9. /\ row' \in [Names -> Configs \cup {None}] /\ narrowest' \in [Names -> Nat]
      /\ \A x \in Names \ {n} : row'[x] = row[x] /\ narrowest'[x] = narrowest[x]
      /\ narrowest'[n] > 0 => row'[n].window >= narrowest'[n]
  BY <1>2, <1>8
<1>10. after \in GoodTable(next[n], narrowest'[n])
  BY <1>4, <1>8
<1> HIDE DEF Good, window
<1>11. QED
  BY <1>1, <1>2, <1>6, <1>7, <1>8, <1>9, <1>10, ReplaceKeeps

LEMMA DeadLetterKeeps ==
    ASSUME ConstantsAssumption, IInv, NEW o \in Names, NEW cfg \in Configs, DeadLetter(o, cfg)
    PROVE  IInv'
<1> DEFINE d == DlqOf[o]
<1> DEFINE ensured == EnsureDLQStream(d, cfg)
<1> DEFINE st == [next |-> ensured.next, count |-> ensured.count, msgs |-> msgs[d]]
<1> DEFINE after == Inserted(st, NoId, NoId)
<1>0. TypeInv /\ RowsInv /\ SeqInv /\ WindowInv /\ ClockInv
  BY DEF IInv
<1>1. d \in Names /\ o \in DOMAIN DlqOf /\ NoId \in Entries
  BY DEF DeadLetter, ConstantsAssumption
<1>2. UNCHANGED <<hwm, marked, call, now>>
  BY DEF DeadLetter, meta
<1>3. CASE UNCHANGED <<table, history>>
  <2>1. UNCHANGED <<row, next, count, msgs, issued, narrowest>>
    BY <1>3 DEF table, history
  <2>2. msgs' \in [Names -> SUBSET Msg] /\ call' \in [Callers -> Names \cup {None}]
    BY <1>0, <1>2, <2>1 DEF TypeInv
  <2>3. /\ \A x \in Names : msgs'[x] \subseteq msgs[x]
        /\ marked' \subseteq marked /\ \A x \in marked \ marked' : msgs'[x] = {}
    BY <1>2, <2>1
  <2>4. QED
    BY <1>2, <2>1, <2>2, <2>3, ShrinkKeeps
<1>4. CASE /\ row' = [row EXCEPT ![d] = ensured.row]
           /\ next' = [next EXCEPT ![d] = after.next]
           /\ count' = [count EXCEPT ![d] = after.count]
           /\ msgs' = [msgs EXCEPT ![d] = after.msgs]
           /\ issued' = [issued EXCEPT ![d] = IF ensured.next > @ THEN ensured.next ELSE @]
           /\ narrowest' = [narrowest EXCEPT ![d] = IF Live(d) THEN @ ELSE 0]
  <2> DEFINE w == IF Live(d) THEN narrowest[d] ELSE 0
  <2> DEFINE lo == IF next[d] = 0 THEN 1 ELSE next[d]
  <2>1. /\ ensured.row = IF Live(d) THEN row[d] ELSE cfg
        /\ ensured.next = lo /\ ensured.count = count[d]
    BY DEF EnsureDLQStream
  <2>2. /\ next[d] \in Nat /\ count[d] \in Nat /\ narrowest[d] \in Nat /\ now \in Nat
        /\ issued[d] \in Nat /\ msgs[d] \in SUBSET Msg /\ IsFiniteSet(msgs[d])
    BY <1>0, <1>1 DEF TypeInv
  <2>3. w \in Nat /\ lo \in Nat /\ lo >= 1
    BY <2>2
  <2>4. (Live(d) => lo = next[d]) /\ (~Live(d) => lo = 1)
    BY <1>0, <1>1, <2>2 DEF RowsInv
  <2>5. ensured.row \in Configs /\ ensured.row # None
    BY <2>1, <1>0, <1>1, ConfigFacts DEF TypeInv, Live
  <2>6. st = [next |-> lo, count |-> count[d], msgs |-> msgs[d]]
    BY <2>1
  <2> HIDE DEF ensured, st
  <2>7. st \in GoodTable(lo, w)
    <3>1. st \in Table /\ IsFiniteSet(st.msgs) /\ st.next >= lo /\ st.msgs = msgs[d]
      BY <2>2, <2>3, <2>6 DEF Table
    <3>2. \A m \in st.msgs : m.at <= now
      BY <1>0, <1>1, <3>1 DEF ClockInv
    <3>3. ASSUME w > 0 PROVE Windowed(st, w)
      <4>1. Live(d) /\ w = narrowest[d] /\ narrowest[d] > 0
        BY <3>3
      <4>2. Windowed(TableOf(d), w)
        BY <4>1, <1>0, <1>1 DEF WindowInv
      <4>3. st = TableOf(d)
        BY <4>1, <2>4, <2>6 DEF TableOf
      <4>4. QED
        BY <4>2, <4>3
    <3> HIDE DEF w, lo
    <3>4. QED
      BY <3>1, <3>2, <3>3 DEF GoodTable
  <2>8. after \in GoodTable(lo, w)
    <3> HIDE DEF w, lo
    <3>1. QED
      BY <1>1, <2>2, <2>3, <2>7, InsertedIsGood
  <2>9. after.next = lo + 1
    <3>1. st \in Table /\ \A m \in st.msgs : m.at <= now
      BY <2>7 DEF GoodTable
    <3> DEFINE new == [seq |-> st.next, id |-> NoId, key |-> NoId, at |-> now]
    <3> DEFINE t == [next |-> st.next + 1, count |-> st.count + 1, msgs |-> st.msgs \cup {new}]
    <3>2. after = t
      BY <3>1, <1>1, <2>2, InsertedFields, Zenon
    <3>3. QED
      BY <3>2, <2>6
  <2> HIDE DEF after
  <2>10. /\ row' \in [Names -> Configs \cup {None}] /\ row'[d] = ensured.row
         /\ \A x \in Names \ {d} : row'[x] = row[x]
    BY <1>0, <1>1, <1>4, <2>5 DEF TypeInv
  <2>11. /\ narrowest' \in [Names -> Nat] /\ narrowest'[d] = w
         /\ \A x \in Names \ {d} : narrowest'[x] = narrowest[x]
    BY <1>0, <1>1, <1>4, <2>2 DEF TypeInv
  <2>12. Live(d)'
    BY <2>5, <2>10 DEF Live
  <2>13. w > 0 => row'[d].window >= w
    <3>1. ASSUME w > 0 PROVE row'[d].window >= w
      <4>1. Live(d) /\ w = narrowest[d] /\ narrowest[d] > 0
        BY <3>1
      <4>2. row[d].window >= narrowest[d]
        BY <4>1, <1>0, <1>1 DEF WindowInv
      <4>3. row'[d] = row[d]
        BY <4>1, <2>1, <2>10
      <4>4. QED
        BY <4>1, <4>2, <4>3
    <3>2. QED
      BY <3>1
  <2>14. /\ issued' \in [Names -> Nat] /\ issued'[d] = IF lo > issued[d] THEN lo ELSE issued[d]
         /\ \A x \in Names \ {d} : issued'[x] = issued[x]
    BY <1>0, <1>1, <1>4, <2>1, <2>2, <2>3 DEF TypeInv
  <2>15. d \notin Fragile => after.next > issued'[d]
    <3>1. SUFFICES ASSUME d \notin Fragile PROVE lo + 1 > issued'[d]
      BY <2>9
    <3>2. d \notin Deletable
      BY <3>1, <1>1 DEF Fragile
    <3>3. lo > issued[d]
      BY <3>1, <3>2, <1>0, <1>1, <2>2, <2>4 DEF SeqInv
    <3>4. QED
      BY <3>3, <2>2, <2>3, <2>14
  <2> HIDE DEF w, lo
  <2>16. QED
    BY <1>1, <1>2, <1>4, <2>3, <2>8, <2>10, <2>11, <2>12, <2>13, <2>14, <2>15, ReplaceKeeps
<1>5. QED
  BY <1>3, <1>4, Zenon DEF DeadLetter

-----------------------------------------------------------------------------
(* The theorems.                                                             *)

LEMMA InitHolds ==
    ASSUME ConstantsAssumption, Init
    PROVE  IInv
<1>0. \A x \in Names : ~Live(x) /\ msgs[x] = {} /\ next[x] = 0 /\ issued[x] = 0 /\ hwm[x] = 0
  BY DEF Init, Live
<1>1. TypeInv
  BY FS_EmptySet DEF Init, TypeInv
<1>2. RowsInv /\ EmptyInv /\ ClockInv /\ WindowInv
  BY <1>0 DEF Init, RowsInv, EmptyInv, ClockInv, WindowInv
<1>3. SeqInv
  BY <1>0 DEF SeqInv
<1>4. QED
  BY <1>1, <1>2, <1>3 DEF IInv

LEMMA NextKeeps ==
    ASSUME ConstantsAssumption, IInv, [Next]_vars
    PROVE  IInv'
<1>1. CASE \E n \in Names, cfg \in Configs : CreateStream(n, cfg)
  BY <1>1, CreateKeeps
<1>2. CASE \E n \in Names, cfg \in Configs : UpdateStream(n, cfg)
  BY <1>2, UpdateKeeps
<1>3. CASE \E n \in Names, cfg \in Configs : DeadLetter(n, cfg)
  BY <1>3, DeadLetterKeeps
<1>4. CASE \E n \in Names : SweepDedup(n)
  BY <1>4, SweepKeeps
<1>5. CASE \E n \in Names : \E batch \in Batches : PublishBatch(n, batch)
  BY <1>5, PublishKeeps
<1>6. CASE \E c \in Callers : \E n \in Names : DeleteStream(c, n)
  BY <1>6, DeleteKeeps
<1>7. CASE (\E c \in Callers : CallerReaps(c)) \/ ReapResume \/ FinishInterruptedReaps
  BY <1>7, ReapersKeep
<1>8. CASE (\E c \in Callers : CallerGivesUp(c)) \/ Crash \/ Opened \/ UNCHANGED vars
  BY <1>8, EndsKeep
<1>9. CASE Tick
  BY <1>9, TickKeeps
<1>10. QED
  BY <1>1, <1>2, <1>3, <1>4, <1>5, <1>6, <1>7, <1>8, <1>9 DEF Next, Recovery

\* The invariant holds in every behaviour, whoever reaps, gives up or crashes.
THEOREM InductiveInvariant == Spec => []IInv
<1>1. Init => IInv
  BY ConstantsAssumption, InitHolds
<1>2. IInv /\ [Next]_vars => IInv'
  BY ConstantsAssumption, NextKeeps
<1>3. QED
  BY <1>1, <1>2, PTL DEF Spec

\* For every name that is not a deletable dead-letter stream, the counter of a
\* live stream is above every number ever handed out under that name.
DurableSeqNeverReused ==
    \A n \in Names \ Fragile : Live(n) => next[n] > issued[n]

\* Numbers are not handed out twice under a name, across any sequence of
\* deletions and re-creations, crashes and interrupted reaps, unless the name
\* is a dead-letter stream that a caller deletes (allocSeq, resumeSeq,
\* ensureDLQStream).
THEOREM NumbersAreUnique == Spec => []DurableSeqNeverReused
<1>1. IInv => DurableSeqNeverReused
  BY DEF IInv, SeqInv, DurableSeqNeverReused
<1>2. QED
  BY <1>1, InductiveInvariant, PTL

\* Where no dead-letter stream is deleted, that is every name.
THEOREM NumbersAreNotReused ==
    ASSUME Fragile = {}
    PROVE  Spec => []SeqNeverReused
<1>1. IInv => SeqNeverReused
  BY DEF IInv, SeqInv, SeqNeverReused
<1>2. QED
  BY <1>1, InductiveInvariant, PTL

\* A retry with the same message id is stored once per window, in streams of
\* every kind and through updates of the window: the keys that the sweep clears
\* and the ones that a reap takes are never keys a retry still needs
\* (publishTxWithConfig, findDedupHit, sweepDedupCmd).
THEOREM RetriesStoreOnce == Spec => []RetryStoresOnce
<1>1. IInv => RetryStoresOnce
  <2>1. SUFFICES ASSUME IInv, NEW n \in Names, Live(n), narrowest[n] > 0,
                        NEW m \in msgs[n], NEW o \in msgs[n],
                        m.id = o.id, m.id # NoId, m.seq < o.seq
                 PROVE  o.at - m.at > narrowest[n]
    BY DEF RetryStoresOnce
  <2>2. Windowed(TableOf(n), narrowest[n])
    BY <2>1 DEF IInv, WindowInv
  <2>3. QED
    BY <2>1, <2>2 DEF Windowed, TableOf
<1>2. QED
  BY <1>1, InductiveInvariant, PTL

\* A step gives a row to a name without one only when its marker is gone, or
\* when it provisions a dead-letter stream.
LEMMA RowsAppear ==
    ASSUME ConstantsAssumption, TypeInv, [Next]_vars, NEW n \in Names,
           row[n] = None, row'[n] # None
    PROVE  n \notin marked \/ \E o \in DOMAIN DlqOf : n = DlqOf[o]
<1>1. CASE \E x \in Names, cfg \in Configs : CreateStream(x, cfg)
  <2>1. PICK x \in Names, cfg \in Configs : CreateStream(x, cfg)
    BY <1>1
  <2>2. row' = [row EXCEPT ![x] = cfg] /\ x \notin marked
    BY <2>1 DEF CreateStream, RefuseDuringReap
  <2>3. x = n
    BY <2>2 DEF TypeInv
  <2>4. QED
    BY <2>2, <2>3
<1>2. CASE \E x \in Names, cfg \in Configs : UpdateStream(x, cfg)
  <2>1. PICK x \in Names, cfg \in Configs : UpdateStream(x, cfg)
    BY <1>2
  <2>2. row' = [row EXCEPT ![x] = cfg] /\ row[x] # None
    BY <2>1 DEF UpdateStream, Live
  <2>3. QED
    BY <2>2 DEF TypeInv
<1>3. CASE \E o \in Names, cfg \in Configs : DeadLetter(o, cfg)
  <2>1. PICK o \in Names, cfg \in Configs : DeadLetter(o, cfg)
    BY <1>3
  <2>2. o \in DOMAIN DlqOf /\ \A x \in Names : x # DlqOf[o] => row'[x] = row[x]
    BY <2>1 DEF DeadLetter, table, TypeInv
  <2>3. QED
    BY <2>2
<1>4. CASE \E c \in Callers : \E x \in Names : DeleteStream(c, x)
  BY <1>4 DEF DeleteStream, TypeInv
<1>5. CASE UNCHANGED row
  BY <1>5
<1>6. QED
  <2>1. CASE \E x \in Names : SweepDedup(x) \/ \E batch \in Batches : PublishBatch(x, batch)
    BY <2>1, <1>5 DEF SweepDedup, PublishBatch
  <2>2. CASE \/ \E c \in Callers : CallerReaps(c) \/ CallerGivesUp(c)
             \/ ReapResume \/ Crash \/ Recovery \/ Tick \/ UNCHANGED vars
    BY <2>2, <1>5 DEF CallerReaps, CallerGivesUp, ReapResume, Crash, Recovery, Tick,
                      FinishInterruptedReaps, Opened, table, vars
  <2>3. QED
    BY <1>1, <1>2, <1>3, <1>4, <2>1, <2>2 DEF Next

\* A name that is not a deletable dead-letter stream starts empty.
DurableStartsEmpty ==
    [][\A n \in Names \ Fragile : (row[n] = None /\ row'[n] # None) => msgs[n] = {}]_vars

LEMMA AppearsEmpty ==
    ASSUME ConstantsAssumption, IInv, [Next]_vars, NEW n \in Names \ Fragile,
           row[n] = None, row'[n] # None
    PROVE  msgs[n] = {}
<1>1. TypeInv /\ EmptyInv
  BY DEF IInv
<1>2. n \notin marked \/ \E o \in DOMAIN DlqOf : n = DlqOf[o]
  BY <1>1, RowsAppear
<1>3. n \notin marked
  BY <1>1, <1>2 DEF EmptyInv, Fragile
<1>4. QED
  BY <1>1, <1>3 DEF EmptyInv, Live

\* Whoever was reaping the deleted stream, and wherever it was cut off, the
\* stream that takes its name finds no message of it, unless it is a
\* dead-letter stream that a caller deletes (refuseDuringReap, reapChunkCmd).
THEOREM CreatedEmpty == Spec => DurableStartsEmpty
<1> DEFINE Step == \A n \in Names \ Fragile : (row[n] = None /\ row'[n] # None) => msgs[n] = {}
<1>1. IInv /\ [Next]_vars => [Step]_vars
  BY ConstantsAssumption, AppearsEmpty
<1>2. QED
  BY <1>1, InductiveInvariant, PTL DEF Spec, DurableStartsEmpty

\* Where no dead-letter stream is deleted, that is every name.
THEOREM StreamsStartEmpty ==
    ASSUME Fragile = {}
    PROVE  Spec => StartsEmpty
<1> DEFINE Step == \A n \in Names : (row[n] = None /\ row'[n] # None) => msgs[n] = {}
<1>1. IInv /\ [Next]_vars => [Step]_vars
  BY ConstantsAssumption, AppearsEmpty
<1>2. QED
  BY <1>1, InductiveInvariant, PTL DEF Spec, StartsEmpty
=============================================================================
