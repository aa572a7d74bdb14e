--------------------------- MODULE DeliveryProofs ---------------------------
(***************************************************************************)
(* Proofs about Delivery, for every number of consumers, messages and      *)
(* configurations.  First what the cuts of SeqSets return; then the types; *)
(* at-least-once delivery (NoLoss, NoResurrection, FreshRowsAreNewest and  *)
(* RowsPinMessages); and the fences: which token can still settle a row,   *)
(* what the answer to a late one is worth, that planner and statement      *)
(* agree, and that delivery stops at max_deliver.                          *)
(***************************************************************************)
EXTENDS Delivery, TLAPS, FiniteSetTheorems, WellFoundedInduction, NaturalsInduction

-----------------------------------------------------------------------------
(* The cuts of SeqSets.                                                      *)

\* A non-empty set of naturals has a least element, and Min picks it.
LEMMA MinIsLeast ==
    ASSUME NEW S, S \subseteq Nat, S # {}
    PROVE  Min(S) \in S /\ \A y \in S : Min(S) <= y
<1> DEFINE R == {p \in Nat \X Nat : p[1] < p[2]}
<1>1. IsWellFoundedOn(R, Nat)
  <2>1. OpToRel(<, Nat) = R
    BY Zenon DEF OpToRel
  <2>2. QED
    BY <2>1, NatLessThanWellFounded, Zenon
<1> HIDE DEF R
<1>2. \E x \in S : \A y \in S : ~ (<<y, x>> \in R)
  BY <1>1, WFMin, Zenon
<1>3. \E x \in S : \A y \in S : x <= y
  <2>1. PICK x \in S : \A y \in S : ~ (<<y, x>> \in R)
    BY <1>2
  <2>2. ASSUME NEW y \in S PROVE x <= y
    <3>1. ~ (<<y, x>> \in R)
      BY <2>1
    <3>2. x \in Nat /\ y \in Nat /\ (y < x => <<y, x>> \in R)
      BY DEF R
    <3>3. QED
      BY <3>1, <3>2
  <2>3. QED
    BY <2>2
<1>4. QED
  BY <1>3 DEF Min

\* A non-empty bounded set of naturals has a greatest element, Max picks it.
LEMMA MaxIsGreatest ==
    ASSUME NEW n \in Nat, NEW S, S \subseteq 0 .. n, S # {}
    PROVE  Max(S) \in S /\ \A y \in S : y <= Max(S)
<1> DEFINE T == {x \in 0 .. n : n - x \in S}
<1>1. T \subseteq Nat /\ T # {}
  <2>1. PICK s \in S : TRUE
    OBVIOUS
  <2>2. n - s \in 0 .. n /\ n - (n - s) = s
    BY <2>1
  <2>3. n - s \in T
    BY <2>1, <2>2
  <2>4. QED
    BY <2>3
<1>2. Min(T) \in T /\ \A y \in T : Min(T) <= y
  BY <1>1, MinIsLeast
<1>3. n - Min(T) \in S /\ Min(T) \in 0 .. n
  BY <1>2
<1>4. ASSUME NEW y \in S PROVE y <= n - Min(T)
  <2>1. n - y \in 0 .. n /\ n - (n - y) = y
    BY <1>4
  <2>2. n - y \in T
    BY <1>4, <2>1
  <2>3. Min(T) <= n - y
    BY <2>2, <1>2
  <2>4. QED
    BY <2>3, <1>3, <1>4
<1>5. \E x \in S : \A y \in S : x >= y
  BY <1>3, <1>4
<1>6. QED
  BY <1>5 DEF Max
-----------------------------------------------------------------------------
(* Cuts of a finite set of naturals.                                         *)

\* A subset of 0 .. n is finite and its cardinality a natural number that
\* grows with the set.
LEMMA CutCardinality ==
    ASSUME NEW n \in Nat, NEW S, S \subseteq 0 .. n, NEW T, T \subseteq S
    PROVE  /\ IsFiniteSet(S) /\ Cardinality(S) \in Nat
           /\ IsFiniteSet(T) /\ Cardinality(T) \in Nat
           /\ Cardinality(T) <= Cardinality(S)
<1>1. IsFiniteSet(0 .. n)
  BY FS_Interval
<1>2. IsFiniteSet(S)
  BY <1>1, FS_Subset
<1>3. IsFiniteSet(T) /\ Cardinality(T) <= Cardinality(S)
  BY <1>2, FS_Subset
<1>4. QED
  BY <1>2, <1>3, FS_CardinalityType

\* LIMIT on an ascending order keeps a prefix.
LEMMA OldestIsPrefix ==
    ASSUME NEW n \in Nat, NEW S, S \subseteq 0 .. n, NEW k \in Nat
    PROVE  IsPrefix(Oldest(S, k), S)
<1> SUFFICES ASSUME NEW p \in Oldest(S, k), NEW s \in S, s < p
             PROVE  s \in Oldest(S, k)
  BY DEF IsPrefix, Oldest
<1>1. {t \in S : t <= s} \subseteq {t \in S : t <= p}
  <2>1. p \in Nat /\ s \in Nat /\ \A t \in S : t \in Nat
    BY DEF Oldest
  <2>2. ASSUME NEW t \in S, t <= s PROVE t <= p
    BY <2>1, <2>2
  <2>3. QED
    BY <2>2
<1>2. Cardinality({t \in S : t <= s}) <= Cardinality({t \in S : t <= p})
      /\ Cardinality({t \in S : t <= s}) \in Nat
      /\ Cardinality({t \in S : t <= p}) \in Nat
  <2>1. {t \in S : t <= p} \subseteq 0 .. n
    OBVIOUS
  <2>2. QED
    BY <1>1, <2>1, CutCardinality
<1>3. QED
  BY <1>2 DEF Oldest

\* LIMIT on a descending order keeps a suffix.
LEMMA NewestIsSuffix ==
    ASSUME NEW n \in Nat, NEW S, S \subseteq 0 .. n, NEW k \in Nat,
           NEW p \in Newest(S, k), NEW s \in S, p < s
    PROVE  s \in Newest(S, k)
<1>1. {t \in S : t >= s} \subseteq {t \in S : t >= p}
  <2>1. p \in Nat /\ s \in Nat /\ \A t \in S : t \in Nat
    BY DEF Newest
  <2>2. ASSUME NEW t \in S, t >= s PROVE t >= p
    BY <2>1, <2>2
  <2>3. QED
    BY <2>2
<1>2. Cardinality({t \in S : t >= s}) <= Cardinality({t \in S : t >= p})
      /\ Cardinality({t \in S : t >= s}) \in Nat
      /\ Cardinality({t \in S : t >= p}) \in Nat
  <2>1. {t \in S : t >= p} \subseteq 0 .. n
    OBVIOUS
  <2>2. QED
    BY <1>1, <2>1, CutCardinality
<1>3. QED
  BY <1>2 DEF Newest

\* A query that returns fewer than LIMIT rows returned all there are, and none
\* returns more.
LEMMA ShortCutIsAll ==
    ASSUME NEW n \in Nat, NEW S, S \subseteq 0 .. n, NEW k \in Nat \ {0},
           Cardinality(Oldest(S, k)) # k
    PROVE  Oldest(S, k) = S
<1> DEFINE O == Oldest(S, k)
           Rest == S \ O
<1>1. O \subseteq S /\ O \subseteq 0 .. n
  BY DEF Oldest
<1>2. Cardinality(O) <= k
  <2>1. CASE O = {}
    BY <2>1, FS_EmptySet
  <2>2. CASE O # {}
    <3>1. Max(O) \in O /\ \A y \in O : y <= Max(O)
      BY <2>2, <1>1, MaxIsGreatest
    <3>2. O \subseteq {t \in S : t <= Max(O)}
      BY <3>1, <1>1
    <3>3. Cardinality({t \in S : t <= Max(O)}) <= k
      BY <3>1 DEF Oldest
    <3>4. {t \in S : t <= Max(O)} \subseteq 0 .. n
      OBVIOUS
    <3>5. /\ Cardinality(O) <= Cardinality({t \in S : t <= Max(O)})
          /\ Cardinality(O) \in Nat
          /\ Cardinality({t \in S : t <= Max(O)}) \in Nat
      BY <3>2, <3>4, CutCardinality
    <3>6. QED
      BY <3>3, <3>5
  <2>3. QED
    BY <2>1, <2>2
<1>3. SUFFICES ASSUME Rest # {} PROVE FALSE
  BY <1>1
<1>4. Min(Rest) \in Rest /\ \A y \in Rest : Min(Rest) <= y
  <2>1. Rest \subseteq Nat
    <3>1. \A t \in 0 .. n : t \in Nat
      OBVIOUS
    <3>2. QED
      BY <3>1, Zenon
  <2> HIDE DEF Rest
  <2>2. QED
    BY <1>3, <2>1, MinIsLeast
<1> DEFINE Below == {t \in S : t <= Min(Rest)}
<1>5. Below \subseteq O \cup {Min(Rest)}
  <2>1. SUFFICES ASSUME NEW t \in S, t <= Min(Rest), t \notin O PROVE t = Min(Rest)
    OBVIOUS
  <2>2. t \in Rest
    BY <2>1
  <2>3. Min(Rest) \in Nat /\ t \in Nat /\ Min(Rest) <= t
    <3>1. Min(Rest) \in S
      BY <1>4
    <3>2. \A x \in S : x \in Nat
      OBVIOUS
    <3>3. QED
      BY <3>1, <3>2, <2>2, <1>4, Zenon
  <2>4. QED
    BY <2>1, <2>3
<1>6. IsFiniteSet(O) /\ Cardinality(O) \in Nat
  BY <1>1, CutCardinality
<1>7. IsFiniteSet(O \cup {Min(Rest)}) /\ Cardinality(O \cup {Min(Rest)}) = Cardinality(O) + 1
  BY <1>4, <1>6, FS_AddElement
<1>8. Cardinality(Below) <= Cardinality(O) + 1 /\ Cardinality(Below) \in Nat
  <2> HIDE DEF Below, O, Rest
  <2>1. IsFiniteSet(Below) /\ Cardinality(Below) <= Cardinality(O \cup {Min(Rest)})
    BY <1>5, <1>7, FS_Subset
  <2>2. QED
    BY <2>1, <1>7, FS_CardinalityType
<1>9. Cardinality(Below) <= k
  BY <1>2, <1>6, <1>8
<1>10. Min(Rest) \in O
  BY <1>4, <1>9 DEF Oldest
<1>11. QED
  BY <1>4, <1>10

-----------------------------------------------------------------------------
(* The tables.                                                               *)

\* A row of the deliveries table is a Row, whoever's it is.
LEMMA RowType ==
    ASSUME TypeOK, NEW k \in Keys
    PROVE  /\ k = <<k[1], k[2]>> /\ k[1] \in Consumers /\ k[2] \in Seqs
           /\ k[2] \in DOMAIN rows[k[1]]
           /\ RowOf(k) = rows[k[1]][k[2]]
           /\ RowOf(k) \in Row
  BY DEF TypeOK, AreTables, IsTable, Keys, RowOf

\* UpdateRows keeps the table one of rows when what it writes are rows.
LEMMA UpdateRowsType ==
    ASSUME TypeOK, NEW gone, NEW new,
           \A c \in Consumers : \A s \in DOMAIN rows[c] :
             <<c, s>> \in DOMAIN new => new[<<c, s>>] \in Row,
           UpdateRows(gone, new)
    PROVE  AreTables(rows', Seqs, Row)
<1> DEFINE D(c) == {t \in DOMAIN rows[c] : <<c, t>> \notin gone}
           N(c, s) == IF <<c, s>> \in DOMAIN new THEN new[<<c, s>>] ELSE rows[c][s]
<1>1. rows' = [c \in Consumers |-> [s \in D(c) |-> N(c, s)]]
  BY DEF UpdateRows
<1>2. ASSUME NEW c \in Consumers, NEW s \in D(c) PROVE s \in Seqs /\ N(c, s) \in Row
  BY <1>2 DEF TypeOK, AreTables, IsTable
<1> HIDE DEF D, N
<1>3. ASSUME NEW c \in Consumers
      PROVE  rows'[c] = [s \in D(c) |-> N(c, s)]
  BY <1>1, <1>3
<1>4. ASSUME NEW c \in Consumers
      PROVE  DOMAIN rows'[c] \subseteq Seqs /\ rows'[c] \in [DOMAIN rows'[c] -> Row]
  BY <1>2, <1>3, <1>4
<1>5. rows' = [c \in Consumers |-> rows'[c]]
  BY <1>1
<1>6. QED
  BY <1>4, <1>5 DEF AreTables, IsTable

\* RecordOutcomes keeps the history one of outcomes.
LEMMA RecordOutcomesType ==
    ASSUME TypeOK, NEW acked, NEW dead, RecordOutcomes(acked, dead)
    PROVE  AreTables(settled', Seqs, Outcomes)
<1> DEFINE D(c) == DOMAIN settled[c] \cup {t \in Seqs : <<c, t>> \in acked \cup dead}
           N(c, s) == IF <<c, s>> \in dead THEN DeadOutcome(<<c, s>>)
                      ELSE IF <<c, s>> \in acked THEN "acked" ELSE settled[c][s]
<1>1. settled' = [c \in Consumers |-> [s \in D(c) |-> N(c, s)]]
  BY DEF RecordOutcomes
<1>2. ASSUME NEW c \in Consumers, NEW s \in D(c) PROVE s \in Seqs /\ N(c, s) \in Outcomes
  <2>1. DeadOutcome(<<c, s>>) \in Outcomes
    BY DEF DeadOutcome, Outcomes
  <2>2. s \in Seqs /\ (s \in DOMAIN settled[c] => settled[c][s] \in Outcomes)
    BY <1>2 DEF TypeOK, AreTables, IsTable
  <2>3. "acked" \in Outcomes
    BY DEF Outcomes
  <2>4. QED
    BY <1>2, <2>1, <2>2, <2>3
<1> HIDE DEF D, N
<1>3. ASSUME NEW c \in Consumers
      PROVE  settled'[c] = [s \in D(c) |-> N(c, s)]
  BY <1>1, <1>3
<1>4. ASSUME NEW c \in Consumers
      PROVE  DOMAIN settled'[c] \subseteq Seqs /\ settled'[c] \in [DOMAIN settled'[c] -> Outcomes]
  BY <1>2, <1>3, <1>4
<1>5. settled' = [c \in Consumers |-> settled'[c]]
  BY <1>1
<1>6. QED
  BY <1>4, <1>5 DEF AreTables, IsTable

\* A released or extended row is a row again.
LEMMA ReleasedRowType ==
    ASSUME NEW r \in Row, NEW delay \in Nat
    PROVE  ReleasedRow(r, delay) \in Row
  BY DEF ReleasedRow, Row

\* An extended lease is a row.
LEMMA ExtendedRowType ==
    ASSUME NEW r \in Row
    PROVE  ExtendedRow(r) \in Row
  BY ConstantsAssumption DEF ExtendedRow, Row

\* A claim turns a row into a row.
LEMMA ClaimedRowType ==
    ASSUME NEW r \in Row
    PROVE  ClaimedRow(r) \in Row
<1>1. AckWait \in Nat /\ MaxAckWait \in Nat
  BY ConstantsAssumption
<1>2. QED
  BY <1>1 DEF ClaimedRow, Row

-----------------------------------------------------------------------------
(* Fetch.                                                                    *)

\* What a top-up looks at are sequence numbers of live messages.
LEMMA WindowType ==
    ASSUME TypeOK, NEW c \in DOMAIN cons
    PROVE  /\ MaxSeq \in Nat /\ Seqs \subseteq 0 .. MaxSeq
           /\ Live \subseteq Seqs
           /\ Window(c) \subseteq Live
           /\ Matching(c) \subseteq Window(c)
           /\ Declined(c) \subseteq Matching(c)
           /\ Admitted(c) \subseteq Matching(c)
<1>1. MaxSeq \in Nat
  BY ConstantsAssumption
<1>2. Seqs \subseteq 0 .. MaxSeq
  BY <1>1 DEF Seqs
<1>3. Live \subseteq Seqs
  BY DEF TypeOK, IsTable, Live
<1>4. Window(c) \subseteq Live
  BY DEF Window, Oldest
<1>5. Matching(c) \subseteq Window(c) /\ Declined(c) \subseteq Matching(c)
  BY DEF Matching, Declined
<1>6. Admitted(c) \subseteq Matching(c)
  BY DEF Admitted
<1>7. QED
  BY <1>1, <1>2, <1>3, <1>4, <1>5, <1>6

\* Where the scan stops, case by case.
LEMMA NextCursorCases ==
    ASSUME TypeOK, NEW c \in DOMAIN cons
    PROVE  \E target :
             /\ NextCursor(c) = IF target < cons[c].cursor THEN cons[c].cursor ELSE target
             /\ \/ /\ Declined(c) # {}
                   /\ target \in Declined(c)
                   /\ \A s \in Declined(c) : target <= s
                \/ /\ Declined(c) = {}
                   /\ \E m \in Window(c) : target = m + 1 /\ \A s \in Window(c) : s <= m
                \/ /\ Declined(c) = {}
                   /\ Cardinality(Window(c)) # ScanLimit
                   /\ target = next
<1> DEFINE full == Declined(c) = {} /\ Cardinality(Window(c)) = ScanLimit
           target == CASE Declined(c) # {} -> Min(Declined(c))
                       [] full -> Max(Window(c)) + 1
                       [] OTHER -> next
<1>1. NextCursor(c) = IF target < cons[c].cursor THEN cons[c].cursor ELSE target
  BY DEF NextCursor
<1>2. CASE Declined(c) # {}
  <2>1. target = Min(Declined(c))
    BY <1>2
  <2>2. Declined(c) \subseteq Nat
    BY WindowType
  <2>3. Min(Declined(c)) \in Declined(c) /\ \A s \in Declined(c) : Min(Declined(c)) <= s
    BY <1>2, <2>2, MinIsLeast
  <2>4. QED
    BY <1>1, <1>2, <2>1, <2>3
<1>3. CASE full
  <2>1. target = Max(Window(c)) + 1
    BY <1>3
  <2>2. ScanLimit # 0
    BY ConstantsAssumption
  <2>3. Window(c) # {}
    BY <1>3, <2>2, FS_EmptySet
  <2>4. MaxSeq \in Nat /\ Window(c) \subseteq 0 .. MaxSeq
    BY WindowType
  <2>5. Max(Window(c)) \in Window(c) /\ \A s \in Window(c) : s <= Max(Window(c))
    BY <2>3, <2>4, MaxIsGreatest
  <2>6. QED
    BY <1>1, <1>3, <2>1, <2>5
<1>4. CASE Declined(c) = {} /\ ~full
  <2>1. target = next
    BY <1>4
  <2>2. QED
    BY <1>1, <1>4, <2>1
<1>5. QED
  BY <1>2, <1>3, <1>4

\* The cursor stays a sequence number.
LEMMA CursorType ==
    ASSUME TypeOK, NEW c \in DOMAIN cons
    PROVE  /\ cons[c].cursor \in Nat \ {0}
           /\ NextCursor(c) \in Nat \ {0}
           /\ CursorAfterFetch(c) \in Nat \ {0}
<1>1. cons[c] \in ConsumerRow /\ next \in Nat \ {0}
  BY ConstantsAssumption DEF TypeOK, IsTable
<1>2. cons[c].cursor \in Nat \ {0}
  BY <1>1 DEF ConsumerRow
<1>3. PICK target :
        /\ NextCursor(c) = IF target < cons[c].cursor THEN cons[c].cursor ELSE target
        /\ \/ target \in Declined(c)
           \/ \E m \in Window(c) : target = m + 1
           \/ target = next
  BY NextCursorCases
<1>4. Declined(c) \subseteq Seqs /\ Window(c) \subseteq Seqs
  BY WindowType
<1>5. target \in Nat \ {0}
  BY <1>1, <1>3, <1>4, ConstantsAssumption DEF Seqs
<1>6. NextCursor(c) \in Nat \ {0}
  BY <1>2, <1>3, <1>5
<1>7. QED
  BY <1>2, <1>6 DEF CursorAfterFetch

\* The rows a fetch works on are rows.
LEMMA ToppedUpType ==
    ASSUME TypeOK, NEW c \in DOMAIN cons
    PROVE  /\ c \in Consumers
           /\ DOMAIN ToppedUp(c) = DOMAIN rows[c] \cup Admitted(c)
           /\ DOMAIN ToppedUp(c) \subseteq Seqs
           /\ \A s \in DOMAIN ToppedUp(c) : ToppedUp(c)[s] \in Row
<1>1. c \in Consumers /\ cons[c] \in ConsumerRow
  BY DEF TypeOK, IsTable
<1>2. DOMAIN rows[c] \subseteq Seqs /\ \A s \in DOMAIN rows[c] : rows[c][s] \in Row
  BY <1>1 DEF TypeOK, AreTables, IsTable
<1>3. FreshRow(cons[c].gen) \in Row
  BY <1>1 DEF FreshRow, Row, ConsumerRow
<1>4. Admitted(c) \subseteq Seqs
  BY WindowType
<1>5. QED
  BY <1>1, <1>2, <1>3, <1>4 DEF ToppedUp

-----------------------------------------------------------------------------
(* Every action keeps the types.                                             *)

\* Publish: the new message is within MaxSeq and next moves by one.
LEMMA PublishType ==
    ASSUME TypeOK, NEW subject \in Subjects, Publish(subject)
    PROVE  TypeOK'
<1>1. MaxSeq \in Nat
  BY ConstantsAssumption
<1>2. next \in 1 .. MaxSeq /\ next' \in 1 .. MaxSeq + 1 /\ next \in Seqs
  BY <1>1 DEF Publish, TypeOK, Seqs
<1>3. IsTable(msgs', Seqs, Subjects)
  BY <1>2 DEF Publish, TypeOK, IsTable, Live
<1>4. QED
  BY <1>2, <1>3 DEF Publish, TypeOK, ghosts

\* Fetch: the rows admitted and claimed, the cursor and the new tokens are typed.
LEMMA FetchType ==
    ASSUME TypeOK, NEW c \in Consumers, Fetch(c)
    PROVE  TypeOK'
<1>1. c \in DOMAIN cons
  BY DEF Fetch
<1>2. PICK claimed \in Claims(c) :
         /\ rows' = [rows EXCEPT ![c] =
                       [s \in DOMAIN ToppedUp(c) |->
                          IF s \in claimed THEN ClaimedRow(ToppedUp(c)[s])
                          ELSE ToppedUp(c)[s]]]
         /\ cons' = [cons EXCEPT ![c].cursor = CursorAfterFetch(c)]
         /\ tokens' = tokens \cup {TokenFor(c, s) : s \in claimed}
         /\ passed' = [passed EXCEPT ![c] =
                         (@ \ Admitted(c)) \cup
                         {s \in Window(c) \ Matching(c) : s < CursorAfterFetch(c)}]
  BY DEF Fetch
<1>3. claimed \subseteq DOMAIN ToppedUp(c)
  BY DEF Claims, Claimable
<1>4. AreTables(rows', Seqs, Row)
  <2> DEFINE new == [s \in DOMAIN ToppedUp(c) |->
                       IF s \in claimed THEN ClaimedRow(ToppedUp(c)[s]) ELSE ToppedUp(c)[s]]
  <2>1. IsTable(new, Seqs, Row)
    BY <1>1, ToppedUpType, ClaimedRowType DEF IsTable
  <2> HIDE DEF new
  <2>2. rows' = [rows EXCEPT ![c] = new]
    BY <1>2 DEF new
  <2>3. QED
    BY <2>1, <2>2 DEF TypeOK, AreTables
<1>5. IsTable(cons', Consumers, ConsumerRow)
  <2>1. CursorAfterFetch(c) \in Nat \ {0}
    BY <1>1, CursorType
  <2>2. [cons[c] EXCEPT !.cursor = CursorAfterFetch(c)] \in ConsumerRow
    BY <1>1, <2>1 DEF TypeOK, IsTable, ConsumerRow
  <2>3. QED
    BY <1>1, <1>2, <2>2 DEF TypeOK, IsTable
<1>6. tokens' \subseteq Token
  <2>1. ASSUME NEW s \in claimed PROVE TokenFor(c, s) \in Token
    <3>1. s \in Seqs /\ ToppedUp(c)[s] \in Row
      BY <1>1, <1>3, ToppedUpType
    <3>2. ToppedUp(c)[s].attempts + 1 \in Nat
      BY <3>1 DEF Row
    <3>3. cons[c].gen \in Nat /\ epoch[c] \in Nat
      BY <1>1 DEF TypeOK, IsTable, ConsumerRow
    <3>4. QED
      BY <3>1, <3>2, <3>3 DEF TokenFor, Token
  <2>2. QED
    BY <1>2, <2>1 DEF TypeOK
<1>7. passed' \in [Consumers -> SUBSET Seqs]
  BY <1>1, <1>2, WindowType DEF TypeOK
<1>8. QED
  BY <1>4, <1>5, <1>6, <1>7 DEF TypeOK, Fetch

\* Settle: a request only drops rows, or releases and extends rows that are there.
LEMMA SettleType ==
    ASSUME TypeOK, NEW items \in SettleRequests, Settle(items)
    PROVE  TypeOK'
<1>1. CASE SettleCommits(items)
  <2> DEFINE acked == KeysOf(items, Acting(items, {"ack"}))
             dead  == KeysOf(items, Acting(items, {"dead"}))
             moved == Acting(items, {"release", "extend"})
             new   == [k \in KeysOf(items, moved) |->
                         SettledRow(RowOf(k),
                           items[CHOOSE i \in moved : KeyOf(items[i].token) = k].req)]
  <2>1. UpdateRows(acked \cup dead, new) /\ RecordOutcomes(acked, dead)
    BY <1>1 DEF SettleCommits
  <2>2. ASSUME NEW c \in Consumers, NEW s \in DOMAIN rows[c], <<c, s>> \in DOMAIN new
        PROVE  new[<<c, s>>] \in Row
    <3> DEFINE j == CHOOSE i \in moved : KeyOf(items[i].token) = <<c, s>>
    <3>1. \E i \in moved : KeyOf(items[i].token) = <<c, s>>
      BY <2>2 DEF KeysOf
    <3>2. j \in moved
      BY <3>1
    <3>3. j \in DOMAIN items
      BY <3>2 DEF Acting
    <3>4. items[j].req.delay \in Nat
      <4>1. items[j].req \in Requests
        BY <3>3 DEF SettleRequests
      <4>2. QED
        BY <4>1, ConstantsAssumption DEF Requests
    <3>5. RowOf(<<c, s>>) = rows[c][s] /\ rows[c][s] \in Row
      BY <2>2 DEF RowOf, TypeOK, AreTables, IsTable
    <3> HIDE DEF j
    <3>6. SettledRow(RowOf(<<c, s>>), items[j].req) \in Row
      <4>1. RowOf(<<c, s>>) \in Row /\ RowOf(<<c, s>>).visibleIn \in Nat
        BY <3>5 DEF Row
      <4>2. QED
        BY <3>4, <4>1, ReleasedRowType, ExtendedRowType DEF SettledRow
    <3>7. QED
      BY <2>2, <3>6 DEF j
  <2> HIDE DEF acked, dead, moved, new
  <2>3. AreTables(rows', Seqs, Row)
    BY <2>1, <2>2, UpdateRowsType
  <2>4. AreTables(settled', Seqs, Outcomes)
    BY <2>1, RecordOutcomesType
  <2>5. QED
    BY <1>1, <2>3, <2>4 DEF SettleCommits, TypeOK
<1>2. CASE SettleAborts(items)
  BY <1>2 DEF SettleAborts, TypeOK, ghosts
<1>3. QED
  BY <1>1, <1>2 DEF Settle

\* Tick: the time left of a row never goes below zero.
LEMMA TickType ==
    ASSUME TypeOK, Tick
    PROVE  TypeOK'
<1> DEFINE new == [k \in Keys |-> [RowOf(k) EXCEPT !.visibleIn = Dec(@), !.holdLeft = Dec(@)]]
<1>1. UpdateRows({}, new)
  BY DEF Tick
<1>2. ASSUME NEW k \in Keys PROVE new[k] \in Row
  <2>1. RowOf(k) \in Row
    BY <1>2, RowType
  <2>2. Dec(RowOf(k).visibleIn) \in Nat /\ Dec(RowOf(k).holdLeft) \in Nat
    BY <2>1 DEF Row, Dec
  <2>3. QED
    BY <1>2, <2>1, <2>2 DEF Row
<1>3. \A c \in Consumers : \A s \in DOMAIN rows[c] :
        <<c, s>> \in DOMAIN new => new[<<c, s>>] \in Row
  BY <1>2
<1> HIDE DEF new
<1>4. AreTables(rows', Seqs, Row)
  BY <1>1, <1>3, UpdateRowsType
<1>5. QED
  BY <1>4 DEF Tick, TypeOK, ghosts

\* Rows released with a delay each, some others dropped.
LEMMA ReleaseType ==
    ASSUME TypeOK, NEW K, K \subseteq Keys, NEW delay \in [K -> Delays], NEW gone,
           UpdateRows(gone, [k \in K |-> ReleasedRow(RowOf(k), delay[k])])
    PROVE  AreTables(rows', Seqs, Row)
<1> DEFINE new == [k \in K |-> ReleasedRow(RowOf(k), delay[k])]
<1>1. ASSUME NEW k \in K PROVE new[k] \in Row
  <2>1. RowOf(k) \in Row
    BY <1>1, RowType
  <2>2. delay[k] \in Nat
    BY <1>1, ConstantsAssumption
  <2>3. QED
    BY <1>1, <2>1, <2>2, ReleasedRowType
<1>2. \A c \in Consumers : \A s \in DOMAIN rows[c] :
        <<c, s>> \in DOMAIN new => new[<<c, s>>] \in Row
  BY <1>1
<1>3. UpdateRows(gone, new)
  OBVIOUS
<1> HIDE DEF new
<1>4. QED
  BY <1>2, <1>3, UpdateRowsType

\* Dropping rows keeps the types.
LEMMA DropType ==
    ASSUME TypeOK, NEW gone, UpdateRows(gone, NoNewRows)
    PROVE  AreTables(rows', Seqs, Row)
<1>1. DOMAIN NoNewRows = {}
  BY DEF NoNewRows, EmptyFun
<1>2. QED
  BY <1>1, UpdateRowsType

\* Sweep: expired rows are released or recorded as dead.
LEMMA SweepType ==
    ASSUME TypeOK, Sweep
    PROVE  TypeOK'
<1>1. PICK picked \in SUBSET Expired :
        LET dying == {k \in picked : DecideSweep(k) = "dead"}
            redelivered == {k \in picked : DecideSweep(k) = "redeliver"}
        IN \E dead \in SUBSET dying, delay \in [redelivered -> Delays] :
             /\ UpdateRows(dead, [k \in redelivered |-> ReleasedRow(RowOf(k), delay[k])])
             /\ RecordOutcomes({}, dead)
  BY DEF Sweep
<1> DEFINE dying == {k \in picked : DecideSweep(k) = "dead"}
           redelivered == {k \in picked : DecideSweep(k) = "redeliver"}
<1>2. PICK dead \in SUBSET dying, delay \in [redelivered -> Delays] :
        /\ UpdateRows(dead, [k \in redelivered |-> ReleasedRow(RowOf(k), delay[k])])
        /\ RecordOutcomes({}, dead)
  BY <1>1
<1>3. redelivered \subseteq Keys
  BY DEF Expired, Inflight
<1> HIDE DEF redelivered
<1>4. AreTables(rows', Seqs, Row)
  BY <1>2, <1>3, ReleaseType
<1>5. AreTables(settled', Seqs, Outcomes)
  BY <1>2, RecordOutcomesType
<1>6. QED
  BY <1>4, <1>5 DEF Sweep, TypeOK

\* Retire: stranded rows are recorded as dead.
LEMMA RetireType ==
    ASSUME TypeOK, Retire
    PROVE  TypeOK'
<1>1. PICK dead : UpdateRows(dead, NoNewRows) /\ RecordOutcomes({}, dead)
  BY DEF Retire
<1>2. AreTables(rows', Seqs, Row)
  BY <1>1, DropType
<1>3. AreTables(settled', Seqs, Outcomes)
  BY <1>1, RecordOutcomesType
<1>4. QED
  BY <1>2, <1>3 DEF Retire, TypeOK

\* Restart: the reclaim at startup releases every lease.
LEMMA RestartType ==
    ASSUME TypeOK, Restart
    PROVE  TypeOK'
<1>1. PICK delay \in [Inflight -> Delays] :
        UpdateRows({}, [k \in Inflight |-> ReleasedRow(RowOf(k), delay[k])])
  BY DEF Restart
<1>2. Inflight \subseteq Keys
  BY DEF Inflight
<1>3. AreTables(rows', Seqs, Row)
  BY <1>1, <1>2, ReleaseType
<1>4. QED
  BY <1>3 DEF Restart, TypeOK, ghosts

\* A changed cursor, generation or configuration leaves a consumer's row one.
LEMMA ConsumerRowType ==
    ASSUME NEW r \in ConsumerRow
    PROVE  /\ \A n \in Nat \ {0} : [r EXCEPT !.cursor = n] \in ConsumerRow
           /\ \A m, n \in Nat \ {0} : [r EXCEPT !.gen = m, !.cursor = n] \in ConsumerRow
           /\ \A m \in Nat \ {0} : [r EXCEPT !.gen = m] \in ConsumerRow
           /\ \A cfg \in Config : [r EXCEPT !.cfg = cfg] \in ConsumerRow
           /\ \A b \in BOOLEAN : [r EXCEPT !.paused = b] \in ConsumerRow
           /\ r.gen \in Nat \ {0} /\ r.cursor \in Nat \ {0}
           /\ r.cfg \in Config /\ r.paused \in BOOLEAN
  BY DEF ConsumerRow

\* The history of a consumer that starts over is typed.
LEMMA StartOverType ==
    ASSUME TypeOK, NEW c \in Consumers, NEW target, StartOver(c, target)
    PROVE  AreTables(settled', Seqs, Outcomes) /\ passed' \in [Consumers -> SUBSET Seqs]
<1>1. IsTable(EmptyFun, Seqs, Outcomes)
  BY DEF IsTable, EmptyFun
<1>2. AreTables(settled', Seqs, Outcomes)
  BY <1>1 DEF StartOver, TypeOK, AreTables
<1>3. 1 .. next - 1 \subseteq Seqs
  BY ConstantsAssumption DEF TypeOK, Seqs
<1>4. QED
  BY <1>2, <1>3 DEF StartOver, TypeOK

\* The numbers of the messages that are stored.
LEMMA LiveIsPositive ==
    ASSUME TypeOK
    PROVE  Live \subseteq Seqs /\ Seqs \subseteq Nat \ {0}
<1>1. MaxSeq \in Nat
  BY ConstantsAssumption
<1>2. Seqs \subseteq Nat \ {0}
  BY <1>1 DEF Seqs
<1>3. Live \subseteq Seqs
  BY Zenon DEF TypeOK, IsTable, Live
<1>4. QED
  BY <1>2, <1>3

\* The positions a consumer may be created at or sought to.
LEMMA TargetType ==
    ASSUME TypeOK, NEW target \in FirstSeq .. next
    PROVE  target \in Nat \ {0}
<1>1. next \in Nat \ {0}
  BY ConstantsAssumption DEF TypeOK
<1>2. CASE Live = {}
  BY <1>1, <1>2 DEF FirstSeq
<1>3. CASE Live # {}
  <2>1. Live \subseteq Seqs /\ Seqs \subseteq Nat \ {0}
    BY LiveIsPositive
  <2>2. Live \subseteq Nat
    BY <2>1
  <2>3. Min(Live) \in Live
    BY <1>3, <2>2, MinIsLeast
  <2>4. FirstSeq \in Nat \ {0}
    BY <1>3, <2>1, <2>3 DEF FirstSeq
  <2>5. QED
    BY <1>1, <2>4
<1>4. QED
  BY <1>2, <1>3

\* Create: the new consumer starts at a position the stream has.
LEMMA CreateConsumerType ==
    ASSUME TypeOK, NEW c \in Consumers, NEW cfg \in Configs, NEW target,
           CreateConsumer(c, cfg, target)
    PROVE  TypeOK'
<1>1. target \in Nat \ {0}
  BY TargetType DEF CreateConsumer
<1>2. cfg \in Config
  BY ConstantsAssumption
<1>3. [cfg |-> cfg, cursor |-> target, gen |-> 1, paused |-> FALSE] \in ConsumerRow
  BY <1>1, <1>2 DEF ConsumerRow
<1>4. IsTable(cons', Consumers, ConsumerRow)
  BY <1>3 DEF CreateConsumer, TypeOK, IsTable
<1>5. epoch' \in [Consumers -> Nat]
  BY DEF CreateConsumer, TypeOK
<1>6. AreTables(settled', Seqs, Outcomes) /\ passed' \in [Consumers -> SUBSET Seqs]
  BY StartOverType DEF CreateConsumer
<1>7. QED
  BY <1>4, <1>5, <1>6 DEF CreateConsumer, TypeOK

\* A create of a name in use replaces the configuration only.
LEMMA RecreateConsumerType ==
    ASSUME TypeOK, NEW c \in Consumers, NEW cfg \in Configs, RecreateConsumer(c, cfg)
    PROVE  TypeOK'
<1>1. c \in DOMAIN cons /\ cons[c] \in ConsumerRow /\ cfg \in Config
  BY ConstantsAssumption DEF RecreateConsumer, TypeOK, IsTable
<1>2. [cons[c] EXCEPT !.cfg = cfg] \in ConsumerRow
  BY <1>1, ConsumerRowType
<1>3. cons' = [cons EXCEPT ![c] = [cons[c] EXCEPT !.cfg = cfg]]
  BY <1>1 DEF RecreateConsumer
<1>4. IsTable(cons', Consumers, ConsumerRow)
  BY <1>1, <1>2, <1>3 DEF TypeOK, IsTable
<1>5. QED
  BY <1>4 DEF RecreateConsumer, TypeOK, ghosts

\* shrinkDeliveries leaves the cursor where it is or at one of the rows.
LEMMA ShrunkCursorType ==
    ASSUME TypeOK, NEW c \in DOMAIN cons, NEW cfg \in Config
    PROVE  /\ Dropped(c, cfg) \subseteq DOMAIN rows[c]
           /\ Dropped(c, cfg) \subseteq Seqs
           /\ ShrunkCursor(c, Dropped(c, cfg)) \in Nat \ {0}
<1>1. c \in Consumers /\ DOMAIN rows[c] \subseteq Seqs /\ Seqs \subseteq Nat \ {0}
  BY ConstantsAssumption DEF TypeOK, IsTable, AreTables, Seqs
<1>2. Dropped(c, cfg) \subseteq DOMAIN rows[c]
  BY DEF Dropped, Newest, Droppable
<1>3. CASE Dropped(c, cfg) = {}
  BY <1>1, <1>2, <1>3, CursorType DEF ShrunkCursor
<1>4. CASE Dropped(c, cfg) # {}
  <2>1. Dropped(c, cfg) \subseteq Nat
    BY <1>1, <1>2
  <2>2. Min(Dropped(c, cfg)) \in Dropped(c, cfg)
    BY <1>4, <2>1, MinIsLeast
  <2>3. QED
    BY <1>1, <1>2, <1>4, <2>2 DEF ShrunkCursor
<1>5. QED
  BY <1>3, <1>4

\* Update: the cursor a shrink leaves is a sequence number.
LEMMA UpdateConsumerType ==
    ASSUME TypeOK, NEW c \in Consumers, NEW cfg \in Configs, UpdateConsumer(c, cfg)
    PROVE  TypeOK'
<1>1. c \in DOMAIN cons /\ cons[c] \in ConsumerRow /\ cfg \in Config
  BY ConstantsAssumption DEF UpdateConsumer, TypeOK, IsTable
<1> DEFINE cursor == ShrunkCursor(c, Dropped(c, cfg))
<1>2. cursor \in Nat \ {0}
  BY <1>1, ShrunkCursorType
<1> HIDE DEF cursor
<1>3. [cons[c] EXCEPT !.cfg = cfg, !.cursor = cursor] \in ConsumerRow
  BY <1>1, <1>2 DEF ConsumerRow
<1>4. cons' = [cons EXCEPT ![c] = [cons[c] EXCEPT !.cfg = cfg, !.cursor = cursor]]
  BY <1>1 DEF UpdateConsumer, cursor
<1>5. IsTable(cons', Consumers, ConsumerRow)
  BY <1>1, <1>3, <1>4 DEF TypeOK, IsTable
<1>6. AreTables(rows', Seqs, Row)
  BY DropType DEF UpdateConsumer
<1>7. QED
  BY <1>5, <1>6 DEF UpdateConsumer, TypeOK, ghosts

\* Pause and resume flip one column.
LEMMA SetPausedType ==
    ASSUME TypeOK, NEW c \in Consumers, SetPaused(c)
    PROVE  TypeOK'
<1>1. c \in DOMAIN cons /\ cons[c] \in ConsumerRow
  BY DEF SetPaused, TypeOK, IsTable
<1>2. [cons[c] EXCEPT !.paused = ~cons[c].paused] \in ConsumerRow
  BY <1>1, ConsumerRowType
<1>3. cons' = [cons EXCEPT ![c] = [cons[c] EXCEPT !.paused = ~cons[c].paused]]
  BY <1>1 DEF SetPaused
<1>4. IsTable(cons', Consumers, ConsumerRow)
  BY <1>1, <1>2, <1>3 DEF TypeOK, IsTable
<1>5. QED
  BY <1>4 DEF SetPaused, TypeOK, ghosts

\* Emptying one consumer's part of the table.
LEMMA EmptiedType ==
    ASSUME TypeOK, NEW c \in Consumers, rows' = [rows EXCEPT ![c] = EmptyFun]
    PROVE  AreTables(rows', Seqs, Row)
<1>1. IsTable(EmptyFun, Seqs, Row)
  BY DEF IsTable, EmptyFun
<1>2. QED
  BY <1>1 DEF TypeOK, AreTables

\* Delete: the consumer and its rows go.
LEMMA DeleteConsumerType ==
    ASSUME TypeOK, NEW c \in Consumers, DeleteConsumer(c)
    PROVE  TypeOK'
<1>1. AreTables(rows', Seqs, Row)
  BY EmptiedType DEF DeleteConsumer
<1>2. IsTable(cons', Consumers, ConsumerRow)
  BY DEF DeleteConsumer, TypeOK, IsTable
<1>3. QED
  BY <1>1, <1>2 DEF DeleteConsumer, TypeOK, ghosts

\* Seek: rows go, the generation moves by one, the cursor is in the stream.
LEMMA SeekType ==
    ASSUME TypeOK, NEW c \in Consumers, NEW target, Seek(c, target)
    PROVE  TypeOK'
<1>1. c \in DOMAIN cons /\ cons[c] \in ConsumerRow
  BY DEF Seek, TypeOK, IsTable
<1>2. target \in Nat \ {0}
  BY TargetType DEF Seek
<1>3. [cons[c] EXCEPT !.cursor = target, !.gen = cons[c].gen + 1] \in ConsumerRow
  <2>1. cons[c].gen \in Nat
    BY <1>1, ConsumerRowType
  <2>2. cons[c].gen + 1 \in Nat \ {0}
    BY <2>1
  <2>3. QED
    BY <1>1, <1>2, <2>2 DEF ConsumerRow
<1>4. cons' = [cons EXCEPT ![c] = [cons[c] EXCEPT !.cursor = target, !.gen = cons[c].gen + 1]]
  BY <1>1 DEF Seek
<1>5. IsTable(cons', Consumers, ConsumerRow)
  BY <1>1, <1>3, <1>4 DEF TypeOK, IsTable
<1>6. AreTables(rows', Seqs, Row)
  BY EmptiedType DEF Seek
<1>7. AreTables(settled', Seqs, Outcomes) /\ passed' \in [Consumers -> SUBSET Seqs]
  BY StartOverType DEF Seek
<1>8. QED
  BY <1>5, <1>6, <1>7 DEF Seek, TypeOK

\* Deleting messages leaves a table of messages.
LEMMA DeleteMessagesType ==
    ASSUME TypeOK, NEW S, msgs' = [s \in Live \ S |-> msgs[s]]
    PROVE  IsTable(msgs', Seqs, Subjects)
  BY DEF TypeOK, IsTable, Live

\* The range purge leaves typed rows, generations and clamped cursors.
LEMMA PurgeRangeType ==
    ASSUME TypeOK, NEW upper \in Seqs, PurgeRange(upper)
    PROVE  TypeOK'
<1> DEFINE doomed == {s \in Seqs : s <= upper}
<1>1. ASSUME NEW c \in DOMAIN cons
      PROVE  /\ cons[c] \in ConsumerRow
             /\ GenAfterPurge(c, doomed) \in Nat \ {0}
             /\ ClampedCursor(c, upper) \in Nat \ {0}
  <2>1. cons[c] \in ConsumerRow
    BY <1>1 DEF TypeOK, IsTable
  <2>2. cons[c].gen \in Nat \ {0} /\ cons[c].cursor \in Nat \ {0}
    BY <2>1, ConsumerRowType
  <2>3. upper \in Nat
    BY ConstantsAssumption DEF Seqs
  <2>4. QED
    BY <2>1, <2>2, <2>3 DEF GenAfterPurge, ClampedCursor
<1>2. /\ DeleteMessages({s \in Live : s <= upper})
      /\ UpdateRows(Consumers \X doomed, NoNewRows)
      /\ cons' = [c \in DOMAIN cons |->
                    [cons[c] EXCEPT !.gen = GenAfterPurge(c, doomed),
                                    !.cursor = ClampedCursor(c, upper)]]
  BY DEF PurgeRange
<1> HIDE DEF doomed
<1>3. IsTable(cons', Consumers, ConsumerRow)
  <2>1. \A c \in DOMAIN cons :
          [cons[c] EXCEPT !.gen = GenAfterPurge(c, doomed), !.cursor = ClampedCursor(c, upper)]
            \in ConsumerRow
    BY <1>1, ConsumerRowType
  <2>2. QED
    BY <1>2, <2>1 DEF TypeOK, IsTable
<1>4. AreTables(rows', Seqs, Row)
  BY <1>2, DropType
<1>5. IsTable(msgs', Seqs, Subjects)
  BY <1>2, DeleteMessagesType DEF DeleteMessages
<1>6. discarded' \subseteq Seqs
  BY <1>2 DEF DeleteMessages, TypeOK, IsTable, Live
<1>7. QED
  BY <1>2, <1>3, <1>4, <1>5, <1>6 DEF DeleteMessages, TypeOK

\* The filtered purge leaves typed rows and generations.
LEMMA PurgeScanType ==
    ASSUME TypeOK, NEW pattern, NEW upper, NEW keep, PurgeScan(pattern, upper, keep)
    PROVE  TypeOK'
<1> DEFINE victims == Victims(pattern, upper, keep)
<1>1. victims \subseteq Live
  BY DEF Victims
<1>2. /\ DeleteMessages(victims)
      /\ UpdateRows(Consumers \X victims, NoNewRows)
      /\ cons' = [c \in DOMAIN cons |-> [cons[c] EXCEPT !.gen = GenAfterPurge(c, victims)]]
  BY DEF PurgeScan
<1> HIDE DEF victims
<1>3. IsTable(cons', Consumers, ConsumerRow)
  <2>1. ASSUME NEW c \in DOMAIN cons
        PROVE  cons[c] \in ConsumerRow /\ GenAfterPurge(c, victims) \in Nat \ {0}
    <3>1. cons[c] \in ConsumerRow
      BY <2>1 DEF TypeOK, IsTable
    <3>2. cons[c].gen \in Nat \ {0}
      BY <3>1, ConsumerRowType
    <3>3. QED
      BY <3>1, <3>2 DEF GenAfterPurge
  <2>2. \A c \in DOMAIN cons :
          [cons[c] EXCEPT !.gen = GenAfterPurge(c, victims)] \in ConsumerRow
    BY <2>1, ConsumerRowType
  <2>3. QED
    BY <1>2, <2>2 DEF TypeOK, IsTable
<1>4. AreTables(rows', Seqs, Row)
  BY <1>2, DropType
<1>5. IsTable(msgs', Seqs, Subjects)
  BY <1>2, DeleteMessagesType DEF DeleteMessages
<1>6. discarded' \subseteq Seqs
  BY <1>1, <1>2 DEF DeleteMessages, TypeOK, IsTable, Live
<1>7. QED
  BY <1>2, <1>3, <1>4, <1>5, <1>6 DEF DeleteMessages, TypeOK

\* Retention only shortens the messages table.
LEMMA RetainType ==
    ASSUME TypeOK, Retain
    PROVE  TypeOK'
<1>1. PICK S \in SUBSET Evictable :
        /\ msgs' = [s \in Live \ S |-> msgs[s]]
        /\ discarded' = IF WorkQueue THEN discarded ELSE discarded \cup S
  BY DEF Retain
<1>2. S \subseteq Seqs
  BY DEF Evictable, Unpinned, TypeOK, IsTable, Live
<1>3. IsTable(msgs', Seqs, Subjects)
  BY <1>1, DeleteMessagesType
<1>4. QED
  BY <1>1, <1>2, <1>3 DEF Retain, TypeOK

-----------------------------------------------------------------------------
\* No step of the store leaves the types: one case per action.
LEMMA NextType == TypeOK /\ [Next]_vars => TypeOK'
<1> SUFFICES ASSUME TypeOK, [Next]_vars PROVE TypeOK'
  OBVIOUS
<1>1. CASE UNCHANGED vars
  BY <1>1 DEF vars, TypeOK
<1>2. CASE ClientNext
  BY <1>2, PublishType, FetchType, SettleType DEF ClientNext
<1>3. CASE SystemNext
  BY <1>3, TickType, SweepType, RetireType, RestartType, RetainType DEF SystemNext
<1>4. CASE AdminNext
  BY <1>4, CreateConsumerType, RecreateConsumerType, UpdateConsumerType, SetPausedType,
     DeleteConsumerType, SeekType, PurgeRangeType, PurgeScanType DEF AdminNext
<1>5. QED
  BY <1>1, <1>2, <1>3, <1>4 DEF Next

\* The tables start well typed.
LEMMA InitType == Init => TypeOK
<1> SUFFICES ASSUME Init PROVE TypeOK
  OBVIOUS
<1>1. IsTable(msgs, Seqs, Subjects) /\ IsTable(cons, Consumers, ConsumerRow)
  BY DEF Init, IsTable, EmptyFun
<1>2. AreTables(rows, Seqs, Row) /\ AreTables(settled, Seqs, Outcomes)
  BY DEF Init, IsTable, AreTables, EmptyFun
<1>3. next \in 1 .. MaxSeq + 1
  BY ConstantsAssumption DEF Init
<1>4. QED
  BY <1>1, <1>2, <1>3 DEF Init, TypeOK

\* The schema holds in every reachable state of every instance: whatever the
\* commands, the deliveries, consumers and messages tables hold rows of their
\* types, cursors and generations stay positive, and ids stay in range.
THEOREM TypeCorrect == Spec => []TypeOK
<1>1. QED
  BY InitType, NextType, PTL DEF Spec

-----------------------------------------------------------------------------
(* The inductive invariant.                                                  *)

\* Of every name, in use or not: its rows have their messages, a row that was
\* never handed out is free to be claimed, and no message died without a copy
\* because its payload was gone.
TableInv(c) ==
    /\ DOMAIN rows[c] \subseteq Live
    /\ \A s \in DOMAIN rows[c] :
         rows[c][s].attempts = 0 => rows[c][s].state = "ready" /\ rows[c][s].visibleIn = 0
    /\ \A s \in DOMAIN settled[c] : settled[c][s] # "orphaned"
    /\ c \notin DOMAIN cons => DOMAIN rows[c] = {}

\* Of a consumer that exists: the cursor splits the stream into what is still
\* to be scanned and what is accounted for, row by row or as settled, and the
\* rows nobody was handed come last.
PositionInv(c) ==
    /\ cons[c].cursor <= next
    /\ \A s \in DOMAIN rows[c] : s < cons[c].cursor
    /\ \A s \in DOMAIN settled[c] : s < cons[c].cursor /\ s \notin DOMAIN rows[c]
    /\ \A s \in DOMAIN rows[c] : rows[c][s].attempts = 0 =>
         /\ \A t \in DOMAIN settled[c] : t < s
         /\ \A t \in DOMAIN rows[c] : rows[c][t].attempts > 0 => t < s
    /\ \A s \in 1 .. next - 1 :
         \/ s \in discarded \/ s \in passed[c]
         \/ s >= cons[c].cursor /\ s \in Live
         \/ s < cons[c].cursor /\ (s \in DOMAIN rows[c] \/ s \in DOMAIN settled[c])

IInv ==
    /\ TypeOK
    /\ Live \subseteq 1 .. next - 1
    /\ \A t \in tokens : t.attempt > 0
    /\ \A c \in Consumers : TableInv(c)
    /\ \A c \in DOMAIN cons : PositionInv(c)

\* The invariant says what the four properties say.
LEMMA IInvImplies ==
    ASSUME IInv
    PROVE  NoLoss /\ NoResurrection /\ FreshRowsAreNewest /\ RowsPinMessages
<1>1. NoLoss
  BY DEF IInv, PositionInv, NoLoss
<1>2. NoResurrection
  BY DEF IInv, PositionInv, NoResurrection
<1>3. FreshRowsAreNewest
  BY DEF IInv, PositionInv, FreshRowsAreNewest
<1>4. RowsPinMessages
  BY DEF IInv, TableInv, RowsPinMessages
<1>5. QED
  BY <1>1, <1>2, <1>3, <1>4

\* A new stream has no consumers, so there is nothing to account for.
LEMMA InitIInv == Init => IInv
<1> SUFFICES ASSUME Init PROVE IInv
  OBVIOUS
<1>1. TypeOK
  BY InitType
<1>2. DOMAIN cons = {} /\ Live = {} /\ tokens = {}
  BY DEF Init, EmptyFun, Live
<1>3. ASSUME NEW c \in Consumers PROVE TableInv(c)
  BY <1>3 DEF Init, EmptyFun, TableInv
<1>4. QED
  BY <1>1, <1>2, <1>3 DEF IInv

-----------------------------------------------------------------------------
(* What the table operators do, entry by entry.                              *)

\* One consumer's rows after UpdateRows.
LEMMA UpdateRowsEffect ==
    ASSUME NEW gone, NEW new, UpdateRows(gone, new), NEW c \in Consumers
    PROVE  /\ DOMAIN rows'[c] = {s \in DOMAIN rows[c] : <<c, s>> \notin gone}
           /\ \A s \in DOMAIN rows'[c] :
                rows'[c][s] = IF <<c, s>> \in DOMAIN new THEN new[<<c, s>>] ELSE rows[c][s]
<1> DEFINE D == {s \in DOMAIN rows[c] : <<c, s>> \notin gone}
           N(s) == IF <<c, s>> \in DOMAIN new THEN new[<<c, s>>] ELSE rows[c][s]
<1>1. rows'[c] = [s \in D |-> N(s)]
  BY DEF UpdateRows
<1> HIDE DEF D, N
<1>2. DOMAIN rows'[c] = D /\ \A s \in D : rows'[c][s] = N(s)
  BY <1>1
<1>3. QED
  BY <1>2 DEF D, N

\* Dropping rows leaves the others as they are.
LEMMA DropEffect ==
    ASSUME NEW gone, UpdateRows(gone, NoNewRows), NEW c \in Consumers
    PROVE  /\ DOMAIN rows'[c] = {s \in DOMAIN rows[c] : <<c, s>> \notin gone}
           /\ \A s \in DOMAIN rows'[c] : rows'[c][s] = rows[c][s]
<1>1. DOMAIN NoNewRows = {}
  BY DEF NoNewRows, EmptyFun
<1>2. /\ DOMAIN rows'[c] = {s \in DOMAIN rows[c] : <<c, s>> \notin gone}
      /\ \A s \in DOMAIN rows'[c] :
           rows'[c][s] = IF <<c, s>> \in DOMAIN NoNewRows THEN NoNewRows[<<c, s>>]
                         ELSE rows[c][s]
  BY UpdateRowsEffect
<1>3. QED
  BY <1>1, <1>2

\* What RecordOutcomes leaves in one consumer's history.
LEMMA RecordOutcomesEffect ==
    ASSUME NEW acked, NEW dead, RecordOutcomes(acked, dead), NEW c \in Consumers
    PROVE  /\ DOMAIN settled'[c] =
                DOMAIN settled[c] \cup {t \in Seqs : <<c, t>> \in acked \cup dead}
           /\ \A s \in DOMAIN settled'[c] :
                settled'[c][s] = IF <<c, s>> \in dead THEN DeadOutcome(<<c, s>>)
                                 ELSE IF <<c, s>> \in acked THEN "acked" ELSE settled[c][s]
<1> DEFINE D == DOMAIN settled[c] \cup {t \in Seqs : <<c, t>> \in acked \cup dead}
           N(s) == IF <<c, s>> \in dead THEN DeadOutcome(<<c, s>>)
                   ELSE IF <<c, s>> \in acked THEN "acked" ELSE settled[c][s]
<1>1. settled'[c] = [s \in D |-> N(s)]
  BY DEF RecordOutcomes
<1> HIDE DEF D, N
<1>2. DOMAIN settled'[c] = D /\ \A s \in D : settled'[c][s] = N(s)
  BY <1>1
<1>3. QED
  BY <1>2 DEF D, N

\* A message that still exists never dies as an orphan.
LEMMA DeadOutcomeOfLive ==
    ASSUME TypeOK, NEW c \in DOMAIN cons, NEW s \in Live
    PROVE  DeadOutcome(<<c, s>>) # "orphaned"
<1>1. cons[c].cfg.deadPolicy \in {"dlq", "drop"}
  BY DEF TypeOK, IsTable, ConsumerRow, Config
<1>2. QED
  BY <1>1 DEF DeadOutcome

-----------------------------------------------------------------------------
(* Steps that move rows to the settled history and otherwise only change     *)
(* leases: settle, the sweep, the retire pass, a restart, the clock.         *)

\* A step that takes delivered rows away, records each as settled and
\* rewrites other delivered rows keeps the invariant: settle, sweep and retire.
LEMMA SettlingStep ==
    ASSUME IInv, TypeOK', NEW G,
           \A c \in Consumers : \A s \in DOMAIN rows[c] :
             <<c, s>> \in G => c \in DOMAIN cons /\ rows[c][s].attempts > 0,
           UNCHANGED <<msgs, next, tokens, passed, discarded>>,
           DOMAIN cons' = DOMAIN cons,
           \A c \in DOMAIN cons : cons'[c].cursor = cons[c].cursor,
           \A c \in Consumers :
             DOMAIN rows'[c] = {s \in DOMAIN rows[c] : <<c, s>> \notin G},
           \A c \in Consumers : \A s \in DOMAIN rows'[c] :
             /\ rows'[c][s].attempts = rows[c][s].attempts
             /\ rows[c][s].attempts = 0 =>
                  rows'[c][s].state = "ready" /\ rows'[c][s].visibleIn = 0,
           \A c \in Consumers :
             /\ DOMAIN settled'[c] =
                  DOMAIN settled[c] \cup {s \in DOMAIN rows[c] : <<c, s>> \in G}
             /\ \A s \in DOMAIN settled'[c] : settled'[c][s] # "orphaned"
    PROVE  IInv'
<1>1. Live' = Live
  BY DEF Live
<1>2. ASSUME NEW c \in Consumers PROVE TableInv(c)'
  <2>1. TableInv(c)
    BY <1>2 DEF IInv
  <2>2. DOMAIN rows'[c] = {s \in DOMAIN rows[c] : <<c, s>> \notin G}
    BY <1>2
  <2>3. (DOMAIN rows[c] \subseteq Live)'
    BY <1>1, <2>1, <2>2 DEF TableInv
  <2>4. \A s \in DOMAIN rows'[c] :
          rows'[c][s].attempts = 0 => rows'[c][s].state = "ready" /\ rows'[c][s].visibleIn = 0
    BY <1>2
  <2>5. \A s \in DOMAIN settled'[c] : settled'[c][s] # "orphaned"
    BY <1>2
  <2>6. c \notin DOMAIN cons' => DOMAIN rows'[c] = {}
    BY <2>1, <2>2 DEF TableInv
  <2>7. QED
    BY <2>3, <2>4, <2>5, <2>6 DEF TableInv
<1>3. ASSUME NEW c \in DOMAIN cons PROVE PositionInv(c)'
  <2>1. c \in Consumers /\ PositionInv(c)
    BY <1>3 DEF IInv, TypeOK, IsTable
  <2>2. (cons[c].cursor <= next)'
    BY <1>3, <2>1 DEF PositionInv
  <2>3. (\A s \in DOMAIN rows[c] : s < cons[c].cursor)'
    BY <1>3, <2>1 DEF PositionInv
  <2>4. (\A s \in DOMAIN settled[c] : s < cons[c].cursor /\ s \notin DOMAIN rows[c])'
    BY <1>3, <2>1 DEF PositionInv
  <2>5. ASSUME NEW s \in DOMAIN rows'[c], rows'[c][s].attempts = 0
        PROVE  /\ \A t \in DOMAIN settled'[c] : t < s
               /\ \A t \in DOMAIN rows'[c] : rows'[c][t].attempts > 0 => t < s
    <3>1. s \in DOMAIN rows[c] /\ rows[c][s].attempts = 0
      BY <2>1, <2>5
    <3>2. /\ \A t \in DOMAIN settled[c] : t < s
          /\ \A t \in DOMAIN rows[c] : rows[c][t].attempts > 0 => t < s
      BY <2>1, <3>1 DEF PositionInv
    <3>3. QED
      BY <2>1, <3>2
  <2>6. ASSUME NEW s \in 1 .. next' - 1
        PROVE  \/ s \in discarded' \/ s \in passed'[c]
               \/ s >= cons'[c].cursor /\ s \in Live'
               \/ s < cons'[c].cursor /\ (s \in DOMAIN rows'[c] \/ s \in DOMAIN settled'[c])
    <3>1. \/ s \in discarded \/ s \in passed[c]
          \/ s >= cons[c].cursor /\ s \in Live
          \/ s < cons[c].cursor /\ (s \in DOMAIN rows[c] \/ s \in DOMAIN settled[c])
      BY <2>1, <2>6 DEF PositionInv
    <3>2. s \in DOMAIN rows[c] => s \in DOMAIN rows'[c] \/ s \in DOMAIN settled'[c]
      BY <2>1
    <3>3. s \in DOMAIN settled[c] => s \in DOMAIN settled'[c]
      BY <2>1
    <3>4. QED
      BY <1>1, <1>3, <3>1, <3>2, <3>3
  <2>7. QED
    BY <2>2, <2>3, <2>4, <2>5, <2>6 DEF PositionInv
<1>4. QED
  BY <1>1, <1>2, <1>3 DEF IInv

\* The same in the terms the commands use.
LEMMA SettlingUpdate ==
    ASSUME IInv, TypeOK', NEW acked, NEW dead, NEW new,
           \A k \in acked \cup dead :
             k \in Keys /\ k[1] \in DOMAIN cons /\ RowOf(k).attempts > 0,
           \A k \in DOMAIN new :
             k \in Keys => new[k].attempts = RowOf(k).attempts /\ RowOf(k).attempts > 0,
           UpdateRows(acked \cup dead, new),
           RecordOutcomes(acked, dead),
           UNCHANGED <<msgs, next, cons, tokens, passed, discarded>>
    PROVE  IInv'
<1> DEFINE G == acked \cup dead
<1>1. TypeOK
  BY DEF IInv
<1>2. ASSUME NEW c \in Consumers, NEW s \in DOMAIN rows[c]
      PROVE  <<c, s>> \in Keys /\ RowOf(<<c, s>>) = rows[c][s] /\ s \in Seqs
  BY <1>1, <1>2 DEF Keys, RowOf, TypeOK, AreTables, IsTable
<1>3. ASSUME NEW c \in Consumers, NEW s \in DOMAIN rows[c], <<c, s>> \in G
      PROVE  c \in DOMAIN cons /\ rows[c][s].attempts > 0
  <2>1. <<c, s>>[1] = c
    OBVIOUS
  <2>2. QED
    BY <1>2, <1>3, <2>1
<1>4. ASSUME NEW c \in Consumers
      PROVE  DOMAIN rows'[c] = {s \in DOMAIN rows[c] : <<c, s>> \notin G}
  BY <1>4, UpdateRowsEffect
<1>5. ASSUME NEW c \in Consumers, NEW s \in DOMAIN rows'[c]
      PROVE  /\ rows'[c][s].attempts = rows[c][s].attempts
             /\ rows[c][s].attempts = 0 =>
                  rows'[c][s].state = "ready" /\ rows'[c][s].visibleIn = 0
  <2>1. s \in DOMAIN rows[c]
        /\ rows'[c][s] = IF <<c, s>> \in DOMAIN new THEN new[<<c, s>>] ELSE rows[c][s]
    BY <1>5, UpdateRowsEffect
  <2>2. rows[c][s].attempts = 0 => rows[c][s].state = "ready" /\ rows[c][s].visibleIn = 0
    BY <1>5, <2>1 DEF IInv, TableInv
  <2>3. CASE <<c, s>> \in DOMAIN new
    <3>1. new[<<c, s>>].attempts = rows[c][s].attempts /\ rows[c][s].attempts > 0
      BY <1>2, <2>1, <2>3
    <3>2. QED
      BY <2>1, <2>3, <3>1
  <2>4. CASE <<c, s>> \notin DOMAIN new
    BY <2>1, <2>2, <2>4
  <2>5. QED
    BY <2>3, <2>4
<1>6. ASSUME NEW c \in Consumers
      PROVE  /\ DOMAIN settled'[c] =
                  DOMAIN settled[c] \cup {s \in DOMAIN rows[c] : <<c, s>> \in G}
             /\ \A s \in DOMAIN settled'[c] : settled'[c][s] # "orphaned"
  <2>1. /\ DOMAIN settled'[c] = DOMAIN settled[c] \cup {t \in Seqs : <<c, t>> \in G}
        /\ \A s \in DOMAIN settled'[c] :
             settled'[c][s] = IF <<c, s>> \in dead THEN DeadOutcome(<<c, s>>)
                              ELSE IF <<c, s>> \in acked THEN "acked" ELSE settled[c][s]
    BY <1>6, RecordOutcomesEffect
  <2>2. ASSUME NEW t \in Seqs, <<c, t>> \in G
        PROVE  t \in DOMAIN rows[c] /\ c \in DOMAIN cons /\ t \in Live
    <3>1. <<c, t>> \in Keys /\ c \in DOMAIN cons
      BY <2>2
    <3>2. t \in DOMAIN rows[c]
      BY <3>1 DEF Keys
    <3>3. QED
      BY <1>6, <3>1, <3>2 DEF IInv, TableInv
  <2>3. {t \in Seqs : <<c, t>> \in G} = {s \in DOMAIN rows[c] : <<c, s>> \in G}
    BY <1>2, <1>6, <2>2
  <2>4. ASSUME NEW s \in DOMAIN settled'[c] PROVE settled'[c][s] # "orphaned"
    <3>1. CASE <<c, s>> \in dead
      <4>1. s \in Seqs
        BY <1>6, <2>4 DEF TypeOK, AreTables, IsTable
      <4>2. DeadOutcome(<<c, s>>) # "orphaned"
        BY <1>1, <2>2, <3>1, <4>1, DeadOutcomeOfLive
      <4>3. QED
        BY <2>1, <2>4, <3>1, <4>2
    <3>2. CASE <<c, s>> \notin dead /\ <<c, s>> \in acked
      BY <2>1, <2>4, <3>2
    <3>3. CASE <<c, s>> \notin dead /\ <<c, s>> \notin acked
      BY <1>6, <2>1, <2>4, <3>3 DEF IInv, TableInv
    <3>4. QED
      BY <3>1, <3>2, <3>3
  <2>5. QED
    BY <2>1, <2>3, <2>4
<1> HIDE DEF G
<1>7. QED
  BY <1>3, <1>4, <1>5, <1>6, SettlingStep

\* A lease means a delivery was counted.
LEMMA InflightWasClaimed ==
    ASSUME IInv, NEW k \in Inflight
    PROVE  k \in Keys /\ RowOf(k).attempts > 0
<1>1. k \in Keys /\ RowOf(k).state = "inflight"
  BY DEF Inflight
<1>2. /\ k[1] \in Consumers /\ k[2] \in DOMAIN rows[k[1]]
      /\ RowOf(k) = rows[k[1]][k[2]] /\ RowOf(k) \in Row
  BY <1>1, RowType DEF IInv
<1>3. RowOf(k).attempts # 0
  BY <1>1, <1>2 DEF IInv, TableInv
<1>4. QED
  BY <1>1, <1>2, <1>3 DEF Row

\* The expiry sweep keeps the invariant: every row it kills or releases was
\* handed out before.
LEMMA SweepIInv ==
    ASSUME IInv, Sweep
    PROVE  IInv'
<1>1. PICK picked \in SUBSET Expired :
        LET dying == {k \in picked : DecideSweep(k) = "dead"}
            redelivered == {k \in picked : DecideSweep(k) = "redeliver"}
        IN \E dead \in SUBSET dying, delay \in [redelivered -> Delays] :
             /\ UpdateRows(dead, [k \in redelivered |-> ReleasedRow(RowOf(k), delay[k])])
             /\ RecordOutcomes({}, dead)
  BY DEF Sweep
<1> DEFINE dying == {k \in picked : DecideSweep(k) = "dead"}
           redelivered == {k \in picked : DecideSweep(k) = "redeliver"}
<1>2. PICK dead \in SUBSET dying, delay \in [redelivered -> Delays] :
        /\ UpdateRows(dead, [k \in redelivered |-> ReleasedRow(RowOf(k), delay[k])])
        /\ RecordOutcomes({}, dead)
  BY <1>1
<1> DEFINE new == [k \in redelivered |-> ReleasedRow(RowOf(k), delay[k])]
<1>3. \A k \in {} \cup dead : k \in Keys /\ k[1] \in DOMAIN cons /\ RowOf(k).attempts > 0
  <2>1. ASSUME NEW k \in dead PROVE k \in Inflight /\ k[1] \in DOMAIN cons
    BY <2>1 DEF Expired, DecideSweep, Sweepable
  <2>2. QED
    BY <2>1, InflightWasClaimed
<1>4. ASSUME NEW k \in DOMAIN new
      PROVE  new[k].attempts = RowOf(k).attempts /\ RowOf(k).attempts > 0
  <2>1. k \in redelivered /\ k \in Inflight
    BY <1>4 DEF Expired
  <2>2. RowOf(k).attempts > 0 /\ RowOf(k) \in Row
    BY <2>1, InflightWasClaimed, RowType DEF IInv
  <2>3. ReleasedRow(RowOf(k), delay[k]).attempts = RowOf(k).attempts
    BY <2>2 DEF ReleasedRow, Row
  <2>4. QED
    BY <2>1, <2>2, <2>3
<1>5. UpdateRows({} \cup dead, new)
  <2>1. {} \cup dead = dead
    OBVIOUS
  <2>2. QED
    BY <1>2, <2>1
<1>6. UNCHANGED <<msgs, next, cons, tokens, passed, discarded>>
  BY DEF Sweep
<1>7. TypeOK'
  BY SweepType DEF IInv
<1> HIDE DEF new, dying, redelivered
<1>8. QED
  BY <1>2, <1>3, <1>4, <1>5, <1>6, <1>7, SettlingUpdate

\* The retire pass keeps the invariant: a row at its bound was handed out.
LEMMA RetireIInv ==
    ASSUME IInv, Retire
    PROVE  IInv'
<1>1. PICK dead \in SUBSET UNION {{c} \X Oldest(Stranded(c), SweepLimit) : c \in Consumers} :
        UpdateRows(dead, NoNewRows) /\ RecordOutcomes({}, dead)
  BY DEF Retire
<1>2. ASSUME NEW k \in dead
      PROVE  k \in Keys /\ k[1] \in DOMAIN cons /\ RowOf(k).attempts > 0
  <2>1. PICK c \in Consumers : k \in {c} \X Oldest(Stranded(c), SweepLimit)
    BY <1>2
  <2>2. k = <<k[1], k[2]>> /\ k[1] = c /\ k[2] \in Stranded(c)
    BY <2>1 DEF Oldest
  <2>3. /\ c \in DOMAIN cons /\ k[2] \in DOMAIN rows[c]
        /\ Exhausted(c, rows[c][k[2]].attempts)
    BY <2>2 DEF Stranded
  <2>4. k \in Keys
    BY <2>1, <2>2, <2>3 DEF Keys
  <2>5. RowOf(k) = rows[c][k[2]]
    BY <2>2 DEF RowOf
  <2>6. rows[c][k[2]].attempts \in Nat
    BY <2>1, <2>3 DEF IInv, TypeOK, AreTables, IsTable, Row
  <2>7. cons[c].cfg.maxDeliver \in Nat
    BY <2>3 DEF IInv, TypeOK, IsTable, ConsumerRow, Config
  <2>8. rows[c][k[2]].attempts > 0
    BY <2>3, <2>6, <2>7 DEF Exhausted
  <2>9. QED
    BY <2>2, <2>3, <2>4, <2>5, <2>8
<1>3. {} \cup dead = dead
  OBVIOUS
<1>4. DOMAIN NoNewRows = {}
  BY DEF NoNewRows, EmptyFun
<1>5. UNCHANGED <<msgs, next, cons, tokens, passed, discarded>>
  BY DEF Retire
<1>6. TypeOK'
  BY RetireType DEF IInv
<1>7. QED
  BY <1>1, <1>2, <1>3, <1>4, <1>5, <1>6, SettlingUpdate

\* A token acts only on a row that was handed out (the attempt fence).
LEMMA ActingTokenHasRow ==
    ASSUME IInv, NEW t \in tokens, NEW req,
           PlanSettle(t, req) \in {"ack", "dead", "release", "extend"}
    PROVE  /\ KeyOf(t) \in Keys /\ KeyOf(t)[1] \in DOMAIN cons
           /\ RowOf(KeyOf(t)).attempts > 0
<1>1. t.consumer \in Consumers /\ t.attempt > 0
  BY DEF IInv, TypeOK, Token
<1>2. KeyOf(t) = <<t.consumer, t.seq>> /\ KeyOf(t)[1] = t.consumer
  BY DEF KeyOf
<1>3. t.consumer \in DOMAIN cons /\ HasRow(t) /\ t.attempt = RowOf(KeyOf(t)).attempts
  <2>1. CASE t.consumer \notin DOMAIN cons
    BY <2>1 DEF PlanSettle
  <2>2. CASE t.consumer \in DOMAIN cons /\ t.gen # cons[t.consumer].gen
    BY <2>2 DEF PlanSettle
  <2>3. CASE t.consumer \in DOMAIN cons /\ t.gen = cons[t.consumer].gen /\ ~HasRow(t)
    BY <2>3 DEF PlanSettle
  <2>4. CASE t.consumer \in DOMAIN cons /\ t.gen = cons[t.consumer].gen /\ HasRow(t)
    <3>1. PlanSettle(t, req) = IF t.attempt # RowOf(KeyOf(t)).attempts THEN "stale_ack"
                               ELSE PlanVerb(t, req)
      BY <2>4 DEF PlanSettle
    <3>2. QED
      BY <2>4, <3>1
  <2>5. QED
    BY <2>1, <2>2, <2>3, <2>4
<1>4. KeyOf(t) \in Keys
  BY <1>1, <1>2, <1>3 DEF Keys, HasRow
<1>5. QED
  BY <1>1, <1>2, <1>3, <1>4

\* A settle request keeps the invariant, committed or rolled back.
LEMMA SettleIInv ==
    ASSUME IInv, NEW items \in SettleRequests, Settle(items)
    PROVE  IInv'
<1>1. TypeOK'
  BY SettleType DEF IInv
<1>2. ASSUME NEW plans, plans \subseteq {"ack", "dead", "release", "extend"},
             NEW k \in KeysOf(items, Acting(items, plans))
      PROVE  k \in Keys /\ k[1] \in DOMAIN cons /\ RowOf(k).attempts > 0
  <2>1. PICK i \in Acting(items, plans) : k = KeyOf(items[i].token)
    BY <1>2 DEF KeysOf
  <2>2. i \in DOMAIN items /\ PlanSettle(items[i].token, items[i].req) \in plans
    BY <2>1 DEF Acting
  <2>3. items[i].token \in tokens
    BY <2>2 DEF SettleRequests
  <2>4. PlanSettle(items[i].token, items[i].req) \in {"ack", "dead", "release", "extend"}
    BY <1>2, <2>2
  <2>5. QED
    BY <2>1, <2>3, <2>4, ActingTokenHasRow
<1>3. CASE SettleCommits(items)
  <2> DEFINE acked == KeysOf(items, Acting(items, {"ack"}))
             dead  == KeysOf(items, Acting(items, {"dead"}))
             moved == Acting(items, {"release", "extend"})
             new   == [k \in KeysOf(items, moved) |->
                         SettledRow(RowOf(k),
                           items[CHOOSE i \in moved : KeyOf(items[i].token) = k].req)]
  <2>1. UpdateRows(acked \cup dead, new) /\ RecordOutcomes(acked, dead)
    BY <1>3 DEF SettleCommits
  <2>2. \A k \in acked \cup dead : k \in Keys /\ k[1] \in DOMAIN cons /\ RowOf(k).attempts > 0
    BY <1>2
  <2>3. ASSUME NEW k \in DOMAIN new
        PROVE  new[k].attempts = RowOf(k).attempts /\ RowOf(k).attempts > 0
    <3> DEFINE req == items[CHOOSE i \in moved : KeyOf(items[i].token) = k].req
    <3>1. k \in KeysOf(items, Acting(items, {"release", "extend"}))
      BY <2>3
    <3>2. k \in Keys /\ RowOf(k).attempts > 0
      BY <1>2, <3>1
    <3>3. RowOf(k) \in Row
      BY <3>2, RowType DEF IInv
    <3>4. new[k] = SettledRow(RowOf(k), req)
      BY <2>3
    <3> HIDE DEF req
    <3>5. SettledRow(RowOf(k), req).attempts = RowOf(k).attempts
      BY <3>3 DEF SettledRow, ReleasedRow, ExtendedRow, Row
    <3>6. QED
      BY <3>2, <3>4, <3>5
  <2>4. UNCHANGED <<msgs, next, cons, tokens, passed, discarded>>
    BY <1>3 DEF SettleCommits
  <2> HIDE DEF acked, dead, moved, new
  <2>5. QED
    BY <1>1, <2>1, <2>2, <2>3, <2>4, SettlingUpdate
<1>4. CASE SettleAborts(items)
  <2>1. UNCHANGED <<msgs, next, cons, rows, ghosts>>
    BY <1>4 DEF SettleAborts
  <2>2. QED
    BY <1>1, <2>1 DEF IInv, TableInv, PositionInv, Live, ghosts
<1>5. QED
  BY <1>3, <1>4 DEF Settle

\* Steps that only change leases.
LEMMA LeaseStep ==
    ASSUME IInv, TypeOK', NEW new, UpdateRows({}, new),
           \A c \in Consumers : \A s \in DOMAIN rows[c] : <<c, s>> \in DOMAIN new =>
             /\ new[<<c, s>>].attempts = rows[c][s].attempts
             /\ rows[c][s].attempts = 0 =>
                  new[<<c, s>>].state = "ready" /\ new[<<c, s>>].visibleIn = 0,
           UNCHANGED <<msgs, next, cons, ghosts>>
    PROVE  IInv'
<1>1. UNCHANGED <<msgs, next, cons, tokens, settled, passed, discarded>>
  BY DEF ghosts
<1> DEFINE none == {}
<1>2. ASSUME NEW c \in Consumers
      PROVE  DOMAIN rows'[c] = {s \in DOMAIN rows[c] : <<c, s>> \notin none}
  <2> HIDE DEF none
  <2>1. UpdateRows(none, new)
    BY DEF none
  <2>2. QED
    BY <1>2, <2>1, UpdateRowsEffect
<1>3. ASSUME NEW c \in Consumers, NEW s \in DOMAIN rows'[c]
      PROVE  /\ rows'[c][s].attempts = rows[c][s].attempts
             /\ rows[c][s].attempts = 0 =>
                  rows'[c][s].state = "ready" /\ rows'[c][s].visibleIn = 0
  <2>1. s \in DOMAIN rows[c]
        /\ rows'[c][s] = IF <<c, s>> \in DOMAIN new THEN new[<<c, s>>] ELSE rows[c][s]
    BY <1>2, <1>3, UpdateRowsEffect
  <2>2. rows[c][s].attempts = 0 => rows[c][s].state = "ready" /\ rows[c][s].visibleIn = 0
    BY <1>3, <2>1 DEF IInv, TableInv
  <2>3. QED
    BY <2>1, <2>2
<1>4. ASSUME NEW c \in Consumers
      PROVE  /\ DOMAIN settled'[c] =
                  DOMAIN settled[c] \cup {s \in DOMAIN rows[c] : <<c, s>> \in none}
             /\ \A s \in DOMAIN settled'[c] : settled'[c][s] # "orphaned"
  BY <1>1, <1>4 DEF IInv, TableInv
<1>5. \A c \in Consumers : \A s \in DOMAIN rows[c] :
        <<c, s>> \in none => c \in DOMAIN cons /\ rows[c][s].attempts > 0
  OBVIOUS
<1> HIDE DEF none
<1>6. QED
  BY <1>1, <1>2, <1>3, <1>4, <1>5, SettlingStep

\* Time keeps the invariant: a row nobody was handed has none left to lose.
LEMMA TickIInv ==
    ASSUME IInv, Tick
    PROVE  IInv'
<1> DEFINE new == [k \in Keys |-> [RowOf(k) EXCEPT !.visibleIn = Dec(@), !.holdLeft = Dec(@)]]
<1>1. UpdateRows({}, new) /\ UNCHANGED <<msgs, next, cons, ghosts>>
  BY DEF Tick
<1>2. ASSUME NEW c \in Consumers, NEW s \in DOMAIN rows[c]
      PROVE  /\ new[<<c, s>>].attempts = rows[c][s].attempts
             /\ rows[c][s].attempts = 0 =>
                  new[<<c, s>>].state = "ready" /\ new[<<c, s>>].visibleIn = 0
  <2>1. <<c, s>> \in Keys /\ RowOf(<<c, s>>) = rows[c][s] /\ rows[c][s] \in Row
    BY <1>2 DEF Keys, RowOf, IInv, TypeOK, AreTables, IsTable
  <2>2. new[<<c, s>>] = [rows[c][s] EXCEPT !.visibleIn = Dec(@), !.holdLeft = Dec(@)]
    BY <2>1
  <2>3. rows[c][s].attempts = 0 => rows[c][s].state = "ready" /\ rows[c][s].visibleIn = 0
    BY <1>2 DEF IInv, TableInv
  <2>4. /\ new[<<c, s>>].attempts = rows[c][s].attempts
        /\ new[<<c, s>>].state = rows[c][s].state
        /\ new[<<c, s>>].visibleIn = Dec(rows[c][s].visibleIn)
    BY <2>1, <2>2 DEF Row
  <2>5. Dec(0) = 0
    BY DEF Dec
  <2> HIDE DEF new
  <2>6. QED
    BY <2>3, <2>4, <2>5
<1>3. TypeOK'
  BY TickType DEF IInv
<1> HIDE DEF new
<1>4. QED
  BY <1>1, <1>2, <1>3, LeaseStep

\* The reclaim at startup keeps the invariant: a lease was handed out.
LEMMA RestartIInv ==
    ASSUME IInv, Restart
    PROVE  IInv'
<1>1. PICK delay \in [Inflight -> Delays] :
        UpdateRows({}, [k \in Inflight |-> ReleasedRow(RowOf(k), delay[k])])
  BY DEF Restart
<1> DEFINE new == [k \in Inflight |-> ReleasedRow(RowOf(k), delay[k])]
<1>2. ASSUME NEW c \in Consumers, NEW s \in DOMAIN rows[c], <<c, s>> \in DOMAIN new
      PROVE  new[<<c, s>>].attempts = rows[c][s].attempts /\ rows[c][s].attempts > 0
  <2>1. <<c, s>> \in Inflight
    BY <1>2
  <2>2. RowOf(<<c, s>>) = rows[c][s] /\ rows[c][s] \in Row
    BY <1>2 DEF RowOf, IInv, TypeOK, AreTables, IsTable
  <2>3. rows[c][s].attempts > 0
    BY <2>1, <2>2, InflightWasClaimed
  <2>4. ReleasedRow(rows[c][s], delay[<<c, s>>]).attempts = rows[c][s].attempts
    BY <2>2 DEF ReleasedRow, Row
  <2>5. QED
    BY <2>1, <2>2, <2>3, <2>4
<1>3. TypeOK'
  BY RestartType DEF IInv
<1>4. UNCHANGED <<msgs, next, cons, ghosts>>
  BY DEF Restart
<1> HIDE DEF new
<1>5. UpdateRows({}, new)
  BY <1>1 DEF new
<1>6. QED
  BY <1>2, <1>3, <1>4, <1>5, LeaseStep

\* Steps that only change what a consumer is configured to do.
LEMMA ConfigStep ==
    ASSUME IInv, TypeOK', DOMAIN cons' = DOMAIN cons,
           \A c \in DOMAIN cons : cons'[c].cursor = cons[c].cursor,
           UNCHANGED <<msgs, next, rows, ghosts>>
    PROVE  IInv'
<1>1. UNCHANGED <<msgs, next, rows, tokens, settled, passed, discarded, Live>>
  BY DEF ghosts, Live
<1>2. ASSUME NEW c \in Consumers PROVE TableInv(c)'
  BY <1>1, <1>2 DEF IInv, TableInv
<1>3. ASSUME NEW c \in DOMAIN cons PROVE PositionInv(c)'
  BY <1>1, <1>3 DEF IInv, PositionInv
<1>4. QED
  BY <1>1, <1>2, <1>3 DEF IInv

\* A create of a name in use keeps the invariant: no position moves.
LEMMA RecreateConsumerIInv ==
    ASSUME IInv, NEW c \in Consumers, NEW cfg \in Configs, RecreateConsumer(c, cfg)
    PROVE  IInv'
<1>1. TypeOK'
  BY RecreateConsumerType DEF IInv
<1>2. c \in DOMAIN cons /\ cons' = [cons EXCEPT ![c] = [cons[c] EXCEPT !.cfg = cfg]]
  BY DEF RecreateConsumer
<1>3. cons[c] \in ConsumerRow
  BY <1>2 DEF IInv, TypeOK, IsTable
<1>4. [cons[c] EXCEPT !.cfg = cfg].cursor = cons[c].cursor
  BY <1>3 DEF ConsumerRow
<1>5. DOMAIN cons' = DOMAIN cons /\ \A d \in DOMAIN cons : cons'[d].cursor = cons[d].cursor
  BY <1>2, <1>4
<1>6. QED
  BY <1>1, <1>5, ConfigStep DEF RecreateConsumer

\* Pause and resume keep the invariant.
LEMMA SetPausedIInv ==
    ASSUME IInv, NEW c \in Consumers, SetPaused(c)
    PROVE  IInv'
<1>1. TypeOK'
  BY SetPausedType DEF IInv
<1>2. c \in DOMAIN cons /\ cons' = [cons EXCEPT ![c] = [cons[c] EXCEPT !.paused = ~cons[c].paused]]
  BY DEF SetPaused
<1>3. cons[c] \in ConsumerRow
  BY <1>2 DEF IInv, TypeOK, IsTable
<1>4. [cons[c] EXCEPT !.paused = ~cons[c].paused].cursor = cons[c].cursor
  BY <1>3 DEF ConsumerRow
<1>5. DOMAIN cons' = DOMAIN cons /\ \A d \in DOMAIN cons : cons'[d].cursor = cons[d].cursor
  BY <1>2, <1>4
<1>6. QED
  BY <1>1, <1>5, ConfigStep DEF SetPaused

-----------------------------------------------------------------------------
(* Publish and fetch.                                                        *)

\* Publish keeps the invariant: the new message is ahead of every cursor.
LEMMA PublishIInv ==
    ASSUME IInv, NEW subject \in Subjects, Publish(subject)
    PROVE  IInv'
<1>1. TypeOK'
  BY PublishType DEF IInv
<1>2. next \in Nat \ {0} /\ next' = next + 1
  BY ConstantsAssumption DEF Publish, IInv, TypeOK
<1>3. Live' = Live \cup {next}
  BY DEF Publish, Live
<1>4. UNCHANGED <<cons, rows, tokens, settled, passed, discarded>>
  BY DEF Publish, ghosts
<1>5. Live' \subseteq 1 .. next' - 1
  BY <1>2, <1>3 DEF IInv
<1>6. ASSUME NEW c \in Consumers PROVE TableInv(c)'
  BY <1>3, <1>4, <1>6 DEF IInv, TableInv
<1>7. ASSUME NEW c \in DOMAIN cons PROVE PositionInv(c)'
  <2>1. PositionInv(c) /\ cons[c].cursor \in Nat
    BY <1>7, CursorType DEF IInv
  <2>2. ASSUME NEW s \in 1 .. next' - 1
        PROVE  \/ s \in discarded' \/ s \in passed'[c]
               \/ s >= cons'[c].cursor /\ s \in Live'
               \/ s < cons'[c].cursor /\ (s \in DOMAIN rows'[c] \/ s \in DOMAIN settled'[c])
    <3>1. CASE s = next
      BY <1>2, <1>3, <1>4, <2>1, <3>1 DEF PositionInv
    <3>2. CASE s # next
      <4>1. s \in 1 .. next - 1
        BY <1>2, <3>2
      <4>2. QED
        BY <1>3, <1>4, <2>1, <4>1 DEF PositionInv
    <3>3. QED
      BY <3>1, <3>2
  <2>3. (cons[c].cursor <= next)'
    BY <1>2, <1>4, <2>1 DEF PositionInv
  <2>4. QED
    BY <1>4, <2>1, <2>2, <2>3 DEF PositionInv
<1>8. QED
  BY <1>1, <1>4, <1>5, <1>6, <1>7 DEF IInv

\* A match past one that flow control declined is declined too.
LEMMA DeclinedIsSuffix ==
    ASSUME TypeOK, NEW c \in DOMAIN cons,
           NEW d \in Declined(c), NEW s \in Matching(c), d < s
    PROVE  s \in Declined(c)
<1> DEFINE M == Matching(c) \ DOMAIN rows[c]
           A == {t \in M : t < d}
           B == {t \in M : t < s}
<1>1. MaxSeq \in Nat /\ Matching(c) \subseteq 0 .. MaxSeq /\ d \in 0 .. MaxSeq /\ s \in 0 .. MaxSeq
  BY WindowType
<1>2. A \subseteq B
  <2>1. ASSUME NEW t \in M, t < d PROVE t < s
    BY <1>1, <2>1
  <2>2. QED
    BY <2>1
<1>3. B \subseteq 0 .. MaxSeq
  BY <1>1
<1> HIDE DEF A, B
<1>4. Cardinality(A) \in Nat /\ Cardinality(B) \in Nat /\ Cardinality(A) <= Cardinality(B)
  BY <1>1, <1>2, <1>3, CutCardinality
<1>5. Pending(c) \in Nat
  <2>1. DOMAIN rows[c] \subseteq 0 .. MaxSeq
    BY WindowType DEF TypeOK, AreTables, IsTable
  <2>2. QED
    BY <1>1, <2>1, CutCardinality DEF Pending
<1>6. cons[c].cfg.maxAckPending \in Nat
  BY DEF TypeOK, IsTable, ConsumerRow, Config
<1>7. Pending(c) + Cardinality(A) >= cons[c].cfg.maxAckPending
  BY DEF Declined, A
<1>8. Pending(c) + Cardinality(B) >= cons[c].cfg.maxAckPending
  BY <1>4, <1>5, <1>6, <1>7
<1>9. QED
  BY <1>8 DEF Declined, B

\* The window is what the stream holds from the cursor on, without gaps.
LEMMA WindowIsPrefix ==
    ASSUME TypeOK, NEW c \in DOMAIN cons
    PROVE  /\ \A w \in Window(c) : w \in Live /\ w >= cons[c].cursor
           /\ \A w \in Window(c), s \in Live : s >= cons[c].cursor /\ s < w => s \in Window(c)
           /\ Cardinality(Window(c)) # ScanLimit =>
                \A s \in Live : s >= cons[c].cursor => s \in Window(c)
<1> DEFINE S == {s \in Live : s >= cons[c].cursor}
<1>1. MaxSeq \in Nat /\ S \subseteq 0 .. MaxSeq
  BY WindowType
<1>2. ScanLimit \in Nat \ {0}
  BY ConstantsAssumption
<1>3. Window(c) = Oldest(S, ScanLimit)
  BY DEF Window
<1>4. \A s \in S : s \in Live /\ s >= cons[c].cursor
  OBVIOUS
<1>5. \A s \in Live : s >= cons[c].cursor => s \in S
  OBVIOUS
<1> HIDE DEF S
<1>6. IsPrefix(Window(c), S)
  BY <1>1, <1>2, <1>3, OldestIsPrefix
<1>7. Cardinality(Window(c)) # ScanLimit => Window(c) = S
  BY <1>1, <1>2, <1>3, ShortCutIsAll
<1>8. QED
  BY <1>4, <1>5, <1>6, <1>7 DEF IsPrefix

\* topUp accounts for every message the cursor moves over: it is admitted, or
\* the filter does not want it; and it admits nothing the cursor stays behind.
LEMMA TopUpIsComplete ==
    ASSUME IInv, NEW c \in DOMAIN cons
    PROVE  /\ cons[c].cursor \in Nat /\ CursorAfterFetch(c) \in Nat /\ next \in Nat
           /\ cons[c].cursor <= CursorAfterFetch(c)
           /\ CursorAfterFetch(c) <= next
           /\ \A s \in Admitted(c) :
                /\ s \in Live /\ s \in Nat
                /\ s >= cons[c].cursor /\ s < CursorAfterFetch(c)
           /\ \A s \in Live : s >= cons[c].cursor /\ s < CursorAfterFetch(c) =>
                s \in Admitted(c) \/ s \in Window(c) \ Matching(c)
<1> DEFINE cursor == cons[c].cursor
<1>1. TypeOK /\ PositionInv(c)
  BY DEF IInv
<1>2. cursor \in Nat /\ next \in Nat /\ cursor <= next /\ CursorAfterFetch(c) \in Nat
  BY <1>1, CursorType, ConstantsAssumption DEF PositionInv, TypeOK
<1>3. \A s \in Live : s \in Nat /\ s < next
  BY <1>2 DEF IInv
<1>4. /\ Window(c) \subseteq Live /\ Matching(c) \subseteq Window(c)
      /\ Declined(c) \subseteq Matching(c)
  BY <1>1, WindowType
<1>5. CASE ~FlowOpen(c)
  <2>1. Admitted(c) = {} /\ CursorAfterFetch(c) = cursor
    BY <1>5 DEF Admitted, CursorAfterFetch
  <2>2. QED
    BY <1>2, <1>3, <2>1
<1>6. CASE FlowOpen(c)
  <2>1. Admitted(c) = Matching(c) \ Declined(c) /\ CursorAfterFetch(c) = NextCursor(c)
    BY <1>6 DEF Admitted, CursorAfterFetch
  <2>2. PICK target :
             /\ NextCursor(c) = IF target < cursor THEN cursor ELSE target
             /\ \/ /\ Declined(c) # {}
                   /\ target \in Declined(c)
                   /\ \A s \in Declined(c) : target <= s
                \/ /\ Declined(c) = {}
                   /\ \E m \in Window(c) : target = m + 1 /\ \A s \in Window(c) : s <= m
                \/ /\ Declined(c) = {}
                   /\ Cardinality(Window(c)) # ScanLimit
                   /\ target = next
    BY <1>1, NextCursorCases
  <2>3. /\ \A w \in Window(c) : w \in Live /\ w >= cursor
        /\ \A w \in Window(c), s \in Live : s >= cursor /\ s < w => s \in Window(c)
        /\ Cardinality(Window(c)) # ScanLimit =>
             \A s \in Live : s >= cursor => s \in Window(c)
    BY <1>1, WindowIsPrefix
  <2> HIDE DEF cursor
  <2>4. CASE /\ target \in Declined(c)
             /\ \A s \in Declined(c) : target <= s
    <3>1. target \in Window(c) /\ target \in Nat /\ target >= cursor /\ target < next
      BY <1>3, <1>4, <2>3, <2>4
    <3>2. NextCursor(c) = target
      BY <1>2, <2>2, <3>1
    <3>3. ASSUME NEW s \in Admitted(c) PROVE s \in Live /\ s \in Nat /\ s >= cursor /\ s < target
      <4>1. s \in Matching(c) /\ s \notin Declined(c) /\ s \in Live /\ s \in Nat /\ s >= cursor
        BY <1>3, <1>4, <2>1, <2>3, <3>3
      <4>2. ~(target < s) /\ s # target
        BY <1>1, <2>4, <4>1, DeclinedIsSuffix
      <4>3. QED
        BY <3>1, <4>1, <4>2
    <3>4. ASSUME NEW s \in Live, s >= cursor, s < target
          PROVE  s \in Admitted(c) \/ s \in Window(c) \ Matching(c)
      <4>1. s \in Window(c) /\ s \in Nat
        BY <1>3, <2>3, <3>1, <3>4
      <4>2. s \notin Declined(c)
        BY <2>4, <3>1, <3>4, <4>1
      <4>3. QED
        BY <2>1, <4>1, <4>2
    <3>5. QED
      BY <1>2, <2>1, <3>1, <3>2, <3>3, <3>4 DEF cursor
  <2>5. CASE /\ Declined(c) = {}
             /\ \E m \in Window(c) : target = m + 1 /\ \A s \in Window(c) : s <= m
    <3>1. PICK m \in Window(c) : target = m + 1 /\ \A s \in Window(c) : s <= m
      BY <2>5
    <3>2. m \in Nat /\ m >= cursor /\ m < next
      BY <1>3, <2>3
    <3>3. NextCursor(c) = m + 1
      BY <1>2, <2>2, <3>1, <3>2
    <3>4. ASSUME NEW s \in Admitted(c) PROVE s \in Live /\ s \in Nat /\ s >= cursor /\ s < m + 1
      <4>1. s \in Window(c) /\ s \in Live /\ s \in Nat /\ s >= cursor /\ s <= m
        BY <1>3, <1>4, <2>1, <2>3, <3>1, <3>4
      <4>2. QED
        BY <3>2, <4>1
    <3>5. ASSUME NEW s \in Live, s >= cursor, s < m + 1
          PROVE  s \in Admitted(c) \/ s \in Window(c) \ Matching(c)
      <4>1. s \in Nat /\ (s < m \/ s = m)
        BY <1>3, <3>2, <3>5
      <4>2. s \in Window(c)
        BY <2>3, <3>5, <4>1
      <4>3. QED
        BY <2>1, <2>5, <4>2
    <3>6. QED
      BY <1>2, <2>1, <3>2, <3>3, <3>4, <3>5 DEF cursor
  <2>6. CASE Declined(c) = {} /\ Cardinality(Window(c)) # ScanLimit /\ target = next
    <3>1. NextCursor(c) = next
      BY <1>2, <2>2, <2>6
    <3>2. ASSUME NEW s \in Admitted(c) PROVE s \in Live /\ s \in Nat /\ s >= cursor /\ s < next
      BY <1>3, <1>4, <2>1, <2>3, <3>2
    <3>3. ASSUME NEW s \in Live, s >= cursor
          PROVE  s \in Admitted(c) \/ s \in Window(c) \ Matching(c)
      BY <2>1, <2>3, <2>6, <3>3
    <3>4. QED
      BY <1>2, <2>1, <3>1, <3>2, <3>3 DEF cursor
  <2>7. QED
    BY <2>2, <2>4, <2>5, <2>6
<1>7. QED
  BY <1>5, <1>6

\* Fetch keeps the invariant: what the cursor passes has a row or is not
\* matched, and claims go oldest first.
LEMMA FetchIInv ==
    ASSUME IInv, NEW c \in Consumers, Fetch(c)
    PROVE  IInv'
<1>1. TypeOK /\ TypeOK' /\ c \in DOMAIN cons /\ PositionInv(c) /\ TableInv(c)
  BY FetchType DEF IInv, Fetch
<1>2. PICK claimed \in Claims(c) :
         /\ rows' = [rows EXCEPT ![c] =
                       [s \in DOMAIN ToppedUp(c) |->
                          IF s \in claimed THEN ClaimedRow(ToppedUp(c)[s])
                          ELSE ToppedUp(c)[s]]]
         /\ cons' = [cons EXCEPT ![c].cursor = CursorAfterFetch(c)]
         /\ tokens' = tokens \cup {TokenFor(c, s) : s \in claimed}
         /\ passed' = [passed EXCEPT ![c] =
                         (@ \ Admitted(c)) \cup
                         {s \in Window(c) \ Matching(c) : s < CursorAfterFetch(c)}]
  BY DEF Fetch
<1>3. UNCHANGED <<msgs, next, settled, discarded, Live>>
  BY DEF Fetch, Live
<1> DEFINE cursor == cons[c].cursor
           after == CursorAfterFetch(c)
<1>4. /\ cursor \in Nat /\ after \in Nat /\ next \in Nat
      /\ cursor <= after /\ after <= next
      /\ \A s \in Admitted(c) : s \in Live /\ s \in Nat /\ s >= cursor /\ s < after
      /\ \A s \in Live : s >= cursor /\ s < after =>
           s \in Admitted(c) \/ s \in Window(c) \ Matching(c)
  BY <1>1, TopUpIsComplete
<1>5. /\ DOMAIN ToppedUp(c) = DOMAIN rows[c] \cup Admitted(c)
      /\ DOMAIN ToppedUp(c) \subseteq Seqs
      /\ \A s \in DOMAIN ToppedUp(c) : ToppedUp(c)[s] \in Row
  BY <1>1, ToppedUpType
<1>6. \A s \in DOMAIN ToppedUp(c) : s \in Nat /\ s < after
  <2>1. \A s \in DOMAIN rows[c] : s < cursor
    BY <1>1 DEF PositionInv
  <2>2. \A s \in Seqs : s \in Nat
    BY ConstantsAssumption DEF Seqs
  <2>3. QED
    BY <1>4, <1>5, <2>1, <2>2
\* The rows before the claim: an old row is as it was, a new one is fresh.
<1>7. ASSUME NEW s \in DOMAIN ToppedUp(c)
      PROVE  \/ s \in DOMAIN rows[c] /\ ToppedUp(c)[s] = rows[c][s]
             \/ /\ s \in Admitted(c) /\ ToppedUp(c)[s].attempts = 0
                /\ ToppedUp(c)[s].state = "ready" /\ ToppedUp(c)[s].visibleIn = 0
  BY <1>5, <1>7 DEF ToppedUp, FreshRow
<1>8. /\ DOMAIN rows'[c] = DOMAIN ToppedUp(c)
      /\ \A s \in DOMAIN ToppedUp(c) :
           rows'[c][s] = IF s \in claimed THEN ClaimedRow(ToppedUp(c)[s]) ELSE ToppedUp(c)[s]
  <2> DEFINE N(s) == IF s \in claimed THEN ClaimedRow(ToppedUp(c)[s]) ELSE ToppedUp(c)[s]
  <2>1. rows'[c] = [s \in DOMAIN ToppedUp(c) |-> N(s)]
    BY <1>1, <1>2 DEF TypeOK, AreTables
  <2> HIDE DEF N
  <2>2. DOMAIN rows'[c] = DOMAIN ToppedUp(c) /\ \A s \in DOMAIN ToppedUp(c) : rows'[c][s] = N(s)
    BY <2>1
  <2>3. QED
    BY <2>2 DEF N
<1>9. \A s \in claimed : s \in DOMAIN ToppedUp(c) /\ rows'[c][s].attempts > 0
  <2>1. ASSUME NEW s \in claimed PROVE s \in DOMAIN ToppedUp(c)
    BY DEF Claims, Claimable
  <2>2. ASSUME NEW s \in claimed PROVE rows'[c][s].attempts > 0
    <3>1. rows'[c][s] = ClaimedRow(ToppedUp(c)[s]) /\ ToppedUp(c)[s].attempts \in Nat
      BY <1>5, <1>8, <2>1 DEF Row
    <3>2. ClaimedRow(ToppedUp(c)[s]).attempts = ToppedUp(c)[s].attempts + 1
      BY DEF ClaimedRow
    <3>3. QED
      BY <3>1, <3>2
  <2>3. QED
    BY <2>1, <2>2
<1>10. ASSUME NEW d \in Consumers, d # c
       PROVE  /\ rows'[d] = rows[d] /\ passed'[d] = passed[d]
              /\ d \in DOMAIN cons => cons'[d] = cons[d]
  BY <1>2, <1>10 DEF TypeOK, AreTables, IInv
<1>11. DOMAIN cons' = DOMAIN cons /\ cons'[c].cursor = after
  <2>1. cons[c] \in ConsumerRow
    BY <1>1 DEF TypeOK, IsTable
  <2>2. QED
    BY <1>1, <1>2, <2>1 DEF ConsumerRow
<1>12. passed'[c] = (passed[c] \ Admitted(c)) \cup {s \in Window(c) \ Matching(c) : s < after}
  BY <1>1, <1>2 DEF TypeOK
<1>13. ASSUME NEW t \in tokens' PROVE t.attempt > 0
  <2>1. CASE t \in tokens
    BY <2>1 DEF IInv
  <2>2. CASE \E s \in claimed : t = TokenFor(c, s)
    <3>1. PICK s \in claimed : t = TokenFor(c, s)
      BY <2>2
    <3>2. ToppedUp(c)[s].attempts \in Nat
      BY <1>5, <1>9 DEF Row
    <3>3. QED
      BY <3>1, <3>2 DEF TokenFor
  <2>3. QED
    BY <1>2, <1>13, <2>1, <2>2
<1> HIDE DEF cursor, after
<1>14. ASSUME NEW s \in DOMAIN rows'[c], rows'[c][s].attempts = 0
       PROVE  /\ s \notin claimed /\ rows'[c][s] = ToppedUp(c)[s]
              /\ s \in Live /\ rows'[c][s].state = "ready" /\ rows'[c][s].visibleIn = 0
  <2>1. s \in DOMAIN ToppedUp(c) /\ s \notin claimed
    BY <1>8, <1>9, <1>14
  <2>2. rows'[c][s] = ToppedUp(c)[s]
    BY <1>8, <2>1
  <2>3. QED
    BY <1>1, <1>4, <1>7, <1>14, <2>1, <2>2 DEF TableInv
<1>15. TableInv(c)'
  <2>1. DOMAIN rows'[c] \subseteq Live
    BY <1>1, <1>4, <1>5, <1>8 DEF TableInv
  <2>2. QED
    BY <1>1, <1>3, <1>11, <1>14, <2>1 DEF TableInv
<1>16. PositionInv(c)'
  <2>1. (cons[c].cursor <= next)'
    BY <1>3, <1>4, <1>11
  <2>2. ASSUME NEW s \in DOMAIN rows'[c] PROVE s < cons'[c].cursor
    BY <1>6, <1>8, <1>11, <2>2 DEF after
  <2>3. ASSUME NEW s \in DOMAIN settled'[c]
        PROVE  s < cons'[c].cursor /\ s \notin DOMAIN rows'[c]
    <3>1. s \in DOMAIN settled[c] /\ s < cursor /\ s \notin DOMAIN rows[c]
      BY <1>1, <1>3, <2>3 DEF PositionInv, cursor
    <3>2. s \in Nat
      <4>1. s \in Seqs
        BY <1>1, <3>1 DEF TypeOK, AreTables, IsTable
      <4>2. QED
        BY <4>1, ConstantsAssumption DEF Seqs
    <3>3. QED
      BY <1>4, <1>5, <1>8, <1>11, <3>1, <3>2
  <2>4. ASSUME NEW s \in DOMAIN rows'[c], rows'[c][s].attempts = 0
        PROVE  /\ \A t \in DOMAIN settled'[c] : t < s
               /\ \A t \in DOMAIN rows'[c] : rows'[c][t].attempts > 0 => t < s
    <3>1. /\ s \notin claimed /\ rows'[c][s] = ToppedUp(c)[s] /\ s \in DOMAIN ToppedUp(c)
          /\ s \in Live /\ rows'[c][s].state = "ready" /\ rows'[c][s].visibleIn = 0 /\ s \in Nat
      BY <1>6, <1>8, <1>14, <2>4
    <3>2. s \in Claimable(c)
      BY <3>1 DEF Claimable
    <3>3. \/ s \in DOMAIN rows[c] /\ rows[c][s].attempts = 0
          \/ s \in Admitted(c) /\ s >= cursor
      BY <1>4, <1>7, <2>4, <3>1
    <3>4. ASSUME NEW t \in DOMAIN settled'[c] PROVE t < s
      <4>1. t \in DOMAIN settled[c] /\ t < cursor
        BY <1>1, <1>3, <3>4 DEF PositionInv, cursor
      <4>2. t \in Nat
        <5>1. t \in Seqs
          BY <1>1, <4>1 DEF TypeOK, AreTables, IsTable
        <5>2. QED
          BY <5>1, ConstantsAssumption DEF Seqs
      <4>3. CASE s \in DOMAIN rows[c] /\ rows[c][s].attempts = 0
        BY <1>1, <4>1, <4>3 DEF PositionInv
      <4>4. CASE s >= cursor
        BY <1>4, <3>1, <4>1, <4>2, <4>4
      <4>5. QED
        BY <3>3, <4>3, <4>4
    <3>5. ASSUME NEW t \in DOMAIN rows'[c], rows'[c][t].attempts > 0 PROVE t < s
      <4>1. t \in DOMAIN ToppedUp(c) /\ t \in Nat
        BY <1>6, <1>8, <3>5
      <4>2. CASE t \in claimed
        <5>1. IsPrefix(claimed, Claimable(c))
          BY DEF Claims
        <5>2. ~(s < t) /\ s # t
          BY <3>1, <3>2, <4>2, <5>1 DEF IsPrefix
        <5>3. QED
          BY <3>1, <4>1, <5>2
      <4>3. CASE t \notin claimed
        <5>1. rows'[c][t] = ToppedUp(c)[t]
          BY <1>8, <4>1, <4>3
        <5>2. t \in DOMAIN rows[c] /\ rows[c][t].attempts > 0
          BY <1>7, <3>5, <4>1, <5>1
        <5>3. t < cursor
          BY <1>1, <5>2 DEF PositionInv, cursor
        <5>4. CASE s \in DOMAIN rows[c] /\ rows[c][s].attempts = 0
          BY <1>1, <5>2, <5>4 DEF PositionInv
        <5>5. CASE s >= cursor
          BY <1>4, <3>1, <4>1, <5>3, <5>5
        <5>6. QED
          BY <3>3, <5>4, <5>5
      <4>4. QED
        BY <4>2, <4>3
    <3>6. QED
      BY <3>4, <3>5
  <2>5. ASSUME NEW s \in 1 .. next' - 1
        PROVE  \/ s \in discarded' \/ s \in passed'[c]
               \/ s >= cons'[c].cursor /\ s \in Live'
               \/ s < cons'[c].cursor /\ (s \in DOMAIN rows'[c] \/ s \in DOMAIN settled'[c])
    <3>1. s \in Nat
      BY <1>3, <1>4, <2>5
    <3>2. \/ s \in discarded \/ s \in passed[c]
          \/ s >= cursor /\ s \in Live
          \/ s < cursor /\ (s \in DOMAIN rows[c] \/ s \in DOMAIN settled[c])
      BY <1>1, <1>3, <2>5 DEF PositionInv, cursor
    <3>3. s \in Admitted(c) => s < after /\ s \in DOMAIN rows'[c]
      BY <1>4, <1>5, <1>8
    <3>4. CASE s \in passed[c]
      BY <1>11, <1>12, <3>3, <3>4
    <3>5. CASE s >= cursor /\ s \in Live
      <4>1. CASE s >= after
        BY <1>3, <1>11, <3>5, <4>1
      <4>2. CASE s < after
        BY <1>4, <1>11, <1>12, <3>3, <3>5, <4>2
      <4>3. QED
        BY <1>4, <3>1, <4>1, <4>2
    <3>6. CASE s < cursor /\ (s \in DOMAIN rows[c] \/ s \in DOMAIN settled[c])
      BY <1>3, <1>4, <1>5, <1>8, <1>11, <3>1, <3>6
    <3>7. QED
      BY <1>3, <3>2, <3>4, <3>5, <3>6
  <2>6. QED
    BY <2>1, <2>2, <2>3, <2>4, <2>5 DEF PositionInv
<1>17. ASSUME NEW d \in Consumers PROVE TableInv(d)'
  BY <1>3, <1>10, <1>11, <1>15, <1>17 DEF TableInv, IInv
<1>18. ASSUME NEW d \in DOMAIN cons PROVE PositionInv(d)'
  <2>1. d \in Consumers /\ PositionInv(d)
    BY <1>1, <1>18 DEF TypeOK, IsTable, IInv
  <2>2. CASE d = c
    BY <1>16, <2>2
  <2>3. CASE d # c
    BY <1>3, <1>10, <1>18, <2>1, <2>3 DEF PositionInv
  <2>4. QED
    BY <2>2, <2>3
<1>19. Live' \subseteq 1 .. next' - 1
  BY <1>3 DEF IInv
<1>20. QED
  BY <1>1, <1>11, <1>13, <1>17, <1>18, <1>19 DEF IInv

-----------------------------------------------------------------------------
(* Consumer administration.                                                  *)

\* A consumer that starts at target has no rows and is owed what is live there.
LEMMA StartedOver ==
    ASSUME IInv, NEW c \in Consumers, NEW target \in FirstSeq .. next, StartOver(c, target),
           cons'[c].cursor = target, rows'[c] = EmptyFun, c \in DOMAIN cons',
           UNCHANGED <<msgs, next, discarded>>
    PROVE  TableInv(c)' /\ PositionInv(c)'
<1>1. DOMAIN rows'[c] = {} /\ DOMAIN settled'[c] = {}
  BY DEF StartOver, EmptyFun, IInv, TypeOK, AreTables
<1>2. passed'[c] = {s \in 1 .. next - 1 : s < target \/ s \notin Live}
  BY DEF StartOver, IInv, TypeOK
<1>3. Live' = Live
  BY DEF Live
<1>4. TableInv(c)'
  BY <1>1 DEF TableInv
<1>5. target \in Nat /\ next \in Nat /\ target <= next
  <2>1. target \in Nat /\ next \in Nat
    BY TargetType, ConstantsAssumption DEF IInv, TypeOK
  <2>2. QED
    BY <2>1
<1>6. ASSUME NEW s \in 1 .. next' - 1
      PROVE  s \in passed'[c] \/ (s >= cons'[c].cursor /\ s \in Live')
  BY <1>2, <1>3, <1>5, <1>6
<1>7. PositionInv(c)'
  BY <1>1, <1>5, <1>6 DEF PositionInv
<1>8. QED
  BY <1>4, <1>7

\* One consumer's step leaves the other consumers' parts of the invariant.
LEMMA OthersKept ==
    ASSUME IInv, NEW d \in Consumers, UNCHANGED <<msgs, next, discarded>>,
           rows'[d] = rows[d], settled'[d] = settled[d], passed'[d] = passed[d],
           d \in DOMAIN cons' <=> d \in DOMAIN cons,
           d \in DOMAIN cons => cons'[d] = cons[d]
    PROVE  TableInv(d)' /\ (d \in DOMAIN cons' => PositionInv(d)')
<1>1. Live' = Live
  BY DEF Live
<1>2. TableInv(d)'
  BY <1>1 DEF IInv, TableInv
<1>3. d \in DOMAIN cons' => PositionInv(d)'
  BY <1>1 DEF IInv, PositionInv
<1>4. QED
  BY <1>2, <1>3

\* Create keeps the invariant: the consumer starts over at its target.
LEMMA CreateConsumerIInv ==
    ASSUME IInv, NEW c \in Consumers, NEW cfg \in Configs, NEW target,
           CreateConsumer(c, cfg, target)
    PROVE  IInv'
<1>1. TypeOK'
  BY CreateConsumerType DEF IInv
<1>2. DOMAIN cons' = DOMAIN cons \cup {c} /\ cons'[c].cursor = target
      /\ \A d \in DOMAIN cons : cons'[d] = cons[d]
  BY DEF CreateConsumer
<1>3. UNCHANGED <<msgs, next, discarded, tokens, Live>>
  BY DEF CreateConsumer, Live
<1>4. rows' = rows /\ rows[c] = EmptyFun
  <2>1. rows' = rows /\ DOMAIN rows[c] = {}
    BY DEF CreateConsumer, IInv, TableInv
  <2>2. rows[c] = [s \in {} |-> rows[c][s]]
    BY <2>1 DEF IInv, TypeOK, AreTables, IsTable
  <2>3. QED
    BY <2>1, <2>2 DEF EmptyFun
<1>5. TableInv(c)' /\ PositionInv(c)'
  BY <1>2, <1>3, <1>4, StartedOver DEF CreateConsumer
<1>6. ASSUME NEW d \in Consumers, d # c
      PROVE  TableInv(d)' /\ (d \in DOMAIN cons' => PositionInv(d)')
  <2>1. settled'[d] = settled[d] /\ passed'[d] = passed[d]
    BY <1>6 DEF CreateConsumer, StartOver, IInv, TypeOK, AreTables
  <2>2. QED
    BY <1>2, <1>3, <1>4, <1>6, <2>1, OthersKept
<1>7. \A d \in DOMAIN cons' : d \in Consumers
  BY <1>1 DEF TypeOK, IsTable
<1>8. QED
  BY <1>1, <1>3, <1>5, <1>6, <1>7 DEF IInv

\* Seek keeps the invariant: the consumer starts over at its target.
LEMMA SeekIInv ==
    ASSUME IInv, NEW c \in Consumers, NEW target, Seek(c, target)
    PROVE  IInv'
<1>1. TypeOK' /\ c \in DOMAIN cons
  BY SeekType DEF IInv, Seek
<1>2. cons[c] \in ConsumerRow
  BY <1>1 DEF IInv, TypeOK, IsTable
<1>3. cons' = [cons EXCEPT ![c] = [cons[c] EXCEPT !.cursor = target, !.gen = cons[c].gen + 1]]
  BY <1>1 DEF Seek
<1>4. [cons[c] EXCEPT !.cursor = target, !.gen = cons[c].gen + 1].cursor = target
  BY <1>2 DEF ConsumerRow
<1>5. DOMAIN cons' = DOMAIN cons /\ cons'[c].cursor = target
      /\ \A d \in DOMAIN cons : d # c => cons'[d] = cons[d]
  BY <1>1, <1>3, <1>4
<1>6. UNCHANGED <<msgs, next, discarded, tokens, Live>>
  BY DEF Seek, Live
<1>7. rows'[c] = EmptyFun /\ \A d \in Consumers : d # c => rows'[d] = rows[d]
  BY DEF Seek, IInv, TypeOK, AreTables
<1>8. TableInv(c)' /\ PositionInv(c)'
  BY <1>1, <1>5, <1>6, <1>7, StartedOver DEF Seek
<1>9. ASSUME NEW d \in Consumers, d # c
      PROVE  TableInv(d)' /\ (d \in DOMAIN cons' => PositionInv(d)')
  <2>1. settled'[d] = settled[d] /\ passed'[d] = passed[d]
    BY <1>9 DEF Seek, StartOver, IInv, TypeOK, AreTables
  <2>2. QED
    BY <1>5, <1>6, <1>7, <1>9, <2>1, OthersKept
<1>10. \A d \in DOMAIN cons' : d \in Consumers
  BY <1>1 DEF TypeOK, IsTable
<1>11. QED
  BY <1>1, <1>6, <1>8, <1>9, <1>10 DEF IInv

\* Delete keeps the invariant: no row of the consumer is left.
LEMMA DeleteConsumerIInv ==
    ASSUME IInv, NEW c \in Consumers, DeleteConsumer(c)
    PROVE  IInv'
<1>1. TypeOK'
  BY DeleteConsumerType DEF IInv
<1>2. DOMAIN cons' = DOMAIN cons \ {c} /\ \A d \in DOMAIN cons' : cons'[d] = cons[d]
  BY DEF DeleteConsumer
<1>3. UNCHANGED <<msgs, next, discarded, tokens, settled, passed, Live>>
  BY DEF DeleteConsumer, ghosts, Live
<1>4. rows'[c] = EmptyFun /\ \A d \in Consumers : d # c => rows'[d] = rows[d]
  BY DEF DeleteConsumer, IInv, TypeOK, AreTables
<1>5. TableInv(c)' /\ c \notin DOMAIN cons'
  <2>1. DOMAIN rows'[c] = {}
    BY <1>4 DEF EmptyFun
  <2>2. QED
    BY <1>2, <1>3, <2>1 DEF IInv, TableInv
<1>6. ASSUME NEW d \in Consumers, d # c
      PROVE  TableInv(d)' /\ (d \in DOMAIN cons' => PositionInv(d)')
  BY <1>2, <1>3, <1>4, <1>6, OthersKept
<1>7. \A d \in DOMAIN cons' : d \in Consumers
  BY <1>1 DEF TypeOK, IsTable
<1>8. QED
  BY <1>1, <1>3, <1>5, <1>6, <1>7 DEF IInv

\* What a shrink leaves lies below what it drops: the dropped rows are the
\* newest of those nobody was handed, and all others are older.
LEMMA ShrinkDropsSuffix ==
    ASSUME IInv, NEW c \in DOMAIN cons, NEW cfg \in Config, Dropped(c, cfg) # {}
    PROVE  /\ Min(Dropped(c, cfg)) \in DOMAIN rows[c]
           /\ Min(Dropped(c, cfg)) \in Nat
           /\ \A s \in DOMAIN rows[c] \ Dropped(c, cfg) : s < Min(Dropped(c, cfg))
           /\ \A s \in Dropped(c, cfg) : s >= Min(Dropped(c, cfg))
           /\ \A s \in DOMAIN settled[c] : s < Min(Dropped(c, cfg))
<1> DEFINE D == Dropped(c, cfg)
           m == Min(D)
           n == Pending(c) - cfg.maxAckPending
<1>1. TypeOK /\ PositionInv(c) /\ c \in Consumers /\ TableInv(c)
  BY DEF IInv, TypeOK, IsTable
<1>2. MaxSeq \in Nat /\ DOMAIN rows[c] \subseteq 0 .. MaxSeq
  BY <1>1, WindowType DEF TypeOK, AreTables, IsTable
<1>3. D = Newest(Droppable(c), n) /\ Pending(c) > cfg.maxAckPending
  BY DEF Dropped
<1>4. n \in Nat
  <2>1. Pending(c) \in Nat
    BY <1>2, CutCardinality DEF Pending
  <2>2. cfg.maxAckPending \in Nat
    BY DEF Config
  <2>3. QED
    BY <1>3, <2>1, <2>2
<1>5. Droppable(c) \subseteq DOMAIN rows[c] /\ D \subseteq Droppable(c)
  BY <1>3 DEF Droppable, Newest
<1>6. \A s \in DOMAIN rows[c] : s \in Nat
  BY <1>2
<1> HIDE DEF D, n
<1>7. m \in D /\ \A s \in D : m <= s
  <2>1. D # {} /\ D \subseteq Nat
    BY <1>5, <1>6 DEF D
  <2>2. QED
    BY <2>1, MinIsLeast
<1> HIDE DEF m
<1>8. m \in DOMAIN rows[c] /\ m \in Nat /\ rows[c][m].attempts = 0
  BY <1>5, <1>6, <1>7 DEF Droppable
<1>9. ASSUME NEW s \in DOMAIN rows[c], s \notin D PROVE s < m
  <2>1. rows[c][s].attempts \in Nat
    BY <1>1, <1>9 DEF TypeOK, AreTables, IsTable, Row
  <2>2. CASE rows[c][s].attempts > 0
    BY <1>1, <1>8, <1>9, <2>2 DEF PositionInv
  <2>3. CASE rows[c][s].attempts = 0
    <3>1. s \in Droppable(c)
      BY <1>1, <1>9, <2>3 DEF TableInv, Droppable
    <3>2. ~(m < s) /\ s # m
      <4>1. Droppable(c) \subseteq 0 .. MaxSeq
        BY <1>2, <1>5
      <4>2. m < s => s \in D
        BY <1>2, <1>3, <1>4, <1>7, <3>1, <4>1, NewestIsSuffix
      <4>3. QED
        BY <1>7, <1>9, <4>2
    <3>3. QED
      BY <1>6, <1>8, <3>2
  <2>4. QED
    BY <2>1, <2>2, <2>3
<1>10. ASSUME NEW s \in DOMAIN settled[c] PROVE s < m
  BY <1>1, <1>8, <1>10 DEF PositionInv
<1>11. ASSUME NEW s \in D PROVE s >= m
  BY <1>5, <1>6, <1>7, <1>8, <1>11
<1>12. QED
  BY <1>8, <1>9, <1>10, <1>11 DEF m, D

\* Update keeps the invariant: the rewind of a shrink takes the cursor back
\* over rows that are dropped and messages that are still stored.
LEMMA UpdateConsumerIInv ==
    ASSUME IInv, NEW c \in Consumers, NEW cfg \in Configs, UpdateConsumer(c, cfg)
    PROVE  IInv'
<1> DEFINE D == Dropped(c, cfg)
           m == ShrunkCursor(c, D)
<1>1. TypeOK /\ TypeOK' /\ c \in DOMAIN cons /\ cfg \in Config /\ PositionInv(c) /\ TableInv(c)
  BY UpdateConsumerType, ConstantsAssumption DEF IInv, UpdateConsumer
<1>2. UNCHANGED <<msgs, next, tokens, settled, passed, discarded, Live>>
  BY DEF UpdateConsumer, ghosts, Live
<1>3. cons' = [cons EXCEPT ![c] = [cons[c] EXCEPT !.cfg = cfg, !.cursor = m]]
  BY <1>1 DEF UpdateConsumer
<1>4. UpdateRows({c} \X D, NoNewRows)
  BY DEF UpdateConsumer
<1>5. D \subseteq DOMAIN rows[c] /\ m \in Nat
  BY <1>1, ShrunkCursorType
<1>6. cons[c].cursor \in Nat /\ next \in Nat /\ cons[c].cursor <= next
  BY <1>1, CursorType, ConstantsAssumption DEF TypeOK, PositionInv
<1>7. \A s \in Seqs : s \in Nat
  BY ConstantsAssumption DEF Seqs
<1>8. \A s \in DOMAIN rows[c] : s \in Nat
  BY <1>1, <1>7 DEF TypeOK, AreTables, IsTable
\* Where the cursor is after the shrink.
<1>9. /\ m <= cons[c].cursor
      /\ \A s \in DOMAIN rows[c] \ D : s < m
      /\ \A s \in D : s >= m
      /\ \A s \in DOMAIN settled[c] : s < m
  <2>1. CASE D = {}
    <3>1. m = cons[c].cursor
      BY <2>1 DEF ShrunkCursor
    <3>2. QED
      BY <1>1, <1>6, <2>1, <3>1 DEF PositionInv
  <2>2. CASE D # {}
    <3>1. m = Min(D)
      BY <2>2 DEF ShrunkCursor
    <3>2. /\ m \in DOMAIN rows[c]
          /\ \A s \in DOMAIN rows[c] \ D : s < m
          /\ \A s \in D : s >= m
          /\ \A s \in DOMAIN settled[c] : s < m
      BY <1>1, <2>2, <3>1, ShrinkDropsSuffix
    <3>3. m < cons[c].cursor
      BY <1>1, <3>2 DEF PositionInv
    <3>4. QED
      BY <1>5, <1>6, <3>2, <3>3
  <2>3. QED
    BY <2>1, <2>2
<1> HIDE DEF D, m
<1>10. DOMAIN cons' = DOMAIN cons /\ cons'[c].cursor = m
       /\ \A d \in DOMAIN cons : d # c => cons'[d] = cons[d]
  <2>1. cons[c] \in ConsumerRow
    BY <1>1 DEF TypeOK, IsTable
  <2>2. [cons[c] EXCEPT !.cfg = cfg, !.cursor = m].cursor = m
    BY <2>1 DEF ConsumerRow
  <2>3. QED
    BY <1>1, <1>3, <2>2
<1>11. DOMAIN rows'[c] = DOMAIN rows[c] \ D /\ \A s \in DOMAIN rows'[c] : rows'[c][s] = rows[c][s]
  <2>1. /\ DOMAIN rows'[c] = {s \in DOMAIN rows[c] : <<c, s>> \notin {c} \X D}
        /\ \A s \in DOMAIN rows'[c] : rows'[c][s] = rows[c][s]
    BY <1>4, DropEffect
  <2>2. QED
    BY <2>1
<1>12. ASSUME NEW d \in Consumers, d # c PROVE rows'[d] = rows[d]
  <2>1. /\ DOMAIN rows'[d] = {s \in DOMAIN rows[d] : <<d, s>> \notin {c} \X D}
        /\ \A s \in DOMAIN rows'[d] : rows'[d][s] = rows[d][s]
    BY <1>4, <1>12, DropEffect
  <2>2. DOMAIN rows'[d] = DOMAIN rows[d]
    BY <1>12, <2>1
  <2>3. rows[d] = [s \in DOMAIN rows[d] |-> rows[d][s]]
        /\ rows'[d] = [s \in DOMAIN rows'[d] |-> rows'[d][s]]
    BY <1>1, <1>12 DEF TypeOK, AreTables, IsTable
  <2>4. QED
    BY <2>1, <2>2, <2>3
<1>13. TableInv(c)'
  BY <1>1, <1>2, <1>10, <1>11 DEF TableInv
<1>14. PositionInv(c)'
  <2>1. (cons[c].cursor <= next)'
    BY <1>2, <1>5, <1>6, <1>9, <1>10
  <2>2. (\A s \in DOMAIN rows[c] : s < cons[c].cursor)'
    BY <1>9, <1>10, <1>11
  <2>3. (\A s \in DOMAIN settled[c] : s < cons[c].cursor /\ s \notin DOMAIN rows[c])'
    BY <1>1, <1>2, <1>9, <1>10, <1>11 DEF PositionInv
  <2>4. (\A s \in DOMAIN rows[c] : rows[c][s].attempts = 0 =>
          /\ \A t \in DOMAIN settled[c] : t < s
          /\ \A t \in DOMAIN rows[c] : rows[c][t].attempts > 0 => t < s)'
    BY <1>1, <1>2, <1>11 DEF PositionInv
  <2>5. ASSUME NEW s \in 1 .. next' - 1
        PROVE  \/ s \in discarded' \/ s \in passed'[c]
               \/ s >= cons'[c].cursor /\ s \in Live'
               \/ s < cons'[c].cursor /\ (s \in DOMAIN rows'[c] \/ s \in DOMAIN settled'[c])
    <3>1. s \in Nat
      BY <1>2, <1>6, <2>5
    <3>2. \/ s \in discarded \/ s \in passed[c]
          \/ s >= cons[c].cursor /\ s \in Live
          \/ s < cons[c].cursor /\ (s \in DOMAIN rows[c] \/ s \in DOMAIN settled[c])
      BY <1>1, <1>2, <2>5 DEF PositionInv
    <3>3. CASE s >= cons[c].cursor /\ s \in Live
      BY <1>2, <1>5, <1>6, <1>9, <1>10, <3>1, <3>3
    <3>4. CASE s \in DOMAIN rows[c]
      BY <1>1, <1>2, <1>9, <1>10, <1>11, <3>4 DEF TableInv
    <3>5. CASE s \in DOMAIN settled[c]
      BY <1>2, <1>9, <1>10, <3>5
    <3>6. QED
      BY <1>2, <3>2, <3>3, <3>4, <3>5
  <2>6. QED
    BY <2>1, <2>2, <2>3, <2>4, <2>5 DEF PositionInv
<1>15. ASSUME NEW d \in Consumers, d # c
       PROVE  TableInv(d)' /\ (d \in DOMAIN cons' => PositionInv(d)')
  BY <1>2, <1>10, <1>12, <1>15, OthersKept
<1>16. \A d \in DOMAIN cons' : d \in Consumers
  BY <1>1 DEF TypeOK, IsTable
<1>17. QED
  BY <1>1, <1>2, <1>13, <1>14, <1>15, <1>16 DEF IInv

-----------------------------------------------------------------------------
(* Purge and retention.                                                      *)

\* Deleting messages together with their rows keeps the invariant if every
\* message a consumer is still owed is recorded as discarded, and cursors only
\* move forward over what is deleted.
LEMMA DeletingStep ==
    ASSUME IInv, TypeOK', NEW S,
           Live' = Live \ S,
           UNCHANGED <<next, tokens, settled, passed>>,
           discarded \subseteq discarded',
           DOMAIN cons' = DOMAIN cons,
           \A c \in DOMAIN cons : cons[c].cursor <= cons'[c].cursor /\ cons'[c].cursor <= next,
           \A c \in DOMAIN cons : \A s \in Live \ S :
             s >= cons[c].cursor => s >= cons'[c].cursor,
           \A c \in Consumers : DOMAIN rows'[c] = DOMAIN rows[c] \ S,
           \A c \in Consumers : \A s \in DOMAIN rows'[c] : rows'[c][s] = rows[c][s],
           \A c \in DOMAIN cons : \A s \in S :
             s \in discarded' \/ (s < cons[c].cursor /\ s \notin DOMAIN rows[c])
    PROVE  IInv'
<1>1. ASSUME NEW c \in Consumers PROVE TableInv(c)'
  BY <1>1 DEF IInv, TableInv
<1>2. ASSUME NEW c \in DOMAIN cons PROVE PositionInv(c)'
  <2>1. c \in Consumers /\ PositionInv(c)
    BY <1>2 DEF IInv, TypeOK, IsTable
  <2>2. cons[c].cursor \in Nat /\ cons'[c].cursor \in Nat /\ next \in Nat
    BY <1>2, ConstantsAssumption DEF IInv, TypeOK, IsTable, ConsumerRow
  <2>3. ASSUME NEW s \in Seqs, s < cons[c].cursor PROVE s < cons'[c].cursor
    BY <1>2, <2>2, <2>3, ConstantsAssumption DEF Seqs
  <2>4. DOMAIN rows[c] \subseteq Seqs /\ DOMAIN settled[c] \subseteq Seqs
    BY <2>1 DEF IInv, TypeOK, AreTables, IsTable
  <2>5. (cons[c].cursor <= next)'
    BY <1>2
  <2>6. (\A s \in DOMAIN rows[c] : s < cons[c].cursor)'
    BY <2>1, <2>3, <2>4 DEF PositionInv
  <2>7. (\A s \in DOMAIN settled[c] : s < cons[c].cursor /\ s \notin DOMAIN rows[c])'
    BY <2>1, <2>3, <2>4 DEF PositionInv
  <2>8. (\A s \in DOMAIN rows[c] : rows[c][s].attempts = 0 =>
          /\ \A t \in DOMAIN settled[c] : t < s
          /\ \A t \in DOMAIN rows[c] : rows[c][t].attempts > 0 => t < s)'
    BY <2>1 DEF PositionInv
  <2>9. ASSUME NEW s \in 1 .. next' - 1
        PROVE  \/ s \in discarded' \/ s \in passed'[c]
               \/ s >= cons'[c].cursor /\ s \in Live'
               \/ s < cons'[c].cursor /\ (s \in DOMAIN rows'[c] \/ s \in DOMAIN settled'[c])
    <3>1. \/ s \in discarded \/ s \in passed[c]
          \/ s >= cons[c].cursor /\ s \in Live
          \/ s < cons[c].cursor /\ (s \in DOMAIN rows[c] \/ s \in DOMAIN settled[c])
      BY <2>1, <2>9 DEF PositionInv
    <3>2. s \in Nat
      BY <2>2, <2>9
    <3>3. CASE s >= cons[c].cursor /\ s \in Live
      BY <1>2, <2>2, <3>2, <3>3
    <3>4. CASE s < cons[c].cursor /\ s \in DOMAIN rows[c]
      BY <1>2, <2>1, <2>3, <2>4, <3>4
    <3>5. CASE s < cons[c].cursor /\ s \in DOMAIN settled[c]
      BY <2>3, <2>4, <3>5
    <3>6. QED
      BY <3>1, <3>3, <3>4, <3>5
  <2>10. QED
    BY <2>5, <2>6, <2>7, <2>8, <2>9 DEF PositionInv
<1>3. Live' \subseteq 1 .. next' - 1
  BY DEF IInv
<1>4. QED
  BY <1>1, <1>2, <1>3 DEF IInv

\* The range purge keeps the invariant: cursors move past what is gone.
LEMMA PurgeRangeIInv ==
    ASSUME IInv, NEW upper \in Seqs, PurgeRange(upper)
    PROVE  IInv'
<1> DEFINE S == {s \in Live : s <= upper}
           doomed == {s \in Seqs : s <= upper}
<1>1. TypeOK /\ TypeOK'
  BY PurgeRangeType DEF IInv
<1>2. /\ DeleteMessages(S)
      /\ UpdateRows(Consumers \X doomed, NoNewRows)
      /\ upper < next
      /\ cons' = [c \in DOMAIN cons |->
                    [cons[c] EXCEPT !.gen = GenAfterPurge(c, doomed),
                                    !.cursor = ClampedCursor(c, upper)]]
  BY DEF PurgeRange
<1>3. upper \in Nat /\ next \in Nat
  BY <1>1, ConstantsAssumption DEF TypeOK, Seqs
<1>4. Live' = Live \ S /\ discarded' = discarded \cup S
      /\ UNCHANGED <<next, tokens, settled, passed>>
  BY <1>2 DEF DeleteMessages, Live
<1>5. DOMAIN cons' = DOMAIN cons
  BY <1>2
<1>6. ASSUME NEW c \in DOMAIN cons
      PROVE  cons'[c].cursor = ClampedCursor(c, upper) /\ cons[c].cursor \in Nat
             /\ cons[c].cursor <= next
  <2>1. cons[c] \in ConsumerRow /\ PositionInv(c)
    BY <1>1, <1>6 DEF TypeOK, IsTable, IInv
  <2>2. [cons[c] EXCEPT !.gen = GenAfterPurge(c, doomed), !.cursor = ClampedCursor(c, upper)].cursor
          = ClampedCursor(c, upper)
    BY <2>1 DEF ConsumerRow
  <2>3. cons[c].cursor \in Nat
    BY <2>1, ConsumerRowType
  <2>4. QED
    BY <1>2, <1>6, <2>1, <2>2, <2>3 DEF PositionInv
<1>7. ASSUME NEW c \in DOMAIN cons
      PROVE  cons[c].cursor <= cons'[c].cursor /\ cons'[c].cursor <= next
  <2>1. upper < next /\ cons[c].cursor \in Nat /\ cons[c].cursor <= next
        /\ cons'[c].cursor = ClampedCursor(c, upper)
    BY <1>2, <1>6, <1>7
  <2>2. QED
    BY <1>3, <2>1 DEF ClampedCursor
<1>8. ASSUME NEW c \in DOMAIN cons, NEW s \in Live \ S, s >= cons[c].cursor
      PROVE  s >= cons'[c].cursor
  <2>1. s \in Nat
    <3>1. Live \subseteq Seqs /\ Seqs \subseteq Nat \ {0}
      BY <1>1, LiveIsPositive
    <3>2. QED
      BY <1>8, <3>1
  <2>2. s > upper
    BY <1>3, <1>8, <2>1
  <2>3. QED
    BY <1>3, <1>6, <1>8, <2>1, <2>2 DEF ClampedCursor
<1>9. ASSUME NEW c \in Consumers
      PROVE  /\ DOMAIN rows'[c] = DOMAIN rows[c] \ S
             /\ \A s \in DOMAIN rows'[c] : rows'[c][s] = rows[c][s]
  <2> HIDE DEF doomed
  <2>1. /\ DOMAIN rows'[c] = {s \in DOMAIN rows[c] : <<c, s>> \notin Consumers \X doomed}
        /\ \A s \in DOMAIN rows'[c] : rows'[c][s] = rows[c][s]
    BY <1>2, <1>9, DropEffect
  <2> USE DEF doomed
  <2>2. DOMAIN rows[c] \subseteq Live /\ DOMAIN rows[c] \subseteq Seqs
    BY <1>1, <1>9 DEF IInv, TableInv, TypeOK, AreTables, IsTable
  <2>3. QED
    BY <1>9, <2>1, <2>2
<1> HIDE DEF S, doomed
<1>10. QED
  BY <1>1, <1>4, <1>5, <1>7, <1>8, <1>9, DeletingStep

\* The filtered purge keeps the invariant: what it deletes is discarded.
LEMMA PurgeScanIInv ==
    ASSUME IInv, NEW pattern, NEW upper, NEW keep, PurgeScan(pattern, upper, keep)
    PROVE  IInv'
<1> DEFINE S == Victims(pattern, upper, keep)
<1>1. TypeOK /\ TypeOK'
  BY PurgeScanType DEF IInv
<1>2. /\ DeleteMessages(S)
      /\ UpdateRows(Consumers \X S, NoNewRows)
      /\ cons' = [c \in DOMAIN cons |-> [cons[c] EXCEPT !.gen = GenAfterPurge(c, S)]]
  BY DEF PurgeScan
<1> HIDE DEF S
<1>3. Live' = Live \ S /\ discarded' = discarded \cup S
      /\ UNCHANGED <<next, tokens, settled, passed>>
  BY <1>2 DEF DeleteMessages, Live
<1>4. DOMAIN cons' = DOMAIN cons
  BY <1>2
<1>5. ASSUME NEW c \in DOMAIN cons
      PROVE  /\ cons'[c].cursor = cons[c].cursor /\ cons[c].cursor \in Nat
             /\ cons[c].cursor <= next
  <2>1. cons[c] \in ConsumerRow /\ PositionInv(c)
    BY <1>1, <1>5 DEF TypeOK, IsTable, IInv
  <2>2. [cons[c] EXCEPT !.gen = GenAfterPurge(c, S)].cursor = cons[c].cursor
    BY <2>1 DEF ConsumerRow
  <2>3. cons[c].cursor \in Nat
    BY <2>1, ConsumerRowType
  <2>4. QED
    BY <1>2, <1>5, <2>1, <2>2, <2>3 DEF PositionInv
<1>6. ASSUME NEW c \in DOMAIN cons
      PROVE  cons[c].cursor <= cons'[c].cursor /\ cons'[c].cursor <= next
  BY <1>5, <1>6
<1>7. ASSUME NEW c \in Consumers
      PROVE  /\ DOMAIN rows'[c] = DOMAIN rows[c] \ S
             /\ \A s \in DOMAIN rows'[c] : rows'[c][s] = rows[c][s]
  <2>1. /\ DOMAIN rows'[c] = {s \in DOMAIN rows[c] : <<c, s>> \notin Consumers \X S}
        /\ \A s \in DOMAIN rows'[c] : rows'[c][s] = rows[c][s]
    BY <1>2, <1>7, DropEffect
  <2>2. QED
    BY <1>7, <2>1
<1>8. QED
  BY <1>1, <1>3, <1>4, <1>5, <1>6, <1>7, DeletingStep

\* Retention keeps the invariant: it deletes no message that has a row, and
\* in work-queue mode none at or above a cursor.
LEMMA RetainIInv ==
    ASSUME IInv, Retain
    PROVE  IInv'
<1>1. TypeOK /\ TypeOK'
  BY RetainType DEF IInv
<1>2. PICK S \in SUBSET Evictable :
        /\ msgs' = [s \in Live \ S |-> msgs[s]]
        /\ discarded' = IF WorkQueue THEN discarded ELSE discarded \cup S
  BY DEF Retain
<1>3. UNCHANGED <<next, cons, rows, tokens, settled, passed>>
  BY DEF Retain
<1>4. Live' = Live \ S /\ discarded \subseteq discarded'
  BY <1>2 DEF Live
<1>5. ASSUME NEW c \in Consumers
      PROVE  DOMAIN rows'[c] = DOMAIN rows[c] \ S
  BY <1>3, <1>5 DEF Evictable, Unpinned
<1>6. ASSUME NEW c \in DOMAIN cons
      PROVE  cons[c].cursor <= cons'[c].cursor /\ cons'[c].cursor <= next
  <2>1. cons[c].cursor \in Nat /\ cons[c].cursor <= next
    BY <1>1, <1>6 DEF IInv, TypeOK, IsTable, ConsumerRow, PositionInv
  <2>2. QED
    BY <1>3, <2>1
<1>7. ASSUME NEW c \in DOMAIN cons, NEW s \in S
      PROVE  s \in discarded' \/ (s < cons[c].cursor /\ s \notin DOMAIN rows[c])
  <2>1. c \in Consumers /\ s \in Evictable
    BY <1>1, <1>7 DEF TypeOK, IsTable
  <2>2. CASE WorkQueue
    BY <1>7, <2>1, <2>2 DEF Evictable, Unpinned
  <2>3. CASE ~WorkQueue
    BY <1>2, <1>7, <2>3
  <2>4. QED
    BY <2>2, <2>3
<1>8. QED
  BY <1>1, <1>3, <1>4, <1>5, <1>6, <1>7, DeletingStep

-----------------------------------------------------------------------------
\* Every step of the store keeps the invariant: one case per action.
LEMMA NextIInv == IInv /\ [Next]_vars => IInv'
<1> SUFFICES ASSUME IInv, [Next]_vars PROVE IInv'
  OBVIOUS
<1>1. CASE UNCHANGED vars
  BY <1>1 DEF vars, IInv, TypeOK, TableInv, PositionInv, Live
<1>2. CASE ClientNext
  BY <1>2, PublishIInv, FetchIInv, SettleIInv DEF ClientNext
<1>3. CASE SystemNext
  BY <1>3, TickIInv, SweepIInv, RetireIInv, RestartIInv, RetainIInv DEF SystemNext
<1>4. CASE AdminNext
  BY <1>4, CreateConsumerIInv, RecreateConsumerIInv, UpdateConsumerIInv, SetPausedIInv,
     DeleteConsumerIInv, SeekIInv, PurgeRangeIInv, PurgeScanIInv DEF AdminNext
<1>5. QED
  BY <1>1, <1>2, <1>3, <1>4 DEF Next

\* The inductive invariant holds in every reachable state of the store.
THEOREM Inductive == Spec => []IInv
<1>1. QED
  BY InitIInv, NextIInv, PTL DEF Spec

\* At-least-once delivery (SEMANTICS I2) for every instance: no interleaving of
\* fetches, settles, sweeps, restarts, seeks, shrinks, purges and retention
\* leaves a message a consumer is owed both behind its cursor and without a
\* delivery row.
THEOREM AtLeastOnce == Spec => []NoLoss
<1>1. IInv => NoLoss
  BY IInvImplies
<1>2. QED
  BY Inductive, <1>1, PTL

\* A message that was acked or died (I3, I8) never gets a delivery row again.
THEOREM SettledIsFinal == Spec => []NoResurrection
<1>1. IInv => NoResurrection
  BY IInvImplies
<1>2. QED
  BY Inductive, <1>1, PTL

\* The rows a shrink may drop are newer than everything already handed out.
THEOREM FreshRowsComeLast == Spec => []FreshRowsAreNewest
<1>1. IInv => FreshRowsAreNewest
  BY IInvImplies
<1>2. QED
  BY Inductive, <1>1, PTL

\* Retention and purge never delete a message from under a delivery row, and
\* so no message dies without its copy because its payload is gone.
THEOREM PayloadsOutliveRows == Spec => []RowsPinMessages
<1>1. IInv => RowsPinMessages
  BY IInvImplies
<1>2. QED
  BY Inductive, <1>1, PTL

-----------------------------------------------------------------------------
(* What the fences rest on.                                                  *)

\* The delivery a token stands for is on record: its row is there and has been
\* handed out at least that often, or the message was settled.
Backed(t) ==
    \/ HasRow(t) /\ t.attempt <= rows[t.consumer][t.seq].attempts
    \/ t.seq \in DOMAIN settled[t.consumer]

\* A token of the consumer as it stands has at most its generation, and is
\* backed when it has exactly that.
FenceInv ==
    /\ \A c \in Consumers : epoch[c] <= MaxEpoch
    /\ \A c \in DOMAIN cons : epoch[c] >= 1
    /\ \A t \in tokens :
         /\ t.epoch >= 1 /\ t.epoch <= epoch[t.consumer]
         /\ (t.consumer \in DOMAIN cons /\ t.epoch = epoch[t.consumer]) =>
              /\ t.gen <= cons[t.consumer].gen
              /\ t.gen = cons[t.consumer].gen => Backed(t)

\* The generation column of a row is its consumer's.
GenInv ==
    \A c \in DOMAIN cons : \A s \in DOMAIN rows[c] : rows[c][s].gen = cons[c].gen

\* No row is past the delivery bound, and one that may be claimed is below it.
BoundInv ==
    \A c \in DOMAIN cons : cons[c].cfg.maxDeliver > 0 => \A s \in DOMAIN rows[c] :
      /\ rows[c][s].attempts <= cons[c].cfg.maxDeliver
      /\ rows[c][s].state = "ready" => rows[c][s].attempts < cons[c].cfg.maxDeliver

-----------------------------------------------------------------------------
(* The fences, of one incarnation of a consumer.                             *)

\* OnlyLatestLeaseSettles for the tokens of the consumer as it stands.
LatestSettlesInEpoch ==
    \A t \in tokens :
      (t.epoch = epoch[t.consumer] /\ PlanSettle(t, AckRequest) = "ack") =>
        \A u \in tokens : KeyOf(u) = KeyOf(t) =>
           \/ u.epoch < t.epoch
           \/ u.epoch = t.epoch /\ u.gen < t.gen
           \/ u.epoch = t.epoch /\ u.gen = t.gen /\ u.attempt <= t.attempt

\* TokenAnswersAreTrue for the same tokens.  "stale" is said only of a message
\* that was settled: what is deleted takes the generation of its rows with it.
AnswersTrueInEpoch ==
    \A t \in tokens :
      (t.consumer \in DOMAIN cons /\ t.epoch = epoch[t.consumer]) =>
        /\ PlanSettle(t, AckRequest) # "unknown"
        /\ PlanSettle(t, AckRequest) = "stale" => t.seq \in DOMAIN settled[t.consumer]

\* What PlanSettle answers, case by case, to a token of a consumer that exists.
LEMMA PlanCases ==
    ASSUME NEW t, NEW req, t.consumer \in DOMAIN cons
    PROVE  /\ t.gen # cons[t.consumer].gen => PlanSettle(t, req) = "wrong_generation"
           /\ (t.gen = cons[t.consumer].gen /\ ~HasRow(t)) =>
                PlanSettle(t, req) =
                  IF t.seq < cons[t.consumer].cursor THEN "stale" ELSE "unknown"
           /\ (t.gen = cons[t.consumer].gen /\ HasRow(t)) =>
                PlanSettle(t, req) = IF t.attempt # RowOf(KeyOf(t)).attempts THEN "stale_ack"
                                     ELSE PlanVerb(t, req)
<1>1. CASE t.gen # cons[t.consumer].gen
  BY <1>1 DEF PlanSettle
<1>2. CASE t.gen = cons[t.consumer].gen /\ ~HasRow(t)
  BY <1>2 DEF PlanSettle
<1>3. CASE t.gen = cons[t.consumer].gen /\ HasRow(t)
  BY <1>3 DEF PlanSettle
<1>4. QED
  BY <1>1, <1>2, <1>3

\* The planner lets an item act only on the row its token names: the consumer
\* exists, the generation is its own, the row is there at that attempt.
LEMMA ActsOnItsRow ==
    ASSUME NEW t, NEW req, PlanSettle(t, req) \in {"ack", "dead", "release", "extend"}
    PROVE  /\ t.consumer \in DOMAIN cons /\ t.gen = cons[t.consumer].gen
           /\ HasRow(t) /\ t.attempt = RowOf(KeyOf(t)).attempts
           /\ PlanSettle(t, req) = PlanVerb(t, req)
<1>1. t.consumer \in DOMAIN cons
  BY DEF PlanSettle
<1>2. QED
  BY <1>1, PlanCases

\* The row a token names.
LEMMA RowOfToken ==
    ASSUME NEW t
    PROVE  /\ RowOf(KeyOf(t)) = rows[t.consumer][t.seq]
           /\ PlanVerb(t, AckRequest) = "ack"
  BY DEF RowOf, KeyOf, PlanVerb, AckRequest

\* The invariant gives the fence within an incarnation.
LEMMA FenceInEpoch ==
    ASSUME IInv, FenceInv
    PROVE  LatestSettlesInEpoch
<1> SUFFICES ASSUME NEW t \in tokens, t.epoch = epoch[t.consumer],
                    PlanSettle(t, AckRequest) = "ack",
                    NEW u \in tokens, KeyOf(u) = KeyOf(t)
             PROVE  \/ u.epoch < t.epoch
                    \/ u.epoch = t.epoch /\ u.gen < t.gen
                    \/ u.epoch = t.epoch /\ u.gen = t.gen /\ u.attempt <= t.attempt
  BY DEF LatestSettlesInEpoch
<1>1. u.consumer = t.consumer /\ u.seq = t.seq
  BY DEF KeyOf
<1>2. /\ t.consumer \in DOMAIN cons /\ t.gen = cons[t.consumer].gen
      /\ HasRow(t) /\ t.attempt = rows[t.consumer][t.seq].attempts
  BY ActsOnItsRow, RowOfToken
<1>3. t.epoch \in Nat /\ u.epoch \in Nat /\ t.gen \in Nat /\ u.gen \in Nat
  BY DEF IInv, TypeOK, Token
<1>4. u.epoch <= t.epoch
  BY <1>1 DEF FenceInv
<1>5. CASE u.epoch = t.epoch
  <2>1. u.gen <= t.gen /\ (u.gen = t.gen => Backed(u))
    BY <1>1, <1>2, <1>5 DEF FenceInv
  <2>2. ASSUME u.gen = t.gen PROVE u.attempt <= t.attempt
    <3>1. t.seq \notin DOMAIN settled[t.consumer]
      BY <1>2 DEF IInv, PositionInv, HasRow
    <3>2. QED
      BY <1>1, <1>2, <2>1, <2>2, <3>1 DEF Backed
  <2>3. QED
    BY <1>3, <1>5, <2>1, <2>2
<1>6. QED
  BY <1>3, <1>4, <1>5

\* The invariant makes the answers true within an incarnation.
LEMMA AnswersInEpoch ==
    ASSUME IInv, FenceInv
    PROVE  AnswersTrueInEpoch
<1> SUFFICES ASSUME NEW t \in tokens, t.consumer \in DOMAIN cons,
                    t.epoch = epoch[t.consumer]
             PROVE  /\ PlanSettle(t, AckRequest) # "unknown"
                    /\ PlanSettle(t, AckRequest) = "stale" =>
                         t.seq \in DOMAIN settled[t.consumer]
  BY DEF AnswersTrueInEpoch
<1>1. CASE t.gen # cons[t.consumer].gen
  BY <1>1, PlanCases
<1>2. CASE t.gen = cons[t.consumer].gen /\ HasRow(t)
  BY <1>2, PlanCases, RowOfToken
<1>3. CASE t.gen = cons[t.consumer].gen /\ ~HasRow(t)
  <2>1. t.seq \in DOMAIN settled[t.consumer]
    BY <1>3 DEF FenceInv, Backed
  <2>2. t.seq < cons[t.consumer].cursor
    BY <2>1 DEF IInv, PositionInv
  <2>3. QED
    BY <1>3, <2>1, <2>2, PlanCases
<1>4. QED
  BY <1>1, <1>2, <1>3

\* Where no name is created twice there is one incarnation, and the two
\* properties are the ones of Delivery.
LEMMA OneIncarnation ==
    ASSUME IInv, FenceInv, MaxEpoch <= 1
    PROVE  OnlyLatestLeaseSettles /\ TokenAnswersAreTrue
<1>1. ASSUME NEW t \in tokens PROVE t.epoch = epoch[t.consumer]
  <2>1. /\ t.consumer \in Consumers /\ t.epoch \in Nat /\ epoch[t.consumer] \in Nat
        /\ MaxEpoch \in Nat
    BY <1>1, ConstantsAssumption DEF IInv, TypeOK, Token
  <2>2. t.epoch >= 1 /\ t.epoch <= epoch[t.consumer] /\ epoch[t.consumer] <= MaxEpoch
    BY <1>1, <2>1 DEF FenceInv
  <2>3. QED
    BY <2>1, <2>2
<1>2. OnlyLatestLeaseSettles
  BY <1>1, FenceInEpoch DEF LatestSettlesInEpoch, OnlyLatestLeaseSettles
<1>3. TokenAnswersAreTrue
  BY <1>1, AnswersInEpoch DEF AnswersTrueInEpoch, TokenAnswersAreTrue
<1>4. QED
  BY <1>2, <1>3

-----------------------------------------------------------------------------
(* Steps that serve deliveries: no row appears, and one that goes is settled. *)

\* What settle, sweep, retire, the clock and a restart do to the rows.
ServedStep ==
    \A c \in Consumers :
      /\ DOMAIN rows'[c] \subseteq DOMAIN rows[c]
      /\ DOMAIN settled[c] \subseteq DOMAIN settled'[c]
      /\ \A s \in DOMAIN rows[c] : s \in DOMAIN rows'[c] \/ s \in DOMAIN settled'[c]
      /\ \A s \in DOMAIN rows'[c] :
           rows'[c][s].attempts = rows[c][s].attempts /\ rows'[c][s].gen = rows[c][s].gen

\* A lease that is released was below the delivery bound: all but a restart.
BoundedRelease ==
    \A c \in DOMAIN cons : \A s \in DOMAIN rows'[c] : rows'[c][s].state = "ready" =>
      rows[c][s].state = "ready" \/ ~Exhausted(c, rows[c][s].attempts)

\* The same in the terms the commands use.
LEMMA ServedUpdate ==
    ASSUME TypeOK, NEW acked, NEW dead, NEW new,
           UpdateRows(acked \cup dead, new), RecordOutcomes(acked, dead),
           \A k \in DOMAIN new : k \in Keys =>
             new[k].attempts = RowOf(k).attempts /\ new[k].gen = RowOf(k).gen
    PROVE  ServedStep
<1> DEFINE G == acked \cup dead
<1>1. ASSUME NEW c \in Consumers, NEW s \in DOMAIN rows[c]
      PROVE  <<c, s>> \in Keys /\ RowOf(<<c, s>>) = rows[c][s] /\ s \in Seqs
  BY <1>1 DEF Keys, RowOf, TypeOK, AreTables, IsTable
<1>2. UpdateRows(G, new)
  OBVIOUS
<1>3. ASSUME NEW c \in Consumers
      PROVE  DOMAIN settled'[c] = DOMAIN settled[c] \cup {t \in Seqs : <<c, t>> \in G}
  BY <1>3, RecordOutcomesEffect
<1> HIDE DEF G
<1>4. ASSUME NEW c \in Consumers
      PROVE  /\ DOMAIN rows'[c] = {s \in DOMAIN rows[c] : <<c, s>> \notin G}
             /\ \A s \in DOMAIN rows'[c] :
                  rows'[c][s] = IF <<c, s>> \in DOMAIN new THEN new[<<c, s>>] ELSE rows[c][s]
  BY <1>2, <1>4, UpdateRowsEffect
<1>5. ASSUME NEW c \in Consumers, NEW s \in DOMAIN rows'[c]
      PROVE  rows'[c][s].attempts = rows[c][s].attempts /\ rows'[c][s].gen = rows[c][s].gen
  BY <1>1, <1>4, <1>5
<1>6. ASSUME NEW c \in Consumers, NEW s \in DOMAIN rows[c]
      PROVE  s \in DOMAIN rows'[c] \/ s \in DOMAIN settled'[c]
  BY <1>1, <1>3, <1>4, <1>6
<1>7. QED
  BY <1>3, <1>4, <1>5, <1>6 DEF ServedStep

\* A step that rewrites leases and settles nothing serves too.
LEMMA ServedByLease ==
    ASSUME TypeOK, NEW new, UpdateRows({}, new), UNCHANGED settled,
           \A k \in DOMAIN new : k \in Keys =>
             new[k].attempts = RowOf(k).attempts /\ new[k].gen = RowOf(k).gen
    PROVE  ServedStep
<1>1. ASSUME NEW c \in Consumers, NEW s \in DOMAIN rows[c]
      PROVE  <<c, s>> \in Keys /\ RowOf(<<c, s>>) = rows[c][s]
  BY <1>1 DEF Keys, RowOf
<1>2. ASSUME NEW c \in Consumers
      PROVE  /\ DOMAIN rows'[c] = DOMAIN rows[c]
             /\ \A s \in DOMAIN rows'[c] :
                  rows'[c][s] = IF <<c, s>> \in DOMAIN new THEN new[<<c, s>>] ELSE rows[c][s]
  <2> DEFINE none == {}
  <2>1. DOMAIN rows[c] = {s \in DOMAIN rows[c] : <<c, s>> \notin none}
    OBVIOUS
  <2>2. UpdateRows(none, new)
    OBVIOUS
  <2> HIDE DEF none
  <2>3. /\ DOMAIN rows'[c] = {s \in DOMAIN rows[c] : <<c, s>> \notin none}
        /\ \A s \in DOMAIN rows'[c] :
             rows'[c][s] = IF <<c, s>> \in DOMAIN new THEN new[<<c, s>>] ELSE rows[c][s]
    BY <1>2, <2>2, UpdateRowsEffect
  <2>4. QED
    BY <2>1, <2>3
<1>3. ASSUME NEW c \in Consumers, NEW s \in DOMAIN rows'[c]
      PROVE  rows'[c][s].attempts = rows[c][s].attempts /\ rows'[c][s].gen = rows[c][s].gen
  BY <1>1, <1>2, <1>3
<1>4. QED
  BY <1>2, <1>3 DEF ServedStep

\* Which of the rows a step releases, in the terms the commands use.
LEMMA BoundedUpdate ==
    ASSUME TypeOK, NEW gone, NEW new, UpdateRows(gone, new),
           \A k \in DOMAIN new : k \in Keys /\ k[1] \in DOMAIN cons /\ new[k].state = "ready" =>
             RowOf(k).state = "ready" \/ ~Exhausted(k[1], RowOf(k).attempts)
    PROVE  BoundedRelease
<1> SUFFICES ASSUME NEW c \in DOMAIN cons, NEW s \in DOMAIN rows'[c],
                    rows'[c][s].state = "ready"
             PROVE  rows[c][s].state = "ready" \/ ~Exhausted(c, rows[c][s].attempts)
  BY DEF BoundedRelease
<1>1. c \in Consumers
  BY DEF TypeOK, IsTable
<1>2. /\ s \in DOMAIN rows[c]
      /\ rows'[c][s] = IF <<c, s>> \in DOMAIN new THEN new[<<c, s>>] ELSE rows[c][s]
  BY <1>1, UpdateRowsEffect
<1>3. <<c, s>> \in Keys /\ RowOf(<<c, s>>) = rows[c][s] /\ <<c, s>>[1] = c
  BY <1>1, <1>2 DEF Keys, RowOf
<1>4. CASE <<c, s>> \in DOMAIN new
  BY <1>2, <1>3, <1>4
<1>5. CASE <<c, s>> \notin DOMAIN new
  BY <1>2, <1>5
<1>6. QED
  BY <1>4, <1>5

\* A released, extended or aged row stands for the same delivery.
LEMMA SameDelivery ==
    ASSUME NEW r \in Row, NEW delay, NEW req
    PROVE  /\ ReleasedRow(r, delay).attempts = r.attempts /\ ReleasedRow(r, delay).gen = r.gen
           /\ SettledRow(r, req).attempts = r.attempts /\ SettledRow(r, req).gen = r.gen
<1>1. \A d : ReleasedRow(r, d).attempts = r.attempts /\ ReleasedRow(r, d).gen = r.gen
  BY DEF ReleasedRow, Row
<1>2. ExtendedRow(r).attempts = r.attempts /\ ExtendedRow(r).gen = r.gen
  BY DEF ExtendedRow, Row
<1>3. QED
  BY <1>1, <1>2 DEF SettledRow

\* The expiry sweep serves: what it kills is settled, what it releases was
\* below its bound.
LEMMA SweepServes ==
    ASSUME IInv, Sweep
    PROVE  ServedStep /\ BoundedRelease
<1>1. PICK picked \in SUBSET Expired :
        LET dying == {k \in picked : DecideSweep(k) = "dead"}
            redelivered == {k \in picked : DecideSweep(k) = "redeliver"}
        IN \E dead \in SUBSET dying, delay \in [redelivered -> Delays] :
             /\ UpdateRows(dead, [k \in redelivered |-> ReleasedRow(RowOf(k), delay[k])])
             /\ RecordOutcomes({}, dead)
  BY DEF Sweep
<1> DEFINE dying == {k \in picked : DecideSweep(k) = "dead"}
           redelivered == {k \in picked : DecideSweep(k) = "redeliver"}
<1>2. PICK dead \in SUBSET dying, delay \in [redelivered -> Delays] :
        /\ UpdateRows(dead, [k \in redelivered |-> ReleasedRow(RowOf(k), delay[k])])
        /\ RecordOutcomes({}, dead)
  BY <1>1
<1> DEFINE new == [k \in redelivered |-> ReleasedRow(RowOf(k), delay[k])]
<1>3. TypeOK
  BY DEF IInv
<1>4. ASSUME NEW k \in DOMAIN new
      PROVE  /\ new[k].attempts = RowOf(k).attempts /\ new[k].gen = RowOf(k).gen
             /\ ~Exhausted(k[1], RowOf(k).attempts)
  <2>1. k \in redelivered /\ k \in Keys /\ DecideSweep(k) = "redeliver"
    BY <1>4 DEF Expired, Inflight
  <2>2. RowOf(k) \in Row
    BY <1>3, <2>1, RowType
  <2>3. ~Exhausted(k[1], RowOf(k).attempts)
    BY <2>1 DEF DecideSweep
  <2>4. QED
    BY <2>1, <2>2, <2>3, SameDelivery
<1>5. UpdateRows({} \cup dead, new)
  <2>1. {} \cup dead = dead
    OBVIOUS
  <2>2. QED
    BY <1>2, <2>1
<1> HIDE DEF new, dying, redelivered
<1>6. ServedStep
  BY <1>2, <1>3, <1>4, <1>5, ServedUpdate
<1>7. BoundedRelease
  BY <1>3, <1>4, <1>5, BoundedUpdate
<1>8. QED
  BY <1>6, <1>7

\* The retire pass serves: it only kills.
LEMMA RetireServes ==
    ASSUME IInv, Retire
    PROVE  ServedStep /\ BoundedRelease
<1>1. PICK dead : UpdateRows(dead, NoNewRows) /\ RecordOutcomes({}, dead)
  BY DEF Retire
<1>2. {} \cup dead = dead /\ DOMAIN NoNewRows = {} /\ TypeOK
  BY DEF NoNewRows, EmptyFun, IInv
<1>3. UpdateRows({} \cup dead, NoNewRows)
  BY <1>1, <1>2
<1>4. ServedStep
  BY <1>1, <1>2, <1>3, ServedUpdate
<1>5. BoundedRelease
  BY <1>1, <1>2, BoundedUpdate
<1>6. QED
  BY <1>4, <1>5

\* Time serves: it changes no lease's owner and releases none.
LEMMA TickServes ==
    ASSUME IInv, Tick
    PROVE  ServedStep /\ BoundedRelease
<1> DEFINE new == [k \in Keys |-> [RowOf(k) EXCEPT !.visibleIn = Dec(@), !.holdLeft = Dec(@)]]
<1>1. UpdateRows({}, new) /\ UNCHANGED settled /\ TypeOK
  BY DEF Tick, ghosts, IInv
<1>2. ASSUME NEW k \in Keys
      PROVE  /\ new[k].attempts = RowOf(k).attempts /\ new[k].gen = RowOf(k).gen
             /\ new[k].state = RowOf(k).state
  <2>1. RowOf(k) \in Row
    BY <1>1, <1>2, RowType
  <2>2. QED
    BY <1>2, <2>1 DEF Row
<1>3. DOMAIN new = Keys
  OBVIOUS
<1> HIDE DEF new
<1>4. ServedStep
  BY <1>1, <1>2, <1>3, ServedByLease
<1>5. BoundedRelease
  BY <1>1, <1>2, <1>3, BoundedUpdate
<1>6. QED
  BY <1>4, <1>5

\* A restart serves, but may release a row at its bound.
LEMMA RestartServes ==
    ASSUME IInv, Restart
    PROVE  ServedStep
<1>1. PICK delay \in [Inflight -> Delays] :
        UpdateRows({}, [k \in Inflight |-> ReleasedRow(RowOf(k), delay[k])])
  BY DEF Restart
<1> DEFINE new == [k \in Inflight |-> ReleasedRow(RowOf(k), delay[k])]
<1>2. UNCHANGED settled /\ TypeOK
  BY DEF Restart, ghosts, IInv
<1>3. ASSUME NEW k \in Inflight
      PROVE  new[k].attempts = RowOf(k).attempts /\ new[k].gen = RowOf(k).gen
  <2>1. RowOf(k) \in Row
    BY <1>2, <1>3, RowType DEF Inflight
  <2>2. QED
    BY <1>3, <2>1, SameDelivery
<1>4. DOMAIN new = Inflight /\ UpdateRows({}, new)
  BY <1>1
<1> HIDE DEF new
<1>5. QED
  BY <1>2, <1>3, <1>4, ServedByLease

\* Acting items are items of the request, with a token some client holds.
LEMMA ActingItem ==
    ASSUME NEW items \in SettleRequests, NEW plans, NEW i \in Acting(items, plans)
    PROVE  /\ i \in DOMAIN items /\ items[i].token \in tokens /\ items[i].req \in Requests
           /\ PlanSettle(items[i].token, items[i].req) \in plans
<1>1. i \in DOMAIN items /\ PlanSettle(items[i].token, items[i].req) \in plans
  BY DEF Acting
<1>2. items[i].token \in tokens /\ items[i].req \in Requests
  BY <1>1 DEF SettleRequests
<1>3. QED
  BY <1>1, <1>2

\* A committed settle serves: a nak at the bound kills, so what is released
\* was below it.
LEMMA SettleServes ==
    ASSUME IInv, NEW items \in SettleRequests, SettleCommits(items)
    PROVE  ServedStep /\ BoundedRelease
<1> DEFINE acked == KeysOf(items, Acting(items, {"ack"}))
           dead  == KeysOf(items, Acting(items, {"dead"}))
           moved == Acting(items, {"release", "extend"})
           new   == [k \in KeysOf(items, moved) |->
                       SettledRow(RowOf(k),
                         items[CHOOSE i \in moved : KeyOf(items[i].token) = k].req)]
<1>1. UpdateRows(acked \cup dead, new) /\ RecordOutcomes(acked, dead)
  BY DEF SettleCommits
<1>2. TypeOK
  BY DEF IInv
<1>3. ASSUME NEW k \in DOMAIN new, k \in Keys
      PROVE  /\ new[k].attempts = RowOf(k).attempts /\ new[k].gen = RowOf(k).gen
             /\ new[k].state = "ready" =>
                  RowOf(k).state = "ready" \/ ~Exhausted(k[1], RowOf(k).attempts)
  <2> DEFINE j == CHOOSE i \in moved : KeyOf(items[i].token) = k
             t == items[j].token
             req == items[j].req
  <2>1. \E i \in moved : KeyOf(items[i].token) = k
    BY <1>3 DEF KeysOf
  <2>2. j \in moved /\ KeyOf(t) = k
    BY <2>1
  <2>3. t \in tokens /\ req \in Requests /\ PlanSettle(t, req) \in {"release", "extend"}
    BY <2>2, ActingItem
  <2>4. new[k] = SettledRow(RowOf(k), req)
    BY <1>3
  <2> HIDE DEF j, t, req, moved
  <2>5. PlanVerb(t, req) \in {"release", "extend"}
    BY <2>3, ActsOnItsRow
  <2>6. RowOf(k) \in Row
    BY <1>2, <1>3, RowType
  <2>7. new[k].attempts = RowOf(k).attempts /\ new[k].gen = RowOf(k).gen
    BY <2>4, <2>6, SameDelivery
  <2>8. ASSUME new[k].state = "ready"
        PROVE  RowOf(k).state = "ready" \/ ~Exhausted(k[1], RowOf(k).attempts)
    <3>1. k[1] = t.consumer
      BY <2>2 DEF KeyOf
    <3>2. req.verb \in {"ack", "nak", "term", "extend"}
      BY <2>3 DEF Requests
    <3>3. CASE req.verb = "extend"
      <4>1. new[k].state = RowOf(k).state
        <5>1. new[k] = [RowOf(k) EXCEPT !.visibleIn = @ + AckWait]
          BY <2>4, <3>3, Zenon DEF SettledRow, ExtendedRow
        <5>2. \A r \in Row : [r EXCEPT !.visibleIn = @ + AckWait].state = r.state
          BY DEF Row
        <5>3. QED
          BY <2>6, <5>1, <5>2, Zenon
      <4>2. QED
        BY <2>8, <4>1
    <3>4. CASE req.verb = "nak"
      <4>1. ~(RowOf(k).state = "inflight" /\ Exhausted(t.consumer, RowOf(k).attempts))
        BY <2>2, <2>5, <3>4 DEF PlanVerb
      <4>2. RowOf(k).state \in {"ready", "inflight"}
        BY <2>6 DEF Row
      <4>3. QED
        BY <3>1, <4>1, <4>2
    <3>5. CASE req.verb \in {"ack", "term"}
      BY <2>5, <3>5 DEF PlanVerb
    <3>6. QED
      BY <3>2, <3>3, <3>4, <3>5
  <2>9. QED
    BY <2>7, <2>8
<1> HIDE DEF acked, dead, moved, new
<1>4. ServedStep
  BY <1>1, <1>2, <1>3, ServedUpdate
<1>5. BoundedRelease
  BY <1>1, <1>2, <1>3, BoundedUpdate
<1>6. QED
  BY <1>4, <1>5

-----------------------------------------------------------------------------
(* The token fence.                                                          *)

\* A step keeps FenceInv when every consumer that keeps its incarnation keeps
\* its generation too and what was handed out on record, or gets a higher
\* generation, and when the tokens it adds are backed.
LEMMA FenceStep ==
    ASSUME IInv, IInv', FenceInv,
           \A c \in Consumers : epoch[c] <= epoch'[c] /\ epoch'[c] <= MaxEpoch,
           \A c \in DOMAIN cons' : epoch'[c] # epoch[c] \/ c \in DOMAIN cons,
           \A c \in DOMAIN cons' : c \in DOMAIN cons /\ epoch'[c] = epoch[c] =>
             /\ cons[c].gen <= cons'[c].gen
             /\ cons'[c].gen = cons[c].gen =>
                  /\ DOMAIN settled[c] \subseteq DOMAIN settled'[c]
                  /\ \A s \in DOMAIN rows[c] : rows[c][s].attempts > 0 =>
                       \/ s \in DOMAIN settled'[c]
                       \/ /\ s \in DOMAIN rows'[c]
                          /\ rows[c][s].attempts <= rows'[c][s].attempts,
           \A t \in tokens' : t \in tokens \/
             /\ t.consumer \in DOMAIN cons' /\ t.epoch = epoch'[t.consumer]
             /\ t.gen = cons'[t.consumer].gen /\ Backed(t)'
    PROVE  FenceInv'
<1>1. \A c \in Consumers : epoch[c] \in Nat /\ epoch'[c] \in Nat
  BY DEF IInv, TypeOK
<1>2. \A c \in DOMAIN cons' : c \in Consumers
  BY DEF IInv, TypeOK, IsTable
<1>3. ASSUME NEW c \in DOMAIN cons' PROVE epoch'[c] >= 1
  <2>1. CASE c \in DOMAIN cons
    BY <1>1, <1>2, <1>3, <2>1 DEF FenceInv
  <2>2. CASE c \notin DOMAIN cons
    BY <1>1, <1>2, <1>3, <2>2
  <2>3. QED
    BY <2>1, <2>2
<1>4. ASSUME NEW t \in tokens'
      PROVE  /\ t.epoch >= 1 /\ t.epoch <= epoch'[t.consumer]
             /\ (t.consumer \in DOMAIN cons' /\ t.epoch = epoch'[t.consumer]) =>
                  /\ t.gen <= cons'[t.consumer].gen
                  /\ t.gen = cons'[t.consumer].gen => Backed(t)'
  <2>1. t.consumer \in Consumers /\ t.epoch \in Nat /\ t.gen \in Nat
        /\ t.attempt \in Nat
    BY <1>4 DEF IInv, TypeOK, Token
  <2>2. CASE t \notin tokens
    BY <1>1, <1>3, <1>4, <2>1, <2>2
  <2>3. CASE t \in tokens
    <3> DEFINE c == t.consumer
    <3>1. t.epoch >= 1 /\ t.epoch <= epoch[c] /\ epoch[c] <= epoch'[c] /\ t.attempt > 0
      BY <2>1, <2>3 DEF FenceInv, IInv
    <3>2. ASSUME c \in DOMAIN cons', t.epoch = epoch'[c]
          PROVE  t.gen <= cons'[c].gen /\ (t.gen = cons'[c].gen => Backed(t)')
      <4>1. epoch'[c] = epoch[c] /\ c \in DOMAIN cons
        BY <1>1, <2>1, <3>1, <3>2
      <4>2. t.gen <= cons[c].gen /\ (t.gen = cons[c].gen => Backed(t))
        BY <2>3, <3>2, <4>1 DEF FenceInv
      <4>3. cons[c].gen \in Nat /\ cons'[c].gen \in Nat
        BY <3>2, <4>1 DEF IInv, TypeOK, IsTable, ConsumerRow
      <4>4. cons[c].gen <= cons'[c].gen
        BY <3>2, <4>1
      <4>5. ASSUME t.gen = cons'[c].gen PROVE Backed(t)'
        <5>1. cons'[c].gen = cons[c].gen /\ Backed(t)
          BY <2>1, <4>2, <4>3, <4>4, <4>5
        <5>2. /\ DOMAIN settled[c] \subseteq DOMAIN settled'[c]
              /\ \A s \in DOMAIN rows[c] : rows[c][s].attempts > 0 =>
                   \/ s \in DOMAIN settled'[c]
                   \/ s \in DOMAIN rows'[c] /\ rows[c][s].attempts <= rows'[c][s].attempts
          BY <3>2, <4>1, <5>1
        <5>3. CASE t.seq \in DOMAIN settled[c]
          BY <5>2, <5>3 DEF Backed
        <5>4. CASE HasRow(t) /\ t.attempt <= rows[c][t.seq].attempts
          <6>1. t.seq \in DOMAIN rows[c] /\ rows[c][t.seq].attempts \in Nat
            BY <2>1, <5>4 DEF HasRow, IInv, TypeOK, AreTables, IsTable, Row
          <6>2. rows[c][t.seq].attempts > 0
            BY <2>1, <3>1, <5>4, <6>1
          <6>3. CASE t.seq \in DOMAIN settled'[c]
            BY <6>3 DEF Backed
          <6>4. CASE t.seq \in DOMAIN rows'[c] /\ rows[c][t.seq].attempts <= rows'[c][t.seq].attempts
            <7>1. rows'[c][t.seq].attempts \in Nat
              BY <2>1, <6>4 DEF IInv, TypeOK, AreTables, IsTable, Row
            <7>2. t.attempt <= rows'[c][t.seq].attempts
              BY <2>1, <5>4, <6>1, <6>4, <7>1
            <7>3. QED
              BY <6>4, <7>2 DEF Backed, HasRow
          <6>5. QED
            BY <5>2, <6>1, <6>2, <6>3, <6>4
        <5>5. QED
          BY <5>1, <5>3, <5>4 DEF Backed
      <4>6. QED
        BY <2>1, <4>2, <4>3, <4>4, <4>5
    <3>3. QED
      BY <1>1, <2>1, <3>1, <3>2
  <2>4. QED
    BY <2>2, <2>3
<1>5. QED
  BY <1>3, <1>4 DEF FenceInv

\* A step that only serves keeps the fence.
LEMMA ServedFence ==
    ASSUME IInv, IInv', FenceInv, ServedStep, UNCHANGED <<cons, tokens, epoch>>
    PROVE  FenceInv'
<1>1. \A c \in Consumers : epoch[c] \in Nat /\ epoch[c] <= MaxEpoch
  BY DEF IInv, TypeOK, FenceInv
<1>2. \A c \in DOMAIN cons : c \in Consumers /\ cons[c].gen \in Nat
  BY DEF IInv, TypeOK, IsTable, ConsumerRow
<1>3. ASSUME NEW c \in Consumers, NEW s \in DOMAIN rows[c]
      PROVE  \/ s \in DOMAIN settled'[c]
             \/ s \in DOMAIN rows'[c] /\ rows[c][s].attempts <= rows'[c][s].attempts
  <2>1. rows[c][s].attempts \in Nat
    BY <1>3 DEF IInv, TypeOK, AreTables, IsTable, Row
  <2>2. QED
    BY <1>3, <2>1 DEF ServedStep
<1>4. \A c \in Consumers : DOMAIN settled[c] \subseteq DOMAIN settled'[c]
  BY DEF ServedStep
<1>5. QED
  BY <1>1, <1>2, <1>3, <1>4, FenceStep

\* A consumer's row before the claim of a fetch: its own, or a fresh one.
Offered(c, s) == IF s \in DOMAIN rows[c] THEN rows[c][s] ELSE FreshRow(cons[c].gen)

\* What a fetch does: no row goes, each is as it was offered or claimed, and
\* the new tokens name the attempts just counted.
LEMMA FetchEffect ==
    ASSUME IInv, NEW c \in Consumers, Fetch(c)
    PROVE  /\ c \in DOMAIN cons /\ DOMAIN cons' = DOMAIN cons
           /\ \A d \in DOMAIN cons : cons'[d].gen = cons[d].gen /\ cons'[d].cfg = cons[d].cfg
           /\ \A d \in Consumers : d # c => rows'[d] = rows[d]
           /\ DOMAIN rows[c] \subseteq DOMAIN rows'[c]
           /\ \A s \in DOMAIN rows'[c] :
                /\ Offered(c, s) \in Row
                /\ \/ rows'[c][s] = Offered(c, s)
                   \/ /\ Offered(c, s).state = "ready"
                      /\ rows'[c][s] = ClaimedRow(Offered(c, s))
           /\ \A t \in tokens' : t \in tokens \/
                /\ t.consumer = c /\ t.epoch = epoch[c] /\ t.gen = cons[c].gen
                /\ t.seq \in DOMAIN rows'[c] /\ t.attempt = rows'[c][t.seq].attempts
           /\ UNCHANGED <<epoch, settled>>
<1>1. TypeOK /\ c \in DOMAIN cons /\ UNCHANGED <<epoch, settled>>
  BY DEF IInv, Fetch
<1>2. PICK claimed \in Claims(c) :
         /\ rows' = [rows EXCEPT ![c] =
                       [s \in DOMAIN ToppedUp(c) |->
                          IF s \in claimed THEN ClaimedRow(ToppedUp(c)[s])
                          ELSE ToppedUp(c)[s]]]
         /\ cons' = [cons EXCEPT ![c].cursor = CursorAfterFetch(c)]
         /\ tokens' = tokens \cup {TokenFor(c, s) : s \in claimed}
  BY DEF Fetch
<1>3. /\ DOMAIN ToppedUp(c) = DOMAIN rows[c] \cup Admitted(c)
      /\ \A s \in DOMAIN ToppedUp(c) : ToppedUp(c)[s] \in Row
  BY <1>1, ToppedUpType
<1>4. \A s \in DOMAIN ToppedUp(c) : ToppedUp(c)[s] = Offered(c, s)
  BY <1>3 DEF ToppedUp, Offered
<1>5. \A s \in claimed : s \in DOMAIN ToppedUp(c) /\ ToppedUp(c)[s].state = "ready"
  BY DEF Claims, Claimable
<1>6. /\ DOMAIN rows'[c] = DOMAIN ToppedUp(c)
      /\ \A s \in DOMAIN ToppedUp(c) :
           rows'[c][s] = IF s \in claimed THEN ClaimedRow(ToppedUp(c)[s]) ELSE ToppedUp(c)[s]
  <2> DEFINE N(s) == IF s \in claimed THEN ClaimedRow(ToppedUp(c)[s]) ELSE ToppedUp(c)[s]
  <2>1. rows'[c] = [s \in DOMAIN ToppedUp(c) |-> N(s)]
    BY <1>1, <1>2 DEF TypeOK, AreTables
  <2> HIDE DEF N
  <2>2. DOMAIN rows'[c] = DOMAIN ToppedUp(c) /\ \A s \in DOMAIN ToppedUp(c) : rows'[c][s] = N(s)
    BY <2>1
  <2>3. QED
    BY <2>2 DEF N
<1>7. \A d \in Consumers : d # c => rows'[d] = rows[d]
  BY <1>1, <1>2 DEF TypeOK, AreTables
<1>8. DOMAIN cons' = DOMAIN cons
      /\ \A d \in DOMAIN cons : cons'[d].gen = cons[d].gen /\ cons'[d].cfg = cons[d].cfg
  <2>1. cons[c] \in ConsumerRow
    BY <1>1 DEF TypeOK, IsTable
  <2>2. cons' = [cons EXCEPT ![c] = [cons[c] EXCEPT !.cursor = CursorAfterFetch(c)]]
    BY <1>1, <1>2
  <2>3. /\ [cons[c] EXCEPT !.cursor = CursorAfterFetch(c)].gen = cons[c].gen
        /\ [cons[c] EXCEPT !.cursor = CursorAfterFetch(c)].cfg = cons[c].cfg
    BY <2>1 DEF ConsumerRow
  <2>4. QED
    BY <2>2, <2>3
<1>9. ASSUME NEW t \in tokens', t \notin tokens
      PROVE  /\ t.consumer = c /\ t.epoch = epoch[c] /\ t.gen = cons[c].gen
             /\ t.seq \in DOMAIN rows'[c] /\ t.attempt = rows'[c][t.seq].attempts
  <2>1. PICK s \in claimed : t = TokenFor(c, s)
    BY <1>2, <1>9
  <2>2. /\ t.consumer = c /\ t.epoch = epoch[c] /\ t.gen = cons[c].gen /\ t.seq = s
        /\ t.attempt = ToppedUp(c)[s].attempts + 1
    BY <2>1 DEF TokenFor
  <2>3. rows'[c][s] = ClaimedRow(ToppedUp(c)[s])
    BY <1>5, <1>6
  <2>4. ClaimedRow(ToppedUp(c)[s]).attempts = ToppedUp(c)[s].attempts + 1
    BY DEF ClaimedRow
  <2>5. QED
    BY <1>5, <1>6, <2>2, <2>3, <2>4
<1>10. ASSUME NEW s \in DOMAIN rows'[c]
       PROVE  /\ Offered(c, s) \in Row
              /\ \/ rows'[c][s] = Offered(c, s)
                 \/ /\ Offered(c, s).state = "ready"
                    /\ rows'[c][s] = ClaimedRow(Offered(c, s))
  BY <1>3, <1>4, <1>5, <1>6, <1>10
<1>11. DOMAIN rows[c] \subseteq DOMAIN rows'[c]
  BY <1>3, <1>6
<1>12. QED
  BY <1>1, <1>7, <1>8, <1>9, <1>10, <1>11

\* A fetch keeps the fence: attempts only grow, and what it hands out is backed.
LEMMA FetchFence ==
    ASSUME IInv, IInv', FenceInv, NEW c \in Consumers, Fetch(c)
    PROVE  FenceInv'
<1>1. /\ c \in DOMAIN cons /\ DOMAIN cons' = DOMAIN cons
      /\ \A d \in DOMAIN cons : cons'[d].gen = cons[d].gen
      /\ \A d \in Consumers : d # c => rows'[d] = rows[d]
      /\ DOMAIN rows[c] \subseteq DOMAIN rows'[c]
      /\ UNCHANGED <<epoch, settled>>
  BY FetchEffect
<1>2. \A d \in DOMAIN cons : d \in Consumers /\ cons[d].gen \in Nat
  BY DEF IInv, TypeOK, IsTable, ConsumerRow
<1>3. \A d \in Consumers : epoch[d] \in Nat /\ epoch[d] <= MaxEpoch
  BY DEF IInv, TypeOK, FenceInv
<1>4. ASSUME NEW d \in Consumers, NEW s \in DOMAIN rows[d]
      PROVE  s \in DOMAIN rows'[d] /\ rows[d][s].attempts <= rows'[d][s].attempts
  <2>1. rows[d][s].attempts \in Nat
    BY <1>4 DEF IInv, TypeOK, AreTables, IsTable, Row
  <2>2. CASE d # c
    BY <1>1, <1>4, <2>1, <2>2
  <2>3. CASE d = c
    <3>1. s \in DOMAIN rows'[c] /\ Offered(c, s) = rows[c][s]
      BY <1>1, <1>4, <2>3 DEF Offered
    <3>2. rows'[c][s] = rows[c][s] \/ rows'[c][s] = ClaimedRow(rows[c][s])
      BY <3>1, FetchEffect
    <3>3. ClaimedRow(rows[c][s]).attempts = rows[c][s].attempts + 1
      BY DEF ClaimedRow
    <3>4. QED
      BY <2>1, <2>3, <3>1, <3>2, <3>3
  <2>4. QED
    BY <2>2, <2>3
<1>5. ASSUME NEW t \in tokens', t \notin tokens
      PROVE  /\ t.consumer \in DOMAIN cons' /\ t.epoch = epoch'[t.consumer]
             /\ t.gen = cons'[t.consumer].gen /\ Backed(t)'
  <2>1. /\ t.consumer = c /\ t.epoch = epoch[c] /\ t.gen = cons[c].gen
        /\ t.seq \in DOMAIN rows'[c] /\ t.attempt = rows'[c][t.seq].attempts
    BY <1>5, FetchEffect
  <2>2. t.attempt \in Nat
    BY <1>5 DEF IInv, TypeOK, Token
  <2>3. Backed(t)'
    BY <2>1, <2>2 DEF Backed, HasRow
  <2>4. QED
    BY <1>1, <2>1, <2>3
<1>6. QED
  BY <1>1, <1>2, <1>3, <1>4, <1>5, FenceStep

\* A step that leaves rows, tokens and generations alone keeps the fence:
\* publish, a settle that is rolled back, retention, pause, re-create.
LEMMA QuietFence ==
    ASSUME IInv, IInv', FenceInv, UNCHANGED <<rows, tokens, epoch, settled>>,
           DOMAIN cons' = DOMAIN cons, \A c \in DOMAIN cons : cons'[c].gen = cons[c].gen
    PROVE  FenceInv'
  BY DEF FenceInv, Backed, HasRow

\* Create begins an incarnation; the tokens of the one before are of a lower epoch.
LEMMA CreateConsumerFence ==
    ASSUME IInv, IInv', FenceInv, NEW c \in Consumers, NEW cfg, NEW target,
           CreateConsumer(c, cfg, target)
    PROVE  FenceInv'
<1>1. c \notin DOMAIN cons /\ epoch[c] < MaxEpoch /\ epoch' = [epoch EXCEPT ![c] = @ + 1]
      /\ UNCHANGED <<rows, tokens>>
  BY DEF CreateConsumer
<1>2. DOMAIN cons' = DOMAIN cons \cup {c} /\ \A d \in DOMAIN cons : cons'[d] = cons[d]
  BY <1>1 DEF CreateConsumer
<1>3. \A d \in Consumers : d # c => settled'[d] = settled[d]
  BY DEF CreateConsumer, StartOver, IInv, TypeOK, AreTables
<1>4. epoch \in [Consumers -> Nat] /\ MaxEpoch \in Nat
      /\ \A d \in Consumers : epoch[d] <= MaxEpoch
  BY ConstantsAssumption DEF IInv, TypeOK, FenceInv
<1>5. \A d \in Consumers : epoch[d] <= epoch'[d] /\ epoch'[d] <= MaxEpoch
                           /\ (d # c => epoch'[d] = epoch[d])
  BY <1>1, <1>4
<1>6. epoch'[c] # epoch[c]
  BY <1>1, <1>4
<1>7. \A d \in DOMAIN cons : d \in Consumers /\ cons[d].gen \in Nat
  BY DEF IInv, TypeOK, IsTable, ConsumerRow
<1>8. \A d \in Consumers : \A s \in DOMAIN rows[d] : rows[d][s].attempts \in Nat
  BY DEF IInv, TypeOK, AreTables, IsTable, Row
<1>9. QED
  BY <1>1, <1>2, <1>3, <1>5, <1>6, <1>7, <1>8, FenceStep

\* Delete leaves the other consumers' tokens as they are.
LEMMA DeleteConsumerFence ==
    ASSUME IInv, IInv', FenceInv, NEW c \in Consumers, DeleteConsumer(c)
    PROVE  FenceInv'
<1>1. UNCHANGED <<tokens, epoch, settled>>
  BY DEF DeleteConsumer, ghosts
<1>2. DOMAIN cons' = DOMAIN cons \ {c} /\ \A d \in DOMAIN cons' : cons'[d] = cons[d]
  BY DEF DeleteConsumer
<1>3. \A d \in Consumers : d # c => rows'[d] = rows[d]
  BY DEF DeleteConsumer, IInv, TypeOK, AreTables
<1>4. \A d \in Consumers : epoch[d] \in Nat /\ epoch[d] <= MaxEpoch
  BY DEF IInv, TypeOK, FenceInv
<1>5. \A d \in DOMAIN cons : d \in Consumers /\ cons[d].gen \in Nat
  BY DEF IInv, TypeOK, IsTable, ConsumerRow
<1>6. \A d \in Consumers : \A s \in DOMAIN rows[d] : rows[d][s].attempts \in Nat
  BY DEF IInv, TypeOK, AreTables, IsTable, Row
<1>7. QED
  BY <1>1, <1>2, <1>3, <1>4, <1>5, <1>6, FenceStep

\* Seek: every token out is of a lower generation than the consumer.
LEMMA SeekFence ==
    ASSUME IInv, IInv', FenceInv, NEW c \in Consumers, NEW target, Seek(c, target)
    PROVE  FenceInv'
<1>1. UNCHANGED <<tokens, epoch>> /\ c \in DOMAIN cons
  BY DEF Seek
<1>2. cons[c] \in ConsumerRow
  BY <1>1 DEF IInv, TypeOK, IsTable
<1>3. cons' = [cons EXCEPT ![c] = [cons[c] EXCEPT !.cursor = target, !.gen = cons[c].gen + 1]]
  BY <1>1 DEF Seek
<1>4. [cons[c] EXCEPT !.cursor = target, !.gen = cons[c].gen + 1].gen = cons[c].gen + 1
  BY <1>2 DEF ConsumerRow
<1>5. DOMAIN cons' = DOMAIN cons /\ cons'[c].gen = cons[c].gen + 1
      /\ \A d \in DOMAIN cons : d # c => cons'[d] = cons[d]
  BY <1>1, <1>3, <1>4
<1>6. \A d \in Consumers : d # c => rows'[d] = rows[d] /\ settled'[d] = settled[d]
  BY DEF Seek, StartOver, IInv, TypeOK, AreTables
<1>7. \A d \in Consumers : epoch[d] \in Nat /\ epoch[d] <= MaxEpoch
  BY DEF IInv, TypeOK, FenceInv
<1>8. \A d \in DOMAIN cons : d \in Consumers /\ cons[d].gen \in Nat
  BY DEF IInv, TypeOK, IsTable, ConsumerRow
<1>9. \A d \in Consumers : \A s \in DOMAIN rows[d] : rows[d][s].attempts \in Nat
  BY DEF IInv, TypeOK, AreTables, IsTable, Row
<1>10. cons'[c].gen # cons[c].gen /\ cons[c].gen <= cons'[c].gen
  BY <1>1, <1>5, <1>8
<1>11. QED
  BY <1>1, <1>5, <1>6, <1>7, <1>8, <1>9, <1>10, FenceStep

\* What an update does: the rows a shrink drops were never handed out.
LEMMA UpdateEffect ==
    ASSUME IInv, NEW c \in Consumers, NEW cfg \in Configs, UpdateConsumer(c, cfg)
    PROVE  /\ UNCHANGED <<tokens, epoch, settled>>
           /\ DOMAIN cons' = DOMAIN cons
           /\ \A d \in DOMAIN cons : cons'[d].gen = cons[d].gen
           /\ \A d \in Consumers :
                /\ DOMAIN rows'[d] \subseteq DOMAIN rows[d]
                /\ \A s \in DOMAIN rows'[d] : rows'[d][s] = rows[d][s]
                /\ \A s \in DOMAIN rows[d] : rows[d][s].attempts > 0 => s \in DOMAIN rows'[d]
<1> DEFINE D == Dropped(c, cfg)
           m == ShrunkCursor(c, D)
<1>1. c \in DOMAIN cons /\ UNCHANGED <<tokens, epoch, settled>>
  BY DEF UpdateConsumer, ghosts
<1>2. cons' = [cons EXCEPT ![c] = [cons[c] EXCEPT !.cfg = cfg, !.cursor = m]]
  BY <1>1 DEF UpdateConsumer
<1>3. UpdateRows({c} \X D, NoNewRows)
  BY DEF UpdateConsumer
<1>4. \A s \in D : s \in DOMAIN rows[c] /\ rows[c][s].attempts = 0
  BY DEF Dropped, Newest, Droppable
<1> HIDE DEF D, m
<1>5. DOMAIN cons' = DOMAIN cons /\ \A d \in DOMAIN cons : cons'[d].gen = cons[d].gen
  <2>1. cons[c] \in ConsumerRow
    BY <1>1 DEF IInv, TypeOK, IsTable
  <2>2. [cons[c] EXCEPT !.cfg = cfg, !.cursor = m].gen = cons[c].gen
    BY <2>1 DEF ConsumerRow
  <2>3. QED
    BY <1>2, <2>2
<1>6. ASSUME NEW d \in Consumers
      PROVE  /\ DOMAIN rows'[d] = {s \in DOMAIN rows[d] : <<d, s>> \notin {c} \X D}
             /\ \A s \in DOMAIN rows'[d] : rows'[d][s] = rows[d][s]
  BY <1>3, <1>6, DropEffect
<1>7. ASSUME NEW d \in Consumers, NEW s \in DOMAIN rows[d], rows[d][s].attempts > 0
      PROVE  s \in DOMAIN rows'[d]
  <2>1. <<d, s>> \notin {c} \X D
    BY <1>4, <1>7
  <2>2. QED
    BY <1>6, <1>7, <2>1
<1>8. ASSUME NEW d \in Consumers PROVE DOMAIN rows'[d] \subseteq DOMAIN rows[d]
  BY <1>6, <1>8
<1>9. QED
  BY <1>1, <1>5, <1>6, <1>7, <1>8

\* Update keeps the fence.
LEMMA UpdateConsumerFence ==
    ASSUME IInv, IInv', FenceInv, NEW c \in Consumers, NEW cfg \in Configs,
           UpdateConsumer(c, cfg)
    PROVE  FenceInv'
<1>1. /\ UNCHANGED <<tokens, epoch, settled>>
      /\ DOMAIN cons' = DOMAIN cons
      /\ \A d \in DOMAIN cons : cons'[d].gen = cons[d].gen
      /\ \A d \in Consumers : \A s \in DOMAIN rows[d] :
           rows[d][s].attempts > 0 => s \in DOMAIN rows'[d] /\ rows'[d][s] = rows[d][s]
  BY UpdateEffect
<1>2. \A d \in Consumers : epoch[d] \in Nat /\ epoch[d] <= MaxEpoch
  BY DEF IInv, TypeOK, FenceInv
<1>3. \A d \in DOMAIN cons : d \in Consumers /\ cons[d].gen \in Nat
  BY DEF IInv, TypeOK, IsTable, ConsumerRow
<1>4. \A d \in Consumers : \A s \in DOMAIN rows[d] : rows[d][s].attempts \in Nat
  BY DEF IInv, TypeOK, AreTables, IsTable, Row
<1>5. QED
  BY <1>1, <1>2, <1>3, <1>4, FenceStep

\* What both purges do to the rows of a consumer: those in S go, and then the
\* generation moves on.
LEMMA PurgeEffect ==
    ASSUME IInv, NEW S, UpdateRows(Consumers \X S, NoNewRows),
           \A c \in DOMAIN cons : cons'[c].gen = GenAfterPurge(c, S)
    PROVE  /\ \A c \in Consumers :
                /\ DOMAIN rows'[c] = DOMAIN rows[c] \ S
                /\ \A s \in DOMAIN rows'[c] : rows'[c][s] = rows[c][s]
           /\ \A c \in DOMAIN cons :
                /\ cons[c].gen <= cons'[c].gen
                /\ cons'[c].gen = cons[c].gen => rows'[c] = rows[c]
<1>1. ASSUME NEW c \in Consumers
      PROVE  /\ DOMAIN rows'[c] = DOMAIN rows[c] \ S
             /\ \A s \in DOMAIN rows'[c] : rows'[c][s] = rows[c][s]
  <2>1. /\ DOMAIN rows'[c] = {s \in DOMAIN rows[c] : <<c, s>> \notin Consumers \X S}
        /\ \A s \in DOMAIN rows'[c] : rows'[c][s] = rows[c][s]
    BY <1>1, DropEffect
  <2>2. QED
    BY <1>1, <2>1
<1>2. ASSUME NEW c \in DOMAIN cons
      PROVE  /\ cons[c].gen <= cons'[c].gen
             /\ cons'[c].gen = cons[c].gen => DOMAIN rows[c] \cap S = {}
  <2>1. cons[c].gen \in Nat
    BY <1>2 DEF IInv, TypeOK, IsTable, ConsumerRow
  <2>2. QED
    BY <1>2, <2>1 DEF GenAfterPurge, Holders
<1>3. ASSUME NEW c \in DOMAIN cons, DOMAIN rows[c] \cap S = {}
      PROVE  rows'[c] = rows[c]
  <2>1. c \in Consumers
    BY <1>3 DEF IInv, TypeOK, IsTable
  <2>2. DOMAIN rows'[c] = DOMAIN rows[c] /\ \A s \in DOMAIN rows[c] : rows'[c][s] = rows[c][s]
    BY <1>1, <1>3, <2>1
  <2>3. rows[c] = [s \in DOMAIN rows[c] |-> rows[c][s]]
    BY <2>1 DEF IInv, TypeOK, AreTables, IsTable
  <2>4. rows'[c] = [s \in DOMAIN rows'[c] |-> rows'[c][s]]
    BY <2>1 DEF UpdateRows
  <2>5. QED
    BY <2>2, <2>3, <2>4
<1>4. QED
  BY <1>1, <1>2, <1>3

\* A purge keeps the fence: a consumer that loses a row loses its tokens too.
LEMMA PurgeFence ==
    ASSUME IInv, IInv', FenceInv, NEW S, UpdateRows(Consumers \X S, NoNewRows),
           DOMAIN cons' = DOMAIN cons, UNCHANGED <<tokens, epoch, settled>>,
           \A c \in DOMAIN cons : cons'[c].gen = GenAfterPurge(c, S)
    PROVE  FenceInv'
<1>1. \A c \in DOMAIN cons :
        /\ cons[c].gen <= cons'[c].gen
        /\ cons'[c].gen = cons[c].gen => rows'[c] = rows[c]
  BY PurgeEffect
<1>2. \A d \in Consumers : epoch[d] \in Nat /\ epoch[d] <= MaxEpoch
  BY DEF IInv, TypeOK, FenceInv
<1>3. \A d \in DOMAIN cons : d \in Consumers
  BY DEF IInv, TypeOK, IsTable
<1>4. \A d \in Consumers : \A s \in DOMAIN rows[d] : rows[d][s].attempts \in Nat
  BY DEF IInv, TypeOK, AreTables, IsTable, Row
<1>5. QED
  BY <1>1, <1>2, <1>3, <1>4, FenceStep

\* What the range purge is to the fence.
LEMMA PurgeRangeStep ==
    ASSUME IInv, NEW upper, PurgeRange(upper)
    PROVE  \E S : /\ UpdateRows(Consumers \X S, NoNewRows)
                  /\ DOMAIN cons' = DOMAIN cons /\ UNCHANGED <<tokens, epoch, settled>>
                  /\ \A c \in DOMAIN cons : /\ cons'[c].gen = GenAfterPurge(c, S)
                                            /\ cons'[c].cfg = cons[c].cfg
<1> DEFINE S == {s \in Seqs : s <= upper}
<1>1. /\ DeleteMessages({s \in Live : s <= upper})
      /\ UpdateRows(Consumers \X S, NoNewRows)
      /\ cons' = [c \in DOMAIN cons |->
                    [cons[c] EXCEPT !.gen = GenAfterPurge(c, S),
                                    !.cursor = ClampedCursor(c, upper)]]
  BY DEF PurgeRange
<1> HIDE DEF S
<1>2. UNCHANGED <<tokens, epoch, settled>>
  BY <1>1 DEF DeleteMessages
<1>3. ASSUME NEW c \in DOMAIN cons
      PROVE  cons'[c].gen = GenAfterPurge(c, S) /\ cons'[c].cfg = cons[c].cfg
  <2>1. cons[c] \in ConsumerRow
    BY <1>3 DEF IInv, TypeOK, IsTable
  <2>2. cons'[c] = [cons[c] EXCEPT !.gen = GenAfterPurge(c, S),
                                   !.cursor = ClampedCursor(c, upper)]
    BY <1>1, <1>3
  <2>3. QED
    BY <2>1, <2>2 DEF ConsumerRow
<1>4. QED
  BY <1>1, <1>2, <1>3

\* What the filtered purge is to the fence.
LEMMA PurgeScanStep ==
    ASSUME IInv, NEW pattern, NEW upper, NEW keep, PurgeScan(pattern, upper, keep)
    PROVE  \E S : /\ UpdateRows(Consumers \X S, NoNewRows)
                  /\ DOMAIN cons' = DOMAIN cons /\ UNCHANGED <<tokens, epoch, settled>>
                  /\ \A c \in DOMAIN cons : /\ cons'[c].gen = GenAfterPurge(c, S)
                                            /\ cons'[c].cfg = cons[c].cfg
<1> DEFINE S == Victims(pattern, upper, keep)
<1>1. /\ DeleteMessages(S)
      /\ UpdateRows(Consumers \X S, NoNewRows)
      /\ cons' = [c \in DOMAIN cons |-> [cons[c] EXCEPT !.gen = GenAfterPurge(c, S)]]
  BY DEF PurgeScan
<1> HIDE DEF S
<1>2. UNCHANGED <<tokens, epoch, settled>>
  BY <1>1 DEF DeleteMessages
<1>3. ASSUME NEW c \in DOMAIN cons
      PROVE  cons'[c].gen = GenAfterPurge(c, S) /\ cons'[c].cfg = cons[c].cfg
  <2>1. cons[c] \in ConsumerRow
    BY <1>3 DEF IInv, TypeOK, IsTable
  <2>2. cons'[c] = [cons[c] EXCEPT !.gen = GenAfterPurge(c, S)]
    BY <1>1, <1>3
  <2>3. QED
    BY <2>1, <2>2 DEF ConsumerRow
<1>4. QED
  BY <1>1, <1>2, <1>3

\* What re-create and pause leave: generations, and all but the configuration.
LEMMA ConfigEffect ==
    ASSUME IInv, NEW c \in Consumers
    PROVE  /\ \A cfg \in Configs : RecreateConsumer(c, cfg) =>
                /\ DOMAIN cons' = DOMAIN cons
                /\ \A d \in DOMAIN cons : cons'[d].gen = cons[d].gen
           /\ SetPaused(c) =>
                /\ DOMAIN cons' = DOMAIN cons
                /\ \A d \in DOMAIN cons : /\ cons'[d].gen = cons[d].gen
                                          /\ cons'[d].cfg = cons[d].cfg
<1>1. ASSUME NEW cfg \in Configs, RecreateConsumer(c, cfg)
      PROVE  DOMAIN cons' = DOMAIN cons /\ \A d \in DOMAIN cons : cons'[d].gen = cons[d].gen
  <2>1. c \in DOMAIN cons /\ cons' = [cons EXCEPT ![c] = [cons[c] EXCEPT !.cfg = cfg]]
    BY <1>1 DEF RecreateConsumer
  <2>2. [cons[c] EXCEPT !.cfg = cfg].gen = cons[c].gen
    BY <2>1 DEF IInv, TypeOK, IsTable, ConsumerRow
  <2>3. QED
    BY <2>1, <2>2
<1>2. ASSUME SetPaused(c)
      PROVE  /\ DOMAIN cons' = DOMAIN cons
             /\ \A d \in DOMAIN cons : cons'[d].gen = cons[d].gen /\ cons'[d].cfg = cons[d].cfg
  <2>1. /\ c \in DOMAIN cons
        /\ cons' = [cons EXCEPT ![c] = [cons[c] EXCEPT !.paused = ~cons[c].paused]]
    BY <1>2 DEF SetPaused
  <2>2. /\ [cons[c] EXCEPT !.paused = ~cons[c].paused].gen = cons[c].gen
        /\ [cons[c] EXCEPT !.paused = ~cons[c].paused].cfg = cons[c].cfg
    BY <2>1 DEF IInv, TypeOK, IsTable, ConsumerRow
  <2>3. QED
    BY <2>1, <2>2
<1>3. QED
  BY <1>1, <1>2

\* A settle keeps the fence, committed or rolled back.
LEMMA SettleFence ==
    ASSUME IInv, IInv', FenceInv, NEW items \in SettleRequests, Settle(items)
    PROVE  FenceInv'
<1>1. CASE SettleCommits(items)
  <2>1. ServedStep /\ UNCHANGED <<cons, tokens, epoch>>
    BY <1>1, SettleServes DEF SettleCommits
  <2>2. QED
    BY <2>1, ServedFence
<1>2. CASE SettleAborts(items)
  BY <1>2, QuietFence DEF SettleAborts, ghosts
<1>3. QED
  BY <1>1, <1>2 DEF Settle

\* What clients do keeps the fence.
LEMMA ClientFence ==
    ASSUME IInv, IInv', FenceInv, ClientNext
    PROVE  FenceInv'
<1>1. ASSUME NEW subject \in Subjects, Publish(subject) PROVE FenceInv'
  BY <1>1, QuietFence DEF Publish, ghosts
<1>2. QED
  BY <1>1, FetchFence, SettleFence DEF ClientNext

\* What the store does by itself keeps the fence.
LEMMA SystemFence ==
    ASSUME IInv, IInv', FenceInv, SystemNext
    PROVE  FenceInv'
<1>1. CASE Tick
  <2>1. ServedStep /\ UNCHANGED <<cons, tokens, epoch>>
    BY <1>1, TickServes DEF Tick, ghosts
  <2>2. QED
    BY <2>1, ServedFence
<1>2. CASE Sweep
  <2>1. ServedStep /\ UNCHANGED <<cons, tokens, epoch>>
    BY <1>2, SweepServes DEF Sweep
  <2>2. QED
    BY <2>1, ServedFence
<1>3. CASE Retire
  <2>1. ServedStep /\ UNCHANGED <<cons, tokens, epoch>>
    BY <1>3, RetireServes DEF Retire
  <2>2. QED
    BY <2>1, ServedFence
<1>4. CASE Restart
  <2>1. ServedStep /\ UNCHANGED <<cons, tokens, epoch>>
    BY <1>4, RestartServes DEF Restart, ghosts
  <2>2. QED
    BY <2>1, ServedFence
<1>5. CASE Retain
  BY <1>5, QuietFence DEF Retain
<1>6. QED
  BY <1>1, <1>2, <1>3, <1>4, <1>5 DEF SystemNext

\* What operators do keeps the fence.
LEMMA AdminFence ==
    ASSUME IInv, IInv', FenceInv, AdminNext
    PROVE  FenceInv'
<1>1. ASSUME NEW c \in Consumers, NEW cfg \in Configs, RecreateConsumer(c, cfg)
      PROVE  FenceInv'
  <2>1. DOMAIN cons' = DOMAIN cons /\ \A d \in DOMAIN cons : cons'[d].gen = cons[d].gen
    BY <1>1, ConfigEffect
  <2>2. UNCHANGED <<rows, tokens, epoch, settled>>
    BY <1>1 DEF RecreateConsumer, ghosts
  <2>3. QED
    BY <2>1, <2>2, QuietFence
<1>2. ASSUME NEW c \in Consumers, SetPaused(c) PROVE FenceInv'
  <2>1. DOMAIN cons' = DOMAIN cons /\ \A d \in DOMAIN cons : cons'[d].gen = cons[d].gen
    BY <1>2, ConfigEffect
  <2>2. UNCHANGED <<rows, tokens, epoch, settled>>
    BY <1>2 DEF SetPaused, ghosts
  <2>3. QED
    BY <2>1, <2>2, QuietFence
<1>3. ASSUME NEW upper \in Seqs, PurgeRange(upper) PROVE FenceInv'
  BY <1>3, PurgeRangeStep, PurgeFence
<1>4. ASSUME NEW upper, NEW pattern, NEW keep, PurgeScan(pattern, upper, keep)
      PROVE  FenceInv'
  BY <1>4, PurgeScanStep, PurgeFence
<1>5. QED
  BY <1>1, <1>2, <1>3, <1>4, CreateConsumerFence, UpdateConsumerFence, DeleteConsumerFence,
     SeekFence DEF AdminNext

\* Every step keeps the fence.
LEMMA NextFence == IInv /\ IInv' /\ FenceInv /\ [Next]_vars => FenceInv'
<1> SUFFICES ASSUME IInv, IInv', FenceInv, [Next]_vars PROVE FenceInv'
  OBVIOUS
<1>1. CASE UNCHANGED vars
  BY <1>1, QuietFence DEF vars
<1>2. QED
  BY <1>1, ClientFence, SystemFence, AdminFence DEF Next

\* There are no tokens and no consumers to begin with.
LEMMA InitFence == Init => FenceInv
  BY ConstantsAssumption DEF Init, FenceInv, EmptyFun

-----------------------------------------------------------------------------
\* The invariant behind the token fence, for every number of incarnations.
THEOREM FenceInductive == Spec => []FenceInv
<1>1. IInv /\ IInv' /\ FenceInv /\ [Next]_vars => FenceInv'
  BY NextFence
<1>2. QED
  BY Inductive, InitFence, <1>1, PTL DEF Spec

\* The fence (SEMANTICS I7), in every instance: of the tokens of a consumer as
\* it stands, only that of the latest delivery of a message settles it, across
\* redelivery, seek, purge, shrink, restart and retention.
THEOREM LatestLeaseSettles == Spec => []LatestSettlesInEpoch
<1>1. IInv /\ FenceInv => LatestSettlesInEpoch
  BY FenceInEpoch
<1>2. QED
  BY Inductive, FenceInductive, <1>1, PTL

\* The answer to a late ack is the truth (T3a), in every instance: a token of
\* the consumer as it stands is never "unknown", and "stale" means settled.
THEOREM LateAnswersAreTrue == Spec => []AnswersTrueInEpoch
<1>1. IInv /\ FenceInv => AnswersTrueInEpoch
  BY AnswersInEpoch
<1>2. QED
  BY Inductive, FenceInductive, <1>1, PTL

\* With one incarnation per name this is the property of Delivery; a name that
\* is created again starts at its first generation, and it fails.
THEOREM StaleTokensAreFenced ==
    ASSUME MaxEpoch <= 1
    PROVE  Spec => []OnlyLatestLeaseSettles
<1>1. IInv /\ FenceInv => OnlyLatestLeaseSettles
  BY OneIncarnation
<1>2. QED
  BY Inductive, FenceInductive, <1>1, PTL

\* So it is with the answers.
THEOREM StaleTokensAreToldSo ==
    ASSUME MaxEpoch <= 1
    PROVE  Spec => []TokenAnswersAreTrue
<1>1. IInv /\ FenceInv => TokenAnswersAreTrue
  BY OneIncarnation
<1>2. QED
  BY Inductive, FenceInductive, <1>1, PTL

-----------------------------------------------------------------------------
(* Planner and statement agree: rows carry their consumer's generation.      *)

\* Serving changes no generation.
LEMMA ServedGen ==
    ASSUME IInv, GenInv, ServedStep, UNCHANGED cons
    PROVE  GenInv'
<1>1. \A c \in DOMAIN cons : c \in Consumers
  BY DEF IInv, TypeOK, IsTable
<1>2. QED
  BY <1>1 DEF GenInv, ServedStep

\* Rows that stay as they are keep their generation when consumers do.
LEMMA KeptGen ==
    ASSUME IInv, GenInv,
           \A c \in DOMAIN cons' : DOMAIN rows'[c] = {} \/
             /\ c \in DOMAIN cons /\ cons'[c].gen = cons[c].gen
             /\ DOMAIN rows'[c] \subseteq DOMAIN rows[c]
             /\ \A s \in DOMAIN rows'[c] : rows'[c][s] = rows[c][s]
    PROVE  GenInv'
  BY DEF GenInv

\* What a fetch inserts has the generation of the consumer, and a claim keeps it.
LEMMA FetchGen ==
    ASSUME IInv, GenInv, NEW c \in Consumers, Fetch(c)
    PROVE  GenInv'
<1> SUFFICES ASSUME NEW d \in DOMAIN cons', NEW s \in DOMAIN rows'[d]
             PROVE  rows'[d][s].gen = cons'[d].gen
  BY DEF GenInv
<1>1. /\ d \in DOMAIN cons /\ cons'[d].gen = cons[d].gen /\ d \in Consumers
      /\ (d # c => rows'[d] = rows[d])
  BY FetchEffect DEF IInv, TypeOK, IsTable
<1>2. CASE d # c
  BY <1>1, <1>2 DEF GenInv
<1>3. CASE d = c
  <2>1. Offered(c, s).gen = cons[c].gen
    BY <1>1, <1>3 DEF Offered, FreshRow, GenInv
  <2>2. rows'[c][s] = Offered(c, s) \/ rows'[c][s] = ClaimedRow(Offered(c, s))
    BY <1>3, FetchEffect
  <2>3. ClaimedRow(Offered(c, s)).gen = Offered(c, s).gen
    BY DEF ClaimedRow
  <2>4. QED
    BY <1>1, <1>3, <2>1, <2>2, <2>3
<1>4. QED
  BY <1>2, <1>3

\* Two items that act on one row bear the same token, so the second is a
\* repetition, and each finds the row its statement names.
LEMMA NoStatementMisses ==
    ASSUME IInv, GenInv, NEW items \in SettleRequests,
           NEW i \in Acting(items, {"ack", "release", "extend", "dead"})
    PROVE  /\ RowFence(items[i].token)
           /\ \A j \in Acting(items, {"ack", "dead"}) :
                ~(j < i /\ KeyOf(items[j].token) = KeyOf(items[i].token))
<1> DEFINE t == items[i].token
<1>1. i \in DOMAIN items /\ PlanSettle(t, items[i].req) \in {"ack", "release", "extend", "dead"}
  BY ActingItem
<1> HIDE DEF t
<1>2. /\ t.consumer \in DOMAIN cons /\ t.gen = cons[t.consumer].gen
      /\ HasRow(t) /\ t.attempt = RowOf(KeyOf(t)).attempts
  BY <1>1, ActsOnItsRow
<1>3. RowFence(t)
  BY <1>2, RowOfToken DEF RowFence, GenInv, HasRow
<1>4. ASSUME NEW j \in Acting(items, {"ack", "dead"}), j < i,
             KeyOf(items[j].token) = KeyOf(t)
      PROVE  FALSE
  <2> DEFINE u == items[j].token
  <2>1. j \in DOMAIN items /\ PlanSettle(u, items[j].req) \in {"ack", "dead"}
    BY <1>4, ActingItem
  <2>2. KeyOf(u) = KeyOf(t)
    BY <1>4
  <2> HIDE DEF u
  <2>3. u.gen = cons[u.consumer].gen /\ u.attempt = RowOf(KeyOf(u)).attempts
    BY <2>1, ActsOnItsRow
  <2>4. u.consumer = t.consumer
    BY <2>2 DEF KeyOf
  <2>5. SameToken(u, t)
    BY <1>2, <2>2, <2>3, <2>4 DEF SameToken
  <2>6. j \in 1 .. i - 1
    <3>1. \E n \in Nat : DOMAIN items = 1 .. n
      BY ConstantsAssumption DEF SettleRequests
    <3>2. QED
      BY <1>1, <1>4, <2>1, <3>1
  <2>7. ~SameToken(items[j].token, items[i].token)
    BY <2>6 DEF Acting
  <2>8. QED
    BY <2>5, <2>7 DEF t, u
<1>5. QED
  BY <1>3, <1>4 DEF t

\* A settle request within the budget is never rolled back for infrastructure's
\* sake.
LEMMA OverBudgetFails ==
    ASSUME IInv, GenInv
    PROVE  OnlyOverBudgetLatches
BY NoStatementMisses DEF OnlyOverBudgetLatches, BatchFails

\* A settle keeps the generations, and so does one that latches the store.
LEMMA SettleGen ==
    ASSUME IInv, GenInv, NEW items \in SettleRequests, Settle(items)
    PROVE  GenInv'
<1>1. CASE SettleCommits(items)
  <2>1. UNCHANGED cons
    BY <1>1 DEF SettleCommits
  <2>2. QED
    BY <1>1, <2>1, SettleServes, ServedGen
<1>2. CASE SettleAborts(items)
  BY <1>2 DEF SettleAborts, GenInv
<1>3. QED
  BY <1>1, <1>2 DEF Settle

\* What clients do keeps the generations.
LEMMA ClientGen ==
    ASSUME IInv, GenInv, ClientNext
    PROVE  GenInv'
<1>1. ASSUME NEW subject \in Subjects, Publish(subject) PROVE GenInv'
  <2>1. UNCHANGED <<cons, rows>>
    BY <1>1 DEF Publish
  <2>2. QED
    BY <2>1 DEF GenInv
<1>2. ASSUME NEW c \in Consumers, Fetch(c) PROVE GenInv'
  BY <1>2, FetchGen
<1>3. QED
  BY <1>1, <1>2, SettleGen DEF ClientNext

\* The clock, the sweep and the retire pass keep the generations.
LEMMA ServiceGen ==
    ASSUME IInv, GenInv, Tick \/ Sweep \/ Retire
    PROVE  GenInv'
<1>1. ServedStep
  BY TickServes, SweepServes, RetireServes
<1>2. UNCHANGED cons
  BY DEF Tick, Sweep, Retire
<1>3. QED
  BY <1>1, <1>2, ServedGen

\* A consumer is created without rows.
LEMMA CreateConsumerGen ==
    ASSUME IInv, GenInv, NEW c \in Consumers, NEW cfg, NEW target,
           CreateConsumer(c, cfg, target)
    PROVE  GenInv'
<1>1. c \notin DOMAIN cons /\ UNCHANGED rows
  BY DEF CreateConsumer
<1>2. DOMAIN cons' = DOMAIN cons \cup {c} /\ \A d \in DOMAIN cons : cons'[d] = cons[d]
  BY <1>1 DEF CreateConsumer
<1>3. DOMAIN rows[c] = {}
  BY <1>1 DEF IInv, TableInv
<1>4. QED
  BY <1>1, <1>2, <1>3, KeptGen

\* The commands that can disturb the generations.
Purges == {"purge_range", "purge_scan"}

\* What operators do keeps the generations, purges aside.
LEMMA AdminGen ==
    ASSUME IInv, GenInv, Ops \cap Purges = {}, AdminNext
    PROVE  GenInv'
<1>1. ASSUME NEW c \in Consumers, NEW cfg \in Configs, RecreateConsumer(c, cfg)
      PROVE  GenInv'
  <2>1. DOMAIN cons' = DOMAIN cons /\ \A d \in DOMAIN cons : cons'[d].gen = cons[d].gen
    BY <1>1, ConfigEffect
  <2>2. UNCHANGED rows
    BY <1>1 DEF RecreateConsumer
  <2>3. QED
    BY <2>1, <2>2, KeptGen
<1>2. ASSUME NEW c \in Consumers, SetPaused(c) PROVE GenInv'
  <2>1. DOMAIN cons' = DOMAIN cons /\ \A d \in DOMAIN cons : cons'[d].gen = cons[d].gen
    BY <1>2, ConfigEffect
  <2>2. UNCHANGED rows
    BY <1>2 DEF SetPaused
  <2>3. QED
    BY <2>1, <2>2, KeptGen
<1>3. ASSUME NEW c \in Consumers, NEW cfg \in Configs, UpdateConsumer(c, cfg)
      PROVE  GenInv'
  <2>1. /\ DOMAIN cons' = DOMAIN cons
        /\ \A d \in DOMAIN cons : cons'[d].gen = cons[d].gen /\ d \in Consumers
        /\ \A d \in Consumers : /\ DOMAIN rows'[d] \subseteq DOMAIN rows[d]
                                /\ \A s \in DOMAIN rows'[d] : rows'[d][s] = rows[d][s]
    BY <1>3, UpdateEffect DEF IInv, TypeOK, IsTable
  <2>2. QED
    BY <2>1, KeptGen
<1>4. ASSUME NEW c \in Consumers, DeleteConsumer(c) PROVE GenInv'
  <2>1. DOMAIN cons' = DOMAIN cons \ {c} /\ \A d \in DOMAIN cons' : cons'[d] = cons[d]
    BY <1>4 DEF DeleteConsumer
  <2>2. \A d \in DOMAIN cons' : rows'[d] = rows[d]
    BY <1>4, <2>1 DEF DeleteConsumer, IInv, TypeOK, AreTables, IsTable
  <2>3. QED
    BY <2>1, <2>2, KeptGen
<1>5. ASSUME NEW c \in Consumers, NEW target, Seek(c, target) PROVE GenInv'
  <2>1. rows'[c] = EmptyFun /\ \A d \in Consumers : d # c => rows'[d] = rows[d]
    BY <1>5 DEF Seek, IInv, TypeOK, AreTables
  <2>2. DOMAIN cons' = DOMAIN cons /\ \A d \in DOMAIN cons : d # c => cons'[d] = cons[d]
    BY <1>5 DEF Seek
  <2>3. DOMAIN rows'[c] = {} /\ \A d \in DOMAIN cons : d \in Consumers
    BY <2>1 DEF EmptyFun, IInv, TypeOK, IsTable
  <2>4. QED
    BY <2>1, <2>2, <2>3, KeptGen
<1>6. ASSUME NEW upper, NEW pattern, NEW keep
      PROVE  ~PurgeRange(upper) /\ ~PurgeScan(pattern, upper, keep)
  BY DEF PurgeRange, PurgeScan, Purges
<1>7. QED
  BY <1>1, <1>2, <1>3, <1>4, <1>5, <1>6, CreateConsumerGen DEF AdminNext

\* Restart and retention keep the generations.
LEMMA RestartRetainGen ==
    ASSUME IInv, GenInv, Restart \/ Retain
    PROVE  GenInv'
<1>1. CASE Restart
  <2>1. UNCHANGED cons
    BY <1>1 DEF Restart
  <2>2. QED
    BY <1>1, <2>1, RestartServes, ServedGen
<1>2. CASE Retain
  <2>1. UNCHANGED <<cons, rows>>
    BY <1>2 DEF Retain
  <2>2. QED
    BY <2>1 DEF GenInv
<1>3. QED
  BY <1>1, <1>2

\* Where nobody purges, every step keeps the generations.
LEMMA NextGen ==
    ASSUME Ops \cap Purges = {}, IInv, GenInv, [Next]_vars
    PROVE  GenInv'
<1>1. CASE UNCHANGED vars
  BY <1>1 DEF vars, GenInv
<1>2. QED
  BY <1>1, ClientGen, ServiceGen, RestartRetainGen, AdminGen DEF Next, SystemNext

\* No consumer to begin with.
LEMMA InitGen == Init => GenInv
  BY DEF Init, GenInv, EmptyFun

\* Of all the requests clients can put together of their tokens, only those with
\* more deaths than the dead-letter budget latch the store, as long as nobody
\* purges: every statement of any other settle finds the row its planner saw
\* (settle.go, settle_impl.go).  The run purge_latch shows that the condition is
\* needed.
THEOREM OnlyOverBudgetLatch ==
    ASSUME Ops \cap Purges = {}
    PROVE  Spec => []OnlyOverBudgetLatches
<1>1. IInv /\ GenInv /\ [Next]_vars => GenInv'
  BY NextGen
<1>2. IInv /\ GenInv => OnlyOverBudgetLatches
  BY OverBudgetFails
<1>3. QED
  BY Inductive, InitGen, <1>1, <1>2, PTL DEF Spec

-----------------------------------------------------------------------------
(* The delivery bound.                                                       *)

\* Serving releases no row at its bound.
LEMMA ServedBound ==
    ASSUME IInv, BoundInv, ServedStep, BoundedRelease, UNCHANGED cons
    PROVE  BoundInv'
<1> SUFFICES ASSUME NEW c \in DOMAIN cons, cons[c].cfg.maxDeliver > 0,
                    NEW s \in DOMAIN rows'[c]
             PROVE  /\ rows'[c][s].attempts <= cons[c].cfg.maxDeliver
                    /\ rows'[c][s].state = "ready" =>
                         rows'[c][s].attempts < cons[c].cfg.maxDeliver
  BY DEF BoundInv
<1>1. c \in Consumers /\ cons[c].cfg.maxDeliver \in Nat
  BY DEF IInv, TypeOK, IsTable, ConsumerRow, Config
<1>2. s \in DOMAIN rows[c] /\ rows'[c][s].attempts = rows[c][s].attempts
  BY <1>1 DEF ServedStep
<1>3. rows[c][s].attempts \in Nat
  BY <1>1, <1>2 DEF IInv, TypeOK, AreTables, IsTable, Row
<1>4. /\ rows[c][s].attempts <= cons[c].cfg.maxDeliver
      /\ rows[c][s].state = "ready" => rows[c][s].attempts < cons[c].cfg.maxDeliver
  BY <1>2 DEF BoundInv
<1>5. ASSUME rows'[c][s].state = "ready" PROVE rows[c][s].attempts < cons[c].cfg.maxDeliver
  <2>1. rows[c][s].state = "ready" \/ ~Exhausted(c, rows[c][s].attempts)
    BY <1>5 DEF BoundedRelease
  <2>2. QED
    BY <1>1, <1>3, <1>4, <2>1 DEF Exhausted
<1>6. QED
  BY <1>2, <1>4, <1>5

\* Rows that stay as they are stay within the bound when it stays.
LEMMA KeptBound ==
    ASSUME BoundInv,
           \A c \in DOMAIN cons' : DOMAIN rows'[c] = {} \/
             /\ c \in DOMAIN cons /\ cons'[c].cfg = cons[c].cfg
             /\ DOMAIN rows'[c] \subseteq DOMAIN rows[c]
             /\ \A s \in DOMAIN rows'[c] : rows'[c][s] = rows[c][s]
    PROVE  BoundInv'
  BY DEF BoundInv

\* A claim takes a row that is below its bound, and counts one.
LEMMA FetchBound ==
    ASSUME IInv, BoundInv, NEW c \in Consumers, Fetch(c)
    PROVE  BoundInv'
<1> SUFFICES ASSUME NEW d \in DOMAIN cons', cons'[d].cfg.maxDeliver > 0,
                    NEW s \in DOMAIN rows'[d]
             PROVE  /\ rows'[d][s].attempts <= cons'[d].cfg.maxDeliver
                    /\ rows'[d][s].state = "ready" =>
                         rows'[d][s].attempts < cons'[d].cfg.maxDeliver
  BY DEF BoundInv
<1>1. /\ d \in DOMAIN cons /\ cons'[d].cfg = cons[d].cfg
      /\ d \in Consumers /\ cons[d].cfg.maxDeliver \in Nat
      /\ (d # c => rows'[d] = rows[d])
  BY FetchEffect DEF IInv, TypeOK, IsTable, ConsumerRow, Config
<1>2. CASE d # c
  BY <1>1, <1>2 DEF BoundInv
<1>3. CASE d = c
  <2> DEFINE r == Offered(c, s)
             max == cons[c].cfg.maxDeliver
  <2>1. r \in Row /\ (rows'[c][s] = r \/ (r.state = "ready" /\ rows'[c][s] = ClaimedRow(r)))
    BY <1>3, FetchEffect
  <2>2. r.attempts <= max /\ (r.state = "ready" => r.attempts < max)
    <3>1. CASE s \in DOMAIN rows[c]
      BY <1>1, <1>3, <3>1 DEF Offered, BoundInv
    <3>2. CASE s \notin DOMAIN rows[c]
      <4>1. r.attempts = 0
        BY <3>2 DEF Offered, FreshRow
      <4>2. QED
        BY <1>1, <1>3, <4>1
    <3>3. QED
      BY <3>1, <3>2
  <2> HIDE DEF r
  <2>3. ClaimedRow(r).attempts = r.attempts + 1 /\ ClaimedRow(r).state = "inflight"
    BY DEF ClaimedRow
  <2>4. r.attempts \in Nat /\ max \in Nat
    BY <1>1, <1>3, <2>1 DEF Row
  <2>5. QED
    BY <1>1, <1>3, <2>1, <2>2, <2>3, <2>4
<1>4. QED
  BY <1>2, <1>3

\* What clients do keeps the bound.
LEMMA ClientBound ==
    ASSUME IInv, BoundInv, ClientNext
    PROVE  BoundInv'
<1>1. ASSUME NEW subject \in Subjects, Publish(subject) PROVE BoundInv'
  BY <1>1 DEF Publish, BoundInv
<1>2. ASSUME NEW items \in SettleRequests, Settle(items) PROVE BoundInv'
  <2>1. CASE SettleCommits(items)
    <3>1. UNCHANGED cons
      BY <2>1 DEF SettleCommits
    <3>2. QED
      BY <2>1, <3>1, SettleServes, ServedBound
  <2>2. CASE SettleAborts(items)
    BY <2>2 DEF SettleAborts, BoundInv
  <2>3. QED
    BY <1>2, <2>1, <2>2 DEF Settle
<1>3. QED
  BY <1>1, <1>2, FetchBound DEF ClientNext

\* The clock, the sweep and the retire pass keep the bound.
LEMMA ServiceBound ==
    ASSUME IInv, BoundInv, Tick \/ Sweep \/ Retire
    PROVE  BoundInv'
<1>1. ServedStep /\ BoundedRelease
  BY TickServes, SweepServes, RetireServes
<1>2. UNCHANGED cons
  BY DEF Tick, Sweep, Retire
<1>3. QED
  BY <1>1, <1>2, ServedBound

\* A consumer is created without rows.
LEMMA CreateConsumerBound ==
    ASSUME IInv, BoundInv, NEW c \in Consumers, NEW cfg, NEW target,
           CreateConsumer(c, cfg, target)
    PROVE  BoundInv'
<1>1. c \notin DOMAIN cons /\ UNCHANGED rows
  BY DEF CreateConsumer
<1>2. DOMAIN cons' = DOMAIN cons \cup {c} /\ \A d \in DOMAIN cons : cons'[d] = cons[d]
  BY <1>1 DEF CreateConsumer
<1>3. DOMAIN rows[c] = {}
  BY <1>1 DEF IInv, TableInv
<1>4. QED
  BY <1>1, <1>2, <1>3, KeptBound

\* A purge drops rows and leaves the bound.
LEMMA PurgeBound ==
    ASSUME IInv, BoundInv, NEW S, UpdateRows(Consumers \X S, NoNewRows),
           DOMAIN cons' = DOMAIN cons,
           \A c \in DOMAIN cons : cons'[c].cfg = cons[c].cfg
    PROVE  BoundInv'
<1>1. \A c \in DOMAIN cons : c \in Consumers
  BY DEF IInv, TypeOK, IsTable
<1>2. ASSUME NEW c \in Consumers
      PROVE  /\ DOMAIN rows'[c] \subseteq DOMAIN rows[c]
             /\ \A s \in DOMAIN rows'[c] : rows'[c][s] = rows[c][s]
  <2>1. /\ DOMAIN rows'[c] = {s \in DOMAIN rows[c] : <<c, s>> \notin Consumers \X S}
        /\ \A s \in DOMAIN rows'[c] : rows'[c][s] = rows[c][s]
    BY <1>2, DropEffect
  <2>2. QED
    BY <2>1
<1>3. QED
  BY <1>1, <1>2, KeptBound

\* The commands that can leave a claimable row at its bound: a configuration
\* that lowers it, and a restart that voids a last lease.
BoundMovers == {"update", "restart"}

\* What operators do keeps the bound, changes of configuration aside.
LEMMA AdminBound ==
    ASSUME IInv, BoundInv, Ops \cap BoundMovers = {}, AdminNext
    PROVE  BoundInv'
<1>1. ASSUME NEW c \in Consumers, SetPaused(c) PROVE BoundInv'
  <2>1. DOMAIN cons' = DOMAIN cons /\ \A d \in DOMAIN cons : cons'[d].cfg = cons[d].cfg
    BY <1>1, ConfigEffect
  <2>2. UNCHANGED rows
    BY <1>1 DEF SetPaused
  <2>3. QED
    BY <2>1, <2>2, KeptBound
<1>2. ASSUME NEW c \in Consumers, DeleteConsumer(c) PROVE BoundInv'
  <2>1. DOMAIN cons' = DOMAIN cons \ {c} /\ \A d \in DOMAIN cons' : cons'[d] = cons[d]
    BY <1>2 DEF DeleteConsumer
  <2>2. \A d \in DOMAIN cons' : rows'[d] = rows[d]
    BY <1>2, <2>1 DEF DeleteConsumer, IInv, TypeOK, AreTables, IsTable
  <2>3. QED
    BY <2>1, <2>2, KeptBound
<1>3. ASSUME NEW c \in Consumers, NEW target, Seek(c, target) PROVE BoundInv'
  <2>1. rows'[c] = EmptyFun /\ \A d \in Consumers : d # c => rows'[d] = rows[d]
    BY <1>3 DEF Seek, IInv, TypeOK, AreTables
  <2>2. DOMAIN cons' = DOMAIN cons /\ \A d \in DOMAIN cons : d # c => cons'[d] = cons[d]
    BY <1>3 DEF Seek
  <2>3. DOMAIN rows'[c] = {} /\ \A d \in DOMAIN cons : d \in Consumers
    BY <2>1 DEF EmptyFun, IInv, TypeOK, IsTable
  <2>4. QED
    BY <2>1, <2>2, <2>3, KeptBound
<1>4. ASSUME NEW upper, PurgeRange(upper) PROVE BoundInv'
  BY <1>4, PurgeRangeStep, PurgeBound
<1>5. ASSUME NEW upper, NEW pattern, NEW keep, PurgeScan(pattern, upper, keep)
      PROVE  BoundInv'
  BY <1>5, PurgeScanStep, PurgeBound
<1>6. ASSUME NEW c, NEW cfg PROVE ~RecreateConsumer(c, cfg) /\ ~UpdateConsumer(c, cfg)
  BY DEF RecreateConsumer, UpdateConsumer, BoundMovers
<1>7. QED
  BY <1>1, <1>2, <1>3, <1>4, <1>5, <1>6, CreateConsumerBound DEF AdminNext

\* Where nobody moves the bound, no step takes a row past it.
LEMMA NextBound ==
    ASSUME Ops \cap BoundMovers = {}, IInv, BoundInv, [Next]_vars
    PROVE  BoundInv'
<1>1. CASE UNCHANGED vars
  BY <1>1 DEF vars, BoundInv
<1>2. CASE Retain
  BY <1>2 DEF Retain, BoundInv
<1>3. ~Restart
  BY DEF Restart, BoundMovers
<1>4. QED
  BY <1>1, <1>2, <1>3, ClientBound, ServiceBound, AdminBound DEF Next, SystemNext

\* The bound is the property, and there is no row to begin with.
LEMMA BoundIsBound ==
    ASSUME TRUE
    PROVE  (Init => BoundInv) /\ (BoundInv => AttemptsWithinMaxDeliver)
  BY DEF Init, BoundInv, AttemptsWithinMaxDeliver, EmptyFun

\* Delivery stops at max_deliver (I4), as long as nobody changes the bound under
\* a row and no restart voids a last lease; MCDelivery_restart_bound shows that
\* the second condition is needed.
THEOREM DeliveryStops ==
    ASSUME Ops \cap BoundMovers = {}
    PROVE  Spec => []AttemptsWithinMaxDeliver
<1>1. IInv /\ BoundInv /\ [Next]_vars => BoundInv'
  BY NextBound
<1>2. QED
  BY Inductive, BoundIsBound, <1>1, PTL DEF Spec

-----------------------------------------------------------------------------
(* Deliveries that no operator, restart or retention disturbs.               *)

\* The undisturbed service is part of the store's behaviour.
LEMMA ServiceIsNext == [ServiceNext]_vars => [Next]_vars
  BY DEF ServiceNext, Next, SystemNext, AdminNext

\* So what holds of the store holds of it.
LEMMA ServiceInductive == PollingSpec => []IInv
<1>1. IInv /\ [ServiceNext]_vars => IInv'
  BY NextIInv, ServiceIsNext
<1>2. QED
  BY InitIInv, <1>1, PTL DEF PollingSpec

\* Undisturbed, only a request over the dead-letter budget latches the store.
THEOREM ServiceLatches == PollingSpec => []OnlyOverBudgetLatches
<1>1. ASSUME IInv, GenInv, [ServiceNext]_vars
      PROVE  GenInv'
  <2>1. CASE UNCHANGED vars
    BY <1>1, <2>1 DEF vars, GenInv
  <2>2. QED
    BY <1>1, <2>1, ClientGen, ServiceGen, CreateConsumerGen DEF ServiceNext
<1>2. IInv /\ GenInv => OnlyOverBudgetLatches
  BY OverBudgetFails
<1>3. QED
  BY ServiceInductive, InitGen, <1>1, <1>2, PTL DEF PollingSpec

\* Undisturbed, delivery stops at max_deliver.
THEOREM ServiceIsBounded == PollingSpec => []AttemptsWithinMaxDeliver
<1>1. ASSUME IInv, BoundInv, [ServiceNext]_vars PROVE BoundInv'
  <2>1. CASE UNCHANGED vars
    BY <1>1, <2>1 DEF vars, BoundInv
  <2>2. QED
    BY <1>1, <2>1, ClientBound, ServiceBound, CreateConsumerBound DEF ServiceNext
<1>2. QED
  BY ServiceInductive, BoundIsBound, <1>1, PTL DEF PollingSpec
=============================================================================
