---------------------------- MODULE WriterProofs ----------------------------
(***************************************************************************)
(* The group-commit writer, for any number of callers and any depth of its *)
(* channels: its answers are true of the disk, commands become durable in  *)
(* the order they were accepted, events follow commits, and the writer     *)
(* implements CommandLog.                                                  *)
(*                                                                         *)
(* The argument follows a request through the writer. What was accepted    *)
(* and is not done with is the batch, the request held over and the        *)
(* channel, in this order (PipelineInv), so every request has one place in *)
(* accepted. Three cursors in accepted then tell what may have happened:   *)
(* requests up to Base are done with, those up to Written may be on the    *)
(* disk, those behind Front have been told nothing.                        *)
(***************************************************************************)
EXTENDS Writer, SequenceTheorems, TLAPS

-----------------------------------------------------------------------------
(* Sequences.                                                                *)

\* The elements of a sequence are the values at its positions.
LEMMA ElemsAt ==
    ASSUME NEW S, NEW s \in Seq(S)
    PROVE  /\ Elems(s) = {s[i] : i \in 1 .. Len(s)}
           /\ Elems(s) \subseteq S
           /\ \A i \in 1 .. Len(s) : s[i] \in S /\ s[i] \in Elems(s)
<1>1. DOMAIN s = 1 .. Len(s) /\ \A i \in 1 .. Len(s) : s[i] \in S
  OBVIOUS
<1>2. QED
  BY <1>1 DEF Elems

\* What Append does, position by position.
LEMMA AppendAt ==
    ASSUME NEW S, NEW s \in Seq(S), NEW x \in S
    PROVE  /\ Append(s, x) \in Seq(S) /\ Len(Append(s, x)) = Len(s) + 1
           /\ \A i \in 1 .. Len(s) : Append(s, x)[i] = s[i]
           /\ Append(s, x)[Len(s) + 1] = x
           /\ Elems(Append(s, x)) = Elems(s) \cup {x}
<1> DEFINE t == Append(s, x)
<1>1. t \in Seq(S) /\ Len(t) = Len(s) + 1 /\ Len(s) \in Nat
  OBVIOUS
<1>2. (\A i \in 1 .. Len(s) : t[i] = s[i]) /\ t[Len(s) + 1] = x
  OBVIOUS
<1>3. 1 .. Len(t) = 1 .. Len(s) \cup {Len(s) + 1}
  BY <1>1
<1> HIDE DEF t
<1>4. Elems(t) = {t[i] : i \in 1 .. Len(t)} /\ Elems(s) = {s[i] : i \in 1 .. Len(s)}
  BY <1>1, ElemsAt
<1>5. Elems(t) = Elems(s) \cup {x}
  BY <1>2, <1>3, <1>4
<1>6. QED
  BY <1>1, <1>2, <1>5 DEF t

\* What concatenation does, position by position.
LEMMA ConcatAt ==
    ASSUME NEW S, NEW s \in Seq(S), NEW t \in Seq(S)
    PROVE  /\ s \o t \in Seq(S) /\ Len(s \o t) = Len(s) + Len(t)
           /\ \A i \in 1 .. Len(s) : (s \o t)[i] = s[i]
           /\ \A i \in 1 .. Len(t) : (s \o t)[Len(s) + i] = t[i]
           /\ Elems(s \o t) = Elems(s) \cup Elems(t)
<1> DEFINE u == s \o t
<1>1. u \in Seq(S) /\ Len(u) = Len(s) + Len(t) /\ Len(s) \in Nat /\ Len(t) \in Nat
  BY ConcatProperties
<1>2. \A i \in 1 .. Len(u) : u[i] = IF i <= Len(s) THEN s[i] ELSE t[i - Len(s)]
  BY ConcatProperties
<1> HIDE DEF u
<1>3. \A i \in 1 .. Len(s) : i \in 1 .. Len(u) /\ u[i] = s[i]
  BY <1>1, <1>2
<1>4. \A i \in 1 .. Len(t) : Len(s) + i \in 1 .. Len(u) /\ u[Len(s) + i] = t[i]
  <2>1. ASSUME NEW i \in 1 .. Len(t)
        PROVE  /\ Len(s) + i \in 1 .. Len(u) /\ ~(Len(s) + i <= Len(s))
               /\ (Len(s) + i) - Len(s) = i
    BY <1>1, <2>1
  <2>2. QED
    BY <2>1, <1>2
<1>5. /\ Elems(u) = {u[i] : i \in 1 .. Len(u)} /\ Elems(s) = {s[i] : i \in 1 .. Len(s)}
      /\ Elems(t) = {t[i] : i \in 1 .. Len(t)}
  BY <1>1, ElemsAt
<1>6. \A i \in 1 .. Len(u) : i \in 1 .. Len(s) \/ i - Len(s) \in 1 .. Len(t)
  BY <1>1
<1>7. \A i \in 1 .. Len(u) : u[i] \in Elems(s) \cup Elems(t)
  BY <1>1, <1>2, <1>5, <1>6
<1>8. Elems(u) = Elems(s) \cup Elems(t)
  BY <1>3, <1>4, <1>5, <1>7, Zenon
<1>9. QED
  BY <1>1, <1>3, <1>4, <1>8 DEF u

\* The head and the rest of a non-empty sequence.
LEMMA TailAt ==
    ASSUME NEW S, NEW s \in Seq(S), s # <<>>
    PROVE  /\ Head(s) \in S /\ Head(s) = s[1] /\ 1 \in 1 .. Len(s)
           /\ Tail(s) \in Seq(S) /\ Len(Tail(s)) = Len(s) - 1 /\ Len(s) >= 1
           /\ \A i \in 1 .. Len(s) - 1 : Tail(s)[i] = s[i + 1]
  OBVIOUS

\* The sequence of no element.
LEMMA EmptyAt ==
    ASSUME NEW S
    PROVE  <<>> \in Seq(S) /\ Len(<<>>) = 0
  OBVIOUS

\* The sequence of one element.
LEMMA UnitAt ==
    ASSUME NEW S, NEW x \in S
    PROVE  <<x>> \in Seq(S) /\ Len(<<x>>) = 1 /\ <<x>>[1] = x /\ <<x>> # <<>>
  OBVIOUS

-----------------------------------------------------------------------------
(* Order.                                                                    *)

\* t has no element twice.
Distinct(t) == \A m, n \in 1 .. Len(t) : t[m] = t[n] => m = n

\* Every element of s stands in t before every element of u.
AllBefore(s, u, t) ==
    \A i \in 1 .. Len(s), j \in 1 .. Len(u), m, n \in 1 .. Len(t) :
      s[i] = t[m] /\ u[j] = t[n] => m < n

\* InOrderOf, position by position.
LEMMA InOrderAt ==
    ASSUME NEW S, NEW s \in Seq(S), NEW t \in Seq(S)
    PROVE  InOrderOf(s, t) <=>
             /\ Elems(s) \subseteq Elems(t)
             /\ \A i, j \in 1 .. Len(s), m, n \in 1 .. Len(t) :
                  i < j /\ s[i] = t[m] /\ s[j] = t[n] => m < n
<1>1. DOMAIN s = 1 .. Len(s) /\ DOMAIN t = 1 .. Len(t)
  OBVIOUS
<1>2. QED
  BY <1>1, Zenon DEF InOrderOf

\* The empty sequence is in the order of every sequence.
LEMMA InOrderEmpty ==
    ASSUME NEW S, NEW t \in Seq(S)
    PROVE  InOrderOf(<<>>, t) /\ Elems(<<>>) = {} /\ AllBefore(<<>>, <<>>, t)
           /\ \A s : AllBefore(<<>>, s, t) /\ AllBefore(s, <<>>, t)
<1>1. <<>> \in Seq(S) /\ Len(<<>>) = 0 /\ 1 .. 0 = {}
  OBVIOUS
<1>2. Elems(<<>>) = {}
  BY DEF Elems
<1>3. InOrderOf(<<>>, t)
  BY <1>1, <1>2, InOrderAt
<1>4. QED
  BY <1>1, <1>2, <1>3 DEF AllBefore

\* One element is in the order of every sequence that has it once.
LEMMA InOrderUnit ==
    ASSUME NEW S, NEW t \in Seq(S), NEW x \in Elems(t)
    PROVE  InOrderOf(<<x>>, t)
<1>1. x \in S
  BY ElemsAt
<1>2. <<x>> \in Seq(S) /\ Len(<<x>>) = 1 /\ <<x>>[1] = x /\ 1 .. 1 = {1}
  BY <1>1
<1>3. Elems(<<x>>) = {x}
  BY <1>2 DEF Elems
<1>4. \A i, j \in 1 .. 1 : ~(i < j)
  OBVIOUS
<1>5. QED
  BY <1>2, <1>3, <1>4, InOrderAt

\* Order is kept when the longer sequence grows by a new element.
LEMMA InOrderGrows ==
    ASSUME NEW S, NEW t \in Seq(S), NEW x \in S, x \notin Elems(t),
           NEW s \in Seq(S), InOrderOf(s, t)
    PROVE  InOrderOf(s, Append(t, x))
<1> DEFINE u == Append(t, x)
<1>1. /\ u \in Seq(S) /\ Len(u) = Len(t) + 1 /\ Elems(u) = Elems(t) \cup {x}
      /\ \A i \in 1 .. Len(t) : u[i] = t[i]
      /\ u[Len(t) + 1] = x /\ Len(t) \in Nat
  BY AppendAt
<1> HIDE DEF u
<1>2. /\ Elems(s) \subseteq Elems(t)
      /\ \A i, j \in 1 .. Len(s), m, n \in 1 .. Len(t) :
           i < j /\ s[i] = t[m] /\ s[j] = t[n] => m < n
  BY InOrderAt
<1>3. ASSUME NEW i \in 1 .. Len(s), NEW m \in 1 .. Len(u), s[i] = u[m]
      PROVE  m \in 1 .. Len(t) /\ s[i] = t[m]
  <2>1. s[i] \in Elems(t)
    BY <1>2, ElemsAt
  <2>2. m # Len(t) + 1
    BY <2>1, <1>1, <1>3
  <2>3. QED
    BY <2>2, <1>1, <1>3
<1>4. \A i, j \in 1 .. Len(s), m, n \in 1 .. Len(u) :
        i < j /\ s[i] = u[m] /\ s[j] = u[n] => m < n
  BY <1>2, <1>3
<1>5. InOrderOf(s, u)
  BY <1>1, <1>2, <1>4, InOrderAt
<1>6. QED
  BY <1>5 DEF u

\* So is the order between two sequences of its elements.
LEMMA BeforeGrows ==
    ASSUME NEW S, NEW t \in Seq(S), NEW x \in S, x \notin Elems(t),
           NEW s \in Seq(S), Elems(s) \subseteq Elems(t),
           NEW v \in Seq(S), Elems(v) \subseteq Elems(t), AllBefore(s, v, t)
    PROVE  AllBefore(s, v, Append(t, x))
<1> DEFINE u == Append(t, x)
<1>1. /\ u \in Seq(S) /\ Len(u) = Len(t) + 1
      /\ \A i \in 1 .. Len(t) : u[i] = t[i]
      /\ u[Len(t) + 1] = x /\ Len(t) \in Nat
  BY AppendAt
<1> HIDE DEF u
<1>2. \A y \in Elems(t), m \in 1 .. Len(u) : y = u[m] => m \in 1 .. Len(t) /\ y = t[m]
  BY <1>1
<1>3. (\A i \in 1 .. Len(s) : s[i] \in Elems(t)) /\ (\A i \in 1 .. Len(v) : v[i] \in Elems(t))
  BY ElemsAt
<1>4. ASSUME NEW i \in 1 .. Len(s), NEW j \in 1 .. Len(v),
             NEW m \in 1 .. Len(u), NEW n \in 1 .. Len(u), s[i] = u[m], v[j] = u[n]
      PROVE  m < n
  <2>1. m \in 1 .. Len(t) /\ s[i] = t[m] /\ n \in 1 .. Len(t) /\ v[j] = t[n]
    BY <1>2, <1>3, <1>4
  <2>2. QED
    BY <2>1 DEF AllBefore
<1>5. QED
  BY <1>4 DEF u, AllBefore

\* Two sequences in order, one before the other, are in order one behind the
\* other.
LEMMA InOrderConcat ==
    ASSUME NEW S, NEW t \in Seq(S), NEW s \in Seq(S), NEW v \in Seq(S),
           InOrderOf(s, t), InOrderOf(v, t), AllBefore(s, v, t)
    PROVE  InOrderOf(s \o v, t)
<1> DEFINE u == s \o v
<1>1. /\ u \in Seq(S) /\ Len(u) = Len(s) + Len(v) /\ Elems(u) = Elems(s) \cup Elems(v)
      /\ Len(s) \in Nat /\ Len(v) \in Nat
      /\ \A i \in 1 .. Len(s) : u[i] = s[i]
      /\ \A i \in 1 .. Len(v) : u[Len(s) + i] = v[i]
  BY ConcatAt
<1> HIDE DEF u
<1>2. /\ Elems(s) \subseteq Elems(t) /\ Elems(v) \subseteq Elems(t)
      /\ \A i, j \in 1 .. Len(s), m, n \in 1 .. Len(t) :
           i < j /\ s[i] = t[m] /\ s[j] = t[n] => m < n
      /\ \A i, j \in 1 .. Len(v), m, n \in 1 .. Len(t) :
           i < j /\ v[i] = t[m] /\ v[j] = t[n] => m < n
  BY InOrderAt
<1>3. ASSUME NEW i \in 1 .. Len(u), NEW j \in 1 .. Len(u),
             NEW m \in 1 .. Len(t), NEW n \in 1 .. Len(t),
             i < j, u[i] = t[m], u[j] = t[n]
      PROVE  m < n
  <2>1. CASE j <= Len(s)
    <3>1. i \in 1 .. Len(s) /\ j \in 1 .. Len(s)
      BY <2>1, <1>1, <1>3
    <3>2. s[i] = t[m] /\ s[j] = t[n]
      BY <3>1, <1>1, <1>3
    <3>3. QED
      BY <3>1, <3>2, <1>2, <1>3
  <2>2. CASE i > Len(s)
    <3>1. PICK a \in 1 .. Len(v), b \in 1 .. Len(v) : i = Len(s) + a /\ j = Len(s) + b
      <4>1. i - Len(s) \in 1 .. Len(v) /\ j - Len(s) \in 1 .. Len(v)
        BY <2>2, <1>1, <1>3
      <4>2. i = Len(s) + (i - Len(s)) /\ j = Len(s) + (j - Len(s))
        BY <1>1, <1>3
      <4>3. QED
        BY <4>1, <4>2
    <3>2. v[a] = t[m] /\ v[b] = t[n] /\ a < b
      BY <3>1, <1>1, <1>3
    <3>3. QED
      BY <3>1, <3>2, <1>2
  <2>3. CASE i <= Len(s) /\ j > Len(s)
    <3>1. PICK b \in 1 .. Len(v) : j = Len(s) + b
      <4>1. j - Len(s) \in 1 .. Len(v) /\ j = Len(s) + (j - Len(s))
        BY <2>3, <1>1, <1>3
      <4>2. QED
        BY <4>1
    <3>2. i \in 1 .. Len(s) /\ s[i] = t[m] /\ v[b] = t[n]
      BY <3>1, <2>3, <1>1, <1>3
    <3>3. QED
      BY <3>1, <3>2, Zenon DEF AllBefore
  <2>4. QED
    BY <2>1, <2>2, <2>3, <1>1, <1>3
<1>4. InOrderOf(u, t)
  <2>1. Elems(u) \subseteq Elems(t)
    BY <1>1, <1>2
  <2>2. QED
    BY <2>1, <1>1, <1>3, InOrderAt
<1>5. QED
  BY <1>4 DEF u

\* What is before two sequences is before both one behind the other.
LEMMA BeforeConcat ==
    ASSUME NEW S, NEW s \in Seq(S), NEW v \in Seq(S), NEW w, NEW t,
           AllBefore(s, w, t), AllBefore(v, w, t)
    PROVE  AllBefore(s \o v, w, t)
<1> DEFINE u == s \o v
<1>1. /\ Len(u) = Len(s) + Len(v) /\ Len(s) \in Nat /\ Len(v) \in Nat
      /\ \A i \in 1 .. Len(s) : u[i] = s[i]
      /\ \A i \in 1 .. Len(v) : u[Len(s) + i] = v[i]
  BY ConcatAt
<1> HIDE DEF u
<1>2. ASSUME NEW i \in 1 .. Len(u)
      PROVE  (\E a \in 1 .. Len(s) : u[i] = s[a]) \/ (\E b \in 1 .. Len(v) : u[i] = v[b])
  <2>1. CASE i <= Len(s)
    BY <2>1, <1>1, <1>2
  <2>2. CASE i > Len(s)
    <3>1. i - Len(s) \in 1 .. Len(v) /\ i = Len(s) + (i - Len(s))
      BY <2>2, <1>1, <1>2
    <3>2. QED
      BY <3>1, <1>1
  <2>3. QED
    BY <2>1, <2>2, <1>1, <1>2
<1>3. ASSUME NEW i \in 1 .. Len(u), NEW j \in 1 .. Len(w),
             NEW m \in 1 .. Len(t), NEW n \in 1 .. Len(t), u[i] = t[m], w[j] = t[n]
      PROVE  m < n
  <2>1. CASE \E a \in 1 .. Len(s) : u[i] = s[a]
    BY <1>3, <2>1, ZenonT(30) DEF AllBefore
  <2>2. CASE \E b \in 1 .. Len(v) : u[i] = v[b]
    BY <1>3, <2>2, ZenonT(30) DEF AllBefore
  <2>3. QED
    BY <1>2, <2>1, <2>2
<1>4. AllBefore(u, w, t)
  BY <1>3, ZenonT(30) DEF AllBefore
<1>5. QED
  BY <1>4 DEF u

\* The elements up to a position of t stand before those behind it.
LEMMA BeforeCut ==
    ASSUME NEW S, NEW t \in Seq(S), Distinct(t), NEW k \in Int, NEW s, NEW v,
           \A i \in 1 .. Len(s) : \E m \in 1 .. Len(t) : m <= k /\ s[i] = t[m],
           \A j \in 1 .. Len(v) : \E n \in 1 .. Len(t) : k < n /\ v[j] = t[n]
    PROVE  AllBefore(s, v, t)
<1>1. Len(t) \in Nat
  OBVIOUS
<1>2. ASSUME NEW i \in 1 .. Len(s), NEW j \in 1 .. Len(v),
             NEW m \in 1 .. Len(t), NEW n \in 1 .. Len(t), s[i] = t[m], v[j] = t[n]
      PROVE  m < n
  <2>1. PICK a \in 1 .. Len(t) : a <= k /\ s[i] = t[a]
    OBVIOUS
  <2>2. PICK b \in 1 .. Len(t) : k < b /\ v[j] = t[b]
    OBVIOUS
  <2>3. t[a] = t[m] /\ t[b] = t[n]
    BY <2>1, <2>2, <1>2
  <2>4. a = m
    BY <1>2, <2>1, <2>3, ZenonT(30) DEF Distinct
  <2>5. b = n
    BY <1>2, <2>2, <2>3, ZenonT(30) DEF Distinct
  <2>6. QED
    BY <2>1, <2>2, <2>4, <2>5, <1>1
<1>3. QED
  BY <1>2 DEF AllBefore

\* In a sequence in the order of another nothing is twice.
LEMMA InOrderDistinct ==
    ASSUME NEW S, NEW t \in Seq(S), NEW s \in Seq(S), InOrderOf(s, t)
    PROVE  Distinct(s)
<1>1. /\ Elems(s) \subseteq Elems(t)
      /\ \A i, j \in 1 .. Len(s), m, n \in 1 .. Len(t) :
           i < j /\ s[i] = t[m] /\ s[j] = t[n] => m < n
  BY InOrderAt
<1>2. ASSUME NEW i \in 1 .. Len(s), NEW j \in 1 .. Len(s), i < j
      PROVE  s[i] # s[j]
  <2>1. PICK m \in 1 .. Len(t) : s[i] = t[m]
    <3>1. s[i] \in Elems(t) /\ Elems(t) = {t[m] : m \in 1 .. Len(t)}
      BY <1>1, ElemsAt
    <3>2. QED
      BY <3>1
  <2>2. s[i] = s[j] => m < m
    BY <2>1, <1>1, <1>2, Zenon
  <2>3. QED
    BY <2>2
<1>3. QED
  BY <1>2 DEF Distinct

\* Two orders of one sequence agree: what s has of t's elements it has in the
\* order in which t has them.
LEMMA InOrderAmong ==
    ASSUME NEW S, NEW a \in Seq(S), NEW t \in Seq(S), NEW s \in Seq(S),
           InOrderOf(t, a), InOrderOf(s, a), Elems(s) \subseteq Elems(t)
    PROVE  InOrderOf(s, t)
<1>1. /\ Elems(s) \subseteq Elems(a) /\ Elems(a) = {a[m] : m \in 1 .. Len(a)}
      /\ \A i, j \in 1 .. Len(s), m, n \in 1 .. Len(a) :
           i < j /\ s[i] = a[m] /\ s[j] = a[n] => m < n
      /\ \A i, j \in 1 .. Len(t), m, n \in 1 .. Len(a) :
           i < j /\ t[i] = a[m] /\ t[j] = a[n] => m < n
  BY InOrderAt, ElemsAt
<1>2. ASSUME NEW i \in 1 .. Len(s), NEW j \in 1 .. Len(s),
             NEW m \in 1 .. Len(t), NEW n \in 1 .. Len(t), i < j, s[i] = t[m], s[j] = t[n]
      PROVE  m < n
  <2>1. PICK x \in 1 .. Len(a), y \in 1 .. Len(a) : s[i] = a[x] /\ s[j] = a[y]
    <3>1. s[i] \in Elems(a) /\ s[j] \in Elems(a)
      BY <1>1, ElemsAt
    <3>2. QED
      BY <3>1, <1>1
  <2>2. x < y
    BY <2>1, <1>1, <1>2
  <2>3. n < m => y < x
    BY <2>1, <1>1, <1>2
  <2>4. m = n => x < x
    <3>1. ASSUME m = n PROVE s[i] = a[x] /\ s[j] = a[x]
      BY <3>1, <2>1, <1>2
    <3>2. QED
      BY <3>1, <2>1, <1>1, <1>2
  <2>5. m \in Int /\ n \in Int /\ x \in Int /\ y \in Int
    OBVIOUS
  <2>6. QED
    BY <2>2, <2>3, <2>4, <2>5
<1>3. QED
  BY <1>2, InOrderAt

-----------------------------------------------------------------------------
(* Types.                                                                    *)

\* failAll always has an error to hand out.
FailureNamed == phase = "failing" => failWith \in {"latched", "unknown"}

TypeInv == TypeOK /\ FailureNamed

\* The initial state has the types.
LEMMA TypeInit == Init => TypeInv
<1> SUFFICES ASSUME Init PROVE TypeInv
  OBVIOUS
<1> USE ConstantsAssumption
<1>1. <<>> \in Seq(Callers) /\ <<>> \in Seq(Callers \ Solo) /\ <<>> \in Seq(Seq(Callers \ Solo))
      /\ Len(<<>>) = 0
  OBVIOUS
<1>2. latched \in BOOLEAN /\ pumpDone \in BOOLEAN
  BY Zenon DEF Init
<1>3. pos \in 1 .. MaxBatch + 1
  BY DEF Init
<1>4. /\ phase \in Phases /\ FailureNamed
  BY DEF Init, FailureNamed, Phases
<1>5. /\ pc \in [Callers -> {"start", "checked", "waiting", "returned"}]
      /\ result \in [Callers -> Results \cup {"none"}]
      /\ err \in [Callers -> {"nil", "rejected", "latched", "unknown"}]
  BY DEF Init
<1>6. QED
  BY <1>1, <1>2, <1>3, <1>4, <1>5 DEF Init, TypeInv, TypeOK

\* The callers change their own state and append to the channel.
LEMMA TypeDo ==
    ASSUME TypeInv, NEW c \in Callers, Do(c) \/ Cancel(c)
    PROVE  TypeInv'
<1> USE ConstantsAssumption DEF TypeInv, FailureNamed, runVars, closeVars, Return, Results
<1>1. CASE DoCheck(c)
  BY <1>1 DEF DoCheck, TypeOK
<1>2. CASE DoEnqueue(c)
  <2>1. queue' \in Seq(Callers) /\ Len(queue') <= QueueDepth /\ accepted' \in Seq(Callers)
    BY <1>2, AppendAt DEF DoEnqueue, TypeOK
  <2>2. QED
    BY <1>2, <2>1 DEF DoEnqueue, TypeOK
<1>3. CASE DoEnqueueRefused(c)
  BY <1>3 DEF DoEnqueueRefused, TypeOK
<1>4. CASE DoAwait(c)
  <2>1. PICK r \in Results : Return(c, r)
    BY <1>4 DEF DoAwait, TypeOK
  <2>2. /\ pc' \in [Callers -> {"start", "checked", "waiting", "returned"}]
        /\ result' \in [Callers -> Results \cup {"none"}]
    BY <2>1 DEF TypeOK
  <2>3. UNCHANGED <<cancelled, queue, runVars, closeVars, accepted>>
    BY <1>4 DEF DoAwait
  <2>4. QED
    BY <2>2, <2>3, ZenonT(30) DEF TypeOK
<1>5. CASE Cancel(c)
  BY <1>5 DEF Cancel, TypeOK, callerVars
<1>6. QED
  BY <1>1, <1>2, <1>3, <1>4, <1>5 DEF Do

\* What opens the next turn is a request, and the channel is shortened.
LEMMA TakeFirstType ==
    ASSUME TypeOK, HasFirst, TakeFirst
    PROVE  /\ First \in Callers
           /\ queue' \in Seq(Callers) /\ Len(queue') <= QueueDepth
           /\ held' \in Seq(Callers) /\ Len(held') <= 1
<1>1. held' \in Seq(Callers) /\ Len(held') <= 1
  BY DEF TakeFirst
<1>2. CASE held # <<>>
  BY <1>1, <1>2, TailAt DEF TakeFirst, First, TypeOK
<1>3. CASE held = <<>>
  <2>1. queue \in Seq(Callers) /\ queue # <<>> /\ Len(queue) <= QueueDepth
    BY <1>3 DEF HasFirst, TypeOK
  <2>2. /\ Head(queue) \in Callers /\ Tail(queue) \in Seq(Callers)
        /\ Len(Tail(queue)) = Len(queue) - 1
    BY <2>1, TailAt
  <2>3. Len(queue) - 1 <= QueueDepth
    BY <2>1, ConstantsAssumption
  <2>4. QED
    BY <1>1, <1>3, <2>1, <2>2, <2>3 DEF TakeFirst, First
<1>4. QED
  BY <1>2, <1>3

\* What Begin does to the batch, the latch apart; then Apply and Commit.
LEMMA BeginDoes ==
    ASSUME Begin
    PROVE  /\ phase = "begin" /\ pos' = 1
           /\ \/ phase' = "failing" /\ failWith' = "latched" /\ tx' = tx
              \/ phase' = "applying" /\ tx' = <<>> /\ failWith' = failWith
              \/ phase' = "failing" /\ failWith' = "unknown" /\ tx' = <<>>
           /\ UNCHANGED <<pc, result, cancelled, queue, held, batch, err, replied, durable,
                          closer, events, pumpDone, accepted, published>>
  BY Zenon DEF Begin, Doomed, callerVars, closeVars

\* One command behind its savepoint: applied, rejected or damage.
LEMMA ApplyDoes ==
    ASSUME Apply
    PROVE  /\ phase = "applying" /\ pos <= Len(batch)
           /\ \/ /\ tx' = Append(tx, batch[pos]) /\ pos' = pos + 1
                 /\ phase' = "applying" /\ UNCHANGED <<err, replied, failWith>>
              \/ /\ err' = [err EXCEPT ![batch[pos]] = "rejected"]
                 /\ replied' = replied \cup {batch[pos]} /\ pos' = pos + 1
                 /\ phase' = "applying" /\ UNCHANGED <<tx, failWith>>
              \/ /\ phase' = "failing" /\ failWith' = "unknown" /\ pos' = 1 /\ tx' = <<>>
                 /\ UNCHANGED <<err, replied>>
           /\ UNCHANGED <<pc, result, cancelled, queue, held, batch, durable,
                          closer, events, pumpDone, accepted, published>>
  BY Zenon DEF Apply, Doomed, callerVars, closeVars

\* The commit: done, or damage with or without the effects on the disk.
LEMMA CommitDoes ==
    ASSUME Commit
    PROVE  /\ phase = "applying" /\ pos > Len(batch) /\ pos' = 1
           /\ \/ /\ durable' = durable \o tx /\ phase' = "replying"
                 /\ UNCHANGED <<tx, failWith>>
              \/ /\ durable' = durable \/ durable' = durable \o tx
                 /\ phase' = "failing" /\ failWith' = "unknown" /\ tx' = <<>>
           /\ UNCHANGED <<pc, result, cancelled, queue, held, batch, err, replied,
                          closer, events, pumpDone, accepted, published>>
  BY Zenon DEF Commit, Doomed, callerVars, closeVars

\* Every step of the writer goroutine keeps the types.
LEMMA TypeRun ==
    ASSUME TypeInv, Run
    PROVE  TypeInv'
<1> USE ConstantsAssumption DEF TypeInv, FailureNamed, callerVars, closeVars, Phases
<1>0. <<>> \in Seq(Callers \ Solo) /\ Len(<<>>) = 0
  BY EmptyAt
<1>1. CASE RunSolo
  <2>1. /\ First \in Callers
        /\ queue' \in Seq(Callers) /\ Len(queue') <= QueueDepth
        /\ held' \in Seq(Callers) /\ Len(held') <= 1
    BY <1>1, TakeFirstType DEF RunSolo
  <2>2. QED
    BY <1>1, <2>1 DEF RunSolo, TypeOK
<1>2. CASE OpenBatch
  <2>1. /\ First \in Callers \ Solo
        /\ queue' \in Seq(Callers) /\ Len(queue') <= QueueDepth
        /\ held' \in Seq(Callers) /\ Len(held') <= 1
    BY <1>2, TakeFirstType DEF OpenBatch
  <2>2. batch' \in Seq(Callers \ Solo) /\ Len(batch') <= MaxBatch
    <3>1. <<First>> \in Seq(Callers \ Solo) /\ Len(<<First>>) = 1
      BY <2>1, UnitAt
    <3>2. QED
      BY <1>2, <3>1 DEF OpenBatch
  <2>3. QED
    BY <1>2, <2>1, <2>2 DEF OpenBatch, TypeOK
<1>3. CASE Fill
  <2>1. /\ Head(queue) \in Callers /\ Tail(queue) \in Seq(Callers)
        /\ Len(Tail(queue)) = Len(queue) - 1 /\ Len(queue) \in Nat /\ Len(queue) <= QueueDepth
    BY <1>3, TailAt DEF Fill, TypeOK
  <2>2. queue' \in Seq(Callers) /\ Len(queue') <= QueueDepth
    BY <1>3, <2>1 DEF Fill
  <2>3. batch' \in Seq(Callers \ Solo) /\ Len(batch') <= MaxBatch /\ held' \in Seq(Callers) /\ Len(held') <= 1
    <3>1. CASE Head(queue) \notin Solo /\ batch' = Append(batch, Head(queue)) /\ UNCHANGED <<held, phase>>
      BY <1>3, <2>1, <3>1, AppendAt DEF Fill, TypeOK
    <3>2. CASE held' = <<Head(queue)>> /\ phase' = "begin" /\ UNCHANGED batch
      BY <2>1, <3>2, UnitAt DEF TypeOK
    <3>3. QED
      BY <1>3, <3>1, <3>2 DEF Fill
  <2>4. QED
    BY <1>3, <2>2, <2>3 DEF Fill, TypeOK
<1>4. CASE CloseBatch
  BY <1>4 DEF CloseBatch, TypeOK
<1>5. CASE Begin
  <2>1. latched' \in BOOLEAN
    BY <1>5, Zenon DEF Begin, Doomed, TypeOK
  <2>2. tx' \in Seq(Callers \ Solo)
    BY <1>5, <1>0, BeginDoes DEF TypeOK
  <2>3. phase' \in Phases /\ failWith' \in {"none", "latched", "unknown"} /\ FailureNamed'
    BY <1>5, BeginDoes DEF TypeOK
  <2>4. pos' \in 1 .. MaxBatch + 1
    BY <1>5, BeginDoes
  <2>5. QED
    BY <1>5, <2>1, <2>2, <2>3, <2>4, BeginDoes DEF TypeOK
<1>6. CASE Apply
  <2>1. latched' \in BOOLEAN
    BY <1>6, Zenon DEF Apply, Doomed, TypeOK
  <2>2. batch[pos] \in Callers \ Solo /\ pos + 1 \in 1 .. MaxBatch + 1 /\ 1 \in 1 .. MaxBatch + 1
    BY <1>6, ApplyDoes DEF TypeOK
  <2>3. tx' \in Seq(Callers \ Solo)
    <3>1. Append(tx, batch[pos]) \in Seq(Callers \ Solo)
      BY <2>2, AppendAt DEF TypeOK
    <3>2. QED
      BY <1>6, <1>0, <3>1, ApplyDoes DEF TypeOK
  <2>4. phase' \in Phases /\ failWith' \in {"none", "latched", "unknown"} /\ FailureNamed'
    BY <1>6, ApplyDoes DEF TypeOK
  <2>5. pos' \in 1 .. MaxBatch + 1
    BY <1>6, <2>2, ApplyDoes
  <2>6. /\ err' \in [Callers -> {"nil", "rejected", "latched", "unknown"}]
        /\ replied' \subseteq Callers
    BY <1>6, <2>2, ApplyDoes DEF TypeOK
  <2>7. QED
    BY <1>6, <2>1, <2>3, <2>4, <2>5, <2>6, ApplyDoes DEF TypeOK
<1>7. CASE Commit
  <2>1. latched' \in BOOLEAN
    BY <1>7, Zenon DEF Commit, Doomed, TypeOK
  <2>2. durable' \in Seq(Callers \ Solo)
    <3>1. durable \o tx \in Seq(Callers \ Solo)
      BY ConcatAt DEF TypeOK
    <3>2. QED
      BY <1>7, <3>1, CommitDoes DEF TypeOK
  <2>3. tx' \in Seq(Callers \ Solo)
    BY <1>7, <1>0, CommitDoes DEF TypeOK
  <2>4. phase' \in Phases /\ failWith' \in {"none", "latched", "unknown"} /\ FailureNamed'
    BY <1>7, CommitDoes DEF TypeOK
  <2>5. pos' \in 1 .. MaxBatch + 1
    BY <1>7, CommitDoes
  <2>6. QED
    BY <1>7, <2>1, <2>2, <2>3, <2>4, <2>5, CommitDoes DEF TypeOK
<1>8. CASE Reply
  <2>1. pos <= Len(batch) => batch[pos] \in Callers \ Solo /\ pos + 1 \in 1 .. MaxBatch + 1
    BY DEF TypeOK
  <2>2. QED
    BY <1>8, <2>1 DEF Reply, TypeOK
<1>9. CASE Emit
  <2>1. events' \in Seq(Seq(Callers \ Solo)) /\ Len(events') <= EventDepth
    BY <1>9, AppendAt DEF Emit, TypeOK
  <2>2. QED
    BY <1>9, <2>1 DEF Emit, TypeOK
<1>10. CASE Fail
  <2>1. CASE pos <= Len(batch)
    <3>1. batch[pos] \in Callers \ Solo /\ pos + 1 \in 1 .. MaxBatch + 1
      BY <2>1 DEF TypeOK
    <3>2. /\ err' = [err EXCEPT ![batch[pos]] = failWith] /\ pos' = pos + 1
          /\ phase' \in {"crashing", "failing"} /\ replied' = replied \cup {batch[pos]}
          /\ failWith \in {"latched", "unknown"}
          /\ UNCHANGED <<pc, result, cancelled, queue, held, batch, tx, failWith, durable,
                         latched, closer, events, pumpDone, accepted, published>>
      BY <1>10, <2>1 DEF Fail, TypeOK
    <3>3. err' \in [Callers -> {"nil", "rejected", "latched", "unknown"}]
      BY <3>2 DEF TypeOK
    <3>4. QED
      BY <3>1, <3>2, <3>3 DEF TypeOK
  <2>2. CASE ~(pos <= Len(batch))
    <3>1. /\ phase' = "idle" /\ batch' = <<>> /\ pos' = 1 /\ failWith' = "none"
          /\ UNCHANGED <<pc, result, cancelled, queue, held, tx, err, replied, durable,
                         latched, closer, events, pumpDone, accepted, published>>
      BY <1>10, <2>2 DEF Fail
    <3>2. pos' \in 1 .. MaxBatch + 1 /\ Len(batch') <= MaxBatch
      BY <3>1, <1>0
    <3>3. QED
      BY <3>1, <3>2, <1>0 DEF TypeOK
  <2>3. QED
    BY <2>1, <2>2
<1>11. CASE Crash
  BY <1>11 DEF Crash, TypeOK
<1>12. CASE Exit
  BY <1>12 DEF Exit, TypeOK
<1>13. QED
  BY <1>1, <1>2, <1>3, <1>4, <1>5, <1>6, <1>7, <1>8, <1>9, <1>10, <1>11, <1>12 DEF Run

\* So does every step of Close and of the pump.
LEMMA TypeClose ==
    ASSUME TypeInv, CloseBegin \/ CloseStep \/ Pump
    PROVE  TypeInv'
<1> USE DEF TypeInv, FailureNamed, callerVars, runVars
<1>1. CASE CloseBegin
  BY <1>1 DEF CloseBegin, TypeOK
<1>2. CASE CloseStep
  BY <1>2 DEF CloseStep, TypeOK
<1>3. CASE Pump
  <2>1. ASSUME events # <<>>
        PROVE  /\ published \o Head(events) \in Seq(Callers \ Solo)
               /\ Tail(events) \in Seq(Seq(Callers \ Solo)) /\ Len(Tail(events)) <= EventDepth
    <3>1. /\ Head(events) \in Seq(Callers \ Solo) /\ Tail(events) \in Seq(Seq(Callers \ Solo))
          /\ Len(Tail(events)) = Len(events) - 1
      BY <2>1, TailAt DEF TypeOK
    <3>2. Len(events) - 1 <= EventDepth
      BY ConstantsAssumption DEF TypeOK
    <3>3. QED
      BY <3>1, <3>2, ConcatAt DEF TypeOK
  <2>2. QED
    BY <1>3, <2>1 DEF Pump, TypeOK
<1>4. QED
  BY <1>1, <1>2, <1>3

\* So does every step.
LEMMA TypeNext ==
    ASSUME TypeInv, [Next]_vars
    PROVE  TypeInv'
<1>1. CASE Next
  BY <1>1, TypeDo, TypeRun, TypeClose DEF Next
<1>2. CASE UNCHANGED vars
  BY <1>2 DEF vars, TypeInv, TypeOK, FailureNamed
<1>3. QED
  BY <1>1, <1>2

-----------------------------------------------------------------------------
(* The pipeline.                                                             *)

\* The requests the writer has done with: the others are, one behind the other,
\* the batch, the request held over and the channel.
Base == Len(accepted) - Len(queue) - Len(held) - Len(batch)

PipelineInv ==
    /\ Base >= 0
    /\ \A i \in 1 .. Len(batch) : batch[i] = accepted[Base + i]
    /\ \A i \in 1 .. Len(held) : held[i] = accepted[Base + Len(batch) + i]
    /\ \A i \in 1 .. Len(queue) : queue[i] = accepted[Base + Len(batch) + Len(held) + i]
    /\ phase \in {"idle", "exited"} => batch = <<>>
    /\ phase = "filling" => held = <<>>
    /\ phase \in {"idle", "exited", "filling", "begin"} => pos = 1
    /\ pos <= Len(batch) + 1

\* The lengths are naturals, and so is the count of requests done with.
LEMMA Lengths ==
    ASSUME TypeInv
    PROVE  /\ Len(accepted) \in Nat /\ Len(queue) \in Nat /\ Len(held) \in Nat
           /\ Len(batch) \in Nat /\ Base \in Int /\ pos \in Nat \ {0}
           /\ Base + Len(batch) + Len(held) + Len(queue) = Len(accepted)
<1>1. /\ Len(accepted) \in Nat /\ Len(queue) \in Nat /\ Len(held) \in Nat
      /\ Len(batch) \in Nat /\ pos \in Nat \ {0}
  BY ConstantsAssumption DEF TypeInv, TypeOK
<1>2. QED
  BY <1>1 DEF Base

\* The places of the batch, of the held request and of the channel in accepted.
LEMMA Slots ==
    ASSUME TypeInv, PipelineInv
    PROVE  /\ Base >= 0
           /\ \A i \in 1 .. Len(batch) : Base + i \in 1 .. Len(accepted)
           /\ \A i \in 1 .. Len(held) : Base + Len(batch) + i \in 1 .. Len(accepted)
           /\ \A i \in 1 .. Len(queue) :
                Base + Len(batch) + Len(held) + i \in 1 .. Len(accepted)
<1>1. Base >= 0
  BY DEF PipelineInv
<1>2. ASSUME NEW i \in 1 .. Len(batch) PROVE Base + i \in 1 .. Len(accepted)
  BY <1>1, Lengths
<1>3. ASSUME NEW i \in 1 .. Len(held) PROVE Base + Len(batch) + i \in 1 .. Len(accepted)
  BY <1>1, Lengths
<1>4. ASSUME NEW i \in 1 .. Len(queue)
      PROVE  Base + Len(batch) + Len(held) + i \in 1 .. Len(accepted)
  BY <1>1, Lengths
<1>5. QED
  BY <1>1, <1>2, <1>3, <1>4

\* At the start there is nothing to do.
LEMMA PipelineInit == Init => PipelineInv /\ Base = 0
<1>1. Init => /\ Len(accepted) = 0 /\ Len(queue) = 0 /\ Len(held) = 0 /\ Len(batch) = 0
              /\ pos = 1 /\ batch = <<>> /\ phase = "idle"
  BY DEF Init
<1>2. Init => Base = 0
  BY <1>1 DEF Base
<1>3. QED
  BY <1>1, <1>2 DEF PipelineInv

\* A step that moves no request.
LEMMA PipelineStill ==
    ASSUME TypeInv, PipelineInv, UNCHANGED <<accepted, queue, held, batch>>,
           phase' \in {"idle", "exited"} => batch = <<>>,
           phase' = "filling" => held = <<>>,
           phase' \in {"idle", "exited", "filling", "begin"} => pos' = 1,
           pos' <= Len(batch) + 1
    PROVE  PipelineInv' /\ Base' = Base
<1>1. Base' = Base
  BY DEF Base
<1>2. QED
  BY <1>1 DEF PipelineInv

\* A new request stands behind all others.
LEMMA PipelineEnqueue ==
    ASSUME TypeInv, PipelineInv, NEW c \in Callers, DoEnqueue(c)
    PROVE  PipelineInv' /\ Base' = Base
<1>1. /\ queue \in Seq(Callers) /\ accepted \in Seq(Callers)
      /\ queue' = Append(queue, c) /\ accepted' = Append(accepted, c)
      /\ UNCHANGED <<held, batch, phase, pos>>
  BY DEF TypeInv, TypeOK, DoEnqueue, runVars
<1>2. /\ Len(queue') = Len(queue) + 1 /\ queue'[Len(queue) + 1] = c
      /\ \A i \in 1 .. Len(queue) : queue'[i] = queue[i]
      /\ Len(accepted') = Len(accepted) + 1 /\ accepted'[Len(accepted) + 1] = c
      /\ \A i \in 1 .. Len(accepted) : accepted'[i] = accepted[i]
  BY <1>1, AppendAt
<1>3. Base' = Base
  BY <1>1, <1>2, Lengths DEF Base
<1>4. /\ \A i \in 1 .. Len(batch) : Base + i \in 1 .. Len(accepted)
      /\ \A i \in 1 .. Len(held) : Base + Len(batch) + i \in 1 .. Len(accepted)
      /\ \A i \in 1 .. Len(queue) : Base + Len(batch) + Len(held) + i \in 1 .. Len(accepted)
      /\ Base + Len(batch) + Len(held) + (Len(queue) + 1) = Len(accepted) + 1
  BY Slots, Lengths
<1>5. \A i \in 1 .. Len(queue') :
        queue'[i] = accepted'[Base + Len(batch) + Len(held) + i]
  <2> SUFFICES ASSUME NEW i \in 1 .. Len(queue')
               PROVE  queue'[i] = accepted'[Base + Len(batch) + Len(held) + i]
    OBVIOUS
  <2>1. CASE i = Len(queue) + 1
    BY <2>1, <1>2, <1>4
  <2>2. CASE i # Len(queue) + 1
    <3>1. i \in 1 .. Len(queue)
      BY <2>2, <1>2, Lengths
    <3>2. QED
      BY <3>1, <1>2, <1>4 DEF PipelineInv
  <2>3. QED
    BY <2>1, <2>2
<1>6. QED
  BY <1>1, <1>2, <1>3, <1>4, <1>5 DEF PipelineInv

\* What opens the next turn is the first request not done with.
LEMMA FirstAt ==
    ASSUME TypeInv, PipelineInv, phase = "idle", HasFirst, TakeFirst
    PROVE  /\ First \in Callers /\ Base + 1 \in 1 .. Len(accepted)
           /\ First = accepted[Base + 1]
           /\ batch = <<>> /\ Len(batch) = 0 /\ Len(held') = 0 /\ held' = <<>>
           /\ Len(queue') + 1 = Len(queue) + Len(held)
           /\ \A i \in 1 .. Len(queue') : queue'[i] = accepted[Base + 1 + i]
<1>1. /\ queue \in Seq(Callers) /\ held \in Seq(Callers) /\ Len(held) <= 1
      /\ batch = <<>> /\ Len(batch) = 0 /\ held' = <<>> /\ Len(held') = 0
  BY DEF TypeInv, TypeOK, PipelineInv, TakeFirst
<1>2. First \in Callers
  BY TakeFirstType DEF TypeInv
<1>3. CASE held # <<>>
  <2>1. Len(held) = 1 /\ First = held[1] /\ queue' = queue
    <3>1. Head(held) = held[1]
      BY <1>1, <1>3, TailAt
    <3>2. Len(held) = 1
      <4>1. Len(held) \in Nat /\ Len(held) <= 1 /\ Len(held) >= 1
        BY <1>1, <1>3, TailAt
      <4>2. \A n \in Nat : n <= 1 /\ n >= 1 => n = 1
        OBVIOUS
      <4>3. QED
        BY <4>1, <4>2, Zenon
    <3>3. QED
      BY <1>3, <3>1, <3>2, Zenon DEF First, TakeFirst
  <2>2. held[1] = accepted[Base + Len(batch) + 1] /\ Base >= 0
    <3>1. 1 \in 1 .. Len(held)
      BY <2>1
    <3>2. QED
      BY <3>1 DEF PipelineInv
  <2>3. \A i \in 1 .. Len(queue) : queue[i] = accepted[Base + Len(batch) + Len(held) + i]
    BY DEF PipelineInv
  <2>4. Base + Len(batch) + 1 = Base + 1 /\ Base + Len(batch) + Len(held) = Base + 1
    BY <1>1, <2>1, Lengths
  <2>5. Base + 1 \in 1 .. Len(accepted)
    BY <1>1, <2>1, <2>2, Lengths
  <2>6. QED
    BY <1>1, <1>2, <2>1, <2>2, <2>3, <2>4, <2>5, Lengths
<1>4. CASE held = <<>>
  <2>1. Len(held) = 0 /\ queue # <<>> /\ First = Head(queue) /\ queue' = Tail(queue)
    BY <1>4 DEF First, TakeFirst, HasFirst
  <2>2. /\ First = queue[1] /\ Len(queue') = Len(queue) - 1 /\ Len(queue) >= 1
        /\ \A i \in 1 .. Len(queue) - 1 : queue'[i] = queue[i + 1]
    BY <1>1, <2>1, TailAt
  <2>3. \A i \in 1 .. Len(queue) : queue[i] = accepted[Base + i]
    <3>1. \A i \in 1 .. Len(queue) : Base + Len(batch) + Len(held) + i = Base + i
      BY <1>1, <2>1, Lengths
    <3>2. QED
      BY <3>1 DEF PipelineInv
  <2>4. Base + 1 \in 1 .. Len(accepted) /\ 1 \in 1 .. Len(queue)
    BY <1>1, <2>1, <2>2, Lengths DEF PipelineInv
  <2>5. \A i \in 1 .. Len(queue') : queue'[i] = accepted[Base + 1 + i]
    <3>1. ASSUME NEW i \in 1 .. Len(queue')
          PROVE  queue'[i] = accepted[Base + 1 + i]
      <4>1. /\ i \in 1 .. Len(queue) - 1 /\ i + 1 \in 1 .. Len(queue)
            /\ Base + (i + 1) = Base + 1 + i
        BY <2>2, Lengths
      <4>2. QED
        BY <4>1, <2>2, <2>3
    <3>2. QED
      BY <3>1
  <2>6. Len(queue') + 1 = Len(queue) + Len(held)
    BY <2>1, <2>2, Lengths
  <2>7. QED
    BY <1>1, <1>2, <2>2, <2>3, <2>4, <2>5, <2>6
<1>5. QED
  BY <1>3, <1>4

\* A solo command is done with in one step.
LEMMA PipelineSolo ==
    ASSUME TypeInv, PipelineInv, RunSolo
    PROVE  PipelineInv' /\ Base' = Base + 1
<1>1. /\ First = accepted[Base + 1] /\ Base + 1 \in 1 .. Len(accepted)
      /\ batch = <<>> /\ Len(batch) = 0 /\ Len(held') = 0 /\ held' = <<>>
      /\ Len(queue') + 1 = Len(queue) + Len(held)
      /\ \A i \in 1 .. Len(queue') : queue'[i] = accepted[Base + 1 + i]
  BY FirstAt DEF RunSolo
<1>2. UNCHANGED <<batch, phase, pos, accepted>>
  BY DEF RunSolo
<1>3. Base' = Base + 1 /\ Len(queue') \in Nat /\ Len(batch') = 0
  <2>1. Len(queue') \in Nat
    BY TypeRun DEF Run, TypeInv, TypeOK
  <2>2. Len(batch') = 0 /\ Len(accepted') = Len(accepted)
    BY <1>1, <1>2
  <2>3. Base' = Len(accepted') - Len(queue') - Len(held') - Len(batch')
    BY DEF Base
  <2>4. QED
    BY <1>1, <2>1, <2>2, <2>3, Lengths
<1>4. \A i \in 1 .. Len(queue') :
        queue'[i] = accepted'[Base' + Len(batch') + Len(held') + i]
  <2>1. \A i \in 1 .. Len(queue') : Base' + Len(batch') + Len(held') + i = Base + 1 + i
    BY <1>1, <1>3, Lengths
  <2>2. QED
    BY <1>1, <1>2, <2>1
<1>5. Base >= 0 /\ Base \in Int /\ pos <= Len(batch) + 1 /\ pos = 1 /\ phase = "idle"
  BY Lengths DEF PipelineInv, RunSolo
<1>6. QED
  BY <1>1, <1>2, <1>3, <1>4, <1>5 DEF PipelineInv

\* The first request opens the batch and keeps its place.
LEMMA PipelineOpen ==
    ASSUME TypeInv, PipelineInv, OpenBatch
    PROVE  PipelineInv' /\ Base' = Base
<1>1. /\ First \in Callers /\ First = accepted[Base + 1]
      /\ batch = <<>> /\ Len(batch) = 0 /\ Len(held') = 0 /\ held' = <<>>
      /\ Len(queue') + 1 = Len(queue) + Len(held)
      /\ \A i \in 1 .. Len(queue') : queue'[i] = accepted[Base + 1 + i]
  BY FirstAt DEF OpenBatch
<1>2. /\ batch' = <<First>> /\ phase = "idle" /\ phase' = "filling"
      /\ UNCHANGED <<pos, accepted>>
  BY DEF OpenBatch
<1>3. Len(batch') = 1 /\ batch'[1] = First /\ Len(queue') \in Nat
  <2>1. Len(queue') \in Nat
    BY TypeRun DEF Run, TypeInv, TypeOK
  <2>2. QED
    BY <1>1, <1>2, <2>1, UnitAt
<1>4. Base' = Base
  <2>1. Len(accepted') = Len(accepted)
    BY <1>2
  <2>2. Base' = Len(accepted') - Len(queue') - Len(held') - Len(batch')
    BY DEF Base
  <2>3. QED
    BY <1>1, <1>3, <2>1, <2>2, Lengths
<1>5. \A i \in 1 .. Len(queue') :
        queue'[i] = accepted'[Base' + Len(batch') + Len(held') + i]
  <2>1. \A i \in 1 .. Len(queue') : Base' + Len(batch') + Len(held') + i = Base + 1 + i
    BY <1>1, <1>3, <1>4, Lengths
  <2>2. QED
    BY <1>1, <1>2, <2>1
<1>6. pos = 1 /\ Base >= 0
  BY <1>2 DEF PipelineInv
<1>7. \A i \in 1 .. Len(batch') : batch'[i] = accepted'[Base' + i]
  <2>1. \A i \in 1 .. Len(batch') : i = 1
    BY <1>3
  <2>2. QED
    BY <1>1, <1>2, <1>3, <1>4, <2>1
<1>8. QED
  BY <1>1, <1>2, <1>3, <1>4, <1>5, <1>6, <1>7 DEF PipelineInv

\* The head of the channel joins the batch or is held over, in its place.
LEMMA PipelineFill ==
    ASSUME TypeInv, PipelineInv, Fill
    PROVE  PipelineInv' /\ Base' = Base
<1>1. /\ queue \in Seq(Callers) /\ queue # <<>> /\ queue' = Tail(queue)
      /\ phase = "filling" /\ UNCHANGED <<pos, accepted>>
  BY DEF Fill, TypeInv, TypeOK
<1>2. held = <<>> /\ Len(held) = 0 /\ pos = 1 /\ Base >= 0
  BY <1>1 DEF PipelineInv
<1>3. /\ Head(queue) = queue[1] /\ Len(queue') = Len(queue) - 1 /\ Len(queue) >= 1
      /\ \A i \in 1 .. Len(queue) - 1 : queue'[i] = queue[i + 1]
      /\ Head(queue) \in Callers
  BY <1>1, TailAt
<1>4. /\ Head(queue) = accepted[Base + Len(batch) + 1]
      /\ \A i \in 1 .. Len(queue') : queue'[i] = accepted[Base + Len(batch) + 1 + i]
  <2>1. \A i \in 1 .. Len(queue) : queue[i] = accepted[Base + Len(batch) + i]
    <3>1. \A i \in 1 .. Len(queue) : Base + Len(batch) + Len(held) + i = Base + Len(batch) + i
      BY <1>2, Lengths
    <3>2. QED
      BY <3>1 DEF PipelineInv
  <2>2. ASSUME NEW i \in 1 .. Len(queue')
        PROVE  /\ i \in 1 .. Len(queue) - 1 /\ i + 1 \in 1 .. Len(queue)
               /\ Base + Len(batch) + (i + 1) = Base + Len(batch) + 1 + i
    BY <1>3, Lengths
  <2>3. 1 \in 1 .. Len(queue)
    BY <1>3, Lengths
  <2>4. QED
    BY <1>3, <2>1, <2>2, <2>3
<1>5. CASE Head(queue) \notin Solo /\ batch' = Append(batch, Head(queue)) /\ UNCHANGED <<held, phase>>
  <2>1. /\ Len(batch') = Len(batch) + 1 /\ batch'[Len(batch) + 1] = Head(queue)
        /\ \A i \in 1 .. Len(batch) : batch'[i] = batch[i]
    BY <1>3, <1>5, AppendAt DEF TypeInv, TypeOK
  <2>2. Base' = Base /\ Base + (Len(batch) + 1) = Base + Len(batch) + 1
    BY <1>1, <1>2, <1>3, <1>5, <2>1, Lengths DEF Base
  <2>3. \A i \in 1 .. Len(batch') : batch'[i] = accepted'[Base' + i]
    <3>1. \A i \in 1 .. Len(batch') : i \in 1 .. Len(batch) \/ i = Len(batch) + 1
      BY <2>1, Lengths
    <3>2. QED
      BY <3>1, <1>1, <1>4, <2>1, <2>2 DEF PipelineInv
  <2>4. \A i \in 1 .. Len(queue') :
          queue'[i] = accepted'[Base' + Len(batch') + Len(held') + i]
    <3>1. \A i \in 1 .. Len(queue') :
            Base' + Len(batch') + Len(held') + i = Base + Len(batch) + 1 + i
      BY <1>2, <1>3, <1>5, <2>1, <2>2, Lengths
    <3>2. QED
      BY <3>1, <1>1, <1>4
  <2>5. pos' <= Len(batch') + 1
    BY <1>1, <1>2, <2>1, Lengths
  <2>6. QED
    BY <1>1, <1>2, <1>5, <2>2, <2>3, <2>4, <2>5 DEF PipelineInv
<1>6. CASE held' = <<Head(queue)>> /\ phase' = "begin" /\ UNCHANGED batch
  <2>1. Len(held') = 1 /\ held'[1] = Head(queue)
    BY <1>3, <1>6, UnitAt
  <2>2. Base' = Base
    BY <1>1, <1>2, <1>3, <1>6, <2>1, Lengths DEF Base
  <2>3. \A i \in 1 .. Len(held') : held'[i] = accepted'[Base' + Len(batch') + i]
    BY <1>1, <1>4, <1>6, <2>1, <2>2
  <2>4. \A i \in 1 .. Len(queue') :
          queue'[i] = accepted'[Base' + Len(batch') + Len(held') + i]
    BY <1>1, <1>4, <1>6, <2>1, <2>2
  <2>5. QED
    BY <1>1, <1>2, <1>6, <2>2, <2>3, <2>4 DEF PipelineInv
<1>7. QED
  BY <1>5, <1>6 DEF Fill

\* The batch is over: the writer has done with its requests.
LEMMA PipelineEnd ==
    ASSUME TypeInv, PipelineInv, batch' = <<>>, pos' = 1, phase' = "idle",
           UNCHANGED <<accepted, queue, held>>
    PROVE  PipelineInv' /\ Base' = Base + Len(batch)
<1>1. Len(batch') = 0
  OBVIOUS
<1>2. Base' = Base + Len(batch)
  BY <1>1, Lengths DEF Base
<1>3. /\ Base' + Len(batch') = Base + Len(batch) /\ Base' + Len(batch') + Len(held) = Base + Len(batch) + Len(held)
      /\ Base' >= 0
  BY <1>1, <1>2, Slots, Lengths
<1>4. \A i \in 1 .. Len(held') : held'[i] = accepted'[Base' + Len(batch') + i]
  BY <1>3 DEF PipelineInv
<1>5. \A i \in 1 .. Len(queue') : queue'[i] = accepted'[Base' + Len(batch') + Len(held') + i]
  <2>1. Base' + Len(batch') + Len(held') = Base + Len(batch) + Len(held)
    BY <1>3
  <2>2. QED
    BY <2>1 DEF PipelineInv
<1>6. QED
  BY <1>1, <1>2, <1>3, <1>4, <1>5 DEF PipelineInv

-----------------------------------------------------------------------------
(* Callers.                                                                  *)

\* A request enters the channel once; a caller that has not enqueued its
\* request has not been answered by the writer, and one that has not returned
\* has no result.
CallersInv ==
    /\ Distinct(accepted)
    /\ \A c \in Callers :
         /\ pc[c] \in {"start", "checked"} =>
              c \notin Elems(accepted) /\ c \notin replied /\ err[c] = "nil"
         /\ pc[c] # "returned" => result[c] = "none"

\* The writer has told the caller nothing yet.
Unanswered(c) ==
    /\ c \notin replied /\ err[c] = "nil"
    /\ pc[c] = "waiting" \/ (pc[c] = "returned" /\ result[c] = "unknown")

\* Phases in which the batch is over: on the disk or given up.
Over == phase \in {"replying", "emitting", "failing", "crashing", "crashed"}

\* The accepted requests up to here have had their turn.
Front == IF phase = "applying" THEN Base + pos - 1
         ELSE IF Over THEN Base + Len(batch) ELSE Base

FreshInv == \A m \in 1 .. Len(accepted) : Front < m => Unanswered(accepted[m])

\* The disk holds nothing of the open batch before its commit.
Written == IF Over THEN Base + Len(batch) ELSE Base

\* The cursors stand between the requests done with and the end of the batch.
LEMMA Cursors ==
    ASSUME TypeInv, PipelineInv
    PROVE  /\ Front \in Nat /\ Base \in Nat /\ Written \in Nat
           /\ Base <= Written /\ Written <= Front /\ Front <= Base + Len(batch)
           /\ Base + Len(batch) <= Len(accepted) /\ Len(accepted) \in Nat
           /\ Len(batch) \in Nat
<1>1. /\ Base \in Int /\ Base >= 0 /\ Len(batch) \in Nat /\ Len(held) \in Nat
      /\ Len(queue) \in Nat /\ pos \in Nat \ {0} /\ Len(accepted) \in Nat
      /\ Base + Len(batch) + Len(held) + Len(queue) = Len(accepted)
  BY Lengths, Slots
<1>2. pos <= Len(batch) + 1
  BY DEF PipelineInv
<1>3. Base + Len(batch) <= Len(accepted)
  BY <1>1
<1>4. Over => phase # "applying"
  BY DEF Over
<1>5. Front \in Nat /\ Front <= Base + Len(batch)
  BY <1>1, <1>2 DEF Front
<1>6. Written \in Nat /\ Base <= Written /\ Written <= Front
  BY <1>1, <1>2, <1>4 DEF Front, Written
<1>7. QED
  BY <1>1, <1>3, <1>5, <1>6

\* Only callers that are already in the channel are answered, and by the writer.
LEMMA CallersStill ==
    ASSUME TypeInv, CallersInv, UNCHANGED <<pc, result, accepted>>,
           \A c \in Callers : (c \in replied' \/ err'[c] # "nil") =>
             (c \in replied \/ err[c] # "nil" \/ c \in Elems(accepted))
    PROVE  CallersInv'
<1>1. Distinct(accepted)'
  BY DEF CallersInv, Distinct
<1>2. ASSUME NEW c \in Callers
      PROVE  /\ pc'[c] \in {"start", "checked"} =>
                  c \notin Elems(accepted)' /\ c \notin replied' /\ err'[c] = "nil"
             /\ pc'[c] # "returned" => result'[c] = "none"
  <2>1. Elems(accepted)' = Elems(accepted)
    BY DEF Elems
  <2>2. QED
    BY <2>1 DEF CallersInv
<1>3. QED
  BY <1>1, <1>2 DEF CallersInv

\* A caller enqueues once, before anybody answers it.
LEMMA CallersDo ==
    ASSUME TypeInv, CallersInv, NEW c \in Callers, Do(c) \/ Cancel(c)
    PROVE  CallersInv'
<1>1. CASE DoCheck(c) \/ DoEnqueueRefused(c) \/ DoAwait(c)
  <2>1. /\ \E p \in {"checked", "returned"} : pc' = [pc EXCEPT ![c] = p]
        /\ pc'[c] = "checked" => result' = result
        /\ pc'[c] = "checked" => pc[c] = "start"
        /\ \A d \in Callers : d # c => result'[d] = result[d]
        /\ UNCHANGED <<accepted, replied, err>>
    BY <1>1 DEF DoCheck, DoEnqueueRefused, DoAwait, Return, runVars, TypeInv, TypeOK
  <2>2. pc' \in [Callers -> {"start", "checked", "waiting", "returned"}]
        /\ \A d \in Callers : d # c => pc'[d] = pc[d]
    BY <2>1 DEF TypeInv, TypeOK
  <2>3. pc'[c] \in {"checked", "returned"}
    BY <2>1 DEF TypeInv, TypeOK
  <2>4. Distinct(accepted)' /\ Elems(accepted)' = Elems(accepted)
    BY <2>1 DEF CallersInv, Distinct, Elems
  <2>5. ASSUME NEW d \in Callers
        PROVE  /\ pc'[d] \in {"start", "checked"} =>
                    d \notin Elems(accepted)' /\ d \notin replied' /\ err'[d] = "nil"
               /\ pc'[d] # "returned" => result'[d] = "none"
    <3>1. CASE d = c
      BY <2>1, <2>3, <2>4, <3>1 DEF CallersInv
    <3>2. CASE d # c
      BY <2>1, <2>2, <2>4, <3>2 DEF CallersInv
    <3>3. QED
      BY <3>1, <3>2
  <2>6. QED
    BY <2>4, <2>5 DEF CallersInv
<1>2. CASE DoEnqueue(c)
  <2>1. /\ accepted \in Seq(Callers) /\ accepted' = Append(accepted, c)
        /\ pc[c] = "checked" /\ pc' = [pc EXCEPT ![c] = "waiting"]
        /\ UNCHANGED <<result, replied, err>>
    BY <1>2 DEF DoEnqueue, runVars, TypeInv, TypeOK
  <2>2. /\ Len(accepted') = Len(accepted) + 1 /\ accepted'[Len(accepted) + 1] = c
        /\ \A i \in 1 .. Len(accepted) : accepted'[i] = accepted[i]
        /\ Elems(accepted') = Elems(accepted) \cup {c} /\ Len(accepted) \in Nat
    BY <2>1, AppendAt
  <2>3. c \notin Elems(accepted)
    BY <2>1 DEF CallersInv
  <2>4. Distinct(accepted')
    <3>1. \A i \in 1 .. Len(accepted) : accepted[i] # c
      BY <2>1, <2>3, ElemsAt
    <3>2. \A i \in 1 .. Len(accepted') : i \in 1 .. Len(accepted) \/ i = Len(accepted) + 1
      BY <2>2
    <3>3. QED
      BY <2>2, <3>1, <3>2 DEF CallersInv, Distinct
  <2>5. ASSUME NEW d \in Callers
        PROVE  /\ pc'[d] \in {"start", "checked"} =>
                    d \notin Elems(accepted') /\ d \notin replied' /\ err'[d] = "nil"
               /\ pc'[d] # "returned" => result'[d] = "none"
    BY <2>1, <2>2 DEF CallersInv, TypeInv, TypeOK
  <2>6. QED
    BY <2>4, <2>5 DEF CallersInv
<1>3. CASE Cancel(c)
  BY <1>3, CallersStill DEF Cancel, callerVars, runVars
<1>4. QED
  BY <1>1, <1>2, <1>3 DEF Do

-----------------------------------------------------------------------------
(* Requests whose turn has not come.                                         *)

\* A step that answers nobody behind the front.
LEMMA FreshStill ==
    ASSUME TypeInv, PipelineInv, FreshInv, UNCHANGED <<pc, result, accepted>>,
           Front' \in Nat, Front <= Front',
           \A m \in 1 .. Len(accepted) : Front' < m =>
             /\ accepted[m] \in replied' => accepted[m] \in replied
             /\ err'[accepted[m]] = err[accepted[m]]
    PROVE  FreshInv'
<1>1. ASSUME NEW m \in 1 .. Len(accepted'), Front' < m
      PROVE  Unanswered(accepted[m])'
  <2>1. m \in 1 .. Len(accepted) /\ accepted'[m] = accepted[m]
    OBVIOUS
  <2>2. Front < m
    <3>1. Front \in Nat
      BY Cursors
    <3>2. QED
      BY <1>1, <3>1
  <2>3. Unanswered(accepted[m])
    BY <2>1, <2>2 DEF FreshInv
  <2>4. QED
    BY <1>1, <2>1, <2>3 DEF Unanswered
<1>2. QED
  BY <1>1 DEF FreshInv

\* A caller moves no cursor, and one that gives up is still unanswered.
LEMMA FreshDo ==
    ASSUME TypeInv, PipelineInv, CallersInv, FreshInv,
           NEW c \in Callers, Do(c) \/ Cancel(c)
    PROVE  FreshInv' /\ Front' = Front /\ Written' = Written /\ Base' = Base
<1>1. CASE DoCheck(c) \/ DoEnqueueRefused(c) \/ DoAwait(c)
  <2>1. /\ UNCHANGED <<accepted, replied, err, queue, held, batch, phase, pos>>
        /\ \A d \in Callers : d # c => pc'[d] = pc[d] /\ result'[d] = result[d]
        /\ c \notin replied /\ pc[c] = "waiting" => pc'[c] = "returned" /\ result'[c] = "unknown"
        /\ pc[c] # "returned"
    BY <1>1 DEF DoCheck, DoEnqueueRefused, DoAwait, Return, runVars, TypeInv, TypeOK
  <2>2. Base' = Base
    BY <2>1 DEF Base
  <2>3. Front' = Front /\ Written' = Written
    BY <2>1, <2>2 DEF Front, Over, Written
  <2>4. ASSUME NEW m \in 1 .. Len(accepted'), Front' < m
        PROVE  Unanswered(accepted[m])'
    <3>1. m \in 1 .. Len(accepted) /\ Front < m /\ accepted'[m] = accepted[m]
      BY <2>1, <2>3, <2>4
    <3>2. Unanswered(accepted[m])
      BY <3>1 DEF FreshInv
    <3>3. accepted[m] \in Callers
      BY <3>1, ElemsAt DEF TypeInv, TypeOK
    <3>4. QED
      BY <2>1, <3>1, <3>2, <3>3 DEF Unanswered
  <2>5. QED
    BY <2>2, <2>3, <2>4 DEF FreshInv
<1>2. CASE DoEnqueue(c)
  <2>1. /\ UNCHANGED <<result, replied, err, held, batch, phase, pos>>
        /\ accepted \in Seq(Callers) /\ accepted' = Append(accepted, c)
        /\ pc[c] = "checked" /\ pc' = [pc EXCEPT ![c] = "waiting"]
    BY <1>2 DEF DoEnqueue, runVars, TypeInv, TypeOK
  <2>2. Base' = Base
    BY <1>2, PipelineEnqueue
  <2>3. Front' = Front /\ Written' = Written
    BY <2>1, <2>2 DEF Front, Over, Written
  <2>4. /\ Len(accepted') = Len(accepted) + 1 /\ accepted'[Len(accepted) + 1] = c
        /\ \A i \in 1 .. Len(accepted) : accepted'[i] = accepted[i]
        /\ Len(accepted) \in Nat
    BY <2>1, AppendAt
  <2>5. ASSUME NEW m \in 1 .. Len(accepted'), Front' < m
        PROVE  Unanswered(accepted[m])'
    <3>1. CASE m = Len(accepted) + 1
      BY <2>1, <2>4, <3>1 DEF Unanswered, CallersInv, TypeInv, TypeOK
    <3>2. CASE m # Len(accepted) + 1
      <4>1. m \in 1 .. Len(accepted) /\ Front < m
        BY <2>3, <2>4, <2>5, <3>2
      <4>2. Unanswered(accepted[m]) /\ accepted'[m] = accepted[m]
        BY <2>4, <4>1 DEF FreshInv
      <4>3. accepted[m] \in Callers
        BY <2>1, <4>1, ElemsAt
      <4>4. QED
        BY <2>1, <4>2, <4>3 DEF Unanswered, TypeInv, TypeOK
    <3>3. QED
      BY <3>1, <3>2
  <2>6. QED
    BY <2>2, <2>3, <2>5 DEF FreshInv
<1>3. CASE Cancel(c)
  <2>1. UNCHANGED <<pc, result, accepted, replied, err, queue, held, batch, phase, pos>>
    BY <1>3 DEF Cancel, callerVars, runVars
  <2>2. Base' = Base
    BY <2>1 DEF Base
  <2>3. Front' = Front /\ Written' = Written
    BY <2>1, <2>2 DEF Front, Over, Written
  <2>4. QED
    BY <2>1, <2>2, <2>3, FreshStill, Cursors
<1>4. QED
  BY <1>1, <1>2, <1>3 DEF Do

\* What the fixed phases make of the cursors.
LEMMA CursorsBy ==
    ASSUME TypeInv, PipelineInv
    PROVE  /\ phase \in {"idle", "filling", "begin", "exited"} => Front = Base /\ Written = Base
           /\ phase = "applying" => Front = Base + pos - 1 /\ Written = Base
           /\ phase \in {"replying", "emitting", "failing", "crashing", "crashed"} =>
                Front = Base + Len(batch) /\ Written = Base + Len(batch)
  BY DEF Front, Written, Over

\* The writer only moves its cursors forward.
Advances ==
    /\ PipelineInv' /\ Front' \in Nat /\ Front <= Front'
    /\ Written' \in Nat /\ Written <= Written'
    /\ UNCHANGED <<pc, result, accepted>>

\* Whom a step of the writer answers has had its turn when the step is over.
AnswersInTurn ==
    \A c \in Callers : (c \in replied' /\ c \notin replied) \/ err'[c] # err[c] =>
      \E k \in 1 .. Len(accepted) : k <= Front' /\ c = accepted[k]

\* A step inside a batch: the requests stay where they are.
LEMMA AdvancesInPlace ==
    ASSUME TypeInv, TypeInv', PipelineInv, PipelineInv', Base' = Base, batch' = batch,
           UNCHANGED <<pc, result, accepted>>,
           \/ phase' \in {"filling", "begin", "exited"} /\ phase \in {"idle", "filling"}
           \/ phase = "begin" /\ phase' \in {"applying", "failing"}
           \/ phase = "applying" /\ phase' = "applying" /\ pos <= pos'
           \/ phase \in {"applying", "replying", "emitting", "failing", "crashing"}
              /\ phase' \in {"replying", "emitting", "failing", "crashing", "crashed"}
    PROVE  Advances
<1>1. /\ Base \in Nat /\ Len(batch) \in Nat /\ pos \in Nat \ {0} /\ pos' \in Nat \ {0}
      /\ pos <= Len(batch) + 1 /\ Len(batch') = Len(batch)
      /\ Front <= Base + Len(batch) /\ Written <= Base + Len(batch)
      /\ Front \in Nat /\ Written \in Nat
  <2>1. pos' \in Nat \ {0}
    BY Lengths, ConstantsAssumption DEF TypeInv, TypeOK
  <2>2. QED
    BY <2>1, Lengths, Cursors DEF PipelineInv
<1>2. /\ phase' \in {"filling", "begin", "exited"} => Front' = Base /\ Written' = Base
      /\ phase' = "applying" => Front' = Base + pos' - 1 /\ Written' = Base
      /\ phase' \in {"replying", "emitting", "failing", "crashing", "crashed"} =>
           Front' = Base + Len(batch) /\ Written' = Base + Len(batch)
  BY DEF Front, Written, Over
<1>a. \A b, p, q \in Nat : 1 <= p /\ p <= q =>
        b + p - 1 \in Nat /\ b <= b + p - 1 /\ b <= b /\ b + p - 1 <= b + q - 1
  OBVIOUS
<1>3. CASE phase' \in {"filling", "begin", "exited"} /\ phase \in {"idle", "filling"}
  BY <1>1, <1>2, <1>3, CursorsBy DEF Advances
<1>4. CASE phase = "begin" /\ phase' \in {"applying", "failing"}
  <2>1. Front = Base /\ Written = Base
    BY <1>4, CursorsBy
  <2>2. CASE phase' = "applying"
    <3>1. Front' = Base + pos' - 1 /\ Written' = Base
      BY <1>2, <2>2
    <3>2. Base + pos' - 1 \in Nat /\ Base <= Base + pos' - 1 /\ Base <= Base
      <4>1. pos' \in Nat /\ 1 <= pos' /\ pos' <= pos'
        BY <1>1
      <4>2. QED
        BY <1>1, <1>a, <4>1, Zenon
    <3>3. QED
      BY <1>1, <2>1, <3>1, <3>2, Zenon DEF Advances
  <2>3. CASE phase' = "failing"
    BY <1>1, <1>2, <2>1, <2>3 DEF Advances
  <2>4. QED
    BY <1>4, <2>2, <2>3
<1>5. CASE phase = "applying" /\ phase' = "applying" /\ pos <= pos'
  <2>1. Front' = Base + pos' - 1 /\ Written' = Base /\ Front = Base + pos - 1 /\ Written = Base
    BY <1>2, <1>5, CursorsBy
  <2>2. Base + pos' - 1 \in Nat /\ Base + pos - 1 <= Base + pos' - 1 /\ Base <= Base
    <3>1. /\ pos \in Nat /\ 1 <= pos /\ pos <= pos' /\ pos' \in Nat
          /\ 1 <= pos' /\ pos' <= pos'
      BY <1>1, <1>5
    <3>2. QED
      BY <1>1, <1>a, <3>1, Zenon
  <2>3. QED
    BY <1>1, <2>1, <2>2, Zenon DEF Advances
<1>6. CASE /\ phase \in {"applying", "replying", "emitting", "failing", "crashing"}
           /\ phase' \in {"replying", "emitting", "failing", "crashing", "crashed"}
  BY <1>1, <1>2, <1>6 DEF Advances
<1>7. QED
  BY <1>3, <1>4, <1>5, <1>6

\* The turns of the batch are those behind the requests done with.
LEMMA TurnAt ==
    ASSUME TypeInv, PipelineInv, NEW i \in 1 .. Len(batch)
    PROVE  Base + i \in 1 .. Len(accepted) /\ batch[i] = accepted[Base + i]
           /\ batch[i] \in Callers \ Solo
<1>1. Base + i \in 1 .. Len(accepted)
  BY Slots
<1>2. batch[i] = accepted[Base + i]
  BY DEF PipelineInv
<1>3. batch[i] \in Callers \ Solo
  BY ElemsAt DEF TypeInv, TypeOK
<1>4. QED
  BY <1>1, <1>2, <1>3

\* Every step of the writer moves its cursors forward and answers in turn.
LEMMA RunAdvances ==
    ASSUME TypeInv, PipelineInv, Run
    PROVE  Advances /\ AnswersInTurn
<1>0. TypeInv'
  BY TypeRun
<1> USE DEF callerVars, closeVars
<1>1. CASE RunSolo
  <2>1. PipelineInv' /\ Base' = Base + 1 /\ Base \in Nat
    BY <1>1, PipelineSolo, Cursors
  <2>2. /\ phase = "idle" /\ phase' = "idle" /\ UNCHANGED <<pc, result, accepted>>
        /\ First = accepted[Base + 1] /\ Base + 1 \in 1 .. Len(accepted)
        /\ \E e \in {"nil", "rejected"} : err' = [err EXCEPT ![First] = e]
        /\ replied' = replied \cup {First}
    BY <1>1, FirstAt DEF RunSolo
  <2>3. Front = Base /\ Written = Base /\ Front' = Base' /\ Written' = Base'
    BY <2>2 DEF Front, Written, Over
  <2>4. Advances
    BY <2>1, <2>2, <2>3 DEF Advances
  <2>5. ASSUME NEW c \in Callers, (c \in replied' /\ c \notin replied) \/ err'[c] # err[c]
        PROVE  c = First
    BY <2>2, <2>5 DEF TypeInv, TypeOK
  <2>6. Base + 1 <= Front'
    BY <2>1, <2>3
  <2>7. QED
    BY <2>2, <2>4, <2>5, <2>6 DEF AnswersInTurn
<1>2. CASE OpenBatch
  <2>1. PipelineInv' /\ Base' = Base /\ Base \in Nat
    BY <1>2, PipelineOpen, Cursors
  <2>2. /\ phase = "idle" /\ phase' = "filling"
        /\ UNCHANGED <<pc, result, accepted, replied, err>>
    BY <1>2 DEF OpenBatch
  <2>3. Front = Base /\ Written = Base /\ Front' = Base' /\ Written' = Base'
    BY <2>2 DEF Front, Written, Over
  <2>4. QED
    BY <2>1, <2>2, <2>3 DEF Advances, AnswersInTurn
<1>3. CASE Fill
  <2>1. PipelineInv' /\ Base' = Base /\ Base \in Nat
    BY <1>3, PipelineFill, Cursors
  <2>2. /\ phase = "filling" /\ phase' \in {"filling", "begin"}
        /\ UNCHANGED <<pc, result, accepted, replied, err>>
    BY <1>3 DEF Fill
  <2>3. Front = Base /\ Written = Base /\ Front' = Base' /\ Written' = Base'
    BY <2>2 DEF Front, Written, Over
  <2>4. QED
    BY <2>1, <2>2, <2>3 DEF Advances, AnswersInTurn
<1>4. CASE CloseBatch \/ Exit \/ Crash
  <2>1. /\ \/ phase = "filling" /\ phase' = "begin"
           \/ phase = "idle" /\ phase' = "exited"
           \/ phase = "crashing" /\ phase' = "crashed"
        /\ UNCHANGED <<pc, result, accepted, queue, held, batch, pos, replied, err>>
    BY <1>4 DEF CloseBatch, Exit, Crash
  <2>2. PipelineInv' /\ Base' = Base
    BY <2>1, PipelineStill DEF PipelineInv
  <2>3. Advances
    BY <1>0, <2>1, <2>2, AdvancesInPlace
  <2>4. QED
    BY <2>1, <2>3 DEF AnswersInTurn
<1>5. CASE Begin
  <2>1. /\ phase = "begin" /\ phase' \in {"applying", "failing"} /\ pos' = 1
        /\ UNCHANGED <<pc, result, accepted, queue, held, batch, replied, err>>
    BY <1>5, BeginDoes
  <2>2. PipelineInv' /\ Base' = Base
    BY <2>1, PipelineStill, Lengths
  <2>3. Advances
    BY <1>0, <2>1, <2>2, AdvancesInPlace
  <2>4. QED
    BY <2>1, <2>3 DEF AnswersInTurn
<1>6. CASE Apply
  <2>1. /\ phase = "applying" /\ pos <= Len(batch)
        /\ \/ phase' = "applying" /\ pos' = pos + 1
           \/ phase' = "failing" /\ pos' = 1
        /\ UNCHANGED <<pc, result, accepted, queue, held, batch>>
        /\ \/ UNCHANGED <<replied, err>>
           \/ /\ phase' = "applying" /\ err' = [err EXCEPT ![batch[pos]] = "rejected"]
              /\ replied' = replied \cup {batch[pos]}
    BY <1>6, ApplyDoes, Zenon
  <2>2. PipelineInv' /\ Base' = Base
    <3>1. pos' <= Len(batch) + 1
      BY <2>1, Lengths
    <3>2. QED
      BY <2>1, <3>1, PipelineStill
  <2>3. Advances
    BY <1>0, <2>1, <2>2, AdvancesInPlace, Lengths
  <2>4. pos \in 1 .. Len(batch)
    BY <2>1, Lengths
  <2>5. /\ Base + pos \in 1 .. Len(accepted) /\ batch[pos] = accepted[Base + pos]
        /\ batch[pos] \in Callers
    BY <2>4, TurnAt
  <2>6. phase' = "applying" => Base + pos <= Front'
    <3>1. phase' = "applying" => Front' = Base' + pos' - 1
      BY DEF Front
    <3>2. QED
      BY <2>1, <2>2, <3>1, Lengths
  <2>7. ASSUME NEW c \in Callers, (c \in replied' /\ c \notin replied) \/ err'[c] # err[c]
        PROVE  c = batch[pos] /\ phase' = "applying"
    BY <2>1, <2>5, <2>7 DEF TypeInv, TypeOK
  <2>8. QED
    BY <2>3, <2>5, <2>6, <2>7 DEF AnswersInTurn
<1>7. CASE Commit
  <2>1. /\ phase = "applying" /\ phase' \in {"replying", "failing"} /\ pos' = 1
        /\ UNCHANGED <<pc, result, accepted, queue, held, batch, replied, err>>
    BY <1>7, CommitDoes
  <2>2. PipelineInv' /\ Base' = Base
    BY <2>1, PipelineStill, Lengths
  <2>3. Advances
    BY <1>0, <2>1, <2>2, AdvancesInPlace
  <2>4. QED
    BY <2>1, <2>3 DEF AnswersInTurn
<1>8. CASE Reply \/ (Fail /\ pos <= Len(batch))
  <2>1. /\ phase \in {"replying", "failing"}
        /\ phase' \in {"replying", "emitting", "failing", "crashing"}
        /\ pos' = pos \/ (pos <= Len(batch) /\ pos' = pos + 1)
        /\ UNCHANGED <<pc, result, accepted, queue, held, batch>>
        /\ pos <= Len(batch) \/ UNCHANGED <<replied, err>>
        /\ replied' \subseteq replied \cup {batch[pos]}
        /\ err' = err \/ err' = [err EXCEPT ![batch[pos]] = failWith]
    <3>1. CASE Reply
      BY <3>1 DEF Reply
    <3>2. CASE Fail /\ pos <= Len(batch)
      <4>1. /\ phase = "failing" /\ err' = [err EXCEPT ![batch[pos]] = failWith]
            /\ phase' = IF batch[pos] \in replied THEN "crashing" ELSE phase
            /\ replied' = replied \cup {batch[pos]} /\ pos' = pos + 1
            /\ UNCHANGED <<pc, result, accepted, queue, held, batch>>
        <5>1. ~(pos > Len(batch))
          BY <3>2, Lengths
        <5>2. QED
          BY <3>2, <5>1, Zenon DEF Fail
      <4>2. phase' \in {"crashing", "failing"}
        BY <4>1
      <4>3. replied' \subseteq replied \cup {batch[pos]}
        <5>1. replied' = replied \cup {batch[pos]}
          BY <4>1
        <5>2. QED
          BY <5>1, Zenon
      <4>4. /\ phase \in {"replying", "failing"}
            /\ phase' \in {"replying", "emitting", "failing", "crashing"}
        BY <4>1, <4>2
      <4>5. QED
        BY <3>2, <4>1, <4>3, <4>4, Zenon
    <3>3. QED
      BY <1>8, <3>1, <3>2
  <2>2. PipelineInv' /\ Base' = Base
    <3>1. pos' <= Len(batch) + 1
      BY <2>1, Lengths DEF PipelineInv
    <3>2. QED
      BY <2>1, <3>1, PipelineStill
  <2>3. Advances
    BY <1>0, <2>1, <2>2, AdvancesInPlace
  <2>4. ASSUME NEW c \in Callers, (c \in replied' /\ c \notin replied) \/ err'[c] # err[c]
        PROVE  c = batch[pos] /\ pos <= Len(batch)
    BY <2>1, <2>4 DEF TypeInv, TypeOK
  <2>5. Front' = Base' + Len(batch')
    BY <2>1 DEF Front, Over
  <2>6. ASSUME NEW c \in Callers, (c \in replied' /\ c \notin replied) \/ err'[c] # err[c]
        PROVE  \E k \in 1 .. Len(accepted) : k <= Front' /\ c = accepted[k]
    <3>1. pos \in 1 .. Len(batch) /\ c = batch[pos]
      BY <2>4, <2>6, Lengths
    <3>2. Base + pos \in 1 .. Len(accepted) /\ c = accepted[Base + pos]
      BY <3>1, TurnAt
    <3>3. Base + pos <= Front'
      BY <2>1, <2>2, <2>5, <3>1, Lengths
    <3>4. QED
      BY <3>2, <3>3
  <2>7. QED
    BY <2>3, <2>6 DEF AnswersInTurn
<1>9. CASE Emit \/ (Fail /\ ~(pos <= Len(batch)))
  <2>1. /\ phase \in {"emitting", "failing"} /\ phase' = "idle" /\ batch' = <<>> /\ pos' = 1
        /\ UNCHANGED <<pc, result, accepted, queue, held, replied, err>>
    BY <1>9 DEF Emit, Fail
  <2>2. PipelineInv' /\ Base' = Base + Len(batch)
    BY <2>1, PipelineEnd
  <2>3. /\ Front = Base + Len(batch) /\ Written = Base + Len(batch)
        /\ Front' = Base' /\ Written' = Base'
    BY <2>1 DEF Front, Written, Over
  <2>4. Base + Len(batch) \in Nat
    BY Cursors
  <2>5. QED
    BY <2>1, <2>2, <2>3, <2>4 DEF Advances, AnswersInTurn
<1>10. QED
  BY <1>1, <1>2, <1>3, <1>4, <1>5, <1>6, <1>7, <1>8, <1>9 DEF Run

\* The writer answers only requests that were accepted.
LEMMA CallersRun ==
    ASSUME TypeInv, PipelineInv, CallersInv, Run
    PROVE  CallersInv'
<1>1. UNCHANGED <<pc, result, accepted>> /\ AnswersInTurn
  BY RunAdvances DEF Advances
<1>2. \A k \in 1 .. Len(accepted) : accepted[k] \in Elems(accepted)
  BY ElemsAt DEF TypeInv, TypeOK
<1>3. \A c \in Callers : (c \in replied' \/ err'[c] # "nil") =>
        (c \in replied \/ err[c] # "nil" \/ c \in Elems(accepted))
  BY <1>1, <1>2 DEF AnswersInTurn
<1>4. QED
  BY <1>1, <1>3, CallersStill

\* The writer answers nobody behind the front.
LEMMA FreshRun ==
    ASSUME TypeInv, PipelineInv, CallersInv, FreshInv, Run
    PROVE  FreshInv'
<1>1. /\ PipelineInv' /\ UNCHANGED <<pc, result, accepted>> /\ AnswersInTurn
      /\ Front <= Front' /\ Front' \in Nat
  BY RunAdvances DEF Advances
<1>2. ASSUME NEW m \in 1 .. Len(accepted), Front' < m
      PROVE  /\ accepted[m] \in replied' => accepted[m] \in replied
             /\ err'[accepted[m]] = err[accepted[m]]
  <2>1. accepted[m] \in Callers
    BY ElemsAt DEF TypeInv, TypeOK
  <2>2. \A k \in 1 .. Len(accepted) : accepted[m] = accepted[k] => k = m
    BY DEF CallersInv, Distinct
  <2>3. ~(\E k \in 1 .. Len(accepted) : k <= Front' /\ accepted[m] = accepted[k])
    BY <1>1, <1>2, <2>2
  <2>4. QED
    BY <1>1, <2>1, <2>3 DEF AnswersInTurn
<1>3. QED
  BY <1>1, <1>2, FreshStill

-----------------------------------------------------------------------------
(* The order of commits.                                                     *)

\* s lists elements of t from behind the a-th up to the b-th.
Within(s, t, a, b) ==
    \A i \in 1 .. Len(s) : \E m \in 1 .. Len(t) : a < m /\ m <= b /\ s[i] = t[m]

\* The disk holds requests that are written, the open transaction requests of
\* the batch that had their turn; after the commit the disk has them too.
OrderInv ==
    /\ Within(durable, accepted, 0, Written) /\ InOrderOf(durable, accepted)
    /\ phase \notin {"applying", "replying", "emitting"} => tx = <<>>
    /\ phase = "applying" => Within(tx, accepted, Base, Front)
    /\ phase \in {"replying", "emitting"} => Elems(tx) \subseteq Elems(durable)
    /\ InOrderOf(tx, accepted)

\* The types these facts are about.
LEMMA SeqTypes ==
    ASSUME TypeInv
    PROVE  /\ accepted \in Seq(Callers) /\ durable \in Seq(Callers) /\ tx \in Seq(Callers)
           /\ published \in Seq(Callers) /\ batch \in Seq(Callers)
           /\ durable \in Seq(Callers \ Solo) /\ tx \in Seq(Callers \ Solo)
           /\ published \in Seq(Callers \ Solo)
           /\ \A k \in 1 .. Len(events) : events[k] \in Seq(Callers)
           /\ events \in Seq(Seq(Callers \ Solo)) /\ Len(accepted) \in Nat
<1>1. \A s \in Seq(Callers \ Solo) : s \in Seq(Callers)
  OBVIOUS
<1>2. /\ durable \in Seq(Callers \ Solo) /\ tx \in Seq(Callers \ Solo)
      /\ published \in Seq(Callers \ Solo) /\ batch \in Seq(Callers \ Solo)
      /\ events \in Seq(Seq(Callers \ Solo)) /\ accepted \in Seq(Callers)
  BY DEF TypeInv, TypeOK
<1>3. \A k \in 1 .. Len(events) : events[k] \in Seq(Callers \ Solo)
  BY <1>2, ElemsAt
<1>4. QED
  BY <1>1, <1>2, <1>3

\* What is within bounds stays within wider ones, and when t grows.
LEMMA WithinWiden ==
    ASSUME NEW S, NEW t \in Seq(S), NEW s, NEW a \in Nat, NEW b \in Nat, NEW d \in Nat,
           b <= d, Within(s, t, a, b)
    PROVE  Within(s, t, a, d)
<1>1. ASSUME NEW i \in 1 .. Len(s)
      PROVE  \E m \in 1 .. Len(t) : a < m /\ m <= d /\ s[i] = t[m]
  <2>1. PICK m \in 1 .. Len(t) : a < m /\ m <= b /\ s[i] = t[m]
    BY DEF Within
  <2>2. m <= d
    BY <2>1
  <2>3. QED
    BY <2>1, <2>2
<1>2. QED
  BY <1>1 DEF Within

\* Bounds are kept when t grows.
LEMMA WithinGrows ==
    ASSUME NEW S, NEW t \in Seq(S), NEW x \in S, NEW s, NEW a \in Nat, NEW b \in Nat,
           Within(s, t, a, b)
    PROVE  Within(s, Append(t, x), a, b)
<1> DEFINE u == Append(t, x)
<1>1. \A m \in 1 .. Len(t) : m \in 1 .. Len(u) /\ u[m] = t[m]
  BY AppendAt
<1> HIDE DEF u
<1>2. Within(s, u, a, b)
  BY <1>1 DEF Within
<1>3. QED
  BY <1>2 DEF u

\* The empty transaction satisfies what is said of tx.
LEMMA OrderNoTx ==
    ASSUME TypeInv, TypeInv', InOrderOf(durable', accepted'),
           Within(durable', accepted', 0, Written'), tx' = <<>>
    PROVE  OrderInv'
<1>1. InOrderOf(tx', accepted') /\ Elems(tx') = {} /\ Len(tx') = 0
  <2>1. accepted' \in Seq(Callers)
    BY DEF TypeInv, TypeOK
  <2>2. QED
    BY <2>1, InOrderEmpty, EmptyAt
<1>2. Within(tx', accepted', Base', Front')
  BY <1>1 DEF Within
<1>3. QED
  BY <1>1, <1>2 DEF OrderInv

\* A step of a caller that does not enqueue, of Close or of the pump.
LEMMA OrderFrame ==
    ASSUME OrderInv, Base' = Base, Front' = Front, Written' = Written,
           UNCHANGED <<durable, tx, accepted, phase>>
    PROVE  OrderInv'
  BY DEF OrderInv

\* A new request disturbs no order.
LEMMA OrderEnqueue ==
    ASSUME TypeInv, PipelineInv, CallersInv, FreshInv, OrderInv,
           NEW c \in Callers, DoEnqueue(c)
    PROVE  OrderInv'
<1>1. Base' = Base /\ Front' = Front /\ Written' = Written
  BY FreshDo DEF Do
<1>2. /\ accepted' = Append(accepted, c) /\ pc[c] = "checked"
      /\ UNCHANGED <<durable, tx, phase>>
  BY DEF DoEnqueue, runVars
<1>3. c \notin Elems(accepted)
  BY <1>2 DEF CallersInv
<1>4. InOrderOf(durable', accepted') /\ InOrderOf(tx', accepted')
  BY <1>2, <1>3, SeqTypes, InOrderGrows DEF OrderInv
<1>5. Within(durable', accepted', 0, Written')
  BY <1>1, <1>2, SeqTypes, WithinGrows, Cursors DEF OrderInv
<1>6. phase' = "applying" => Within(tx', accepted', Base', Front')
  BY <1>1, <1>2, SeqTypes, WithinGrows, Cursors DEF OrderInv
<1>7. QED
  BY <1>2, <1>4, <1>5, <1>6 DEF OrderInv

\* The writer commits in the order of acceptance.
LEMMA OrderRun ==
    ASSUME TypeInv, PipelineInv, CallersInv, OrderInv, Run
    PROVE  OrderInv'
<1>0. /\ TypeInv' /\ Written' \in Nat /\ Written <= Written' /\ Written \in Nat
      /\ Front' \in Nat /\ Front <= Front' /\ Front \in Nat /\ Base \in Nat
      /\ accepted' = accepted
  BY TypeRun, RunAdvances, Cursors DEF Advances
<1>1. Within(durable, accepted, 0, Written') /\ InOrderOf(durable, accepted)
  <2>1. accepted \in Seq(Callers) /\ Within(durable, accepted, 0, Written)
    BY SeqTypes DEF OrderInv
  <2>2. QED
    BY <1>0, <2>1, WithinWiden DEF OrderInv
<1>2. CASE durable' = durable /\ tx' = <<>>
  BY <1>0, <1>1, <1>2, OrderNoTx
<1>3. CASE RunSolo \/ OpenBatch \/ Fill \/ CloseBatch \/ Exit \/ Crash \/ Begin \/ Fail \/ Emit
  <2>1. CASE RunSolo \/ OpenBatch \/ Fill \/ CloseBatch \/ Exit \/ Crash \/ Fail
    <3>1. durable' = durable /\ tx' = tx
      BY <2>1 DEF RunSolo, OpenBatch, Fill, CloseBatch, Exit, Crash, Fail
    <3>2. phase \notin {"applying", "replying", "emitting"}
      BY <2>1 DEF RunSolo, OpenBatch, Fill, CloseBatch, Exit, Crash, Fail
    <3>3. QED
      BY <1>2, <3>1, <3>2 DEF OrderInv
  <2>2. CASE Begin
    <3>1. phase = "begin" /\ durable' = durable /\ (tx' = tx \/ tx' = <<>>)
      BY <2>2, BeginDoes
    <3>2. QED
      BY <1>2, <3>1 DEF OrderInv
  <2>3. CASE Emit
    BY <1>2, <2>3 DEF Emit
  <2>4. QED
    BY <1>3, <2>1, <2>2, <2>3
<1>4. CASE Reply
  <2>1. /\ phase = "replying" /\ phase' \in {"replying", "emitting"}
        /\ durable' = durable /\ tx' = tx
    BY <1>4 DEF Reply
  <2>2. InOrderOf(tx', accepted') /\ Elems(tx') \subseteq Elems(durable')
    BY <1>0, <2>1 DEF OrderInv
  <2>3. QED
    BY <1>0, <1>1, <2>1, <2>2 DEF OrderInv
<1>5. CASE Apply
  <2>0. /\ phase = "applying" /\ pos <= Len(batch) /\ durable' = durable
        /\ UNCHANGED <<accepted, queue, held, batch>>
    BY <1>5, ApplyDoes
  <2>1. CASE tx' = Append(tx, batch[pos]) /\ pos' = pos + 1 /\ phase' = "applying"
    <3>1. pos \in 1 .. Len(batch)
      BY <2>0, Lengths
    <3>2. Base + pos \in 1 .. Len(accepted) /\ batch[pos] = accepted[Base + pos] /\ batch[pos] \in Callers
      BY <3>1, TurnAt
    <3>3. Base' = Base
      BY <2>0 DEF Base
    <3>4. Front = Base + pos - 1 /\ Front' = Base + pos
      <4>1. Front = Base + pos - 1
        BY <2>0 DEF Front
      <4>2. Front' = Base' + pos' - 1
        BY <2>1 DEF Front
      <4>3. Base + (pos + 1) - 1 = Base + pos
        BY Lengths
      <4>4. QED
        BY <2>1, <3>3, <4>1, <4>2, <4>3, Zenon
    <3>5. /\ Len(tx') = Len(tx) + 1 /\ tx'[Len(tx) + 1] = batch[pos] /\ Len(tx) \in Nat
          /\ \A i \in 1 .. Len(tx) : tx'[i] = tx[i]
      BY <2>1, <3>2, SeqTypes, AppendAt
    <3>6. Within(tx, accepted, Base, Front)
      BY <2>0 DEF OrderInv
    <3>7. Within(tx', accepted', Base', Front')
      <4>1. ASSUME NEW i \in 1 .. Len(tx')
            PROVE  \E m \in 1 .. Len(accepted) : Base < m /\ m <= Base + pos /\ tx'[i] = accepted[m]
        <5>1. CASE i = Len(tx) + 1
          <6>1. Base < Base + pos /\ Base + pos <= Base + pos
            BY <3>1, Lengths
          <6>2. QED
            BY <3>2, <3>5, <5>1, <6>1
        <5>2. CASE i # Len(tx) + 1
          <6>1. i \in 1 .. Len(tx)
            BY <3>5, <5>2
          <6>2. PICK m \in 1 .. Len(accepted) : Base < m /\ m <= Front /\ tx[i] = accepted[m]
            BY <3>6, <6>1 DEF Within
          <6>3. m <= Base + pos
            <7>1. Base \in Int /\ pos \in Nat
              BY Lengths
            <7>2. QED
              BY <3>4, <6>2, <7>1
          <6>4. QED
            BY <3>5, <6>1, <6>2, <6>3
        <5>3. QED
          BY <5>1, <5>2
      <4>2. Within(tx', accepted, Base, Base + pos)
        BY <4>1 DEF Within
      <4>3. QED
        BY <1>0, <3>3, <3>4, <4>2, Zenon
    <3>8. InOrderOf(tx', accepted')
      <4>1. accepted \in Seq(Callers) /\ tx \in Seq(Callers) /\ <<batch[pos]>> \in Seq(Callers)
            /\ tx \o <<batch[pos]>> = tx'
        BY <2>1, <3>2, SeqTypes
      <4>2. batch[pos] \in Elems(accepted)
        BY <3>2, <4>1, ElemsAt
      <4>3. InOrderOf(<<batch[pos]>>, accepted) /\ InOrderOf(tx, accepted)
        BY <4>1, <4>2, InOrderUnit DEF OrderInv
      <4>4. AllBefore(tx, <<batch[pos]>>, accepted)
        <5>1. Distinct(accepted)
          BY DEF CallersInv
        <5>2. \A i \in 1 .. Len(tx) : \E m \in 1 .. Len(accepted) : m <= Front /\ tx[i] = accepted[m]
          BY <3>6 DEF Within
        <5>3. Len(<<batch[pos]>>) = 1 /\ <<batch[pos]>>[1] = batch[pos]
          BY <3>2, UnitAt
        <5>4. Front < Base + pos
          BY <3>4, Lengths
        <5>5. \A j \in 1 .. Len(<<batch[pos]>>) : \E n \in 1 .. Len(accepted) :
                Front < n /\ <<batch[pos]>>[j] = accepted[n]
          BY <3>2, <5>3, <5>4
        <5>6. Front \in Int
          BY <1>0
        <5>7. QED
          BY <4>1, <5>1, <5>2, <5>5, <5>6, BeforeCut, Zenon
      <4>5. QED
        BY <1>0, <4>1, <4>3, <4>4, InOrderConcat
    <3>9. QED
      BY <1>0, <1>1, <2>0, <2>1, <3>7, <3>8 DEF OrderInv
  <2>2. CASE tx' = tx /\ phase' = "applying"
    <3>1. Base' = Base
      BY <2>0 DEF Base
    <3>2. Within(tx, accepted, Base, Front')
      BY <1>0, <2>0, SeqTypes, WithinWiden DEF OrderInv
    <3>3. InOrderOf(tx, accepted)
      BY DEF OrderInv
    <3>4. QED
      BY <1>0, <1>1, <2>0, <2>2, <3>1, <3>2, <3>3 DEF OrderInv
  <2>3. CASE tx' = <<>>
    BY <1>2, <2>0, <2>3
  <2>4. QED
    BY <1>5, <2>1, <2>2, <2>3, ApplyDoes
<1>6. CASE Commit
  <2>0. /\ phase = "applying" /\ pos > Len(batch)
        /\ UNCHANGED <<accepted, queue, held, batch>>
    BY <1>6, CommitDoes
  <2>1. /\ accepted \in Seq(Callers) /\ tx \in Seq(Callers) /\ durable \in Seq(Callers)
        /\ Distinct(accepted)
    BY SeqTypes DEF CallersInv
  <2>2. Within(tx, accepted, Base, Front) /\ Within(durable, accepted, 0, Base)
    BY <2>0, CursorsBy DEF OrderInv
  <2>3. InOrderOf(durable \o tx, accepted)
    <3>1. AllBefore(durable, tx, accepted)
      <4>1. \A i \in 1 .. Len(durable) : \E m \in 1 .. Len(accepted) :
              m <= Base /\ durable[i] = accepted[m]
        BY <2>2 DEF Within
      <4>2. \A i \in 1 .. Len(tx) : \E m \in 1 .. Len(accepted) :
              Base < m /\ tx[i] = accepted[m]
        BY <2>2 DEF Within
      <4>3. Base \in Int
        BY <1>0
      <4>4. QED
        BY <2>1, <4>1, <4>2, <4>3, BeforeCut, Zenon
    <3>2. QED
      BY <2>1, <3>1, InOrderConcat DEF OrderInv
  <2>4. /\ Elems(durable \o tx) = Elems(durable) \cup Elems(tx)
        /\ Len(durable \o tx) = Len(durable) + Len(tx) /\ Len(durable) \in Nat /\ Len(tx) \in Nat
        /\ \A i \in 1 .. Len(durable) : (durable \o tx)[i] = durable[i]
        /\ \A i \in 1 .. Len(tx) : (durable \o tx)[Len(durable) + i] = tx[i]
    BY <2>1, ConcatAt
  <2>5. Within(durable \o tx, accepted, 0, Written')
    <3> DEFINE u == durable \o tx
    <3>1. ASSUME NEW i \in 1 .. Len(u)
          PROVE  \E m \in 1 .. Len(accepted) : 0 < m /\ m <= Written' /\ u[i] = accepted[m]
      <4>1. CASE i <= Len(durable)
        <5>1. i \in 1 .. Len(durable) /\ u[i] = durable[i]
          BY <2>4, <4>1
        <5>2. QED
          BY <1>1, <5>1 DEF Within
      <4>2. CASE i > Len(durable)
        <5>1. i - Len(durable) \in 1 .. Len(tx) /\ i = Len(durable) + (i - Len(durable))
          BY <2>4, <4>2
        <5>2. u[i] = tx[i - Len(durable)]
          BY <2>4, <5>1
        <5>3. PICK m \in 1 .. Len(accepted) : Base < m /\ m <= Front /\ u[i] = accepted[m]
          BY <2>2, <5>1, <5>2 DEF Within
        <5>4. Front <= Written'
          <6>1. Written' = Front'
            <7>1. phase' \in {"replying", "failing"}
              BY <1>6, CommitDoes
            <7>2. QED
              BY <7>1 DEF Written, Front, Over
          <6>2. QED
            BY <1>0, <6>1
        <5>5. 0 < m /\ m <= Written'
          BY <1>0, <5>3, <5>4
        <5>6. QED
          BY <5>3, <5>5
      <4>3. QED
        BY <2>4, <4>1, <4>2
    <3>2. QED
      BY <3>1 DEF Within
  <2>6. CASE durable' = durable \o tx /\ tx' = tx /\ phase' = "replying"
    <3>1. Elems(tx') \subseteq Elems(durable') /\ InOrderOf(tx', accepted')
      BY <2>0, <2>4, <2>6 DEF OrderInv
    <3>2. QED
      BY <2>0, <2>3, <2>5, <2>6, <3>1 DEF OrderInv
  <2>7. CASE durable' = durable /\ tx' = <<>>
    BY <1>2, <2>7
  <2>8. CASE durable' = durable \o tx /\ tx' = <<>>
    BY <1>0, <2>0, <2>3, <2>5, <2>8, OrderNoTx
  <2>9. QED
    BY <1>6, <2>6, <2>7, <2>8, CommitDoes
<1>7. QED
  BY <1>3, <1>4, <1>5, <1>6 DEF Run

-----------------------------------------------------------------------------
(* The answers.                                                              *)

Refusals == {"rejected", "latched", "closing", "cancelled"}

\* What the writer and Do have said of a request.
SaidInv ==
    \A c \in Callers \ Solo :
      /\ c \in replied /\ err[c] = "nil" => c \in Elems(durable)
      /\ err[c] \in {"rejected", "latched"} => c \notin Elems(durable) \cup Elems(tx)
      /\ result[c] = "ok" => c \in Elems(durable)
      /\ result[c] \in Refusals => c \notin Elems(durable) \cup Elems(tx)

\* What the writer is about to say of the batch.
BatchInv ==
    /\ phase = "applying" =>
         /\ \A m \in 1 .. Len(batch) : m < pos /\ err[batch[m]] = "nil" => batch[m] \in Elems(tx)
         /\ \A d \in Elems(tx) : Unanswered(d)
    /\ phase = "replying" =>
         \A m \in 1 .. Len(batch) : err[batch[m]] = "nil" => batch[m] \in Elems(durable)
    /\ phase = "failing" /\ failWith = "latched" =>
         \A m \in 1 .. Len(batch) : batch[m] \notin Elems(durable)

AnswersInv == SaidInv /\ BatchInv

\* A request behind the bound is not among those within it.
LEMMA NotWithin ==
    ASSUME NEW S, NEW t \in Seq(S), Distinct(t), NEW s \in Seq(S),
           NEW a \in Nat, NEW b \in Nat, Within(s, t, a, b),
           NEW m \in 1 .. Len(t), b < m
    PROVE  t[m] \notin Elems(s)
<1> SUFFICES ASSUME t[m] \in Elems(s) PROVE FALSE
  OBVIOUS
<1>1. PICK i \in 1 .. Len(s) : t[m] = s[i]
  BY ElemsAt
<1>2. PICK n \in 1 .. Len(t) : n <= b /\ s[i] = t[n]
  BY <1>1 DEF Within
<1>3. n = m
  BY <1>1, <1>2, Zenon DEF Distinct
<1>4. QED
  BY <1>2, <1>3

\* Only accepted requests are on the disk or in the open transaction.
LEMMA OnlyAccepted ==
    ASSUME OrderInv
    PROVE  Elems(durable) \subseteq Elems(accepted) /\ Elems(tx) \subseteq Elems(accepted)
  BY DEF OrderInv, InOrderOf

\* A step of a caller answers nobody.
LEMMA UnansweredDo ==
    ASSUME TypeInv, NEW c \in Callers, Do(c) \/ Cancel(c), NEW d \in Callers, Unanswered(d)
    PROVE  Unanswered(d)'
<1>1. CASE DoCheck(c) \/ DoEnqueueRefused(c) \/ DoAwait(c)
  <2>1. /\ UNCHANGED <<replied, err>>
        /\ d # c => pc'[d] = pc[d] /\ result'[d] = result[d]
        /\ c \notin replied /\ pc[c] = "waiting" => pc'[c] = "returned" /\ result'[c] = "unknown"
        /\ pc[c] # "returned"
    BY <1>1 DEF DoCheck, DoEnqueueRefused, DoAwait, Return, runVars, TypeInv, TypeOK
  <2>2. QED
    BY <2>1 DEF Unanswered
<1>2. CASE DoEnqueue(c)
  BY <1>2 DEF DoEnqueue, runVars, Unanswered, TypeInv, TypeOK
<1>3. CASE Cancel(c)
  BY <1>3 DEF Cancel, callerVars, runVars, Unanswered
<1>4. QED
  BY <1>1, <1>2, <1>3 DEF Do

\* Do returns what the writer said, or refuses a request that never entered.
LEMMA AnswersDo ==
    ASSUME TypeInv, CallersInv, OrderInv, AnswersInv, NEW c \in Callers, Do(c) \/ Cancel(c)
    PROVE  AnswersInv'
<1>1. UNCHANGED <<batch, phase, pos, tx, err, failWith, replied, durable>>
  BY DEF Do, Cancel, DoCheck, DoEnqueue, DoEnqueueRefused, DoAwait, runVars
<1>2. BatchInv'
  <2>1. \A d \in Elems(tx) : d \in Callers
    BY SeqTypes, ElemsAt
  <2>2. phase = "applying" => \A d \in Elems(tx) : Unanswered(d)'
    BY <2>1, UnansweredDo DEF AnswersInv, BatchInv
  <2>3. QED
    BY <1>1, <2>2 DEF AnswersInv, BatchInv
<1>3. \A d \in Callers : result'[d] = result[d] \/ d = c
  BY DEF Do, Cancel, DoCheck, DoEnqueue, DoEnqueueRefused, DoAwait, Return, callerVars, TypeInv, TypeOK
<1>4. \/ result'[c] = result[c]
      \/ pc[c] \in {"start", "checked"} /\ result'[c] \in {"latched", "closing", "cancelled"}
      \/ c \in replied /\ result'[c] = IF err[c] = "nil" THEN "ok" ELSE err[c]
      \/ result'[c] = "unknown"
  BY DEF Do, Cancel, DoCheck, DoEnqueue, DoEnqueueRefused, DoAwait, Return, callerVars, TypeInv, TypeOK
<1>5. pc[c] \in {"start", "checked"} => c \notin Elems(durable) \cup Elems(tx)
  BY OnlyAccepted DEF CallersInv
<1>6. ASSUME c \notin Solo
      PROVE  /\ result'[c] = "ok" => c \in Elems(durable)
             /\ result'[c] \in Refusals => c \notin Elems(durable) \cup Elems(tx)
  <2>1. c \in Callers \ Solo
    BY <1>6
  <2>2. CASE result'[c] = result[c]
    BY <2>1, <2>2 DEF AnswersInv, SaidInv
  <2>3. CASE pc[c] \in {"start", "checked"} /\ result'[c] \in {"latched", "closing", "cancelled"}
    BY <1>5, <2>3
  <2>4. CASE c \in replied /\ result'[c] = IF err[c] = "nil" THEN "ok" ELSE err[c]
    <3>1. err[c] \in {"nil", "rejected", "latched", "unknown"}
      BY DEF TypeInv, TypeOK
    <3>2. QED
      BY <2>1, <2>4, <3>1 DEF AnswersInv, SaidInv, Refusals
  <2>5. CASE result'[c] = "unknown"
    BY <2>5 DEF Refusals
  <2>6. QED
    BY <1>4, <2>2, <2>3, <2>4, <2>5
<1>7. SaidInv'
  <2>1. ASSUME NEW d \in Callers \ Solo
        PROVE  /\ d \in replied' /\ err'[d] = "nil" => d \in Elems(durable')
               /\ err'[d] \in {"rejected", "latched"} => d \notin Elems(durable') \cup Elems(tx')
               /\ result'[d] = "ok" => d \in Elems(durable')
               /\ result'[d] \in Refusals => d \notin Elems(durable') \cup Elems(tx')
    BY <1>1, <1>3, <1>6 DEF AnswersInv, SaidInv
  <2>2. QED
    BY <2>1 DEF SaidInv
<1>8. QED
  BY <1>2, <1>7 DEF AnswersInv

\* A step that answers nobody and leaves the disk alone.
LEMMA SaidStill ==
    ASSUME SaidInv, UNCHANGED <<result, replied, err, durable>>, Elems(tx') \subseteq Elems(tx)
    PROVE  SaidInv'
<1>1. ASSUME NEW d \in Callers \ Solo
      PROVE  /\ d \in replied' /\ err'[d] = "nil" => d \in Elems(durable')
             /\ err'[d] \in {"rejected", "latched"} => d \notin Elems(durable') \cup Elems(tx')
             /\ result'[d] = "ok" => d \in Elems(durable')
             /\ result'[d] \in Refusals => d \notin Elems(durable') \cup Elems(tx')
  BY DEF SaidInv
<1>2. QED
  BY <1>1 DEF SaidInv

\* The request whose turn it is has been told nothing and has had no effect.
LEMMA TurnIsFresh ==
    ASSUME TypeInv, PipelineInv, CallersInv, FreshInv, OrderInv,
           phase = "applying", pos <= Len(batch)
    PROVE  /\ pos \in 1 .. Len(batch) /\ batch[pos] \in Callers \ Solo
           /\ Unanswered(batch[pos])
           /\ batch[pos] \notin Elems(durable) \cup Elems(tx)
           /\ result[batch[pos]] \in {"none", "unknown"}
<1>1. pos \in 1 .. Len(batch)
  BY Lengths
<1>2. /\ Base + pos \in 1 .. Len(accepted) /\ batch[pos] = accepted[Base + pos]
      /\ batch[pos] \in Callers \ Solo
  BY <1>1, TurnAt
<1>3. Front < Base + pos /\ Written < Base + pos /\ Front \in Nat /\ Written \in Nat /\ Base \in Nat
  BY <1>1, CursorsBy, Cursors, Lengths
<1>4. Unanswered(batch[pos])
  BY <1>2, <1>3 DEF FreshInv
<1>5. /\ accepted \in Seq(Callers) /\ durable \in Seq(Callers) /\ tx \in Seq(Callers)
      /\ Distinct(accepted)
  BY SeqTypes DEF CallersInv
<1>6. batch[pos] \notin Elems(durable)
  BY <1>2, <1>3, <1>5, NotWithin DEF OrderInv
<1>7. batch[pos] \notin Elems(tx)
  BY <1>2, <1>3, <1>5, NotWithin DEF OrderInv
<1>8. result[batch[pos]] \in {"none", "unknown"}
  BY <1>2, <1>4 DEF Unanswered, CallersInv
<1>9. QED
  BY <1>1, <1>2, <1>4, <1>6, <1>7, <1>8

\* A command applied behind its savepoint is told nothing; a rejected one has
\* had no effect and will have none.
LEMMA AnswersApply ==
    ASSUME TypeInv, PipelineInv, CallersInv, FreshInv, OrderInv, AnswersInv, Apply
    PROVE  AnswersInv'
<1>0. phase = "applying" /\ pos <= Len(batch) /\ UNCHANGED <<pc, result, batch, durable>>
  BY ApplyDoes
<1>1. /\ pos \in 1 .. Len(batch) /\ batch[pos] \in Callers \ Solo
      /\ Unanswered(batch[pos])
      /\ batch[pos] \notin Elems(durable) \cup Elems(tx)
      /\ result[batch[pos]] \in {"none", "unknown"}
  BY <1>0, TurnIsFresh
<1>2. ASSUME NEW m \in 1 .. Len(batch)
      PROVE  m < pos + 1 => m < pos \/ m = pos
  BY <1>1, Lengths
<1>3. CASE tx' = Append(tx, batch[pos]) /\ pos' = pos + 1 /\ phase' = "applying" /\ UNCHANGED <<err, replied>>
  <2>1. Elems(tx') = Elems(tx) \cup {batch[pos]}
    BY <1>1, <1>3, SeqTypes, AppendAt
  <2>2. ASSUME NEW d \in Callers \ Solo
        PROVE  /\ d \in replied' /\ err'[d] = "nil" => d \in Elems(durable')
               /\ err'[d] \in {"rejected", "latched"} => d \notin Elems(durable') \cup Elems(tx')
               /\ result'[d] = "ok" => d \in Elems(durable')
               /\ result'[d] \in Refusals => d \notin Elems(durable') \cup Elems(tx')
    BY <1>0, <1>1, <1>3, <2>1 DEF AnswersInv, SaidInv, Refusals, Unanswered
  <2>3. \A m \in 1 .. Len(batch') : m < pos' /\ err'[batch'[m]] = "nil" => batch'[m] \in Elems(tx')
    BY <1>0, <1>2, <1>3, <2>1 DEF AnswersInv, BatchInv
  <2>4. \A d \in Elems(tx') : Unanswered(d)'
    <3>1. \A d \in Elems(tx') : Unanswered(d)
      BY <1>0, <1>1, <2>1 DEF AnswersInv, BatchInv
    <3>2. QED
      BY <1>0, <1>3, <3>1 DEF Unanswered
  <2>5. QED
    BY <1>3, <2>2, <2>3, <2>4 DEF AnswersInv, SaidInv, BatchInv
<1>4. CASE /\ err' = [err EXCEPT ![batch[pos]] = "rejected"]
           /\ replied' = replied \cup {batch[pos]} /\ pos' = pos + 1
           /\ phase' = "applying" /\ UNCHANGED tx
  <2>1. /\ \A d \in Callers : d # batch[pos] => err'[d] = err[d]
        /\ err'[batch[pos]] = "rejected"
    BY <1>1, <1>4 DEF TypeInv, TypeOK
  <2>2. ASSUME NEW d \in Callers \ Solo
        PROVE  /\ d \in replied' /\ err'[d] = "nil" => d \in Elems(durable')
               /\ err'[d] \in {"rejected", "latched"} => d \notin Elems(durable') \cup Elems(tx')
               /\ result'[d] = "ok" => d \in Elems(durable')
               /\ result'[d] \in Refusals => d \notin Elems(durable') \cup Elems(tx')
    BY <1>0, <1>1, <1>4, <2>1 DEF AnswersInv, SaidInv
  <2>3. ASSUME NEW m \in 1 .. Len(batch), m < pos + 1, err'[batch[m]] = "nil"
        PROVE  batch[m] \in Elems(tx)
    <3>1. batch[m] \in Callers
      BY SeqTypes, ElemsAt
    <3>2. batch[m] # batch[pos] /\ m < pos /\ err[batch[m]] = "nil"
      BY <1>2, <2>1, <2>3, <3>1
    <3>3. QED
      BY <1>0, <3>2 DEF AnswersInv, BatchInv
  <2>4. \A d \in Elems(tx') : Unanswered(d)'
    <3>1. \A d \in Elems(tx) : Unanswered(d) /\ d # batch[pos] /\ d \in Callers
      BY <1>0, <1>1, SeqTypes, ElemsAt DEF AnswersInv, BatchInv
    <3>2. QED
      BY <1>0, <1>4, <2>1, <3>1 DEF Unanswered
  <2>5. QED
    BY <1>0, <1>4, <2>2, <2>3, <2>4 DEF AnswersInv, SaidInv, BatchInv
<1>5. CASE phase' = "failing" /\ failWith' = "unknown" /\ tx' = <<>> /\ UNCHANGED <<err, replied>>
  <2>1. Elems(tx') = {}
    BY <1>5, SeqTypes, InOrderEmpty
  <2>2. SaidInv'
    BY <1>0, <1>5, <2>1, SaidStill DEF AnswersInv
  <2>3. QED
    BY <1>5, <2>2 DEF AnswersInv, BatchInv
<1>6. QED
  BY <1>3, <1>4, <1>5, ApplyDoes

\* After the commit the batch may be told of it.
LEMMA AnswersCommit ==
    ASSUME TypeInv, PipelineInv, CallersInv, OrderInv, AnswersInv, Commit
    PROVE  AnswersInv'
<1>0. /\ phase = "applying" /\ pos > Len(batch)
      /\ UNCHANGED <<pc, result, batch, err, replied>>
  BY CommitDoes
<1>1. Elems(durable \o tx) = Elems(durable) \cup Elems(tx) /\ Elems(<<>>) = {}
  BY SeqTypes, ConcatAt, InOrderEmpty
<1>2. Elems(durable) \subseteq Elems(durable') /\ Elems(durable') \cup Elems(tx') \subseteq Elems(durable) \cup Elems(tx)
  <2>1. durable' = durable \/ durable' = durable \o tx
    BY CommitDoes
  <2>2. tx' = tx \/ tx' = <<>>
    BY CommitDoes
  <2>3. QED
    BY <1>1, <2>1, <2>2
<1>3. ASSUME NEW d \in Callers \ Solo
      PROVE  /\ d \in replied' /\ err'[d] = "nil" => d \in Elems(durable')
             /\ err'[d] \in {"rejected", "latched"} => d \notin Elems(durable') \cup Elems(tx')
             /\ result'[d] = "ok" => d \in Elems(durable')
             /\ result'[d] \in Refusals => d \notin Elems(durable') \cup Elems(tx')
  BY <1>0, <1>2 DEF AnswersInv, SaidInv
<1>4. CASE durable' = durable \o tx /\ phase' = "replying"
  <2>1. ASSUME NEW m \in 1 .. Len(batch), err[batch[m]] = "nil"
        PROVE  batch[m] \in Elems(durable')
    <3>1. m < pos
      BY <1>0, Lengths
    <3>2. QED
      BY <1>0, <1>1, <1>4, <2>1, <3>1 DEF AnswersInv, BatchInv
  <2>2. QED
    BY <1>0, <1>3, <1>4, <2>1 DEF AnswersInv, SaidInv, BatchInv
<1>5. CASE phase' = "failing" /\ failWith' = "unknown"
  BY <1>3, <1>5 DEF AnswersInv, SaidInv, BatchInv
<1>6. QED
  BY <1>4, <1>5, CommitDoes

\* Every step of the writer says only what is true.
LEMMA AnswersRun ==
    ASSUME TypeInv, PipelineInv, CallersInv, FreshInv, OrderInv, AnswersInv, Run
    PROVE  AnswersInv'
<1>1. CASE RunSolo
  <2>1. /\ phase = "idle" /\ phase' = "idle" /\ UNCHANGED <<result, durable, tx>>
        /\ First \in Solo /\ First \in Callers
        /\ \E e \in {"nil", "rejected"} : err' = [err EXCEPT ![First] = e]
        /\ replied' = replied \cup {First}
    BY <1>1, TakeFirstType DEF RunSolo, callerVars, TypeInv
  <2>2. \A d \in Callers \ Solo : err'[d] = err[d] /\ (d \in replied' <=> d \in replied)
    BY <2>1 DEF TypeInv, TypeOK
  <2>3. ASSUME NEW d \in Callers \ Solo
        PROVE  /\ d \in replied' /\ err'[d] = "nil" => d \in Elems(durable')
               /\ err'[d] \in {"rejected", "latched"} => d \notin Elems(durable') \cup Elems(tx')
               /\ result'[d] = "ok" => d \in Elems(durable')
               /\ result'[d] \in Refusals => d \notin Elems(durable') \cup Elems(tx')
    BY <2>1, <2>2 DEF AnswersInv, SaidInv
  <2>4. QED
    BY <2>1, <2>3 DEF AnswersInv, SaidInv, BatchInv
<1>2. CASE OpenBatch \/ Fill \/ CloseBatch \/ Exit \/ Crash
  <2>1. /\ phase' \notin {"applying", "replying", "failing"}
        /\ UNCHANGED <<result, replied, err, durable, tx>>
    BY <1>2 DEF OpenBatch, Fill, CloseBatch, Exit, Crash, callerVars
  <2>2. SaidInv'
    BY <2>1, SaidStill DEF AnswersInv
  <2>3. QED
    BY <2>1, <2>2 DEF AnswersInv, BatchInv
<1>3. CASE Emit
  <2>1. phase' = "idle" /\ UNCHANGED <<result, replied, err, durable>> /\ tx' = <<>>
    BY <1>3 DEF Emit, callerVars
  <2>2. Elems(tx') = {}
    BY <2>1, SeqTypes, InOrderEmpty
  <2>3. SaidInv'
    BY <2>1, <2>2, SaidStill DEF AnswersInv
  <2>4. QED
    BY <2>1, <2>3 DEF AnswersInv, BatchInv
<1>4. CASE Begin
  <2>1. /\ phase = "begin" /\ pos' = 1 /\ UNCHANGED <<result, replied, err, durable, batch>>
        /\ (tx' = tx \/ tx' = <<>>) /\ phase' \in {"applying", "failing"}
        /\ phase' = "applying" => tx' = <<>>
    BY <1>4, BeginDoes
  <2>2. Elems(<<>>) = {}
    BY SeqTypes, InOrderEmpty
  <2>3. SaidInv'
    BY <2>1, <2>2, SaidStill DEF AnswersInv
  <2>4. ASSUME NEW m \in 1 .. Len(batch) PROVE batch[m] \notin Elems(durable)
    <3>1. Base + m \in 1 .. Len(accepted) /\ batch[m] = accepted[Base + m]
      BY TurnAt
    <3>2. Written < Base + m /\ Written \in Nat
      BY <2>1, CursorsBy, Cursors
    <3>3. /\ accepted \in Seq(Callers) /\ durable \in Seq(Callers) /\ Distinct(accepted)
          /\ Within(durable, accepted, 0, Written)
      BY SeqTypes DEF CallersInv, OrderInv
    <3>4. QED
      BY <3>1, <3>2, <3>3, NotWithin
  <2>5. \A m \in 1 .. Len(batch) : ~(m < 1)
    BY Lengths
  <2>6. QED
    BY <2>1, <2>2, <2>3, <2>4, <2>5 DEF AnswersInv, BatchInv
<1>5. CASE Reply
  <2>1. /\ phase = "replying" /\ phase' \in {"replying", "emitting"}
        /\ UNCHANGED <<result, err, durable, tx, batch>>
        /\ \/ replied' = replied
           \/ pos <= Len(batch) /\ replied' = replied \cup {batch[pos]} /\ err[batch[pos]] = "nil"
    BY <1>5 DEF Reply, callerVars
  <2>2. pos <= Len(batch) /\ err[batch[pos]] = "nil" => batch[pos] \in Elems(durable)
    <3>1. pos <= Len(batch) => pos \in 1 .. Len(batch)
      BY Lengths
    <3>2. QED
      BY <2>1, <3>1 DEF AnswersInv, BatchInv
  <2>3. ASSUME NEW d \in Callers \ Solo
        PROVE  /\ d \in replied' /\ err'[d] = "nil" => d \in Elems(durable')
               /\ err'[d] \in {"rejected", "latched"} => d \notin Elems(durable') \cup Elems(tx')
               /\ result'[d] = "ok" => d \in Elems(durable')
               /\ result'[d] \in Refusals => d \notin Elems(durable') \cup Elems(tx')
    BY <2>1, <2>2 DEF AnswersInv, SaidInv
  <2>4. QED
    BY <2>1, <2>3 DEF AnswersInv, SaidInv, BatchInv
<1>6. CASE Fail /\ pos <= Len(batch)
  <2>1. /\ phase = "failing" /\ phase' \in {"failing", "crashing"}
        /\ UNCHANGED <<result, durable, tx, batch, failWith>>
        /\ err' = [err EXCEPT ![batch[pos]] = failWith] /\ replied' = replied \cup {batch[pos]}
    <3>1. ~(pos > Len(batch))
      BY <1>6, Lengths
    <3>2. /\ phase = "failing" /\ (phase' = "crashing" \/ phase' = phase)
          /\ UNCHANGED <<result, durable, tx, batch, failWith>>
          /\ err' = [err EXCEPT ![batch[pos]] = failWith] /\ replied' = replied \cup {batch[pos]}
      BY <1>6, <3>1, Zenon DEF Fail, callerVars
    <3>3. QED
      BY <3>2, Zenon
  <2>2. pos \in 1 .. Len(batch) /\ batch[pos] \in Callers /\ failWith \in {"latched", "unknown"}
    <3>1. pos \in 1 .. Len(batch)
      BY <1>6, Lengths
    <3>2. QED
      BY <2>1, <3>1, SeqTypes, ElemsAt DEF TypeInv, FailureNamed
  <2>3. /\ \A d \in Callers : d # batch[pos] => err'[d] = err[d]
        /\ err'[batch[pos]] = failWith
    BY <2>1, <2>2 DEF TypeInv, TypeOK
  <2>4. failWith = "latched" => batch[pos] \notin Elems(durable) \cup Elems(tx)
    <3>1. Elems(tx) = {}
      BY <2>1, SeqTypes, InOrderEmpty DEF OrderInv
    <3>2. QED
      BY <2>1, <2>2, <3>1 DEF AnswersInv, BatchInv
  <2>5. ASSUME NEW d \in Callers \ Solo
        PROVE  /\ d \in replied' /\ err'[d] = "nil" => d \in Elems(durable')
               /\ err'[d] \in {"rejected", "latched"} => d \notin Elems(durable') \cup Elems(tx')
               /\ result'[d] = "ok" => d \in Elems(durable')
               /\ result'[d] \in Refusals => d \notin Elems(durable') \cup Elems(tx')
    <3>1. CASE d = batch[pos]
      BY <2>1, <2>2, <2>3, <2>4, <3>1 DEF AnswersInv, SaidInv
    <3>2. CASE d # batch[pos]
      BY <2>1, <2>3, <3>2 DEF AnswersInv, SaidInv
    <3>3. QED
      BY <3>1, <3>2
  <2>6. QED
    BY <2>1, <2>5 DEF AnswersInv, SaidInv, BatchInv
<1>7. CASE Fail /\ ~(pos <= Len(batch))
  <2>1. phase' = "idle" /\ UNCHANGED <<result, replied, err, durable, tx>>
    BY <1>7 DEF Fail, callerVars
  <2>2. SaidInv'
    BY <2>1, SaidStill DEF AnswersInv
  <2>3. QED
    BY <2>1, <2>2 DEF AnswersInv, BatchInv
<1>8. QED
  BY <1>1, <1>2, <1>3, <1>4, <1>5, <1>6, <1>7, AnswersApply, AnswersCommit DEF Run

-----------------------------------------------------------------------------
(* The events.                                                               *)

\* The batches of events ev, behind what is told already, tell of requests on
\* the disk, each batch in order and behind the batches before it.
Told(told, ev) ==
    /\ InOrderOf(told, accepted) /\ Elems(told) \subseteq Elems(durable)
    /\ \A k \in 1 .. Len(ev) :
         /\ InOrderOf(ev[k], accepted) /\ Elems(ev[k]) \subseteq Elems(durable)
         /\ AllBefore(told, ev[k], accepted)
         /\ \A l \in 1 .. Len(ev) : k < l => AllBefore(ev[k], ev[l], accepted)

\* Told, to be told, and in the batch that is told next: in this order.
EventsInv ==
    /\ Told(published, events)
    /\ phase \in {"replying", "emitting"} =>
         /\ AllBefore(published, tx, accepted)
         /\ \A k \in 1 .. Len(events) : AllBefore(events[k], tx, accepted)

\* The disk only grows and the accepted requests stay.
LEMMA ToldStill ==
    ASSUME Told(published, events), UNCHANGED <<accepted, published, events>>,
           Elems(durable) \subseteq Elems(durable')
    PROVE  Told(published, events)'
  BY DEF Told

\* A new request disturbs no event.
LEMMA EventsEnqueue ==
    ASSUME TypeInv, CallersInv, OrderInv, EventsInv, NEW c \in Callers, DoEnqueue(c)
    PROVE  EventsInv'
<1>1. /\ accepted' = Append(accepted, c) /\ c \notin Elems(accepted)
      /\ UNCHANGED <<durable, tx, phase, events, published>>
  BY DEF DoEnqueue, runVars, closeVars, CallersInv
<1>2. /\ accepted \in Seq(Callers) /\ published \in Seq(Callers) /\ tx \in Seq(Callers)
      /\ \A k \in 1 .. Len(events) : events[k] \in Seq(Callers)
  BY SeqTypes
<1>3. Elems(durable) \subseteq Elems(accepted) /\ Elems(tx) \subseteq Elems(accepted)
  BY OnlyAccepted
<1>4. Elems(published) \subseteq Elems(accepted)
  BY <1>3 DEF EventsInv, Told
<1>5. \A k \in 1 .. Len(events) : Elems(events[k]) \subseteq Elems(accepted)
  BY <1>3 DEF EventsInv, Told
<1>6. InOrderOf(published, accepted')
  BY <1>1, <1>2, InOrderGrows DEF EventsInv, Told
<1>7. ASSUME NEW k \in 1 .. Len(events)
      PROVE  /\ InOrderOf(events[k], accepted') /\ AllBefore(published, events[k], accepted')
             /\ \A l \in 1 .. Len(events) : k < l => AllBefore(events[k], events[l], accepted')
  <2>1. InOrderOf(events[k], accepted')
    BY <1>1, <1>2, InOrderGrows DEF EventsInv, Told
  <2>2. AllBefore(published, events[k], accepted')
    BY <1>1, <1>2, <1>4, <1>5, BeforeGrows DEF EventsInv, Told
  <2>3. ASSUME NEW l \in 1 .. Len(events), k < l PROVE AllBefore(events[k], events[l], accepted')
    BY <1>1, <1>2, <1>5, <2>3, BeforeGrows DEF EventsInv, Told
  <2>4. QED
    BY <2>1, <2>2, <2>3
<1>8. ASSUME phase \in {"replying", "emitting"}
      PROVE  /\ AllBefore(published, tx, accepted')
             /\ \A k \in 1 .. Len(events) : AllBefore(events[k], tx, accepted')
  BY <1>1, <1>2, <1>3, <1>4, <1>5, <1>8, BeforeGrows DEF EventsInv
<1>9. QED
  BY <1>1, <1>6, <1>7, <1>8 DEF EventsInv, Told

\* A step that neither commits nor moves events.
LEMMA EventsFrame ==
    ASSUME EventsInv, UNCHANGED <<accepted, published, events, durable>>,
           phase' \in {"replying", "emitting"} => phase \in {"replying", "emitting"} /\ tx' = tx
    PROVE  EventsInv'
<1>1. Told(published, events)'
  BY ToldStill DEF EventsInv
<1>2. QED
  BY <1>1 DEF EventsInv

\* What is told of is on the disk, and so stands before the open batch.
LEMMA EventsCommit ==
    ASSUME TypeInv, PipelineInv, CallersInv, OrderInv, EventsInv, Commit
    PROVE  EventsInv'
<1>0. /\ phase = "applying" /\ UNCHANGED <<accepted, published, events>>
      /\ (durable' = durable \/ durable' = durable \o tx)
      /\ (phase' = "replying" /\ tx' = tx) \/ phase' = "failing"
  BY CommitDoes
<1>1. /\ accepted \in Seq(Callers) /\ durable \in Seq(Callers) /\ tx \in Seq(Callers)
      /\ published \in Seq(Callers) /\ Distinct(accepted)
      /\ \A k \in 1 .. Len(events) : events[k] \in Seq(Callers)
  BY SeqTypes DEF CallersInv
<1>2. Elems(durable) \subseteq Elems(durable')
  <2>1. Elems(durable \o tx) = Elems(durable) \cup Elems(tx)
    BY <1>1, ConcatAt
  <2>2. QED
    BY <1>0, <2>1
<1>3. Told(published, events)'
  BY <1>0, <1>2, ToldStill DEF EventsInv
<1>4. Within(tx, accepted, Base, Front) /\ Within(durable, accepted, 0, Base) /\ Base \in Int
  BY <1>0, CursorsBy, Lengths DEF OrderInv
<1>5. ASSUME NEW s \in Seq(Callers), Elems(s) \subseteq Elems(durable)
      PROVE  AllBefore(s, tx, accepted)
  <2>1. ASSUME NEW i \in 1 .. Len(s)
        PROVE  \E m \in 1 .. Len(accepted) : m <= Base /\ s[i] = accepted[m]
    <3>1. PICK j \in 1 .. Len(durable) : s[i] = durable[j]
      <4>1. s[i] \in Elems(durable) /\ Elems(durable) = {durable[j] : j \in 1 .. Len(durable)}
        BY <1>1, <1>5, ElemsAt
      <4>2. QED
        BY <4>1
    <3>2. QED
      BY <1>4, <3>1 DEF Within
  <2>2. \A j \in 1 .. Len(tx) : \E n \in 1 .. Len(accepted) : Base < n /\ tx[j] = accepted[n]
    BY <1>4 DEF Within
  <2>3. QED
    BY <1>1, <1>4, <2>1, <2>2, BeforeCut, Zenon
<1>6. AllBefore(published, tx, accepted)
  BY <1>1, <1>5 DEF EventsInv, Told
<1>7. \A k \in 1 .. Len(events) : AllBefore(events[k], tx, accepted)
  BY <1>1, <1>5 DEF EventsInv, Told
<1>8. QED
  BY <1>0, <1>3, <1>6, <1>7 DEF EventsInv

\* The batch's events go behind those that wait, or are dropped.
LEMMA EventsEmit ==
    ASSUME TypeInv, OrderInv, EventsInv, Emit
    PROVE  EventsInv'
<1>0. /\ phase = "emitting" /\ phase' = "idle" /\ UNCHANGED <<accepted, published, durable>>
      /\ events' = events \/ events' = Append(events, tx)
  BY DEF Emit
<1>1. CASE events' = events
  BY <1>0, <1>1, EventsFrame
<1>2. CASE events' = Append(events, tx)
  <2>1. events \in Seq(Seq(Callers \ Solo)) /\ tx \in Seq(Callers \ Solo)
    BY SeqTypes
  <2>2. /\ Len(events') = Len(events) + 1 /\ events'[Len(events) + 1] = tx
        /\ \A k \in 1 .. Len(events) : events'[k] = events[k]
        /\ Len(events) \in Nat
    BY <1>2, <2>1, AppendAt
  <2>3. \A k \in 1 .. Len(events') : k \in 1 .. Len(events) \/ k = Len(events) + 1
    BY <2>2
  <2>4. /\ InOrderOf(tx, accepted) /\ Elems(tx) \subseteq Elems(durable)
        /\ AllBefore(published, tx, accepted)
        /\ \A k \in 1 .. Len(events) : AllBefore(events[k], tx, accepted)
    BY <1>0 DEF OrderInv, EventsInv
  <2>5. ASSUME NEW k \in 1 .. Len(events')
        PROVE  /\ InOrderOf(events'[k], accepted) /\ Elems(events'[k]) \subseteq Elems(durable)
               /\ AllBefore(published, events'[k], accepted)
               /\ \A l \in 1 .. Len(events') : k < l => AllBefore(events'[k], events'[l], accepted)
    <3>1. CASE k = Len(events) + 1
      <4>1. \A l \in 1 .. Len(events') : ~(k < l)
        BY <2>2, <3>1
      <4>2. QED
        BY <2>2, <2>4, <3>1, <4>1
    <3>2. CASE k \in 1 .. Len(events)
      <4>1. /\ events'[k] = events[k]
            /\ InOrderOf(events[k], accepted) /\ Elems(events[k]) \subseteq Elems(durable)
            /\ AllBefore(published, events[k], accepted)
        BY <2>2, <3>2 DEF EventsInv, Told
      <4>2. ASSUME NEW l \in 1 .. Len(events'), k < l
            PROVE  AllBefore(events[k], events'[l], accepted)
        <5>1. CASE l = Len(events) + 1
          BY <2>2, <2>4, <3>2, <5>1
        <5>2. CASE l \in 1 .. Len(events)
          BY <2>2, <3>2, <4>2, <5>2 DEF EventsInv, Told
        <5>3. QED
          BY <2>3, <5>1, <5>2
      <4>3. QED
        BY <4>1, <4>2
    <3>3. QED
      BY <2>3, <3>1, <3>2
  <2>6. Told(published, events)'
    BY <1>0, <2>5 DEF EventsInv, Told
  <2>7. QED
    BY <1>0, <2>6 DEF EventsInv
<1>3. QED
  BY <1>0, <1>1, <1>2

\* The oldest batch of events is told next.
LEMMA EventsPump ==
    ASSUME TypeInv, EventsInv, Pump
    PROVE  EventsInv'
<1>0. /\ UNCHANGED <<accepted, durable, phase, tx>>
      /\ \/ events # <<>> /\ published' = published \o Head(events) /\ events' = Tail(events)
         \/ UNCHANGED <<events, published>>
  BY Zenon DEF Pump, runVars
<1>1. CASE UNCHANGED <<events, published>>
  BY <1>0, <1>1, EventsFrame
<1>2. CASE events # <<>> /\ published' = published \o Head(events) /\ events' = Tail(events)
  <2>1. /\ events \in Seq(Seq(Callers \ Solo)) /\ published \in Seq(Callers)
        /\ accepted \in Seq(Callers)
        /\ \A k \in 1 .. Len(events) : events[k] \in Seq(Callers)
    BY SeqTypes
  <2>2. /\ Head(events) = events[1] /\ 1 \in 1 .. Len(events)
        /\ Len(events') = Len(events) - 1 /\ Len(events) \in Nat
        /\ \A k \in 1 .. Len(events) - 1 : events'[k] = events[k + 1]
    BY <1>2, <2>1, TailAt
  <2>3. published' = published \o events[1] /\ events[1] \in Seq(Callers)
    BY <1>2, <2>1, <2>2
  <2>4. \A k \in 1 .. Len(events') :
          k + 1 \in 1 .. Len(events) /\ events'[k] = events[k + 1] /\ 1 < k + 1
    BY <2>2
  <2>5. /\ InOrderOf(published, accepted) /\ Elems(published) \subseteq Elems(durable)
        /\ InOrderOf(events[1], accepted) /\ Elems(events[1]) \subseteq Elems(durable)
        /\ AllBefore(published, events[1], accepted)
    BY <2>2 DEF EventsInv, Told
  <2>6. InOrderOf(published', accepted)
    BY <2>1, <2>3, <2>5, InOrderConcat
  <2>7. Elems(published') \subseteq Elems(durable)
    BY <2>1, <2>3, <2>5, ConcatAt
  <2>8. ASSUME NEW k \in 1 .. Len(events')
        PROVE  /\ InOrderOf(events'[k], accepted) /\ Elems(events'[k]) \subseteq Elems(durable)
               /\ AllBefore(published', events'[k], accepted)
               /\ \A l \in 1 .. Len(events') : k < l => AllBefore(events'[k], events'[l], accepted)
    <3>1. k + 1 \in 1 .. Len(events) /\ events'[k] = events[k + 1] /\ 1 < k + 1
      BY <2>4
    <3>2. /\ InOrderOf(events[k + 1], accepted) /\ Elems(events[k + 1]) \subseteq Elems(durable)
          /\ AllBefore(published, events[k + 1], accepted)
          /\ AllBefore(events[1], events[k + 1], accepted)
      BY <2>2, <3>1 DEF EventsInv, Told
    <3>3. AllBefore(published', events[k + 1], accepted)
      BY <2>1, <2>3, <3>2, BeforeConcat
    <3>4. ASSUME NEW l \in 1 .. Len(events'), k < l
          PROVE  AllBefore(events[k + 1], events[l + 1], accepted)
      <4>1. k + 1 < l + 1 /\ l + 1 \in 1 .. Len(events)
        BY <2>2, <2>4, <3>4
      <4>2. QED
        BY <3>1, <4>1 DEF EventsInv, Told
    <3>5. QED
      BY <2>4, <3>1, <3>2, <3>3, <3>4
  <2>9. Told(published, events)'
    BY <1>0, <2>6, <2>7, <2>8 DEF Told
  <2>10. ASSUME phase \in {"replying", "emitting"}
         PROVE  /\ AllBefore(published', tx, accepted)
                /\ \A k \in 1 .. Len(events') : AllBefore(events'[k], tx, accepted)
    <3>1. AllBefore(published, tx, accepted) /\ AllBefore(events[1], tx, accepted)
      BY <2>2, <2>10 DEF EventsInv
    <3>2. AllBefore(published', tx, accepted)
      BY <2>1, <2>3, <3>1, BeforeConcat
    <3>3. QED
      BY <2>4, <2>10, <3>2 DEF EventsInv
  <2>11. QED
    BY <1>0, <2>9, <2>10 DEF EventsInv
<1>3. QED
  BY <1>0, <1>1, <1>2

-----------------------------------------------------------------------------
(* The invariant and the theorems.                                           *)

IInv == TypeInv /\ PipelineInv /\ CallersInv /\ FreshInv /\ OrderInv /\ AnswersInv /\ EventsInv

\* The invariant holds at the start.
LEMMA IInvInit == Init => IInv
<1> SUFFICES ASSUME Init PROVE IInv
  OBVIOUS
<1>1. TypeInv /\ PipelineInv
  BY TypeInit, PipelineInit
<1>2. /\ accepted = <<>> /\ durable = <<>> /\ tx = <<>> /\ published = <<>> /\ events = <<>>
      /\ batch = <<>> /\ phase = "idle"
      /\ Len(accepted) = 0 /\ Len(durable) = 0 /\ Len(tx) = 0 /\ Len(published) = 0
      /\ Len(events) = 0 /\ Len(batch) = 0 /\ 1 .. 0 = {}
  BY DEF Init
<1>3. /\ InOrderOf(<<>>, accepted) /\ Elems(<<>>) = {}
  BY <1>1, SeqTypes, InOrderEmpty
<1>4. CallersInv
  <2>1. Distinct(accepted)
    BY <1>2 DEF Distinct
  <2>2. QED
    BY <1>2, <1>3, <2>1 DEF CallersInv, Init
<1>5. FreshInv
  BY <1>2 DEF FreshInv
<1>6. OrderInv
  BY <1>2, <1>3 DEF OrderInv, Within
<1>7. AnswersInv
  <2>1. \A c \in Callers : c \notin replied /\ err[c] = "nil" /\ result[c] = "none"
    BY DEF Init
  <2>2. QED
    BY <1>2, <2>1 DEF AnswersInv, SaidInv, BatchInv, Refusals
<1>8. EventsInv
  BY <1>2, <1>3 DEF EventsInv, Told
<1>9. QED
  BY <1>1, <1>4, <1>5, <1>6, <1>7, <1>8 DEF IInv

\* Steps that leave the requests, the batch and the disk alone.
LEMMA IInvStill ==
    ASSUME IInv, TypeInv', UNCHANGED <<pc, result, queue, held, batch, phase, pos, tx, err,
                             failWith, replied, durable, accepted>>
    PROVE  PipelineInv' /\ CallersInv' /\ FreshInv' /\ OrderInv' /\ AnswersInv'
<1>1. PipelineInv' /\ Base' = Base
  BY PipelineStill DEF IInv, PipelineInv
<1>2. Front' = Front /\ Written' = Written
  BY <1>1 DEF Front, Written, Over
<1>3. CallersInv'
  BY CallersStill DEF IInv
<1>4. FreshInv'
  BY <1>2, FreshStill, Cursors DEF IInv
<1>5. OrderInv'
  BY <1>1, <1>2, OrderFrame DEF IInv
<1>6. AnswersInv'
  <2>1. \A d : Unanswered(d) => Unanswered(d)'
    BY DEF Unanswered
  <2>2. BatchInv'
    BY <2>1 DEF IInv, AnswersInv, BatchInv
  <2>3. QED
    BY <2>2, SaidStill DEF IInv, AnswersInv
<1>7. QED
  BY <1>1, <1>3, <1>4, <1>5, <1>6

\* Callers keep the invariant.
LEMMA IInvDo ==
    ASSUME IInv, NEW c \in Callers, Do(c) \/ Cancel(c)
    PROVE  IInv'
<1>0. TypeInv'
  BY TypeDo DEF IInv
<1>1. PipelineInv'
  <2>1. CASE DoEnqueue(c)
    BY <2>1, PipelineEnqueue DEF IInv
  <2>2. CASE DoCheck(c) \/ DoEnqueueRefused(c) \/ DoAwait(c) \/ Cancel(c)
    <3>1. UNCHANGED <<accepted, queue, held, batch, phase, pos>>
      BY <2>2 DEF DoCheck, DoEnqueueRefused, DoAwait, Cancel, runVars
    <3>2. QED
      BY <3>1, PipelineStill DEF IInv, PipelineInv
  <2>3. QED
    BY <2>1, <2>2 DEF Do
<1>2. CallersInv' /\ FreshInv' /\ AnswersInv'
  BY CallersDo, FreshDo, AnswersDo DEF IInv
<1>3. OrderInv' /\ EventsInv'
  <2>1. CASE DoEnqueue(c)
    BY <2>1, OrderEnqueue, EventsEnqueue DEF IInv
  <2>2. CASE DoCheck(c) \/ DoEnqueueRefused(c) \/ DoAwait(c) \/ Cancel(c)
    <3>1. UNCHANGED <<accepted, phase, tx, durable, events, published>>
      BY <2>2 DEF DoCheck, DoEnqueueRefused, DoAwait, Cancel, runVars, closeVars
    <3>2. Base' = Base /\ Front' = Front /\ Written' = Written
      BY FreshDo DEF IInv
    <3>3. QED
      BY <3>1, <3>2, OrderFrame, EventsFrame DEF IInv
  <2>3. QED
    BY <2>1, <2>2 DEF Do
<1>4. QED
  BY <1>0, <1>1, <1>2, <1>3 DEF IInv

\* The writer goroutine keeps the invariant.
LEMMA IInvRun ==
    ASSUME IInv, Run
    PROVE  IInv'
<1>1. TypeInv' /\ PipelineInv' /\ accepted' = accepted
  BY TypeRun, RunAdvances DEF IInv, Advances
<1>2. CallersInv' /\ FreshInv' /\ OrderInv' /\ AnswersInv'
  BY CallersRun, FreshRun, OrderRun, AnswersRun DEF IInv
<1>3. EventsInv'
  <2>1. CASE Commit
    BY <2>1, EventsCommit DEF IInv
  <2>2. CASE Emit
    BY <2>2, EventsEmit DEF IInv
  <2>3. CASE RunSolo \/ OpenBatch \/ Fill \/ CloseBatch \/ Reply \/ Fail \/ Crash \/ Exit
    <3>1. /\ UNCHANGED <<published, events, durable, tx>>
          /\ phase' \in {"replying", "emitting"} => phase \in {"replying", "emitting"}
      BY <2>3 DEF RunSolo, OpenBatch, Fill, CloseBatch, Reply, Fail, Crash, Exit, closeVars
    <3>2. QED
      BY <1>1, <3>1, EventsFrame DEF IInv
  <2>4. CASE Begin
    BY <1>1, <2>4, BeginDoes, EventsFrame DEF IInv
  <2>5. CASE Apply
    BY <1>1, <2>5, ApplyDoes, EventsFrame DEF IInv
  <2>6. QED
    BY <2>1, <2>2, <2>3, <2>4, <2>5 DEF Run
<1>4. QED
  BY <1>1, <1>2, <1>3 DEF IInv

\* Every step keeps the invariant.
LEMMA IInvNext ==
    ASSUME IInv, [Next]_vars
    PROVE  IInv'
<1>0. TypeInv'
  BY TypeNext DEF IInv
<1>1. CASE CloseBegin \/ CloseStep
  <2>1. UNCHANGED <<pc, result, queue, held, batch, phase, pos, tx, err, failWith, replied,
                    durable, accepted, events, published>>
    BY <1>1 DEF CloseBegin, CloseStep, callerVars, runVars
  <2>2. QED
    BY <1>0, <2>1, IInvStill, EventsFrame DEF IInv
<1>2. CASE Pump
  <2>1. UNCHANGED <<pc, result, queue, held, batch, phase, pos, tx, err, failWith, replied,
                    durable, accepted>>
    BY <1>2 DEF Pump, callerVars, runVars
  <2>2. QED
    BY <1>0, <1>2, <2>1, IInvStill, EventsPump DEF IInv
<1>3. CASE UNCHANGED vars
  <2>1. UNCHANGED <<pc, result, queue, held, batch, phase, pos, tx, err, failWith, replied,
                    durable, accepted, events, published>>
    BY <1>3 DEF vars
  <2>2. QED
    BY <1>0, <2>1, IInvStill, EventsFrame DEF IInv
<1>4. QED
  BY <1>1, <1>2, <1>3, IInvDo, IInvRun DEF Next

\* The whole of the invariant holds in every reachable state.
THEOREM InductiveInvariant == Spec => []IInv
<1>1. IInv /\ [Next]_vars => IInv'
  BY IInvNext
<1>2. QED
  BY <1>1, IInvInit, PTL DEF Spec

\* Every variable of the writer keeps its type: the channels stay within their
\* depths, a batch within MaxBatch, and no checkpoint or vacuum enters one.
THEOREM TypeCorrect == Spec => []TypeOK
<1>1. IInv => TypeOK
  BY DEF IInv, TypeInv
<1>2. QED
  BY <1>1, InductiveInvariant, PTL

\* What Do returned is true of the disk for ever: nil only for a committed
\* command, a refusal only for one that is not and never will be.
THEOREM AnswersAreTrueOfTheDisk == Spec => []RepliesAreTrue
<1>1. IInv => RepliesAreTrue
  BY DEF IInv, AnswersInv, SaidInv, Refusals, RepliesAreTrue
<1>2. QED
  BY <1>1, InductiveInvariant, PTL

\* Commands become durable in the order the channel accepted them, none twice.
THEOREM CommitsInAcceptOrder == Spec => []CommitOrderIsAcceptOrder
<1>1. IInv => CommitOrderIsAcceptOrder
  BY DEF IInv, OrderInv, CommitOrderIsAcceptOrder
<1>2. QED
  BY <1>1, InductiveInvariant, PTL

\* Events tell of committed commands only, in commit order, each at most once.
THEOREM EventsInCommitOrder == Spec => []EventsFollowCommits
<1>1. IInv => EventsFollowCommits
  <2> SUFFICES ASSUME IInv PROVE EventsFollowCommits
    OBVIOUS
  <2>1. accepted \in Seq(Callers) /\ durable \in Seq(Callers) /\ published \in Seq(Callers)
    BY SeqTypes DEF IInv
  <2>2. /\ InOrderOf(durable, accepted) /\ InOrderOf(published, accepted)
        /\ Elems(published) \subseteq Elems(durable)
    BY DEF IInv, OrderInv, EventsInv, Told
  <2>3. QED
    BY <2>1, <2>2, InOrderAmong DEF EventsFollowCommits
<1>2. QED
  BY <1>1, InductiveInvariant, PTL

-----------------------------------------------------------------------------
(* Refinement.                                                               *)

\* The mapped answers, as a function.
Answers == [c \in Callers \ Solo |-> AbstractAnswer(c)]

\* A command is in the mapped log when it is on the disk.
LEMMA InLogIff ==
    ASSUME NEW c
    PROVE  Abstract!InLog(c) <=> c \in Elems(durable)
  BY DEF Abstract!InLog, Elems

\* Only the caller that takes a step changes its answer.
LEMMA AnswersExcept ==
    ASSUME NEW c \in Callers \ Solo,
           \A d \in Callers \ Solo : d # c => pc'[d] = pc[d] /\ result'[d] = result[d]
    PROVE  Answers' = [Answers EXCEPT ![c] = AbstractAnswer(c)']
<1>1. \A d \in Callers \ Solo : d # c => AbstractAnswer(d)' = AbstractAnswer(d)
  BY DEF AbstractAnswer
<1>2. QED
  BY <1>1 DEF Answers

\* When nobody moves no answer changes.
LEMMA AnswersSame ==
    ASSUME \A d \in Callers \ Solo : pc'[d] = pc[d] /\ result'[d] = result[d]
    PROVE  Answers' = Answers
<1>1. \A d \in Callers \ Solo : AbstractAnswer(d)' = AbstractAnswer(d)
  BY DEF AbstractAnswer
<1>2. QED
  BY <1>1 DEF Answers

\* The initial state is that of the abstract log.
LEMMA RefineInit == Init => Abstract!Init
<1>1. Init => \A c \in Callers \ Solo : AbstractAnswer(c) = "idle"
  BY DEF Init, AbstractAnswer
<1>2. QED
  BY <1>1 DEF Init, Abstract!Init

\* A submission: accepted, or refused before it could have any effect.
LEMMA RefineSubmit ==
    ASSUME NEW c \in Callers \ Solo, durable' = durable,
           AbstractAnswer(c) = "idle", AbstractAnswer(c)' \in {"pending", "refused"},
           \A d \in Callers \ Solo : d # c => pc'[d] = pc[d] /\ result'[d] = result[d]
    PROVE  Abstract!Next
<1>1. Answers[c] = "idle" /\ Answers' = [Answers EXCEPT ![c] = AbstractAnswer(c)']
  BY AnswersExcept DEF Answers
<1>2. Abstract!Submit(c)
  BY <1>1 DEF Abstract!Submit, Answers
<1>3. QED
  BY <1>2 DEF Abstract!Next

\* An answer: true of the log, or committing the writer to nothing.
LEMMA RefineAnswer ==
    ASSUME NEW c \in Callers \ Solo, durable' = durable,
           AbstractAnswer(c) = "pending", AbstractAnswer(c)' \in {"ok", "refused", "unknown"},
           AbstractAnswer(c)' = "ok" => c \in Elems(durable),
           AbstractAnswer(c)' = "refused" => c \notin Elems(durable),
           \A d \in Callers \ Solo : d # c => pc'[d] = pc[d] /\ result'[d] = result[d]
    PROVE  Abstract!Next
<1>1. Answers[c] = "pending" /\ Answers' = [Answers EXCEPT ![c] = AbstractAnswer(c)']
  BY AnswersExcept DEF Answers
<1>2. Abstract!Answer(c)
  BY <1>1, InLogIff DEF Abstract!Answer, Answers
<1>3. QED
  BY <1>2 DEF Abstract!Next

\* A step of Do submits, takes an answer or is invisible.
LEMMA RefineDo ==
    ASSUME IInv, IInv', NEW c \in Callers, Do(c) \/ Cancel(c)
    PROVE  [Abstract!Next]_(Abstract!vars)
<1>0. /\ durable' = durable
      /\ \A d \in Callers : d # c => pc'[d] = pc[d] /\ result'[d] = result[d]
  <2>1. durable' = durable
    BY DEF Do, Cancel, DoCheck, DoEnqueue, DoEnqueueRefused, DoAwait, runVars
  <2>2. /\ pc' = pc \/ \E p : pc' = [pc EXCEPT ![c] = p]
        /\ result' = result \/ \E r : result' = [result EXCEPT ![c] = r]
    BY ZenonT(30) DEF Do, Cancel, DoCheck, DoEnqueue, DoEnqueueRefused, DoAwait, Return, callerVars
  <2>3. DOMAIN pc = Callers /\ DOMAIN result = Callers
    BY DEF IInv, TypeInv, TypeOK
  <2>4. QED
    BY <2>1, <2>2, <2>3
<1>1. ASSUME Answers' = Answers PROVE [Abstract!Next]_(Abstract!vars)
  BY <1>0, <1>1 DEF Abstract!vars, Answers
<1>2. CASE c \in Solo
  BY <1>0, <1>1, <1>2, AnswersSame
<1>3. CASE c \notin Solo
  <2>0. c \in Callers \ Solo
    BY <1>3
  <2>1. CASE pc'[c] = pc[c] /\ result'[c] = result[c]
    BY <1>0, <1>1, <2>1, AnswersSame
  <2>2. CASE DoCheck(c)
    <3>1. /\ pc[c] = "start"
          /\ \/ pc'[c] = "checked"
             \/ pc'[c] = "returned" /\ result'[c] \in {"latched", "closing", "cancelled"}
      <4>1. /\ pc[c] = "start"
            /\ \/ pc' = [pc EXCEPT ![c] = "checked"]
               \/ Return(c, "latched") \/ Return(c, "closing") \/ Return(c, "cancelled")
        BY <2>2 DEF DoCheck
      <4>2. DOMAIN pc = Callers /\ DOMAIN result = Callers
        BY DEF IInv, TypeInv, TypeOK
      <4>3. QED
        BY <4>1, <4>2 DEF Return
    <3>2. AbstractAnswer(c) = "idle"
      BY <3>1 DEF AbstractAnswer
    <3>3. CASE pc'[c] = "checked"
      <4>1. AbstractAnswer(c)' = "idle"
        BY <3>3 DEF AbstractAnswer
      <4>2. Answers' = Answers
        BY <1>0, <2>0, <3>2, <4>1, AnswersExcept DEF Answers
      <4>3. QED
        BY <1>1, <4>2
    <3>4. CASE pc'[c] = "returned" /\ result'[c] \in {"latched", "closing", "cancelled"}
      <4>1. AbstractAnswer(c)' = "refused"
        BY <3>4 DEF AbstractAnswer
      <4>2. QED
        BY <1>0, <2>0, <3>2, <4>1, RefineSubmit
    <3>5. QED
      BY <3>1, <3>3, <3>4
  <2>3. CASE DoEnqueue(c)
    <3>1. pc[c] = "checked" /\ pc'[c] = "waiting"
      BY <2>3 DEF DoEnqueue, IInv, TypeInv, TypeOK
    <3>2. AbstractAnswer(c) = "idle" /\ AbstractAnswer(c)' = "pending"
      BY <3>1 DEF AbstractAnswer
    <3>3. QED
      BY <1>0, <2>0, <3>2, RefineSubmit
  <2>4. CASE DoEnqueueRefused(c)
    <3>1. pc[c] = "checked" /\ pc'[c] = "returned" /\ result'[c] \in {"closing", "cancelled"}
      BY <2>4 DEF DoEnqueueRefused, Return, IInv, TypeInv, TypeOK
    <3>2. AbstractAnswer(c) = "idle" /\ AbstractAnswer(c)' = "refused"
      BY <3>1 DEF AbstractAnswer
    <3>3. QED
      BY <1>0, <2>0, <3>2, RefineSubmit
  <2>5. CASE DoAwait(c)
    <3>1. /\ pc[c] = "waiting" /\ pc'[c] = "returned"
          /\ result'[c] \in {"ok", "rejected", "latched", "unknown"}
      BY <2>5 DEF DoAwait, Return, IInv, TypeInv, TypeOK
    <3>2. /\ AbstractAnswer(c) = "pending"
          /\ result'[c] \in {"ok", "unknown"} => AbstractAnswer(c)' = result'[c]
          /\ result'[c] \in {"rejected", "latched"} => AbstractAnswer(c)' = "refused"
      BY <3>1 DEF AbstractAnswer
    <3>3. /\ result'[c] = "ok" => c \in Elems(durable)
          /\ result'[c] \in {"rejected", "latched"} => c \notin Elems(durable)
      BY <1>0, <2>0 DEF IInv, AnswersInv, SaidInv, Refusals
    <3>4. QED
      BY <1>0, <2>0, <3>1, <3>2, <3>3, RefineAnswer
  <2>6. CASE Cancel(c)
    BY <2>1, <2>6 DEF Cancel, callerVars
  <2>7. QED
    BY <2>2, <2>3, <2>4, <2>5, <2>6 DEF Do
<1>4. QED
  BY <1>2, <1>3

\* The commit: the batch's requests become durable together, each for the first
\* time, and nobody has been told otherwise.
LEMMA RefineCommit ==
    ASSUME IInv, IInv', Commit, durable' = durable \o tx
    PROVE  Abstract!Next
<1>1. phase = "applying" /\ UNCHANGED <<pc, result, accepted>>
  BY CommitDoes
<1>2. /\ durable \in Seq(Callers \ Solo) /\ tx \in Seq(Callers \ Solo)
      /\ accepted \in Seq(Callers)
  BY SeqTypes DEF IInv
<1>3. Answers' = Answers
  BY <1>1, AnswersSame
<1>4. /\ durable' \in Seq(Callers \ Solo) /\ Len(durable') = Len(durable) + Len(tx)
      /\ \A i \in 1 .. Len(durable) : durable'[i] = durable[i]
      /\ \A i \in 1 .. Len(tx) : durable'[Len(durable) + i] = tx[i]
      /\ Len(durable) \in Nat /\ Len(tx) \in Nat
  BY <1>2, ConcatAt
<1>5. SubSeq(durable', 1, Len(durable)) = durable
  BY <1>4
<1>6. Distinct(durable')
  <2>1. InOrderOf(durable', accepted') /\ accepted' = accepted
    BY <1>1 DEF IInv, OrderInv
  <2>2. durable' \in Seq(Callers)
    BY <1>4
  <2>3. QED
    BY <1>2, <2>1, <2>2, InOrderDistinct
<1>7. ASSUME NEW i \in Len(durable) + 1 .. Len(durable')
      PROVE  /\ Answers[durable'[i]] \in {"pending", "unknown"}
             /\ \A j \in 1 .. i - 1 : durable'[j] # durable'[i]
  <2>1. i - Len(durable) \in 1 .. Len(tx) /\ i = Len(durable) + (i - Len(durable))
    BY <1>4
  <2>2. durable'[i] = tx[i - Len(durable)]
    BY <1>4, <2>1
  <2>3. durable'[i] \in Elems(tx) /\ durable'[i] \in Callers \ Solo
    BY <1>2, <2>1, <2>2, ElemsAt
  <2>4. Unanswered(durable'[i])
    BY <1>1, <2>3 DEF IInv, AnswersInv, BatchInv
  <2>5. AbstractAnswer(durable'[i]) \in {"pending", "unknown"}
    BY <2>4 DEF Unanswered, AbstractAnswer
  <2>6. i \in 1 .. Len(durable') /\ \A j \in 1 .. i - 1 : j \in 1 .. Len(durable') /\ j # i
    BY <1>4
  <2>7. QED
    BY <1>6, <2>3, <2>5, <2>6 DEF Answers, Distinct
<1>8. Len(durable') >= Len(durable)
  BY <1>4
<1>9. Abstract!Commit
  BY <1>3, <1>4, <1>5, <1>7, <1>8 DEF Abstract!Commit, Answers
<1>10. QED
  BY <1>9 DEF Abstract!Next

\* Every step is a step of the abstract log or invisible.
LEMMA RefineNext ==
    ASSUME IInv, IInv', [Next]_vars
    PROVE  [Abstract!Next]_(Abstract!vars)
<1>1. ASSUME UNCHANGED <<pc, result, durable>> PROVE [Abstract!Next]_(Abstract!vars)
  <2>1. Answers' = Answers
    BY <1>1, AnswersSame
  <2>2. QED
    BY <1>1, <2>1 DEF Abstract!vars, Answers
<1>2. CASE Commit
  <2>1. CASE durable' = durable \o tx
    BY <1>2, <2>1, RefineCommit
  <2>2. CASE durable' = durable
    BY <1>1, <1>2, <2>2, CommitDoes
  <2>3. QED
    BY <1>2, <2>1, <2>2, CommitDoes
<1>3. CASE Begin
  BY <1>1, <1>3, BeginDoes
<1>4. CASE Apply
  BY <1>1, <1>4, ApplyDoes
<1>5. CASE RunSolo \/ OpenBatch \/ Fill \/ CloseBatch \/ Reply \/ Emit \/ Fail \/ Crash \/ Exit
  BY <1>1, <1>5 DEF RunSolo, OpenBatch, Fill, CloseBatch, Reply, Emit, Fail, Crash, Exit, callerVars
<1>6. CASE CloseBegin \/ CloseStep \/ Pump
  BY <1>1, <1>6 DEF CloseBegin, CloseStep, Pump, callerVars, runVars
<1>7. CASE UNCHANGED vars
  BY <1>1, <1>7 DEF vars
<1>8. QED
  BY <1>2, <1>3, <1>4, <1>5, <1>6, <1>7, RefineDo DEF Next, Run

\* The writer implements CommandLog: every step of its goroutines is a step of
\* the abstract log or leaves it alone.
THEOREM Refinement == Spec => ImplementsCommandLog
<1>1. IInv /\ IInv' /\ [Next]_vars => [Abstract!Next]_(Abstract!vars)
  BY RefineNext
<1>2. QED
  BY <1>1, RefineInit, InductiveInvariant, PTL DEF Spec, ImplementsCommandLog, Abstract!Spec
=============================================================================
