------------------------------ MODULE SeqSets ------------------------------
(***************************************************************************)
(* Sets of sequence numbers, as the ORDER BY seq ... LIMIT n clauses of the *)
(* store's queries cut them.                                               *)
(***************************************************************************)
EXTENDS Integers, FiniteSets, FiniteSetsExt

\* ORDER BY seq ASC LIMIT n.
Oldest(S, n) == {s \in S : Cardinality({t \in S : t <= s}) <= n}

\* ORDER BY seq DESC LIMIT n.
Newest(S, n) == {s \in S : Cardinality({t \in S : t >= s}) <= n}

\* The prefixes of S in sequence order.
IsPrefix(P, S) == P \subseteq S /\ \A p \in P, s \in S : s < p => s \in P
=============================================================================
