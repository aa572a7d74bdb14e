----------------------------- MODULE MCLongPoll -----------------------------
(* Small instances of LongPoll for TLC.                                      *)
EXTENDS LongPoll

CONSTANTS s1, s2, c1, c2, p1, p2, p3, m1

\* Two consumers in two shards: a poll that waits is on the first, which owns
\* the message; the others are on the second.
TwoShards == [c \in {c1, c2} |-> IF c = c1 THEN s1 ELSE s2]
ThreePolls == [p \in {p1, p2, p3} |-> IF p = p1 THEN c1 ELSE c2]
OneMessage == [m \in {m1} |-> c1]

\* Two polls and work to come, the third having ended; or three polls that
\* crowd the registry of a stream whose message is settled.
PollsInit ==
    /\ damped = {} /\ registered = {} /\ total = 0
    /\ channel = [p \in Polls |-> "empty"]
    /\ events = <<>> /\ owed = {} /\ silent = {}
    /\ sweeper = "idle" /\ keys = {}
    /\ closing = FALSE /\ shards = {} /\ server = "serving"
    /\ \/ /\ pc = [p \in Polls |-> IF p = p3 THEN "closed" ELSE "start"]
          /\ spent = NoWait \ {p3}
          /\ msg = [m \in Messages |-> "unborn"]
       \/ /\ pc = [p \in Polls |-> "start"]
          /\ spent = NoWait
          /\ msg = [m \in Messages |-> "settled"]
PollsSpec == PollsInit /\ [][Next]_vars /\ Fairness
=============================================================================
