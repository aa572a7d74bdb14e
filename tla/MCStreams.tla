----------------------------- MODULE MCStreams ------------------------------
(* Small instances of Streams for TLC.                                       *)
EXTENDS Streams

CONSTANTS s, dlq, i1, none

Order == {<<s, dlq>>}
OwnFold == [n \in {s, dlq} |-> n]
OneFold == [n \in {s} |-> n]
DeadLetters == [n \in {s} |-> dlq]
NoDeadLetters == [n \in {} |-> dlq]

Cfg(retention, maxMsgs, maxAge, window) ==
    [retention |-> retention, maxMsgs |-> maxMsgs, maxAge |-> maxAge, window |-> window]
Plain == Cfg("limits", 0, 0, 0)
Tight == Cfg("workqueue", 1, 1, 1)
TwoConfigs == {Plain, Tight}
OneConfig == {Plain}
=============================================================================
