----------------------------- MODULE MCDelivery -----------------------------
(***************************************************************************)
(* Instances of Delivery for TLC.                                          *)
(***************************************************************************)
EXTENDS Delivery, TLC

CONSTANTS c1, c2, a, b

ConfigOf(filter, maxDeliver, maxAckPending, deadPolicy) ==
    [filter |-> filter, maxDeliver |-> maxDeliver,
     maxAckPending |-> maxAckPending, deadPolicy |-> deadPolicy]

OneConsumer == {c1}
TwoConsumers == {c1, c2}
OneSubject == {a}
TwoSubjects == {a, b}

\* A window of two deliveries, a window of one on one of two subjects
\* whose dead messages are dropped.
TwoConfigs == {ConfigOf({a, b}, 2, 2, "dlq"), ConfigOf({a}, 1, 1, "drop")}
OneConfig == {ConfigOf({a}, 2, 2, "dlq")}

NoOps == {}
RestartOps == {"restart"}
DeleteOps == {"delete"}
PurgeScanOps == {"purge_scan"}
=============================================================================
