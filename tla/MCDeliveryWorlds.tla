-------------------------- MODULE MCDeliveryWorlds --------------------------
(***************************************************************************)
(* Three instances of Delivery over the same variables, checked in one     *)
(* run.  A behaviour is of one world, which says how many consumers there  *)
(* are, how many messages, and which operator commands are given.          *)
(***************************************************************************)
EXTENDS MCDelivery

VARIABLE world

\* One consumer, offered every message once, that seeks and restarts over a
\* stream that limits retention trims.
Position == INSTANCE Delivery WITH
    Subjects <- {a, b}, Configs <- OneConfig, MaxSeq <- 3, MaxAttempts <- 1,
    Ops <- {"seek", "restart", "retain"}, WorkQueue <- FALSE

\* One consumer under every command an operator has but its deletion.
Operator == INSTANCE Delivery WITH
    Subjects <- {a, b}, Configs <- TwoConfigs, MaxSeq <- 2, MaxAttempts <- 2,
    Ops <- {"pause", "update", "seek", "restart", "retain", "purge_range", "purge_scan"},
    WorkQueue <- FALSE

\* Two consumers of a work queue, which may be deleted; each message is offered
\* once to each.
Shared == INSTANCE Delivery WITH
    Subjects <- {a}, Configs <- OneConfig, MaxSeq <- 2, MaxAttempts <- 1,
    Ops <- {"delete", "restart", "retain"}, WorkQueue <- TRUE

WInit == Init /\ world \in {"position", "operator", "shared"}

In(w) == world = w /\ UNCHANGED world

\* c2 is created in the shared world only.
Alone == DOMAIN cons' \subseteq {c1}

PositionStep == In("position") /\ Position!Next /\ Alone

SharedDelete == In("shared") /\ \E c \in {c1, c2} : Shared!DeleteConsumer(c)
SharedStep ==
    /\ In("shared")
    /\ \/ Shared!ClientNext
       \/ Shared!SystemNext
       \/ \E c \in {c1, c2}, cfg \in OneConfig, target \in 1 .. 3 :
            Shared!CreateConsumer(c, cfg, target)

\* The operator's world, a step for each command.
OperatorClient == In("operator") /\ Operator!ClientNext
OperatorTick == In("operator") /\ Operator!Tick
OperatorSweep == In("operator") /\ Operator!Sweep
OperatorRetire == In("operator") /\ Operator!Retire
OperatorRestart == In("operator") /\ Operator!Restart
OperatorRetain == In("operator") /\ Operator!Retain
OperatorCreate ==
    /\ In("operator")
    /\ \E cfg \in TwoConfigs, target \in 1 .. 3 : Operator!CreateConsumer(c1, cfg, target)
OperatorRecreate ==
    In("operator") /\ \E cfg \in TwoConfigs : Operator!RecreateConsumer(c1, cfg)
OperatorUpdate ==
    In("operator") /\ \E cfg \in TwoConfigs : Operator!UpdateConsumer(c1, cfg)
OperatorPause == In("operator") /\ Operator!SetPaused(c1)
OperatorSeek == In("operator") /\ \E target \in 1 .. 3 : Operator!Seek(c1, target)
OperatorPurgeRange == In("operator") /\ \E upper \in 1 .. 2 : Operator!PurgeRange(upper)
OperatorPurgeScan ==
    /\ In("operator")
    /\ \E upper \in 1 .. 2, pattern \in SUBSET {a, b}, keep \in 0 .. 2 :
         Operator!PurgeScan(pattern, upper, keep)

WNext ==
    \/ PositionStep \/ SharedDelete \/ SharedStep
    \/ OperatorClient \/ OperatorTick \/ OperatorSweep \/ OperatorRetire
    \/ OperatorRestart \/ OperatorRetain \/ OperatorCreate \/ OperatorRecreate
    \/ OperatorUpdate \/ OperatorPause \/ OperatorSeek
    \/ OperatorPurgeRange \/ OperatorPurgeScan

WSpec == WInit /\ [][WNext]_<<world, vars>>
=============================================================================
