------------------------------ MODULE MCWorker ------------------------------
(* Small instances of Worker for TLC. *)
EXTENDS Worker

\* With Prefetch nothing fails: what it adds is the number of deliveries under
\* way.  Every step that may fail may also succeed, so no goroutine is held up.
NoFaultsWhenPrefetching == prefetch => faults' = 0

NarrowNext == Next /\ NoFaultsWhenPrefetching
NarrowSpec == Init /\ [][NarrowNext]_vars /\ Fairness
=============================================================================
