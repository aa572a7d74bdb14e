------------------------------ MODULE MCStorage ------------------------------
EXTENDS Storage
MCShips == [p \in Procs |-> IF p = "old" THEN 1 ELSE 2]
=============================================================================
