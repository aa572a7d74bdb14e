------------------------------ MODULE MCWriter ------------------------------
(* Instances of Writer for TLC. *)
EXTENDS Writer, TLC

CONSTANTS p, q, r, s    \* callers; s submits the solo command

ThreeCallers == {p, q, r}
ThreeAndSolo == {p, q, s}
OneSolo == {s}
NoSolo == {}

AllFaults == {"reject", "damage", "close", "cancel"}
RejectAndDamage == {"reject", "damage"}
CloseOnly == {"close"}
=============================================================================
