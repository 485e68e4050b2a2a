------------------------------ MODULE MCWakeup ------------------------------
(* Instances of Wakeup for TLC.                                            *)
EXTENDS Wakeup

CONSTANTS p1, p2, t1, t2

\* Every process has every reaction.
SameRegistry == [p \in Procs |-> Targets]
=============================================================================
