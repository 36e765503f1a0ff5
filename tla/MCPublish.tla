------------------------------ MODULE MCPublish ------------------------------
(* Values of the constants of JobPublish for TLC: a publish worker and the    *)
(* one that takes over from it.                                               *)
EXTENDS JobPublish

CONSTANTS w1, w2

\* Two commands of a human, one event at the host or the remote by others, and
\* one crash, lapse, failed lookup or lost answer.
HostBudget == [trouble |-> 1, host |-> 1, command |-> 2]
=============================================================================
