-------------------------------- MODULE MCJob --------------------------------
(* Values of the constants for TLC: one or two controllers, two worker ids (a *)
(* worker and its successor; an id nothing refers to any more is used again), *)
(* and for each run the faults, commands and polls it looks at.               *)
EXTENDS JobPipeline, TLC

CONSTANTS w1, w2, c1, c2

TwoWorkers == {w1, w2}
OneController == {c1}
TwoControllers == {c1, c2}

Symmetry == Permutations(TwoWorkers)
FullSymmetry == Permutations(TwoWorkers) \cup Permutations(TwoControllers)

NoFault == [kind \in BudgetKinds |-> 0]

\* A human at work: three commands and a raised limit,
\* while the host closes or merges the pull request.
HumanBudget ==
    [NoFault EXCEPT !["command"] = 3, !["edit"] = 1, !["poll"] = 1,
                    !["restart"] = 1]

\* Faults the controller lives through: a worker dies, a heartbeat fails; two
\* commands, and the base moves on under a pushed job.
FaultBudget ==
    [NoFault EXCEPT !["command"] = 2, !["poll"] = 1, !["crash"] = 1,
                    !["storeError"] = 1]

\* A crash and two commands, under fairness.
RestBudget == [NoFault EXCEPT !["command"] = 2, !["crash"] = 1]

\* No human; a lease lapses under a live worker, a second one takes over.
LapseBudget == [NoFault EXCEPT !["lapse"] = 1]
=============================================================================
