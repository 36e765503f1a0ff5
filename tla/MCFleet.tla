------------------------------- MODULE MCFleet -------------------------------
(* Values of the constants of Fleet for TLC: a canary node and one or two     *)
(* more, a plan of one or two steps, and for each run the commands and the    *)
(* faults it looks at.                                                        *)
EXTENDS Fleet

CONSTANTS n1, n2, n3, h1

TwoNodes == {n1, n2}
ThreeNodes == {n1, n2, n3}

\* The canary, then the others.
CanaryFirst == <<<<n1>>, <<n2>>>>
CanaryThenTwo == <<<<n1>>, <<n2, n3>>>>
OneNode == {n1}
OneBatch == <<<<n1>>>>

OneOperator == {h1}

\* The second step undoes the first when it fails; the first has a rollback.
UndoOnFailure == <<"stop", "rollback">>
OneStep == <<"stop">>
FirstStep == {1}
NoStep == {}

Commands2 == [command |-> 2, trouble |-> 0]
Commands3 == [command |-> 3, trouble |-> 0]

\* Approve, any two other commands, and one trouble anywhere between.
Commands3Trouble == [command |-> 3, trouble |-> 1]

\* Approve, then one trouble.
ApproveTrouble == [command |-> 1, trouble |-> 1]
=============================================================================
