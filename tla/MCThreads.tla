------------------------------ MODULE MCThreads ------------------------------
(* Values of the constants of ThreadTurns for TLC: two threads, the GUI with  *)
(* its wake scheduler and a terminal, a directory and a file in it.           *)
EXTENDS ThreadTurns, TLC

CONSTANTS a, b, gui, term, dir, file, i1, i2, i3

DirAndFile == {<<dir, dir>>, <<file, file>>, <<file, dir>>}

DirOrFile == {{dir}, {file}}

TheFile == {{file}}

\* Threads are alike, and so are the ids of claims.
Alike == Permutations({a, b}) \cup Permutations({i1, i2, i3})

GroupBudget == [turn |-> 2, send |-> 1, tool |-> 3, trouble |-> 1]

SendBudget == [turn |-> 1, send |-> 2, tool |-> 0, trouble |-> 0]
=============================================================================
