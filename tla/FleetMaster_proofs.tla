-------------------------- MODULE FleetMaster_proofs --------------------------
(* What the operations of the master write, for every plan, every fleet and   *)
(* every set of operators: the rows stay rows, and none undoes what another   *)
(* one undoes.  Fleet_proofs makes theorems of a whole fleet of it.           *)
EXTENDS FleetMaster, TLAPS, FiniteSetTheorems, SequenceTheorems,
        WellFoundedInduction

\* What UndoneOnce (Fleet) says of the executions of a node.
OnceIn(x) ==
    \A i, j \in DOMAIN x :
        x[i].undoes # 0 =>
            /\ x[i].undoes < i
            /\ x[x[i].undoes].undoes = 0
            /\ x[i].step \in Undoable
            /\ x[j].undoes = x[i].undoes => i = j

ExecsOK(xs) ==
    /\ xs \in [Nodes -> Seq(Execution)]
    /\ \A n \in Nodes : OnceIn(xs[n])

MasterOK == MasterTypeOK /\ ExecsOK(execs)

-----------------------------------------------------------------------------
(* The executions of a node.                                                  *)

\* y is x with other states, attempts or cancellations.
SameShape(x, y) ==
    /\ DOMAIN y = DOMAIN x
    /\ \A i \in DOMAIN x : y[i].undoes = x[i].undoes /\ y[i].step = x[i].step

LEMMA Entries ==
    ASSUME NEW x \in Seq(Execution)
    PROVE  /\ Len(x) \in Nat /\ DOMAIN x = 1..Len(x)
           /\ \A i \in DOMAIN x : /\ x[i] \in Execution
                                 /\ x[i].undoes \in Nat
                                 /\ x[i].step \in Steps
<1>1. Len(x) \in Nat /\ DOMAIN x = 1..Len(x)
  BY LenProperties
<1>2. \A i \in DOMAIN x : x[i] \in Execution
  BY <1>1, ElementOfSeq
<1>3. \A e \in Execution : e.undoes \in Nat /\ e.step \in Steps
  BY DEF Execution
<1> QED  BY <1>1, <1>2, <1>3

LEMMA ShapeOnce ==
    ASSUME NEW x \in Seq(Execution), NEW y \in Seq(Execution),
           SameShape(x, y), OnceIn(x)
    PROVE  OnceIn(y)
<1>1. \A i \in DOMAIN x : x[i].undoes \in Nat
  BY Entries
<1>2. ASSUME NEW i \in DOMAIN x, x[i].undoes # 0
      PROVE  x[i].undoes \in DOMAIN x
  <2>1. x[i].undoes < i /\ x[i].undoes \in 1..Len(x)
    BY <1>1, <1>2, LenProperties DEF OnceIn
  <2> QED  BY <2>1, LenProperties
<1> QED  BY <1>1, <1>2 DEF OnceIn, SameShape

\* The same, pointwise: a function over the places of x.
LEMMA PointwiseOK ==
    ASSUME NEW x \in Seq(Execution), OnceIn(x), NEW y,
           y = [i \in DOMAIN x |-> y[i]],
           \A i \in DOMAIN x : /\ y[i] \in Execution
                               /\ y[i].undoes = x[i].undoes
                               /\ y[i].step = x[i].step
    PROVE  y \in Seq(Execution) /\ OnceIn(y)
<1>1. DOMAIN x = 1..Len(x) /\ Len(x) \in Nat
  BY LenProperties
<1>2. y \in [1..Len(x) -> Execution]
  BY <1>1
<1>3. y \in Seq(Execution)
  BY <1>1, <1>2, IsASeq
<1>4. SameShape(x, y)
  BY DEF SameShape
<1> QED  BY <1>3, <1>4, ShapeOnce

LEMMA AppendOK ==
    ASSUME NEW x \in Seq(Execution), OnceIn(x),
           NEW e \in Execution, e.undoes = 0
    PROVE  Append(x, e) \in Seq(Execution) /\ OnceIn(Append(x, e))
<1> DEFINE y == Append(x, e)
<1>1. /\ y \in Seq(Execution) /\ Len(y) = Len(x) + 1
      /\ \A i \in 1..Len(x) : y[i] = x[i]
      /\ y[Len(x) + 1] = e
  BY AppendProperties
<1>2. DOMAIN x = 1..Len(x) /\ DOMAIN y = 1..Len(x) + 1 /\ Len(x) \in Nat
  BY <1>1, LenProperties
<1>3. \A i \in DOMAIN x : x[i].undoes \in Nat
  BY Entries
<1> HIDE DEF y
<1>4. OnceIn(y)
  <2> SUFFICES ASSUME NEW i \in DOMAIN y, NEW j \in DOMAIN y, y[i].undoes # 0
               PROVE  /\ y[i].undoes < i
                      /\ y[y[i].undoes].undoes = 0
                      /\ y[i].step \in Undoable
                      /\ y[j].undoes = y[i].undoes => i = j
    BY DEF OnceIn
  <2>1. i \in DOMAIN x /\ y[i] = x[i]
    BY <1>1, <1>2
  <2>2. x[i].undoes < i /\ x[x[i].undoes].undoes = 0 /\ x[i].step \in Undoable
    BY <2>1 DEF OnceIn
  <2>3. x[i].undoes \in 1..Len(x)
    BY <1>2, <1>3, <2>1, <2>2
  <2>4. CASE j \in DOMAIN x
    BY <1>1, <1>2, <2>1, <2>2, <2>3, <2>4 DEF OnceIn
  <2>5. CASE j \notin DOMAIN x
    <3>1. y[j] = e
      BY <1>1, <1>2, <2>5
    <3> QED  BY <1>1, <2>1, <2>2, <2>3, <3>1
  <2> QED  BY <2>4, <2>5
<1> QED  BY <1>1, <1>4 DEF y

LEMMA TargetsFinite ==
    ASSUME NEW x \in Seq(Execution)
    PROVE  /\ RollbackTargets(x) \subseteq 1..Len(x)
           /\ Cardinality(RollbackTargets(x)) \in Nat
<1>1. DOMAIN x = 1..Len(x) /\ Len(x) \in Nat
  BY LenProperties
<1>2. RollbackTargets(x) \subseteq 1..Len(x)
  BY <1>1 DEF RollbackTargets
<1>3. IsFiniteSet(1..Len(x))
  <2>1. 1 \in Int /\ Len(x) \in Int
    BY <1>1
  <2> QED  BY <2>1, FS_Interval
<1>4. IsFiniteSet(RollbackTargets(x))
  <2> HIDE <1>1
  <2> QED  BY <1>2, <1>3, FS_Subset
<1> QED  BY <1>2, <1>4, FS_CardinalityType

\* Rollbacks are queued for changes that nothing undoes, and for each once.
LEMMA UndosOK ==
    ASSUME NEW x \in Seq(Execution), OnceIn(x), NEW y \in Undoings(x)
    PROVE  y \in Seq(Execution) /\ OnceIn(y)
<1> DEFINE c == Cardinality(RollbackTargets(x))
<1>1. PICK f \in NewestFirst(x), out \in [RollbackTargets(x) -> UndoOutcomes] :
         y = WithUndos(x, f, out)
  BY DEF Undoings
<1>2. /\ RollbackTargets(x) \subseteq 1..Len(x) /\ c \in Nat
      /\ DOMAIN x = 1..Len(x) /\ Len(x) \in Nat
  BY TargetsFinite, LenProperties
<1> HIDE DEF c
<1>3. f \in [1..c -> RollbackTargets(x)] /\ \A i, j \in 1..c : i # j => f[i] # f[j]
  <2>1. /\ f \in [1..c -> RollbackTargets(x)]
        /\ \A i, j \in DOMAIN f : i < j => f[i] # f[j]
    BY DEF NewestFirst, c
  <2> QED  BY <1>2, <2>1
<1>4. /\ DOMAIN y = 1..Len(x) + c
      /\ \A i \in 1..Len(x) : y[i] = x[i]
      /\ \A k \in 1..c : y[Len(x) + k] = Undo(x, f[k], out[f[k]])
  BY <1>1, <1>2 DEF WithUndos, c
<1>5. \A k \in 1..c :
         /\ f[k] \in 1..Len(x)
         /\ x[f[k]].undoes = 0 /\ x[f[k]].step \in Undoable
         /\ \A j \in 1..Len(x) : x[j].undoes # f[k]
  BY <1>2, <1>3 DEF RollbackTargets
<1>6. \A i \in 1..Len(x) : x[i] \in Execution /\ x[i].undoes \in Nat /\ x[i].step \in Steps
  BY <1>2, Entries
<1>7. \A k \in 1..c : out[f[k]] \in EXEC_STATES
  BY <1>3, MasterAssumption DEF EXEC_STATES
<1>8. \A k \in 1..c :
         /\ y[Len(x) + k] \in Execution
         /\ y[Len(x) + k].undoes = f[k]
         /\ y[Len(x) + k].step = x[f[k]].step
  <2> SUFFICES ASSUME NEW k \in 1..c
               PROVE  /\ y[Len(x) + k] \in Execution
                      /\ y[Len(x) + k].undoes = f[k]
                      /\ y[Len(x) + k].step = x[f[k]].step
    OBVIOUS
  <2>1. /\ x[f[k]].step \in Steps /\ f[k] \in Nat /\ out[f[k]] \in EXEC_STATES
        /\ y[Len(x) + k] = Undo(x, f[k], out[f[k]])
    BY <1>2, <1>4, <1>5, <1>6, <1>7
  <2> QED  BY <2>1 DEF Undo, Execution
<1>9. ASSUME NEW i \in DOMAIN y
      PROVE  i \in 1..Len(x) \/ \E k \in 1..c : i = Len(x) + k
  <2>1. i \in 1..Len(x) \/ (i - Len(x) \in 1..c /\ i = Len(x) + (i - Len(x)))
    BY <1>2, <1>4
  <2> QED  BY <2>1
<1>10. y \in Seq(Execution)
  <2>1. \A i \in DOMAIN y : y[i] \in Execution
    BY <1>4, <1>6, <1>8, <1>9
  <2>2. y \in [1..Len(x) + c -> Execution]
    BY <1>1, <1>4, <2>1 DEF WithUndos
  <2> QED  BY <1>2, <2>2, IsASeq
<1>11. OnceIn(y)
  <2> SUFFICES ASSUME NEW i \in DOMAIN y, NEW j \in DOMAIN y, y[i].undoes # 0
               PROVE  /\ y[i].undoes < i
                      /\ y[y[i].undoes].undoes = 0
                      /\ y[i].step \in Undoable
                      /\ y[j].undoes = y[i].undoes => i = j
    BY DEF OnceIn
  <2>1. CASE i \in 1..Len(x)
    <3>1. x[i].undoes < i /\ x[x[i].undoes].undoes = 0 /\ x[i].step \in Undoable
      BY <1>2, <1>4, <2>1 DEF OnceIn
    <3>2. x[i].undoes \in 1..Len(x)
      BY <1>2, <1>4, <1>6, <2>1, <3>1
    <3>3. CASE j \in 1..Len(x)
      BY <1>2, <1>4, <2>1, <3>1, <3>2, <3>3 DEF OnceIn
    <3>4. CASE j \notin 1..Len(x)
      <4>1. PICK k \in 1..c : j = Len(x) + k
        BY <1>9, <3>4
      <4>2. y[j].undoes # x[i].undoes
        BY <1>5, <1>8, <2>1, <4>1
      <4> QED  BY <1>4, <2>1, <3>1, <3>2, <4>2
    <3> QED  BY <3>3, <3>4
  <2>2. CASE i \notin 1..Len(x)
    <3>1. PICK k \in 1..c : i = Len(x) + k
      BY <1>9, <2>2
    <3>2. y[i].undoes = f[k] /\ f[k] \in 1..Len(x) /\ y[i].step \in Undoable
          /\ y[f[k]].undoes = 0
      BY <1>4, <1>5, <1>8, <3>1
    <3>3. y[i].undoes < i
      BY <1>2, <3>1, <3>2
    <3>4. CASE j \in 1..Len(x)
      BY <1>4, <1>5, <3>1, <3>2, <3>3, <3>4
    <3>5. CASE j \notin 1..Len(x)
      <4>1. PICK l \in 1..c : j = Len(x) + l
        BY <1>9, <3>5
      <4>2. y[j].undoes = f[l]
        BY <1>8, <4>1
      <4>3. f[l] = f[k] => l = k
        BY <1>3
      <4> QED  BY <3>1, <3>2, <3>3, <4>1, <4>2, <4>3
    <3> QED  BY <3>4, <3>5
  <2> QED  BY <2>1, <2>2
<1> QED  BY <1>10, <1>11

LEMMA QueueUndosOK ==
    ASSUME NEW xs, ExecsOK(xs), NEW ns, QueueUndos(xs, ns)
    PROVE  ExecsOK(execs')
<1>1. PICK ys \in [ns -> UNION {Undoings(xs[n]) : n \in ns}] :
         /\ \A n \in ns : ys[n] \in Undoings(xs[n])
         /\ execs' = [n \in Nodes |-> IF n \in ns THEN ys[n] ELSE xs[n]]
  BY DEF QueueUndos
<1>2. \A n \in Nodes \cap ns : ys[n] \in Seq(Execution) /\ OnceIn(ys[n])
  BY <1>1, UndosOK DEF ExecsOK
<1> QED  BY <1>1, <1>2 DEF ExecsOK

-----------------------------------------------------------------------------
(* Progress.                                                                  *)

\* Where a node stops is the step it stops at.
LEMMA StopsAtStep ==
    ASSUME NEW x, NEW s \in Steps, Stops(x, s)
    PROVE  StopsAt(x) = s
<1>1. s \in Nat /\ NumSteps \in Nat /\ 1 <= s /\ s <= NumSteps
  BY PlanAssumption DEF Steps
<1>2. {r \in Steps : \A t \in 1..r : Passes(x, t)} = 1..(s - 1)
  <2>1. ASSUME NEW r \in 1..(s - 1)
        PROVE  r \in Steps /\ \A t \in 1..r : Passes(x, t)
    BY <1>1 DEF Stops, Comes, Steps
  <2>2. ASSUME NEW r \in Steps, \A t \in 1..r : Passes(x, t)
        PROVE  r \in 1..(s - 1)
    <3>1. ~(s <= r)
      BY <1>1, <2>2 DEF Stops
    <3> QED  BY <1>1, <3>1 DEF Steps
  <2> QED  BY <2>1, <2>2
<1>3. Cardinality(1..(s - 1)) = s - 1
  BY <1>1, FS_Interval
<1>4. StopsAt(x) = 1 + Cardinality({r \in Steps : \A t \in 1..r : Passes(x, t)})
  BY DEF StopsAt
<1>5. StopsAt(x) = 1 + (s - 1)
  BY <1>2, <1>3, <1>4
<1> QED  BY <1>1, <1>5

LEMMA ReadyStops ==
    ASSUME NEW x, Progress(x) = "ready"
    PROVE  StopsAt(x) \in Steps
<1>1. \E s \in Steps : Stops(x, s)
  BY DEF Progress
<1> QED  BY <1>1, StopsAtStep

-----------------------------------------------------------------------------
(* The tick.                                                                  *)

LEMMA HealOK ==
    ASSUME NEW x \in Execution, NEW l, NEW o
    PROVE  /\ Heal(x, l, o) \in Execution
           /\ Heal(x, l, o).undoes = x.undoes
           /\ Heal(x, l, o).step = x.step
BY DEF Heal, Execution, EXEC_STATES

LEMMA HealedOK ==
    ASSUME ExecsOK(execs)
    PROVE  ExecsOK(Healed)
<1> DEFINE H(n) == [i \in DOMAIN execs[n] |->
                       Heal(execs[n][i], <<n, i>> \in late, online[n])]
<1>1. ASSUME NEW n \in Nodes
      PROVE  H(n) \in Seq(Execution) /\ OnceIn(H(n))
  <2>1. execs[n] \in Seq(Execution) /\ OnceIn(execs[n])
    BY DEF ExecsOK
  <2>2. \A i \in DOMAIN execs[n] : execs[n][i] \in Execution
    BY <2>1
  <2>3. \A i \in DOMAIN execs[n] : /\ H(n)[i] \in Execution
                                   /\ H(n)[i].undoes = execs[n][i].undoes
                                   /\ H(n)[i].step = execs[n][i].step
    BY <2>2, HealOK
  <2>4. H(n) = [i \in DOMAIN execs[n] |-> H(n)[i]]
    OBVIOUS
  <2> HIDE DEF H
  <2> QED  BY <2>1, <2>3, <2>4, PointwiseOK
<1>2. Healed = execs \/ Healed = [n \in Nodes |-> H(n)]
  BY DEF Healed
<1> HIDE DEF H
<1> QED  BY <1>1, <1>2 DEF ExecsOK

LEMMA JudgedOK ==
    ASSUME NEW r \in Run, NEW xs, NEW over
    PROVE  Judged(r, xs, over) \in Run
<1>1. Evaluated(r) \in Run
  BY DEF Evaluated, Run
<1>2. Outcome(xs) \in RUN_STATES
  BY DEF Outcome, RUN_STATES
<1>3. [r EXCEPT !.state = "paused"] \in Run
  BY DEF Run, RUN_STATES
<1>4. [Evaluated(r) EXCEPT !.state = Outcome(xs)] \in Run
  BY <1>1, <1>2 DEF Run
<1>5. [Evaluated(r) EXCEPT !.rested = TRUE] \in Run
  BY <1>1 DEF Run
<1>6. [Evaluated(r) EXCEPT !.batch = r.batch + 1, !.rested = FALSE] \in Run
  <2>1. r.batch + 1 \in Nat
    BY DEF Run
  <2> QED  BY <1>1, <2>1 DEF Run
<1> QED  BY <1>1, <1>3, <1>4, <1>5, <1>6 DEF Judged

LEMMA FreshOK ==
    ASSUME NEW s \in Steps, NEW state \in EXEC_STATES, NEW attempts \in Nat
    PROVE  Fresh(s, state, attempts) \in Execution /\ Fresh(s, state, attempts).undoes = 0
BY DEF Fresh, Execution

LEMMA TickQueueOK ==
    ASSUME NEW r \in Run, NEW xs, ExecsOK(xs), TickQueue(r, xs)
    PROVE  ExecsOK(execs') /\ run' \in Run
<1> DEFINE barred == {n \in Nodes : status[n] \in {"quarantined", "revoked"}}
           chosen == IF halted THEN {} ELSE Started(r, xs, barred)
           skipped == IF halted THEN {} ELSE Ready(r, xs) \cap barred
<1>1. PICK out \in [chosen -> QueueOutcomes] :
         execs' = [n \in Nodes |->
                  IF n \in chosen
                  THEN Append(xs[n], Fresh(StopsAt(xs[n]), out[n], 0))
                  ELSE IF n \in skipped
                  THEN Append(xs[n], Fresh(StopsAt(xs[n]), "cancelled", 0))
                  ELSE xs[n]]
  BY DEF TickQueue
<1>2. chosen \subseteq Ready(r, xs) /\ skipped \subseteq Ready(r, xs)
  BY DEF Started
<1>3. \A n \in Ready(r, xs) : StopsAt(xs[n]) \in Steps
  BY ReadyStops DEF Ready
<1> HIDE DEF chosen, skipped
<1>4. ASSUME NEW n \in Nodes
      PROVE  execs'[n] \in Seq(Execution) /\ OnceIn(execs'[n])
  <2>1. xs[n] \in Seq(Execution) /\ OnceIn(xs[n])
    BY DEF ExecsOK
  <2>2. CASE n \in chosen
    <3>1. StopsAt(xs[n]) \in Steps /\ out[n] \in EXEC_STATES
      BY <1>1, <1>2, <1>3, <2>2, MasterAssumption DEF EXEC_STATES
    <3>2. execs'[n] = Append(xs[n], Fresh(StopsAt(xs[n]), out[n], 0))
      BY <1>1, <2>2
    <3> QED  BY <2>1, <3>1, <3>2, FreshOK, AppendOK
  <2>3. CASE n \notin chosen /\ n \in skipped
    <3>1. StopsAt(xs[n]) \in Steps /\ "cancelled" \in EXEC_STATES
      BY <1>2, <1>3, <2>3 DEF EXEC_STATES
    <3>2. execs'[n] = Append(xs[n], Fresh(StopsAt(xs[n]), "cancelled", 0))
      BY <1>1, <2>3
    <3> QED  BY <2>1, <3>1, <3>2, FreshOK, AppendOK
  <2>4. CASE n \notin chosen /\ n \notin skipped
    BY <1>1, <2>1, <2>4
  <2> QED  BY <2>2, <2>3, <2>4
<1>5. ExecsOK(execs')
  BY <1>1, <1>4 DEF ExecsOK
<1> QED  BY <1>5 DEF TickQueue

LEMMA TickOK ==
    ASSUME MasterOK, Tick
    PROVE  MasterOK'
<1>1. run \in Run /\ ExecsOK(execs) /\ ExecsOK(Healed)
  BY HealedOK DEF MasterOK, MasterTypeOK
<1>2. TheRun \in Run
  BY <1>1 DEF TheRun, Run, RUN_STATES
<1>3. late' \subseteq Nodes \X Nat
  BY DEF Tick, TickEnded, MasterOK, MasterTypeOK
<1>4. ExecsOK(execs') /\ run' \in Run
  <2>1. CASE TickEnded
    BY <1>1, <2>1 DEF TickEnded
  <2>2. CASE TickHealth
    BY <1>1, <2>2 DEF TickHealth
  <2>3. CASE TickRollingBack
    <3>1. [run EXCEPT !.state = Undone(Healed)] \in Run
      BY <1>1 DEF Undone, Run, RUN_STATES
    <3> QED  BY <1>1, <2>3, <3>1 DEF TickRollingBack
  <2>4. ASSUME TickUndo(TheRun, Healed)
        PROVE  ExecsOK(execs') /\ run' \in Run
    BY <1>1, <1>2, <2>4, QueueUndosOK DEF TickUndo
  <2>5. CASE TickQueue(TheRun, Healed)
    BY <1>1, <1>2, <2>5, TickQueueOK
  <2>6. CASE TickJudge(TheRun, Healed)
    BY <1>1, <1>2, <2>6, JudgedOK DEF TickJudge
  <2> QED  BY <2>1, <2>2, <2>3, <2>4, <2>5, <2>6 DEF Tick
<1> QED  BY <1>3, <1>4 DEF MasterOK, MasterTypeOK, ExecsOK, Tick

-----------------------------------------------------------------------------
(* Commands.                                                                  *)

LEMMA StoppedOK ==
    ASSUME NEW e \in Execution
    PROVE  /\ Stopped(e) \in Execution
           /\ Stopped(e).undoes = e.undoes /\ Stopped(e).step = e.step
BY DEF Stopped, Execution, EXEC_STATES

\* The executions of every node with what stopping makes of them, and of the
\* rollbacks unless `all'.
StoppedRows(all) ==
    [n \in Nodes |-> [i \in DOMAIN execs[n] |->
        IF all \/ execs[n][i].undoes = 0 THEN Stopped(execs[n][i])
        ELSE execs[n][i]]]

LEMMA StoppedRowsOK ==
    ASSUME ExecsOK(execs), NEW all \in BOOLEAN
    PROVE  ExecsOK(StoppedRows(all))
<1> DEFINE S(n) == [i \in DOMAIN execs[n] |->
                       IF all \/ execs[n][i].undoes = 0 THEN Stopped(execs[n][i])
                       ELSE execs[n][i]]
<1>1. ASSUME NEW n \in Nodes
      PROVE  S(n) \in Seq(Execution) /\ OnceIn(S(n))
  <2>1. execs[n] \in Seq(Execution) /\ OnceIn(execs[n])
    BY DEF ExecsOK
  <2>2. \A i \in DOMAIN execs[n] : execs[n][i] \in Execution
    BY <2>1, Entries
  <2>3. \A i \in DOMAIN execs[n] : /\ S(n)[i] \in Execution
                                   /\ S(n)[i].undoes = execs[n][i].undoes
                                   /\ S(n)[i].step = execs[n][i].step
    BY <2>2, StoppedOK
  <2>4. S(n) = [i \in DOMAIN execs[n] |-> S(n)[i]]
    OBVIOUS
  <2> HIDE DEF S
  <2> QED  BY <2>1, <2>3, <2>4, PointwiseOK
<1>2. StoppedRows(all) = [n \in Nodes |-> S(n)]
  BY DEF StoppedRows
<1> HIDE DEF S
<1> QED  BY <1>1, <1>2 DEF ExecsOK

\* One row is appended to or rewritten; the others stay.
LEMMA OneRowOK ==
    ASSUME ExecsOK(execs), NEW n \in Nodes, NEW y \in Seq(Execution), OnceIn(y),
           execs' = [execs EXCEPT ![n] = y]
    PROVE  ExecsOK(execs')
BY DEF ExecsOK

LEMMA CancelOK ==
    ASSUME MasterOK, NEW a \in Actors, Cancel(a)
    PROVE  ExecsOK(execs')
<1>1. execs' = StoppedRows(TRUE)
  BY DEF Cancel, StoppedRows
<1> QED  BY <1>1, StoppedRowsOK DEF MasterOK

LEMMA StartRollbackOK ==
    ASSUME MasterOK, NEW a \in Actors, StartRollback(a)
    PROVE  ExecsOK(execs')
<1>1. QueueUndos(StoppedRows(FALSE), Nodes)
  BY DEF StartRollback, StoppedRows
<1>2. ExecsOK(StoppedRows(FALSE))
  BY StoppedRowsOK DEF MasterOK
<1> QED  BY <1>1, <1>2, QueueUndosOK

LEMMA RetryNodeOK ==
    ASSUME MasterOK, NEW a \in Actors, op[a].node \in Nodes, RetryNode(a)
    PROVE  ExecsOK(execs')
<1> DEFINE n == op[a].node
           x == execs[n]
           s == StopsAt(x)
<1>1. ExecsOK(execs) /\ n \in Nodes /\ x \in Seq(Execution) /\ OnceIn(x)
  BY DEF MasterOK, ExecsOK
<1>2. CASE ~Retriable(x)
  BY <1>1, <1>2 DEF RetryNode
<1>3. CASE Retriable(x)
  <2>1. PICK out \in QueueOutcomes, i \in Latest(x, s) :
           execs' = [execs EXCEPT ![n] = Append(@, Fresh(s, out, x[i].attempts))]
    BY <1>3 DEF RetryNode
  <2>2. s \in Steps
    BY <1>3, StopsAtStep DEF Retriable
  <2>3. i \in DOMAIN x
    BY DEF Latest
  <2>4. out \in EXEC_STATES
    BY MasterAssumption DEF EXEC_STATES
  <2>5. x[i].attempts \in Nat
    <3>1. x[i] \in Execution
      BY <1>1, <2>3, Entries
    <3> QED  BY <3>1 DEF Execution
  <2> DEFINE y == Append(x, Fresh(s, out, x[i].attempts))
  <2>6. y \in Seq(Execution) /\ OnceIn(y)
    BY <1>1, <2>2, <2>4, <2>5, FreshOK, AppendOK
  <2>7. execs' = [execs EXCEPT ![n] = y]
    BY <2>1
  <2> QED  BY <1>1, <2>6, <2>7, OneRowOK
<1> QED  BY <1>2, <1>3

LEMMA SetStatusOK ==
    ASSUME MasterOK, NEW a \in Actors, op[a].node \in Nodes, SetStatus(a)
    PROVE  ExecsOK(execs') /\ status' \in [Nodes -> NODE_STATUS]
<1> DEFINE n == op[a].node
           x == execs[n]
           y == [i \in DOMAIN x |-> IF x[i].state \in EXEC_LIVE
                                    THEN [x[i] EXCEPT !.state = "unreachable"]
                                    ELSE x[i]]
<1>1. /\ ExecsOK(execs) /\ n \in Nodes /\ x \in Seq(Execution) /\ OnceIn(x)
      /\ execs \in [Nodes -> Seq(Execution)]
  BY DEF MasterOK, ExecsOK
<1>2. \A i \in DOMAIN x : /\ y[i] \in Execution
                         /\ y[i].undoes = x[i].undoes
                         /\ y[i].step = x[i].step
  <2>1. \A e \in Execution :
           LET d == [e EXCEPT !.state = "unreachable"] IN
           d \in Execution /\ d.undoes = e.undoes /\ d.step = e.step
    BY DEF Execution, EXEC_STATES
  <2>2. \A i \in DOMAIN x : x[i] \in Execution
    BY <1>1, Entries
  <2> QED  BY <2>1, <2>2
<1>3. y = [i \in DOMAIN x |-> y[i]]
  OBVIOUS
<1>4. execs' = execs \/ execs' = [execs EXCEPT ![n] = y]
  BY <1>1 DEF SetStatus
<1>5. status' \in [Nodes -> NODE_STATUS]
  BY DEF SetStatus, MasterOK, MasterTypeOK
<1> HIDE DEF y
<1>6. y \in Seq(Execution) /\ OnceIn(y)
  BY <1>1, <1>2, <1>3, PointwiseOK
<1> QED  BY <1>1, <1>4, <1>5, <1>6, OneRowOK

LEMMA ReadOK ==
    ASSUME MasterOK, NEW a \in Actors, NEW kind \in CommandKinds, NEW n \in Nodes,
           Read(a, kind, n)
    PROVE  MasterOK'
<1>1. op' \in [Actors -> Commands]
  BY DEF MasterOK, MasterTypeOK, Read, Commands, Run
<1> QED  BY <1>1 DEF MasterOK, MasterTypeOK, Read, ExecsOK, OnceIn

\* What a command does to the run, if anything.
LEMMA RunToOK ==
    ASSUME run \in Run, NEW s \in RUN_STATES, RunTo(s)
    PROVE  run' \in Run
BY DEF RunTo, Run

LEMMA CarryOK ==
    ASSUME MasterOK, NEW a \in Actors, Carry(a)
    PROVE  MasterOK'
<1>1. run \in Run /\ ExecsOK(execs) /\ op[a] \in Commands
  BY DEF MasterOK, MasterTypeOK
<1>2. op[a].node \in Nodes /\ op[a].batch \in Nat /\ NoOp \in Commands
  <2>1. (CHOOSE n \in Nodes : TRUE) \in Nodes
    BY PlanAssumption
  <2> QED  BY <1>1, <2>1 DEF Commands, NoOp
<1>3. op' \in [Actors -> Commands]
  BY <1>2 DEF MasterOK, MasterTypeOK, Carry, Doing, Approve, Reject, Expire,
       Pause, Cancel, ResumeRun, StartRollback, RetryNode, SetStatus
<1>4. run' \in Run
  <2>1. /\ "approved" \in RUN_STATES /\ "rejected" \in RUN_STATES
        /\ "expired" \in RUN_STATES /\ "paused" \in RUN_STATES
        /\ "cancelled" \in RUN_STATES /\ "rolling_back" \in RUN_STATES
    BY DEF RUN_STATES
  <2>2. CASE ResumeRun(a)
    BY <1>1, <1>2, <2>2 DEF ResumeRun, Run, RUN_STATES
  <2>3. CASE ~ResumeRun(a)
    BY <1>1, <2>1, <2>3, RunToOK DEF Carry, Approve, Reject, Expire, Pause,
         Cancel, StartRollback, RetryNode, SetStatus
  <2> QED  BY <2>2, <2>3
<1>5. ExecsOK(execs')
  <2>1. CASE UNCHANGED execs
    BY <1>1, <2>1
  <2>2. CASE Cancel(a) \/ StartRollback(a) \/ RetryNode(a) \/ SetStatus(a)
    BY <1>2, <2>2, CancelOK, StartRollbackOK, RetryNodeOK, SetStatusOK
  <2> QED  BY <2>1, <2>2 DEF Carry, Approve, Reject, Expire, Pause, ResumeRun
<1>6. late' \subseteq Nodes \X Nat
  BY DEF MasterOK, MasterTypeOK, Carry, Approve, Reject, Expire, Pause, Cancel,
     ResumeRun, StartRollback, RetryNode, SetStatus
<1>7. status' \in [Nodes -> NODE_STATUS]
  BY <1>2, SetStatusOK DEF MasterOK, MasterTypeOK, Carry, Approve, Reject,
     Expire, Pause, Cancel, ResumeRun, StartRollback, RetryNode
<1> QED  BY <1>3, <1>4, <1>5, <1>6, <1>7 DEF MasterOK, MasterTypeOK, ExecsOK, Carry

-----------------------------------------------------------------------------
(* The hub, time and the kill switch.                                         *)

LEMMA ClaimOK ==
    ASSUME MasterOK, NEW n \in Nodes, NEW ids,
           NEW out \in [ids -> DispatchOutcomes], Claim(n, out)
    PROVE  ExecsOK(execs') /\ late' \subseteq Nodes \X Nat
<1> DEFINE x == execs[n]
           y == [i \in DOMAIN x |-> IF i \in DOMAIN out THEN Dispatch(x[i], out[i])
                                    ELSE x[i]]
<1>1. /\ ExecsOK(execs) /\ x \in Seq(Execution) /\ OnceIn(x)
      /\ execs \in [Nodes -> Seq(Execution)]
  BY DEF MasterOK, ExecsOK
<1>2. \A i \in DOMAIN x : /\ y[i] \in Execution
                         /\ y[i].undoes = x[i].undoes
                         /\ y[i].step = x[i].step
  <2>1. \A e \in Execution, s \in DispatchOutcomes :
           /\ Dispatch(e, s) \in Execution
           /\ Dispatch(e, s).undoes = e.undoes /\ Dispatch(e, s).step = e.step
    <3> SUFFICES ASSUME NEW e \in Execution, NEW s \in DispatchOutcomes
                 PROVE  /\ Dispatch(e, s) \in Execution
                        /\ Dispatch(e, s).undoes = e.undoes
                        /\ Dispatch(e, s).step = e.step
      OBVIOUS
    <3>1. s \in EXEC_STATES
      BY MasterAssumption DEF EXEC_STATES
    <3>2. e.attempts \in Nat /\ e.attempts + 1 \in Nat
      BY DEF Execution
    <3> QED  BY <3>1, <3>2 DEF Dispatch, Execution
  <2>2. \A i \in DOMAIN x : x[i] \in Execution
    BY <1>1, Entries
  <2> QED  BY <2>1, <2>2
<1>3. y = [i \in DOMAIN x |-> y[i]]
  OBVIOUS
<1>4. execs' = [execs EXCEPT ![n] = y]
  BY <1>1 DEF Claim
<1>5. late' \subseteq Nodes \X Nat
  BY DEF Claim, MasterOK, MasterTypeOK
<1> HIDE DEF y
<1>6. y \in Seq(Execution) /\ OnceIn(y)
  BY <1>1, <1>2, <1>3, PointwiseOK
<1> QED  BY <1>1, <1>4, <1>5, <1>6, OneRowOK

LEMMA MovedOK ==
    ASSUME MasterOK, NEW n \in Nodes, NEW i, NEW s \in EXEC_STATES,
           execs' = Moved(n, i, s)
    PROVE  ExecsOK(execs')
<1> DEFINE x == execs[n]
           y == [x EXCEPT ![i].state = s]
<1>1. /\ ExecsOK(execs) /\ x \in Seq(Execution) /\ OnceIn(x)
      /\ execs \in [Nodes -> Seq(Execution)]
  BY DEF MasterOK, ExecsOK
<1>2. \A j \in DOMAIN x : /\ y[j] \in Execution
                         /\ y[j].undoes = x[j].undoes
                         /\ y[j].step = x[j].step
  <2>1. \A e \in Execution :
           LET d == [e EXCEPT !.state = s] IN
           d \in Execution /\ d.undoes = e.undoes /\ d.step = e.step
    BY DEF Execution
  <2>2. \A j \in DOMAIN x : x[j] \in Execution
    BY <1>1, Entries
  <2> QED  BY <2>1, <2>2
<1>3. y = [j \in DOMAIN x |-> y[j]]
  <2>1. y = [j \in DOMAIN x |-> IF j = i THEN [x[j] EXCEPT !.state = s] ELSE x[j]]
    OBVIOUS
  <2> QED  BY <2>1
<1>4. execs' = [execs EXCEPT ![n] = y]
  BY <1>1 DEF Moved
<1> HIDE DEF y
<1>5. y \in Seq(Execution) /\ OnceIn(y)
  BY <1>1, <1>2, <1>3, PointwiseOK
<1> QED  BY <1>1, <1>4, <1>5, OneRowOK

\* A step that leaves the rows alone, and only marks clocks or silence.
LEMMA RowsKept ==
    ASSUME MasterOK, UNCHANGED <<run, execs, status, op>>,
           late' \subseteq Nodes \X Nat, online' \in [Nodes -> BOOLEAN],
           halted' \in BOOLEAN, listed' \in BOOLEAN
    PROVE  MasterOK'
BY DEF MasterOK, MasterTypeOK, ExecsOK, OnceIn

LEMMA ElapseOK ==
    ASSUME MasterOK, NEW n \in Nodes, NEW i, Elapse(n, i)
    PROVE  MasterOK'
<1>1. i \in Nat
  <2>1. execs[n] \in Seq(Execution)
    BY DEF MasterOK, ExecsOK
  <2> QED  BY <2>1, Entries DEF Elapse
<1> QED  BY <1>1, RowsKept DEF Elapse, MasterOK, MasterTypeOK

LEMMA OthersOK ==
    ASSUME MasterOK,
           ListRuns \/ Switch \/ \E n \in Nodes : GoesOffline(n)
    PROVE  MasterOK'
BY RowsKept DEF ListRuns, Switch, GoesOffline, MasterOK, MasterTypeOK

LEMMA ReadAnyOK ==
    ASSUME MasterOK, NEW a \in Actors, ReadRun(a) \/ ReadNode(a) \/ ReadStatus(a)
    PROVE  MasterOK'
<1>1. NoOp.node \in Nodes
  <2>1. (CHOOSE n \in Nodes : TRUE) \in Nodes
    BY PlanAssumption
  <2> QED  BY <2>1 DEF NoOp
<1>2. "retry_node" \in CommandKinds /\ NODE_STATUS \subseteq CommandKinds
  BY DEF CommandKinds, NODE_STATUS
<1> QED  BY <1>1, <1>2, ReadOK DEF ReadRun, ReadNode, ReadStatus

LEMMA MasterInitOK ==
    ASSUME MasterInit
    PROVE  MasterOK
<1>1. <<>> \in Seq(Execution) /\ OnceIn(<<>>)
  BY EmptySeq DEF OnceIn
<1>2. (CHOOSE n \in Nodes : TRUE) \in Nodes
  BY PlanAssumption
<1>3. run \in Run
  BY DEF MasterInit, Run, RUN_STATES
<1> QED  BY <1>1, <1>2, <1>3 DEF MasterInit, MasterOK, MasterTypeOK, ExecsOK,
         Commands, NODE_STATUS

-----------------------------------------------------------------------------
(* How a row goes on.  A row is queued again only for a tool that may be      *)
(* repeated, and while it has attempts left; only claim() counts an attempt.  *)

Goes(x, y) ==
    /\ y.step = x.step /\ y.undoes = x.undoes
    /\ \/ /\ y.attempts = x.attempts
          /\ y.state = "queued" =>
                x.state = "queued" \/ (Repeats(x) /\ x.attempts < MaxAttempts)
       \/ /\ x.state = "queued" /\ y.state = "dispatched"
          /\ y.attempts = x.attempts + 1

\* As Goes, and what has ended stays ended: not so for a stale write of the hub.
GoesOn(x, y) == Goes(x, y) /\ (x.state \notin EXEC_LIVE => y.state = x.state)

RowsGo(x, y) == DOMAIN x \subseteq DOMAIN y /\ \A i \in DOMAIN x : Goes(x[i], y[i])

RowsGoOn(x, y) == DOMAIN x \subseteq DOMAIN y /\ \A i \in DOMAIN x : GoesOn(x[i], y[i])

\* y is x with new rows after it.
Longer(x, y) == DOMAIN x \subseteq DOMAIN y /\ \A i \in DOMAIN x : y[i] = x[i]

AllGoOn(xs, ys) == \A n \in Nodes : RowsGoOn(xs[n], ys[n])

LEMMA GoOnGoes ==
    ASSUME NEW x, NEW y, RowsGoOn(x, y)
    PROVE  RowsGo(x, y)
BY DEF RowsGoOn, RowsGo, GoesOn

LEMMA SameGoesOn ==
    ASSUME NEW x
    PROVE  RowsGoOn(x, x) /\ Longer(x, x)
BY DEF RowsGoOn, GoesOn, Goes, Longer

LEMMA LongerGoesOn ==
    ASSUME NEW x, NEW y, NEW z, RowsGoOn(x, y), Longer(y, z)
    PROVE  RowsGoOn(x, z)
BY DEF RowsGoOn, Longer

LEMMA AppendLonger ==
    ASSUME NEW x \in Seq(Execution), NEW e \in Execution
    PROVE  Longer(x, Append(x, e))
<1>1. /\ DOMAIN x = 1..Len(x) /\ Len(x) \in Nat
      /\ Append(x, e) \in Seq(Execution) /\ Len(Append(x, e)) = Len(x) + 1
      /\ \A i \in 1..Len(x) : Append(x, e)[i] = x[i]
  BY LenProperties, AppendProperties
<1>2. DOMAIN Append(x, e) = 1..(Len(x) + 1)
  BY <1>1, LenProperties
<1> QED  BY <1>1, <1>2 DEF Longer

LEMMA UndosLonger ==
    ASSUME NEW x \in Seq(Execution), NEW y \in Undoings(x)
    PROVE  Longer(x, y)
<1>1. PICK f \in NewestFirst(x), out \in [RollbackTargets(x) -> UndoOutcomes] :
         y = WithUndos(x, f, out)
  BY DEF Undoings
<1>2. /\ Cardinality(RollbackTargets(x)) \in Nat
      /\ DOMAIN x = 1..Len(x) /\ Len(x) \in Nat
  BY TargetsFinite, LenProperties
<1> DEFINE c == Cardinality(RollbackTargets(x))
<1>3. y = [i \in 1..Len(x) + c |->
              IF i <= Len(x) THEN x[i]
              ELSE Undo(x, f[i - Len(x)], out[f[i - Len(x)]])]
  BY <1>1 DEF WithUndos
<1>4. c \in Nat
  BY <1>2
<1> HIDE DEF c
<1>5. \A i \in 1..Len(x) : i \in 1..Len(x) + c /\ i <= Len(x)
  BY <1>2, <1>4
<1> QED  BY <1>2, <1>3, <1>5 DEF Longer

LEMMA QueueUndosLonger ==
    ASSUME NEW xs, ExecsOK(xs), NEW ns, QueueUndos(xs, ns)
    PROVE  \A n \in Nodes : Longer(xs[n], execs'[n])
<1>1. PICK ys \in [ns -> UNION {Undoings(xs[n]) : n \in ns}] :
         /\ \A n \in ns : ys[n] \in Undoings(xs[n])
         /\ execs' = [n \in Nodes |-> IF n \in ns THEN ys[n] ELSE xs[n]]
  BY DEF QueueUndos
<1> SUFFICES ASSUME NEW n \in Nodes
             PROVE  Longer(xs[n], execs'[n])
  OBVIOUS
<1>2. xs[n] \in Seq(Execution)
  BY DEF ExecsOK
<1>3. CASE n \in ns
  <2>1. ys[n] \in Undoings(xs[n]) /\ execs'[n] = ys[n]
    BY <1>1, <1>3
  <2> QED  BY <1>2, <2>1, UndosLonger
<1>4. CASE n \notin ns
  <2>1. execs'[n] = xs[n]
    BY <1>1, <1>4
  <2> QED  BY <2>1, SameGoesOn
<1> QED  BY <1>3, <1>4

LEMMA HealGoesOn ==
    ASSUME NEW x \in Execution, NEW l, NEW o
    PROVE  GoesOn(x, Heal(x, l, o))
BY DEF Heal, GoesOn, Goes, Execution, EXEC_LIVE, EXEC_IN_FLIGHT

LEMMA HealedGoesOn ==
    ASSUME MasterOK
    PROVE  AllGoOn(execs, Healed)
<1>1. CASE Healed = execs
  BY <1>1, SameGoesOn DEF AllGoOn
<1>2. CASE Healed # execs
  <2> SUFFICES ASSUME NEW n \in Nodes
               PROVE  RowsGoOn(execs[n], Healed[n])
    BY DEF AllGoOn
  <2>1. \A i \in DOMAIN execs[n] : execs[n][i] \in Execution
    BY Entries DEF MasterOK, MasterTypeOK
  <2>2. Healed[n] = [i \in DOMAIN execs[n] |->
                        Heal(execs[n][i], <<n, i>> \in late, online[n])]
    BY <1>2 DEF Healed
  <2>3. \A i \in DOMAIN execs[n] : GoesOn(execs[n][i], Healed[n][i])
    BY <2>1, <2>2, HealGoesOn
  <2>4. DOMAIN Healed[n] = DOMAIN execs[n]
    BY <2>2
  <2> QED  BY <2>3, <2>4 DEF RowsGoOn
<1> QED  BY <1>1, <1>2

LEMMA TickQueueLonger ==
    ASSUME NEW r \in Run, NEW xs, ExecsOK(xs), TickQueue(r, xs)
    PROVE  \A n \in Nodes : Longer(xs[n], execs'[n])
<1> DEFINE barred == {n \in Nodes : status[n] \in {"quarantined", "revoked"}}
           chosen == IF halted THEN {} ELSE Started(r, xs, barred)
           skipped == IF halted THEN {} ELSE Ready(r, xs) \cap barred
<1>1. PICK out \in [chosen -> QueueOutcomes] :
         execs' = [n \in Nodes |->
                  IF n \in chosen
                  THEN Append(xs[n], Fresh(StopsAt(xs[n]), out[n], 0))
                  ELSE IF n \in skipped
                  THEN Append(xs[n], Fresh(StopsAt(xs[n]), "cancelled", 0))
                  ELSE xs[n]]
  BY DEF TickQueue
<1>2. \A n \in chosen \cup skipped : StopsAt(xs[n]) \in Steps
  BY ReadyStops DEF Ready, Started
<1>3. \A n \in chosen : out[n] \in EXEC_STATES
  BY <1>1, MasterAssumption DEF EXEC_STATES
<1> HIDE DEF chosen, skipped
<1> SUFFICES ASSUME NEW n \in Nodes
             PROVE  Longer(xs[n], execs'[n])
  OBVIOUS
<1>4. xs[n] \in Seq(Execution)
  BY DEF ExecsOK
<1>5. ASSUME NEW s \in EXEC_STATES, n \in chosen \cup skipped,
             execs'[n] = Append(xs[n], Fresh(StopsAt(xs[n]), s, 0))
      PROVE  Longer(xs[n], execs'[n])
  <2>1. Fresh(StopsAt(xs[n]), s, 0) \in Execution
    BY <1>2, <1>5, FreshOK
  <2> QED  BY <1>4, <1>5, <2>1, AppendLonger
<1>6. CASE n \in chosen
  BY <1>1, <1>3, <1>5, <1>6
<1>7. CASE n \notin chosen /\ n \in skipped
  <2>1. "cancelled" \in EXEC_STATES
    BY DEF EXEC_STATES
  <2> QED  BY <1>1, <1>5, <1>7, <2>1
<1>8. CASE n \notin chosen /\ n \notin skipped
  BY <1>1, <1>8, SameGoesOn
<1> QED  BY <1>6, <1>7, <1>8

LEMMA TickGoesOn ==
    ASSUME MasterOK, Tick
    PROVE  AllGoOn(execs, execs')
<1>1. AllGoOn(execs, Healed) /\ ExecsOK(Healed) /\ run \in Run
  BY HealedGoesOn, HealedOK DEF MasterOK, MasterTypeOK
<1>2. TheRun \in Run
  BY <1>1 DEF TheRun, Run, RUN_STATES
<1>3. CASE TickEnded
  BY <1>3, SameGoesOn DEF TickEnded, AllGoOn
<1>4. CASE execs' = Healed
  BY <1>1, <1>4
<1>5. CASE TickUndo(TheRun, Healed) \/ TickQueue(TheRun, Healed)
  <2>1. \A n \in Nodes : Longer(Healed[n], execs'[n])
    BY <1>1, <1>2, <1>5, QueueUndosLonger, TickQueueLonger DEF TickUndo
  <2> QED  BY <1>1, <2>1, LongerGoesOn DEF AllGoOn
<1> QED  BY <1>3, <1>4, <1>5 DEF Tick, TickHealth, TickRollingBack, TickJudge

LEMMA StoppedGoesOn ==
    ASSUME MasterOK, NEW all \in BOOLEAN
    PROVE  AllGoOn(execs, StoppedRows(all))
<1> SUFFICES ASSUME NEW n \in Nodes
             PROVE  RowsGoOn(execs[n], StoppedRows(all)[n])
  BY DEF AllGoOn
<1>1. execs[n] \in Seq(Execution)
  BY DEF MasterOK, MasterTypeOK
<1>2. \A e \in Execution : GoesOn(e, Stopped(e)) /\ GoesOn(e, e)
  BY DEF Stopped, GoesOn, Goes, Execution, EXEC_LIVE, EXEC_IN_FLIGHT
<1>3. \A i \in DOMAIN execs[n] : GoesOn(execs[n][i], StoppedRows(all)[n][i])
  BY <1>1, <1>2, Entries DEF StoppedRows
<1>4. DOMAIN StoppedRows(all)[n] = DOMAIN execs[n]
  BY DEF StoppedRows
<1> QED  BY <1>3, <1>4 DEF RowsGoOn

\* One row of the master is rewritten; the others stay.
LEMMA OneGoesOn ==
    ASSUME execs \in [Nodes -> Seq(Execution)], NEW n \in Nodes, NEW y,
           execs' = [execs EXCEPT ![n] = y], RowsGoOn(execs[n], y)
    PROVE  AllGoOn(execs, execs')
BY SameGoesOn DEF AllGoOn

LEMMA RetryNodeGoesOn ==
    ASSUME MasterOK, NEW a \in Actors, op[a].node \in Nodes, RetryNode(a)
    PROVE  AllGoOn(execs, execs')
<1> DEFINE n == op[a].node
           x == execs[n]
           s == StopsAt(x)
<1>1. execs \in [Nodes -> Seq(Execution)] /\ n \in Nodes /\ x \in Seq(Execution)
  BY DEF MasterOK, ExecsOK
<1>2. CASE ~Retriable(x)
  BY <1>2, SameGoesOn DEF RetryNode, AllGoOn
<1>3. CASE Retriable(x)
  <2>1. PICK out \in QueueOutcomes, i \in Latest(x, s) :
           execs' = [execs EXCEPT ![n] = Append(@, Fresh(s, out, x[i].attempts))]
    BY <1>3 DEF RetryNode
  <2>2. s \in Steps /\ i \in DOMAIN x /\ out \in EXEC_STATES
    BY <1>3, StopsAtStep, MasterAssumption DEF Retriable, Latest, EXEC_STATES
  <2>3. x[i].attempts \in Nat
    BY <1>1, <2>2, Entries DEF Execution
  <2> DEFINE e == Fresh(s, out, x[i].attempts)
  <2>4. e \in Execution
    BY <2>2, <2>3, FreshOK
  <2>5. execs' = [execs EXCEPT ![n] = Append(x, e)]
    BY <2>1
  <2> HIDE DEF e
  <2>6. RowsGoOn(x, Append(x, e))
    BY <1>1, <2>4, AppendLonger, SameGoesOn, LongerGoesOn
  <2> QED  BY <1>1, <2>5, <2>6, OneGoesOn
<1> QED  BY <1>2, <1>3

LEMMA CarryGoesOn ==
    ASSUME MasterOK, NEW a \in Actors, Carry(a)
    PROVE  AllGoOn(execs, execs')
<1>1. op[a].node \in Nodes /\ execs \in [Nodes -> Seq(Execution)]
  <2>1. (CHOOSE n \in Nodes : TRUE) \in Nodes /\ op[a] \in Commands
    BY PlanAssumption DEF MasterOK, MasterTypeOK
  <2> QED  BY <2>1 DEF Commands, NoOp, MasterOK, MasterTypeOK
<1>2. CASE UNCHANGED execs
  BY <1>2, SameGoesOn DEF AllGoOn
<1>3. CASE Cancel(a)
  <2>1. execs' = StoppedRows(TRUE)
    BY <1>3 DEF Cancel, StoppedRows
  <2> QED  BY <2>1, StoppedGoesOn
<1>4. CASE StartRollback(a)
  <2>1. QueueUndos(StoppedRows(FALSE), Nodes)
    BY <1>4 DEF StartRollback, StoppedRows
  <2>2. ExecsOK(StoppedRows(FALSE)) /\ AllGoOn(execs, StoppedRows(FALSE))
    BY StoppedRowsOK, StoppedGoesOn DEF MasterOK
  <2>3. \A n \in Nodes : Longer(StoppedRows(FALSE)[n], execs'[n])
    BY <2>1, <2>2, QueueUndosLonger
  <2> QED  BY <2>2, <2>3, LongerGoesOn DEF AllGoOn
<1>5. CASE SetStatus(a)
  <2> DEFINE n == op[a].node
             x == execs[n]
             y == [i \in DOMAIN x |-> IF x[i].state \in EXEC_LIVE
                                      THEN [x[i] EXCEPT !.state = "unreachable"]
                                      ELSE x[i]]
  <2>1. execs' = execs \/ execs' = [execs EXCEPT ![n] = y]
    BY <1>5, <1>1 DEF SetStatus
  <2>2. \A e \in Execution :
           /\ e.state \in EXEC_LIVE => GoesOn(e, [e EXCEPT !.state = "unreachable"])
           /\ GoesOn(e, e)
    BY DEF GoesOn, Goes, Execution, EXEC_LIVE
  <2>3. x \in Seq(Execution)
    BY <1>1
  <2>4. \A i \in DOMAIN x : GoesOn(x[i], y[i])
    BY <2>2, <2>3, Entries
  <2>5. RowsGoOn(x, y)
    BY <2>4 DEF RowsGoOn
  <2> HIDE DEF y
  <2> QED  BY <1>1, <1>2, <2>1, <2>5, OneGoesOn
<1>6. CASE RetryNode(a)
  BY <1>1, <1>6, RetryNodeGoesOn
<1> QED  BY <1>2, <1>3, <1>4, <1>5, <1>6
         DEF Carry, Approve, Reject, Expire, Pause, ResumeRun

LEMMA ClaimGoesOn ==
    ASSUME MasterOK, NEW n \in Nodes, NEW ids,
           NEW out \in [Claims(n, ids) -> DispatchOutcomes], Claim(n, out)
    PROVE  AllGoOn(execs, execs')
<1> DEFINE x == execs[n]
           y == [i \in DOMAIN x |-> IF i \in DOMAIN out THEN Dispatch(x[i], out[i])
                                    ELSE x[i]]
<1>1. execs \in [Nodes -> Seq(Execution)] /\ x \in Seq(Execution)
  BY DEF MasterOK, ExecsOK
<1>2. execs' = [execs EXCEPT ![n] = y]
  BY <1>1 DEF Claim
<1>3. \A i \in DOMAIN out : x[i].state = "queued" /\ out[i] \in DispatchOutcomes
  BY DEF Claims, Claimable
<1>4. \A e \in Execution, s \in DispatchOutcomes :
         e.state = "queued" => GoesOn(e, Dispatch(e, s))
  BY MasterAssumption DEF Dispatch, GoesOn, Goes, Execution, EXEC_LIVE
<1>5. \A e \in Execution : GoesOn(e, e)
  BY DEF GoesOn, Goes
<1>6. \A i \in DOMAIN x : GoesOn(x[i], y[i])
  BY <1>1, <1>3, <1>4, <1>5, Entries
<1>7. RowsGoOn(x, y)
  BY <1>6 DEF RowsGoOn
<1> HIDE DEF y
<1> QED  BY <1>1, <1>2, <1>7, OneGoesOn

\* A state that is written by the hub: of a row in flight, to go on.
LEMMA MovedGoes ==
    ASSUME MasterOK, NEW n \in Nodes, NEW i, NEW s \in EXEC_STATES, s # "queued",
           execs' = Moved(n, i, s)
    PROVE  /\ \A m \in Nodes : RowsGo(execs[m], execs'[m])
           /\ execs[n][i].state \in EXEC_LIVE => AllGoOn(execs, execs')
<1> DEFINE x == execs[n]
           y == [x EXCEPT ![i].state = s]
<1>1. execs \in [Nodes -> Seq(Execution)] /\ x \in Seq(Execution)
  BY DEF MasterOK, ExecsOK
<1>2. execs' = [execs EXCEPT ![n] = y]
  BY <1>1 DEF Moved
<1>3. \A e \in Execution : /\ Goes(e, [e EXCEPT !.state = s]) /\ GoesOn(e, e)
                           /\ e.state \in EXEC_LIVE => GoesOn(e, [e EXCEPT !.state = s])
  BY DEF GoesOn, Goes, Execution
<1>4. \A j \in DOMAIN x : y[j] = IF j = i THEN [x[j] EXCEPT !.state = s] ELSE x[j]
  OBVIOUS
<1>5. \A j \in DOMAIN x : x[j] \in Execution
  BY <1>1, Entries
<1>6. RowsGo(x, y)
  BY <1>3, <1>4, <1>5 DEF RowsGo, GoesOn
<1>7. x[i].state \in EXEC_LIVE => RowsGoOn(x, y)
  BY <1>3, <1>4, <1>5 DEF RowsGoOn
<1> HIDE DEF y
<1>8. \A m \in Nodes : RowsGo(execs[m], execs'[m])
  BY <1>1, <1>2, <1>6, SameGoesOn, GoOnGoes
<1> QED  BY <1>1, <1>2, <1>7, <1>8, OneGoesOn

-----------------------------------------------------------------------------
(* Who gets new work: the nodes that a tick starts, and those an operator     *)
(* retries.                                                                   *)

\* The rows of y that x has not are rollbacks.
NoNewWork(x, y) == \A i \in DOMAIN y : i \in DOMAIN x \/ y[i].undoes # 0

\* The nodes that work on a step.
Working(xs) ==
    {n \in Nodes : \E i \in DOMAIN xs[n] :
        xs[n][i].undoes = 0 /\ xs[n][i].state \in EXEC_LIVE}

LEMMA UndosNew ==
    ASSUME NEW x \in Seq(Execution), NEW y \in Undoings(x)
    PROVE  NoNewWork(x, y)
<1> DEFINE c == Cardinality(RollbackTargets(x))
<1>1. PICK f \in NewestFirst(x), out \in [RollbackTargets(x) -> UndoOutcomes] :
         y = WithUndos(x, f, out)
  BY DEF Undoings
<1>2. /\ RollbackTargets(x) \subseteq 1..Len(x) /\ c \in Nat
      /\ DOMAIN x = 1..Len(x) /\ Len(x) \in Nat
  BY TargetsFinite, LenProperties
<1>3. f \in [1..c -> RollbackTargets(x)]
  BY DEF NewestFirst
<1>4. y = [i \in 1..Len(x) + c |->
              IF i <= Len(x) THEN x[i]
              ELSE Undo(x, f[i - Len(x)], out[f[i - Len(x)]])]
  BY <1>1 DEF WithUndos
<1> HIDE DEF c
<1>5. ASSUME NEW i \in DOMAIN y, i \notin DOMAIN x
      PROVE  y[i].undoes # 0
  <2>1. i \in 1..Len(x) + c /\ ~(i <= Len(x)) /\ i - Len(x) \in 1..c
    BY <1>2, <1>4, <1>5
  <2>2. f[i - Len(x)] \in 1..Len(x)
    BY <1>2, <1>3, <2>1
  <2>3. y[i].undoes = f[i - Len(x)]
    BY <1>4, <2>1 DEF Undo
  <2> QED  BY <1>2, <2>2, <2>3
<1> QED  BY <1>5 DEF NoNewWork

LEMMA QueueUndosNew ==
    ASSUME NEW xs, ExecsOK(xs), NEW ns, QueueUndos(xs, ns)
    PROVE  \A n \in Nodes : NoNewWork(xs[n], execs'[n])
<1>1. PICK ys \in [ns -> UNION {Undoings(xs[n]) : n \in ns}] :
         /\ \A n \in ns : ys[n] \in Undoings(xs[n])
         /\ execs' = [n \in Nodes |-> IF n \in ns THEN ys[n] ELSE xs[n]]
  BY DEF QueueUndos
<1> SUFFICES ASSUME NEW n \in Nodes
             PROVE  NoNewWork(xs[n], execs'[n])
  OBVIOUS
<1>2. xs[n] \in Seq(Execution)
  BY DEF ExecsOK
<1>3. CASE n \in ns
  <2>1. ys[n] \in Undoings(xs[n]) /\ execs'[n] = ys[n]
    BY <1>1, <1>3
  <2> QED  BY <1>2, <2>1, UndosNew
<1>4. CASE n \notin ns
  BY <1>1, <1>4 DEF NoNewWork
<1> QED  BY <1>3, <1>4

LEMMA HealedPlaces ==
    ASSUME MasterOK, NEW n \in Nodes
    PROVE  DOMAIN Healed[n] = DOMAIN execs[n]
BY DEF Healed

LEMMA TickNew ==
    ASSUME MasterOK, Tick, ~TickQueue(TheRun, Healed), NEW n \in Nodes
    PROVE  NoNewWork(execs[n], execs'[n])
<1>1. ExecsOK(Healed)
  BY HealedOK DEF MasterOK
<1>2. CASE execs' = execs
  BY <1>2 DEF NoNewWork
<1>3. CASE execs' = Healed
  BY <1>3, HealedPlaces DEF NoNewWork
<1>4. CASE TickUndo(TheRun, Healed)
  <2>1. NoNewWork(Healed[n], execs'[n])
    BY <1>1, <1>4, QueueUndosNew DEF TickUndo
  <2> QED  BY <2>1, HealedPlaces DEF NoNewWork
<1> QED  BY <1>2, <1>3, <1>4
         DEF Tick, TickEnded, TickHealth, TickRollingBack, TickJudge

LEMMA CarryNew ==
    ASSUME MasterOK, NEW a \in Actors, Carry(a), ~RetryNode(a), NEW n \in Nodes
    PROVE  NoNewWork(execs[n], execs'[n])
<1>1. execs \in [Nodes -> Seq(Execution)]
  BY DEF MasterOK, MasterTypeOK
<1>2. CASE UNCHANGED execs
  BY <1>2 DEF NoNewWork
<1>3. CASE Cancel(a)
  BY <1>1, <1>3 DEF Cancel, NoNewWork
<1>4. CASE SetStatus(a)
  <2>1. DOMAIN execs'[n] = DOMAIN execs[n]
    BY <1>1, <1>4 DEF SetStatus
  <2> QED  BY <2>1 DEF NoNewWork
<1>5. CASE StartRollback(a)
  <2>1. QueueUndos(StoppedRows(FALSE), Nodes) /\ ExecsOK(StoppedRows(FALSE))
    BY <1>5, StoppedRowsOK DEF StartRollback, StoppedRows, MasterOK
  <2>2. NoNewWork(StoppedRows(FALSE)[n], execs'[n])
    BY <2>1, QueueUndosNew
  <2>3. DOMAIN StoppedRows(FALSE)[n] = DOMAIN execs[n]
    BY DEF StoppedRows
  <2> QED  BY <2>2, <2>3 DEF NoNewWork
<1> QED  BY <1>2, <1>3, <1>4, <1>5
         DEF Carry, Approve, Reject, Expire, Pause, ResumeRun

LEMMA ClaimAdds ==
    ASSUME MasterOK, NEW m \in Nodes, NEW ids,
           NEW out \in [Claims(m, ids) -> DispatchOutcomes], Claim(m, out), NEW n \in Nodes
    PROVE  DOMAIN execs'[n] = DOMAIN execs[n]
BY DEF MasterOK, MasterTypeOK, Claim

\* Nobody gets to work, and no row that ended is revived.
LEMMA WorkingShrinks ==
    ASSUME NEW xs, NEW ys, AllGoOn(xs, ys), \A n \in Nodes : NoNewWork(xs[n], ys[n])
    PROVE  Working(ys) \subseteq Working(xs)
<1> SUFFICES ASSUME NEW n \in Nodes, NEW i \in DOMAIN ys[n],
                    ys[n][i].undoes = 0, ys[n][i].state \in EXEC_LIVE
             PROVE  n \in Working(xs)
  BY DEF Working
<1>1. i \in DOMAIN xs[n]
  BY DEF NoNewWork
<1>2. GoesOn(xs[n][i], ys[n][i])
  BY <1>1 DEF AllGoOn, RowsGoOn
<1> QED  BY <1>1, <1>2 DEF GoesOn, Goes, Working

\* As many nodes are started as there are slots.
LEMMA StartedFits ==
    ASSUME NEW r, r.batch \in DOMAIN Batches, NEW xs, NEW barred,
           NEW room \in Nat, room = MaxParallel - Cardinality(LiveNodes(xs))
    PROVE  /\ IsFiniteSet(Started(r, xs, barred))
           /\ Cardinality(Started(r, xs, barred)) <= room
<1> DEFINE b == Batches[r.batch]
           waiting == Ready(r, xs) \ barred
           Before(l) == {j \in 1..l - 1 : b[j] \in waiting}
           S == {l \in DOMAIN b : b[l] \in waiting /\ Cardinality(Before(l)) < room}
           chosen == Started(r, xs, barred)
           At(n) == CHOOSE l \in S : b[l] = n
           f == [n \in chosen |-> Cardinality(Before(At(n)))]
<1>1. chosen = {b[l] : l \in S}
  BY DEF Started
<1>2. DOMAIN b = 1..Len(b) /\ Len(b) \in Nat
  <2>1. b \in Seq(Nodes)
    BY PlanAssumption, LenProperties, ElementOfSeq
  <2> QED  BY <2>1, LenProperties
<1> HIDE DEF b, waiting
<1>3. ASSUME NEW l \in DOMAIN b
      PROVE  IsFiniteSet(Before(l)) /\ Cardinality(Before(l)) \in Nat
  <2>1. 1 \in Int /\ l - 1 \in Int
    BY <1>2
  <2>2. IsFiniteSet(1..l - 1)
    BY <2>1, FS_Interval
  <2>3. Before(l) \subseteq 1..l - 1
    OBVIOUS
  <2> HIDE DEF Before
  <2>4. IsFiniteSet(Before(l))
    BY <2>2, <2>3, FS_Subset
  <2> QED  BY <2>4, FS_CardinalityType
<1>4. ASSUME NEW l \in S, NEW m \in S, l < m
      PROVE  Cardinality(Before(l)) # Cardinality(Before(m))
  <2>1. /\ l \in DOMAIN b /\ m \in DOMAIN b /\ b[l] \in waiting
        /\ l \in Before(m) /\ l \notin Before(l) /\ Before(l) \subseteq Before(m)
    BY <1>2, <1>4
  <2>2. Before(l) # Before(m)
    BY <2>1
  <2> HIDE DEF Before
  <2> QED  BY <1>3, <2>1, <2>2, FS_Subset
<1>5. \A n \in chosen : At(n) \in S /\ b[At(n)] = n
  BY <1>1
<1>6. f \in Injection(chosen, 0..room - 1)
  <2>1. \A n \in chosen : Cardinality(Before(At(n))) \in 0..room - 1
    <3> SUFFICES ASSUME NEW n \in chosen
                 PROVE  Cardinality(Before(At(n))) \in 0..room - 1
      OBVIOUS
    <3>1. At(n) \in DOMAIN b /\ Cardinality(Before(At(n))) < room
      BY <1>5
    <3>2. Cardinality(Before(At(n))) \in Nat
      BY <1>3, <3>1
    <3> QED  BY <3>1, <3>2
  <2>2. f \in [chosen -> 0..room - 1]
    BY <2>1
  <2>3. ASSUME NEW n \in chosen, NEW m \in chosen, f[n] = f[m]
        PROVE  n = m
    <3>1. At(n) \in S /\ At(m) \in S /\ b[At(n)] = n /\ b[At(m)] = m
      BY <1>5
    <3>2. Cardinality(Before(At(n))) = Cardinality(Before(At(m)))
      BY <2>3
    <3>3. ~(At(n) < At(m)) /\ ~(At(m) < At(n))
      BY <1>4, <3>1, <3>2
    <3>4. At(n) \in 1..Len(b) /\ At(m) \in 1..Len(b)
      BY <1>2, <3>1
    <3> HIDE DEF At
    <3>5. At(n) = At(m)
      BY <1>2, <3>3, <3>4
    <3> QED  BY <3>1, <3>5
  <2>4. DOMAIN f = chosen
    OBVIOUS
  <2> HIDE DEF f, chosen
  <2> QED  BY <2>2, <2>3, <2>4 DEF Injection, IsInjective
<1>7. IsFiniteSet(0..room - 1) /\ Cardinality(0..room - 1) = room
  <2>1. 0 \in Int /\ room - 1 \in Int
    OBVIOUS
  <2>2. /\ IsFiniteSet(0..room - 1)
        /\ Cardinality(0..room - 1) = IF 0 > room - 1 THEN 0 ELSE room - 1 - 0 + 1
    BY <2>1, FS_Interval
  <2> QED  BY <2>2
<1> HIDE DEF f
<1>8. IsFiniteSet(chosen) /\ Cardinality(chosen) <= Cardinality(0..room - 1)
  <2> HIDE DEF chosen
  <2> QED  BY <1>6, <1>7, FS_Injection
<1> QED  BY <1>7, <1>8

LEMMA TickQueueCapped ==
    ASSUME NEW r \in Run, r.batch \in DOMAIN Batches, NEW xs, ExecsOK(xs),
           TickQueue(r, xs)
    PROVE  \/ Working(execs') \subseteq Working(xs)
           \/ /\ IsFiniteSet(Working(execs'))
              /\ Cardinality(Working(execs')) <= MaxParallel
<1> DEFINE barred == {n \in Nodes : status[n] \in {"quarantined", "revoked"}}
           chosen == IF halted THEN {} ELSE Started(r, xs, barred)
           skipped == IF halted THEN {} ELSE Ready(r, xs) \cap barred
           room == MaxParallel - Cardinality(LiveNodes(xs))
<1>1. PICK out \in [chosen -> QueueOutcomes] :
         execs' = [n \in Nodes |->
                  IF n \in chosen
                  THEN Append(xs[n], Fresh(StopsAt(xs[n]), out[n], 0))
                  ELSE IF n \in skipped
                  THEN Append(xs[n], Fresh(StopsAt(xs[n]), "cancelled", 0))
                  ELSE xs[n]]
  BY DEF TickQueue
<1>2. IsFiniteSet(LiveNodes(xs)) /\ Cardinality(LiveNodes(xs)) \in Nat
  <2>1. LiveNodes(xs) \subseteq Nodes /\ IsFiniteSet(Nodes)
    BY PlanAssumption DEF LiveNodes
  <2>2. IsFiniteSet(LiveNodes(xs))
    BY <2>1, FS_Subset
  <2> QED  BY <2>2, FS_CardinalityType
<1>3. Working(xs) \subseteq LiveNodes(xs)
  BY DEF Working, LiveNodes
<1>4. \A n \in skipped : StopsAt(xs[n]) \in Steps
  BY ReadyStops DEF Ready
<1> HIDE DEF skipped
<1>5. Working(execs') \subseteq Working(xs) \cup chosen
  <2> HIDE DEF chosen
  <2> SUFFICES ASSUME NEW n \in Nodes, n \notin chosen, NEW i \in DOMAIN execs'[n],
                      execs'[n][i].undoes = 0, execs'[n][i].state \in EXEC_LIVE
               PROVE  n \in Working(xs)
    BY DEF Working
  <2>1. xs[n] \in Seq(Execution)
    BY DEF ExecsOK
  <2>2. CASE n \in skipped
    <3> DEFINE e == Fresh(StopsAt(xs[n]), "cancelled", 0)
    <3>1. e \in Execution /\ e.state = "cancelled"
      <4>1. "cancelled" \in EXEC_STATES
        BY DEF EXEC_STATES
      <4> QED  BY <1>4, <2>2, <4>1, FreshOK DEF Fresh
    <3>2. execs'[n] = Append(xs[n], e)
      BY <1>1, <2>2
    <3> HIDE DEF e
    <3>3. /\ DOMAIN xs[n] = 1..Len(xs[n]) /\ Len(xs[n]) \in Nat
          /\ Append(xs[n], e) \in Seq(Execution)
          /\ Len(Append(xs[n], e)) = Len(xs[n]) + 1
          /\ \A j \in 1..Len(xs[n]) : Append(xs[n], e)[j] = xs[n][j]
          /\ Append(xs[n], e)[Len(xs[n]) + 1] = e
      BY <2>1, <3>1, LenProperties, AppendProperties
    <3>4. DOMAIN Append(xs[n], e) = 1..(Len(xs[n]) + 1)
      BY <3>3, LenProperties
    <3>5. i # Len(xs[n]) + 1
      BY <3>1, <3>2, <3>3 DEF EXEC_LIVE
    <3>6. i \in DOMAIN xs[n] /\ execs'[n][i] = xs[n][i]
      BY <3>2, <3>3, <3>4, <3>5
    <3> QED  BY <3>6 DEF Working
  <2>3. CASE n \notin skipped
    BY <1>1, <2>3 DEF Working
  <2> QED  BY <2>2, <2>3
<1>6. CASE halted
  BY <1>5, <1>6
<1>7. CASE ~halted /\ room \in Nat
  <2>1. chosen = Started(r, xs, barred)
    BY <1>7
  <2>2. IsFiniteSet(chosen) /\ Cardinality(chosen) <= room
    <3> HIDE DEF barred
    <3> QED  BY <1>7, <2>1, StartedFits
  <2> HIDE DEF chosen
  <2>3. /\ IsFiniteSet(LiveNodes(xs) \cup chosen)
        /\ Cardinality(LiveNodes(xs) \cup chosen) =
              Cardinality(LiveNodes(xs)) + Cardinality(chosen)
                 - Cardinality(LiveNodes(xs) \cap chosen)
    BY <1>2, <2>2, FS_Union
  <2>4. IsFiniteSet(LiveNodes(xs) \cap chosen)
    BY <2>2, FS_Subset
  <2>5. /\ Cardinality(LiveNodes(xs) \cap chosen) \in Nat
        /\ Cardinality(chosen) \in Nat
    BY <2>2, <2>4, FS_CardinalityType
  <2>6. MaxParallel \in Nat
    BY StrategyAssumption
  <2>7. Cardinality(LiveNodes(xs) \cup chosen) <= MaxParallel
    BY <1>2, <2>2, <2>3, <2>5, <2>6
  <2>8. Working(execs') \subseteq LiveNodes(xs) \cup chosen
    BY <1>3, <1>5
  <2>9. /\ IsFiniteSet(Working(execs'))
        /\ Cardinality(Working(execs')) <= Cardinality(LiveNodes(xs) \cup chosen)
    BY <2>3, <2>8, FS_Subset
  <2>10. /\ Cardinality(Working(execs')) \in Nat
         /\ Cardinality(LiveNodes(xs) \cup chosen) \in Nat
    BY <2>3, <2>9, FS_CardinalityType
  <2> QED  BY <2>6, <2>7, <2>9, <2>10
<1>8. CASE ~halted /\ room \notin Nat
  <2>1. chosen = Started(r, xs, barred)
    BY <1>8
  <2>2. Started(r, xs, barred) = {}
    <3> DEFINE b == Batches[r.batch]
    <3>1. b \in Seq(Nodes)
      BY PlanAssumption, LenProperties, ElementOfSeq
    <3>2. DOMAIN b = 1..Len(b) /\ Len(b) \in Nat
      BY <3>1, LenProperties
    <3>3. ASSUME NEW l \in DOMAIN b, NEW waiting
          PROVE  Cardinality({j \in 1..l - 1 : b[j] \in waiting}) \in Nat
      <4>1. 1 \in Int /\ l - 1 \in Int
        BY <3>2
      <4>2. IsFiniteSet(1..l - 1)
        BY <4>1, FS_Interval
      <4> DEFINE B == {j \in 1..l - 1 : b[j] \in waiting}
      <4>3. B \subseteq 1..l - 1
        OBVIOUS
      <4> HIDE DEF B
      <4>4. Cardinality(B) \in Nat
        BY <4>2, <4>3, FS_Subset, FS_CardinalityType
      <4> QED  BY <4>4 DEF B
    <3>4. \A c \in Nat : ~(c < room)
      BY <1>2, <1>8, StrategyAssumption
    <3> QED  BY <3>3, <3>4 DEF Started
  <2> QED  BY <1>5, <2>1, <2>2
<1> QED  BY <1>6, <1>7, <1>8

\* The run is never past its last batch.
LEMMA BatchKept ==
    ASSUME MasterOK, run.batch \in DOMAIN Batches,
           Tick \/ \E a \in Actors : Carry(a)
    PROVE  run'.batch \in DOMAIN Batches /\ TheRun.batch \in DOMAIN Batches
<1>1. DOMAIN Batches = 1..Len(Batches) /\ Len(Batches) \in Nat /\ Len(Batches) # 0
  BY PlanAssumption, LenProperties, EmptySeq
<1>2. run \in Run /\ TheRun \in Run /\ TheRun.batch \in DOMAIN Batches
  <2>1. run \in Run /\ 1 \in DOMAIN Batches
    BY <1>1 DEF MasterOK, MasterTypeOK
  <2>2. CASE run.state = "approved"
    <3>1. TheRun = [run EXCEPT !.state = "running", !.batch = 1]
      BY <2>2 DEF TheRun
    <3>2. TheRun \in Run /\ TheRun.batch = 1
      BY <2>1, <3>1 DEF Run, RUN_STATES
    <3> QED  BY <2>1, <3>2
  <2>3. CASE run.state # "approved"
    BY <2>1, <2>3 DEF TheRun
  <2> QED  BY <2>1, <2>2, <2>3
<1>3. ASSUME NEW xs, NEW over
      PROVE  Judged(TheRun, xs, over).batch \in DOMAIN Batches
  <2> DEFINE r == TheRun
  <2>1. Evaluated(r) \in Run /\ Evaluated(r).batch = r.batch
    BY <1>2 DEF Evaluated, Run
  <2> HIDE DEF r
  <2>2. \/ Judged(r, xs, over).batch = r.batch
        \/ Judged(r, xs, over).batch = r.batch + 1 /\ ~IsLast(r)
    <3>1. [r EXCEPT !.state = "paused"].batch = r.batch
      BY <1>2 DEF Run, r
    <3>2. \A s : [Evaluated(r) EXCEPT !.state = s].batch = r.batch
      BY <2>1 DEF Run
    <3>3. [Evaluated(r) EXCEPT !.rested = TRUE].batch = r.batch
      BY <2>1 DEF Run
    <3>4. [Evaluated(r) EXCEPT !.batch = r.batch + 1, !.rested = FALSE].batch = r.batch + 1
      BY <2>1 DEF Run
    <3> QED  BY <2>1, <3>1, <3>2, <3>3, <3>4 DEF Judged
  <2>3. r.batch \in 1..Len(Batches)
    BY <1>1, <1>2 DEF r
  <2>4. CASE Judged(r, xs, over).batch = r.batch
    BY <1>1, <2>3, <2>4 DEF r
  <2>5. CASE Judged(r, xs, over).batch = r.batch + 1 /\ ~IsLast(r)
    <3>1. ~(r.batch >= Len(Batches))
      BY <2>5 DEF IsLast
    <3>2. r.batch + 1 \in 1..Len(Batches)
      BY <1>1, <2>3, <3>1
    <3> QED  BY <1>1, <2>5, <3>2 DEF r
  <2> QED  BY <2>2, <2>4, <2>5
<1>4. CASE Tick
  <2>1. CASE TickEnded \/ TickHealth \/ TickRollingBack
    BY <1>2, <2>1 DEF TickEnded, TickHealth, TickRollingBack, Run
  <2>2. CASE TickUndo(TheRun, Healed) \/ TickQueue(TheRun, Healed)
    BY <1>2, <2>2 DEF TickUndo, TickQueue
  <2>3. CASE TickJudge(TheRun, Healed)
    <3>1. PICK over \in BOOLEAN : run' = Judged(TheRun, Healed, over)
      BY <2>3 DEF TickJudge
    <3>2. Judged(TheRun, Healed, over).batch \in DOMAIN Batches
      BY <1>3
    <3> QED  BY <1>2, <3>1, <3>2
  <2> QED  BY <1>2, <1>4, <2>1, <2>2, <2>3 DEF Tick
<1>5. ASSUME NEW a \in Actors, Carry(a)
      PROVE  run'.batch = run.batch
  BY <1>2, <1>5 DEF Carry, Approve, Reject, Expire, Pause, Cancel, ResumeRun,
     StartRollback, RetryNode, SetStatus, RunTo, Run
<1> QED  BY <1>2, <1>4, <1>5

-----------------------------------------------------------------------------
(* What is over at a node stays over.  As long as no operator retries it, it  *)
(* has one row for a step, so that the row is the latest one of the step.     *)

Single(x) ==
    \A i, j \in DOMAIN x :
        x[i].undoes = 0 /\ x[j].undoes = 0 /\ x[i].step = x[j].step => i = j

Over(x) == HasFailed(x) \/ \A s \in Steps : Passes(x, s)

\* y has one row for a step if x has, and what x came to is in y.
Retains(x, y) ==
    Single(x) =>
        /\ Single(y)
        /\ \A s \in Steps : /\ LatestIn(x, s, Fine) => LatestIn(y, s, Fine)
                            /\ FailedAt(x, s) => FailedAt(y, s)

\* The new rows of y undo something or are the only ones of their step.
NewSteps(x, y) ==
    \A i \in DOMAIN y :
        \/ i \in DOMAIN x \/ y[i].undoes # 0
        \/ \A j \in DOMAIN y : y[j].undoes = 0 /\ y[j].step = y[i].step => j = i

LEMMA RetainsSame ==
    ASSUME NEW x
    PROVE  Retains(x, x)
BY DEF Retains

LEMMA RetainsTwice ==
    ASSUME NEW x, NEW y, NEW z, Retains(x, y), Retains(y, z)
    PROVE  Retains(x, z)
BY DEF Retains

LEMMA RetainsOver ==
    ASSUME NEW x, NEW y, Retains(x, y), Single(x)
    PROVE  /\ HasFailed(x) => HasFailed(y)
           /\ Over(x) => Over(y)
<1>1. \A s \in Steps : /\ Passes(x, s) => Passes(y, s)
                       /\ FailedAt(x, s) => FailedAt(y, s)
  BY DEF Retains, Passes
<1>2. \A s \in Steps : \A t \in 1..s - 1 : t \in Steps
  BY PlanAssumption DEF Steps
<1>3. HasFailed(x) => HasFailed(y)
  BY <1>1, <1>2 DEF HasFailed, Comes
<1> QED  BY <1>1, <1>3 DEF Over

LEMMA GrownRetains ==
    ASSUME NEW x, NEW y, RowsGoOn(x, y), NewSteps(x, y)
    PROVE  Retains(x, y)
<1> SUFFICES ASSUME Single(x)
             PROVE  /\ Single(y)
                    /\ \A s \in Steps :
                          /\ LatestIn(x, s, Fine) => LatestIn(y, s, Fine)
                          /\ FailedAt(x, s) => FailedAt(y, s)
  BY DEF Retains
<1>1. \A i \in DOMAIN x : /\ i \in DOMAIN y
                          /\ y[i].step = x[i].step /\ y[i].undoes = x[i].undoes
                          /\ x[i].state \notin EXEC_LIVE => y[i].state = x[i].state
  BY DEF RowsGoOn, GoesOn, Goes
<1>2. Single(y)
  BY <1>1 DEF Single, NewSteps
<1>3. ASSUME NEW s \in Steps, NEW states, states \cap EXEC_LIVE = {},
             LatestIn(x, s, states)
      PROVE  LatestIn(y, s, states)
  <2>1. PICK i \in Latest(x, s) : x[i].state \in states
    BY <1>3 DEF LatestIn
  <2>2. /\ i \in DOMAIN x /\ x[i].undoes = 0 /\ x[i].step = s
        /\ x[i].state \notin EXEC_LIVE
        /\ \A j \in DOMAIN x : x[j].undoes = 0 /\ x[j].step = s => j <= i
    BY <1>3, <2>1 DEF Latest
  <2>3. i <= i
    BY <2>2
  <2>4. /\ i \in DOMAIN y /\ y[i].undoes = 0 /\ y[i].step = s
        /\ y[i].state = x[i].state
    BY <1>1, <2>2
  <2>5. \A j \in DOMAIN y : y[j].undoes = 0 /\ y[j].step = s => j = i
    BY <1>2, <2>4 DEF Single
  <2>6. i \in Latest(y, s)
    BY <2>3, <2>4, <2>5 DEF Latest
  <2> QED  BY <2>1, <2>4, <2>6 DEF LatestIn
<1>4. Fine \cap EXEC_LIVE = {} /\ (EXEC_TERMINAL \ Fine) \cap EXEC_LIVE = {}
  BY DEF Fine, EXEC_LIVE, EXEC_TERMINAL
<1> QED  BY <1>2, <1>3, <1>4 DEF FailedAt

\* A step that is ready has no row: the one that is queued is its only one.
LEMMA ReadyRetains ==
    ASSUME NEW x \in Seq(Execution), Progress(x) = "ready",
           NEW e \in Execution, e.undoes = 0, e.step = StopsAt(x)
    PROVE  Retains(x, Append(x, e))
<1> SUFFICES ASSUME Single(x)
             PROVE  Retains(x, Append(x, e))
  BY DEF Retains
<1>1. PICK s \in Steps : Stops(x, s) /\ Latest(x, s) = {}
  BY DEF Progress
<1>2. e.step = s
  BY <1>1, StopsAtStep
<1>3. /\ DOMAIN x = 1..Len(x) /\ Len(x) \in Nat
      /\ Append(x, e) \in Seq(Execution) /\ Len(Append(x, e)) = Len(x) + 1
      /\ \A i \in 1..Len(x) : Append(x, e)[i] = x[i]
      /\ Append(x, e)[Len(x) + 1] = e
  BY LenProperties, AppendProperties
<1>4. DOMAIN Append(x, e) = 1..(Len(x) + 1)
  BY <1>3, LenProperties
<1>5. ASSUME NEW j \in DOMAIN x, x[j].undoes = 0, x[j].step = s
      PROVE  FALSE
  <2>1. \A i \in DOMAIN x : x[i].undoes = 0 /\ x[i].step = s => i = j
    BY <1>5 DEF Single
  <2>2. j <= j
    BY <1>3
  <2>3. j \in Latest(x, s)
    BY <1>5, <2>1, <2>2 DEF Latest
  <2> QED  BY <1>1, <2>3
<1> DEFINE y == Append(x, e)
<1>6. \A i \in DOMAIN y : \/ i \in DOMAIN x /\ y[i] = x[i]
                          \/ i = Len(x) + 1 /\ y[i] = e
  BY <1>3, <1>4
<1>7. Longer(x, y)
  BY AppendLonger
<1> HIDE DEF y
<1>8. RowsGoOn(x, y)
  BY <1>7, SameGoesOn, LongerGoesOn
<1>9. NewSteps(x, y)
  BY <1>2, <1>5, <1>6 DEF NewSteps
<1> QED  BY <1>8, <1>9, GrownRetains DEF y

LEMMA LeastOf ==
    ASSUME NEW T, T \subseteq Nat, T # {}
    PROVE  \E m \in T : \A k \in T : m <= k
<1> DEFINE R == OpToRel(<, Nat)
<1>1. IsWellFoundedOn(R, Nat)
  BY NatLessThanWellFounded
<1>2. \A k, m \in Nat : k < m => <<k, m>> \in R
  BY DEF OpToRel
<1> HIDE DEF R
<1>3. PICK m \in T : \A k \in T : <<k, m>> \notin R
  BY <1>1, WFMin
<1>4. ASSUME NEW k \in T
      PROVE  m <= k
  <2>1. k \in Nat /\ m \in Nat /\ ~(k < m)
    BY <1>2, <1>3
  <2> QED  BY <2>1
<1> QED  BY <1>4

\* node_progress(): a node that is settled has failed or is past its last step.
LEMMA SettledOver ==
    ASSUME NEW x \in Seq(Execution), Settled(x)
    PROVE  Over(x)
<1>1. CASE \A s \in Steps : Passes(x, s)
  BY <1>1 DEF Over
<1>2. CASE ~\A s \in Steps : Passes(x, s)
  <2> DEFINE T == {s \in Steps : ~Passes(x, s)}
  <2>1. T \subseteq Nat /\ T # {}
    <3>1. T # {}
      BY <1>2
    <3>2. Steps \subseteq Nat
      BY PlanAssumption DEF Steps
    <3> QED  BY <3>1, <3>2
  <2>2. PICK m \in T : \A k \in T : m <= k
    <3> HIDE DEF T
    <3> QED  BY <2>1, LeastOf
  <2>3. Comes(x, m)
    <3> SUFFICES ASSUME NEW t \in 1..m - 1
                 PROVE  Passes(x, t)
      BY DEF Comes
    <3>1. t \in Steps /\ ~(m <= t)
      BY <2>1, PlanAssumption DEF Steps
    <3> QED  BY <2>2, <3>1
  <2>4. m \in Steps /\ Stops(x, m)
    BY <2>3 DEF Stops
  <2>5. Latest(x, m) # {} /\ ~LatestIn(x, m, EXEC_LIVE)
    BY <2>4 DEF Settled, Progress
  <2>6. PICK i \in Latest(x, m) : x[i].state \notin EXEC_LIVE
    BY <2>5 DEF LatestIn
  <2>7. x[i].state \in EXEC_STATES
    BY <2>6, Entries DEF Latest, Execution
  <2>8. ~LatestIn(x, m, Fine)
    BY <2>4 DEF Stops, Passes
  <2>9. FailedAt(x, m)
    BY <2>6, <2>7, <2>8 DEF FailedAt, LatestIn, EXEC_TERMINAL
  <2> QED  BY <2>3, <2>4, <2>9 DEF Over, HasFailed
<1> QED  BY <1>1, <1>2

\* A node that undoes its steps because one failed has failed.
LEMMA UndoesFailed ==
    ASSUME NEW x \in Seq(Execution), UndoesItself(x)
    PROVE  HasFailed(x)
<1>1. Settled(x) /\ Progress(x) = "failed"
  BY DEF UndoesItself, Settled
<1>2. ~\A s \in Steps : Passes(x, s)
  BY <1>1 DEF Progress
<1> QED  BY <1>1, <1>2, SettledOver DEF Over

\* All is done at a node that is over, has not failed and undoes nothing.
LEMMA OverDone ==
    ASSUME NEW x \in Seq(Execution), Single(x), Over(x), ~HasFailed(x), ~UndoLive(x)
    PROVE  /\ \A s \in Steps : LatestIn(x, s, Fine)
           /\ \A i \in DOMAIN x : x[i].state \notin EXEC_LIVE
<1>1. \A s \in Steps : Passes(x, s)
  BY DEF Over
<1>2. \A s \in Steps : Comes(x, s)
  <2>1. \A s \in Steps : \A t \in 1..s - 1 : t \in Steps
    BY PlanAssumption DEF Steps
  <2> QED  BY <1>1, <2>1 DEF Comes
<1>3. \A s \in Steps : LatestIn(x, s, Fine)
  BY <1>1, <1>2 DEF Passes, HasFailed
<1>4. ASSUME NEW i \in DOMAIN x, x[i].state \in EXEC_LIVE
      PROVE  FALSE
  <2>1. x[i].undoes = 0 /\ x[i].step \in Steps
    BY <1>4, Entries DEF UndoLive
  <2>2. PICK j \in Latest(x, x[i].step) : x[j].state \in Fine
    BY <1>3, <2>1 DEF LatestIn
  <2>3. j = i
    BY <2>1, <2>2 DEF Latest, Single
  <2> QED  BY <1>4, <2>2, <2>3 DEF Fine, EXEC_LIVE
<1> QED  BY <1>3, <1>4

LEMMA NoNewRetains ==
    ASSUME NEW x, NEW y, RowsGoOn(x, y), NoNewWork(x, y)
    PROVE  Retains(x, y)
BY GrownRetains DEF NoNewWork, NewSteps

\* A rollback that is live was live before, or is new.
LEMMA UndoLiveOld ==
    ASSUME NEW x, NEW y, RowsGoOn(x, y),
           \A i \in DOMAIN y : i \in DOMAIN x \/ y[i].undoes = 0
    PROVE  UndoLive(y) => UndoLive(x)
BY DEF UndoLive, RowsGoOn, GoesOn, Goes

LEMMA TickQueueRetains ==
    ASSUME NEW r \in Run, NEW xs, ExecsOK(xs), TickQueue(r, xs), NEW n \in Nodes
    PROVE  /\ Retains(xs[n], execs'[n])
           /\ UndoLive(execs'[n]) => UndoLive(xs[n])
<1> DEFINE barred == {m \in Nodes : status[m] \in {"quarantined", "revoked"}}
           chosen == IF halted THEN {} ELSE Started(r, xs, barred)
           skipped == IF halted THEN {} ELSE Ready(r, xs) \cap barred
<1>1. PICK out \in [chosen -> QueueOutcomes] :
         execs' = [m \in Nodes |->
                  IF m \in chosen
                  THEN Append(xs[m], Fresh(StopsAt(xs[m]), out[m], 0))
                  ELSE IF m \in skipped
                  THEN Append(xs[m], Fresh(StopsAt(xs[m]), "cancelled", 0))
                  ELSE xs[m]]
  BY DEF TickQueue
<1>2. \A m \in chosen \cup skipped : Progress(xs[m]) = "ready"
  BY DEF Ready, Started
<1>3. \A m \in chosen : out[m] \in EXEC_STATES
  BY <1>1, MasterAssumption DEF EXEC_STATES
<1> HIDE DEF chosen, skipped
<1>4. xs[n] \in Seq(Execution)
  BY DEF ExecsOK
<1>5. ASSUME NEW s \in EXEC_STATES, n \in chosen \cup skipped,
             execs'[n] = Append(xs[n], Fresh(StopsAt(xs[n]), s, 0))
      PROVE  /\ Retains(xs[n], execs'[n])
             /\ UndoLive(execs'[n]) => UndoLive(xs[n])
  <2> DEFINE e == Fresh(StopsAt(xs[n]), s, 0)
  <2>1. Progress(xs[n]) = "ready"
    BY <1>2, <1>5
  <2>2. e \in Execution /\ e.undoes = 0 /\ e.step = StopsAt(xs[n])
    BY <2>1, FreshOK, ReadyStops DEF Fresh
  <2>3. execs'[n] = Append(xs[n], e)
    BY <1>5
  <2> HIDE DEF e
  <2>4. Retains(xs[n], execs'[n])
    BY <1>4, <2>1, <2>2, <2>3, ReadyRetains
  <2>5. /\ DOMAIN xs[n] = 1..Len(xs[n]) /\ Len(xs[n]) \in Nat
        /\ Append(xs[n], e) \in Seq(Execution)
        /\ Len(Append(xs[n], e)) = Len(xs[n]) + 1
        /\ Append(xs[n], e)[Len(xs[n]) + 1] = e
    BY <1>4, <2>2, LenProperties, AppendProperties
  <2>6. DOMAIN Append(xs[n], e) = 1..(Len(xs[n]) + 1)
    BY <2>5, LenProperties
  <2>7. \A i \in DOMAIN execs'[n] : i \in DOMAIN xs[n] \/ i = Len(xs[n]) + 1
    BY <2>3, <2>5, <2>6
  <2>8. \A i \in DOMAIN execs'[n] : i \in DOMAIN xs[n] \/ execs'[n][i].undoes = 0
    BY <2>2, <2>3, <2>5, <2>7
  <2>9. Longer(xs[n], execs'[n])
    BY <1>4, <2>2, <2>3, AppendLonger
  <2>10. RowsGoOn(xs[n], execs'[n])
    BY <2>9, SameGoesOn, LongerGoesOn
  <2> QED  BY <2>4, <2>8, <2>10, UndoLiveOld
<1>6. CASE n \in chosen
  BY <1>1, <1>3, <1>5, <1>6
<1>7. CASE n \notin chosen /\ n \in skipped
  <2>1. "cancelled" \in EXEC_STATES
    BY DEF EXEC_STATES
  <2> QED  BY <1>1, <1>5, <1>7, <2>1
<1>8. CASE n \notin chosen /\ n \notin skipped
  BY <1>1, <1>8, RetainsSame
<1> QED  BY <1>6, <1>7, <1>8

LEMMA HealedRetains ==
    ASSUME MasterOK, NEW n \in Nodes
    PROVE  /\ Retains(execs[n], Healed[n])
           /\ UndoLive(Healed[n]) => UndoLive(execs[n])
<1>1. RowsGoOn(execs[n], Healed[n]) /\ DOMAIN Healed[n] = DOMAIN execs[n]
  BY HealedGoesOn, HealedPlaces DEF AllGoOn
<1>2. NoNewWork(execs[n], Healed[n])
  BY <1>1 DEF NoNewWork
<1> QED  BY <1>1, <1>2, NoNewRetains, UndoLiveOld

\* A tick undoes only what a node did before it failed.
LEMMA TickUndoRetains ==
    ASSUME NEW r, NEW xs, ExecsOK(xs), TickUndo(r, xs), NEW n \in Nodes, Single(xs[n])
    PROVE  /\ Retains(xs[n], execs'[n])
           /\ UndoLive(execs'[n]) => UndoLive(xs[n]) \/ HasFailed(execs'[n])
<1>1. xs[n] \in Seq(Execution) /\ QueueUndos(xs, MustUndo(r, xs))
  BY DEF ExecsOK, TickUndo
<1>2. NoNewWork(xs[n], execs'[n]) /\ Longer(xs[n], execs'[n])
  BY <1>1, QueueUndosNew, QueueUndosLonger
<1>3. RowsGoOn(xs[n], execs'[n])
  BY <1>2, SameGoesOn, LongerGoesOn
<1>4. Retains(xs[n], execs'[n])
  BY <1>2, <1>3, NoNewRetains
<1>5. CASE n \in MustUndo(r, xs)
  <2>1. HasFailed(xs[n])
    BY <1>1, <1>5, UndoesFailed DEF MustUndo
  <2> QED  BY <1>4, <2>1, RetainsOver
<1>6. CASE n \notin MustUndo(r, xs)
  <2>1. execs'[n] = xs[n]
    BY <1>1, <1>6 DEF QueueUndos
  <2> QED  BY <1>4, <2>1
<1> QED  BY <1>5, <1>6

LEMMA TickRetains ==
    ASSUME MasterOK, Tick, NEW n \in Nodes, Single(execs[n])
    PROVE  /\ Retains(execs[n], execs'[n])
           /\ UndoLive(execs'[n]) => UndoLive(execs[n]) \/ HasFailed(execs'[n])
<1>1. /\ Retains(execs[n], Healed[n]) /\ Single(Healed[n])
      /\ UndoLive(Healed[n]) => UndoLive(execs[n])
  BY HealedRetains DEF Retains
<1>2. ExecsOK(Healed) /\ TheRun \in Run
  BY HealedOK DEF MasterOK, MasterTypeOK, TheRun, Run, RUN_STATES
<1>3. CASE execs' = execs \/ execs' = Healed
  BY <1>1, <1>3, RetainsSame
<1>4. CASE TickUndo(TheRun, Healed)
  BY <1>1, <1>2, <1>4, TickUndoRetains, RetainsTwice
<1>5. CASE TickQueue(TheRun, Healed)
  BY <1>1, <1>2, <1>5, TickQueueRetains, RetainsTwice
<1> QED  BY <1>3, <1>4, <1>5
         DEF Tick, TickEnded, TickHealth, TickRollingBack, TickJudge

\* A run that is being rolled back ends when no rollback is live.
LEMMA TickRolledBack ==
    ASSUME Tick, run.state = "rolling_back", run'.state # "rolling_back", NEW n \in Nodes
    PROVE  ~UndoLive(execs'[n])
<1>1. TheRun = run /\ ~Running(TheRun)
  BY DEF TheRun, Running
<1>2. TickRollingBack
  BY <1>1 DEF Tick, TickEnded, TickHealth, TickUndo, TickQueue, TickJudge, RUN_TERMINAL
<1> QED  BY <1>2 DEF TickRollingBack

LEMMA CarryRetains ==
    ASSUME MasterOK, NEW a \in Actors, Carry(a), NEW n \in Nodes,
           ~RetryNode(a) \/ op[a].node # n
    PROVE  /\ Retains(execs[n], execs'[n])
           /\ \/ run'.state = "rolling_back"
              \/ UndoLive(execs'[n]) => UndoLive(execs[n])
<1>1. RowsGoOn(execs[n], execs'[n])
  BY CarryGoesOn DEF AllGoOn
<1>2. execs \in [Nodes -> Seq(Execution)] /\ run \in Run
  BY DEF MasterOK, MasterTypeOK
<1>3. CASE DOMAIN execs'[n] = DOMAIN execs[n]
  BY <1>1, <1>3, NoNewRetains, UndoLiveOld DEF NoNewWork
<1>4. CASE StartRollback(a)
  <2>1. run'.state = "rolling_back"
    BY <1>2, <1>4 DEF StartRollback, RunTo, Run
  <2>2. ~RetryNode(a)
    BY <1>4 DEF StartRollback, RetryNode, Doing
  <2> QED  BY <1>1, <2>1, <2>2, CarryNew, NoNewRetains
<1>5. CASE RetryNode(a)
  <2>1. execs'[n] = execs[n]
    BY <1>2, <1>5 DEF RetryNode
  <2> QED  BY <1>3, <2>1
<1>6. CASE Cancel(a) \/ SetStatus(a)
  <2>1. DOMAIN execs'[n] = DOMAIN execs[n]
    BY <1>2, <1>6 DEF Cancel, SetStatus
  <2> QED  BY <1>3, <2>1
<1>7. CASE UNCHANGED execs
  BY <1>3, <1>7
<1> QED  BY <1>4, <1>5, <1>6, <1>7
         DEF Carry, Approve, Reject, Expire, Pause, ResumeRun

\* What a judgement makes of a run.
LEMMA JudgedRun ==
    ASSUME NEW r \in Run, NEW xs, NEW over
    PROVE  /\ Judged(r, xs, over).batch \in {r.batch, r.batch + 1}
           /\ \/ Judged(r, xs, over).state \in {r.state, "paused", "failed"}
              \/ IsLast(r) /\ Outcome(xs) = "succeeded"
<1>1. Evaluated(r) \in Run /\ Evaluated(r).batch = r.batch /\ Evaluated(r).state = r.state
  BY DEF Evaluated, Run
<1>2. /\ [r EXCEPT !.state = "paused"].batch = r.batch
      /\ [r EXCEPT !.state = "paused"].state = "paused"
  BY DEF Run
<1>3. \A s : /\ [Evaluated(r) EXCEPT !.state = s].batch = r.batch
             /\ [Evaluated(r) EXCEPT !.state = s].state = s
  BY <1>1 DEF Run
<1>4. /\ [Evaluated(r) EXCEPT !.rested = TRUE].batch = r.batch
      /\ [Evaluated(r) EXCEPT !.rested = TRUE].state = r.state
  BY <1>1 DEF Run
<1>5. /\ [Evaluated(r) EXCEPT !.batch = r.batch + 1, !.rested = FALSE].batch = r.batch + 1
      /\ [Evaluated(r) EXCEPT !.batch = r.batch + 1, !.rested = FALSE].state = r.state
  BY <1>1 DEF Run
<1>6. Outcome(xs) \in {"succeeded", "failed"}
  BY DEF Outcome
<1> QED  BY <1>1, <1>2, <1>3, <1>4, <1>5, <1>6 DEF Judged

\* A batch that a tick leaves is settled; no other batch is left.
LEMMA TickLeaves ==
    ASSUME MasterOK, run.batch \in DOMAIN Batches, Tick, NEW b \in 1..run'.batch - 1
    PROVE  \/ b \in 1..run.batch - 1
           \/ /\ b = TheRun.batch /\ BatchSettled(TheRun, Healed)
              /\ execs' = Healed
<1>1. DOMAIN Batches = 1..Len(Batches) /\ Len(Batches) \in Nat
  BY PlanAssumption, LenProperties
<1>2. run \in Run /\ TheRun \in Run /\ TheRun.batch \in {1, run.batch}
  BY DEF MasterOK, MasterTypeOK, TheRun, Run, RUN_STATES
<1>3. run.batch \in Nat /\ 1 <= run.batch /\ TheRun.batch \in Nat
  BY <1>1, <1>2
<1>4. CASE run'.batch \in {run.batch, TheRun.batch}
  BY <1>2, <1>3, <1>4
<1>5. CASE TickJudge(TheRun, Healed)
  <2>1. PICK over \in BOOLEAN : run' = Judged(TheRun, Healed, over)
    BY <1>5 DEF TickJudge
  <2>2. run'.batch \in {TheRun.batch, TheRun.batch + 1}
    BY <1>2, <2>1, JudgedRun
  <2>3. BatchSettled(TheRun, Healed) /\ execs' = Healed
    BY <1>5 DEF TickJudge
  <2>4. b = TheRun.batch \/ b \in 1..run.batch - 1
    BY <1>2, <1>3, <2>2
  <2> QED  BY <2>3, <2>4
<1>6. CASE ~TickJudge(TheRun, Healed)
  <2>1. \A s : [run EXCEPT !.state = s].batch = run.batch
    BY <1>2 DEF Run
  <2>2. run'.batch \in {run.batch, TheRun.batch}
    BY <1>6, <2>1 DEF Tick, TickEnded, TickHealth, TickRollingBack, TickUndo, TickQueue
  <2> QED  BY <1>4, <2>2
<1> QED  BY <1>5, <1>6

\* Only a tick that finds the last batch settled lets a run succeed.
LEMMA TickSucceeds ==
    ASSUME MasterOK, Tick, run.state # "succeeded", run'.state = "succeeded"
    PROVE  /\ run.state # "rolling_back" /\ IsLast(TheRun)
           /\ BatchSettled(TheRun, Healed) /\ execs' = Healed
           /\ \A n \in Nodes : ~HasFailed(Healed[n])
<1>1. run \in Run /\ TheRun \in Run
  BY DEF MasterOK, MasterTypeOK, TheRun, Run, RUN_STATES
<1>2. TheRun.state # "succeeded"
  BY <1>1 DEF TheRun, Run
<1>3. TickJudge(TheRun, Healed)
  <2>1. ~TickRollingBack
    BY <1>1 DEF TickRollingBack, Undone, Run
  <2> QED  BY <1>2, <2>1 DEF Tick, TickEnded, TickHealth, TickUndo, TickQueue
<1>4. PICK over \in BOOLEAN : run' = Judged(TheRun, Healed, over)
  BY <1>3 DEF TickJudge
<1>5. IsLast(TheRun) /\ Outcome(Healed) = "succeeded"
  BY <1>1, <1>2, <1>4, JudgedRun
<1>6. \A n \in Nodes : ~HasFailed(Healed[n])
  BY <1>5 DEF Outcome
<1>7. run.state # "rolling_back"
  BY <1>3 DEF TickJudge, Running, TheRun
<1> QED  BY <1>3, <1>5, <1>6, <1>7 DEF TickJudge
=============================================================================
