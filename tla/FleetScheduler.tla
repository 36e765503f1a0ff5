--------------------------- MODULE FleetScheduler ---------------------------
(* The rollout engine of mu/orchestration/scheduler.py: what the executions   *)
(* of a node say about its progress, whom a failure undoes, and what a tick   *)
(* decides for a run.  Pure: a run record r, the executions xs of every node. *)
(*                                                                            *)
(* xs[n] is the sequence of node n's executions in the order of creation: an  *)
(* execution is named by its node and its place.  Batches are counted from 1, *)
(* not from 0, and evaluated = 0 means none.  Runs in check mode, `when' and  *)
(* `nodes' conditions only show as steps that are skipped.                    *)
EXTENDS FleetStates, Sequences, FiniteSets

CONSTANTS
    Nodes,          \* nodes the run was approved for
    Batches,        \* plan.batches: a sequence of sequences of nodes
    NumSteps,       \* plan.steps ...
    OnFailure,      \* ... their on_failure,
    Undoable,       \* ... those whose tool has a rollback tool,
    Repeatable,     \* ... and those whose tool is idempotent
    UndoRepeatable, \* are the rollback tools idempotent?
    HasCanary,      \* strategy.canary > 0
    Threshold,      \* strategy.failure_threshold, in percent
    MaxParallel,    \* strategy.max_parallel
    PauseBetween,   \* strategy.pause_between_s > 0
    MaxAttempts     \* max_attempts of the service

Steps == 1..NumSteps

MembersOf(b) == {Batches[b][k] : k \in DOMAIN Batches[b]}

ASSUME PlanAssumption ==
    /\ NumSteps \in Nat \ {0}
    /\ OnFailure \in [Steps -> {"stop", "continue", "rollback"}]
    /\ Undoable \subseteq Steps
    /\ Repeatable \subseteq Steps
    /\ IsFiniteSet(Nodes) /\ Nodes # {}
    /\ Batches \in Seq(Seq(Nodes)) /\ Batches # <<>>

\* make_batches() leaves no node out.
ASSUME BatchesAssumption ==
    \A n \in Nodes : \E b \in DOMAIN Batches : n \in MembersOf(b)

ASSUME StrategyAssumption ==
    /\ UndoRepeatable \in BOOLEAN /\ HasCanary \in BOOLEAN
    /\ PauseBetween \in BOOLEAN
    /\ Threshold \in 0..100
    /\ MaxParallel \in Nat \ {0}
    /\ MaxAttempts \in Nat \ {0}

Execution == [step : Steps, state : EXEC_STATES, attempts : Nat,
              cancel : BOOLEAN, undoes : Nat]

Run == [state : RUN_STATES, batch : Nat, evaluated : Nat, rested : BOOLEAN]

Repeats(x) == IF x.undoes = 0 THEN x.step \in Repeatable ELSE UndoRepeatable

-----------------------------------------------------------------------------
(* Progress of a node.                                                        *)

\* _latest(): the newest execution of a step, if there is one.
Latest(x, s) ==
    {i \in DOMAIN x :
        /\ x[i].undoes = 0 /\ x[i].step = s
        /\ \A j \in DOMAIN x : x[j].undoes = 0 /\ x[j].step = s => j <= i}

LatestIn(x, s, states) == \E i \in Latest(x, s) : x[i].state \in states

Fine == {"succeeded", "skipped"}

FailedAt(x, s) == LatestIn(x, s, EXEC_TERMINAL \ Fine)

\* The pipeline goes past a step that is fine, or that may fail.
Passes(x, s) ==
    LatestIn(x, s, Fine) \/ (FailedAt(x, s) /\ OnFailure[s] = "continue")

\* Where it stops: the first step it does not pass (none: NumSteps + 1).
StopsAt(x) == 1 + Cardinality({s \in Steps : \A t \in 1..s : Passes(x, t)})

Comes(x, s) == \A t \in 1..s - 1 : Passes(x, t)

Stops(x, s) == Comes(x, s) /\ ~Passes(x, s)

UndoLive(x) ==
    \E i \in DOMAIN x : x[i].undoes # 0 /\ x[i].state \in EXEC_LIVE

\* node_progress().status; waiting_rollback is "undoing".
Progress(x) ==
    CASE \E s \in Steps : Stops(x, s) /\ Latest(x, s) = {} -> "ready"
      [] \E s \in Steps : Stops(x, s) /\ LatestIn(x, s, EXEC_LIVE) -> "active"
      [] \A s \in Steps : Passes(x, s) -> IF UndoLive(x) THEN "undoing" ELSE "done"
      [] OTHER -> IF UndoLive(x) THEN "undoing" ELSE "failed"

\* node_progress().failed: a step it came to has failed, even if it may.
HasFailed(x) == \E s \in Steps : Comes(x, s) /\ FailedAt(x, s)

Settled(x) == Progress(x) \in {"done", "failed"}

\* Mutant: a change that is being undone is a target again.
RollbackTargets_Again(x) ==
    {i \in DOMAIN x :
        /\ x[i].undoes = 0 /\ x[i].state = "succeeded" /\ x[i].step \in Undoable
        /\ \A j \in DOMAIN x : x[j].undoes = i => x[j].state # "succeeded"}

\* rollback_targets(): completed changes that nothing undoes yet.
RollbackTargets(x) ==
    {i \in DOMAIN x :
        /\ x[i].undoes = 0 /\ x[i].state = "succeeded" /\ x[i].step \in Undoable
        /\ \A j \in DOMAIN x : x[j].undoes # i}

\* The targets in the order in which they are queued: newest step first.
NewestFirst(x) ==
    {f \in [1..Cardinality(RollbackTargets(x)) -> RollbackTargets(x)] :
        \A i, j \in DOMAIN f :
            i < j => f[i] # f[j] /\ x[f[i]].step >= x[f[j]].step}

-----------------------------------------------------------------------------
(* health(): what silence and time make of an execution.  `late' says that    *)
(* its clock ran out: the timeout of its tool, or the queue timeout.          *)

\* Mutant: any execution of a silent node is dispatched again.
Heal_AnyTool(x, late, online) ==
    CASE x.state \in EXEC_IN_FLIGHT /\ late ->
            [x EXCEPT !.state = "timed_out", !.cancel = TRUE]
      [] x.state \in EXEC_IN_FLIGHT /\ ~late /\ ~online ->
            IF x.attempts < MaxAttempts
            THEN [x EXCEPT !.state = "queued"]
            ELSE [x EXCEPT !.state = "unreachable"]
      [] x.state = "queued" /\ late /\ ~online ->
            [x EXCEPT !.state = "unreachable"]
      [] OTHER -> x

\* Mutant: an execution that was reported to run has no timeout.
Heal_RunningStays(x, late, online) ==
    CASE x.state = "dispatched" /\ late ->
            [x EXCEPT !.state = "timed_out", !.cancel = TRUE]
      [] x.state = "queued" /\ late /\ ~online ->
            [x EXCEPT !.state = "unreachable"]
      [] OTHER -> x

Heal(x, late, online) ==
    CASE x.state \in EXEC_IN_FLIGHT /\ late ->
            [x EXCEPT !.state = "timed_out", !.cancel = TRUE]
      [] x.state \in EXEC_IN_FLIGHT /\ ~late /\ ~online ->
            IF Repeats(x) /\ x.attempts < MaxAttempts
            THEN [x EXCEPT !.state = "queued"]
            ELSE [x EXCEPT !.state = "unreachable"]
      [] x.state = "queued" /\ late /\ ~online ->
            [x EXCEPT !.state = "unreachable"]
      [] OTHER -> x

-----------------------------------------------------------------------------
(* tick(): what a run does next.                                              *)

\* A failed step with on_failure: rollback undoes what the node completed.
UndoesItself(x) ==
    /\ Progress(x) = "failed"
    /\ \E s \in Steps : Stops(x, s) /\ OnFailure[s] = "rollback"
    /\ RollbackTargets(x) # {}

MustUndo(r, xs) == {n \in MembersOf(r.batch) : UndoesItself(xs[n])}

BatchSettled(r, xs) == \A n \in MembersOf(r.batch) : Settled(xs[n])

\* Mutant: a node that is done is given another step.
Ready_Done(r, xs) ==
    {n \in MembersOf(r.batch) : Progress(xs[n]) \in {"ready", "done"}}

Ready(r, xs) == {n \in MembersOf(r.batch) : Progress(xs[n]) = "ready"}

\* Mutant: queued executions take no slot.
LiveNodes_InFlight(xs) ==
    {n \in Nodes : \E i \in DOMAIN xs[n] : xs[n][i].state \in EXEC_IN_FLIGHT}

LiveNodes(xs) ==
    {n \in Nodes : \E i \in DOMAIN xs[n] : xs[n][i].state \in EXEC_LIVE}

\* Ready nodes that get a parallel slot, in the order of the batch.
Started(r, xs, ineligible) ==
    LET b == Batches[r.batch]
        waiting == Ready(r, xs) \ ineligible
        room == MaxParallel - Cardinality(LiveNodes(xs))
    IN {b[k] : k \in {l \in DOMAIN b :
            /\ b[l] \in waiting
            /\ Cardinality({j \in 1..l - 1 : b[j] \in waiting}) < room}}

Failing(b, xs) == {n \in MembersOf(b) : HasFailed(xs[n])}

IsLast(r) == r.batch >= Len(Batches)

IsCanary(b) == b = 1 /\ HasCanary /\ Len(Batches) > 1

\* More than the threshold of the batch has failed; the last one is not held.
TooMany(b, xs) ==
    /\ 100 * Cardinality(Failing(b, xs)) > Threshold * Len(Batches[b])
    /\ b < Len(Batches)

\* A settled batch that must not be left without a human.
Holds(b, xs) ==
    (IsCanary(b) /\ Failing(b, xs) # {}) \/ TooMany(b, xs)

\* Mutant: only the last batch counts.
Outcome_LastBatch(xs) ==
    IF Failing(Len(Batches), xs) # {} THEN "failed" ELSE "succeeded"

\* _finish()
Outcome(xs) ==
    IF \E n \in Nodes : HasFailed(xs[n]) THEN "failed" ELSE "succeeded"

\* The run with its batch evaluated.
Evaluated(r) == [r EXCEPT !.evaluated = IF @ < r.batch THEN r.batch ELSE @]

\* A settled batch is evaluated once; unless that holds the run, the batch is
\* left: the last one by finishing, the others after a rest, if the strategy
\* asks for one (`over' says that it is over).
Judged(r, xs, over) ==
    CASE r.evaluated < r.batch /\ Holds(r.batch, xs) ->
            [r EXCEPT !.state = "paused"]
      [] ~(r.evaluated < r.batch /\ Holds(r.batch, xs)) /\ IsLast(r) ->
            [Evaluated(r) EXCEPT !.state = Outcome(xs)]
      [] OTHER ->
            IF PauseBetween /\ ~r.rested
            THEN [Evaluated(r) EXCEPT !.rested = TRUE]
            ELSE IF PauseBetween /\ ~over THEN Evaluated(r)
            ELSE [Evaluated(r) EXCEPT !.batch = r.batch + 1, !.rested = FALSE]

\* The rollbacks of the whole run have ended: have all succeeded?
Undone(xs) ==
    IF \E n \in Nodes : \E i \in DOMAIN xs[n] :
          xs[n][i].undoes # 0 /\ xs[n][i].state # "succeeded"
    THEN "failed" ELSE "rolled_back"
=============================================================================
