----------------------------- MODULE FleetMaster -----------------------------
(* The master of a fleet and one run: the scheduler tick that is applied to   *)
(* it and the operator's commands (mu/orchestration/runs.py), node status     *)
(* (enroll.py), and the hub that hands executions to polling nodes and takes  *)
(* their events (hub.py).                                                     *)
(*                                                                            *)
(* A command checks the run it has read, then writes in a transaction of its  *)
(* own: op[a] is the command of actor a between the two.  So does the hub for *)
(* an event (FleetAgent), and the service, which lists the runs to tick.      *)
EXTENDS FleetScheduler

CONSTANTS
    Actors,             \* who gives commands: operators, the expiry of proposals
    QueueOutcomes,      \* what queueing a step may come to
    UndoOutcomes,       \* what queueing a rollback may come to
    DispatchOutcomes,   \* what making an envelope may come to
    MaxPerPoll          \* MAX_PER_POLL

ASSUME MasterAssumption ==
    /\ QueueOutcomes \subseteq {"queued", "skipped", "failed"}
    /\ UndoOutcomes \subseteq {"queued", "failed"}
    /\ DispatchOutcomes \subseteq {"dispatched", "failed", "cancelled"}
    /\ MaxPerPoll \in Nat

VARIABLES
    run,        \* the run's row
    execs,      \* its executions, per node
    late,       \* executions whose clock ran out, as <<node, place>>
    status,     \* status of each node
    online,     \* has it polled within offline_after_s?
    halted,     \* dispatch_paused: the kill switch
    listed,     \* the service is about to tick the run
    op          \* the command each actor is in the middle of

masterVars == <<run, execs, late, status, online, halted, listed, op>>

CommandKinds == {"approve", "reject", "expire", "cancel", "resume", "pause",
                 "start_rollback", "retry_node", "active", "quarantined",
                 "revoked"}

NoCommand == "none"

NoOp == [kind |-> NoCommand, batch |-> 0, node |-> CHOOSE n \in Nodes : TRUE]

Commands == [kind : CommandKinds, batch : Nat, node : Nodes] \cup {NoOp}

MasterInit ==
    /\ run = [state |-> "proposed", batch |-> 1, evaluated |-> 0, rested |-> FALSE]
    /\ execs = [n \in Nodes |-> <<>>]
    /\ late = {}
    /\ status = [n \in Nodes |-> "active"]
    /\ online = [n \in Nodes |-> TRUE]
    /\ halted = FALSE
    /\ listed = FALSE
    /\ op = [a \in Actors |-> NoOp]

-----------------------------------------------------------------------------
(* Queueing.                                                                  *)

\* _queue_step() and a skipped step: a new execution of a step of the plan.
Fresh(s, state, attempts) ==
    [step |-> s, state |-> state, attempts |-> attempts, cancel |-> FALSE,
     undoes |-> 0]

\* _insert_rollback()
Undo(x, i, state) ==
    [step |-> x[i].step, state |-> state, attempts |-> 0, cancel |-> FALSE,
     undoes |-> i]

\* The executions of a node with its rollbacks queued, in the order f.
WithUndos(x, f, out) ==
    [i \in 1..Len(x) + Cardinality(RollbackTargets(x)) |->
        IF i <= Len(x) THEN x[i] ELSE Undo(x, f[i - Len(x)], out[f[i - Len(x)]])]

Undoings(x) ==
    {WithUndos(x, f, out) : f \in NewestFirst(x),
                            out \in [RollbackTargets(x) -> UndoOutcomes]}

\* Everything that can be undone on the nodes ns is queued to be undone.
QueueUndos(xs, ns) ==
    \E ys \in [ns -> UNION {Undoings(xs[n]) : n \in ns}] :
        /\ \A n \in ns : ys[n] \in Undoings(xs[n])
        /\ execs' = [n \in Nodes |-> IF n \in ns THEN ys[n] ELSE xs[n]]

\* The named executions with a new state.
Moved(n, i, state) == [execs EXCEPT ![n][i].state = state]

-----------------------------------------------------------------------------
(* apply_tick(): one transaction.                                             *)

\* tick() of the service lists the runs first; paused and ended ones are left.
\* The list is a step of its own only where a command may come in between.
ListRuns ==
    /\ ~listed /\ run.state \in RUN_ACTIVE /\ \E a \in Actors : op[a] # NoOp
    /\ listed' = TRUE
    /\ UNCHANGED <<run, execs, late, status, online, halted, op>>

\* (Nothing is to be healed while every clock runs and every node is heard of.)
Healed ==
    IF late = {} /\ \A n \in Nodes : online[n] THEN execs
    ELSE [n \in Nodes |-> [i \in DOMAIN execs[n] |->
             Heal(execs[n][i], <<n, i>> \in late, online[n])]]

\* An execution that health() moved starts a new life.
Unmoved(e) == Healed[e[1]][e[2]].state = execs[e[1]][e[2]].state

TheRun == IF run.state = "approved"
          THEN [run EXCEPT !.state = "running", !.batch = 1]
          ELSE run

\* The run has ended since it was listed.
TickEnded ==
    /\ run.state \in RUN_TERMINAL
    /\ UNCHANGED <<run, execs, late>>

\* Paused since it was listed: health only.
TickHealth ==
    /\ run.state = "paused"
    /\ execs' = Healed
    /\ UNCHANGED run

TickRollingBack ==
    /\ run.state = "rolling_back"
    /\ execs' = Healed
    /\ run' = IF \E n \in Nodes : UndoLive(Healed[n]) THEN run
              ELSE [run EXCEPT !.state = Undone(Healed)]

Running(r) == r.state = "running"

TickUndo(r, xs) ==
    /\ Running(r) /\ MustUndo(r, xs) # {}
    /\ QueueUndos(xs, MustUndo(r, xs))
    /\ run' = r

\* Ready nodes are started, in so far as slots are free; a node that must not
\* get new work has its step skipped (recorded as cancelled).
TickQueue(r, xs) ==
    LET ineligible == {n \in Nodes : status[n] \in {"quarantined", "revoked"}}
        chosen == IF halted THEN {} ELSE Started(r, xs, ineligible)
        skipped == IF halted THEN {} ELSE Ready(r, xs) \cap ineligible
    IN  /\ Running(r) /\ MustUndo(r, xs) = {} /\ ~BatchSettled(r, xs)
        /\ \E out \in [chosen -> QueueOutcomes] :
              execs' = [n \in Nodes |->
                  IF n \in chosen
                  THEN Append(xs[n], Fresh(StopsAt(xs[n]), out[n], 0))
                  ELSE IF n \in skipped
                  THEN Append(xs[n], Fresh(StopsAt(xs[n]), "cancelled", 0))
                  ELSE xs[n]]
        /\ run' = r

\* Mutant: a batch is left while nodes of it still work.
TickJudge_Early(r, xs) ==
    /\ Running(r) /\ MustUndo(r, xs) = {}
    /\ \A n \in MembersOf(r.batch) : Progress(xs[n]) # "ready"
    /\ \E over \in BOOLEAN : run' = Judged(r, xs, over)
    /\ execs' = xs

TickJudge(r, xs) ==
    /\ Running(r) /\ MustUndo(r, xs) = {} /\ BatchSettled(r, xs)
    /\ \E over \in BOOLEAN : run' = Judged(r, xs, over)
    /\ execs' = xs

Tick ==
    /\ listed \/ run.state \in RUN_ACTIVE
    /\ UNCHANGED <<status, online, halted, op>>
    /\ listed' = FALSE
    /\ \/ TickEnded
       \/ /\ late' = {e \in late : Unmoved(e)}
          /\ \/ TickHealth \/ TickRollingBack
             \/ \E r \in {TheRun}, xs \in {Healed} :
                   TickUndo(r, xs) \/ TickQueue(r, xs) \/ TickJudge(r, xs)

-----------------------------------------------------------------------------
(* Commands: what the operator has seen, then what is written.                *)

\* The check_run() of the command, on the run that was read.
Permitted(kind) ==
    LET to(target) == target \in RUN_TRANSITIONS(run.state) IN
    CASE kind = "approve" -> to("approved")
      [] kind = "reject" -> to("rejected")
      [] kind = "expire" -> to("expired")
      [] kind = "cancel" -> to("cancelled")
      [] kind = "resume" -> to("running")
      [] kind = "pause" -> to("paused")
      [] kind = "start_rollback" -> to("rolling_back")
      [] kind = "retry_node" -> run.state \in {"running", "paused"}
      [] OTHER -> FALSE

Read(a, kind, n) ==
    /\ op[a] = NoOp
    /\ op' = [op EXCEPT ![a] = [kind |-> kind, batch |-> run.batch, node |-> n]]
    /\ UNCHANGED <<run, execs, late, status, online, halted, listed>>

ReadRun(a) ==
    \E kind \in CommandKinds \ {"retry_node"} :
        Permitted(kind) /\ Read(a, kind, NoOp.node)

ReadNode(a) == \E n \in Nodes : Permitted("retry_node") /\ Read(a, "retry_node", n)

ReadStatus(a) ==
    \E n \in Nodes, to \in NODE_STATUS :
        status[n] \in StatusAllowedFrom(to) /\ Read(a, to, n)

Doing(a, kind) == op[a].kind = kind /\ op' = [op EXCEPT ![a] = NoOp]

RunTo(state) == run' = [run EXCEPT !.state = state]

\* A command that writes the run's state and nothing else.
Approve(a) == Doing(a, "approve") /\ RunTo("approved") /\ UNCHANGED <<execs, late, status>>

Reject(a) == Doing(a, "reject") /\ RunTo("rejected") /\ UNCHANGED <<execs, late, status>>

Expire(a) == Doing(a, "expire") /\ RunTo("expired") /\ UNCHANGED <<execs, late, status>>

Pause(a) == Doing(a, "pause") /\ RunTo("paused") /\ UNCHANGED <<execs, late, status>>

\* What stopping makes of an execution: waiting ones end, others are told.
Stopped(x) ==
    CASE x.state = "queued" -> [x EXCEPT !.state = "cancelled"]
      [] x.state \in EXEC_IN_FLIGHT -> [x EXCEPT !.cancel = TRUE]
      [] OTHER -> x

Cancel(a) ==
    /\ Doing(a, "cancel") /\ RunTo("cancelled")
    /\ execs' = [n \in Nodes |-> [i \in DOMAIN execs[n] |-> Stopped(execs[n][i])]]
    /\ UNCHANGED <<late, status>>

\* The batch that was read counts as evaluated: it is not judged again.
ResumeRun(a) ==
    /\ Doing(a, "resume")
    /\ run' = [run EXCEPT !.state = "running", !.evaluated = op[a].batch]
    /\ UNCHANGED <<execs, late, status>>

\* start_rollback(): the steps are stopped, then what they changed is undone.
\* The targets are those of the executions as they were read in the transaction.
StartRollback(a) ==
    /\ Doing(a, "start_rollback") /\ RunTo("rolling_back")
    /\ QueueUndos([n \in Nodes |-> [i \in DOMAIN execs[n] |->
                      IF execs[n][i].undoes = 0 THEN Stopped(execs[n][i])
                      ELSE execs[n][i]]], Nodes)
    /\ UNCHANGED <<late, status>>

\* The step whose failure stopped the node; rollbacks are not looked at.
Retriable(x) == \E s \in Steps : Stops(x, s) /\ FailedAt(x, s)

\* retry_node(): the attempts of the failed execution are carried over.
RetryNode(a) ==
    LET n == op[a].node
        s == StopsAt(execs[n])
    IN  /\ Doing(a, "retry_node")
        /\ IF Retriable(execs[n])
           THEN \E out \in QueueOutcomes, i \in Latest(execs[n], s) :
                   execs' = [execs EXCEPT ![n] =
                       Append(@, Fresh(s, out, execs[n][i].attempts))]
           ELSE UNCHANGED execs
        /\ UNCHANGED <<run, late, status>>

\* set_status(): what a revoked node was doing can never be reported.
SetStatus(a) ==
    LET n == op[a].node IN
    /\ op[a].kind \in NODE_STATUS
    /\ op' = [op EXCEPT ![a] = NoOp]
    /\ status' = [status EXCEPT ![n] = op[a].kind]
    /\ execs' = IF op[a].kind # "revoked" THEN execs
                ELSE [execs EXCEPT ![n] = [i \in DOMAIN @ |->
                    IF @[i].state \in EXEC_LIVE
                    THEN [@[i] EXCEPT !.state = "unreachable"] ELSE @[i]]]
    /\ UNCHANGED <<run, late>>

Carry(a) ==
    /\ \/ Approve(a) \/ Reject(a) \/ Expire(a) \/ Pause(a) \/ Cancel(a)
       \/ ResumeRun(a) \/ StartRollback(a) \/ RetryNode(a) \/ SetStatus(a)
    /\ UNCHANGED <<online, halted, listed>>

\* The kill switch of the whole fleet.
Switch ==
    /\ halted' = ~halted
    /\ UNCHANGED <<run, execs, late, status, online, listed, op>>

-----------------------------------------------------------------------------
(* The hub: a poll of node n is answered.                                     *)

\* What the node says is running and the master wants stopped or wrote off.
Unwanted(n, running) ==
    {i \in running : execs[n][i].cancel \/ execs[n][i].state \in EXEC_TERMINAL}

Claimable(x) ==
    /\ x.state = "queued"
    /\ run.state = "running" \/ (run.state = "rolling_back" /\ x.undoes # 0)

\* The oldest claimable executions, as many as the node has room for.
Claims(n, running) ==
    LET waiting == {i \in DOMAIN execs[n] : Claimable(execs[n][i])}
        room == MaxPerPoll - Cardinality(running)
    IN  IF status[n] # "active" \/ halted THEN {}
        ELSE {i \in waiting : Cardinality({j \in waiting : j < i}) < room}

Dispatch(x, out) ==
    [x EXCEPT !.state = out,
              !.attempts = IF out = "dispatched" THEN @ + 1 ELSE @]

\* claim(): what making the envelopes came to is `out', for those claimed; the
\* reply holds the envelopes of Handed(out).
Handed(out) == {i \in DOMAIN out : out[i] = "dispatched"}

Claim(n, out) ==
    /\ execs' = [execs EXCEPT ![n] = [i \in DOMAIN @ |->
            IF i \in DOMAIN out THEN Dispatch(@[i], out[i]) ELSE @[i]]]
    /\ late' = late \ ({n} \X Handed(out))
    /\ UNCHANGED <<run, status, halted, listed, op>>

-----------------------------------------------------------------------------
(* Time.                                                                      *)

\* The clock of an execution runs out; a queued one's matters offline only.
Elapse(n, i) ==
    /\ i \in DOMAIN execs[n]
    /\ \/ execs[n][i].state \in EXEC_IN_FLIGHT
       \/ execs[n][i].state = "queued" /\ ~online[n]
    /\ <<n, i>> \notin late
    /\ late' = late \cup {<<n, i>>}
    /\ UNCHANGED <<run, execs, status, online, halted, listed, op>>

\* Silence: the last poll is longer ago than offline_after_s.
GoesOffline(n) ==
    /\ online[n]
    /\ online' = [online EXCEPT ![n] = FALSE]
    /\ UNCHANGED <<run, execs, late, status, halted, listed, op>>

MasterTypeOK ==
    /\ run \in Run
    /\ execs \in [Nodes -> Seq(Execution)]
    /\ late \subseteq Nodes \X Nat
    /\ status \in [Nodes -> NODE_STATUS]
    /\ online \in [Nodes -> BOOLEAN]
    /\ halted \in BOOLEAN /\ listed \in BOOLEAN
    /\ op \in [Actors -> Commands]
=============================================================================
