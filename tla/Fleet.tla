-------------------------------- MODULE Fleet --------------------------------
(* One run over a fleet: the master with its scheduler, the operators, the    *)
(* hub and the node agents, with the faults between and in them: polls and    *)
(* POSTs whose answer is lost, nodes that fall silent or die, clocks that run *)
(* out under a live execution.                                                *)
(*                                                                            *)
(* Commands on the run and troubles (faults, output, a node or all of them    *)
(* being locked) are drawn from a budget; time, polling and the work itself   *)
(* are unbounded.                                                             *)
EXTENDS FleetAgent

CONSTANT Budget

BudgetKinds == {"command", "trouble"}

ASSUME BudgetAssumption == Budget \in [BudgetKinds -> Nat]

VARIABLES
    budget,
    excused,    \* history: batches an operator let pass with Continue
    held,       \* history: batches the rollout engine paused the run at
    retried,    \* history: nodes an operator retried
    began,      \* history: dispatches for which a process was started
    forsaken    \* history: executions whose dispatch, node or state was lost

historyVars == <<excused, held, retried, began, forsaken>>

fleetVars == <<masterVars, agentVars, budget>>

vars == <<fleetVars, historyVars>>

Init ==
    /\ MasterInit
    /\ AgentInit
    /\ budget = Budget
    /\ excused = {}
    /\ held = {}
    /\ retried = {}
    /\ began = [n \in Nodes |-> {}]
    /\ forsaken = [n \in Nodes |-> {}]

\* Dispatches that are under way to the node.
Sent(n) == {poll[n].todo[k].exec : k \in DOMAIN poll[n].todo}

\* Executions put in flight without being handed to the node, or given up by
\* it: a lost reply, a dead agent, a stale write of the hub.
NowForsaken(n) ==
    {i \in DOMAIN execs'[n] :
        /\ execs'[n][i].state \in EXEC_IN_FLIGHT
        /\ \/ up[n] /\ ~up'[n]
           \/ /\ \/ i \notin DOMAIN execs[n]
                 \/ execs[n][i].state \notin EXEC_IN_FLIGHT
              /\ i \notin Sent(n)'}

HistoryNext ==
    /\ excused' = excused \cup
          {op[a].batch : a \in {b \in Actors : op[b].kind = "resume" /\ op'[b] = NoOp}}
    /\ held' = IF run'.state = "paused" /\ run.state \in RUN_ACTIVE /\ op' = op
               THEN held \cup {run'.batch} ELSE held
    /\ retried' = retried \cup
          {op[a].node : a \in {b \in Actors : op[b].kind = "retry_node" /\ op'[b] = NoOp}}
    /\ began' = [n \in Nodes |-> began[n] \cup
          {[exec |-> p.exec, nonce |-> p.nonce] :
              p \in {q \in procs'[n] : q.st = "run"}}]
    /\ forsaken' = [n \in Nodes |-> forsaken[n] \cup NowForsaken(n)]

Spend(kind) ==
    /\ budget[kind] > 0
    /\ budget' = [budget EXCEPT ![kind] = @ - 1]

-----------------------------------------------------------------------------
Service == UNCHANGED <<agentVars, budget>> /\ (ListRuns \/ Tick)

Command ==
    /\ \E a \in Actors :
          \/ (ReadRun(a) \/ ReadNode(a)) /\ Spend("command")
          \/ ReadStatus(a) /\ Spend("trouble")
    /\ UNCHANGED agentVars

Carried(a) == UNCHANGED <<agentVars, budget>> /\ Carry(a)

KillSwitch == Switch /\ Spend("trouble") /\ UNCHANGED agentVars

\* What a node does when nothing is lost.
Work(n) ==
    /\ \/ PollReply(n) \/ PollAgain(n) \/ HandleDispatch(n)
       \/ \E p \in procs[n] : Spawn(n, p) \/ NotSpawned(n, p)
       \/ Flush(n)
    /\ UNCHANGED budget

Tool(n) ==
    \E p \in procs[n], out \in ToolOutcomes : Exit(n, p, out) /\ UNCHANGED budget

Hub(n) ==
    \E k \in DOMAIN hub[n] :
        /\ HubDrop(n, k) \/ HubNote(n, k) \/ HubResult(n, k) \/ HubRaise(n, k)
        /\ UNCHANGED budget

\* Another writer comes between the hub's reading and writing.
Overlap(n) == (\E k \in DOMAIN hub[n] : HubRead(n, k)) /\ Spend("trouble")

Lost(n) == (PollLost(n) \/ GiveUp(n)) /\ Spend("trouble")

Chatter(n) == (\E p \in procs[n] : Output(n, p)) /\ Spend("trouble")

Crash(n) == Dies(n) /\ Spend("trouble")

Restart(n) == Restarts(n) /\ UNCHANGED budget

\* A dead or revoked node falls silent; a live one that polls does not, unless
\* the network or a long download keeps it.
Silence(n) ==
    /\ GoesOffline(n) /\ UNCHANGED agentVars
    /\ IF up[n] /\ status[n] # "revoked"
       THEN Spend("trouble") ELSE UNCHANGED budget

\* An execution whose dispatch, process or result is somewhere.
HasResult(evs, i) ==
    \E k \in DOMAIN evs : evs[k].type = "result" /\ evs[k].exec = i

UnderWay(n, i) ==
    \/ i \in Sent(n)
    \/ \E p \in procs[n] : p.exec = i
    \/ HasResult(outbox[n], i) \/ HasResult(posted[n], i)
    \/ \E k \in DOMAIN hub[n] : HasResult(hub[n][k].events, i)

\* The node's events are stuck: it is revoked, or the first of them is a
\* result the hub cannot take.
Stuck(n) ==
    \/ status[n] = "revoked"
    \/ \E e \in Range(outbox[n] \o posted[n]) :
          /\ e.type = "result" /\ execs[n][e.exec].state \in EXEC_IN_FLIGHT
          /\ e.state \notin EXEC_TRANSITIONS(execs[n][e.exec].state)

\* Time runs out for an execution nobody works on, or whose result is stuck;
\* for others it may.
TimeOut(n) ==
    /\ \E i \in DOMAIN execs[n] :
          /\ Elapse(n, i)
          /\ IF UnderWay(n, i) /\ ~Stuck(n)
             THEN Spend("trouble") ELSE UNCHANGED budget
    /\ UNCHANGED agentVars

Next ==
    /\ \/ Service \/ Command \/ KillSwitch
       \/ \E a \in Actors : Carried(a)
       \/ \E n \in Nodes :
             \/ Work(n) \/ Tool(n) \/ Hub(n) \/ TimeOut(n)
             \/ Lost(n) \/ Chatter(n) \/ Overlap(n) \/ Crash(n) \/ Restart(n) \/ Silence(n)
    /\ HistoryNext

Spec == Init /\ [][Next]_vars
-----------------------------------------------------------------------------
TypeOK ==
    /\ MasterTypeOK
    /\ AgentTypeOK
    /\ budget \in [BudgetKinds -> Nat]
    /\ excused \subseteq Nat
    /\ held \subseteq Nat
    /\ retried \subseteq Nodes
    /\ began \in [Nodes -> SUBSET Dispatches]
    /\ forsaken \in [Nodes -> SUBSET Nat]

-----------------------------------------------------------------------------
(* Safety.                                                                    *)

\* A tool that is not idempotent is started at most once per decision to run
\* it, whatever is lost, repeated or late; one that is, at most MaxAttempts
\* times (scheduler.py: re-dispatched up to max_attempts).
AtMostOnce ==
    \A n \in Nodes : \A i \in DOMAIN execs[n] :
        Cardinality({d \in began[n] : d.exec = i}) <=
            IF Repeats(execs[n][i]) THEN MaxAttempts ELSE 1

\* An execution in flight is not forgotten: its dispatch, its process or its
\* result is somewhere, unless the network lost the one or a dead agent the
\* other; then only its timeout ends it.
Accounted ==
    \A n \in Nodes : \A i \in DOMAIN execs[n] :
        execs[n][i].state \in EXEC_IN_FLIGHT =>
            i \in forsaken[n] \/ UnderWay(n, i)

\* No change is undone twice, though a failing step, an operator and a second
\* Roll back may each ask for it; and what is undone is a step that has a
\* rollback tool.
UndoneOnce ==
    \A n \in Nodes : \A i, j \in DOMAIN execs[n] :
        execs[n][i].undoes # 0 =>
            /\ execs[n][i].undoes < i
            /\ execs[n][execs[n][i].undoes].undoes = 0
            /\ execs[n][i].step \in Undoable
            /\ execs[n][j].undoes = execs[n][i].undoes => i = j

\* The strategy's max_parallel holds for the nodes that work on a step, unless
\* an operator retried one.
ParallelCapped ==
    retried = {} =>
        Cardinality({n \in Nodes : \E i \in DOMAIN execs[n] :
            execs[n][i].undoes = 0 /\ execs[n][i].state \in EXEC_LIVE})
        <= MaxParallel

\* A run that ends well has done every step on every node that was not
\* retried, and nothing of it is still at work there.
SuccessIsComplete ==
    [][run.state # "succeeded" /\ run'.state = "succeeded" =>
        \A n \in Nodes \ retried :
            /\ \A s \in Steps : LatestIn(execs'[n], s, Fine)
            /\ \A i \in DOMAIN execs'[n] : execs'[n][i].state \notin EXEC_LIVE]_vars

\* "Any canary failure pauses the run": a failed canary is not left unless the
\* run was paused for it.
CanaryHolds ==
    [][run.batch = 1 /\ run'.batch = 2 /\ HasCanary =>
          Failing(1, execs') = {} \/ 1 \in held]_vars

-----------------------------------------------------------------------------
(* The fleet keeps the promise of FleetPromise.                               *)

Promise == INSTANCE FleetPromise WITH
    LastBatch <- Len(Batches),
    state <- run.state,
    batch <- run.batch,
    fit <- BatchSettled(run, execs) /\ ~Holds(run.batch, execs),
    excused <- excused,
    deciding <- \E a \in Actors : op[a] # NoOp

\* No batch is left before it is over and found fit, or let pass by a human;
\* only a human starts, resumes or rolls back a run, or ends it otherwise.
KeepsPromise == Promise!PromiseSpec

-----------------------------------------------------------------------------
(* Liveness.                                                                  *)

\* What the code's loops guarantee: the service ticks, a command is carried
\* out, a live agent's threads run (it polls, starts and posts), a tool ends
\* (the executor kills it at its timeout), the hub works through a POST, and
\* time passes.
Clock(n) == (TimeOut(n) \/ Silence(n)) /\ UNCHANGED budget

Fairness ==
    /\ WF_fleetVars(Service)
    /\ \A a \in Actors : WF_fleetVars(Carried(a))
    /\ \A n \in Nodes :
          /\ WF_fleetVars(Work(n)) /\ WF_fleetVars(Tool(n))
          /\ WF_fleetVars(Hub(n)) /\ WF_fleetVars(Clock(n))

FairSpec == Spec /\ Fairness

\* A run that was started reaches its end or a human, unless dispatch to its
\* nodes is stopped.
Settles ==
    []<>(\/ run.state \notin RUN_ACTIVE
         \/ halted \/ \E n \in Nodes : status[n] = "quarantined")
=============================================================================
