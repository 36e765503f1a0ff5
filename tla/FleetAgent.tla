----------------------------- MODULE FleetAgent -----------------------------
(* The node agent (mu/orchestration/node/agent.py, executor.py) and what the  *)
(* hub does with its events (events() in hub.py).                             *)
(*                                                                            *)
(* A node polls, stops what the reply cancels and starts what it dispatches;  *)
(* a thread per execution runs the tool's process; a sender posts the events. *)
(* The agent keeps all of this in memory.  An event is read and then written  *)
(* by the hub in two steps; a POST the sender gave up on may still be read.   *)
(*                                                                            *)
(* The result of a thread and its leaving _running are one step here.  A tool *)
(* outlives a dead agent unnoticed: nothing reports it, so it is left out.    *)
EXTENDS FleetMaster, SequencesExt

CONSTANTS
    MaxConcurrent,      \* MAX_CONCURRENT
    AdmitOutcomes,      \* what the node makes of a dispatch: authorize(), blobs
    ToolOutcomes        \* how a tool may end

ASSUME AgentAssumption ==
    /\ MaxConcurrent \in Nat
    /\ AdmitOutcomes \subseteq {"accepted", "refused", "failed"}
    /\ ToolOutcomes \subseteq {"succeeded", "failed", "timed_out"}

VARIABLES
    up,         \* is the agent of the node running?
    poll,       \* its main loop: asking (with what is running), or handling
                \* the dispatches of a reply
    running,    \* _running: executions it reports as running
    procs,      \* threads: [exec, nonce, st], st = "start" or "run"
    cancelled,  \* Executor._cancelled
    outbox,     \* _events, waiting for the sender
    posted,     \* events of the POST the sender waits for
    hub         \* the hub's handlers of POSTs: [events, seen, awaited]

nodeVars == <<up, poll, running, procs, cancelled, outbox, posted>>
agentVars == <<nodeVars, hub>>

RESULT_STATES == {"succeeded", "failed", "timed_out", "cancelled", "refused"}

Events ==
    [type : {"running", "output", "result"}, exec : Nat,
     state : RESULT_STATES \cup {NoState}]

Ack(i) == [type |-> "running", exec |-> i, state |-> NoState]
Chunk(i) == [type |-> "output", exec |-> i, state |-> NoState]
Result(i, s) == [type |-> "result", exec |-> i, state |-> s]

Dispatches == [exec : Nat, nonce : Nat]
Procs == [exec : Nat, nonce : Nat, st : {"start", "run"}]

\* poll_once() asks again as soon as it has handled a reply.
Asking(ids) == [at |-> "sent", running |-> ids, todo |-> <<>>]

Handling(ds) == [at |-> "work", running |-> {}, todo |-> ds]

NotPolling == [at |-> "none", running |-> {}, todo |-> <<>>]

AgentInit ==
    /\ up = [n \in Nodes |-> TRUE]
    /\ poll = [n \in Nodes |-> Asking({})]
    /\ running = [n \in Nodes |-> {}]
    /\ procs = [n \in Nodes |-> {}]
    /\ cancelled = [n \in Nodes |-> {}]
    /\ outbox = [n \in Nodes |-> <<>>]
    /\ posted = [n \in Nodes |-> <<>>]
    /\ hub = [n \in Nodes |-> <<>>]

-----------------------------------------------------------------------------
(* Polling.                                                                   *)

\* The members of a set of numbers in increasing order.
InOrder(ids) ==
    {f \in [1..Cardinality(ids) -> ids] : \A i, j \in DOMAIN f : i < j => f[i] < f[j]}

\* The dispatches of a reply, in the order of their executions.
Envelopes(n, order) ==
    [k \in DOMAIN order |->
        [exec |-> order[k], nonce |-> execs'[n][order[k]].attempts]]

\* The reply: what it cancels is cancelled, what it dispatches is handled next.
PollReply(n) ==
    /\ up[n] /\ poll[n].at = "sent" /\ status[n] # "revoked"
    /\ \E out \in [Claims(n, poll[n].running) -> DispatchOutcomes] :
          /\ Claim(n, out)
          /\ IF Handed(out) = {} THEN UNCHANGED poll
             ELSE \E order \in InOrder(Handed(out)) :
                     poll' = [poll EXCEPT ![n] = Handling(Envelopes(n, order))]
    /\ cancelled' = [cancelled EXCEPT ![n] = @ \cup Unwanted(n, poll[n].running)]
    /\ online' = [online EXCEPT ![n] = TRUE]
    /\ UNCHANGED <<up, running, procs, outbox, posted, hub>>

\* There was no dispatch (up to the deadline, or for a cancel), and the node
\* polls again; heartbeat() notes it.  A revoked node is turned away.
PollAgain(n) ==
    /\ up[n] /\ poll[n].at = "sent" /\ status[n] # "revoked"
    /\ Claims(n, poll[n].running) = {}
    /\ poll' = [poll EXCEPT ![n] = Asking(running[n])]
    /\ online' = [online EXCEPT ![n] = TRUE]
    /\ UNCHANGED <<run, execs, late, status, halted, listed, op, up, running,
                   procs, cancelled, outbox, posted, hub>>

\* The request is answered, but its client is gone: a lost connection, or an
\* agent that died while it polled.
PollLost(n) ==
    /\ poll[n].at = "sent" /\ status[n] # "revoked"
    /\ \E out \in [Claims(n, poll[n].running) -> DispatchOutcomes] :
          Claim(n, out) /\ Handed(out) # {}
    /\ poll' = [poll EXCEPT ![n] = IF up[n] THEN Asking(running[n]) ELSE NotPolling]
    /\ UNCHANGED <<online, up, running, procs, cancelled, outbox, posted, hub>>

Emit(n, e) == outbox' = [outbox EXCEPT ![n] = Append(@, e)]

\* One dispatch is handled; after the last one the node polls.
Handled(n) ==
    poll' = [poll EXCEPT ![n] = IF Len(@.todo) > 1 THEN Handling(Tail(@.todo))
                                ELSE Asking(running'[n])]

\* handle_dispatch(): refused, or a thread is started for it.
HandleDispatch(n) ==
    /\ poll[n].at = "work"
    /\ LET d == Head(poll[n].todo)
           full == Cardinality(running[n]) >= MaxConcurrent
       IN  \E out \in AdmitOutcomes :
              IF out = "accepted" /\ ~full
              THEN /\ Emit(n, Ack(d.exec))
                   /\ running' = [running EXCEPT ![n] = @ \cup {d.exec}]
                   /\ procs' = [procs EXCEPT ![n] = @ \cup
                        {[exec |-> d.exec, nonce |-> d.nonce, st |-> "start"]}]
              ELSE /\ Emit(n, Result(d.exec,
                        IF out = "failed" /\ ~full THEN "failed" ELSE "refused"))
                   /\ UNCHANGED <<running, procs>>
    /\ Handled(n)
    /\ UNCHANGED <<masterVars, up, cancelled, posted, hub>>

-----------------------------------------------------------------------------
(* The threads of the executions.                                             *)

\* The end of a thread: its result, and the executor forgets the execution.
Ends(n, p, s) ==
    /\ Emit(n, Result(p.exec, s))
    /\ procs' = [procs EXCEPT ![n] = @ \ {p}]
    /\ cancelled' = [cancelled EXCEPT ![n] = @ \ {p.exec}]
    /\ running' = [running EXCEPT ![n] = @ \ {p.exec}]
    /\ UNCHANGED <<masterVars, up, poll, posted, hub>>

\* _spawn(): the cancellation is looked at once before the process starts.
Spawn(n, p) ==
    /\ p \in procs[n] /\ p.st = "start"
    /\ p.exec \notin cancelled[n]
    /\ procs' = [procs EXCEPT ![n] = (@ \ {p}) \cup {[p EXCEPT !.st = "run"]}]
    /\ UNCHANGED <<masterVars, up, poll, running, cancelled, outbox, posted, hub>>

NotSpawned(n, p) ==
    /\ p \in procs[n] /\ p.st = "start"
    /\ p.exec \in cancelled[n]
    /\ Ends(n, p, "cancelled")

\* The process ends by itself or is killed; a timeout is told first, then a
\* cancellation.
Exit(n, p, out) ==
    /\ p \in procs[n] /\ p.st = "run"
    /\ Ends(n, p, IF p.exec \in cancelled[n] /\ out # "timed_out"
                  THEN "cancelled" ELSE out)

Output(n, p) ==
    /\ p \in procs[n] /\ p.st = "run"
    /\ Emit(n, Chunk(p.exec))
    /\ UNCHANGED <<masterVars, up, poll, running, procs, cancelled, posted, hub>>

-----------------------------------------------------------------------------
(* The sender, and the hub's handlers.                                        *)

\* flush_events(): everything that waits is posted at once.
Flush(n) ==
    /\ up[n] /\ outbox[n] # <<>> /\ posted[n] = <<>> /\ status[n] # "revoked"
    /\ posted' = [posted EXCEPT ![n] = outbox[n]]
    /\ outbox' = [outbox EXCEPT ![n] = <<>>]
    /\ hub' = [hub EXCEPT ![n] = Append(@,
                  [events |-> outbox[n], seen |-> NoState, awaited |-> TRUE])]
    /\ UNCHANGED <<masterVars, up, poll, running, procs, cancelled>>

\* Mutant: a failed POST is not repeated.
Again_Dropped(n) ==
    /\ posted' = [posted EXCEPT ![n] = <<>>]
    /\ UNCHANGED outbox

\* A failed POST: all but the chunks goes to the end of the queue.
Again(n) ==
    /\ posted' = [posted EXCEPT ![n] = <<>>]
    /\ \E kept \in InOrder({k \in DOMAIN posted[n] : posted[n][k].type # "output"}) :
          outbox' = [outbox EXCEPT ![n] = @ \o [k \in DOMAIN kept |-> posted[n][kept[k]]]]

Unawaited(n) ==
    [k \in DOMAIN hub[n] |-> [hub[n][k] EXCEPT !.awaited = FALSE]]

\* The sender gets no answer.  The request is lost, or the hub still works on
\* it: nothing tells the sender.
GiveUp(n) ==
    /\ posted[n] # <<>>
    /\ Again(n)
    /\ \/ hub' = [hub EXCEPT ![n] = Unawaited(n)]
       \/ /\ Last(hub[n]).events = posted[n] /\ Last(hub[n]).seen = NoState
          /\ hub' = [hub EXCEPT ![n] = Front(@)]
    /\ UNCHANGED <<masterVars, up, poll, running, procs, cancelled>>

EventOf(n, k) == Head(hub[n][k].events)

StateOf(n, k) == execs[n][EventOf(n, k).exec].state

\* The next event of the handler; after the last one the sender is answered.
NextEvent(n, k) ==
    LET h == hub[n][k] IN
    IF Len(h.events) > 1
    THEN /\ hub' = [hub EXCEPT ![n][k] =
                       [h EXCEPT !.events = Tail(h.events), !.seen = NoState]]
         /\ UNCHANGED posted
    ELSE /\ hub' = [hub EXCEPT ![n] = RemoveAt(@, k)]
         /\ posted' = IF h.awaited THEN [posted EXCEPT ![n] = <<>>] ELSE posted

\* Does the state that was read let the event through?
Matters(e, s) ==
    CASE e.type = "running" -> s = "dispatched"
      [] e.type = "output" -> s \in EXEC_IN_FLIGHT
      [] e.type = "result" -> s \in EXEC_IN_FLIGHT

\* The state the handler goes by: the one it has read, or, where nothing comes
\* between reading and writing, the one it finds.
Seen(n, k) == IF hub[n][k].seen = NoState THEN StateOf(n, k) ELSE hub[n][k].seen

Taken(n, k, type) ==
    /\ k \in DOMAIN hub[n] /\ EventOf(n, k).type \in type
    /\ Matters(EventOf(n, k), Seen(n, k))

\* Late and repeated events are dropped.
HubDrop(n, k) ==
    /\ k \in DOMAIN hub[n] /\ ~Matters(EventOf(n, k), Seen(n, k))
    /\ NextEvent(n, k)
    /\ UNCHANGED <<masterVars, up, poll, running, procs, cancelled, outbox>>

\* The execution is read; somebody may write it before the handler does.
HubRead(n, k) ==
    /\ Taken(n, k, {"running", "output", "result"}) /\ hub[n][k].seen = NoState
    /\ hub' = [hub EXCEPT ![n][k].seen = StateOf(n, k)]
    /\ UNCHANGED <<masterVars, up, poll, running, procs, cancelled, outbox, posted>>

\* The state is written whatever the execution is by now.
HubNote(n, k) ==
    LET i == EventOf(n, k).exec IN
    /\ Taken(n, k, {"running", "output"})
    /\ execs' = Moved(n, i, "running")
    /\ late' = IF Seen(n, k) = "dispatched" THEN late \ {<<n, i>>} ELSE late
    /\ NextEvent(n, k)
    /\ UNCHANGED <<run, status, online, halted, listed, op, up, poll, running,
                   procs, cancelled, outbox>>

\* A result is checked against the execution again, in the transaction.
HubResult(n, k) ==
    LET e == EventOf(n, k) IN
    /\ Taken(n, k, {"result"})
    /\ \/ StateOf(n, k) \in EXEC_TERMINAL
       \/ e.state \in EXEC_TRANSITIONS(StateOf(n, k))
    /\ execs' = IF StateOf(n, k) \in EXEC_TERMINAL THEN execs
                ELSE Moved(n, e.exec, e.state)
    /\ NextEvent(n, k)
    /\ UNCHANGED <<run, late, status, online, halted, listed, op, up, poll,
                   running, procs, cancelled, outbox>>

\* The result cannot be taken (the execution was queued again meanwhile): the
\* POST fails, and a sender that still waits sends all of it again.
HubRaise(n, k) ==
    /\ Taken(n, k, {"result"})
    /\ StateOf(n, k) \in EXEC_LIVE
    /\ EventOf(n, k).state \notin EXEC_TRANSITIONS(StateOf(n, k))
    /\ hub' = [hub EXCEPT ![n] = RemoveAt(@, k)]
    /\ IF hub[n][k].awaited THEN Again(n) ELSE UNCHANGED <<posted, outbox>>
    /\ UNCHANGED <<masterVars, up, poll, running, procs, cancelled>>

-----------------------------------------------------------------------------
(* The agent dies, and comes back with nothing in memory.  The master answers *)
(* a poll it was in the middle of (PollLost) before the agent is back.        *)

Dies(n) ==
    /\ up[n]
    /\ up' = [up EXCEPT ![n] = FALSE]
    /\ poll' = IF poll[n].at = "sent" THEN poll
               ELSE [poll EXCEPT ![n] = NotPolling]
    /\ running' = [running EXCEPT ![n] = {}]
    /\ procs' = [procs EXCEPT ![n] = {}]
    /\ cancelled' = [cancelled EXCEPT ![n] = {}]
    /\ outbox' = [outbox EXCEPT ![n] = <<>>]
    /\ posted' = [posted EXCEPT ![n] = <<>>]
    /\ hub' = [hub EXCEPT ![n] = Unawaited(n)]
    /\ UNCHANGED masterVars

Restarts(n) ==
    /\ ~up[n]
    /\ up' = [up EXCEPT ![n] = TRUE]
    /\ poll' = [poll EXCEPT ![n] = Asking({})]
    /\ UNCHANGED <<masterVars, running, procs, cancelled, outbox, posted, hub>>

AgentTypeOK ==
    /\ up \in [Nodes -> BOOLEAN]
    /\ poll \in [Nodes -> [at : {"sent", "work", "none"},
                           running : SUBSET Nat, todo : Seq(Dispatches)]]
    /\ running \in [Nodes -> SUBSET Nat]
    /\ procs \in [Nodes -> SUBSET Procs]
    /\ cancelled \in [Nodes -> SUBSET Nat]
    /\ outbox \in [Nodes -> Seq(Events)]
    /\ posted \in [Nodes -> Seq(Events)]
    /\ hub \in [Nodes -> Seq([events : Seq(Events), awaited : BOOLEAN,
                              seen : EXEC_STATES \cup {NoState}])]
=============================================================================
