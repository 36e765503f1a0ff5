----------------------------- MODULE Fleet_proofs -----------------------------
(* The theorems of a run over a fleet, for every plan, fleet, set of          *)
(* operators and budget of troubles: no change is undone twice, none is made  *)
(* twice, nothing in flight is forgotten, no more nodes work on a step than   *)
(* may, and a success leaves nothing undone.                                  *)
EXTENDS Fleet, FleetMaster_proofs

\* A step that leaves the master's rows alone.
LEMMA MasterKept ==
    ASSUME MasterOK, UNCHANGED masterVars
    PROVE  MasterOK'
BY RowsKept DEF masterVars, MasterOK, MasterTypeOK

\* What a poll, answered or not, leaves of the master's rows.
LEMMA PolledOK ==
    ASSUME MasterOK, NEW n \in Nodes, NEW ids,
           NEW out \in [ids -> DispatchOutcomes], Claim(n, out),
           online' \in [Nodes -> BOOLEAN]
    PROVE  MasterOK'
BY ClaimOK DEF Claim, MasterOK, MasterTypeOK, ExecsOK

LEMMA WorkOK ==
    ASSUME MasterOK, NEW n \in Nodes, Work(n)
    PROVE  MasterOK'
<1>1. CASE PollReply(n)
  <2>1. PICK out \in [Claims(n, poll[n].running) -> DispatchOutcomes] : Claim(n, out)
    BY <1>1 DEF PollReply
  <2>2. online' \in [Nodes -> BOOLEAN]
    BY <1>1 DEF PollReply, MasterOK, MasterTypeOK
  <2> QED  BY <2>1, <2>2, PolledOK
<1>2. CASE PollAgain(n)
  BY <1>2, RowsKept DEF PollAgain, MasterOK, MasterTypeOK
<1>3. CASE HandleDispatch(n) \/ Flush(n)
  BY <1>3, MasterKept DEF HandleDispatch, Flush
<1>4. ASSUME NEW p \in procs[n], Spawn(n, p) \/ NotSpawned(n, p)
      PROVE  MasterOK'
  BY <1>4, MasterKept DEF Spawn, NotSpawned, Ends
<1> QED  BY <1>1, <1>2, <1>3, <1>4 DEF Work

\* What the hub makes of an event is a state of an execution.
LEMMA HubOK ==
    ASSUME MasterOK, NEW n \in Nodes, Hub(n)
    PROVE  MasterOK'
<1>1. PICK k \in DOMAIN hub[n] :
         HubDrop(n, k) \/ HubNote(n, k) \/ HubResult(n, k) \/ HubRaise(n, k)
  BY DEF Hub
<1> DEFINE e == EventOf(n, k)
<1>2. CASE HubDrop(n, k) \/ HubRaise(n, k)
  BY <1>2, MasterKept DEF HubDrop, HubRaise
<1>3. CASE HubNote(n, k)
  <2>1. execs' = Moved(n, e.exec, "running") /\ "running" \in EXEC_STATES
    BY <1>3 DEF HubNote, EXEC_STATES
  <2>2. ExecsOK(execs')
    BY <2>1, MovedOK
  <2> QED  BY <1>3, <2>2 DEF HubNote, MasterOK, MasterTypeOK, ExecsOK
<1>4. CASE HubResult(n, k)
  <2>1. EXEC_TRANSITIONS(StateOf(n, k)) \subseteq EXEC_STATES
    BY DEF EXEC_TRANSITIONS, EXEC_STATES
  <2>2. CASE UNCHANGED execs
    BY <1>4, <2>2, RowsKept DEF HubResult, MasterOK, MasterTypeOK
  <2>3. CASE execs' = Moved(n, e.exec, e.state) /\ e.state \in EXEC_STATES
    <3>1. ExecsOK(execs')
      BY <2>3, MovedOK
    <3> QED  BY <1>4, <3>1 DEF HubResult, MasterOK, MasterTypeOK, ExecsOK
  <2> QED  BY <1>4, <2>1, <2>2, <2>3 DEF HubResult
<1> QED  BY <1>1, <1>2, <1>3, <1>4

LEMMA TroubleOK ==
    ASSUME MasterOK, NEW n \in Nodes,
           \/ Tool(n) \/ TimeOut(n) \/ Lost(n) \/ Chatter(n) \/ Overlap(n)
           \/ Crash(n) \/ Restart(n) \/ Silence(n)
    PROVE  MasterOK'
<1>1. CASE PollLost(n)
  <2>1. PICK out \in [Claims(n, poll[n].running) -> DispatchOutcomes] : Claim(n, out)
    BY <1>1 DEF PollLost
  <2>2. online' \in [Nodes -> BOOLEAN]
    BY <1>1 DEF PollLost, MasterOK, MasterTypeOK
  <2> QED  BY <2>1, <2>2, PolledOK
<1>2. CASE TimeOut(n)
  BY <1>2, ElapseOK DEF TimeOut
<1>3. CASE Silence(n)
  BY <1>3, OthersOK DEF Silence
<1>4. CASE \/ Tool(n) \/ GiveUp(n) \/ Chatter(n) \/ Overlap(n) \/ Crash(n) \/ Restart(n)
  BY <1>4, MasterKept DEF Tool, Exit, Ends, GiveUp, Chatter, Output, Overlap,
     HubRead, Crash, Dies, Restart, Restarts
<1> QED  BY <1>1, <1>2, <1>3, <1>4 DEF Lost

LEMMA MasterStep ==
    ASSUME MasterOK, [Next]_vars
    PROVE  MasterOK'
<1>1. CASE UNCHANGED vars
  BY <1>1, MasterKept DEF vars, fleetVars
<1>2. CASE Service
  BY <1>2, OthersOK, TickOK DEF Service
<1>3. CASE Command
  BY <1>3, ReadAnyOK DEF Command
<1>4. CASE KillSwitch
  BY <1>4, OthersOK DEF KillSwitch
<1>5. ASSUME NEW a \in Actors, Carried(a)
      PROVE  MasterOK'
  BY <1>5, CarryOK DEF Carried
<1>6. ASSUME NEW n \in Nodes, Work(n) \/ Hub(n)
      PROVE  MasterOK'
  BY <1>6, WorkOK, HubOK
<1>7. ASSUME NEW n \in Nodes,
             \/ Tool(n) \/ TimeOut(n) \/ Lost(n) \/ Chatter(n) \/ Overlap(n)
             \/ Crash(n) \/ Restart(n) \/ Silence(n)
      PROVE  MasterOK'
  BY <1>7, TroubleOK
<1> QED  BY <1>1, <1>2, <1>3, <1>4, <1>5, <1>6, <1>7 DEF Next

\* The rows of the master are rows in every behaviour, and no row undoes what
\* another one undoes.
THEOREM MasterInvariant == Spec => []MasterOK
<1>1. Init => MasterOK
  BY MasterInitOK DEF Init
<1>2. MasterOK /\ [Next]_vars => MasterOK'
  BY MasterStep
<1> QED  BY <1>1, <1>2, PTL DEF Spec

\* rollback_targets(): whatever fails, is retried, is rolled back again or is
\* written late, a change is undone at most once, after it was made.
THEOREM UndoneAtMostOnce == Spec => []UndoneOnce
<1>1. MasterOK => UndoneOnce
  BY DEF MasterOK, ExecsOK, OnceIn, UndoneOnce
<1> QED  BY <1>1, MasterInvariant, PTL

-----------------------------------------------------------------------------
(* The state of the agents.  A node that handles a reply has a dispatch to    *)
(* handle, and a POST the hub works on has an event left.                     *)

Polls ==
    {p \in [at : {"sent", "work", "none"}, running : SUBSET Nat,
            todo : Seq(Dispatches)] : p.at = "work" => p.todo # <<>>}

Handlers ==
    [events : Seq(Events) \ {<<>>}, awaited : BOOLEAN,
     seen : EXEC_STATES \cup {NoState}]

AgentOK ==
    /\ up \in [Nodes -> BOOLEAN]
    /\ poll \in [Nodes -> Polls]
    /\ running \in [Nodes -> SUBSET Nat]
    /\ procs \in [Nodes -> SUBSET Procs]
    /\ cancelled \in [Nodes -> SUBSET Nat]
    /\ outbox \in [Nodes -> Seq(Events)]
    /\ posted \in [Nodes -> Seq(Events)]
    /\ hub \in [Nodes -> Seq(Handlers)]

LEMMA RemoveOK ==
    ASSUME NEW S, NEW q \in Seq(S), NEW k \in DOMAIN q
    PROVE  RemoveAt(q, k) \in Seq(S)
<1>1. Len(q) \in Nat /\ k \in 1..Len(q) /\ \A i \in 1..Len(q) : q[i] \in S
  BY LenProperties, ElementOfSeq
<1>2. SubSeq(q, 1, k - 1) \in Seq(S)
  <2>1. 1 \in Int /\ k - 1 \in Int /\ \A i \in 1..(k - 1) : q[i] \in S
    BY <1>1
  <2> QED  BY <2>1, SubSeqProperties
<1>3. SubSeq(q, k + 1, Len(q)) \in Seq(S)
  <2>1. k + 1 \in Int /\ Len(q) \in Int /\ \A i \in (k + 1)..Len(q) : q[i] \in S
    BY <1>1
  <2> QED  BY <2>1, SubSeqProperties
<1> QED  BY <1>2, <1>3, ConcatProperties DEF RemoveAt

LEMMA TailOK ==
    ASSUME NEW S, NEW q \in Seq(S), Len(q) > 1
    PROVE  Tail(q) \in Seq(S) /\ Tail(q) # <<>>
<1>1. Len(q) \in Nat /\ Len(<<>>) = 0
  BY LenProperties, EmptySeq
<1>2. q # <<>>
  BY <1>1
<1> DEFINE t == Tail(q)
<1>3. t \in Seq(S) /\ Len(t) = Len(q) - 1
  BY <1>2, HeadTailProperties
<1> HIDE DEF t
<1>4. Len(t) # 0
  BY <1>1, <1>3
<1>5. t # <<>>
  BY <1>1, <1>4
<1> QED  BY <1>3, <1>5 DEF t

LEMMA FrontOK ==
    ASSUME NEW S, NEW q \in Seq(S)
    PROVE  Front(q) \in Seq(S)
<1>1. Len(q) \in Nat /\ \A i \in 1..Len(q) : q[i] \in S
  BY LenProperties, ElementOfSeq
<1>2. 1 \in Int /\ Len(q) - 1 \in Int /\ \A i \in 1..(Len(q) - 1) : q[i] \in S
  BY <1>1
<1> QED  BY <1>2, SubSeqProperties DEF Front

\* A numbering of a set of places of a sequence.
LEMMA InOrderOK ==
    ASSUME NEW S, NEW q \in Seq(S), NEW ids \in SUBSET DOMAIN q, NEW f \in InOrder(ids)
    PROVE  /\ f \in Seq(ids)
           /\ \A i \in DOMAIN f : f[i] \in DOMAIN q
           /\ ids # {} => f # <<>>
<1>1. DOMAIN q = 1..Len(q) /\ Len(q) \in Nat
  BY LenProperties
<1>2. IsFiniteSet(DOMAIN q)
  <2>1. 1 \in Int /\ Len(q) \in Int
    BY <1>1
  <2> QED  BY <1>1, <2>1, FS_Interval
<1>3. IsFiniteSet(ids)
  <2> HIDE <1>1
  <2> QED  BY <1>2, FS_Subset
<1>4. Cardinality(ids) \in Nat
  BY <1>3, FS_CardinalityType
<1>5. Cardinality(ids) = 0 <=> ids = {}
  BY <1>3, FS_EmptySet
<1>6. f \in [1..Cardinality(ids) -> ids]
  BY DEF InOrder
<1>7. f \in Seq(ids)
  BY <1>4, <1>6, SeqDef
<1>8. Len(f) = Cardinality(ids)
  BY <1>4, <1>6, <1>7, LenProperties
<1>9. ids # {} => f # <<>>
  BY <1>5, <1>8, EmptySeq
<1> QED  BY <1>6, <1>7, <1>9

LEMMA AgentKept ==
    ASSUME AgentOK, UNCHANGED agentVars
    PROVE  AgentOK'
BY DEF AgentOK, agentVars, nodeVars

LEMMA PollsOK ==
    /\ \A ids \in SUBSET Nat : Asking(ids) \in Polls
    /\ NotPolling \in Polls
    /\ \A ds \in Seq(Dispatches) : ds # <<>> => Handling(ds) \in Polls
BY EmptySeq DEF Asking, NotPolling, Handling, Polls

LEMMA EmitOK ==
    ASSUME AgentOK, NEW n \in Nodes, NEW e \in Events, Emit(n, e)
    PROVE  outbox' \in [Nodes -> Seq(Events)]
<1>1. outbox[n] \in Seq(Events) /\ outbox \in [Nodes -> Seq(Events)]
  BY DEF AgentOK
<1>2. Append(outbox[n], e) \in Seq(Events)
  BY <1>1, AppendProperties
<1> QED  BY <1>1, <1>2 DEF Emit

\* The dispatches of a reply are for executions of the node, with a nonce.
LEMMA EnvelopesOK ==
    ASSUME NEW n \in Nodes, execs' \in [Nodes -> Seq(Execution)],
           NEW ids \in SUBSET DOMAIN execs'[n], ids # {}, NEW f \in InOrder(ids)
    PROVE  Handling(Envelopes(n, f)) \in Polls
<1>1. execs'[n] \in Seq(Execution)
  OBVIOUS
<1>2. f \in Seq(ids) /\ f # <<>> /\ \A i \in DOMAIN f : f[i] \in DOMAIN execs'[n]
  BY <1>1, InOrderOK
<1> DEFINE ds == Envelopes(n, f)
<1>3. DOMAIN f = 1..Len(f) /\ Len(f) \in Nat /\ Len(f) # 0
  BY <1>2, LenProperties, EmptySeq
<1>4. ASSUME NEW k \in DOMAIN f
      PROVE  [exec |-> f[k], nonce |-> execs'[n][f[k]].attempts] \in Dispatches
  <2>1. f[k] \in Nat /\ execs'[n][f[k]] \in Execution
    BY <1>1, <1>2, LenProperties, ElementOfSeq
  <2>2. execs'[n][f[k]].attempts \in Nat
    BY <2>1 DEF Execution
  <2> QED  BY <2>1, <2>2 DEF Dispatches
<1>5. ds \in [1..Len(f) -> Dispatches]
  BY <1>3, <1>4 DEF Envelopes
<1>6. ds \in Seq(Dispatches)
  BY <1>3, <1>5, SeqDef
<1>7. ds # <<>>
  <2>1. Len(ds) = Len(f)
    BY <1>3, <1>5, <1>6, LenProperties
  <2> QED  BY <1>3, <1>6, <2>1, EmptySeq
<1> HIDE DEF ds
<1> QED  BY <1>6, <1>7, PollsOK DEF ds

\* What a poll leaves of the places of a node's executions.
LEMMA ClaimedPlaces ==
    ASSUME MasterOK, NEW n \in Nodes, NEW ids,
           NEW out \in [Claims(n, ids) -> DispatchOutcomes], Claim(n, out)
    PROVE  Handed(out) \subseteq DOMAIN execs'[n]
<1>1. execs \in [Nodes -> Seq(Execution)]
  BY DEF MasterOK, ExecsOK
<1>2. DOMAIN execs'[n] = DOMAIN execs[n]
  BY <1>1 DEF Claim
<1>3. Claims(n, ids) \subseteq DOMAIN execs[n]
  BY DEF Claims
<1> QED  BY <1>2, <1>3 DEF Handed

LEMMA PollReplyOK ==
    ASSUME MasterOK, MasterOK', AgentOK, NEW n \in Nodes, PollReply(n)
    PROVE  AgentOK'
<1>1. PICK out \in [Claims(n, poll[n].running) -> DispatchOutcomes] :
         /\ Claim(n, out)
         /\ IF Handed(out) = {} THEN UNCHANGED poll
            ELSE \E order \in InOrder(Handed(out)) :
                    poll' = [poll EXCEPT ![n] = Handling(Envelopes(n, order))]
  BY DEF PollReply
<1>2. poll' \in [Nodes -> Polls]
  <2>1. CASE Handed(out) = {}
    BY <1>1, <2>1 DEF AgentOK
  <2>2. CASE Handed(out) # {}
    <3>1. PICK f \in InOrder(Handed(out)) :
             poll' = [poll EXCEPT ![n] = Handling(Envelopes(n, f))]
      BY <1>1, <2>2
    <3>2. Handed(out) \subseteq DOMAIN execs'[n]
      BY <1>1, ClaimedPlaces
    <3>3. execs' \in [Nodes -> Seq(Execution)]
      BY DEF MasterOK, ExecsOK
    <3>4. Handling(Envelopes(n, f)) \in Polls
      BY <2>2, <3>2, <3>3, EnvelopesOK
    <3> QED  BY <3>1, <3>4 DEF AgentOK
  <2> QED  BY <2>1, <2>2
<1>3. cancelled' \in [Nodes -> SUBSET Nat]
  <2>1. poll[n].running \subseteq Nat
    BY DEF AgentOK, Polls
  <2>2. cancelled[n] \cup Unwanted(n, poll[n].running) \subseteq Nat
    BY <2>1 DEF Unwanted, AgentOK
  <2> QED  BY <2>2 DEF PollReply, AgentOK
<1> QED  BY <1>2, <1>3 DEF PollReply, AgentOK

LEMMA PollOthersOK ==
    ASSUME AgentOK, NEW n \in Nodes, PollAgain(n) \/ PollLost(n)
    PROVE  AgentOK'
<1>1. Asking(running[n]) \in Polls /\ NotPolling \in Polls
  BY PollsOK DEF AgentOK
<1>2. poll' \in [Nodes -> Polls]
  BY <1>1 DEF AgentOK, PollAgain, PollLost
<1> QED  BY <1>2 DEF AgentOK, PollAgain, PollLost

LEMMA HandledOK ==
    ASSUME AgentOK, NEW n \in Nodes, running' \in [Nodes -> SUBSET Nat], Handled(n)
    PROVE  poll' \in [Nodes -> Polls]
<1> DEFINE ds == poll[n].todo
<1>1. ds \in Seq(Dispatches)
  BY DEF AgentOK, Polls
<1>2. Asking(running'[n]) \in Polls
  BY PollsOK
<1>3. ASSUME Len(ds) > 1
      PROVE  Handling(Tail(ds)) \in Polls
  <2>1. Tail(ds) \in Seq(Dispatches) /\ Tail(ds) # <<>>
    BY <1>1, <1>3, TailOK
  <2> QED  BY <2>1, PollsOK
<1> QED  BY <1>2, <1>3 DEF Handled, AgentOK

LEMMA HandleDispatchOK ==
    ASSUME AgentOK, NEW n \in Nodes, HandleDispatch(n)
    PROVE  AgentOK'
<1> DEFINE d == Head(poll[n].todo)
<1>1. d \in Dispatches
  <2>1. poll[n].todo \in Seq(Dispatches) /\ poll[n].todo # <<>>
    BY DEF AgentOK, Polls, HandleDispatch
  <2> QED  BY <2>1, HeadTailProperties
<1>2. d.exec \in Nat /\ [exec |-> d.exec, nonce |-> d.nonce, st |-> "start"] \in Procs
  BY <1>1 DEF Dispatches, Procs
<1>3. /\ Ack(d.exec) \in Events
      /\ Result(d.exec, "failed") \in Events /\ Result(d.exec, "refused") \in Events
  BY <1>2 DEF Ack, Result, Events, RESULT_STATES
<1> HIDE DEF d
<1>4. /\ \/ Emit(n, Ack(d.exec))
         \/ Emit(n, Result(d.exec, "failed")) \/ Emit(n, Result(d.exec, "refused"))
      /\ \/ running' = [running EXCEPT ![n] = @ \cup {d.exec}]
         \/ UNCHANGED running
      /\ \/ procs' = [procs EXCEPT ![n] = @ \cup
                {[exec |-> d.exec, nonce |-> d.nonce, st |-> "start"]}]
         \/ UNCHANGED procs
  BY DEF HandleDispatch, d
<1>5. outbox' \in [Nodes -> Seq(Events)]
  BY <1>3, <1>4, EmitOK
<1>6. running' \in [Nodes -> SUBSET Nat]
  <2>1. running \in [Nodes -> SUBSET Nat] /\ running[n] \cup {d.exec} \in SUBSET Nat
    BY <1>2 DEF AgentOK
  <2> QED  BY <1>4, <2>1
<1>7. procs' \in [Nodes -> SUBSET Procs]
  <2> DEFINE p == [exec |-> d.exec, nonce |-> d.nonce, st |-> "start"]
  <2>1. procs \in [Nodes -> SUBSET Procs] /\ procs[n] \cup {p} \in SUBSET Procs
    BY <1>2 DEF AgentOK
  <2>2. procs' = procs \/ procs' = [procs EXCEPT ![n] = @ \cup {p}]
    BY <1>4
  <2> HIDE DEF p
  <2> QED  BY <2>1, <2>2
<1>8. poll' \in [Nodes -> Polls]
  BY <1>6, HandledOK DEF HandleDispatch
<1> QED  BY <1>5, <1>6, <1>7, <1>8 DEF AgentOK, HandleDispatch

LEMMA EndsOK ==
    ASSUME AgentOK, NEW n \in Nodes, NEW p \in procs[n], NEW s \in RESULT_STATES,
           Ends(n, p, s)
    PROVE  AgentOK'
<1>1. p \in Procs
  BY DEF AgentOK
<1>2. Result(p.exec, s) \in Events
  BY <1>1 DEF Procs, Result, Events
<1>3. outbox' \in [Nodes -> Seq(Events)]
  BY <1>2, EmitOK DEF Ends
<1>4. /\ procs' \in [Nodes -> SUBSET Procs]
      /\ cancelled' \in [Nodes -> SUBSET Nat]
      /\ running' \in [Nodes -> SUBSET Nat]
  BY DEF Ends, AgentOK
<1> QED  BY <1>3, <1>4 DEF Ends, AgentOK

LEMMA ProcsOK ==
    ASSUME AgentOK, NEW n \in Nodes, NEW p \in procs[n],
           \/ Spawn(n, p) \/ NotSpawned(n, p) \/ Output(n, p)
           \/ \E out \in ToolOutcomes : Exit(n, p, out)
    PROVE  AgentOK'
<1>1. p \in Procs
  BY DEF AgentOK
<1>2. CASE Spawn(n, p)
  <2> DEFINE q == [p EXCEPT !.st = "run"]
  <2>1. q \in Procs
    BY <1>1 DEF Procs
  <2>2. procs' = [procs EXCEPT ![n] = (@ \ {p}) \cup {q}]
    BY <1>2 DEF Spawn
  <2> HIDE DEF q
  <2>3. /\ procs \in [Nodes -> SUBSET Procs]
        /\ (procs[n] \ {p}) \cup {q} \in SUBSET Procs
    BY <2>1 DEF AgentOK
  <2>4. procs' \in [Nodes -> SUBSET Procs]
    BY <2>2, <2>3
  <2> QED  BY <1>2, <2>4 DEF Spawn, AgentOK
<1>3. CASE NotSpawned(n, p)
  BY <1>3, EndsOK DEF NotSpawned, RESULT_STATES
<1>4. ASSUME NEW out \in ToolOutcomes, Exit(n, p, out)
      PROVE  AgentOK'
  BY <1>4, EndsOK, AgentAssumption DEF Exit, RESULT_STATES
<1>5. CASE Output(n, p)
  <2>1. Chunk(p.exec) \in Events
    BY <1>1 DEF Procs, Chunk, Events
  <2>2. outbox' \in [Nodes -> Seq(Events)]
    BY <1>5, <2>1, EmitOK DEF Output
  <2> QED  BY <1>5, <2>2 DEF Output, AgentOK
<1> QED  BY <1>2, <1>3, <1>4, <1>5

-----------------------------------------------------------------------------
(* The sender and the hub.                                                    *)

LEMMA FlushOK ==
    ASSUME AgentOK, NEW n \in Nodes, Flush(n)
    PROVE  AgentOK'
<1> DEFINE h == [events |-> outbox[n], seen |-> NoState, awaited |-> TRUE]
<1>1. h \in Handlers
  BY DEF AgentOK, Flush, Handlers
<1>2. hub[n] \in Seq(Handlers)
  BY DEF AgentOK
<1>3. hub' = [hub EXCEPT ![n] = Append(@, h)]
  BY DEF Flush
<1> HIDE DEF h
<1>4. Append(hub[n], h) \in Seq(Handlers)
  BY <1>1, <1>2, AppendProperties
<1>5. hub' \in [Nodes -> Seq(Handlers)]
  BY <1>3, <1>4 DEF AgentOK
<1>6. outbox' \in [Nodes -> Seq(Events)] /\ posted' \in [Nodes -> Seq(Events)]
  BY EmptySeq DEF AgentOK, Flush
<1> QED  BY <1>5, <1>6 DEF AgentOK, Flush

LEMMA AgainOK ==
    ASSUME AgentOK, NEW n \in Nodes, Again(n)
    PROVE  /\ posted' \in [Nodes -> Seq(Events)]
           /\ outbox' \in [Nodes -> Seq(Events)]
<1> DEFINE ids == {k \in DOMAIN posted[n] : posted[n][k].type # "output"}
<1>1. PICK f \in InOrder(ids) :
         outbox' = [outbox EXCEPT ![n] = @ \o [k \in DOMAIN f |-> posted[n][f[k]]]]
  BY DEF Again
<1>2. posted[n] \in Seq(Events) /\ outbox[n] \in Seq(Events)
  BY DEF AgentOK
<1>3. ids \subseteq DOMAIN posted[n]
  OBVIOUS
<1> HIDE DEF ids
<1>4. f \in Seq(ids) /\ \A k \in DOMAIN f : f[k] \in DOMAIN posted[n]
  BY <1>2, <1>3, InOrderOK
<1> DEFINE es == [k \in DOMAIN f |-> posted[n][f[k]]]
<1>5. DOMAIN f = 1..Len(f) /\ Len(f) \in Nat
  BY <1>4, LenProperties
<1>6. \A k \in DOMAIN f : posted[n][f[k]] \in Events
  BY <1>2, <1>4, LenProperties, ElementOfSeq
<1>7. es \in [1..Len(f) -> Events]
  BY <1>5, <1>6
<1>8. es \in Seq(Events)
  BY <1>5, <1>7, SeqDef
<1> HIDE DEF es
<1>9. outbox[n] \o es \in Seq(Events)
  BY <1>2, <1>8, ConcatProperties
<1>10. outbox' = [outbox EXCEPT ![n] = @ \o es]
  BY <1>1 DEF es
<1>11. outbox' \in [Nodes -> Seq(Events)]
  BY <1>9, <1>10 DEF AgentOK
<1>12. posted' \in [Nodes -> Seq(Events)]
  BY EmptySeq DEF AgentOK, Again
<1> QED  BY <1>11, <1>12

\* A handler is rewritten, removed, or no longer waited for.
LEMMA HandlersOK ==
    ASSUME AgentOK, NEW n \in Nodes, NEW y \in Seq(Handlers),
           hub' = [hub EXCEPT ![n] = y]
    PROVE  hub' \in [Nodes -> Seq(Handlers)]
BY DEF AgentOK

LEMMA UnawaitedOK ==
    ASSUME AgentOK, NEW n \in Nodes
    PROVE  Unawaited(n) \in Seq(Handlers)
<1>1. hub[n] \in Seq(Handlers)
  BY DEF AgentOK
<1>2. DOMAIN hub[n] = 1..Len(hub[n]) /\ Len(hub[n]) \in Nat
  BY <1>1, LenProperties
<1>3. \A k \in DOMAIN hub[n] : hub[n][k] \in Handlers
  BY <1>1, <1>2, ElementOfSeq
<1>4. \A h \in Handlers : [h EXCEPT !.awaited = FALSE] \in Handlers
  BY DEF Handlers
<1>5. Unawaited(n) \in [1..Len(hub[n]) -> Handlers]
  BY <1>2, <1>3, <1>4 DEF Unawaited
<1> QED  BY <1>2, <1>5, SeqDef

LEMMA GiveUpOK ==
    ASSUME AgentOK, NEW n \in Nodes, GiveUp(n)
    PROVE  AgentOK'
<1>1. posted' \in [Nodes -> Seq(Events)] /\ outbox' \in [Nodes -> Seq(Events)]
  BY AgainOK DEF GiveUp
<1>2. hub[n] \in Seq(Handlers)
  BY DEF AgentOK
<1>3. Front(hub[n]) \in Seq(Handlers) /\ Unawaited(n) \in Seq(Handlers)
  BY <1>2, FrontOK, UnawaitedOK
<1>4. \/ hub' = [hub EXCEPT ![n] = Unawaited(n)]
      \/ hub' = [hub EXCEPT ![n] = Front(hub[n])]
  BY DEF GiveUp
<1>5. hub' \in [Nodes -> Seq(Handlers)]
  BY <1>3, <1>4, HandlersOK
<1> QED  BY <1>1, <1>5 DEF GiveUp, AgentOK

LEMMA HandlerOK ==
    ASSUME AgentOK, NEW n \in Nodes, NEW k \in DOMAIN hub[n]
    PROVE  /\ hub[n] \in Seq(Handlers) /\ hub[n][k] \in Handlers
           /\ k \in 1..Len(hub[n])
           /\ RemoveAt(hub[n], k) \in Seq(Handlers)
<1>1. hub[n] \in Seq(Handlers)
  BY DEF AgentOK
<1>2. k \in 1..Len(hub[n])
  BY <1>1, LenProperties
<1> QED  BY <1>1, <1>2, ElementOfSeq, RemoveOK

LEMMA NextEventOK ==
    ASSUME AgentOK, NEW n \in Nodes, NEW k \in DOMAIN hub[n], NextEvent(n, k)
    PROVE  /\ hub' \in [Nodes -> Seq(Handlers)]
           /\ posted' \in [Nodes -> Seq(Events)]
<1> DEFINE h == hub[n][k]
<1>1. h \in Handlers /\ hub[n] \in Seq(Handlers) /\ k \in 1..Len(hub[n])
  BY HandlerOK
<1>2. h.events \in Seq(Events) /\ h.events # <<>>
  BY <1>1 DEF Handlers
<1>3. CASE Len(h.events) > 1
  <2> DEFINE g == [h EXCEPT !.events = Tail(h.events), !.seen = NoState]
  <2>1. Tail(h.events) \in Seq(Events) /\ Tail(h.events) # <<>>
    BY <1>2, <1>3, TailOK
  <2>2. g \in Handlers
    BY <1>1, <2>1 DEF Handlers
  <2>3. posted' = posted /\ hub' = [hub EXCEPT ![n][k] = g]
    BY <1>3 DEF NextEvent
  <2> HIDE DEF g
  <2>4. hub' = [hub EXCEPT ![n] = [hub[n] EXCEPT ![k] = g]]
    BY <2>3 DEF AgentOK
  <2>5. [hub[n] EXCEPT ![k] = g] \in Seq(Handlers)
    BY <1>1, <2>2, ExceptSeq
  <2> QED  BY <2>3, <2>4, <2>5, HandlersOK DEF AgentOK
<1>4. CASE ~(Len(h.events) > 1)
  <2>1. hub' = [hub EXCEPT ![n] = RemoveAt(hub[n], k)]
    BY <1>4 DEF NextEvent
  <2>2. posted' = posted \/ posted' = [posted EXCEPT ![n] = <<>>]
    BY <1>4 DEF NextEvent
  <2>3. posted' \in [Nodes -> Seq(Events)]
    <3>1. <<>> \in Seq(Events)
      BY EmptySeq
    <3> QED  BY <2>2, <3>1 DEF AgentOK
  <2> QED  BY <2>1, <2>3, HandlerOK, HandlersOK
<1> QED  BY <1>3, <1>4

LEMMA HubAgentOK ==
    ASSUME AgentOK, NEW n \in Nodes, Hub(n)
    PROVE  AgentOK'
<1>1. PICK k \in DOMAIN hub[n] :
         HubDrop(n, k) \/ HubNote(n, k) \/ HubResult(n, k) \/ HubRaise(n, k)
  BY DEF Hub
<1>2. CASE HubDrop(n, k) \/ HubNote(n, k) \/ HubResult(n, k)
  <2>1. NextEvent(n, k)
    BY <1>2 DEF HubDrop, HubNote, HubResult
  <2>2. hub' \in [Nodes -> Seq(Handlers)] /\ posted' \in [Nodes -> Seq(Events)]
    BY <2>1, NextEventOK
  <2> QED  BY <1>2, <2>2 DEF HubDrop, HubNote, HubResult, AgentOK
<1>3. CASE HubRaise(n, k)
  <2>1. hub' = [hub EXCEPT ![n] = RemoveAt(hub[n], k)]
    BY <1>3 DEF HubRaise
  <2>2. hub' \in [Nodes -> Seq(Handlers)]
    BY <2>1, HandlerOK, HandlersOK
  <2>3. posted' \in [Nodes -> Seq(Events)] /\ outbox' \in [Nodes -> Seq(Events)]
    BY <1>3, AgainOK DEF HubRaise, AgentOK
  <2> QED  BY <1>3, <2>2, <2>3 DEF HubRaise, AgentOK
<1> QED  BY <1>1, <1>2, <1>3

LEMMA OverlapOK ==
    ASSUME MasterOK, AgentOK, NEW n \in Nodes, Overlap(n)
    PROVE  AgentOK'
<1>1. PICK k \in DOMAIN hub[n] : HubRead(n, k)
  BY DEF Overlap
<1> DEFINE g == [hub[n][k] EXCEPT !.seen = StateOf(n, k)]
<1>2. hub[n][k] \in Handlers /\ hub[n] \in Seq(Handlers) /\ k \in 1..Len(hub[n])
  BY HandlerOK
<1>3. StateOf(n, k) \in EXEC_STATES
  <2>1. Matters(EventOf(n, k), StateOf(n, k)) /\ EventOf(n, k).type \in {"running", "output", "result"}
    BY <1>1 DEF HubRead, Taken, Seen
  <2> QED  BY <2>1 DEF Matters, EXEC_IN_FLIGHT, EXEC_STATES
<1>4. g \in Handlers
  BY <1>2, <1>3 DEF Handlers
<1>5. hub' = [hub EXCEPT ![n] = [hub[n] EXCEPT ![k] = g]]
  BY <1>1 DEF HubRead
<1> HIDE DEF g
<1>6. [hub[n] EXCEPT ![k] = g] \in Seq(Handlers)
  BY <1>2, <1>4, ExceptSeq
<1>7. hub' \in [Nodes -> Seq(Handlers)]
  BY <1>5, <1>6, HandlersOK
<1> QED  BY <1>1, <1>7 DEF HubRead, AgentOK

LEMMA LifeOK ==
    ASSUME AgentOK, NEW n \in Nodes, Dies(n) \/ Restarts(n)
    PROVE  AgentOK'
<1>1. Asking({}) \in Polls /\ NotPolling \in Polls
  BY PollsOK
<1>2. poll' \in [Nodes -> Polls]
  BY <1>1 DEF AgentOK, Dies, Restarts
<1>3. hub' \in [Nodes -> Seq(Handlers)]
  BY UnawaitedOK, HandlersOK DEF AgentOK, Dies, Restarts
<1>4. /\ outbox' \in [Nodes -> Seq(Events)]
      /\ posted' \in [Nodes -> Seq(Events)]
  <2>1. <<>> \in Seq(Events)
    BY EmptySeq
  <2>2. /\ outbox' = outbox \/ outbox' = [outbox EXCEPT ![n] = <<>>]
        /\ posted' = posted \/ posted' = [posted EXCEPT ![n] = <<>>]
    BY DEF Dies, Restarts
  <2> QED  BY <2>1, <2>2 DEF AgentOK
<1>5. /\ up' \in [Nodes -> BOOLEAN]
      /\ running' \in [Nodes -> SUBSET Nat]
      /\ cancelled' \in [Nodes -> SUBSET Nat]
      /\ procs' \in [Nodes -> SUBSET Procs]
  BY DEF AgentOK, Dies, Restarts
<1> QED  BY <1>2, <1>3, <1>4, <1>5 DEF AgentOK

LEMMA AgentStep ==
    ASSUME MasterOK, MasterOK', AgentOK, [Next]_vars
    PROVE  AgentOK'
<1>1. CASE UNCHANGED vars
  BY <1>1, AgentKept DEF vars, fleetVars
<1>2. CASE Service \/ Command \/ KillSwitch \/ \E a \in Actors : Carried(a)
  BY <1>2, AgentKept DEF Service, Command, KillSwitch, Carried
<1>3. ASSUME NEW n \in Nodes, Work(n)
      PROVE  AgentOK'
  BY <1>3, PollReplyOK, PollOthersOK, HandleDispatchOK, ProcsOK, FlushOK DEF Work
<1>4. ASSUME NEW n \in Nodes, Tool(n) \/ Chatter(n)
      PROVE  AgentOK'
  BY <1>4, ProcsOK DEF Tool, Chatter
<1>5. ASSUME NEW n \in Nodes, Hub(n) \/ Overlap(n)
      PROVE  AgentOK'
  BY <1>5, HubAgentOK, OverlapOK
<1>6. ASSUME NEW n \in Nodes, Lost(n)
      PROVE  AgentOK'
  BY <1>6, PollOthersOK, GiveUpOK DEF Lost
<1>7. ASSUME NEW n \in Nodes, Crash(n) \/ Restart(n)
      PROVE  AgentOK'
  BY <1>7, LifeOK DEF Crash, Restart
<1>8. ASSUME NEW n \in Nodes, TimeOut(n) \/ Silence(n)
      PROVE  AgentOK'
  BY <1>8, AgentKept DEF TimeOut, Silence
<1> QED  BY <1>1, <1>2, <1>3, <1>4, <1>5, <1>6, <1>7, <1>8 DEF Next

-----------------------------------------------------------------------------
(* What the model remembers, and the budget.                                  *)

HistoryOK ==
    /\ budget \in [BudgetKinds -> Nat]
    /\ excused \subseteq Nat
    /\ held \subseteq Nat
    /\ retried \subseteq Nodes
    /\ began \in [Nodes -> SUBSET Dispatches]
    /\ forsaken \in [Nodes -> SUBSET Nat]

LEMMA BudgetOK ==
    ASSUME budget \in [BudgetKinds -> Nat], [Next]_vars
    PROVE  budget' \in [BudgetKinds -> Nat]
<1>1. ASSUME NEW kind \in BudgetKinds, Spend(kind)
      PROVE  budget' \in [BudgetKinds -> Nat]
  <2>1. budget[kind] - 1 \in Nat
    BY <1>1 DEF Spend
  <2> QED  BY <1>1, <2>1 DEF Spend
<1>2. "command" \in BudgetKinds /\ "trouble" \in BudgetKinds
  BY DEF BudgetKinds
<1>3. \/ UNCHANGED budget \/ Spend("command") \/ Spend("trouble")
  BY DEF Next, vars, fleetVars, Service, Command, KillSwitch, Carried, Work,
     Tool, Hub, TimeOut, Lost, Chatter, Overlap, Crash, Restart, Silence
<1> QED  BY <1>1, <1>2, <1>3

LEMMA HistoryKept ==
    ASSUME MasterOK, MasterOK', AgentOK', HistoryOK, HistoryNext
    PROVE  /\ excused' \subseteq Nat /\ held' \subseteq Nat
           /\ retried' \subseteq Nodes
           /\ began' \in [Nodes -> SUBSET Dispatches]
           /\ forsaken' \in [Nodes -> SUBSET Nat]
<1>1. \A a \in Actors : op[a].batch \in Nat /\ op[a].node \in Nodes
  <2>1. \A a \in Actors : op[a] \in Commands
    BY DEF MasterOK, MasterTypeOK
  <2>2. (CHOOSE n \in Nodes : TRUE) \in Nodes
    BY PlanAssumption
  <2> QED  BY <2>1, <2>2 DEF Commands, NoOp
<1>2. excused' \subseteq Nat /\ retried' \subseteq Nodes
  BY <1>1 DEF HistoryNext, HistoryOK
<1>3. held' \subseteq Nat
  <2>1. run'.batch \in Nat
    BY DEF MasterOK, MasterTypeOK, Run
  <2> QED  BY <2>1 DEF HistoryNext, HistoryOK
<1>4. began' \in [Nodes -> SUBSET Dispatches]
  <2>1. \A n \in Nodes : \A p \in procs'[n] :
           [exec |-> p.exec, nonce |-> p.nonce] \in Dispatches
    BY DEF AgentOK, Procs, Dispatches
  <2> DEFINE B(n) == {[exec |-> p.exec, nonce |-> p.nonce] :
                          p \in {q \in procs'[n] : q.st = "run"}}
  <2>2. \A n \in Nodes : B(n) \subseteq Dispatches
    BY <2>1
  <2>3. began' = [n \in Nodes |-> began[n] \cup B(n)]
    BY DEF HistoryNext
  <2> HIDE DEF B
  <2> QED  BY <2>2, <2>3 DEF HistoryOK
<1>5. forsaken' \in [Nodes -> SUBSET Nat]
  <2>1. \A n \in Nodes : NowForsaken(n) \subseteq Nat
    <3> SUFFICES ASSUME NEW n \in Nodes
                 PROVE  NowForsaken(n) \subseteq Nat
      OBVIOUS
    <3>1. execs'[n] \in Seq(Execution)
      BY DEF MasterOK, ExecsOK
    <3>2. DOMAIN execs'[n] \subseteq Nat
      BY <3>1, Entries
    <3> QED  BY <3>2 DEF NowForsaken
  <2>2. forsaken' = [n \in Nodes |-> forsaken[n] \cup NowForsaken(n)]
    BY DEF HistoryNext
  <2> QED  BY <2>1, <2>2 DEF HistoryOK
<1> QED  BY <1>2, <1>3, <1>4, <1>5

LEMMA HistoryStep ==
    ASSUME MasterOK, MasterOK', AgentOK', HistoryOK, [Next]_vars
    PROVE  HistoryOK'
<1>1. budget' \in [BudgetKinds -> Nat]
  BY BudgetOK DEF HistoryOK
<1>2. CASE UNCHANGED vars
  BY <1>2 DEF HistoryOK, vars, historyVars, fleetVars
<1>3. CASE HistoryNext
  BY <1>1, <1>3, HistoryKept DEF HistoryOK
<1> QED  BY <1>2, <1>3 DEF Next

FleetOK == MasterOK /\ AgentOK /\ HistoryOK

LEMMA FleetInvariant == Spec => []FleetOK
<1>1. Init => FleetOK
  <2> SUFFICES ASSUME Init PROVE FleetOK
    OBVIOUS
  <2>1. AgentOK
    BY PollsOK, EmptySeq DEF Init, AgentInit, AgentOK
  <2>2. HistoryOK
    BY BudgetAssumption DEF Init, HistoryOK
  <2> QED  BY <2>1, <2>2, MasterInitOK DEF Init, FleetOK
<1>2. FleetOK /\ [Next]_vars => FleetOK'
  BY MasterStep, AgentStep, HistoryStep DEF FleetOK
<1> QED  BY <1>1, <1>2, PTL DEF Spec

\* Every variable keeps its type: in particular the hub never handles a POST
\* without an event, and a node never handles a reply without a dispatch.
THEOREM TypeCorrect == Spec => []TypeOK
<1>1. FleetOK => TypeOK
  <2> SUFFICES ASSUME FleetOK PROVE TypeOK
    OBVIOUS
  <2> USE DEF FleetOK
  <2> DEFINE Wide == [events : Seq(Events), awaited : BOOLEAN,
                      seen : EXEC_STATES \cup {NoState}]
  <2>1. Handlers \subseteq Wide
    BY DEF Handlers
  <2>2. \A q \in Seq(Handlers) : q \in Seq(Wide)
    <3> HIDE DEF Wide
    <3> QED  BY <2>1, SeqMonotonic
  <2>3. hub \in [Nodes -> Seq(Wide)]
    <3> HIDE DEF Wide
    <3> QED  BY <2>2 DEF AgentOK
  <2>4. poll \in [Nodes -> [at : {"sent", "work", "none"}, running : SUBSET Nat,
                            todo : Seq(Dispatches)]]
    BY DEF AgentOK, Polls
  <2>5. AgentTypeOK
    BY <2>3, <2>4 DEF AgentOK, AgentTypeOK
  <2> QED  BY <2>5 DEF MasterOK, HistoryOK, TypeOK
<1> QED  BY <1>1, FleetInvariant, PTL

-----------------------------------------------------------------------------
(* How the rows of a node go on.                                              *)

\* No handler of the hub is between its reading and its writing.
NoneSeen == \A n \in Nodes : \A k \in DOMAIN hub[n] : hub[n][k].seen = NoState

LEMMA EventOK ==
    ASSUME AgentOK, NEW n \in Nodes, NEW k \in DOMAIN hub[n]
    PROVE  /\ EventOf(n, k) \in Events
           /\ hub[n][k].events \in Seq(Events) /\ hub[n][k].events # <<>>
           /\ EventOf(n, k) = hub[n][k].events[1] /\ 1 \in DOMAIN hub[n][k].events
<1>1. hub[n][k].events \in Seq(Events) /\ hub[n][k].events # <<>>
  BY HandlerOK DEF Handlers
<1>2. /\ Len(hub[n][k].events) \in Nat /\ Len(hub[n][k].events) # 0
      /\ DOMAIN hub[n][k].events = 1..Len(hub[n][k].events)
  BY <1>1, LenProperties, EmptySeq
<1>3. 1 \in DOMAIN hub[n][k].events
  BY <1>2
<1> QED  BY <1>1, <1>2, <1>3, HeadTailProperties, ElementOfSeq DEF EventOf

LEMMA HubGoes ==
    ASSUME MasterOK, AgentOK, NEW n \in Nodes, Hub(n)
    PROVE  /\ \A m \in Nodes : RowsGo(execs[m], execs'[m])
           /\ NoneSeen => AllGoOn(execs, execs')
<1>1. PICK k \in DOMAIN hub[n] :
         HubDrop(n, k) \/ HubNote(n, k) \/ HubResult(n, k) \/ HubRaise(n, k)
  BY DEF Hub
<1> DEFINE e == EventOf(n, k)
<1>2. CASE UNCHANGED execs
  BY <1>2, SameGoesOn, GoOnGoes DEF AllGoOn
<1>3. CASE HubNote(n, k)
  <2>1. execs' = Moved(n, e.exec, "running") /\ "running" \in EXEC_STATES
    BY <1>3 DEF HubNote, EXEC_STATES
  <2>2. NoneSeen => execs[n][e.exec].state \in EXEC_LIVE
    BY <1>3 DEF NoneSeen, HubNote, Taken, Seen, StateOf, Matters, EXEC_LIVE,
       EXEC_IN_FLIGHT
  <2> QED  BY <2>1, <2>2, MovedGoes
<1>4. CASE HubResult(n, k) /\ execs' # execs
  <2>1. execs' = Moved(n, e.exec, e.state) /\ e.state \in EXEC_TRANSITIONS(StateOf(n, k))
    BY <1>4 DEF HubResult
  <2>2. e.state \in EXEC_STATES
    BY <2>1 DEF EXEC_TRANSITIONS, EXEC_STATES
  <2>3. execs[n][e.exec].state \in EXEC_LIVE /\ e.state # "queued"
    <3>1. e \in Events
      BY EventOK
    <3>2. e.state # "queued"
      BY <3>1 DEF Events, RESULT_STATES, NoState
    <3> QED  BY <2>1, <3>2 DEF EXEC_TRANSITIONS, EXEC_LIVE, StateOf
  <2> HIDE DEF e
  <2> QED  BY <2>1, <2>2, <2>3, MovedGoes
<1> QED  BY <1>1, <1>2, <1>3, <1>4, MasterKept DEF HubDrop, HubRaise, masterVars

LEMMA RowsStep ==
    ASSUME MasterOK, AgentOK, [Next]_vars
    PROVE  /\ \A n \in Nodes : RowsGo(execs[n], execs'[n])
           /\ NoneSeen => AllGoOn(execs, execs')
<1>1. CASE UNCHANGED execs
  BY <1>1, SameGoesOn, GoOnGoes DEF AllGoOn
<1>2. CASE AllGoOn(execs, execs')
  BY <1>2, GoOnGoes DEF AllGoOn
<1>3. CASE Service
  BY <1>1, <1>2, <1>3, TickGoesOn DEF Service, ListRuns
<1>4. CASE Command \/ KillSwitch
  BY <1>1, <1>4 DEF Command, ReadRun, ReadNode, ReadStatus, Read, KillSwitch, Switch
<1>5. ASSUME NEW a \in Actors, Carried(a)
      PROVE  AllGoOn(execs, execs')
  BY <1>5, CarryGoesOn DEF Carried
<1>6. ASSUME NEW n \in Nodes, PollReply(n) \/ PollLost(n)
      PROVE  AllGoOn(execs, execs')
  <2>1. PICK out \in [Claims(n, poll[n].running) -> DispatchOutcomes] : Claim(n, out)
    BY <1>6 DEF PollReply, PollLost
  <2> QED  BY <2>1, ClaimGoesOn
<1>7. ASSUME NEW n \in Nodes, Hub(n)
      PROVE  /\ \A m \in Nodes : RowsGo(execs[m], execs'[m])
             /\ NoneSeen => AllGoOn(execs, execs')
  BY <1>7, HubGoes
<1>8. ASSUME NEW n \in Nodes,
             \/ (Work(n) /\ ~PollReply(n)) \/ Tool(n) \/ TimeOut(n)
             \/ GiveUp(n) \/ Chatter(n) \/ Overlap(n)
             \/ Crash(n) \/ Restart(n) \/ Silence(n)
      PROVE  UNCHANGED execs
  BY <1>8 DEF Work, PollAgain, HandleDispatch, Spawn, NotSpawned, Flush, Tool,
     Exit, Ends, TimeOut, Elapse, GiveUp, Chatter, Output, Overlap, HubRead,
     Crash, Dies, Restart, Restarts, Silence, GoesOffline, masterVars
<1>9. CASE UNCHANGED vars
  BY <1>1, <1>9 DEF vars, fleetVars, masterVars
<1> QED  BY <1>1, <1>2, <1>3, <1>4, <1>5, <1>6, <1>7, <1>8, <1>9 DEF Next, Lost

-----------------------------------------------------------------------------
(* AtMostOnce.  A row decides on Cap runs of its tool beyond the attempts it  *)
(* was created with (b: a retry by the operator carries them over); every     *)
(* dispatch there is of it carries the number of one of those attempts.       *)

\* The dispatches a node is to handle, has threads for, or began.
Waiting(n) == {poll[n].todo[k] : k \in DOMAIN poll[n].todo}

Threads(n) == {[exec |-> p.exec, nonce |-> p.nonce] : p \in procs[n]}

Known(n) == began[n] \cup Waiting(n) \cup Threads(n)

Cap(x) == IF Repeats(x) THEN MaxAttempts ELSE 1

Within(n, i, b) ==
    LET x == execs[n][i] IN
    /\ b <= x.attempts /\ x.attempts - b <= Cap(x)
    /\ x.state = "queued" => x.attempts - b < Cap(x)
    /\ \A d \in Known(n) : d.exec = i => d.nonce \in (b + 1)..x.attempts

DispatchesOK ==
    \A n \in Nodes :
        /\ \A d \in Known(n) : d.exec \in DOMAIN execs[n]
        /\ \A i \in DOMAIN execs[n] : \E b \in Nat : Within(n, i, b)

\* A dispatch the master has just handed to node n.
Given(n, d) ==
    /\ d.exec \in DOMAIN execs[n]
    /\ execs'[n][d.exec].attempts = execs[n][d.exec].attempts + 1
    /\ d.nonce = execs'[n][d.exec].attempts

LEMMA NothingWaits ==
    ASSUME NEW n
    PROVE  /\ \A ids : Asking(ids).todo = <<>>
           /\ NotPolling.todo = <<>>
           /\ poll[n].todo = <<>> => Waiting(n) = {} /\ Sent(n) = {}
BY DEF Asking, NotPolling, Waiting, Sent

LEMMA WaitingReply ==
    ASSUME MasterOK, AgentOK, NEW n \in Nodes, PollReply(n), NEW d \in Waiting(n)'
    PROVE  d \in Waiting(n) \/ Given(n, d)
<1>1. PICK out \in [Claims(n, poll[n].running) -> DispatchOutcomes] :
         /\ Claim(n, out)
         /\ IF Handed(out) = {} THEN UNCHANGED poll
            ELSE \E order \in InOrder(Handed(out)) :
                    poll' = [poll EXCEPT ![n] = Handling(Envelopes(n, order))]
  BY DEF PollReply
<1>2. CASE Handed(out) = {}
  BY <1>1, <1>2 DEF Waiting
<1>3. CASE Handed(out) # {}
  <2>1. PICK f \in InOrder(Handed(out)) :
           poll' = [poll EXCEPT ![n] = Handling(Envelopes(n, f))]
    BY <1>1, <1>3
  <2>2. poll'[n].todo = Envelopes(n, f)
    BY <2>1 DEF AgentOK, Handling
  <2>3. PICK k \in DOMAIN f : d = [exec |-> f[k], nonce |-> execs'[n][f[k]].attempts]
    BY <2>2 DEF Waiting, Envelopes
  <2>4. f[k] \in Handed(out)
    BY DEF InOrder
  <2>5. f[k] \in DOMAIN execs[n] /\ f[k] \in DOMAIN out /\ out[f[k]] = "dispatched"
    BY <2>4 DEF Handed, Claims
  <2>6. execs \in [Nodes -> Seq(Execution)]
    BY DEF MasterOK, ExecsOK
  <2>7. execs'[n][f[k]] = Dispatch(execs[n][f[k]], "dispatched")
    BY <1>1, <2>5, <2>6 DEF Claim
  <2>8. execs[n][f[k]] \in Execution
    BY <2>5, <2>6, Entries
  <2>9. execs'[n][f[k]].attempts = execs[n][f[k]].attempts + 1
    BY <2>7, <2>8 DEF Dispatch, Execution
  <2> QED  BY <2>3, <2>5, <2>9 DEF Given
<1> QED  BY <1>2, <1>3

\* A dispatch that is handled is handed to a thread, or refused.
LEMMA WaitingHandled ==
    ASSUME AgentOK, NEW n \in Nodes, HandleDispatch(n)
    PROVE  /\ Waiting(n)' \subseteq Waiting(n)
           /\ Threads(n)' \subseteq Threads(n) \cup Waiting(n)
<1> DEFINE q == poll[n].todo
<1>1. q \in Seq(Dispatches) /\ q # <<>>
  BY DEF AgentOK, Polls, HandleDispatch
<1>2. /\ DOMAIN q = 1..Len(q) /\ Len(q) \in Nat /\ Len(q) # 0 /\ Head(q) = q[1]
      /\ Len(Tail(q)) = Len(q) - 1 /\ DOMAIN Tail(q) = 1..(Len(q) - 1)
      /\ \A i \in 1..(Len(q) - 1) : Tail(q)[i] = q[i + 1]
  <2>1. Len(q) \in Nat /\ Len(q) # 0 /\ DOMAIN q = 1..Len(q)
    BY <1>1, LenProperties, EmptySeq
  <2>2. /\ Tail(q) \in Seq(Dispatches) /\ Len(Tail(q)) = Len(q) - 1
        /\ \A i \in 1..Len(Tail(q)) : Tail(q)[i] = q[i + 1]
        /\ Head(q) = q[1]
    BY <1>1, HeadTailProperties
  <2>3. DOMAIN Tail(q) = 1..Len(Tail(q))
    BY <2>2, LenProperties
  <2> QED  BY <2>1, <2>2, <2>3
<1>3. poll'[n].todo = Tail(q) \/ poll'[n].todo = <<>>
  BY DEF HandleDispatch, Handled, Handling, Asking, AgentOK
<1>4. ASSUME NEW d \in Waiting(n)'
      PROVE  d \in Waiting(n)
  <2>1. poll'[n].todo = Tail(q)
    BY <1>3, <1>4 DEF Waiting
  <2>2. PICK k \in 1..(Len(q) - 1) : d = q[k + 1]
    BY <1>2, <2>1 DEF Waiting
  <2>3. k + 1 \in DOMAIN q
    BY <1>2
  <2> QED  BY <2>2, <2>3 DEF Waiting
<1>5. Head(q) \in Waiting(n) /\ Head(q) \in Dispatches
  <2>1. 1 \in DOMAIN q
    BY <1>2
  <2> QED  BY <1>1, <1>2, <2>1, ElementOfSeq DEF Waiting
<1>6. Threads(n)' \subseteq Threads(n) \cup {Head(q)}
  <2>1. [exec |-> Head(q).exec, nonce |-> Head(q).nonce] = Head(q)
    BY <1>5 DEF Dispatches
  <2>2. procs'[n] \subseteq procs[n] \cup
           {[exec |-> Head(q).exec, nonce |-> Head(q).nonce, st |-> "start"]}
    BY DEF HandleDispatch, AgentOK
  <2> QED  BY <2>1, <2>2 DEF Threads
<1> QED  BY <1>4, <1>5, <1>6

LEMMA ThreadsKept ==
    ASSUME AgentOK, NEW n \in Nodes, NEW p \in procs[n], NEW out,
           Spawn(n, p) \/ NotSpawned(n, p) \/ Exit(n, p, out) \/ Output(n, p)
    PROVE  Threads(n)' \subseteq Threads(n) /\ UNCHANGED poll
<1>1. /\ procs'[n] \subseteq procs[n] \cup {[p EXCEPT !.st = "run"]}
      /\ UNCHANGED poll
  BY DEF AgentOK, Spawn, NotSpawned, Exit, Ends, Output
<1>2. p \in Procs
  BY DEF AgentOK
<1>3. [p EXCEPT !.st = "run"].exec = p.exec /\ [p EXCEPT !.st = "run"].nonce = p.nonce
  BY <1>2 DEF Procs
<1> QED  BY <1>1, <1>3 DEF Threads

LEMMA KnownStep ==
    ASSUME MasterOK, AgentOK, [Next]_vars, NEW m \in Nodes, NEW d \in Known(m)'
    PROVE  d \in Known(m) \/ Given(m, d)
<1> DEFINE Held(n) == Waiting(n) \cup Threads(n)
<1>1. ASSUME UNCHANGED <<poll, procs>>
      PROVE  Held(m)' = Held(m)
  BY <1>1 DEF Waiting, Threads
<1>2. ASSUME NEW n \in Nodes,
             \/ Work(n) \/ Tool(n) \/ Lost(n) \/ Chatter(n) \/ Crash(n) \/ Restart(n)
      PROVE  \A e \in Held(m)' : e \in Held(m) \/ Given(m, e)
  <2>1. CASE m # n
    <3>1. poll'[m] = poll[m] /\ procs'[m] = procs[m]
      BY <1>2, <2>1 DEF AgentOK, Work, PollReply, PollAgain, HandleDispatch,
         Handled, Spawn, NotSpawned, Flush, Tool, Exit, Ends, Lost, PollLost,
         GiveUp, Chatter, Output, Crash, Dies, Restart, Restarts
    <3> QED  BY <3>1 DEF Waiting, Threads
  <2>2. CASE m = n /\ PollReply(n)
    <3>1. UNCHANGED procs
      BY <2>2 DEF PollReply
    <3> QED  BY <2>2, <3>1, WaitingReply DEF Threads
  <2>3. CASE m = n /\ (PollAgain(n) \/ PollLost(n) \/ Crash(n) \/ Restart(n))
    <3>1. poll'[m] = poll[m] \/ poll'[m].todo = <<>>
      BY <2>3 DEF AgentOK, PollAgain, PollLost, Crash, Dies, Restart, Restarts,
         Asking, NotPolling
    <3>2. procs'[m] \subseteq procs[m]
      BY <2>3 DEF AgentOK, PollAgain, PollLost, Crash, Dies, Restart, Restarts
    <3> QED  BY <3>1, <3>2 DEF Waiting, Threads
  <2>4. CASE m = n /\ HandleDispatch(n)
    BY <2>4, WaitingHandled
  <2>5. CASE m = n /\ \E p \in procs[n], out \in ToolOutcomes \cup {NoState} :
                Spawn(n, p) \/ NotSpawned(n, p) \/ Exit(n, p, out) \/ Output(n, p)
    <3>1. Threads(m)' \subseteq Threads(m) /\ UNCHANGED poll
      BY <2>5, ThreadsKept
    <3> QED  BY <3>1 DEF Waiting
  <2>6. CASE Flush(n) \/ GiveUp(n)
    BY <1>1, <2>6 DEF Flush, GiveUp
  <2> QED  BY <1>2, <2>1, <2>2, <2>3, <2>4, <2>5, <2>6 DEF Work, Tool, Lost, Chatter
<1>3. \A e \in Held(m)' : e \in Held(m) \/ Given(m, e)
  <2>1. CASE UNCHANGED <<poll, procs>>
    BY <1>1, <2>1
  <2>2. CASE \E n \in Nodes :
                \/ Work(n) \/ Tool(n) \/ Lost(n) \/ Chatter(n) \/ Crash(n) \/ Restart(n)
    BY <1>2, <2>2
  <2>3. ASSUME NEW n \in Nodes, Hub(n) \/ TimeOut(n) \/ Overlap(n) \/ Silence(n)
        PROVE  UNCHANGED <<poll, procs>>
    BY <2>3 DEF Hub, HubDrop, HubNote, HubResult, HubRaise, TimeOut, Overlap,
       HubRead, Silence, agentVars, nodeVars
  <2>4. CASE UNCHANGED vars \/ Service \/ Command \/ KillSwitch
             \/ \E a \in Actors : Carried(a)
    BY <2>1, <2>4 DEF vars, fleetVars, Service, Command, KillSwitch, Carried,
       agentVars, nodeVars
  <2> QED  BY <2>1, <2>2, <2>3, <2>4 DEF Next
<1>4. began'[m] \subseteq began[m] \cup Threads(m)'
  <2>1. CASE UNCHANGED vars
    BY <2>1 DEF vars, historyVars
  <2>2. CASE HistoryNext
    BY <2>2 DEF HistoryNext, Threads
  <2> QED  BY <2>1, <2>2 DEF Next
<1> QED  BY <1>3, <1>4 DEF Known

LEMMA DispatchesStep ==
    ASSUME MasterOK, MasterOK', AgentOK, DispatchesOK, [Next]_vars
    PROVE  DispatchesOK'
<1> SUFFICES ASSUME NEW m \in Nodes
             PROVE  /\ \A d \in Known(m)' : d.exec \in DOMAIN execs'[m]
                    /\ \A i \in DOMAIN execs'[m] : \E b \in Nat : Within(m, i, b)'
  BY DEF DispatchesOK
<1>1. RowsGo(execs[m], execs'[m])
  BY RowsStep
<1>2. \A d \in Known(m)' : d \in Known(m) \/ Given(m, d)
  BY KnownStep
<1>3. \A d \in Known(m)' : d.exec \in DOMAIN execs[m]
  BY <1>2 DEF DispatchesOK, Given
<1>4. \A d \in Known(m)' : d.exec \in DOMAIN execs'[m]
  BY <1>1, <1>3 DEF RowsGo
<1>5. ASSUME NEW i \in DOMAIN execs'[m]
      PROVE  \E b \in Nat : Within(m, i, b)'
  <2> DEFINE x == execs[m][i]
             y == execs'[m][i]
  <2>1. execs'[m][i] \in Execution
    BY Entries DEF MasterOK, MasterTypeOK
  <2>2. y.attempts \in Nat
    BY <2>1 DEF Execution
  <2>3. CASE i \in DOMAIN execs[m]
    <3>1. PICK b \in Nat : Within(m, i, b)
      BY <2>3 DEF DispatchesOK
    <3>2. Goes(x, y)
      BY <1>1, <2>3 DEF RowsGo
    <3>3. x \in Execution
      BY <2>3, Entries DEF MasterOK, MasterTypeOK
    <3>4. x.attempts \in Nat
      BY <3>3 DEF Execution
    <3>5. /\ b <= x.attempts /\ x.attempts - b <= Cap(x)
          /\ x.state = "queued" => x.attempts - b < Cap(x)
          /\ \A d \in Known(m) : d.exec = i => d.nonce \in (b + 1)..x.attempts
      BY <3>1 DEF Within
    <3>6. Cap(y) = Cap(x) /\ Cap(x) \in Nat
      BY <3>2, StrategyAssumption DEF Goes, Cap, Repeats
    <3>7. Repeats(x) => Cap(x) = MaxAttempts /\ MaxAttempts \in Nat
      BY StrategyAssumption DEF Cap
    <3>8. \/ y.attempts = x.attempts
          \/ y.attempts = x.attempts + 1 /\ x.state = "queued" /\ y.state = "dispatched"
      BY <3>2 DEF Goes
    <3>9. y.state = "queued" =>
             /\ y.attempts = x.attempts
             /\ x.state = "queued" \/ (Repeats(x) /\ x.attempts < MaxAttempts)
      BY <3>2 DEF Goes
    <3>10. /\ b <= y.attempts /\ y.attempts - b <= Cap(y)
           /\ y.state = "queued" => y.attempts - b < Cap(y)
      <4> HIDE DEF x, y
      <4>1. b <= y.attempts /\ y.attempts - b <= Cap(y)
        BY <3>4, <3>5, <3>6, <3>8, <2>2
      <4>2. ASSUME y.state = "queued"
            PROVE  y.attempts - b < Cap(y)
        BY <3>4, <3>5, <3>6, <3>7, <3>9, <2>2, <4>2
      <4> QED  BY <4>1, <4>2
    <3>11. ASSUME NEW d \in Known(m)', d.exec = i
           PROVE  d.nonce \in (b + 1)..y.attempts
      <4>1. CASE d \in Known(m)
        <5>1. d.nonce \in (b + 1)..x.attempts
          BY <3>5, <3>11, <4>1
        <5> HIDE DEF x, y
        <5> QED  BY <2>2, <3>4, <3>8, <5>1
      <4>2. CASE Given(m, d)
        <5>1. y.attempts = x.attempts + 1 /\ d.nonce = y.attempts
          BY <3>11, <4>2 DEF Given
        <5> HIDE DEF x, y
        <5> QED  BY <2>2, <3>4, <3>5, <5>1
      <4> QED  BY <1>2, <4>1, <4>2
    <3>12. Within(m, i, b)'
      BY <3>10, <3>11 DEF Within, Cap
    <3> QED  BY <3>12
  <2>4. CASE i \notin DOMAIN execs[m]
    <3>1. \A d \in Known(m)' : d.exec # i
      BY <1>3, <2>4
    <3>2. Cap(y) \in Nat /\ Cap(y) >= 1
      BY StrategyAssumption DEF Cap
    <3>3. PICK b \in Nat : b = y.attempts
      BY <2>2
    <3>4. b <= y.attempts /\ y.attempts - b <= Cap(y) /\ y.attempts - b < Cap(y)
      <4> HIDE DEF y
      <4> QED  BY <3>2, <3>3
    <3>5. Within(m, i, b)'
      BY <3>1, <3>4 DEF Within, Cap
    <3> QED  BY <3>5
  <2> QED  BY <2>3, <2>4
<1> QED  BY <1>4, <1>5

LEMMA DispatchesInit ==
    ASSUME Init
    PROVE  DispatchesOK
BY NothingWaits DEF Init, MasterInit, AgentInit, DispatchesOK, Known, Waiting,
   Threads, Asking

\* As many processes as there are numbers for them.
LEMMA BeganWithin ==
    ASSUME MasterOK, HistoryOK, DispatchesOK, NEW n \in Nodes, NEW i \in DOMAIN execs[n]
    PROVE  Cardinality({d \in began[n] : d.exec = i}) <= Cap(execs[n][i])
<1> DEFINE D == {d \in began[n] : d.exec = i}
           a == execs[n][i].attempts
<1>1. PICK b \in Nat : Within(n, i, b)
  BY DEF DispatchesOK
<1>2. a \in Nat
  <2>1. execs[n][i] \in Execution
    BY Entries DEF MasterOK, MasterTypeOK
  <2> QED  BY <2>1 DEF Execution
<1>3. \A d \in D : d \in Dispatches /\ d.nonce \in (b + 1)..a /\ d.exec = i
  BY <1>1 DEF Within, Known, HistoryOK
<1>4. b <= a /\ a - b <= Cap(execs[n][i]) /\ Cap(execs[n][i]) \in Nat
  BY <1>1, StrategyAssumption DEF Within, Cap
<1> DEFINE f == [d \in D |-> d.nonce]
<1> HIDE DEF a
<1>5. IsFiniteSet((b + 1)..a) /\ Cardinality((b + 1)..a) = a - b
  <2>1. b + 1 \in Int /\ a \in Int
    BY <1>2
  <2>2. /\ IsFiniteSet((b + 1)..a)
        /\ Cardinality((b + 1)..a) = IF (b + 1) > a THEN 0 ELSE a - (b + 1) + 1
    BY <2>1, FS_Interval
  <2> QED  BY <1>2, <1>4, <2>2
<1>6. f \in Injection(D, (b + 1)..a)
  <2>1. f \in [D -> (b + 1)..a]
    BY <1>3
  <2>2. \A c, d \in D : f[c] = f[d] => c = d
    BY <1>3 DEF Dispatches
  <2> QED  BY <2>1, <2>2 DEF Injection, IsInjective
<1>7. IsFiniteSet(D) /\ Cardinality(D) <= Cardinality((b + 1)..a)
  <2> HIDE DEF D, f
  <2> QED  BY <1>5, <1>6, FS_Injection
<1> QED
  <2>1. Cardinality(D) \in Nat
    BY <1>7, FS_CardinalityType
  <2> HIDE DEF D
  <2>2. Cardinality(D) <= Cap(execs[n][i])
    BY <1>2, <1>4, <1>5, <1>7, <2>1
  <2> QED  BY <2>2 DEF D

\* The agent, health() and claim(): whatever is lost, repeated or late, a tool
\* that is not idempotent is started at most once for a row, and one that is
\* at most MaxAttempts times.
THEOREM StartedAtMostOnce == Spec => []AtMostOnce
<1>1. Init => DispatchesOK
  BY DispatchesInit
<1>2. FleetOK /\ FleetOK' /\ DispatchesOK /\ [Next]_vars => DispatchesOK'
  BY DispatchesStep DEF FleetOK
<1>3. FleetOK /\ DispatchesOK => AtMostOnce
  BY BeganWithin DEF FleetOK, AtMostOnce, Cap
<1> QED  BY <1>1, <1>2, <1>3, FleetInvariant, PTL DEF Spec

-----------------------------------------------------------------------------
(* Accounted.  The sender repeats what it gave up on, so a POST that nobody   *)
(* waits for counts for nothing: an execution in flight is in the hands of    *)
(* the node, of a thread, of the sender, or in a POST the sender waits for.   *)

Reported(n, i) ==
    \E k \in DOMAIN hub[n] : hub[n][k].awaited /\ HasResult(hub[n][k].events, i)

InHand(n, i) ==
    \/ i \in Sent(n)
    \/ \E p \in procs[n] : p.exec = i
    \/ HasResult(outbox[n], i)
    \/ Reported(n, i)

\* The sender waits for the last POST only, and still has what the hub has not
\* yet dealt with; what a handler has read lets its event through.
SenderOK(n) ==
    /\ poll[n].at # "work" => poll[n].todo = <<>>
    /\ ~up[n] => poll[n].at # "work"
    /\ \A k \in DOMAIN hub[n] :
          /\ hub[n][k].awaited =>
                /\ k = Len(hub[n]) /\ posted[n] # <<>>
                /\ \A i \in Nat : HasResult(hub[n][k].events, i) => HasResult(posted[n], i)
          /\ hub[n][k].seen # NoState => Matters(EventOf(n, k), hub[n][k].seen)

AccountOK ==
    \A n \in Nodes :
        /\ SenderOK(n)
        /\ \A i \in DOMAIN execs[n] :
              execs[n][i].state \in EXEC_IN_FLIGHT => i \in forsaken[n] \/ InHand(n, i)

LEMMA RemoveAtPlaces ==
    ASSUME NEW S, NEW q \in Seq(S), NEW k \in DOMAIN q
    PROVE  /\ Len(q) \in Nat /\ DOMAIN q = 1..Len(q) /\ k \in 1..Len(q)
           /\ Len(RemoveAt(q, k)) = Len(q) - 1
           /\ DOMAIN RemoveAt(q, k) = 1..(Len(q) - 1)
           /\ \A j \in 1..(Len(q) - 1) :
                 RemoveAt(q, k)[j] = IF j < k THEN q[j] ELSE q[j + 1]
<1>1. Len(q) \in Nat /\ DOMAIN q = 1..Len(q) /\ k \in 1..Len(q)
      /\ \A i \in 1..Len(q) : q[i] \in S
  BY LenProperties, ElementOfSeq
<1> DEFINE u == SubSeq(q, 1, k - 1)
           v == SubSeq(q, k + 1, Len(q))
<1>2. /\ u \in Seq(S) /\ Len(u) = k - 1
      /\ \A j \in 1..(k - 1) : u[j] = q[j]
  <2>1. 1 \in Int /\ k - 1 \in Int /\ \A i \in 1..(k - 1) : q[i] \in S
    BY <1>1
  <2>2. /\ u \in Seq(S)
        /\ Len(u) = IF 1 <= k - 1 THEN k - 1 - 1 + 1 ELSE 0
        /\ \A j \in 1..k - 1 - 1 + 1 : u[j] = q[1 + j - 1]
    BY <2>1, SubSeqProperties
  <2>3. Len(u) = k - 1 /\ k - 1 - 1 + 1 = k - 1 /\ \A j \in 1..(k - 1) : 1 + j - 1 = j
    BY <1>1, <2>2
  <2> HIDE DEF u
  <2> QED  BY <2>2, <2>3
<1>3. /\ v \in Seq(S) /\ Len(v) = Len(q) - k
      /\ \A j \in 1..(Len(q) - k) : v[j] = q[k + j]
  <2>1. k + 1 \in Int /\ Len(q) \in Int /\ \A i \in (k + 1)..Len(q) : q[i] \in S
    BY <1>1
  <2>2. /\ v \in Seq(S)
        /\ Len(v) = IF k + 1 <= Len(q) THEN Len(q) - (k + 1) + 1 ELSE 0
        /\ \A j \in 1..Len(q) - (k + 1) + 1 : v[j] = q[k + 1 + j - 1]
    BY <2>1, SubSeqProperties
  <2>3. /\ Len(v) = Len(q) - k /\ Len(q) - (k + 1) + 1 = Len(q) - k
        /\ \A j \in 1..(Len(q) - k) : k + 1 + j - 1 = k + j
    BY <1>1, <2>2
  <2> HIDE DEF v
  <2> QED  BY <2>2, <2>3
<1>4. RemoveAt(q, k) = u \o v
  BY DEF RemoveAt
<1> HIDE DEF u, v
<1>5. /\ u \o v \in Seq(S) /\ Len(u \o v) = Len(u) + Len(v)
      /\ \A i \in 1..Len(u) + Len(v) :
            (u \o v)[i] = IF i <= Len(u) THEN u[i] ELSE v[i - Len(u)]
  BY <1>2, <1>3, ConcatProperties
<1>6. Len(u) + Len(v) = Len(q) - 1
  BY <1>1, <1>2, <1>3
<1>7. ASSUME NEW j \in 1..(Len(q) - 1)
      PROVE  (u \o v)[j] = IF j < k THEN q[j] ELSE q[j + 1]
  <2>1. (u \o v)[j] = IF j <= k - 1 THEN u[j] ELSE v[j - (k - 1)]
    BY <1>2, <1>5, <1>6
  <2>2. CASE j < k
    BY <1>1, <1>2, <2>1, <2>2
  <2>3. CASE ~(j < k)
    <3>1. j - (k - 1) \in 1..(Len(q) - k) /\ k + (j - (k - 1)) = j + 1 /\ ~(j <= k - 1)
      BY <1>1, <2>3
    <3>2. v[j - (k - 1)] = q[k + (j - (k - 1))]
      BY <1>3, <3>1
    <3> QED  BY <2>1, <2>3, <3>1, <3>2
  <2> QED  BY <2>2, <2>3
<1>8. DOMAIN (u \o v) = 1..Len(u \o v)
  BY <1>5, LenProperties
<1> QED  BY <1>1, <1>4, <1>5, <1>6, <1>7, <1>8

\* The order in which the events of a failed POST are queued again has them all.
LEMMA InOrderOnto ==
    ASSUME NEW ids \in SUBSET Nat, IsFiniteSet(ids), NEW f \in InOrder(ids),
           NEW k \in ids
    PROVE  \E l \in DOMAIN f : f[l] = k
<1> DEFINE c == Cardinality(ids)
<1>1. c \in Nat
  BY FS_CardinalityType
<1>2. IsFiniteSet(1..c) /\ Cardinality(1..c) = c
  <2> HIDE DEF c
  <2>1. 1 \in Int /\ c \in Int
    BY <1>1
  <2>2. IsFiniteSet(1..c) /\ Cardinality(1..c) = IF 1 > c THEN 0 ELSE c - 1 + 1
    BY <2>1, FS_Interval
  <2> QED  BY <1>1, <2>2
<1>3. f \in [1..c -> ids] /\ \A i, j \in 1..c : i < j => f[i] < f[j]
  BY DEF InOrder
<1>4. \A i, j \in 1..c : f[i] = f[j] => i = j
  <2> HIDE DEF c
  <2> SUFFICES ASSUME NEW i \in 1..c, NEW j \in 1..c, f[i] = f[j], i # j
               PROVE  FALSE
    OBVIOUS
  <2>1. f[i] \in Nat /\ f[j] \in Nat
    BY <1>3
  <2>2. i < j \/ j < i
    BY <1>1
  <2> QED  BY <1>3, <2>1, <2>2
<1>5. f \in Injection(1..c, ids)
  <2>1. DOMAIN f = 1..c
    BY <1>3
  <2> HIDE DEF c
  <2> QED  BY <1>3, <1>4, <2>1 DEF Injection, IsInjective
<1>6. f \in Surjection(1..c, ids)
  <2>1. Cardinality(1..c) = Cardinality(ids)
    BY <1>2
  <2> HIDE DEF c
  <2> QED  BY <1>5, <2>1, FS_Injection
<1>7. DOMAIN f = 1..c
  BY <1>3
<1> HIDE DEF c
<1> QED  BY <1>6, <1>7 DEF Surjection

\* What waits for the sender still waits when more is added.
LEMMA ResultAppended ==
    ASSUME NEW q \in Seq(Events), NEW e \in Events, NEW i
    PROVE  /\ HasResult(q, i) => HasResult(Append(q, e), i)
           /\ e.type = "result" /\ e.exec = i => HasResult(Append(q, e), i)
<1>1. /\ DOMAIN q = 1..Len(q) /\ Len(q) \in Nat
      /\ Append(q, e) \in Seq(Events) /\ Len(Append(q, e)) = Len(q) + 1
      /\ \A k \in 1..Len(q) : Append(q, e)[k] = q[k]
      /\ Append(q, e)[Len(q) + 1] = e
  BY LenProperties, AppendProperties
<1>2. DOMAIN Append(q, e) = 1..(Len(q) + 1)
  BY <1>1, LenProperties
<1>3. Len(q) + 1 \in DOMAIN Append(q, e)
  BY <1>1, <1>2
<1> QED  BY <1>1, <1>2, <1>3 DEF HasResult

LEMMA ResultConcatenated ==
    ASSUME NEW q \in Seq(Events), NEW r \in Seq(Events), NEW i
    PROVE  HasResult(q, i) \/ HasResult(r, i) => HasResult(q \o r, i)
<1>1. /\ DOMAIN q = 1..Len(q) /\ Len(q) \in Nat
      /\ DOMAIN r = 1..Len(r) /\ Len(r) \in Nat
  BY LenProperties
<1>2. /\ q \o r \in Seq(Events) /\ Len(q \o r) = Len(q) + Len(r)
      /\ \A k \in 1..Len(q) + Len(r) :
            (q \o r)[k] = IF k <= Len(q) THEN q[k] ELSE r[k - Len(q)]
  BY ConcatProperties
<1>3. DOMAIN (q \o r) = 1..Len(q) + Len(r)
  BY <1>2, LenProperties
<1>4. ASSUME NEW k \in DOMAIN q
      PROVE  k \in DOMAIN (q \o r) /\ (q \o r)[k] = q[k]
  BY <1>1, <1>2, <1>3
<1>5. ASSUME NEW k \in DOMAIN r
      PROVE  Len(q) + k \in DOMAIN (q \o r) /\ (q \o r)[Len(q) + k] = r[k]
  <2>1. /\ Len(q) + k \in 1..Len(q) + Len(r) /\ ~(Len(q) + k <= Len(q))
        /\ Len(q) + k - Len(q) = k
    BY <1>1
  <2> QED  BY <1>2, <1>3, <2>1
<1> QED  BY <1>4, <1>5 DEF HasResult

\* A failed POST: whatever waits, or was posted, is queued again.
LEMMA AgainKeeps ==
    ASSUME AgentOK, NEW n \in Nodes, Again(n), NEW i,
           HasResult(outbox[n], i) \/ HasResult(posted[n], i)
    PROVE  HasResult(outbox'[n], i)
<1> DEFINE q == posted[n]
           ids == {k \in DOMAIN q : q[k].type # "output"}
<1>1. q \in Seq(Events) /\ outbox[n] \in Seq(Events) /\ outbox \in [Nodes -> Seq(Events)]
  BY DEF AgentOK
<1>2. PICK f \in InOrder(ids) :
         outbox' = [outbox EXCEPT ![n] = @ \o [k \in DOMAIN f |-> q[f[k]]]]
  BY DEF Again
<1> DEFINE es == [k \in DOMAIN f |-> q[f[k]]]
<1>3. DOMAIN q = 1..Len(q) /\ Len(q) \in Nat
  BY <1>1, LenProperties
<1>4. ids \subseteq DOMAIN q /\ ids \subseteq Nat /\ IsFiniteSet(ids)
  <2>1. IsFiniteSet(1..Len(q))
    <3>1. 1 \in Int /\ Len(q) \in Int
      BY <1>3
    <3> QED  BY <3>1, FS_Interval
  <2>2. ids \subseteq 1..Len(q)
    BY <1>3
  <2>3. IsFiniteSet(ids)
    <3> HIDE DEF ids, q
    <3> QED  BY <2>1, <2>2, FS_Subset
  <2> QED  BY <1>3, <2>2, <2>3
<1>5. f \in Seq(ids) /\ \A k \in DOMAIN f : f[k] \in DOMAIN q
  BY <1>1, <1>4, InOrderOK
<1>6. es \in Seq(Events)
  <2>1. DOMAIN f = 1..Len(f) /\ Len(f) \in Nat
    BY <1>5, LenProperties
  <2>2. \A k \in DOMAIN f : q[f[k]] \in Events
    BY <1>1, <1>3, <1>5, ElementOfSeq
  <2>3. es \in [1..Len(f) -> Events]
    BY <2>1, <2>2
  <2> HIDE DEF es
  <2> QED  BY <2>1, <2>3, SeqDef
<1>7. HasResult(q, i) => HasResult(es, i)
  <2> SUFFICES ASSUME HasResult(q, i) PROVE HasResult(es, i)
    OBVIOUS
  <2>1. PICK k \in DOMAIN q : q[k].type = "result" /\ q[k].exec = i
    BY DEF HasResult
  <2>2. k \in ids
    BY <2>1
  <2>3. PICK l \in DOMAIN f : f[l] = k
    <3> HIDE DEF ids
    <3> QED  BY <1>4, <2>2, InOrderOnto
  <2>4. es[l] = q[k] /\ l \in DOMAIN es
    BY <2>3
  <2> HIDE DEF es
  <2> QED  BY <2>1, <2>4 DEF HasResult
<1>8. outbox'[n] = outbox[n] \o es
  BY <1>1, <1>2
<1> HIDE DEF es
<1> QED  BY <1>1, <1>6, <1>7, <1>8, ResultConcatenated

NodeStep(n) ==
    \/ Work(n) \/ Tool(n) \/ Hub(n) \/ TimeOut(n) \/ Lost(n) \/ Chatter(n)
    \/ Overlap(n) \/ Crash(n) \/ Restart(n) \/ Silence(n)

\* Nothing happens to the agent of node n and its POSTs.
SameAgent(n) ==
    /\ up'[n] = up[n] /\ poll'[n] = poll[n] /\ procs'[n] = procs[n]
    /\ outbox'[n] = outbox[n] /\ posted'[n] = posted[n] /\ hub'[n] = hub[n]

LEMMA OthersSame ==
    ASSUME AgentOK, NEW n \in Nodes, NEW m \in Nodes, m # n, NodeStep(m)
    PROVE  SameAgent(n)
<1>1. CASE Hub(m)
  <2>1. PICK k \in DOMAIN hub[m] :
           HubDrop(m, k) \/ HubNote(m, k) \/ HubResult(m, k) \/ HubRaise(m, k)
    BY <1>1 DEF Hub
  <2> QED  BY <2>1 DEF SameAgent, AgentOK, HubDrop, HubNote, HubResult, HubRaise,
           NextEvent, Again
<1>2. CASE Overlap(m) \/ TimeOut(m) \/ Silence(m)
  BY <1>2 DEF SameAgent, AgentOK, Overlap, HubRead, TimeOut, Silence, agentVars,
     nodeVars
<1>3. CASE Work(m)
  BY <1>3 DEF SameAgent, AgentOK, Work, PollReply, PollAgain, HandleDispatch,
     Handled, Emit, Spawn, NotSpawned, Ends, Flush
<1>4. CASE Tool(m) \/ Chatter(m) \/ Crash(m) \/ Restart(m)
  BY <1>4 DEF SameAgent, AgentOK, Tool, Exit, Ends, Emit, Chatter, Output, Crash,
     Dies, Restart, Restarts
<1>5. CASE Lost(m)
  BY <1>5 DEF SameAgent, AgentOK, Lost, PollLost, GiveUp, Again
<1> QED  BY <1>1, <1>2, <1>3, <1>4, <1>5 DEF NodeStep

LEMMA SameSender ==
    ASSUME NEW n \in Nodes, SameAgent(n), SenderOK(n)
    PROVE  SenderOK(n)'
BY DEF SameAgent, SenderOK, EventOf

LEMMA SameInHand ==
    ASSUME NEW n \in Nodes, NEW i, SameAgent(n), InHand(n, i)
    PROVE  InHand(n, i)'
BY DEF SameAgent, InHand, Sent, Reported

-----------------------------------------------------------------------------
(* The sender and the hub's handlers.                                         *)

\* A handler goes: the sender's POST is over if it was waited for.
LEMMA HandlerGone ==
    ASSUME AgentOK, NEW n \in Nodes, SenderOK(n), NEW k \in DOMAIN hub[n],
           hub' = [hub EXCEPT ![n] = RemoveAt(@, k)],
           ~hub[n][k].awaited => posted'[n] = posted[n],
           up'[n] = up[n], poll'[n] = poll[n]
    PROVE  /\ SenderOK(n)'
           /\ \A j \in DOMAIN hub[n] : j # k =>
                 \E l \in DOMAIN hub'[n] : hub'[n][l] = hub[n][j]
<1> DEFINE q == hub[n]
<1>1. q \in Seq(Handlers) /\ hub'[n] = RemoveAt(q, k)
  BY DEF AgentOK
<1>2. /\ Len(q) \in Nat /\ DOMAIN q = 1..Len(q) /\ k \in 1..Len(q)
      /\ Len(hub'[n]) = Len(q) - 1
      /\ DOMAIN hub'[n] = 1..(Len(q) - 1)
      /\ \A j \in 1..(Len(q) - 1) : hub'[n][j] = IF j < k THEN q[j] ELSE q[j + 1]
  BY <1>1, RemoveAtPlaces
<1>3. ASSUME NEW l \in DOMAIN hub'[n]
      PROVE  \E j \in DOMAIN q : /\ j # k /\ hub'[n][l] = q[j]
                                 /\ j = Len(q) => l = Len(q) - 1
  <2>1. CASE l < k
    <3>1. l \in DOMAIN q /\ l # k /\ l # Len(q) /\ hub'[n][l] = q[l]
      BY <1>2, <2>1
    <3> QED  BY <3>1
  <2>2. CASE ~(l < k)
    <3>1. l + 1 \in DOMAIN q /\ l + 1 # k /\ hub'[n][l] = q[l + 1]
          /\ (l + 1 = Len(q) => l = Len(q) - 1)
      BY <1>2, <2>2
    <3> QED  BY <3>1
  <2> QED  BY <2>1, <2>2
<1>4. ASSUME NEW l \in DOMAIN hub'[n]
      PROVE  /\ hub'[n][l].awaited =>
                   /\ l = Len(hub'[n]) /\ posted'[n] # <<>>
                   /\ \A i \in Nat : HasResult(hub'[n][l].events, i)
                                        => HasResult(posted'[n], i)
             /\ hub'[n][l].seen # NoState =>
                   Matters(Head(hub'[n][l].events), hub'[n][l].seen)
  <2>1. PICK j \in DOMAIN q : /\ j # k /\ hub'[n][l] = q[j]
                              /\ j = Len(q) => l = Len(q) - 1
    BY <1>3
  <2>2. q[j].seen # NoState => Matters(Head(q[j].events), q[j].seen)
    BY DEF SenderOK, EventOf
  <2>3. ASSUME q[j].awaited
        PROVE  /\ l = Len(hub'[n]) /\ posted'[n] # <<>>
               /\ \A i \in Nat : HasResult(q[j].events, i) => HasResult(posted'[n], i)
    <3>1. /\ j = Len(q) /\ posted[n] # <<>>
          /\ \A i \in Nat : HasResult(q[j].events, i) => HasResult(posted[n], i)
      BY <2>3 DEF SenderOK
    <3>2. ~q[k].awaited
      BY <2>1, <3>1 DEF SenderOK
    <3> QED  BY <1>2, <2>1, <3>1, <3>2
  <2> QED  BY <2>1, <2>2, <2>3
<1>5. SenderOK(n)'
  BY <1>4 DEF SenderOK, EventOf
<1>6. ASSUME NEW j \in DOMAIN q, j # k
      PROVE  \E l \in DOMAIN hub'[n] : hub'[n][l] = q[j]
  <2>1. CASE j < k
    <3>1. j \in DOMAIN hub'[n] /\ hub'[n][j] = q[j]
      BY <1>2, <1>6, <2>1
    <3> QED  BY <3>1
  <2>2. CASE ~(j < k)
    <3>1. j - 1 \in DOMAIN hub'[n] /\ hub'[n][j - 1] = q[(j - 1) + 1] /\ (j - 1) + 1 = j
      BY <1>2, <1>6, <2>2
    <3> QED  BY <3>1
  <2> QED  BY <2>1, <2>2
<1> QED  BY <1>5, <1>6

\* The next event: but for the one that was dealt with, all is still reported.
LEMMA NextEventKeeps ==
    ASSUME AgentOK, NEW n \in Nodes, SenderOK(n), NEW k \in DOMAIN hub[n],
           NextEvent(n, k), up'[n] = up[n], poll'[n] = poll[n]
    PROVE  /\ SenderOK(n)'
           /\ \A i : Reported(n, i) =>
                 \/ Reported(n, i)'
                 \/ EventOf(n, k).type = "result" /\ EventOf(n, k).exec = i
<1> DEFINE h == hub[n][k]
           es == h.events
<1>1. /\ es \in Seq(Events) /\ es # <<>> /\ EventOf(n, k) = es[1]
      /\ h \in Handlers /\ hub[n] \in Seq(Handlers) /\ k \in 1..Len(hub[n])
  BY EventOK, HandlerOK
<1>2. DOMAIN es = 1..Len(es) /\ Len(es) \in Nat /\ Len(es) # 0
  BY <1>1, LenProperties, EmptySeq
<1>3. CASE Len(es) > 1
  <2> DEFINE g == [h EXCEPT !.events = Tail(es), !.seen = NoState]
  <2>1. posted' = posted /\ hub' = [hub EXCEPT ![n][k] = g]
    BY <1>3 DEF NextEvent
  <2>2. /\ DOMAIN hub'[n] = DOMAIN hub[n] /\ hub'[n][k] = g
        /\ \A j \in DOMAIN hub[n] : j # k => hub'[n][j] = hub[n][j]
    BY <2>1 DEF AgentOK
  <2>3. g.events = Tail(es) /\ g.awaited = h.awaited /\ g.seen = NoState
    BY <1>1 DEF Handlers
  <2> HIDE DEF g
  <2>4. Len(hub'[n]) = Len(hub[n])
    <3>1. hub'[n] \in Seq(Handlers)
      BY NextEventOK
    <3>2. DOMAIN hub'[n] = 1..Len(hub'[n]) /\ DOMAIN hub[n] = 1..Len(hub[n])
          /\ Len(hub'[n]) \in Nat /\ Len(hub[n]) \in Nat
      BY <1>1, <3>1, LenProperties
    <3>3. \A a, b \in Nat : 1..a = 1..b => ~(a < b)
      <4> SUFFICES ASSUME NEW a \in Nat, NEW b \in Nat, 1..a = 1..b, a < b
                   PROVE  FALSE
        OBVIOUS
      <4>1. b \in 1..b /\ b \notin 1..a
        OBVIOUS
      <4> QED  BY <4>1
    <3>4. ~(Len(hub'[n]) < Len(hub[n])) /\ ~(Len(hub[n]) < Len(hub'[n]))
      BY <2>2, <3>2, <3>3
    <3> QED  BY <3>2, <3>4
  <2>5. /\ Len(Tail(es)) = Len(es) - 1 /\ DOMAIN Tail(es) = 1..(Len(es) - 1)
        /\ \A l \in 1..(Len(es) - 1) : Tail(es)[l] = es[l + 1]
    <3>1. /\ Tail(es) \in Seq(Events) /\ Len(Tail(es)) = Len(es) - 1
          /\ \A l \in 1..Len(Tail(es)) : Tail(es)[l] = es[l + 1]
      BY <1>1, HeadTailProperties
    <3>2. DOMAIN Tail(es) = 1..Len(Tail(es))
      BY <3>1, LenProperties
    <3> QED  BY <3>1, <3>2
  <2>6. ASSUME NEW i, HasResult(Tail(es), i)
        PROVE  HasResult(es, i)
    <3>1. PICK l \in 1..(Len(es) - 1) : es[l + 1].type = "result" /\ es[l + 1].exec = i
      BY <2>5, <2>6 DEF HasResult
    <3>2. l + 1 \in DOMAIN es
      BY <1>2
    <3> QED  BY <3>1, <3>2 DEF HasResult
  <2>7. SenderOK(n)'
    BY <2>1, <2>2, <2>3, <2>4, <2>6 DEF SenderOK, EventOf
  <2>8. ASSUME NEW i, Reported(n, i),
               ~(EventOf(n, k).type = "result" /\ EventOf(n, k).exec = i)
        PROVE  Reported(n, i)'
    <3>1. PICK j \in DOMAIN hub[n] : hub[n][j].awaited /\ HasResult(hub[n][j].events, i)
      BY <2>8 DEF Reported
    <3>2. CASE j # k
      BY <2>2, <3>1, <3>2 DEF Reported
    <3>3. CASE j = k
      <4>1. PICK l \in DOMAIN es : es[l].type = "result" /\ es[l].exec = i
        BY <3>1, <3>3 DEF HasResult
      <4>2. l # 1
        BY <1>1, <2>8, <4>1
      <4>3. l - 1 \in 1..(Len(es) - 1) /\ (l - 1) + 1 = l
        BY <1>2, <4>1, <4>2
      <4>4. HasResult(Tail(es), i)
        BY <2>5, <4>1, <4>3 DEF HasResult
      <4> QED  BY <2>2, <2>3, <3>1, <3>3, <4>4 DEF Reported
    <3> QED  BY <3>2, <3>3
  <2> QED  BY <2>7, <2>8
<1>4. CASE ~(Len(es) > 1)
  <2>1. /\ hub' = [hub EXCEPT ![n] = RemoveAt(@, k)]
        /\ ~h.awaited => posted'[n] = posted[n]
    BY <1>4 DEF NextEvent
  <2>2. /\ SenderOK(n)'
        /\ \A j \in DOMAIN hub[n] : j # k =>
              \E l \in DOMAIN hub'[n] : hub'[n][l] = hub[n][j]
    BY <2>1, HandlerGone
  <2>3. ASSUME NEW i, Reported(n, i),
               ~(EventOf(n, k).type = "result" /\ EventOf(n, k).exec = i)
        PROVE  Reported(n, i)'
    <3>1. PICK j \in DOMAIN hub[n] : hub[n][j].awaited /\ HasResult(hub[n][j].events, i)
      BY <2>3 DEF Reported
    <3>2. j # k
      <4>1. SUFFICES ASSUME j = k PROVE FALSE
        OBVIOUS
      <4>2. PICK l \in DOMAIN es : es[l].type = "result" /\ es[l].exec = i
        BY <3>1, <4>1 DEF HasResult
      <4>3. l = 1
        BY <1>2, <1>4, <4>2
      <4> QED  BY <1>1, <2>3, <4>2, <4>3
    <3> QED  BY <2>2, <3>1, <3>2 DEF Reported
  <2> QED  BY <2>2, <2>3
<1> QED  BY <1>3, <1>4

-----------------------------------------------------------------------------
(* What each step of a node keeps in hand.                                    *)

Keeps(n) == SenderOK(n)' /\ \A i : InHand(n, i) => InHand(n, i)'

\* Polling: nothing is handled while the node asks.
LEMMA PollKeeps ==
    ASSUME AgentOK, NEW n \in Nodes, SenderOK(n),
           PollReply(n) \/ PollAgain(n) \/ PollLost(n) \/ Restarts(n)
    PROVE  Keeps(n)
<1>1. poll[n].at # "work" /\ poll[n].todo = <<>> /\ Sent(n) = {}
  <2>1. poll[n].at # "work"
    BY DEF SenderOK, PollReply, PollAgain, PollLost, Restarts
  <2> QED  BY <2>1, NothingWaits DEF SenderOK
<1>2. UNCHANGED <<procs, outbox, posted, hub>>
  BY DEF PollReply, PollAgain, PollLost, Restarts
<1>3. \A i : InHand(n, i) => InHand(n, i)'
  BY <1>1, <1>2 DEF InHand, Reported
<1>4. /\ poll'[n].at # "work" => poll'[n].todo = <<>>
      /\ ~up'[n] => poll'[n].at # "work"
  <2>1. CASE PollReply(n)
    <3>1. up[n] /\ UNCHANGED up
      BY <2>1 DEF PollReply
    <3>2. poll' = poll \/ \E ds : poll' = [poll EXCEPT ![n] = Handling(ds)]
      BY <2>1 DEF PollReply
    <3> QED  BY <1>1, <3>1, <3>2 DEF AgentOK, Handling
  <2>2. CASE PollAgain(n) \/ PollLost(n) \/ Restarts(n)
    BY <2>2 DEF AgentOK, PollAgain, PollLost, Restarts, Asking, NotPolling
  <2> QED  BY <2>1, <2>2
<1> QED  BY <1>2, <1>3, <1>4 DEF Keeps, SenderOK, EventOf

\* A dispatch is handed on to a thread, or its refusal to the sender.
LEMMA HandleKeeps ==
    ASSUME AgentOK, NEW n \in Nodes, SenderOK(n), HandleDispatch(n)
    PROVE  Keeps(n)
<1> DEFINE q == poll[n].todo
<1>1. q \in Seq(Dispatches) /\ q # <<>> /\ outbox[n] \in Seq(Events)
  BY DEF AgentOK, Polls, HandleDispatch
<1>2. /\ DOMAIN q = 1..Len(q) /\ Len(q) \in Nat /\ Len(q) # 0
      /\ Head(q) = q[1] /\ q[1] \in Dispatches
      /\ DOMAIN Tail(q) = 1..(Len(q) - 1)
      /\ \A i \in 1..(Len(q) - 1) : Tail(q)[i] = q[i + 1]
  <2>1. Len(q) \in Nat /\ Len(q) # 0 /\ DOMAIN q = 1..Len(q)
    BY <1>1, LenProperties, EmptySeq
  <2>2. /\ Tail(q) \in Seq(Dispatches) /\ Len(Tail(q)) = Len(q) - 1
        /\ \A i \in 1..Len(Tail(q)) : Tail(q)[i] = q[i + 1]
        /\ Head(q) = q[1]
    BY <1>1, HeadTailProperties
  <2>3. DOMAIN Tail(q) = 1..Len(Tail(q))
    BY <2>2, LenProperties
  <2>4. q[1] \in Dispatches
    BY <1>1, <2>1, ElementOfSeq
  <2> QED  BY <2>1, <2>2, <2>3, <2>4
<1>3. up[n] /\ UNCHANGED <<up, posted, hub>>
  BY DEF HandleDispatch, SenderOK
<1>4. \/ Len(q) > 1 /\ poll'[n].at = "work" /\ poll'[n].todo = Tail(q)
      \/ ~(Len(q) > 1) /\ poll'[n].at = "sent" /\ poll'[n].todo = <<>>
  BY DEF HandleDispatch, Handled, Handling, Asking, AgentOK
<1>5. SenderOK(n)'
  BY <1>3, <1>4 DEF SenderOK, EventOf
<1>6. \/ /\ Emit(n, Ack(q[1].exec))
         /\ \E p \in procs'[n] : p.exec = q[1].exec
         /\ procs[n] \subseteq procs'[n]
      \/ \E s \in {"failed", "refused"} :
            Emit(n, Result(q[1].exec, s)) /\ UNCHANGED procs
  <2> DEFINE d == Head(q)
             full == Cardinality(running[n]) >= MaxConcurrent
  <2>1. PICK out \in AdmitOutcomes :
           IF out = "accepted" /\ ~full
           THEN /\ Emit(n, Ack(d.exec))
                /\ running' = [running EXCEPT ![n] = @ \cup {d.exec}]
                /\ procs' = [procs EXCEPT ![n] = @ \cup
                     {[exec |-> d.exec, nonce |-> d.nonce, st |-> "start"]}]
           ELSE /\ Emit(n, Result(d.exec,
                     IF out = "failed" /\ ~full THEN "failed" ELSE "refused"))
                /\ UNCHANGED <<running, procs>>
    BY DEF HandleDispatch
  <2>2. CASE out = "accepted" /\ ~full
    <3>1. /\ Emit(n, Ack(d.exec))
          /\ procs'[n] = procs[n] \cup
                {[exec |-> d.exec, nonce |-> d.nonce, st |-> "start"]}
      BY <2>1, <2>2 DEF AgentOK
    <3> DEFINE p == [exec |-> d.exec, nonce |-> d.nonce, st |-> "start"]
    <3>2. p \in procs'[n] /\ p.exec = d.exec /\ procs[n] \subseteq procs'[n]
      BY <3>1
    <3>3. d = q[1]
      BY <1>2
    <3> HIDE DEF p, d, q
    <3> QED  BY <3>1, <3>2, <3>3
  <2>3. CASE ~(out = "accepted" /\ ~full)
    BY <1>2, <2>1, <2>3
  <2> QED  BY <2>2, <2>3
<1>7. PICK e \in Events : /\ outbox'[n] = Append(outbox[n], e)
                          /\ \/ \E p \in procs'[n] : p.exec = q[1].exec
                             \/ e.type = "result" /\ e.exec = q[1].exec
  <2>1. q[1].exec \in Nat
    BY <1>2 DEF Dispatches
  <2>2. Ack(q[1].exec) \in Events
    BY <2>1 DEF Ack, Events
  <2>3. \A s \in {"failed", "refused"} :
           /\ Result(q[1].exec, s) \in Events
           /\ Result(q[1].exec, s).type = "result"
           /\ Result(q[1].exec, s).exec = q[1].exec
    BY <2>1 DEF Result, Events, RESULT_STATES
  <2>4. \A e : Emit(n, e) => outbox'[n] = Append(outbox[n], e)
    BY DEF Emit, AgentOK
  <2> QED  BY <1>6, <2>2, <2>3, <2>4
<1>8. procs[n] \subseteq procs'[n]
  BY <1>6
<1>9. ASSUME NEW i, InHand(n, i)
      PROVE  InHand(n, i)'
  <2>1. HasResult(outbox[n], i) => HasResult(outbox'[n], i)
    BY <1>1, <1>7, ResultAppended
  <2>2. CASE i \in Sent(n)
    <3>1. PICK k \in 1..Len(q) : q[k].exec = i
      BY <1>2, <2>2 DEF Sent
    <3>2. CASE k = 1
      <4>1. e.type = "result" /\ e.exec = i => HasResult(outbox'[n], i)
        BY <1>1, <1>7, ResultAppended
      <4> QED  BY <1>7, <3>1, <3>2, <4>1 DEF InHand
    <3>3. CASE k # 1
      <4>1. Len(q) > 1 /\ k - 1 \in 1..(Len(q) - 1) /\ (k - 1) + 1 = k
        BY <1>2, <3>3
      <4>2. poll'[n].todo = Tail(q) /\ Tail(q)[k - 1] = q[k] /\ k - 1 \in DOMAIN Tail(q)
        BY <1>2, <1>4, <4>1
      <4>3. i \in Sent(n)'
        BY <3>1, <4>2 DEF Sent
      <4> QED  BY <4>3 DEF InHand
    <3> QED  BY <3>2, <3>3
  <2>3. Reported(n, i) => Reported(n, i)'
    BY <1>3 DEF Reported
  <2> QED  BY <1>8, <1>9, <2>1, <2>2, <2>3 DEF InHand
<1> QED  BY <1>5, <1>9 DEF Keeps

\* A thread goes on, or ends with a result.
LEMMA ThreadKeeps ==
    ASSUME AgentOK, NEW n \in Nodes, SenderOK(n), NEW p \in procs[n],
           NEW out \in ToolOutcomes \cup {NoState},
           \/ Spawn(n, p) \/ NotSpawned(n, p) \/ Output(n, p)
           \/ out \in ToolOutcomes /\ Exit(n, p, out)
    PROVE  Keeps(n)
<1>1. p \in Procs /\ outbox[n] \in Seq(Events) /\ p.exec \in Nat
  BY DEF AgentOK, Procs
<1>2. UNCHANGED <<up, poll, posted, hub>>
  BY DEF Spawn, NotSpawned, Output, Exit, Ends
<1>3. SenderOK(n)'
  BY <1>2 DEF SenderOK, EventOf
<1>4. \/ /\ outbox'[n] = outbox[n]
         /\ [p EXCEPT !.st = "run"] \in procs'[n]
         /\ procs[n] \ {p} \subseteq procs'[n]
      \/ /\ procs'[n] = procs[n]
         /\ outbox'[n] = Append(outbox[n], Chunk(p.exec))
      \/ \E s \in RESULT_STATES :
            /\ procs'[n] = procs[n] \ {p}
            /\ outbox'[n] = Append(outbox[n], Result(p.exec, s))
  <2>1. CASE Spawn(n, p)
    BY <2>1 DEF Spawn, AgentOK
  <2>2. CASE Output(n, p)
    BY <2>2 DEF Output, Emit, AgentOK
  <2>3. ASSUME NEW s \in RESULT_STATES, Ends(n, p, s)
        PROVE  /\ procs'[n] = procs[n] \ {p}
               /\ outbox'[n] = Append(outbox[n], Result(p.exec, s))
    BY <2>3 DEF Ends, Emit, AgentOK
  <2>4. "cancelled" \in RESULT_STATES /\ ToolOutcomes \subseteq RESULT_STATES
    BY AgentAssumption DEF RESULT_STATES
  <2>5. CASE NotSpawned(n, p)
    BY <2>3, <2>4, <2>5 DEF NotSpawned
  <2>6. CASE out \in ToolOutcomes /\ Exit(n, p, out)
    <3>1. \E s \in RESULT_STATES : Ends(n, p, s)
      BY <2>4, <2>6 DEF Exit
    <3> QED  BY <2>3, <3>1
  <2> QED  BY <2>1, <2>2, <2>5, <2>6
<1>5. /\ [p EXCEPT !.st = "run"].exec = p.exec
      /\ Chunk(p.exec) \in Events
      /\ \A s \in RESULT_STATES : /\ Result(p.exec, s) \in Events
                                  /\ Result(p.exec, s).type = "result"
                                  /\ Result(p.exec, s).exec = p.exec
  BY <1>1 DEF Procs, Chunk, Result, Events
<1>6. /\ \A i : HasResult(outbox[n], i) => HasResult(outbox'[n], i)
      /\ \A r \in procs[n] : \/ r \in procs'[n]
                             \/ r = p /\ [p EXCEPT !.st = "run"] \in procs'[n]
                             \/ r = p /\ HasResult(outbox'[n], p.exec)
  <2>1. CASE /\ outbox'[n] = outbox[n]
             /\ [p EXCEPT !.st = "run"] \in procs'[n]
             /\ procs[n] \ {p} \subseteq procs'[n]
    BY <2>1
  <2>2. CASE /\ procs'[n] = procs[n]
             /\ outbox'[n] = Append(outbox[n], Chunk(p.exec))
    BY <1>1, <1>5, <2>2, ResultAppended
  <2>3. ASSUME NEW s \in RESULT_STATES, procs'[n] = procs[n] \ {p},
               outbox'[n] = Append(outbox[n], Result(p.exec, s))
        PROVE  /\ \A i : HasResult(outbox[n], i) => HasResult(outbox'[n], i)
               /\ \A r \in procs[n] : r \in procs'[n] \/ r = p
               /\ HasResult(outbox'[n], p.exec)
    BY <1>1, <1>5, <2>3, ResultAppended
  <2> QED  BY <1>4, <2>1, <2>2, <2>3
<1>7. ASSUME NEW i, InHand(n, i)
      PROVE  InHand(n, i)'
  <2>1. HasResult(outbox[n], i) => HasResult(outbox'[n], i)
    BY <1>1, <1>6
  <2>2. ASSUME NEW r \in procs[n], r.exec = i
        PROVE  (\E s \in procs'[n] : s.exec = i) \/ HasResult(outbox'[n], i)
    BY <1>5, <1>6, <2>2
  <2>3. /\ i \in Sent(n) => i \in Sent(n)'
        /\ Reported(n, i) => Reported(n, i)'
    BY <1>2 DEF Sent, Reported
  <2> QED  BY <1>7, <2>1, <2>2, <2>3 DEF InHand
<1> QED  BY <1>3, <1>7 DEF Keeps

\* What is posted is in the new handler of the hub, which the sender waits for.
LEMMA FlushKeeps ==
    ASSUME AgentOK, NEW n \in Nodes, SenderOK(n), Flush(n)
    PROVE  Keeps(n)
<1> DEFINE q == hub[n]
           h == [events |-> outbox[n], seen |-> NoState, awaited |-> TRUE]
<1>1. q \in Seq(Handlers) /\ outbox[n] \in Seq(Events) /\ outbox[n] # <<>>
  BY DEF AgentOK, Flush
<1>2. h \in Handlers
  BY <1>1 DEF Handlers
<1>3. /\ hub'[n] = Append(q, h) /\ posted'[n] = outbox[n]
      /\ UNCHANGED <<up, poll, procs>>
  BY DEF AgentOK, Flush
<1>4. h.events = outbox[n] /\ h.awaited /\ h.seen = NoState
  OBVIOUS
<1> HIDE DEF h
<1>5. /\ Len(q) \in Nat /\ DOMAIN q = 1..Len(q)
      /\ Len(hub'[n]) = Len(q) + 1 /\ DOMAIN hub'[n] = 1..(Len(q) + 1)
      /\ \A k \in 1..Len(q) : hub'[n][k] = q[k]
      /\ hub'[n][Len(q) + 1] = h
  <2>1. /\ Append(q, h) \in Seq(Handlers) /\ Len(Append(q, h)) = Len(q) + 1
        /\ \A k \in 1..Len(q) : Append(q, h)[k] = q[k]
        /\ Append(q, h)[Len(q) + 1] = h
    BY <1>1, <1>2, AppendProperties
  <2>2. Len(q) \in Nat /\ DOMAIN q = 1..Len(q) /\ DOMAIN Append(q, h) = 1..(Len(q) + 1)
    BY <1>1, <2>1, LenProperties
  <2> QED  BY <1>3, <2>1, <2>2
<1>6. posted[n] = <<>> /\ \A k \in DOMAIN q : ~q[k].awaited
  BY DEF Flush, SenderOK
<1>7. ASSUME NEW k \in DOMAIN hub'[n]
      PROVE  /\ hub'[n][k].awaited =>
                   /\ k = Len(hub'[n]) /\ posted'[n] # <<>>
                   /\ \A i \in Nat : HasResult(hub'[n][k].events, i)
                                        => HasResult(posted'[n], i)
             /\ hub'[n][k].seen # NoState =>
                   Matters(Head(hub'[n][k].events), hub'[n][k].seen)
  <2>1. CASE k \in 1..Len(q)
    BY <1>5, <1>6, <2>1 DEF SenderOK, EventOf
  <2>2. CASE k \notin 1..Len(q)
    <3>1. k = Len(q) + 1
      BY <1>5, <2>2
    <3> QED  BY <1>1, <1>3, <1>4, <1>5, <3>1
  <2> QED  BY <2>1, <2>2
<1>8. SenderOK(n)'
  BY <1>3, <1>7 DEF SenderOK, EventOf
<1>9. ASSUME NEW i, InHand(n, i)
      PROVE  InHand(n, i)'
  <2>1. Len(q) + 1 \in DOMAIN hub'[n]
    BY <1>5
  <2>2. HasResult(outbox[n], i) => Reported(n, i)'
    BY <1>4, <1>5, <2>1 DEF Reported
  <2>3. ~Reported(n, i)
    BY <1>6 DEF Reported
  <2> QED  BY <1>3, <1>9, <2>2, <2>3 DEF InHand, Sent
<1> QED  BY <1>8, <1>9 DEF Keeps

\* The sender gives up: all but the chunks is to be posted again.
LEMMA GiveUpKeeps ==
    ASSUME AgentOK, NEW n \in Nodes, SenderOK(n), GiveUp(n)
    PROVE  SenderOK(n)' /\ \A i \in Nat : InHand(n, i) => InHand(n, i)'
<1> DEFINE q == hub[n]
<1>1. Again(n) /\ UNCHANGED <<up, poll, procs>> /\ posted'[n] = <<>>
  BY DEF AgentOK, GiveUp, Again
<1>2. q \in Seq(Handlers) /\ Len(q) \in Nat /\ DOMAIN q = 1..Len(q)
  BY LenProperties DEF AgentOK
<1>3. ASSUME NEW i \in Nat, InHand(n, i)
      PROVE  InHand(n, i)'
  <2>1. Reported(n, i) => HasResult(posted[n], i)
    BY DEF Reported, SenderOK
  <2>2. HasResult(outbox[n], i) \/ Reported(n, i) => HasResult(outbox'[n], i)
    BY <1>1, <2>1, AgainKeeps
  <2> QED  BY <1>1, <1>3, <2>2 DEF InHand, Sent
<1>4. \A k \in DOMAIN hub'[n] :
         /\ k \in DOMAIN q /\ ~hub'[n][k].awaited
         /\ hub'[n][k].events = q[k].events /\ hub'[n][k].seen = q[k].seen
  <2>1. CASE hub' = [hub EXCEPT ![n] = Unawaited(n)]
    <3>1. hub'[n] = [k \in DOMAIN q |-> [q[k] EXCEPT !.awaited = FALSE]]
      BY <2>1 DEF AgentOK, Unawaited
    <3>2. \A k \in DOMAIN q : q[k] \in Handlers
      BY <1>2, ElementOfSeq
    <3> QED  BY <3>1, <3>2 DEF Handlers
  <2>2. CASE hub' = [hub EXCEPT ![n] = Front(hub[n])]
    <3>1. hub'[n] = SubSeq(q, 1, Len(q) - 1)
      BY <2>2 DEF AgentOK, Front
    <3>2. /\ 1 \in Int /\ Len(q) - 1 \in Int
          /\ \A i \in 1..(Len(q) - 1) : q[i] \in Handlers
      BY <1>2, ElementOfSeq
    <3> DEFINE u == SubSeq(q, 1, Len(q) - 1)
    <3>3. /\ u \in Seq(Handlers)
          /\ Len(u) = IF 1 <= Len(q) - 1 THEN Len(q) - 1 - 1 + 1 ELSE 0
          /\ \A i \in 1..Len(q) - 1 - 1 + 1 : u[i] = q[1 + i - 1]
      BY <3>2, SubSeqProperties
    <3>4. DOMAIN u = 1..Len(u) /\ Len(u) \in Nat
      BY <3>3, LenProperties
    <3> HIDE DEF u
    <3>5. ASSUME NEW k \in DOMAIN u
          PROVE  k \in DOMAIN q /\ k # Len(q) /\ u[k] = q[k]
      <4>1. k \in 1..Len(q) - 1 - 1 + 1 /\ 1 + k - 1 = k /\ k \in 1..Len(q) /\ k # Len(q)
        BY <1>2, <3>3, <3>4
      <4> QED  BY <1>2, <3>3, <4>1
    <3>6. \A k \in DOMAIN q : k # Len(q) => ~q[k].awaited
      BY DEF SenderOK
    <3> QED  BY <3>1, <3>5, <3>6 DEF u
  <2> QED  BY <2>1, <2>2 DEF GiveUp
<1>5. SenderOK(n)'
  BY <1>1, <1>4 DEF SenderOK, EventOf
<1> QED  BY <1>3, <1>5

\* The hub drops no result of an execution in flight, and takes one only by
\* ending the execution; what it cannot take, the sender posts again.
LEMMA HubKeeps ==
    ASSUME MasterOK, AgentOK, NEW n \in Nodes, SenderOK(n), Hub(n)
    PROVE  /\ SenderOK(n)'
           /\ \A i \in DOMAIN execs[n] :
                 /\ InHand(n, i)
                 /\ execs[n][i].state \in EXEC_IN_FLIGHT
                 /\ execs'[n][i].state \in EXEC_IN_FLIGHT
                 => InHand(n, i)'
<1>1. PICK k \in DOMAIN hub[n] :
         HubDrop(n, k) \/ HubNote(n, k) \/ HubResult(n, k) \/ HubRaise(n, k)
  BY DEF Hub
<1> DEFINE e == EventOf(n, k)
<1>2. e \in Events /\ execs \in [Nodes -> Seq(Execution)]
  BY EventOK DEF MasterOK, ExecsOK
<1>3. CASE HubRaise(n, k)
  <2>1. /\ hub' = [hub EXCEPT ![n] = RemoveAt(@, k)]
        /\ UNCHANGED <<up, poll, procs>>
        /\ IF hub[n][k].awaited THEN Again(n) ELSE UNCHANGED <<posted, outbox>>
    BY <1>3 DEF HubRaise
  <2>2. /\ SenderOK(n)'
        /\ \A j \in DOMAIN hub[n] : j # k =>
              \E l \in DOMAIN hub'[n] : hub'[n][l] = hub[n][j]
    BY <2>1, HandlerGone
  <2>3. ASSUME NEW i \in Nat, InHand(n, i)
        PROVE  InHand(n, i)'
    <3>1. HasResult(outbox[n], i) => HasResult(outbox'[n], i)
      BY <2>1, AgainKeeps
    <3>2. ASSUME Reported(n, i)
          PROVE  Reported(n, i)' \/ HasResult(outbox'[n], i)
      <4>1. PICK j \in DOMAIN hub[n] : hub[n][j].awaited /\ HasResult(hub[n][j].events, i)
        BY <3>2 DEF Reported
      <4>2. CASE j # k
        BY <2>2, <4>1, <4>2 DEF Reported
      <4>3. CASE j = k
        <5>1. HasResult(posted[n], i) /\ Again(n)
          BY <2>1, <4>1, <4>3 DEF SenderOK
        <5> QED  BY <5>1, AgainKeeps
      <4> QED  BY <4>2, <4>3
    <3> QED  BY <2>1, <2>3, <3>1, <3>2 DEF InHand, Sent
  <2>4. DOMAIN execs[n] \subseteq Nat
    BY <1>2, Entries
  <2> QED  BY <2>2, <2>3, <2>4
<1>4. CASE HubDrop(n, k) \/ HubNote(n, k) \/ HubResult(n, k)
  <2>1. NextEvent(n, k) /\ UNCHANGED <<up, poll, procs, outbox>>
    BY <1>4 DEF HubDrop, HubNote, HubResult
  <2>2. /\ SenderOK(n)'
        /\ \A i : Reported(n, i) => Reported(n, i)' \/ (e.type = "result" /\ e.exec = i)
    BY <2>1, NextEventKeeps
  <2>3. ASSUME NEW i \in DOMAIN execs[n], e.type = "result", e.exec = i,
               execs[n][i].state \in EXEC_IN_FLIGHT
        PROVE  execs'[n][i].state \notin EXEC_IN_FLIGHT
    <3>1. StateOf(n, k) \in EXEC_IN_FLIGHT
      BY <2>3 DEF StateOf
    <3>2. Matters(e, Seen(n, k))
      <4>1. hub[n][k].seen # NoState => Matters(e, hub[n][k].seen)
        BY DEF SenderOK
      <4> QED  BY <2>3, <3>1, <4>1 DEF Seen, Matters
    <3>3. ~HubDrop(n, k) /\ ~HubNote(n, k)
      BY <2>3, <3>2 DEF HubDrop, HubNote, Taken
    <3>4. execs' = Moved(n, i, e.state)
      BY <1>4, <2>3, <3>1, <3>3 DEF HubResult, EXEC_TERMINAL, EXEC_LIVE, EXEC_IN_FLIGHT
    <3>5. execs'[n][i].state = e.state
      <4>1. execs[n][i] \in Execution
        BY <1>2, Entries
      <4> QED  BY <1>2, <3>4, <4>1 DEF Moved, Execution
    <3> QED  BY <1>2, <3>5 DEF Events, RESULT_STATES, NoState, EXEC_IN_FLIGHT
  <2> QED  BY <2>1, <2>2, <2>3 DEF InHand, Sent
<1> QED  BY <1>1, <1>3, <1>4

LEMMA ReadKeeps ==
    ASSUME AgentOK, NEW n \in Nodes, SenderOK(n), Overlap(n)
    PROVE  Keeps(n)
<1>1. PICK k \in DOMAIN hub[n] : HubRead(n, k)
  BY DEF Overlap
<1>2. hub[n][k] \in Handlers /\ hub[n] \in Seq(Handlers) /\ k \in 1..Len(hub[n])
  BY HandlerOK
<1>3. /\ UNCHANGED <<up, poll, procs, outbox, posted>>
      /\ hub'[n] = [hub[n] EXCEPT ![k].seen = StateOf(n, k)]
      /\ Matters(EventOf(n, k), StateOf(n, k))
  BY <1>1 DEF AgentOK, HubRead, Taken, Seen
<1>4. /\ DOMAIN hub'[n] = DOMAIN hub[n]
      /\ \A j \in DOMAIN hub[n] : /\ hub'[n][j].events = hub[n][j].events
                                  /\ hub'[n][j].awaited = hub[n][j].awaited
                                  /\ j # k => hub'[n][j].seen = hub[n][j].seen
      /\ hub'[n][k].seen = StateOf(n, k)
  BY <1>2, <1>3 DEF Handlers
<1>5. Len(hub'[n]) = Len(hub[n])
  BY <1>2, <1>3
<1>6. SenderOK(n)'
  BY <1>3, <1>4, <1>5 DEF SenderOK, EventOf
<1>7. \A i : InHand(n, i) => InHand(n, i)'
  BY <1>3, <1>4 DEF InHand, Sent, Reported
<1> QED  BY <1>6, <1>7 DEF Keeps

LEMMA DiesSender ==
    ASSUME AgentOK, NEW n \in Nodes, SenderOK(n), Dies(n)
    PROVE  SenderOK(n)'
<1>1. /\ poll'[n].at # "work" => poll'[n].todo = <<>>
      /\ poll'[n].at # "work"
  BY DEF AgentOK, SenderOK, Dies, NotPolling
<1>2. hub'[n] = [k \in DOMAIN hub[n] |-> [hub[n][k] EXCEPT !.awaited = FALSE]]
  BY DEF AgentOK, Dies, Unawaited
<1>3. \A k \in DOMAIN hub[n] : hub[n][k] \in Handlers
  BY HandlerOK
<1>4. \A k \in DOMAIN hub'[n] :
         /\ k \in DOMAIN hub[n] /\ ~hub'[n][k].awaited
         /\ hub'[n][k].events = hub[n][k].events /\ hub'[n][k].seen = hub[n][k].seen
  BY <1>2, <1>3 DEF Handlers
<1> QED  BY <1>1, <1>4 DEF SenderOK, EventOf

\* A step of any kind: of the node itself, of another one, or of the master.
LEMMA StepKeeps ==
    ASSUME MasterOK, AgentOK, NEW n \in Nodes, SenderOK(n), [Next]_vars
    PROVE  /\ SenderOK(n)'
           /\ \A i \in DOMAIN execs[n] :
                 /\ InHand(n, i) /\ ~(up[n] /\ ~up'[n])
                 /\ execs[n][i].state \in EXEC_IN_FLIGHT
                 /\ execs'[n][i].state \in EXEC_IN_FLIGHT
                 => InHand(n, i)'
<1>1. CASE SameAgent(n)
  BY <1>1, SameSender, SameInHand
<1>2. CASE Keeps(n)
  BY <1>2 DEF Keeps
<1>3. CASE UNCHANGED vars \/ Service \/ Command \/ KillSwitch
           \/ \E a \in Actors : Carried(a)
  BY <1>1, <1>3 DEF SameAgent, vars, fleetVars, Service, Command, KillSwitch,
     Carried, agentVars, nodeVars
<1>4. CASE \E m \in Nodes : m # n /\ NodeStep(m)
  BY <1>1, <1>4, OthersSame
<1>5. CASE Work(n) \/ Tool(n) \/ Chatter(n)
  <2>1. CASE PollReply(n) \/ PollAgain(n)
    BY <1>2, <2>1, PollKeeps
  <2>2. CASE HandleDispatch(n)
    BY <1>2, <2>2, HandleKeeps
  <2>3. CASE Flush(n)
    BY <1>2, <2>3, FlushKeeps
  <2>4. ASSUME NEW p \in procs[n], NEW out \in ToolOutcomes \cup {NoState},
               \/ Spawn(n, p) \/ NotSpawned(n, p) \/ Output(n, p)
               \/ out \in ToolOutcomes /\ Exit(n, p, out)
        PROVE  Keeps(n)
    BY <2>4, ThreadKeeps
  <2>5. Work(n) => \/ PollReply(n) \/ PollAgain(n) \/ HandleDispatch(n) \/ Flush(n)
                   \/ \E p \in procs[n] : Spawn(n, p) \/ NotSpawned(n, p)
    BY DEF Work
  <2> QED  BY <1>2, <1>5, <2>1, <2>2, <2>3, <2>4, <2>5 DEF Tool, Chatter
<1>6. CASE Hub(n)
  BY <1>6, HubKeeps
<1>7. CASE Overlap(n)
  BY <1>2, <1>7, ReadKeeps
<1>8. CASE Lost(n)
  <2>1. DOMAIN execs[n] \subseteq Nat
    BY Entries DEF MasterOK, ExecsOK
  <2> QED  BY <1>2, <1>8, <2>1, PollKeeps, GiveUpKeeps DEF Lost
<1>9. CASE Crash(n)
  <2>1. up[n] /\ ~up'[n]
    BY <1>9 DEF AgentOK, Crash, Dies
  <2> QED  BY <1>9, <2>1, DiesSender DEF Crash
<1>10. CASE Restart(n)
  BY <1>2, <1>10, PollKeeps DEF Restart
<1>11. CASE TimeOut(n) \/ Silence(n)
  BY <1>1, <1>11 DEF SameAgent, TimeOut, Silence, agentVars, nodeVars
<1> QED  BY <1>3, <1>4, <1>5, <1>6, <1>7, <1>8, <1>9, <1>10, <1>11
         DEF Next, NodeStep

LEMMA AccountStep ==
    ASSUME MasterOK, AgentOK, HistoryOK, AccountOK, [Next]_vars
    PROVE  AccountOK'
<1> SUFFICES ASSUME NEW n \in Nodes
             PROVE  /\ SenderOK(n)'
                    /\ \A i \in DOMAIN execs'[n] :
                          execs'[n][i].state \in EXEC_IN_FLIGHT =>
                             i \in forsaken'[n] \/ InHand(n, i)'
  BY DEF AccountOK
<1>1. SenderOK(n)
  BY DEF AccountOK
<1>2. SenderOK(n)'
  BY <1>1, StepKeeps
<1>3. ASSUME NEW i \in DOMAIN execs'[n], execs'[n][i].state \in EXEC_IN_FLIGHT
      PROVE  i \in forsaken'[n] \/ InHand(n, i)'
  <2>1. CASE UNCHANGED vars
    <3>1. i \in DOMAIN execs[n] /\ execs[n][i].state \in EXEC_IN_FLIGHT
      BY <1>3, <2>1 DEF vars, fleetVars, masterVars
    <3>2. CASE InHand(n, i)
      <4>1. SameAgent(n)
        BY <2>1 DEF SameAgent, vars, fleetVars, agentVars, nodeVars
      <4> QED  BY <3>2, <4>1, SameInHand
    <3>3. CASE i \in forsaken[n]
      BY <2>1, <3>3 DEF vars, historyVars
    <3> QED  BY <3>1, <3>2, <3>3 DEF AccountOK
  <2>2. CASE HistoryNext
    <3>1. forsaken'[n] = forsaken[n] \cup NowForsaken(n)
      BY <2>2 DEF HistoryNext
    <3>2. CASE i \in NowForsaken(n)
      BY <3>1, <3>2
    <3>3. CASE i \notin NowForsaken(n)
      <4>1. /\ ~(up[n] /\ ~up'[n])
            /\ \/ i \in DOMAIN execs[n] /\ execs[n][i].state \in EXEC_IN_FLIGHT
               \/ i \in Sent(n)'
        BY <1>3, <3>3 DEF NowForsaken
      <4>2. CASE i \in Sent(n)'
        BY <4>2 DEF InHand
      <4>3. CASE i \in DOMAIN execs[n] /\ execs[n][i].state \in EXEC_IN_FLIGHT
        <5>1. i \in forsaken[n] \/ InHand(n, i)
          BY <4>3 DEF AccountOK
        <5>2. InHand(n, i) => InHand(n, i)'
          BY <1>1, <1>3, <4>1, <4>3, StepKeeps
        <5> QED  BY <3>1, <5>1, <5>2
      <4> QED  BY <4>1, <4>2, <4>3
    <3> QED  BY <3>2, <3>3
  <2> QED  BY <2>1, <2>2 DEF Next
<1> QED  BY <1>2, <1>3

LEMMA AccountInit ==
    ASSUME Init
    PROVE  AccountOK
BY NothingWaits, EmptySeq DEF Init, MasterInit, AgentInit, AccountOK, SenderOK, Asking

\* The agent's outbox and sender, events() and the polls: an execution in
\* flight is being handled or its result is on its way, unless its dispatch was
\* lost, its agent died or a stale write revived it.
THEOREM NothingForgotten == Spec => []Accounted
<1>1. Init => AccountOK
  BY AccountInit
<1>2. FleetOK /\ AccountOK /\ [Next]_vars => AccountOK'
  BY AccountStep DEF FleetOK
<1>3. FleetOK /\ AccountOK => Accounted
  <2> SUFFICES ASSUME FleetOK, AccountOK, NEW n \in Nodes, NEW i \in DOMAIN execs[n],
                      InHand(n, i)
               PROVE  UnderWay(n, i)
    BY DEF AccountOK, Accounted
  <2>1. Reported(n, i) => \E k \in DOMAIN hub[n] : HasResult(hub[n][k].events, i)
    BY DEF Reported
  <2> QED  BY <2>1 DEF InHand, UnderWay
<1> QED  BY <1>1, <1>2, <1>3, FleetInvariant, PTL DEF Spec

-----------------------------------------------------------------------------
(* ParallelCapped.  A tick counts the live rows before it starts anybody; a   *)
(* row that has ended comes back to life only by a stale write of the hub,    *)
(* which the theorem leaves out.                                              *)

NoOverlap == \A n \in Nodes : ~Overlap(n)

CapOK ==
    /\ run.batch \in DOMAIN Batches
    /\ NoneSeen
    /\ retried = {} => /\ IsFiniteSet(Working(execs))
                       /\ Cardinality(Working(execs)) <= MaxParallel

LEMMA NoneSeenStep ==
    ASSUME AgentOK, NoneSeen, [Next]_vars, [NoOverlap]_vars
    PROVE  NoneSeen'
<1> SUFFICES ASSUME NEW n \in Nodes
             PROVE  \A k \in DOMAIN hub'[n] : hub'[n][k].seen = NoState
  BY DEF NoneSeen
<1> DEFINE q == hub[n]
<1>1. /\ q \in Seq(Handlers) /\ DOMAIN q = 1..Len(q) /\ Len(q) \in Nat
      /\ \A k \in DOMAIN q : q[k] \in Handlers /\ q[k].seen = NoState
  BY LenProperties, ElementOfSeq DEF AgentOK, NoneSeen
<1>2. CASE hub'[n] = q
  BY <1>1, <1>2
<1>3. ASSUME NEW k \in DOMAIN q, hub'[n] = RemoveAt(q, k)
      PROVE  \A j \in DOMAIN hub'[n] : hub'[n][j].seen = NoState
  <2> SUFFICES ASSUME NEW j \in DOMAIN hub'[n]
               PROVE  hub'[n][j].seen = NoState
    OBVIOUS
  <2>1. /\ j \in 1..(Len(q) - 1) /\ hub'[n][j] = IF j < k THEN q[j] ELSE q[j + 1]
    BY <1>1, <1>3, RemoveAtPlaces
  <2>2. j \in DOMAIN q /\ j + 1 \in DOMAIN q
    BY <1>1, <2>1
  <2> QED  BY <1>1, <2>1, <2>2
<1>4. CASE UNCHANGED hub
  BY <1>2, <1>4
<1>5. CASE Flush(n)
  <2> DEFINE h == [events |-> outbox[n], seen |-> NoState, awaited |-> TRUE]
  <2>1. h \in Handlers /\ h.seen = NoState /\ hub'[n] = Append(q, h)
    BY <1>5 DEF AgentOK, Flush, Handlers
  <2> HIDE DEF h
  <2>2. /\ Append(q, h) \in Seq(Handlers) /\ Len(Append(q, h)) = Len(q) + 1
        /\ \A k \in 1..Len(q) : Append(q, h)[k] = q[k]
        /\ Append(q, h)[Len(q) + 1] = h
    BY <1>1, <2>1, AppendProperties
  <2>3. DOMAIN Append(q, h) = 1..(Len(q) + 1)
    BY <2>2, LenProperties
  <2>4. \A k \in 1..(Len(q) + 1) : k \in 1..Len(q) \/ k = Len(q) + 1
    BY <1>1
  <2> QED  BY <1>1, <2>1, <2>2, <2>3, <2>4
<1>6. CASE hub' = [hub EXCEPT ![n] = Unawaited(n)]
  <2>1. hub'[n] = [k \in DOMAIN q |-> [q[k] EXCEPT !.awaited = FALSE]]
    BY <1>6 DEF AgentOK, Unawaited
  <2> QED  BY <1>1, <2>1 DEF Handlers
<1>7. CASE hub' = [hub EXCEPT ![n] = Front(hub[n])]
  <2>1. hub'[n] = SubSeq(q, 1, Len(q) - 1)
    BY <1>7 DEF AgentOK, Front
  <2>2. /\ 1 \in Int /\ Len(q) - 1 \in Int
        /\ \A i \in 1..(Len(q) - 1) : q[i] \in Handlers
    BY <1>1
  <2> DEFINE u == SubSeq(q, 1, Len(q) - 1)
  <2>3. /\ u \in Seq(Handlers)
        /\ Len(u) = IF 1 <= Len(q) - 1 THEN Len(q) - 1 - 1 + 1 ELSE 0
        /\ \A i \in 1..Len(q) - 1 - 1 + 1 : u[i] = q[1 + i - 1]
    BY <2>2, SubSeqProperties
  <2>4. DOMAIN u = 1..Len(u) /\ Len(u) \in Nat
    BY <2>3, LenProperties
  <2> HIDE DEF u
  <2>5. ASSUME NEW k \in DOMAIN u
        PROVE  k \in DOMAIN q /\ u[k] = q[k]
    <3>1. k \in 1..Len(q) - 1 - 1 + 1 /\ 1 + k - 1 = k /\ k \in 1..Len(q)
      BY <1>1, <2>3, <2>4
    <3> QED  BY <1>1, <2>3, <3>1
  <2> QED  BY <1>1, <2>1, <2>5 DEF u
<1>8. ASSUME NEW k \in DOMAIN q, NextEvent(n, k)
      PROVE  \A j \in DOMAIN hub'[n] : hub'[n][j].seen = NoState
  <2>1. CASE Len(hub[n][k].events) > 1
    <3> DEFINE g == [q[k] EXCEPT !.events = Tail(q[k].events), !.seen = NoState]
    <3>1. hub' = [hub EXCEPT ![n][k] = g]
      BY <1>8, <2>1 DEF NextEvent
    <3>2. g.seen = NoState
      BY <1>1 DEF Handlers
    <3> HIDE DEF g
    <3>3. hub'[n] = [q EXCEPT ![k] = g]
      BY <3>1 DEF AgentOK
    <3> QED  BY <1>1, <3>2, <3>3
  <2>2. CASE ~(Len(hub[n][k].events) > 1)
    <3>1. hub'[n] = RemoveAt(q, k)
      BY <1>8, <2>2 DEF NextEvent, AgentOK
    <3> QED  BY <1>3, <3>1
  <2> QED  BY <2>1, <2>2
<1>9. CASE Hub(n)
  <2>1. PICK k \in DOMAIN hub[n] :
           HubDrop(n, k) \/ HubNote(n, k) \/ HubResult(n, k) \/ HubRaise(n, k)
    BY <1>9 DEF Hub
  <2>2. CASE HubRaise(n, k)
    <3>1. hub'[n] = RemoveAt(q, k)
      BY <2>2 DEF HubRaise, AgentOK
    <3> QED  BY <1>3, <3>1
  <2>3. CASE HubDrop(n, k) \/ HubNote(n, k) \/ HubResult(n, k)
    <3>1. NextEvent(n, k)
      BY <2>3 DEF HubDrop, HubNote, HubResult
    <3> QED  BY <1>8, <3>1
  <2> QED  BY <2>1, <2>2, <2>3
<1>10. CASE UNCHANGED vars \/ Service \/ Command \/ KillSwitch
            \/ \E a \in Actors : Carried(a)
  BY <1>4, <1>10 DEF vars, fleetVars, Service, Command, KillSwitch, Carried, agentVars
<1>11. CASE \E m \in Nodes : m # n /\ NodeStep(m)
  BY <1>2, <1>11, OthersSame DEF SameAgent
<1>12. CASE Work(n) /\ ~Flush(n)
  BY <1>4, <1>12 DEF Work, PollReply, PollAgain, HandleDispatch, Spawn, NotSpawned, Ends
<1>13. CASE Tool(n) \/ Chatter(n) \/ Restart(n) \/ PollLost(n)
  BY <1>4, <1>13 DEF Tool, Exit, Ends, Chatter, Output, Restart, Restarts, PollLost
<1>14. CASE TimeOut(n) \/ Silence(n)
  BY <1>4, <1>14 DEF TimeOut, Silence, agentVars
<1>15. CASE GiveUp(n) \/ Crash(n)
  BY <1>6, <1>7, <1>14, <1>15 DEF GiveUp, Crash, Dies
<1>16. CASE NodeStep(n) /\ ~Overlap(n)
  BY <1>5, <1>9, <1>12, <1>13, <1>14, <1>15, <1>16 DEF NodeStep, Lost
<1>17. CASE UNCHANGED vars
  BY <1>10, <1>17
<1>18. CASE Next /\ NoOverlap
  <2>1. ~Overlap(n)
    BY <1>18 DEF NoOverlap
  <2>2. ASSUME NEW m \in Nodes, NodeStep(m)
        PROVE  \A k \in DOMAIN hub'[n] : hub'[n][k].seen = NoState
    BY <1>11, <1>16, <2>1, <2>2
  <2>3. \/ Service \/ Command \/ KillSwitch \/ \E a \in Actors : Carried(a)
        \/ \E m \in Nodes : NodeStep(m)
    BY <1>18 DEF Next, NodeStep
  <2> QED  BY <1>10, <2>2, <2>3
<1> QED  BY <1>17, <1>18

\* What happens at a node leaves the run alone and adds no row.
LEMMA NodeAdds ==
    ASSUME MasterOK, AgentOK, NEW m \in Nodes, NodeStep(m)
    PROVE  /\ run' = run
           /\ \A n \in Nodes : DOMAIN execs'[n] = DOMAIN execs[n]
<1>1. CASE UNCHANGED execs /\ run' = run
  BY <1>1
<1>2. CASE PollReply(m) \/ PollLost(m)
  <2>1. PICK out \in [Claims(m, poll[m].running) -> DispatchOutcomes] : Claim(m, out)
    BY <1>2 DEF PollReply, PollLost
  <2> QED  BY <2>1, ClaimAdds DEF Claim
<1>3. CASE Hub(m)
  <2>1. PICK k \in DOMAIN hub[m] :
           HubDrop(m, k) \/ HubNote(m, k) \/ HubResult(m, k) \/ HubRaise(m, k)
    BY <1>3 DEF Hub
  <2>2. \A i, s : execs' = Moved(m, i, s) =>
           \A n \in Nodes : DOMAIN execs'[n] = DOMAIN execs[n]
    BY DEF Moved, MasterOK, MasterTypeOK
  <2>3. /\ run' = run
        /\ UNCHANGED execs \/ \E i, s : execs' = Moved(m, i, s)
    BY <2>1 DEF HubDrop, HubNote, HubResult, HubRaise, masterVars
  <2> QED  BY <2>2, <2>3
<1>4. CASE \/ (Work(m) /\ ~PollReply(m)) \/ Tool(m) \/ TimeOut(m)
           \/ GiveUp(m) \/ Chatter(m) \/ Overlap(m)
           \/ Crash(m) \/ Restart(m) \/ Silence(m)
  <2>1. UNCHANGED execs /\ run' = run
    BY <1>4 DEF Work, PollAgain, HandleDispatch, Spawn, NotSpawned, Flush, Tool,
       Exit, Ends, TimeOut, Elapse, GiveUp, Chatter, Output, Overlap, HubRead,
       Crash, Dies, Restart, Restarts, Silence, GoesOffline, masterVars
  <2> QED  BY <1>1, <2>1
<1> QED  BY <1>2, <1>3, <1>4 DEF NodeStep, Lost

LEMMA RetriedGrows ==
    ASSUME [Next]_vars
    PROVE  retried \subseteq retried'
<1>1. CASE UNCHANGED vars
  BY <1>1 DEF vars, historyVars
<1>2. CASE HistoryNext
  BY <1>2 DEF HistoryNext
<1> QED  BY <1>1, <1>2 DEF Next

\* Who works after a step: who did before, whom the tick found a slot for, or
\* whom an operator retried.
LEMMA WorkingStep ==
    ASSUME MasterOK, AgentOK, run.batch \in DOMAIN Batches, NoneSeen, [Next]_vars
    PROVE  /\ run'.batch \in DOMAIN Batches
           /\ \/ Working(execs') \subseteq Working(execs)
              \/ /\ IsFiniteSet(Working(execs'))
                 /\ Cardinality(Working(execs')) <= MaxParallel
              \/ retried' # {}
<1>1. AllGoOn(execs, execs')
  BY RowsStep
<1>2. (\A n \in Nodes : NoNewWork(execs[n], execs'[n])) =>
         Working(execs') \subseteq Working(execs)
  BY <1>1, WorkingShrinks
<1>3. CASE Tick
  <2>1. run'.batch \in DOMAIN Batches /\ TheRun.batch \in DOMAIN Batches
    BY <1>3, BatchKept
  <2>2. CASE TickQueue(TheRun, Healed)
    <3>1. ExecsOK(Healed) /\ TheRun \in Run
      BY HealedOK DEF MasterOK, MasterTypeOK, TheRun, Run, RUN_STATES
    <3>2. Working(Healed) \subseteq Working(execs)
      <4>1. \A n \in Nodes : NoNewWork(execs[n], Healed[n])
        BY HealedPlaces DEF NoNewWork
      <4> QED  BY <4>1, HealedGoesOn, WorkingShrinks
    <3> QED  BY <2>1, <2>2, <3>1, <3>2, TickQueueCapped
  <2>3. CASE ~TickQueue(TheRun, Healed)
    BY <1>2, <1>3, <2>1, <2>3, TickNew
  <2> QED  BY <2>2, <2>3
<1>4. ASSUME NEW a \in Actors, Carry(a), HistoryNext
      PROVE  /\ run'.batch \in DOMAIN Batches
             /\ retried' # {} \/ \A n \in Nodes : NoNewWork(execs[n], execs'[n])
  <2>1. run'.batch \in DOMAIN Batches
    BY <1>4, BatchKept
  <2>2. CASE RetryNode(a)
    <3>1. op[a].kind = "retry_node" /\ op'[a] = NoOp
      BY <2>2 DEF RetryNode, Doing, MasterOK, MasterTypeOK
    <3>2. op[a].node \in retried'
      BY <1>4, <3>1 DEF HistoryNext
    <3> QED  BY <2>1, <3>2
  <2>3. CASE ~RetryNode(a)
    BY <1>4, <2>1, <2>3, CarryNew
  <2> QED  BY <2>2, <2>3
<1>5. CASE Service /\ ~Tick
  BY <1>2, <1>5 DEF Service, ListRuns, NoNewWork
<1>6. CASE Command \/ KillSwitch
  BY <1>2, <1>6 DEF Command, ReadRun, ReadNode, ReadStatus, Read, KillSwitch,
     Switch, NoNewWork
<1>7. CASE UNCHANGED vars
  BY <1>2, <1>7 DEF vars, fleetVars, masterVars, NoNewWork
<1>8. CASE \E m \in Nodes : NodeStep(m)
  BY <1>2, <1>8, NodeAdds DEF NoNewWork
<1>9. CASE Next
  <2>1. /\ HistoryNext
        /\ \/ Service \/ Command \/ KillSwitch \/ \E a \in Actors : Carry(a)
           \/ \E m \in Nodes : NodeStep(m)
    BY <1>9 DEF Next, NodeStep, Carried
  <2>2. CASE \E a \in Actors : Carry(a)
    <3>1. PICK a \in Actors : Carry(a)
      BY <2>2
    <3> QED  BY <1>2, <1>4, <2>1, <3>1
  <2> QED  BY <1>3, <1>5, <1>6, <1>8, <2>1, <2>2
<1> QED  BY <1>7, <1>9

LEMMA CapStep ==
    ASSUME FleetOK, CapOK, [Next]_vars, [NoOverlap]_vars
    PROVE  CapOK'
<1>1. MasterOK /\ AgentOK /\ run.batch \in DOMAIN Batches /\ NoneSeen
  BY DEF FleetOK, CapOK
<1>2. NoneSeen'
  BY <1>1, NoneSeenStep
<1>3. ASSUME retried' = {}
      PROVE  /\ IsFiniteSet(Working(execs'))
             /\ Cardinality(Working(execs')) <= MaxParallel
  <2>1. IsFiniteSet(Working(execs)) /\ Cardinality(Working(execs)) <= MaxParallel
    BY <1>3, RetriedGrows DEF CapOK
  <2>2. CASE Working(execs') \subseteq Working(execs)
    <3>1. /\ IsFiniteSet(Working(execs'))
          /\ Cardinality(Working(execs')) <= Cardinality(Working(execs))
      BY <2>1, <2>2, FS_Subset
    <3>2. Cardinality(Working(execs')) \in Nat /\ Cardinality(Working(execs)) \in Nat
      BY <2>1, <3>1, FS_CardinalityType
    <3> QED  BY <2>1, <3>1, <3>2, StrategyAssumption
  <2> QED  BY <1>1, <1>3, <2>2, WorkingStep
<1>4. run'.batch \in DOMAIN Batches
  BY <1>1, WorkingStep
<1> QED  BY <1>2, <1>3, <1>4 DEF CapOK, Working

\* apply_tick() counts the live nodes before it starts one: never more nodes
\* than max_parallel work on a step, unless an operator retried one, if no
\* other writer comes between the hub's reading of an execution and its writing.
THEOREM NeverTooMany == Spec /\ [][NoOverlap]_vars => []ParallelCapped
<1>1. Init => CapOK
  <2> SUFFICES ASSUME Init PROVE CapOK
    OBVIOUS
  <2>1. run.batch \in DOMAIN Batches
    <3>1. Len(Batches) \in Nat /\ Len(Batches) # 0 /\ DOMAIN Batches = 1..Len(Batches)
      BY PlanAssumption, LenProperties, EmptySeq
    <3> QED  BY <3>1 DEF Init, MasterInit
  <2>2. NoneSeen
    BY DEF Init, AgentInit, NoneSeen
  <2>3. Working(execs) = {}
    BY DEF Init, MasterInit, Working
  <2> QED  BY <2>1, <2>2, <2>3, FS_EmptySet, StrategyAssumption DEF CapOK
<1>2. FleetOK /\ CapOK /\ [Next]_vars /\ [NoOverlap]_vars => CapOK'
  BY CapStep
<1>3. CapOK => ParallelCapped
  BY DEF CapOK, ParallelCapped, Working
<1> QED  BY <1>1, <1>2, <1>3, FleetInvariant, PTL DEF Spec

-----------------------------------------------------------------------------
(* SuccessIsComplete.  A node of a batch that was left has failed or is done, *)
(* and so it stays; a rollback of a node that has not failed is an operator's *)
(* of the whole run.  If the operator breaks that off (start_rollback, pause, *)
(* resume), the run may succeed while rollbacks are live: the theorem leaves  *)
(* it out.                                                                    *)

RollbackGoesOn ==
    run.state = "rolling_back" =>
        run'.state \in {"rolling_back", "rolled_back", "failed"}

DoneOK ==
    /\ run.batch \in DOMAIN Batches
    /\ NoneSeen
    /\ \A n \in Nodes \ retried :
          /\ Single(execs[n])
          /\ UndoLive(execs[n]) => run.state = "rolling_back" \/ HasFailed(execs[n])
    /\ \A b \in 1..run.batch - 1 : \A n \in MembersOf(b) \ retried : Over(execs[n])

LEMMA RetryRetries ==
    ASSUME MasterOK, NEW a \in Actors, RetryNode(a), HistoryNext
    PROVE  op[a].node \in retried'
<1>1. op[a].kind = "retry_node" /\ op'[a] = NoOp
  BY DEF RetryNode, Doing, MasterOK, MasterTypeOK
<1> QED  BY <1>1 DEF HistoryNext

\* What a step makes of the rows of a node that nobody retried.
LEMMA RetainsStep ==
    ASSUME FleetOK, DoneOK, [Next]_vars, [RollbackGoesOn]_vars, NEW n \in Nodes \ retried'
    PROVE  /\ Retains(execs[n], execs'[n])
           /\ UndoLive(execs'[n]) => run'.state = "rolling_back" \/ HasFailed(execs'[n])
<1>1. MasterOK /\ AgentOK /\ n \in Nodes \ retried /\ Single(execs[n])
  BY RetriedGrows DEF FleetOK, DoneOK
<1>2. UndoLive(execs[n]) => run.state = "rolling_back" \/ HasFailed(execs[n])
  BY <1>1 DEF DoneOK
<1>3. AllGoOn(execs, execs')
  BY <1>1, RowsStep DEF DoneOK
<1>4. Retains(execs[n], execs'[n]) /\ HasFailed(execs[n]) => HasFailed(execs'[n])
  BY <1>1, RetainsOver
<1>5. CASE run' = run /\ DOMAIN execs'[n] = DOMAIN execs[n]
  <2>1. RowsGoOn(execs[n], execs'[n])
    BY <1>1, <1>3 DEF AllGoOn
  <2>2. NoNewWork(execs[n], execs'[n])
    BY <1>5 DEF NoNewWork
  <2>3. Retains(execs[n], execs'[n]) /\ (UndoLive(execs'[n]) => UndoLive(execs[n]))
    BY <1>5, <2>1, <2>2, NoNewRetains, UndoLiveOld
  <2> QED  BY <1>2, <1>4, <1>5, <2>3
<1>6. CASE Tick
  <2>1. /\ Retains(execs[n], execs'[n])
        /\ UndoLive(execs'[n]) => UndoLive(execs[n]) \/ HasFailed(execs'[n])
    BY <1>1, <1>6, TickRetains
  <2>2. CASE run.state = "rolling_back" /\ run'.state # "rolling_back"
    BY <1>1, <1>6, <2>1, <2>2, TickRolledBack
  <2> QED  BY <1>2, <1>4, <2>1, <2>2
<1>7. ASSUME NEW a \in Actors, Carry(a), HistoryNext, RollbackGoesOn
      PROVE  /\ Retains(execs[n], execs'[n])
             /\ UndoLive(execs'[n]) => run'.state = "rolling_back" \/ HasFailed(execs'[n])
  <2>1. ~RetryNode(a) \/ op[a].node # n
    BY <1>1, <1>7, RetryRetries
  <2>2. /\ Retains(execs[n], execs'[n])
        /\ \/ run'.state = "rolling_back"
           \/ UndoLive(execs'[n]) => UndoLive(execs[n])
    BY <1>1, <1>7, <2>1, CarryRetains
  <2>3. run.state = "rolling_back" => run'.state = "rolling_back"
    <3>1. run \in Run
      BY <1>1 DEF MasterOK, MasterTypeOK
    <3> QED  BY <1>7, <3>1 DEF RollbackGoesOn, Carry, Approve, Reject, Expire, Pause,
             Cancel, ResumeRun, StartRollback, RetryNode, SetStatus, RunTo, Run
  <2> QED  BY <1>2, <1>4, <2>2, <2>3
<1>8. CASE Service /\ ~Tick
  BY <1>5, <1>8 DEF Service, ListRuns
<1>9. CASE Command \/ KillSwitch
  BY <1>5, <1>9 DEF Command, ReadRun, ReadNode, ReadStatus, Read, KillSwitch, Switch
<1>10. CASE UNCHANGED vars
  BY <1>5, <1>10 DEF vars, fleetVars, masterVars
<1>11. CASE \E m \in Nodes : NodeStep(m)
  BY <1>1, <1>5, <1>11, NodeAdds
<1>12. CASE Next
  <2>1. /\ HistoryNext
        /\ \/ Service \/ Command \/ KillSwitch \/ \E a \in Actors : Carry(a)
           \/ \E m \in Nodes : NodeStep(m)
    BY <1>12 DEF Next, NodeStep, Carried
  <2>2. CASE \E a \in Actors : Carry(a)
    <3>1. PICK a \in Actors : Carry(a)
      BY <2>2
    <3>2. CASE UNCHANGED vars
      BY <1>10, <3>2
    <3>3. CASE RollbackGoesOn
      BY <1>7, <2>1, <3>1, <3>3
    <3> QED  BY <3>2, <3>3
  <2> QED  BY <1>6, <1>8, <1>9, <1>11, <2>1, <2>2
<1> QED  BY <1>10, <1>12

\* Batches are left by ticks.
LEMMA LeavesStep ==
    ASSUME FleetOK, DoneOK, [Next]_vars
    PROVE  Tick \/ run'.batch = run.batch
<1>1. run \in Run /\ MasterOK /\ AgentOK
  BY DEF FleetOK, MasterOK, MasterTypeOK
<1>2. CASE Next
  <2>1. \/ Service \/ Command \/ KillSwitch \/ \E a \in Actors : Carry(a)
        \/ \E m \in Nodes : NodeStep(m)
    BY <1>2 DEF Next, NodeStep, Carried
  <2>2. ASSUME NEW a \in Actors, Carry(a)
        PROVE  run'.batch = run.batch
    BY <1>1, <2>2 DEF Carry, Approve, Reject, Expire, Pause, Cancel, ResumeRun,
       StartRollback, RetryNode, SetStatus, RunTo, Run
  <2>3. CASE Service
    BY <2>3 DEF Service, ListRuns
  <2>4. CASE Command \/ KillSwitch
    BY <2>4 DEF Command, ReadRun, ReadNode, ReadStatus, Read, KillSwitch, Switch
  <2>5. CASE \E m \in Nodes : NodeStep(m)
    BY <1>1, <2>5, NodeAdds
  <2> QED  BY <2>1, <2>2, <2>3, <2>4, <2>5
<1>3. CASE UNCHANGED vars
  BY <1>3 DEF vars, fleetVars, masterVars
<1> QED  BY <1>2, <1>3

LEMMA DoneStep ==
    ASSUME FleetOK, DoneOK, [Next]_vars, [NoOverlap]_vars, [RollbackGoesOn]_vars
    PROVE  DoneOK'
<1>1. MasterOK /\ AgentOK /\ run.batch \in DOMAIN Batches /\ NoneSeen
  BY DEF FleetOK, DoneOK
<1>2. run'.batch \in DOMAIN Batches /\ NoneSeen'
  BY <1>1, WorkingStep, NoneSeenStep
<1>3. ASSUME NEW n \in Nodes \ retried'
      PROVE  /\ n \notin retried /\ Single(execs[n]) /\ Single(execs'[n])
             /\ Over(execs[n]) => Over(execs'[n])
             /\ UndoLive(execs'[n]) => run'.state = "rolling_back" \/ HasFailed(execs'[n])
  <2>1. n \notin retried /\ Single(execs[n])
    BY RetriedGrows DEF DoneOK
  <2> QED  BY <2>1, RetainsStep, RetainsOver DEF Retains
<1>4. ASSUME NEW b \in 1..run'.batch - 1, NEW n \in MembersOf(b) \ retried'
      PROVE  Over(execs'[n])
  <2>1. DOMAIN Batches = 1..Len(Batches) /\ Len(Batches) \in Nat
    BY PlanAssumption, LenProperties
  <2>2. b \in DOMAIN Batches
    BY <1>2, <2>1
  <2>3. n \in Nodes
    <3>1. Batches[b] \in Seq(Nodes)
      BY <2>1, <2>2, PlanAssumption, ElementOfSeq
    <3> QED  BY <3>1, LenProperties, ElementOfSeq DEF MembersOf
  <2>4. CASE b \in 1..run.batch - 1
    BY <1>3, <2>3, <2>4 DEF DoneOK
  <2>5. CASE b \notin 1..run.batch - 1
    <3>1. Tick
      BY <2>5, LeavesStep
    <3>2. b = TheRun.batch /\ BatchSettled(TheRun, Healed) /\ execs' = Healed
      BY <1>1, <2>5, <3>1, TickLeaves
    <3>3. Settled(Healed[n]) /\ Healed[n] \in Seq(Execution)
      BY <1>1, <2>3, <3>2, HealedOK DEF BatchSettled, MasterOK, ExecsOK
    <3> QED  BY <3>2, <3>3, SettledOver
  <2> QED  BY <2>4, <2>5
<1> QED  BY <1>2, <1>3, <1>4 DEF DoneOK

\* The step in which a run succeeds.
LEMMA SuccessStep ==
    ASSUME FleetOK, DoneOK, [Next]_vars,
           run.state # "succeeded", run'.state = "succeeded", NEW n \in Nodes \ retried
    PROVE  /\ \A s \in Steps : LatestIn(execs'[n], s, Fine)
           /\ \A i \in DOMAIN execs'[n] : execs'[n][i].state \notin EXEC_LIVE
<1>1. /\ MasterOK /\ AgentOK /\ run \in Run /\ run.batch \in DOMAIN Batches
      /\ Single(execs[n])
      /\ UndoLive(execs[n]) => run.state = "rolling_back" \/ HasFailed(execs[n])
  BY DEF FleetOK, DoneOK, MasterOK, MasterTypeOK
<1>2. Tick
  <2>1. Next
    BY DEF vars, fleetVars, masterVars
  <2>2. \/ Service \/ Command \/ KillSwitch \/ \E a \in Actors : Carry(a)
        \/ \E m \in Nodes : NodeStep(m)
    BY <2>1 DEF Next, NodeStep, Carried
  <2>3. ASSUME NEW a \in Actors, Carry(a)
        PROVE  FALSE
    BY <1>1, <2>3 DEF Carry, Approve, Reject, Expire, Pause, Cancel, ResumeRun,
       StartRollback, RetryNode, SetStatus, RunTo, Run
  <2>4. CASE Service
    BY <2>4 DEF Service, ListRuns
  <2>5. ~(Command \/ KillSwitch)
    BY DEF Command, ReadRun, ReadNode, ReadStatus, Read, KillSwitch, Switch
  <2>6. ~\E m \in Nodes : NodeStep(m)
    BY <1>1, NodeAdds
  <2> QED  BY <2>2, <2>3, <2>4, <2>5, <2>6
<1>3. /\ run.state # "rolling_back" /\ IsLast(TheRun)
      /\ BatchSettled(TheRun, Healed) /\ execs' = Healed
      /\ ~HasFailed(Healed[n])
  BY <1>1, <1>2, TickSucceeds
<1>4. /\ Retains(execs[n], Healed[n]) /\ Single(Healed[n])
      /\ UndoLive(Healed[n]) => UndoLive(execs[n])
  BY <1>1, HealedRetains DEF Retains
<1>5. ~UndoLive(Healed[n])
  BY <1>1, <1>3, <1>4, RetainsOver
<1>6. Healed[n] \in Seq(Execution)
  BY <1>1, HealedOK DEF MasterOK, ExecsOK
<1>7. Over(Healed[n])
  <2>1. DOMAIN Batches = 1..Len(Batches) /\ Len(Batches) \in Nat
    BY PlanAssumption, LenProperties
  <2>2. PICK b \in DOMAIN Batches : n \in MembersOf(b)
    BY BatchesAssumption
  <2>3. TheRun.batch \in {1, run.batch} /\ 1 \in DOMAIN Batches
    BY <1>1, <2>1 DEF TheRun, Run
  <2>4. TheRun.batch = Len(Batches)
    BY <1>1, <1>3, <2>1, <2>3 DEF IsLast
  <2>5. CASE b = Len(Batches)
    <3>1. Settled(Healed[n])
      BY <1>3, <2>2, <2>4, <2>5 DEF BatchSettled
    <3> QED  BY <1>6, <3>1, SettledOver
  <2>6. CASE b # Len(Batches)
    <3>1. b \in 1..run.batch - 1
      BY <1>1, <2>1, <2>2, <2>3, <2>4, <2>6
    <3>2. Over(execs[n])
      BY <2>2, <3>1 DEF DoneOK
    <3> QED  BY <1>1, <1>4, <3>2, RetainsOver
  <2> QED  BY <2>5, <2>6
<1> QED  BY <1>3, <1>4, <1>5, <1>6, <1>7, OverDone

\* _finish() after node_progress(): a run that succeeds has done every step on
\* every node that no operator retried, and nothing is live there, if no stale
\* write of the hub and no break of a rollback came in between.
THEOREM SuccessMeansDone ==
    Spec /\ [][NoOverlap]_vars /\ [][RollbackGoesOn]_vars => SuccessIsComplete
<1>1. Init => DoneOK
  <2> SUFFICES ASSUME Init PROVE DoneOK
    OBVIOUS
  <2>1. run.batch \in DOMAIN Batches /\ run.batch = 1
    <3>1. Len(Batches) \in Nat /\ Len(Batches) # 0 /\ DOMAIN Batches = 1..Len(Batches)
      BY PlanAssumption, LenProperties, EmptySeq
    <3> QED  BY <3>1 DEF Init, MasterInit
  <2>2. NoneSeen
    BY DEF Init, AgentInit, NoneSeen
  <2>3. \A n \in Nodes : Single(execs[n]) /\ ~UndoLive(execs[n])
    BY DEF Init, MasterInit, Single, UndoLive
  <2> QED  BY <2>1, <2>2, <2>3 DEF DoneOK
<1>2. FleetOK /\ DoneOK /\ [Next]_vars /\ [NoOverlap]_vars /\ [RollbackGoesOn]_vars
         => DoneOK'
  BY DoneStep
<1>3. FleetOK /\ DoneOK /\ [Next]_vars =>
         [run.state # "succeeded" /\ run'.state = "succeeded" =>
            \A n \in Nodes \ retried :
               /\ \A s \in Steps : LatestIn(execs'[n], s, Fine)
               /\ \A i \in DOMAIN execs'[n] : execs'[n][i].state \notin EXEC_LIVE]_vars
  BY SuccessStep
<1> QED  BY <1>1, <1>2, <1>3, FleetInvariant, PTL DEF Spec, SuccessIsComplete
=============================================================================
