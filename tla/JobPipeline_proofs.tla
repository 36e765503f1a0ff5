-------------------------- MODULE JobPipeline_proofs --------------------------
(* For every set of workers and controllers, every plan mode, limit and       *)
(* budget: the pipeline is type correct, status and pipeline state of the job *)
(* agree, and a merged or cancelled job stays what it is.                     *)
EXTENDS JobPipeline, JobWorker_proofs

\* A controller about to start a process knows its phase, and a command that
\* moves the pipeline state has a target of the command table.
SpawnKnown ==
    \A c \in Controllers : cstep[c] \in {"acquire", "popen"} => cphase[c] \in Phases

CommandKnown ==
    /\ cmd.step \in {"approve", "reject", "core"} => cmd.to \in CommandTargets
    /\ cmd.step = "resetFix" => cmd.to \in {"verifying", "implementing"}

ControllerOK == ControllerTypeOK /\ SpawnKnown

CommandOK == CommandTypeOK /\ CommandKnown

HistoryOK ==
    /\ budget \in [BudgetKinds -> Nat]
    /\ reviewed \in BOOLEAN
    /\ rounds \in Nat

\* The inductive invariant.
PipelineOK == JobOK /\ ControllerOK /\ CommandOK /\ HistoryOK

USE DEF JobOK, WorkerTypeOK, rowVars, leaseVars, metaVars, attemptVars, workVars,
        locals, controllerVars, commandVars, others

-----------------------------------------------------------------------------
LEMMA OtherUnchanged ==
    ASSUME OtherTypeOK, UNCHANGED <<leaseVars, metaVars, attemptVars, workVars>>
    PROVE  OtherTypeOK'
BY DEF OtherTypeOK

LEMMA ProcessUnchanged ==
    ASSUME ProcessOK, UNCHANGED workerVars
    PROVE  ProcessOK'
BY DEF ProcessOK, workerVars, PhaseKnown, LocalsTypeOK

\* Lease recovery.
LEMMA RecoveryOK ==
    ASSUME JobOK, ControllerOK, NEW c \in Controllers, Recovery(c)
    PROVE  JobOK' /\ RowKept /\ ControllerOK'
<1> USE DEF Continue, EndRecovery, ControllerOK, ControllerTypeOK, SpawnKnown,
            ControllerSteps
<1>1. CASE Claim(c)
  <2>1. RowKept
    BY <1>1, RowUntouched DEF Claim, ClaimExpiredLease, RowOK, RowTypeOK
  <2>2. OtherTypeOK'
    BY <1>1 DEF Claim, ClaimExpiredLease, OtherTypeOK
  <2>3. ProcessOK'
    BY <1>1 DEF Claim, workerVars, ProcessOK, PhaseKnown, LocalsTypeOK
  <2> QED
    BY <1>1, <2>1, <2>2, <2>3 DEF Claim, RowKept
<1>2. CASE ReapContainers(c)
  <2>1. RowKept
    BY <1>2, RowUnchanged DEF ReapContainers
  <2>2. OtherTypeOK' /\ ProcessOK'
    BY <1>2 DEF ReapContainers, OtherTypeOK, workerVars, ProcessOK, PhaseKnown,
                LocalsTypeOK
  <2> QED
    BY <1>2, <2>1, <2>2 DEF ReapContainers, RowKept
<1>3. CASE RecoverRead(c)
  <2>1. fresh' \subseteq Controllers
    BY <1>3 DEF RecoverRead, RowOK, RowTypeOK
  <2>2. RowKept
    BY <1>3, <2>1, RowUntouched DEF RecoverRead, RowOK, RowTypeOK
  <2>3. OtherTypeOK' /\ ProcessOK'
    BY <1>3 DEF RecoverRead, OtherTypeOK, workerVars, ProcessOK, PhaseKnown,
                LocalsTypeOK
  <2>4. cstatus' \in [Controllers -> JobStatus \cup {"none"}]
    BY <1>3 DEF RecoverRead, RowOK, RowTypeOK
  <2>5. cstep' \in {[cstep EXCEPT ![c] = "decide"], [cstep EXCEPT ![c] = "idle"]}
    BY <1>3 DEF RecoverRead
  <2> QED
    BY <1>3, <2>2, <2>3, <2>4, <2>5 DEF RecoverRead, RowKept
<1>4. CASE Interrupted(c) \/ StageCrashedTooOften(c)
  <2>1. RowKept /\ OtherTypeOK' /\ ProcessOK'
    BY <1>4, RowUnchanged
       DEF Interrupted, StageCrashedTooOften, storeVars, OtherTypeOK, workerVars,
           ProcessOK, PhaseKnown, LocalsTypeOK
  <2> QED
    BY <1>4, <2>1 DEF Interrupted, StageCrashedTooOften, RowKept
<1>5. CASE CloseOrphanedAttempt(c)
  <2>1. RowKept /\ ProcessOK'
    BY <1>5, RowUnchanged
       DEF CloseOrphanedAttempt, workerVars, ProcessOK, PhaseKnown, LocalsTypeOK
  <2>2. attempt' \in [Workers -> AttemptStatus]
    BY <1>5 DEF CloseOrphanedAttempt, CloseRunningAttempts, AttemptStatus,
                OtherTypeOK
  <2>3. OtherTypeOK'
    BY <1>5, <2>2 DEF CloseOrphanedAttempt, OtherTypeOK
  <2> QED
    BY <1>5, <2>1, <2>3 DEF CloseOrphanedAttempt, RowKept
<1>6. CASE WriteRecovery(c) \/ ParkCrashed(c)
  <2>1. RowKept
    <3>1. CASE UNCHANGED rowVars
      BY <3>1, RowUnchanged
    <3>2. CASE /\ status \notin TerminalStatuses
               /\ \E to \in {"planning", "recovering", "needs_human"},
                     reason \in {"none", "paused"} :
                     LegalMove(status, to) /\ AdvanceTo(to, reason, FALSE)
      BY <3>2, AdvanceToKeepsRow DEF Reasons, GateReasons
    <3>3. \/ UNCHANGED rowVars
          \/ \E to \in {"planning", "recovering", "needs_human"},
                reason \in {"none", "paused"} :
                status # to /\ LegalMove(status, to) /\ AdvanceTo(to, reason, FALSE)
      BY <1>6 DEF WriteRecovery, ParkCrashed, VersionedMove
    <3> QED
      BY <3>1, <3>2, <3>3, StatusTableClosed DEF LegalMove, RowOK, RowTypeOK
  <2>2. OtherTypeOK' /\ ProcessOK'
    BY <1>6 DEF WriteRecovery, ParkCrashed, OtherTypeOK, workerVars, ProcessOK,
                PhaseKnown, LocalsTypeOK
  <2> QED
    BY <1>6, <2>1, <2>2 DEF WriteRecovery, ParkCrashed, RowKept
<1>7. CASE RetryStage(c)
  <2>1. RowKept
    BY <1>7, RowUntouched DEF RetryStage, RowOK, RowTypeOK
  <2>2. OtherTypeOK' /\ ProcessOK'
    BY <1>7 DEF RetryStage, OtherTypeOK, workerVars, ProcessOK, PhaseKnown,
                LocalsTypeOK
  <2> QED
    BY <1>7, <2>1, <2>2 DEF RetryStage, RowKept
<1> QED
  BY <1>1, <1>2, <1>3, <1>4, <1>5, <1>6, <1>7 DEF Recovery

\* Scheduling, spawning and reaping.
LEMMA SpawnOK ==
    ASSUME JobOK, ControllerOK, NEW c \in Controllers,
           \/ Scheduling(c) \/ PopenFails(c) \/ ReapProcess(c)
           \/ TerminateCancelled(c) \/ Restart(c)
    PROVE  JobOK' /\ RowKept /\ ControllerOK'
<1> USE DEF Continue, EndSpawn, ControllerOK, ControllerTypeOK, SpawnKnown,
            ControllerSteps
<1>1. CASE Schedule(c)
  <2>1. RowKept /\ OtherTypeOK' /\ ProcessOK'
    BY <1>1, RowUnchanged
       DEF Schedule, storeVars, OtherTypeOK, workerVars, ProcessOK, PhaseKnown,
           LocalsTypeOK
  <2>2. PhaseOf(status) \in Phases
    BY <1>1 DEF Schedule, Schedulable, SchedulableStatuses, PhaseOf, Phases
  <2> QED
    BY <1>1, <2>1, <2>2 DEF Schedule, RowKept
<1>2. CASE Acquire(c)
  <2>1. PICK w \in Workers :
          \/ /\ AcquireLease(w)
             /\ cworker' = [cworker EXCEPT ![c] = w]
             /\ attempt' = [attempt EXCEPT ![w] = "none"]
             /\ newest' = IF newest = w THEN NoWorker ELSE newest
             /\ Continue(c, "popen")
             /\ UNCHANGED cphase
          \/ /\ Continue(c, "idle")
             /\ cphase' = [cphase EXCEPT ![c] = "none"]
             /\ UNCHANGED <<worker, lease, fresh, attempt, newest, cworker>>
    BY <1>2 DEF Acquire
  <2>2. RowKept
    BY <1>2, <2>1, RowUntouched DEF Acquire, AcquireLease, RowOK, RowTypeOK
  <2>3. OtherTypeOK'
    BY <1>2, <2>1 DEF Acquire, AcquireLease, OtherTypeOK, AttemptStatus
  <2>4. ProcessOK'
    BY <1>2, ProcessUnchanged DEF Acquire
  <2>5. ControllerOK'
    BY <1>2, <2>1 DEF Acquire
  <2> QED
    BY <2>2, <2>3, <2>4, <2>5 DEF RowKept
<1>3. CASE Popen(c)
  <2>1. UNCHANGED storeVars
    BY <1>3 DEF Popen
  <2>2. RowKept /\ OtherTypeOK'
    BY <2>1, RowUnchanged, OtherUnchanged DEF storeVars
  <2>3. /\ pc' = [pc EXCEPT ![cworker[c]] = "boot"]
        /\ phase' = [phase EXCEPT ![cworker[c]] = cphase[c]]
        /\ cphase[c] \in Phases
        /\ UNCHANGED <<result, seenFix, seenMeta, seenOwner, lost>>
    BY <1>3 DEF Popen
  <2>4. WorkerTypeOK'
    BY <2>3 DEF ProcessOK, LocalsTypeOK, WorkerSteps
  <2>5. PhaseKnown'
    BY <2>3 DEF ProcessOK, PhaseKnown, LocalsTypeOK
  <2>6. ControllerOK'
    BY <1>3 DEF Popen
  <2> QED
    BY <2>2, <2>4, <2>5, <2>6 DEF RowKept, ProcessOK
<1>4. CASE PopenFails(c) \/ ReapProcess(c)
  <2>1. worker' \in {worker, NoWorker} /\ lease' \in {lease, "none"} /\ fresh' \in {fresh, {}}
    BY <1>4 DEF PopenFails, ReapProcess, ReleaseLease
  <2>2. UNCHANGED <<status, attention, core, crashes, metaVars, attemptVars, workVars, workerVars>>
    BY <1>4 DEF PopenFails, ReapProcess
  <2>3. RowKept
    BY <2>1, <2>2, RowUntouched DEF RowOK, RowTypeOK
  <2>4. OtherTypeOK' /\ ProcessOK'
    BY <2>1, <2>2, ProcessUnchanged DEF OtherTypeOK
  <2>5. ControllerOK'
    BY <1>4 DEF PopenFails, ReapProcess
  <2> QED
    BY <2>3, <2>4, <2>5 DEF RowKept
<1>5. CASE TerminateCancelled(c)
  <2>1. active[c] \in Workers /\ Dies(active[c])
    BY <1>5 DEF TerminateCancelled
  <2> QED
    BY <1>5, <2>1, DiesOK DEF TerminateCancelled
<1>6. CASE Restart(c)
  <2>1. /\ fresh' = fresh \ {c}
        /\ UNCHANGED <<status, attention, core, crashes, leaseVars, metaVars,
                       attemptVars, workVars, workerVars>>
    BY <1>6 DEF Restart
  <2>2. RowKept
    BY <2>1, RowUntouched DEF RowOK, RowTypeOK
  <2>3. OtherTypeOK' /\ ProcessOK'
    BY <2>1, OtherUnchanged, ProcessUnchanged
  <2>4. ControllerOK'
    BY <1>6 DEF Restart
  <2> QED
    BY <2>2, <2>3, <2>4 DEF RowKept
<1> QED
  BY <1>1, <1>2, <1>3, <1>4, <1>5, <1>6 DEF Scheduling

-----------------------------------------------------------------------------
\* What commands and polls leave alone.
LEMMA OthersUnchanged ==
    ASSUME ProcessOK, ControllerOK, UNCHANGED others
    PROVE  ProcessOK' /\ ControllerOK'
BY ProcessUnchanged DEF ControllerOK, ControllerTypeOK, SpawnKnown

LEMMA HumanMoveKeepsRow ==
    ASSUME RowOK, NEW to, NEW reason \in Reasons, HumanMove(to, reason),
           reason \in GateReasons => to = "needs_human"
    PROVE  RowKept
BY AdvanceToKeepsRow, RowUnchanged DEF HumanMove

LEMMA AcceptOK ==
    ASSUME JobOK, ControllerOK, CommandOK, NEW step, NEW to, Accept(step, to),
           step \in CommandSteps,
           to \in JobStatus \cup JobState \cup {"none"},
           step \in {"approve", "reject", "core"} => to \in CommandTargets,
           step = "resetFix" => to \in {"verifying", "implementing"}
    PROVE  JobOK' /\ RowKept /\ ControllerOK' /\ CommandOK'
<1>1. RowKept /\ OtherTypeOK'
  BY RowUnchanged, OtherUnchanged DEF Accept, storeVars
<1>2. ProcessOK' /\ ControllerOK'
  BY OthersUnchanged DEF Accept
<1>3. cmd' = [step |-> step, to |-> to, doc |-> meta] /\ poll' = poll
  BY DEF Accept
<1>4. cmd'.step = step /\ cmd'.to = to
  BY <1>3
<1>5. CommandTypeOK'
  BY <1>3 DEF CommandOK, CommandTypeOK, OtherTypeOK
<1>6. CommandKnown'
  BY <1>4 DEF CommandKnown
<1> QED
  BY <1>1, <1>2, <1>5, <1>6 DEF CommandOK, RowKept

\* A human's command is accepted on what the row shows.
LEMMA CommandsOK ==
    ASSUME JobOK, ControllerOK, CommandOK,
           \/ ApprovePlan \/ RejectPlan \/ Resume \/ Retry \/ Recheck \/ Reprompt
           \/ Push \/ Repush \/ MarkMerged \/ Discard \/ RaiseLimit
    PROVE  JobOK' /\ RowKept /\ ControllerOK' /\ CommandOK'
<1> USE DEF CommandTargets, CommandSteps, JobStatus, JobState
<1>1. CASE ApprovePlan \/ RejectPlan
  BY <1>1, AcceptOK DEF ApprovePlan, RejectPlan
<1>2. CASE Resume
  <2>1. StageStatusOf(core.pausedFrom) \in JobStatus
    BY DEF StageStatusOf
  <2> QED
    BY <1>2, <2>1, AcceptOK DEF Resume
<1>3. CASE Retry
  <2>1. StageStatusOf(core.failedFrom) \in JobStatus
    BY DEF StageStatusOf
  <2> QED
    BY <1>3, <2>1, AcceptOK DEF Retry
<1>4. CASE Recheck \/ Reprompt
  BY <1>4, AcceptOK DEF Recheck, Reprompt
<1>5. CASE Push \/ Repush \/ MarkMerged
  BY <1>5, AcceptOK DEF Push, Repush, MarkMerged
<1>6. CASE Discard \/ RaiseLimit
  BY <1>6, AcceptOK DEF Discard, RaiseLimit
<1> QED
  BY <1>1, <1>2, <1>3, <1>4, <1>5, <1>6

\* Its handler carries it out.
LEMMA HandlerOK ==
    ASSUME JobOK, ControllerOK, CommandOK, Handler
    PROVE  JobOK' /\ RowKept /\ ControllerOK' /\ CommandOK'
<1>1. NoMeta \in MetaDocuments
  BY DEF NoMeta, MetaDocuments, PRStates
<1>2. CASE WritePlanDecision
  <2>1. RowKept
    BY <1>2, RowUntouched DEF WritePlanDecision, WriteMeta, RowOK, RowTypeOK
  <2>2. meta' \in MetaDocuments
    BY <1>2 DEF WritePlanDecision, WriteMeta, CommandOK, CommandTypeOK, MetaDocuments
  <2>3. OtherTypeOK'
    BY <1>2, <2>2 DEF WritePlanDecision, OtherTypeOK
  <2>4. CommandOK'
    BY <1>1, <1>2 DEF WritePlanDecision, Proceed, CommandOK, CommandTypeOK,
                      CommandKnown, CommandSteps
  <2> QED
    BY <1>2, <2>1, <2>3, <2>4, OthersUnchanged DEF WritePlanDecision, RowKept
<1>3. CASE ResetFix
  <2>1. RowKept
    BY <1>3, SetFixKeepsRow DEF ResetFix
  <2>2. OtherTypeOK'
    BY <1>3 DEF ResetFix, OtherTypeOK
  <2>3. CommandOK'
    BY <1>1, <1>3 DEF ResetFix, Proceed, CommandOK, CommandTypeOK,
                      CommandKnown, CommandSteps, CommandTargets
  <2> QED
    BY <1>3, <2>1, <2>2, <2>3, OthersUnchanged DEF ResetFix, RowKept
<1>4. NoCommand = [step |-> "none", to |-> "none", doc |-> NoMeta]
  BY DEF NoCommand
<1>5. cmd' = NoCommand /\ poll' = poll => CommandOK'
  BY <1>1, <1>4 DEF CommandOK, CommandTypeOK, CommandKnown, CommandSteps
<1>6. CASE MoveCore
  <2>1. cmd.to \in CommandTargets
    BY <1>6 DEF MoveCore, CommandOK, CommandKnown
  <2>2. RowKept
    BY <1>6, <2>1, TransitionCoreKeepsRow, RowUnchanged DEF MoveCore, CoreCommand
  <2>3. OtherTypeOK'
    BY <1>6 DEF MoveCore, OtherTypeOK
  <2> QED
    BY <1>5, <1>6, <2>2, <2>3, OthersUnchanged DEF MoveCore, RowKept
<1>7. CASE MoveStatus
  <2>1. RowKept
    BY <1>7, HumanMoveKeepsRow, RowUnchanged DEF MoveStatus, Reasons, GateReasons
  <2>2. OtherTypeOK'
    BY <1>7 DEF MoveStatus, OtherTypeOK
  <2> QED
    BY <1>5, <1>7, <2>1, <2>2, OthersUnchanged DEF MoveStatus, RowKept
<1>8. CASE ResolveConflict
  <2>1. status = "conflicted" => LegalMove(status, "queued")
    BY DEF LegalMove, StatusTransitions, FailureStatuses
  <2>2. RowKept
    BY <1>8, <2>1, AdvanceToKeepsRow, RowUnchanged
       DEF ResolveConflict, Reasons, GateReasons
  <2>3. OtherTypeOK'
    BY <1>8 DEF ResolveConflict, BranchChanges, OtherTypeOK
  <2> QED
    BY <1>5, <1>8, <2>2, <2>3, OthersUnchanged DEF ResolveConflict, RowKept
<1>9. CASE GrantLimit
  <2>1. RowKept
    BY <1>9, RowUntouched DEF GrantLimit, WriteMeta, RowOK, RowTypeOK
  <2>2. meta' \in MetaDocuments
    BY <1>9 DEF GrantLimit, WriteMeta, OtherTypeOK, MetaDocuments
  <2>3. OtherTypeOK'
    BY <1>9, <2>2 DEF GrantLimit, OtherTypeOK
  <2> QED
    BY <1>5, <1>9, <2>1, <2>3, OthersUnchanged DEF GrantLimit, RowKept
<1> QED
  BY <1>2, <1>3, <1>6, <1>7, <1>8, <1>9 DEF Handler

\* The merge poll and the drift watch.
LEMMA PollsOK ==
    ASSUME JobOK, ControllerOK, CommandOK, PollHost \/ DriftFound \/ Poller
    PROVE  JobOK' /\ RowKept /\ ControllerOK' /\ CommandOK'
<1>1. poll' \in PollSteps /\ cmd' = cmd => CommandOK'
  BY DEF CommandOK, CommandTypeOK, CommandKnown
<1>2. CASE PollHost \/ DriftFound
  <2>1. RowKept /\ OtherTypeOK'
    BY <1>2, RowUnchanged, OtherUnchanged DEF PollHost, DriftFound, storeVars
  <2> QED
    BY <1>1, <1>2, <2>1, OthersUnchanged
       DEF PollHost, DriftFound, PollSteps, RowKept
<1>3. CASE StampPR
  <2>1. meta' \in MetaDocuments /\ fresh' \in {fresh, {}}
    BY <1>3 DEF StampPR, WriteMeta, OtherTypeOK, MetaDocuments, PRStates
  <2>2. RowKept
    BY <1>3, <2>1, RowUntouched DEF StampPR, RowOK, RowTypeOK
  <2>3. OtherTypeOK'
    BY <1>3, <2>1 DEF StampPR, OtherTypeOK
  <2> QED
    BY <1>1, <1>3, <2>2, <2>3, OthersUnchanged DEF StampPR, PollSteps, RowKept
<1>4. CASE ApplyPoll \/ MarkConflicted
  <2>1. RowKept
    BY <1>4, HumanMoveKeepsRow DEF ApplyPoll, MarkConflicted, Reasons, GateReasons
  <2>2. OtherTypeOK'
    BY <1>4 DEF ApplyPoll, MarkConflicted, OtherTypeOK
  <2> QED
    BY <1>1, <1>4, <2>1, <2>2, OthersUnchanged
       DEF ApplyPoll, MarkConflicted, PollSteps, RowKept
<1> QED
  BY <1>2, <1>3, <1>4 DEF Poller

-----------------------------------------------------------------------------
\* Faults, and the passing of time.
LEMMA FaultOK ==
    ASSUME JobOK, ControllerOK, CommandOK,
           \/ LeaseExpires \/ Lapse
           \/ \E w \in Workers : Crash(w) \/ StoreError(w)
           \/ \E c \in Controllers : ControllerRestart(c)
    PROVE  JobOK' /\ RowKept /\ ControllerOK' /\ CommandOK'
<1>1. CASE LeaseExpires \/ Lapse
  <2>1. Expire
    BY <1>1 DEF LeaseExpires, Lapse
  <2>2. RowKept /\ OtherTypeOK'
    BY <2>1, RowUnchanged DEF Expire, OtherTypeOK
  <2>3. ProcessOK' /\ ControllerOK'
    BY <2>1, OthersUnchanged DEF Expire
  <2>4. CommandOK'
    BY <2>1 DEF Expire, CommandOK, CommandTypeOK, CommandKnown
  <2> QED
    BY <2>2, <2>3, <2>4 DEF RowKept
<1>2. CASE \E w \in Workers : Crash(w) \/ StoreError(w)
  <2>1. PICK w \in Workers : Dies(w) \/ HeartbeatFails(w)
    BY <1>2 DEF Crash, StoreError
  <2>2. UNCHANGED <<controllerVars, commandVars>>
    BY <1>2 DEF Crash, StoreError
  <2>3. ControllerOK' /\ CommandOK'
    BY <2>2 DEF ControllerOK, ControllerTypeOK, SpawnKnown, CommandOK,
                CommandTypeOK, CommandKnown
  <2> QED
    BY <2>1, <2>3, DiesOK, HeartbeatOK
<1>3. CASE \E c \in Controllers : ControllerRestart(c)
  <2>1. PICK c \in Controllers : Restart(c)
    BY <1>3 DEF ControllerRestart
  <2>2. CommandOK'
    BY <1>3 DEF ControllerRestart, CommandOK, CommandTypeOK, CommandKnown
  <2> QED
    BY <2>1, <2>2, SpawnOK
<1> QED
  BY <1>1, <1>2, <1>3

\* Every step keeps the invariant and the row of the job in order.
LEMMA StepOK ==
    ASSUME PipelineOK, Next
    PROVE  PipelineOK' /\ RowKept
<1> USE DEF PipelineOK
<1>1. HistoryOK'
  <2>1. reviewed' \in BOOLEAN
    BY DEF Next, HistoryNext, HistoryOK
  <2>2. rounds' \in Nat
    BY DEF Next, HistoryNext, HistoryOK
  <2>3. budget' \in [BudgetKinds -> Nat]
    <3>1. \/ UNCHANGED budget
          \/ \E kind \in BudgetKinds : Spend(kind)
      BY DEF Next, Process, Controller, Crash, StoreError, ControllerRestart,
             Command, Edit, Poll, Finish, LeaseExpires, Lapse, BudgetKinds
    <3> QED
      BY <3>1 DEF Spend, HistoryOK
  <2> QED
    BY <2>1, <2>2, <2>3 DEF HistoryOK
<1>2. JobOK' /\ RowKept /\ ControllerOK' /\ CommandOK'
  <2>1. CASE \E w \in Workers : Process(w)
    <3>1. PICK w \in Workers : WorkerStep(w) \/ Heartbeat(w)
      BY <2>1 DEF Process
    <3>2. ControllerOK' /\ CommandOK'
      BY <2>1 DEF Process, ControllerOK, ControllerTypeOK, SpawnKnown,
                  CommandOK, CommandTypeOK, CommandKnown
    <3> QED
      BY <3>1, <3>2, WorkerStepOK, HeartbeatOK
  <2>2. CASE \E c \in Controllers : Controller(c)
    <3>1. PICK c \in Controllers : ControllerStep(c)
      BY <2>2 DEF Controller
    <3>2. CommandOK'
      BY <2>2 DEF Controller, CommandOK, CommandTypeOK, CommandKnown
    <3> QED
      BY <3>1, <3>2, RecoveryOK, SpawnOK DEF ControllerStep
  <2>3. CASE Command \/ Edit
    BY <2>3, CommandsOK DEF Command, Edit
  <2>4. CASE Poll \/ Finish
    BY <2>4, PollsOK, HandlerOK DEF Poll, Finish
  <2>5. CASE \/ LeaseExpires \/ Lapse
             \/ \E w \in Workers : Crash(w) \/ StoreError(w)
             \/ \E c \in Controllers : ControllerRestart(c)
    BY <2>5, FaultOK
  <2> QED
    BY <2>1, <2>2, <2>3, <2>4, <2>5 DEF Next
<1> QED
  BY <1>1, <1>2

LEMMA StutterOK ==
    ASSUME PipelineOK, UNCHANGED vars
    PROVE  PipelineOK' /\ RowKept
<1> USE DEF PipelineOK, vars
<1>1. RowKept /\ OtherTypeOK'
  BY RowUnchanged, OtherUnchanged DEF storeVars
<1>2. ProcessOK' /\ ControllerOK'
  BY OthersUnchanged
<1>3. CommandOK' /\ HistoryOK'
  BY DEF CommandOK, CommandTypeOK, CommandKnown, HistoryOK, historyVars
<1> QED
  BY <1>1, <1>2, <1>3 DEF RowKept

LEMMA InitOK == Init => PipelineOK
<1> SUFFICES ASSUME Init PROVE PipelineOK
  OBVIOUS
<1> USE DEF Init
<1>1. NoMeta \in MetaDocuments
  BY DEF NoMeta, MetaDocuments, PRStates
<1>2. RowOK
  <2>1. At("provisioning", 0) \in CoreStates /\ Origins(At("provisioning", 0))
        /\ At("provisioning", 0).state = "provisioning"
    BY AtAgrees DEF JobState
  <2>2. "provisioning" \in CoreStatesOf("queued")
    BY DEF CoreStatesOf, SchedulingStatuses, StageStatuses, FailureStatuses,
           Steps, JobState
  <2> QED
    BY <2>1, <2>2 DEF StoreInit, InitialCore, RowOK, RowTypeOK, Agrees,
                      JobStatus, Reasons
<1>3. OtherTypeOK
  BY <1>1 DEF StoreInit, OtherTypeOK, AttemptStatus
<1>4. ProcessOK
  BY <1>1 DEF WorkerInit, ProcessOK, LocalsTypeOK, PhaseKnown, WorkerSteps
<1>5. ControllerOK
  BY DEF ControllerInit, ControllerOK, ControllerTypeOK, SpawnKnown, ControllerSteps
<1>6. CommandOK
  BY <1>1 DEF CommandInit, CommandOK, CommandTypeOK, CommandKnown, NoCommand,
              CommandSteps, PollSteps
<1>7. HistoryOK
  BY BudgetAssumption DEF HistoryOK
<1> QED
  BY <1>2, <1>3, <1>4, <1>5, <1>6, <1>7 DEF PipelineOK

LEMMA Invariance == Spec => []PipelineOK
<1>1. PipelineOK /\ [Next]_vars => PipelineOK'
  BY StepOK, StutterOK
<1> QED
  BY InitOK, <1>1, PTL DEF Spec

-----------------------------------------------------------------------------
\* Every variable keeps its type: workers, controllers, the row of the job and
\* the commands never write a value the code has no case for.
THEOREM TypeCorrect == Spec => []TypeOK
<1>1. PipelineOK => TypeOK
  BY DEF PipelineOK, RowOK, ProcessOK, ControllerOK, CommandOK, HistoryOK,
         TypeOK, StoreTypeOK
<1> QED
  BY Invariance, <1>1, PTL

\* The two columns the code writes through different tables, jobs.status and
\* jobs.state, always describe the same moment of the job; so what schedules it
\* and what a human may do with it never contradict each other.
THEOREM CoherentAlways == Spec => []Coherent
<1>1. PipelineOK => Coherent
  BY DEF PipelineOK, RowOK, Coherent
<1> QED
  BY Invariance, <1>1, PTL

\* No worker, controller, command or poll takes a merged or cancelled job out
\* of its terminal status, however late it acts on what it read before.
THEOREM TerminalFinal == Spec => TerminalIsFinal
<1>1. PipelineOK /\ [Next]_vars =>
          [(status \in TerminalStatuses) => status' = status]_vars
  BY StepOK, StutterOK DEF RowKept
<1> QED
  BY Invariance, <1>1, PTL DEF Spec, TerminalIsFinal
=============================================================================
