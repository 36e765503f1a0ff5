--------------------------- MODULE JobSafety_proofs ---------------------------
(* What the pipeline keeps safe, for every set of workers and controllers,    *)
(* every limit and every budget of commands, edits, crashes and restarts.     *)
(* That a running job never carries a finished attempt holds whatever goes    *)
(* wrong; the rest needs a steady job: no lease lapses under a live worker,   *)
(* no heartbeat meets a store error, and no poll finds news.  One container   *)
(* at a time needs a single controller, and that no job is forgotten one that *)
(* is not restarted, of a job nobody edits meanwhile.                         *)
EXTENDS JobPipeline_proofs, FiniteSetTheorems

USE DEF JobOK, WorkerTypeOK, rowVars, leaseVars, metaVars, attemptVars, workVars,
        locals, controllerVars, commandVars, others

-----------------------------------------------------------------------------
(* An attempt takes its job along.                                            *)

EndedWell == {"completed", "needs_human"}

\* The inductive invariant: an owner about to enter "running" has an attempt
\* that has not ended, a stage that ended has an outcome, and no command moves
\* the job to "running".
OutcomeOK ==
    /\ OutcomeIsAtomic
    /\ \A w \in Workers :
          pc[w] = "launch" /\ worker = w /\ newest # NoWorker =>
              attempt[newest] \notin EndedWell
    /\ \A w \in Workers : pc[w] = "finish" => result[w] # "none"
    /\ cmd.step \in {"move", "resume", "retry"} => cmd.to # "running"

\* A fenced status write is made, with the lease, or it leaves the row alone.
LEMMA FencedCases ==
    ASSUME NEW w \in Workers, NEW to, NEW reason, NEW missing, NEW next,
           FencedMove(w, to, reason, missing, next)
    PROVE  \/ /\ Owns(w) /\ status # to /\ LegalMove(status, to)
              /\ AdvanceTo(to, reason, missing)
              /\ Goto(w, next)
           \/ /\ UNCHANGED rowVars
              /\ \/ status = to /\ Goto(w, next)
                 \/ ~LegalMove(status, to) /\ Goto(w, "refused")
                 \/ ~Owns(w) /\ Goto(w, "exit")
BY DEF FencedMove, AlreadyThere, Refuse, LoseOut, Write

\* A step that neither starts nor ends an attempt, nor lets the job run.
QuietStep(w) ==
    /\ status' = "running" => status = "running"
    /\ UNCHANGED <<attempt, newest>>
    /\ worker' \in {worker, NoWorker}
    /\ \A u \in Workers : u # w => result'[u] = result[u]
    /\ \E step \in WorkerSteps \ {"launch", "finish"} : Goto(w, step)

LEMMA QuietKeepsOutcome ==
    ASSUME JobOK, OutcomeOK, NEW w \in Workers, QuietStep(w), UNCHANGED cmd
    PROVE  OutcomeOK'
<1>1. OutcomeIsAtomic'
  BY DEF OutcomeOK, OutcomeIsAtomic, QuietStep
<1>2. ASSUME NEW u \in Workers, pc'[u] = "launch", worker' = u, newest' # NoWorker
      PROVE  attempt'[newest'] \notin EndedWell
  <2>1. pc[u] = "launch" /\ worker = u
    BY <1>2, NoWorkerAssumption DEF QuietStep, Goto, ProcessOK
  <2> QED
    BY <1>2, <2>1 DEF OutcomeOK, QuietStep
<1>3. \A u \in Workers : pc'[u] = "finish" => result'[u] # "none"
  BY DEF OutcomeOK, QuietStep, Goto, ProcessOK
<1> QED
  BY <1>1, <1>2, <1>3 DEF OutcomeOK, QuietStep

LEMMA FencedQuiet ==
    ASSUME NEW w \in Workers, NEW to, NEW reason, NEW missing, NEW next,
           FencedMove(w, to, reason, missing, next),
           to # "running", next \in WorkerSteps \ {"launch", "finish"}
    PROVE  /\ status' = "running" => status = "running"
           /\ \E step \in WorkerSteps \ {"launch", "finish"} : Goto(w, step)
<1>1. "refused" \in WorkerSteps \ {"launch", "finish"} /\ "exit" \in WorkerSteps \ {"launch", "finish"}
  BY DEF WorkerSteps, BodySteps
<1> QED
  BY <1>1, FencedCases DEF AdvanceTo, WriteStatus

LEMMA StepSet ==
    WorkerSteps \ {"launch", "finish"} =
        {"start", "prepare", "plan", "ask", "planning", "savePlan", "contract",
         "planned", "gate", "attempt", "contain", "running", "verify",
 "noContract", "toReview", "setFix", "noteFix", "requeue", "review",
         "reviewing", "verdict", "publish", "recordPR", "announce", "refused",
         "off", "exit", "boot"}
BY DEF WorkerSteps, BodySteps, ImplementSteps, VerifySteps, ReviewSteps,
       PublishSteps

LEMMA FrameQuiet ==
    ASSUME JobOK, NEW w \in Workers,
           Boot(w) \/ AskModel(w) \/ Refused(w) \/ Exit(w)
    PROVE  QuietStep(w)
<1> USE StepSet
<1>1. CASE Boot(w)
  <2>1. pc[w] = "boot" => FirstStep(phase[w]) \in WorkerSteps \ {"launch", "finish"}
    BY DEF ProcessOK, PhaseKnown, Phases, FirstStep
  <2> QED
    BY <1>1, <2>1 DEF Boot, QuietStep
<1>2. CASE AskModel(w)
  BY <1>2 DEF AskModel, QuietStep, storeVars
<1>3. CASE Refused(w)
  BY <1>3 DEF Refused, QuietStep, AdvanceTo, WriteStatus
<1>4. CASE Exit(w)
  BY <1>4 DEF Exit, QuietStep, ReleaseLease, Forget
<1> QED
  BY <1>1, <1>2, <1>3, <1>4

LEMMA PlanQuiet ==
    ASSUME JobOK, NEW w \in Workers,
           \/ ToPreparing(w) \/ Prepare(w) \/ PrepareFails(w)
           \/ ModelsUnset(w) \/ NoPlanning(w) \/ ToPlanning(w)
           \/ PlannerAnswers(w) \/ PlannerFails(w) \/ SavePlan(w)
           \/ ApplyContract(w) \/ AfterPlanning(w) \/ RequirePlan(w)
    PROVE  QuietStep(w)
<1> USE StepSet DEF Park
<1>1. CASE ToPreparing(w)
  BY <1>1, FencedQuiet DEF ToPreparing, QuietStep
<1>2. CASE Prepare(w)
  BY <1>2 DEF Prepare, QuietStep
<1>3. CASE PrepareFails(w)
  BY <1>3, FencedQuiet DEF PrepareFails, QuietStep
<1>4. CASE ModelsUnset(w)
  BY <1>4, FencedQuiet DEF ModelsUnset, QuietStep
<1>5. CASE NoPlanning(w)
  BY <1>5 DEF NoPlanning, QuietStep, storeVars
<1>6. CASE ToPlanning(w)
  BY <1>6, FencedQuiet DEF ToPlanning, QuietStep
<1>7. CASE PlannerAnswers(w)
  BY <1>7 DEF PlannerAnswers, QuietStep
<1>8. CASE PlannerFails(w)
  BY <1>8, FencedQuiet DEF PlannerFails, QuietStep
<1>9. CASE SavePlan(w)
  BY <1>9 DEF SavePlan, QuietStep
<1>10. CASE ApplyContract(w)
  BY <1>10 DEF ApplyContract, QuietStep, Write, AdvanceTo, WriteStatus
<1>11. CASE AfterPlanning(w)
  BY <1>11, FencedQuiet DEF AfterPlanning, QuietStep
<1>12. CASE RequirePlan(w)
  BY <1>12, FencedQuiet DEF RequirePlan, QuietStep
<1> QED
  BY <1>1, <1>2, <1>3, <1>4, <1>5, <1>6, <1>7, <1>8, <1>9, <1>10, <1>11, <1>12

LEMMA StageQuiet ==
    ASSUME JobOK, NEW w \in Workers,
           \/ RunAgent(w) \/ SetupRaises(w)
           \/ VerifyPhase(w) \/ ReviewPhase(w) \/ PublishPhase(w)
    PROVE  QuietStep(w)
<1> USE StepSet DEF Park
<1>1. CASE RunAgent(w)
  BY <1>1 DEF RunAgent, QuietStep
<1>2. CASE SetupRaises(w)
  BY <1>2 DEF SetupRaises, QuietStep, AdvanceTo, WriteStatus
<1>3. CASE VerifyEnds(w) \/ SetFix(w) \/ NoteFix(w)
  BY <1>3 DEF VerifyEnds, SetFix, NoteFix, QuietStep
<1>4. CASE VerifyRaises(w)
  BY <1>4 DEF VerifyRaises, QuietStep, AdvanceTo, WriteStatus
<1>5. CASE NoContract(w) \/ ToReview(w) \/ Requeue(w)
  BY <1>5, FencedQuiet DEF NoContract, ToReview, Requeue, QuietStep
<1>6. CASE NoReview(w) \/ ReviewEnds(w)
  BY <1>6 DEF NoReview, ReviewEnds, QuietStep, storeVars
<1>7. CASE ReviewFails(w)
  BY <1>7, FencedQuiet DEF ReviewFails, QuietStep
<1>8. CASE Verdict(w)
  BY <1>8, FencedQuiet DEF Verdict, QuietStep
<1>9. CASE PublishEnds(w) \/ RecordPR(w)
  BY <1>9 DEF PublishEnds, RecordPR, QuietStep, storeVars
<1>10. CASE PublishFails(w) \/ Announce(w)
  BY <1>10, FencedQuiet DEF PublishFails, Announce, QuietStep
<1> QED
  BY <1>1, <1>2, <1>3, <1>4, <1>5, <1>6, <1>7, <1>8, <1>9, <1>10
     DEF VerifyPhase, ReviewPhase, PublishPhase

\* The steps that start an attempt, let the job run, or end an attempt.
LEMMA AttemptKeepsOutcome ==
    ASSUME JobOK, OutcomeOK, NEW w \in Workers, UNCHANGED cmd,
           \/ NewAttempt(w) \/ ToRunning(w) \/ AgentEnds(w) \/ FinishAttempt(w)
           \/ AgentRaises(w)
    PROVE  OutcomeOK'
<1> USE DEF ProcessOK, OtherTypeOK
<1>1. cmd.step \in {"move", "resume", "retry"} => cmd.to # "running"
  BY DEF OutcomeOK
<1>2. CASE NewAttempt(w)
  BY <1>1, <1>2, NoWorkerAssumption
     DEF NewAttempt, StartAttempt, Goto, OutcomeOK, OutcomeIsAtomic, EndedWell
<1>3. CASE ToRunning(w)
  <2>1. UNCHANGED <<worker, attempt, newest>> /\ pc[w] = "launch"
    BY <1>3 DEF ToRunning
  <2>2. \E step \in {"contain", "refused", "exit"} : Goto(w, step)
    BY <1>3, FencedCases DEF ToRunning
  <2>3. status' = "running" => status = "running" \/ worker = w
    BY <1>3, FencedCases DEF ToRunning, Owns
  <2>4. OutcomeIsAtomic'
    BY <2>1, <2>3 DEF OutcomeOK, OutcomeIsAtomic, EndedWell
  <2>5. \A u \in Workers : pc'[u] \in {"launch", "finish"} => pc'[u] = pc[u]
    BY <2>2 DEF Goto
  <2>6. UNCHANGED result
    BY <1>3 DEF ToRunning
  <2> QED
    BY <1>1, <2>1, <2>4, <2>5, <2>6 DEF OutcomeOK
<1>4. CASE FinishAttempt(w)
  <2>1. \E step \in {"refused", "exit"} : Goto(w, step)
    BY <1>4 DEF FinishAttempt
  <2>2. \A u \in Workers : pc'[u] = "launch" => pc[u] = "launch" /\ u # w
    BY <1>4, <2>1 DEF Goto, FinishAttempt
  <2>3. UNCHANGED <<worker, newest>>
    BY <1>4 DEF FinishAttempt
  <2>6. \A u \in Workers : pc'[u] = "finish" => result'[u] # "none"
    BY <1>4, <2>1 DEF Goto, FinishAttempt, LocalsTypeOK, OutcomeOK
  <2>4. CASE Owns(w)
    <3>1. attempt' = [attempt EXCEPT ![w] = AttemptEnd(result[w])]
      BY <1>4, <2>4 DEF FinishAttempt
    <3>2. status' = "running" =>
              status = "running" /\ AttemptEnd(result[w]) \notin EndedWell
      <4>1. LegalMove("running", "verifying") /\ LegalMove("running", "needs_human")
        BY DEF LegalMove, StatusTransitions, FailureStatuses
      <4>2. \A r : JobEnd(r) = "running" => r \notin Outcomes
        BY DEF JobEnd, Outcomes, Retried
      <4>3. result[w] \in Outcomes \cup {"cancelled"}
        BY <1>4 DEF LocalsTypeOK, FinishAttempt, OutcomeOK
      <4>4. AttemptEnd(result[w]) \in EndedWell =>
                result[w] \in EndedWell /\ JobEnd(result[w]) \in {"verifying", "needs_human"}
        BY DEF AttemptEnd, JobEnd, EndedWell
      <4>5. \/ UNCHANGED status /\ (result[w] = "cancelled" \/ ~LegalMove(status, JobEnd(result[w])))
            \/ status' = JobEnd(result[w]) /\ result[w] # "cancelled"
        BY <1>4, <2>4 DEF FinishAttempt, EndJob, WriteStatus
      <4> QED
        BY <4>1, <4>2, <4>3, <4>4, <4>5 DEF EndedWell
    <3>3. OutcomeIsAtomic'
      BY <2>3, <3>1, <3>2 DEF OutcomeOK, OutcomeIsAtomic, EndedWell
    <3>4. \A u \in Workers : pc'[u] = "launch" => worker # u
      BY <2>2, <2>4 DEF Owns
    <3> QED
      BY <1>1, <2>3, <2>6, <3>3, <3>4 DEF OutcomeOK
  <2>5. CASE ~Owns(w)
    <3>1. UNCHANGED <<status, attempt>>
      BY <1>4, <2>5 DEF FinishAttempt
    <3> QED
      BY <1>1, <2>2, <2>3, <2>6, <3>1 DEF OutcomeOK, OutcomeIsAtomic
  <2> QED
    BY <2>4, <2>5
<1>5. CASE AgentRaises(w)
  <2>1. Goto(w, "exit") /\ UNCHANGED <<worker, newest>>
    BY <1>5 DEF AgentRaises
  <2>2. /\ \A u \in Workers : pc'[u] \in {"launch", "finish"} => pc'[u] = pc[u]
        /\ UNCHANGED result
    BY <1>5, <2>1 DEF Goto, AgentRaises
  <2>3. \A u \in Workers : attempt'[u] = attempt[u] \/ attempt'[u] = "failed"
    BY <1>5 DEF AgentRaises
  <2>4. status' = "running" => status = "running"
    BY <1>5 DEF AgentRaises, EndJob, WriteStatus
  <2>5. OutcomeIsAtomic'
    BY <2>1, <2>3, <2>4 DEF OutcomeOK, OutcomeIsAtomic
  <2> QED
    BY <1>1, <2>1, <2>2, <2>3, <2>5 DEF OutcomeOK, EndedWell
<1>6. CASE AgentEnds(w)
  <2>1. UNCHANGED <<status, worker, attempt, newest>>
    BY <1>6 DEF AgentEnds
  <2>2. /\ \A u \in Workers : pc'[u] = "launch" => pc[u] = "launch"
        /\ \A u \in Workers : pc'[u] = "finish" => result'[u] # "none"
    BY <1>6 DEF AgentEnds, Goto, LocalsTypeOK, Outcomes, OutcomeOK
  <2> QED
    BY <1>1, <2>1, <2>2 DEF OutcomeOK, OutcomeIsAtomic
<1> QED
  BY <1>2, <1>3, <1>4, <1>5, <1>6

LEMMA WorkerKeepsOutcome ==
    ASSUME JobOK, OutcomeOK, NEW w \in Workers, UNCHANGED cmd,
           WorkerStep(w) \/ Heartbeat(w) \/ HeartbeatFails(w) \/ Dies(w)
    PROVE  OutcomeOK'
<1>1. CASE Heartbeat(w) \/ HeartbeatFails(w)
  BY <1>1 DEF Heartbeat, HeartbeatFails, storeVars, OutcomeOK, OutcomeIsAtomic
<1>2. CASE Dies(w)
  <2>1. QuietStep(w)
    BY <1>2, StepSet DEF Dies, Forget, QuietStep
  <2> QED
    BY <2>1, QuietKeepsOutcome
<1> QED
  BY <1>1, <1>2, FrameQuiet, PlanQuiet, StageQuiet, QuietKeepsOutcome,
     AttemptKeepsOutcome
     DEF WorkerStep, ImplementPhase

LEMMA ControllerKeepsOutcome ==
    ASSUME JobOK, ControllerOK, OutcomeOK, NEW c \in Controllers, UNCHANGED cmd,
           ControllerStep(c) \/ Restart(c)
    PROVE  OutcomeOK'
<1> USE DEF OutcomeOK, OutcomeIsAtomic
<1>1. CASE /\ ~Acquire(c) /\ ~Popen(c) /\ ~CloseOrphanedAttempt(c)
           /\ ~TerminateCancelled(c)
  <2>1. UNCHANGED <<attempt, newest, pc, result>> /\ worker' \in {worker, NoWorker}
    BY <1>1 DEF ControllerStep, Restart, Recovery, Scheduling, Claim,
       ClaimExpiredLease, ReapContainers, RecoverRead, Interrupted,
       WriteRecovery, RetryStage, StageCrashedTooOften, ParkCrashed, Schedule,
       PopenFails, ReapProcess, ReleaseLease, storeVars, workerVars
  <2>2. status' = "running" => status = "running"
    BY <1>1 DEF ControllerStep, Restart, Recovery, Scheduling, Claim,
       ReapContainers, RecoverRead, Interrupted, WriteRecovery, RetryStage,
       StageCrashedTooOften, ParkCrashed, Schedule, PopenFails, ReapProcess,
       storeVars, VersionedMove, AdvanceTo, WriteStatus
  <2> QED
    BY <2>1, <2>2, NoWorkerAssumption
<1>2. CASE Acquire(c)
  <2>1. PICK w \in Workers :
          /\ Unused(w)
          /\ \/ /\ worker' = w
                /\ attempt' = [attempt EXCEPT ![w] = "none"]
                /\ newest' = IF newest = w THEN NoWorker ELSE newest
             \/ UNCHANGED <<worker, attempt, newest>>
    BY <1>2 DEF Acquire, AcquireLease
  <2>2. UNCHANGED <<status, pc, result>>
    BY <1>2 DEF Acquire, workerVars
  <2> QED
    BY <2>1, <2>2, NoWorkerAssumption DEF Unused, OtherTypeOK, EndedWell
<1>3. CASE Popen(c)
  <2>1. /\ UNCHANGED <<storeVars, result>>
        /\ \A u \in Workers : pc'[u] \in {pc[u], "boot"}
    BY <1>3 DEF Popen, ProcessOK
  <2> QED
    BY <2>1 DEF storeVars
<1>4. CASE CloseOrphanedAttempt(c)
  <2>1. UNCHANGED <<status, worker, newest, pc, result>>
    BY <1>4 DEF CloseOrphanedAttempt, workerVars
  <2>2. \A u \in Workers : attempt'[u] \in {attempt[u], "interrupted"}
    BY <1>4 DEF CloseOrphanedAttempt, CloseRunningAttempts
  <2> QED
    BY <2>1, <2>2 DEF OtherTypeOK, EndedWell
<1>5. CASE TerminateCancelled(c)
  <2>1. active[c] \in Workers /\ Dies(active[c])
    BY <1>5 DEF TerminateCancelled, ControllerOK, ControllerTypeOK
  <2> QED
    BY <2>1, WorkerKeepsOutcome
<1> QED
  BY <1>1, <1>2, <1>3, <1>4, <1>5

LEMMA HumanKeepsOutcome ==
    ASSUME JobOK, CommandOK, OutcomeOK, Command \/ Edit \/ Poll \/ Finish
    PROVE  OutcomeOK'
<1> USE DEF OutcomeOK, OutcomeIsAtomic
<1>1. UNCHANGED <<attempt, newest, pc, result, worker>>
  BY DEF Command, Edit, Poll, Finish, ApprovePlan, RejectPlan, Resume, Retry,
     Recheck, Reprompt, Push, Repush, MarkMerged, Discard, RaiseLimit, Accept,
     PollHost, DriftFound, Handler, Poller, WritePlanDecision, ResetFix,
     MoveCore, MoveStatus, ResolveConflict, GrantLimit, StampPR, ApplyPoll,
     MarkConflicted, storeVars, workerVars
<1>2. CASE Command \/ Edit
  <2>1. UNCHANGED status
    BY <1>2 DEF Command, Edit, ApprovePlan, RejectPlan, Resume, Retry,
       Recheck, Reprompt, Push, Repush, MarkMerged, Discard, RaiseLimit, Accept,
       storeVars
  <2>2. \A s : StageStatusOf(s) # "running"
    BY DEF StageStatusOf
  <2>3. cmd'.step \in {"move", "resume", "retry"} => cmd'.to # "running"
    BY <1>2, <2>2 DEF Command, Edit, ApprovePlan, RejectPlan, Resume, Retry,
       Recheck, Reprompt, Push, Repush, MarkMerged, Discard, RaiseLimit, Accept
  <2> QED
    BY <1>1, <2>1, <2>3
<1>3. CASE Poll \/ Poller
  BY <1>1, <1>3
     DEF Poll, PollHost, DriftFound, Poller, StampPR, ApplyPoll, MarkConflicted,
         HumanMove, AdvanceTo, WriteStatus, storeVars
<1>4. CASE Handler
  <2>1. status' = "running" => status = "running"
    <3>1. CASE MoveCore
      <4>1. \A target \in CommandTargets \ {"implementing"} :
                LegacyStatus(target) # "running"
        BY DEF CommandTargets, LegacyStatus, WAITING
      <4>2. cmd.to \in CommandTargets
        BY <3>1 DEF MoveCore, CommandOK, CommandKnown
      <4> QED
        BY <3>1, <4>1, <4>2
           DEF MoveCore, CoreCommand, TransitionCore, CoreTargetStatus, WriteStatus
    <3> QED
      BY <1>4, <3>1
         DEF Handler, WritePlanDecision, ResetFix, MoveStatus, ResolveConflict,
             GrantLimit, HumanMove, AdvanceTo, WriteStatus
  <2>2. cmd'.step \in {"move", "resume", "retry"} => cmd'.to # "running"
    <3>1. CASE WritePlanDecision
      BY <3>1 DEF WritePlanDecision, Proceed, CommandOK, CommandTypeOK
    <3>2. CASE ResetFix
      BY <3>2 DEF ResetFix, Proceed, CommandOK, CommandTypeOK, CommandKnown
    <3>3. CASE ~WritePlanDecision /\ ~ResetFix
      <4>1. cmd' = NoCommand
        BY <1>4, <3>3 DEF Handler, MoveCore, MoveStatus, ResolveConflict, GrantLimit
      <4> QED
        BY <4>1 DEF NoCommand
    <3> QED
      BY <3>1, <3>2, <3>3
  <2> QED
    BY <1>1, <2>1, <2>2
<1> QED
  BY <1>2, <1>3, <1>4 DEF Finish

LEMMA OutcomeStep ==
    ASSUME PipelineOK, OutcomeOK, [Next]_vars
    PROVE  OutcomeOK'
<1> USE DEF PipelineOK
<1>1. CASE \E w \in Workers : Process(w) \/ Crash(w) \/ StoreError(w)
  BY <1>1, WorkerKeepsOutcome DEF Process, Crash, StoreError
<1>2. CASE \E c \in Controllers : Controller(c) \/ ControllerRestart(c)
  BY <1>2, ControllerKeepsOutcome DEF Controller, ControllerRestart
<1>3. CASE Command \/ Edit \/ Poll \/ Finish
  BY <1>3, HumanKeepsOutcome
<1>4. CASE LeaseExpires \/ Lapse \/ UNCHANGED vars
  BY <1>4 DEF LeaseExpires, Lapse, Expire, vars, storeVars, workerVars,
     OutcomeOK, OutcomeIsAtomic
<1> QED
  BY <1>1, <1>2, <1>3, <1>4 DEF Next

\* An attempt that ended well has taken its job along, in one transaction:
\* whatever crashes, lapses or takes over, a RUNNING job never carries the
\* outcome of a finished attempt, so there is none for a recovery to replay.
THEOREM OutcomeAlwaysAtomic == Spec => []OutcomeIsAtomic
<1>1. Init => OutcomeOK
  BY DEF Init, StoreInit, WorkerInit, CommandInit, NoCommand, OutcomeOK, OutcomeIsAtomic
<1>2. OutcomeOK => OutcomeIsAtomic
  BY DEF OutcomeOK
<1> QED
  BY Invariance, OutcomeStep, <1>1, <1>2, PTL DEF Spec

-----------------------------------------------------------------------------
(* A live worker owns the job, alone.                                         *)

\* No lease lapses under a live worker, and no heartbeat meets a store error.
\* Crashes, restarts, commands, edits and polls are not limited.
Uninterrupted == Budget["lapse"] = 0 /\ Budget["storeError"] = 0

BudgetKept == \A kind \in BudgetKinds : budget[kind] <= Budget[kind]

\* The inductive invariant.  A controller that is about to start a process has
\* the lease in the name of a worker id that nobody else refers to.
OwnerOK ==
    /\ \A w \in Workers : ~lost[w]
    /\ \A w \in Workers : pc[w] # "off" => Owns(w)
    /\ \A c \in Controllers : cstep[c] = "popen" => cworker[c] # NoWorker
    /\ \A c \in Controllers : cworker[c] # NoWorker =>
          /\ cstep[c] = "popen" /\ Owns(cworker[c]) /\ pc[cworker[c]] = "off"
          /\ \A d \in Controllers : active[d] # cworker[c]
          /\ \A d \in Controllers : cworker[d] = cworker[c] => d = c

\* A step of a worker leaves the lease alone, unless it is the last one.
StaysOwner(w) ==
    /\ UNCHANGED <<worker, lease, lost>>
    /\ fresh' \subseteq fresh
    /\ pc[w] # "off"
    /\ \E step \in WorkerSteps : Goto(w, step)

LEMMA FencedGoes ==
    ASSUME NEW w \in Workers, NEW to, NEW reason, NEW missing,
           NEW next \in WorkerSteps, FencedMove(w, to, reason, missing, next)
    PROVE  fresh' \subseteq fresh /\ \E step \in WorkerSteps : Goto(w, step)
BY FencedCases DEF WorkerSteps, BodySteps, AdvanceTo, WriteStatus

LEMMA AllSteps ==
    WorkerSteps =
        {"start", "prepare", "plan", "ask", "planning", "savePlan", "contract",
         "planned", "gate", "attempt", "launch", "contain", "running", "finish",
         "verify", "noContract", "toReview", "setFix", "noteFix", "requeue",
         "review", "reviewing", "verdict", "publish", "recordPR", "announce",
         "refused", "off", "exit", "boot"}
BY DEF WorkerSteps, BodySteps, ImplementSteps, VerifySteps, ReviewSteps,
       PublishSteps

LEMMA FrameStays ==
    ASSUME JobOK, NEW w \in Workers, Boot(w) \/ AskModel(w) \/ Refused(w)
    PROVE  StaysOwner(w)
<1> USE AllSteps
<1>1. CASE Boot(w)
  <2>1. pc[w] = "boot" => FirstStep(phase[w]) \in WorkerSteps
    BY DEF ProcessOK, PhaseKnown, Phases, FirstStep
  <2> QED
    BY <1>1, <2>1 DEF Boot, StaysOwner
<1>2. CASE AskModel(w) \/ Refused(w)
  BY <1>2 DEF AskModel, Refused, StaysOwner, storeVars, AdvanceTo, WriteStatus
<1> QED
  BY <1>1, <1>2

LEMMA ImplementStays ==
    ASSUME JobOK, NEW w \in Workers, ImplementPhase(w)
    PROVE  StaysOwner(w)
<1> USE AllSteps, FencedGoes
    DEF Park, StaysOwner, AdvanceTo, EndJob, WriteStatus, WriteMeta, MayBumpVersion
<1>1. CASE ToPreparing(w) \/ Prepare(w) \/ PrepareFails(w)
  BY <1>1 DEF ToPreparing, Prepare, PrepareFails
<1>2. CASE ModelsUnset(w) \/ NoPlanning(w) \/ ToPlanning(w)
  BY <1>2 DEF ModelsUnset, NoPlanning, ToPlanning, storeVars
<1>3. CASE PlannerAnswers(w) \/ PlannerFails(w) \/ SavePlan(w)
  BY <1>3 DEF PlannerAnswers, PlannerFails, SavePlan
<1>4. CASE ApplyContract(w) \/ AfterPlanning(w) \/ RequirePlan(w)
  BY <1>4 DEF ApplyContract, AfterPlanning, RequirePlan, Write
<1>5. CASE NewAttempt(w) \/ ToRunning(w) \/ RunAgent(w) \/ AgentEnds(w)
  BY <1>5 DEF NewAttempt, ToRunning, RunAgent, AgentEnds
<1>6. CASE FinishAttempt(w) \/ AgentRaises(w) \/ SetupRaises(w)
  BY <1>6 DEF FinishAttempt, AgentRaises, SetupRaises
<1> QED
  BY <1>1, <1>2, <1>3, <1>4, <1>5, <1>6 DEF ImplementPhase

LEMMA StagesStay ==
    ASSUME JobOK, NEW w \in Workers,
           VerifyPhase(w) \/ ReviewPhase(w) \/ PublishPhase(w)
    PROVE  StaysOwner(w)
<1> USE AllSteps, FencedGoes
    DEF Park, StaysOwner, AdvanceTo, EndJob, WriteStatus, WriteMeta, MayBumpVersion
<1>1. CASE VerifyEnds(w) \/ VerifyRaises(w) \/ NoContract(w) \/ ToReview(w)
  BY <1>1 DEF VerifyEnds, VerifyRaises, NoContract, ToReview
<1>2. CASE SetFix(w) \/ NoteFix(w) \/ Requeue(w)
  BY <1>2 DEF SetFix, NoteFix, Requeue
<1>3. CASE ReviewPhase(w)
  BY <1>3 DEF ReviewPhase, NoReview, ReviewEnds, ReviewFails, Verdict, storeVars
<1>4. CASE PublishPhase(w)
  BY <1>4 DEF PublishPhase, PublishFails, PublishEnds, RecordPR, Announce, storeVars
<1> QED
  BY <1>1, <1>2, <1>3, <1>4 DEF VerifyPhase

LEMMA WorkerStays ==
    ASSUME JobOK, NEW w \in Workers, WorkerStep(w)
    PROVE  StaysOwner(w) \/ Exit(w)
BY FrameStays, ImplementStays, StagesStay DEF WorkerStep

\* The last step of a process, and its death.
LEMMA WorkerKeepsOwner ==
    ASSUME JobOK, ControllerOK, OwnerOK, NEW w \in Workers,
           UNCHANGED controllerVars, WorkerStep(w) \/ Heartbeat(w) \/ Dies(w)
    PROVE  OwnerOK'
<1> USE NoWorkerAssumption
    DEF OwnerOK, Owns, ProcessOK, LocalsTypeOK, ControllerOK, ControllerTypeOK
<1>1. CASE StaysOwner(w)
  BY <1>1 DEF StaysOwner, Goto
<1>2. CASE Exit(w)
  <2>1. pc[w] # "off" /\ pc' = [pc EXCEPT ![w] = "off"]
    BY <1>2 DEF Exit, Forget, Goto
  <2>2. lost' = [lost EXCEPT ![w] = FALSE]
    BY <1>2 DEF Exit, Forget
  <2>3. worker = w
    BY <2>1
  <2> QED
    BY <2>1, <2>2, <2>3
<1>3. CASE Heartbeat(w)
  BY <1>3 DEF Heartbeat
<1>4. CASE Dies(w)
  <2>1. pc[w] # "off" /\ pc' = [pc EXCEPT ![w] = "off"]
    BY <1>4 DEF Dies, Forget, Goto
  <2>2. lost' = [lost EXCEPT ![w] = FALSE] /\ UNCHANGED <<worker, lease>>
    BY <1>4 DEF Dies, Forget
  <2> QED
    BY <2>1, <2>2
<1> QED
  BY <1>1, <1>2, <1>3, <1>4, WorkerStays

LEMMA ControllerKeepsOwner ==
    ASSUME JobOK, ControllerOK, OwnerOK, NEW c \in Controllers,
           ControllerStep(c) \/ Restart(c)
    PROVE  OwnerOK'
<1> USE NoWorkerAssumption
    DEF OwnerOK, Owns, ProcessOK, LocalsTypeOK, ControllerOK, ControllerTypeOK
<1>1. CASE Claim(c)
  <2>1. /\ lease = "expired" /\ cstep[c] = "idle"
        /\ cstep' = [cstep EXCEPT ![c] = "claimed"]
        /\ UNCHANGED <<pc, lost, cworker, active>>
    BY <1>1 DEF Claim, ClaimExpiredLease, Continue, workerVars
  <2> QED
    BY <2>1
<1>2. CASE \/ ReapContainers(c) \/ RecoverRead(c) \/ Interrupted(c)
           \/ CloseOrphanedAttempt(c) \/ WriteRecovery(c) \/ RetryStage(c)
           \/ StageCrashedTooOften(c) \/ ParkCrashed(c) \/ Schedule(c)
  <2>1. /\ cstep[c] # "popen"
        /\ \E step \in ControllerSteps \ {"popen"} : Continue(c, step)
        /\ UNCHANGED <<worker, lease, pc, lost, cworker, active>>
    BY <1>2
       DEF ReapContainers, RecoverRead, Interrupted, CloseOrphanedAttempt,
           WriteRecovery, RetryStage, StageCrashedTooOften, ParkCrashed, Schedule,
           EndRecovery, ControllerSteps, storeVars, workerVars, Continue
  <2> QED
    BY <2>1 DEF Continue
<1>3. CASE Acquire(c)
  <2>1. PICK w \in Workers :
          /\ Unused(w)
          /\ \/ /\ LeaseFree(w)
                /\ worker' = w /\ lease' = "live"
                /\ cworker' = [cworker EXCEPT ![c] = w]
                /\ Continue(c, "popen")
             \/ /\ Continue(c, "idle")
                /\ UNCHANGED <<worker, lease, cworker>>
    BY <1>3 DEF Acquire, AcquireLease
  <2>2. cstep[c] = "acquire" /\ UNCHANGED <<pc, lost, active>>
    BY <1>3 DEF Acquire, workerVars
  <2>3. CASE Continue(c, "idle") /\ UNCHANGED <<worker, lease, cworker>>
    BY <2>2, <2>3 DEF Continue
  <2>4. CASE /\ LeaseFree(w)
             /\ worker' = w /\ lease' = "live"
             /\ cworker' = [cworker EXCEPT ![c] = w]
             /\ Continue(c, "popen")
    <3>1. \A u \in Workers : pc[u] = "off"
      BY <2>1, <2>4 DEF LeaseFree, Unused
    <3>2. \A d \in Controllers : cworker[d] = NoWorker
      BY <2>1, <2>4 DEF LeaseFree, Unused
    <3> QED
      BY <2>1, <2>2, <2>4, <3>1, <3>2 DEF Continue, Unused
  <2> QED
    BY <2>1, <2>3, <2>4
<1>4. CASE Popen(c)
  <2>1. /\ cstep[c] = "popen" /\ cworker[c] \in Workers
        /\ pc' = [pc EXCEPT ![cworker[c]] = "boot"]
        /\ cworker' = [cworker EXCEPT ![c] = NoWorker]
        /\ cstep' = [cstep EXCEPT ![c] = "idle"]
        /\ active' = [active EXCEPT ![c] = cworker[c]]
        /\ UNCHANGED <<worker, lease, lost>>
    BY <1>4 DEF Popen, EndSpawn, Continue, storeVars
  <2>2. \A d \in Controllers : d # c => cworker[d] = NoWorker
    BY <2>1
  <2> QED
    BY <2>1, <2>2
<1>5. CASE PopenFails(c)
  <2>1. /\ cstep[c] = "popen" /\ cworker[c] \in Workers
        /\ cworker' = [cworker EXCEPT ![c] = NoWorker]
        /\ cstep' = [cstep EXCEPT ![c] = "idle"]
        /\ UNCHANGED <<active, pc, lost>>
    BY <1>5 DEF PopenFails, EndSpawn, Continue, workerVars
  <2>2. \A d \in Controllers : d # c => cworker[d] = NoWorker
    BY <2>1
  <2>3. \A u \in Workers : pc[u] = "off"
    BY <2>1
  <2> QED
    BY <2>1, <2>2, <2>3
<1>6. CASE ReapProcess(c)
  <2>1. /\ active[c] \in Workers /\ pc[active[c]] = "off"
        /\ active' = [active EXCEPT ![c] = NoWorker]
        /\ UNCHANGED <<pc, lost, cstep, cworker>>
        /\ UNCHANGED <<worker, lease>> \/ worker = active[c]
    BY <1>6 DEF ReapProcess, ReleaseLease, workerVars
  <2>2. worker = active[c] => \A u \in Workers : pc[u] = "off"
    BY <2>1
  <2>3. worker = active[c] => \A d \in Controllers : cworker[d] = NoWorker
    BY <2>1
  <2> QED
    BY <2>1, <2>2, <2>3
<1>7. CASE TerminateCancelled(c)
  <2>1. active[c] \in Workers /\ Dies(active[c]) /\ UNCHANGED controllerVars
    BY <1>7 DEF TerminateCancelled
  <2> QED
    BY <2>1, WorkerKeepsOwner
<1>8. CASE Restart(c)
  <2>1. /\ cstep' = [cstep EXCEPT ![c] = "idle"]
        /\ cworker' = [cworker EXCEPT ![c] = NoWorker]
        /\ active' = [active EXCEPT ![c] = NoWorker]
        /\ UNCHANGED <<worker, lease, pc, lost>>
    BY <1>8 DEF Restart, workerVars
  <2> QED
    BY <2>1
<1> QED
  BY <1>1, <1>2, <1>3, <1>4, <1>5, <1>6, <1>7, <1>8
     DEF ControllerStep, Recovery, Scheduling

\* Commands and polls touch neither a lease nor a process.
LEMMA HumanLeavesProcesses ==
    ASSUME Command \/ Edit \/ Poll \/ Finish
    PROVE  UNCHANGED <<leaseVars, workerVars, controllerVars, attemptVars, agents>>
BY DEF Command, Edit, Poll, Finish, ApprovePlan, RejectPlan, Resume, Retry,
   Recheck, Reprompt, Push, Repush, MarkMerged, Discard, RaiseLimit, Accept,
   PollHost, DriftFound, Handler, Poller, WritePlanDecision, ResetFix, MoveCore,
   MoveStatus, ResolveConflict, GrantLimit, StampPR, ApplyPoll, MarkConflicted,
   storeVars

\* What may happen is taken from the budget, and nothing is put back.
LEMMA BudgetStep ==
    ASSUME PipelineOK, BudgetKept, [Next]_vars
    PROVE  BudgetKept'
<1>1. \/ UNCHANGED budget
      \/ \E kind \in BudgetKinds : Spend(kind)
  BY DEF Next, vars, Process, Controller, Crash, StoreError, ControllerRestart,
     Command, Edit, Poll, Finish, LeaseExpires, Lapse, BudgetKinds
<1>2. budget \in [BudgetKinds -> Nat] /\ Budget \in [BudgetKinds -> Nat]
  BY BudgetAssumption DEF PipelineOK, HistoryOK
<1>3. \A kind \in BudgetKinds : budget'[kind] <= budget[kind]
  BY <1>1, <1>2 DEF Spend
<1>4. budget' \in [BudgetKinds -> Nat]
  BY <1>1, <1>2 DEF Spend
<1> QED
  BY <1>2, <1>3, <1>4 DEF BudgetKept

LEMMA NothingToSpend ==
    ASSUME PipelineOK, BudgetKept, NEW kind \in BudgetKinds, Budget[kind] = 0
    PROVE  ~Spend(kind)
BY DEF PipelineOK, HistoryOK, BudgetKept, Spend

LEMMA OwnerStep ==
    ASSUME PipelineOK, BudgetKept, Uninterrupted, OwnerOK, [Next]_vars
    PROVE  OwnerOK'
<1> USE DEF PipelineOK
<1>1. ~Lapse /\ \A w \in Workers : ~StoreError(w)
  BY NothingToSpend DEF Uninterrupted, BudgetKinds, Lapse, StoreError
<1>2. CASE \E w \in Workers : Process(w) \/ Crash(w)
  BY <1>2, WorkerKeepsOwner DEF Process, Crash
<1>3. CASE \E c \in Controllers : Controller(c) \/ ControllerRestart(c)
  BY <1>3, ControllerKeepsOwner DEF Controller, ControllerRestart
<1>4. CASE Command \/ Edit \/ Poll \/ Finish
  <2>1. UNCHANGED <<leaseVars, workerVars, controllerVars>>
    BY <1>4, HumanLeavesProcesses
  <2> QED
    BY <2>1 DEF workerVars, OwnerOK, Owns
<1>5. CASE LeaseExpires
  <2>1. /\ UNCHANGED <<worker, workerVars, controllerVars>>
        /\ worker # NoWorker /\ Abandoned(worker)
    BY <1>5 DEF LeaseExpires, Expire
  <2>2. \A w \in Workers : pc[w] = "off"
    BY <2>1 DEF Abandoned, OwnerOK, Owns
  <2>3. \A c \in Controllers : cworker[c] = NoWorker
    BY <2>1 DEF Abandoned, OwnerOK, Owns
  <2> QED
    BY <2>1, <2>2, <2>3 DEF workerVars, OwnerOK
<1>6. CASE UNCHANGED vars
  BY <1>6 DEF vars, storeVars, workerVars, OwnerOK, Owns
<1> QED
  BY <1>1, <1>2, <1>3, <1>4, <1>5, <1>6 DEF Next

OwnedJob == PipelineOK /\ BudgetKept /\ OwnerOK

LEMMA OwnedInit == Init => OwnedJob
<1> SUFFICES ASSUME Init PROVE OwnedJob
  OBVIOUS
<1>1. BudgetKept
  BY BudgetAssumption DEF Init, BudgetKept
<1>2. OwnerOK
  BY DEF Init, WorkerInit, ControllerInit, OwnerOK
<1> QED
  BY <1>1, <1>2, InitOK DEF OwnedJob

LEMMA OwnedStep ==
    ASSUME Uninterrupted, OwnedJob, [Next]_vars
    PROVE  OwnedJob'
BY StepOK, StutterOK, BudgetStep, OwnerStep DEF OwnedJob

\* However many controllers schedule and recover the job at the same time, and
\* whatever crashes or restarts, as long as no lease lapses under a live worker
\* every live worker process holds the job's lease; so there is at most one.
OnlyOwnersLive ==
    /\ \A w \in Workers : pc[w] # "off" => Owned(w)
    /\ \A v, w \in Workers : pc[v] # "off" /\ pc[w] # "off" => v = w

THEOREM LiveWorkerOwns == Uninterrupted /\ Spec => []OnlyOwnersLive
<1>1. OwnedJob => OnlyOwnersLive
  BY DEF OwnedJob, OwnerOK, OnlyOwnersLive, Owned, Owns
<1>2. Uninterrupted /\ OwnedJob /\ [Next]_vars => OwnedJob'
  BY OwnedStep
<1>3. Uninterrupted' <=> Uninterrupted
  BY DEF Uninterrupted
<1> QED
  BY OwnedInit, <1>1, <1>2, <1>3, PTL DEF Spec

-----------------------------------------------------------------------------
(* The job stands where its owner expects it.                                 *)

\* No poll moves a job either.
Steady == Uninterrupted /\ Budget["poll"] = 0

PlaceOK ==
    \A w \in Workers :
        pc[w] # "off" => status \in ExpectedStatus(pc[w]) \cup {"cancelled"}

\* Statuses that only a human takes the job out of.
RestStatus == {"needs_human", "ready_for_review", "conflicted"} \cup FailureStatuses

\* No gate is hidden behind a scheduled, a paused or a failed job, except the
\* plan review of a job that failed there.
RowGates ==
    /\ status \in SchedulingStatuses => core.state \notin ResetsFixBudget
    /\ core.pausedFrom \notin ResetsFixBudget
    /\ core.failedFrom \notin {"review_done", "pushed"}

PlannedGate ==
    \A w \in Workers : pc[w] = "planned" => core.state \notin {"review_done", "pushed"}

\* What a worker may do to the status of a job.
WorkerMove(from, to, reason) ==
    /\ LegalMove(from, to) /\ from # to /\ from \notin TerminalStatuses
    /\ \/ to \in FailureStatuses /\ reason = "none"
       \/ to = "needs_human" /\ reason = "paused"
       \/ /\ from \in {"planning", "preparing", "recovering"}
          /\ to = "needs_human" /\ reason = "plan_review"
       \/ from = "reviewing" /\ to = "needs_human" /\ reason = "review_done"
       \/ /\ reason = "none"
          /\ \/ from = "queued" /\ to = "preparing"
             \/ from = "preparing" /\ to = "planning"
             \/ from \in {"planning", "preparing", "recovering"} /\ to = "running"
             \/ from = "running" /\ to \in {"verifying", "queued"}
             \/ from = "verifying" /\ to \in {"reviewing", "queued"}
             \/ from = "publishing" /\ to = "ready_for_review"

\* A step of a worker whose job stands where it expects: its status write, if
\* any, is one of these, and leaves the job where its next step expects it.
Written(w) ==
    \/ UNCHANGED <<status, core>>
    \/ /\ pc[w] = "setFix" /\ pc'[w] = "noteFix" /\ UNCHANGED status
       /\ core' = [core EXCEPT !.fix = seenFix[w] + 1]
    \/ \E to \in JobStatus, reason \in Reasons, missing \in BOOLEAN :
          /\ status' = to /\ core' = Advance(core, to, reason, missing)
          /\ WorkerMove(status, to, reason)
          /\ status \in RestStatus => pc[w] = "planned" /\ ~missing

Lands(w) ==
    pc'[w] # "off" => status' \in ExpectedStatus(pc'[w]) \cup {"cancelled"}

LEMMA Expectations ==
    /\ ExpectedStatus("start") = {"queued"}
    /\ ExpectedStatus("prepare") = {"preparing", "recovering", "planning"}
    /\ ExpectedStatus("plan") = {"preparing", "planning"}
    /\ \A s \in {"ask", "planning", "savePlan", "contract"} :
          ExpectedStatus(s) = {"planning"}
    /\ \A s \in {"gate", "attempt", "launch"} :
          ExpectedStatus(s) = {"preparing", "planning", "recovering"}
    /\ \A s \in {"contain", "running", "finish"} : ExpectedStatus(s) = {"running"}
    /\ \A s \in VerifySteps : ExpectedStatus(s) = {"verifying"}
    /\ \A s \in ReviewSteps : ExpectedStatus(s) = {"reviewing"}
    /\ \A s \in PublishSteps : ExpectedStatus(s) = {"publishing"}
    /\ \A s \in {"boot", "planned", "refused", "exit"} : ExpectedStatus(s) = JobStatus
BY DEF ExpectedStatus, VerifySteps, ReviewSteps, PublishSteps

\* The rows of the status table a worker meets.
LEMMA WorkerTable ==
    /\ \A to : LegalMove("cancelled", to) <=> to = "cancelled"
    /\ \A to : LegalMove("merged", to) <=> to = "merged"
    /\ \A s \in JobStatus : \A to : LegalMove(s, to) => to \in JobStatus
BY DEF LegalMove, StatusTransitions, FailureStatuses, JobStatus, RetryTargets

\* A fenced write of an owner that expects another status.
LEMMA FencedLands ==
    ASSUME JobOK, OwnerOK, NEW w \in Workers, pc[w] # "off",
           NEW to \in JobStatus \ {"cancelled"}, NEW reason \in Reasons,
           NEW missing \in BOOLEAN, NEW next \in WorkerSteps,
           FencedMove(w, to, reason, missing, next), status # to,
           status \notin RestStatus,
           status # "cancelled" /\ LegalMove(status, to) =>
               WorkerMove(status, to, reason),
           to \in ExpectedStatus(next)
    PROVE  Written(w) /\ Lands(w)
<1>1. status \in JobStatus
  BY DEF RowOK, RowTypeOK
<1>2. CASE /\ Owns(w) /\ LegalMove(status, to)
           /\ AdvanceTo(to, reason, missing)
           /\ Goto(w, next)
  <2>1. WorkerMove(status, to, reason)
    BY <1>2, WorkerTable
  <2>2. status' = to /\ core' = Advance(core, to, reason, missing)
    BY <1>2 DEF AdvanceTo, WriteStatus
  <2>3. pc'[w] = next
    BY <1>2 DEF Goto, ProcessOK
  <2> QED
    BY <2>1, <2>2, <2>3 DEF Written, Lands
<1>3. CASE UNCHANGED rowVars /\ (Goto(w, "refused") \/ Goto(w, "exit"))
  <2>1. pc'[w] \in {"refused", "exit"}
    BY <1>3 DEF Goto, ProcessOK
  <2> QED
    BY <1>1, <1>3, <2>1, Expectations DEF Written, Lands
<1> QED
  BY <1>2, <1>3, FencedCases

\* The steps around every phase.
LEMMA FrameLands ==
    ASSUME JobOK, OwnerOK, PlaceOK, NEW w \in Workers,
           Boot(w) \/ AskModel(w) \/ Refused(w) \/ Exit(w)
    PROVE  Written(w) /\ Lands(w)
<1> USE Expectations DEF ProcessOK
<1>1. status \in JobStatus
  BY DEF RowOK, RowTypeOK
<1>2. CASE Boot(w)
  <2>1. UNCHANGED <<status, core>>
    BY <1>2 DEF Boot
  <2>2. \/ pc'[w] = "exit"
        \/ status \in StatusesOf(phase[w]) /\ pc'[w] = FirstStep(phase[w])
    BY <1>2 DEF Boot, Goto
  <2>3. status \in StatusesOf(phase[w]) => status \in ExpectedStatus(FirstStep(phase[w]))
    BY <1>2 DEF Boot, PhaseKnown, Phases, StatusesOf, FirstStep, VerifySteps,
                ReviewSteps, PublishSteps
  <2> QED
    BY <1>1, <2>1, <2>2, <2>3 DEF Written, Lands
<1>3. CASE AskModel(w)
  BY <1>3 DEF AskModel, Goto, storeVars, Written, Lands, PlaceOK, ReviewSteps
<1>4. CASE Refused(w)
  <2>1. pc'[w] = "exit"
    BY <1>4 DEF Refused, Goto
  <2>2. \/ UNCHANGED rowVars
        \/ /\ status \in SchedulableStatuses
           /\ "needs_human" \in StatusTransitions(status)
           /\ AdvanceTo("needs_human", "paused", FALSE)
    BY <1>4 DEF Refused
  <2>3. Written(w)
    BY <2>2 DEF Written, WorkerMove, LegalMove, AdvanceTo, WriteStatus, RestStatus,
                FailureStatuses, SchedulableStatuses, TerminalStatuses, Reasons, JobStatus
  <2>4. status' \in JobStatus
    BY <1>1, <2>2 DEF AdvanceTo, WriteStatus, JobStatus
  <2> QED
    BY <2>1, <2>3, <2>4 DEF Lands
<1>5. CASE Exit(w)
  BY <1>5 DEF Exit, Forget, Goto, Written, Lands
<1> QED
  BY <1>2, <1>3, <1>4, <1>5

\* A step that only moves the process on.
LEMMA QuietLands ==
    ASSUME JobOK, PlaceOK, NEW w \in Workers, pc[w] # "off",
           NEW next \in WorkerSteps, Goto(w, next), UNCHANGED <<status, core>>,
           ExpectedStatus(pc[w]) \subseteq ExpectedStatus(next)
    PROVE  Written(w) /\ Lands(w)
<1>1. pc'[w] = next
  BY DEF Goto, ProcessOK
<1> QED
  BY <1>1 DEF Written, Lands, PlaceOK

LEMMA ParkLands ==
    ASSUME JobOK, OwnerOK, PlaceOK, NEW w \in Workers, pc[w] # "off",
           NEW reason \in Reasons, Park(w, reason),
           status = "cancelled" \/ status \notin RestStatus,
           status # "cancelled" /\ LegalMove(status, "needs_human") =>
               WorkerMove(status, "needs_human", reason)
    PROVE  Written(w) /\ Lands(w)
<1>1. "exit" \in WorkerSteps /\ "needs_human" \in ExpectedStatus("exit")
  BY Expectations, AllSteps DEF JobStatus
<1> QED
  BY <1>1, FencedLands DEF Park, RestStatus, JobStatus, FailureStatuses

LEMMA PrepareLands ==
    ASSUME JobOK, OwnerOK, PlaceOK, NEW w \in Workers,
           ToPreparing(w) \/ Prepare(w) \/ PrepareFails(w) \/ SetupRaises(w)
    PROVE  Written(w) /\ Lands(w)
<1> USE Expectations, AllSteps
    DEF WorkerMove, JobStatus, Reasons, RestStatus, FailureStatuses, TerminalStatuses
<1>1. CASE ToPreparing(w)
  <2>1. status \in {"queued", "cancelled"} /\ pc[w] = "start"
    BY <1>1 DEF ToPreparing, PlaceOK
  <2>2. FencedMove(w, "preparing", "none", FALSE, "prepare")
    BY <1>1 DEF ToPreparing
  <2> QED
    BY <2>1, <2>2, FencedLands
<1>2. CASE Prepare(w)
  <2>1. /\ status \in {"preparing", "recovering", "planning", "cancelled"}
        /\ UNCHANGED <<status, core>>
        /\ pc'[w] = IF status \in {"preparing", "planning"} THEN "plan" ELSE "gate"
    BY <1>2 DEF Prepare, PlaceOK, Goto, ProcessOK
  <2> QED
    BY <2>1 DEF Written, Lands
<1>3. CASE PrepareFails(w)
  <2>1. status \in {"preparing", "recovering", "planning", "cancelled"} /\ pc[w] = "prepare"
    BY <1>3 DEF PrepareFails, PlaceOK
  <2>2. FencedMove(w, "environment_error", "none", FALSE, "exit")
    BY <1>3 DEF PrepareFails
  <2> QED
    BY <2>1, <2>2, FencedLands
<1>4. CASE SetupRaises(w)
  <2>1. pc'[w] = "exit" /\ status \in JobStatus /\ status' \in JobStatus
    BY <1>4 DEF SetupRaises, Goto, ProcessOK, RowOK, RowTypeOK, AdvanceTo, WriteStatus
  <2>2. pc[w] # "planned" => status \in {"preparing", "recovering", "planning", "cancelled"}
    BY <1>4 DEF SetupRaises, PlaceOK
  <2>3. \/ UNCHANGED rowVars
        \/ \E to \in {"failed", "needs_human"} :
              /\ status # to /\ LegalMove(status, to)
              /\ AdvanceTo(to, IF to = "failed" THEN "none" ELSE "paused", FALSE)
    BY <1>4 DEF SetupRaises
  <2>4. Written(w)
    <3>1. CASE UNCHANGED rowVars
      BY <3>1 DEF Written
    <3>2. ASSUME NEW to \in {"failed", "needs_human"},
                 status # to, LegalMove(status, to),
                 AdvanceTo(to, IF to = "failed" THEN "none" ELSE "paused", FALSE)
          PROVE  Written(w)
      <4> DEFINE reason == IF to = "failed" THEN "none" ELSE "paused"
      <4>1. status' = to /\ core' = Advance(core, to, reason, FALSE)
        BY <3>2 DEF AdvanceTo, WriteStatus
      <4>2. status \notin TerminalStatuses
        BY <3>2, WorkerTable
      <4>3. WorkerMove(status, to, reason)
        BY <3>2, <4>2
      <4>4. status \in RestStatus => pc[w] = "planned"
        BY <2>2
      <4> QED
        BY <4>1, <4>3, <4>4 DEF Written
    <3> QED
      BY <2>3, <3>1, <3>2
  <2> QED
    BY <2>1, <2>4 DEF Lands
<1> QED
  BY <1>1, <1>2, <1>3, <1>4

LEMMA PlanLands ==
    ASSUME JobOK, OwnerOK, PlaceOK, NEW w \in Workers,
           \/ ModelsUnset(w) \/ NoPlanning(w) \/ ToPlanning(w)
           \/ PlannerAnswers(w) \/ PlannerFails(w) \/ SavePlan(w)
           \/ ApplyContract(w) \/ AfterPlanning(w) \/ RequirePlan(w)
    PROVE  Written(w) /\ Lands(w)
<1> USE Expectations, AllSteps
    DEF WorkerMove, JobStatus, Reasons, RestStatus, FailureStatuses, TerminalStatuses
<1>0. status \in JobStatus
  BY DEF RowOK, RowTypeOK
<1>1. CASE ModelsUnset(w)
  BY <1>1, ParkLands DEF ModelsUnset, PlaceOK
<1>2. CASE NoPlanning(w)
  BY <1>2, QuietLands DEF NoPlanning, storeVars
<1>3. CASE ToPlanning(w)
  <2>1. CASE status = "planning"
    <3>1. Goto(w, "ask") /\ UNCHANGED rowVars
      BY <1>3, <2>1, FencedCases DEF ToPlanning, LegalMove, OwnerOK
    <3>2. pc'[w] = "ask"
      BY <3>1 DEF Goto, ProcessOK
    <3> QED
      BY <2>1, <3>1, <3>2 DEF Written, Lands
  <2>2. CASE status # "planning"
    <3>1. status \in {"preparing", "cancelled"} /\ pc[w] = "plan"
      BY <1>3, <2>2 DEF ToPlanning, PlaceOK
    <3>2. FencedMove(w, "planning", "none", FALSE, "ask")
      BY <1>3 DEF ToPlanning
    <3>3. status # "cancelled" /\ LegalMove(status, "planning") =>
              WorkerMove(status, "planning", "none")
      BY <3>1
    <3>4. /\ "planning" \in ExpectedStatus("ask")
          /\ "planning" \in JobStatus \ {"cancelled"}
          /\ "none" \in Reasons /\ "ask" \in WorkerSteps
          /\ status # "planning" /\ status \notin RestStatus
      BY <3>1
    <3> HIDE DEF WorkerMove, JobStatus, Reasons, RestStatus
    <3> QED
      BY <3>1, <3>2, <3>3, <3>4, FencedLands
  <2> QED
    BY <2>1, <2>2
<1>4. CASE PlannerAnswers(w) \/ SavePlan(w)
  BY <1>4, QuietLands DEF PlannerAnswers, SavePlan
<1>5. CASE PlannerFails(w)
  <2>1. status \in {"planning", "cancelled"} /\ pc[w] # "off"
    BY <1>5 DEF PlannerFails, PlaceOK
  <2>2. Park(w, "paused") \/ FencedMove(w, "failed", "none", TRUE, "exit")
    BY <1>5 DEF PlannerFails
  <2> QED
    BY <2>1, <2>2, ParkLands, FencedLands
<1>6. CASE ApplyContract(w)
  <2>1. CASE Goto(w, "planned") /\ UNCHANGED rowVars
    BY <1>6, <2>1, QuietLands DEF ApplyContract
  <2>2. ASSUME status = "planning", NEW reason \in {"plan_review", "paused"},
               Write(w, "needs_human", reason, FALSE, "planned")
        PROVE  Written(w) /\ Lands(w)
    <3>1. FencedMove(w, "needs_human", reason, FALSE, "planned") /\ pc[w] = "contract"
      BY <1>6, <2>2 DEF FencedMove, ApplyContract
    <3>2. LegalMove(status, "needs_human") => WorkerMove(status, "needs_human", reason)
      BY <2>2
    <3>3. /\ "needs_human" \in ExpectedStatus("planned")
          /\ "needs_human" \in JobStatus \ {"cancelled"}
          /\ reason \in Reasons /\ "planned" \in WorkerSteps
          /\ status # "needs_human" /\ status \notin RestStatus
      BY <2>2
    <3> HIDE DEF WorkerMove, JobStatus, Reasons, RestStatus
    <3> QED
      BY <3>1, <3>2, <3>3, FencedLands
  <2> QED
    BY <1>6, <2>1, <2>2 DEF ApplyContract
<1>7. CASE AfterPlanning(w)
  <2>1. CASE status # "planning"
    BY <1>7, <2>1, QuietLands DEF AfterPlanning
  <2>2. CASE status = "planning" /\ PlanMode = "gated"
    BY <1>7, <2>2, ParkLands DEF AfterPlanning
  <2>3. CASE status = "planning" /\ PlanMode # "gated"
    <3>1. pc'[w] = "gate" /\ UNCHANGED <<status, core>>
      BY <1>7, <2>3 DEF AfterPlanning, Goto, ProcessOK
    <3> QED
      BY <2>3, <3>1 DEF Written, Lands
  <2> QED
    BY <2>1, <2>2, <2>3
<1>8. CASE RequirePlan(w)
  <2>1. status \in {"preparing", "planning", "recovering", "cancelled"} /\ pc[w] = "gate"
    BY <1>8 DEF RequirePlan, PlaceOK
  <2>2. \/ Park(w, "plan_review") \/ Park(w, "paused")
        \/ Goto(w, "attempt") /\ UNCHANGED rowVars
    BY <1>8 DEF RequirePlan
  <2> QED
    BY <2>1, <2>2, ParkLands, QuietLands
<1> QED
  BY <1>1, <1>2, <1>3, <1>4, <1>5, <1>6, <1>7, <1>8

LEMMA AgentLands ==
    ASSUME JobOK, OwnerOK, OutcomeOK, PlaceOK, NEW w \in Workers,
           \/ NewAttempt(w) \/ ToRunning(w) \/ RunAgent(w) \/ AgentEnds(w)
           \/ FinishAttempt(w) \/ AgentRaises(w)
    PROVE  Written(w) /\ Lands(w)
<1> USE Expectations, AllSteps
    DEF WorkerMove, JobStatus, Reasons, RestStatus, FailureStatuses, TerminalStatuses
<1>1. CASE NewAttempt(w) \/ RunAgent(w)
  BY <1>1, QuietLands DEF NewAttempt, RunAgent
<1>2. CASE ToRunning(w)
  <2>1. status \in {"preparing", "planning", "recovering", "cancelled"} /\ pc[w] = "launch"
    BY <1>2 DEF ToRunning, PlaceOK
  <2>2. FencedMove(w, "running", "none", FALSE, "contain")
    BY <1>2 DEF ToRunning
  <2>3. status # "cancelled" /\ LegalMove(status, "running") =>
            WorkerMove(status, "running", "none")
    BY <2>1
  <2>4. /\ "running" \in ExpectedStatus("contain")
        /\ "running" \in JobStatus \ {"cancelled"}
        /\ "none" \in Reasons /\ "contain" \in WorkerSteps
        /\ status # "running" /\ status \notin RestStatus
    BY <2>1
  <2> HIDE DEF WorkerMove, JobStatus, Reasons, RestStatus
  <2> QED
    BY <2>1, <2>2, <2>3, <2>4, FencedLands
<1>3. CASE AgentEnds(w)
  <2>1. Goto(w, "finish") \/ Goto(w, "exit")
    BY <1>3 DEF AgentEnds
  <2> QED
    BY <1>3, <2>1, QuietLands DEF AgentEnds
<1>4. CASE FinishAttempt(w)
  <2>1. status \in {"running", "cancelled"} /\ Owns(w)
    BY <1>4 DEF FinishAttempt, PlaceOK, OwnerOK
  <2>2. result[w] \in Outcomes \cup {"cancelled"}
    BY <1>4 DEF FinishAttempt, OutcomeOK, ProcessOK, LocalsTypeOK
  <2>3. pc'[w] \in {"exit", "refused"}
    <3>1. Goto(w, "exit") \/ Goto(w, "refused")
      BY <1>4 DEF FinishAttempt
    <3> QED
      BY <3>1 DEF Goto, ProcessOK
  <2>4. \A r \in Outcomes : JobEnd(r) \in {"verifying", "needs_human",
                                "environment_error", "queued", "failed"}
    BY DEF JobEnd, Outcomes, Retried
  <2>5. \/ UNCHANGED <<status, core>>
        \/ /\ status = "running" /\ LegalMove(status, JobEnd(result[w]))
           /\ status' = JobEnd(result[w]) /\ result[w] \in Outcomes
           /\ core' = Advance(core, JobEnd(result[w]),
                              IF JobEnd(result[w]) = "needs_human" THEN "paused" ELSE "none",
                              FALSE)
    <3>1. \/ UNCHANGED <<status, core>>
          \/ /\ result[w] # "cancelled" /\ LegalMove(status, JobEnd(result[w]))
             /\ EndJob(JobEnd(result[w]), FALSE)
      BY <1>4, <2>1 DEF FinishAttempt
    <3>2. LegalMove(status, JobEnd(result[w])) /\ result[w] # "cancelled" => status = "running"
      BY <2>1, <2>2, <2>4, WorkerTable
    <3> QED
      BY <2>2, <3>1, <3>2 DEF EndJob, WriteStatus
  <2>6. Written(w)
    BY <2>4, <2>5 DEF Written
  <2>7. status' \in JobStatus
    BY <2>1, <2>4, <2>5
  <2> QED
    BY <2>3, <2>6, <2>7 DEF Lands
<1>5. CASE AgentRaises(w)
  <2>1. status \in {"running", "cancelled"} /\ Owns(w)
    BY <1>5 DEF AgentRaises, PlaceOK, OwnerOK
  <2>2. pc'[w] = "exit"
    BY <1>5 DEF AgentRaises, Goto, ProcessOK
  <2>3. \/ UNCHANGED <<status, core>>
        \/ /\ LegalMove(status, "failed") /\ status' = "failed"
           /\ \E missing \in BOOLEAN : core' = Advance(core, "failed", "none", missing)
    BY <1>5, <2>1 DEF AgentRaises, EndJob, WriteStatus
  <2>4. Written(w)
    BY <2>1, <2>3, WorkerTable DEF Written
  <2> QED
    BY <2>1, <2>2, <2>3, <2>4 DEF Lands
<1> QED
  BY <1>1, <1>2, <1>3, <1>4, <1>5

LEMMA ChecksLand ==
    ASSUME JobOK, OwnerOK, PlaceOK, NEW w \in Workers,
           VerifyPhase(w) \/ ReviewPhase(w) \/ PublishPhase(w)
    PROVE  Written(w) /\ Lands(w)
<1> USE Expectations, AllSteps
    DEF WorkerMove, JobStatus, Reasons, RestStatus, FailureStatuses, TerminalStatuses,
        VerifySteps, ReviewSteps, PublishSteps
<1>1. CASE VerifyEnds(w)
  <2>1. \E next \in {"exit", "noContract", "setFix", "toReview"} : Goto(w, next)
    BY <1>1 DEF VerifyEnds
  <2> QED
    BY <1>1, <2>1, QuietLands DEF VerifyEnds
<1>2. CASE VerifyRaises(w)
  <2>1. pc'[w] = "exit"
    BY <1>2 DEF VerifyRaises, Goto, ProcessOK
  <2>2. status \in {"verifying", "cancelled"}
    BY <1>2 DEF VerifyRaises, PlaceOK
  <2>3. \/ UNCHANGED rowVars
        \/ /\ status = "verifying"
           /\ \/ AdvanceTo("needs_human", "paused", FALSE)
              \/ \E missing \in BOOLEAN : AdvanceTo("failed", "none", missing)
    BY <1>2 DEF VerifyRaises
  <2>4. Written(w)
    BY <2>3 DEF Written, AdvanceTo, WriteStatus, LegalMove, StatusTransitions
  <2> QED
    BY <2>1, <2>2, <2>3, <2>4 DEF Lands, AdvanceTo, WriteStatus
<1>3. CASE NoContract(w)
  BY <1>3, ParkLands DEF NoContract, PlaceOK
<1>4. CASE ToReview(w) \/ Requeue(w)
  <2>1. status \in {"verifying", "cancelled"} /\ pc[w] # "off"
    BY <1>4 DEF ToReview, Requeue, PlaceOK
  <2>2. PICK to \in {"reviewing", "queued"} : FencedMove(w, to, "none", FALSE, "exit")
    BY <1>4 DEF ToReview, Requeue
  <2>3. status # "cancelled" /\ LegalMove(status, to) => WorkerMove(status, to, "none")
    BY <2>1
  <2>4. /\ to \in ExpectedStatus("exit") /\ to \in JobStatus \ {"cancelled"}
        /\ "none" \in Reasons /\ "exit" \in WorkerSteps
        /\ status # to /\ status \notin RestStatus
    BY <2>1
  <2> HIDE DEF WorkerMove, JobStatus, Reasons, RestStatus
  <2> QED
    BY <2>1, <2>2, <2>3, <2>4, FencedLands
<1>5. CASE SetFix(w)
  <2>1. pc'[w] = "noteFix" /\ UNCHANGED status /\ pc[w] = "setFix"
    BY <1>5 DEF SetFix, Goto, ProcessOK
  <2> QED
    BY <1>5, <2>1 DEF SetFix, SetFixAttempts, Written, Lands, PlaceOK
<1>6. CASE NoteFix(w) \/ NoReview(w)
  BY <1>6, QuietLands DEF NoteFix, NoReview, storeVars
<1>7. CASE ReviewEnds(w)
  <2>1. \E next \in {"exit", "verdict"} : Goto(w, next)
    BY <1>7 DEF ReviewEnds
  <2> QED
    BY <1>7, <2>1, QuietLands DEF ReviewEnds
<1>8. CASE ReviewFails(w)
  <2>1. status \in {"reviewing", "cancelled"} /\ pc[w] # "off"
    BY <1>8 DEF ReviewFails, PlaceOK
  <2>2. \/ Goto(w, "exit") /\ UNCHANGED rowVars
        \/ FencedMove(w, "failed", "none", TRUE, "exit") \/ Park(w, "paused")
    BY <1>8 DEF ReviewFails
  <2>3. Goto(w, "exit") /\ UNCHANGED rowVars => Written(w) /\ Lands(w)
    BY <1>8, QuietLands DEF ReviewFails
  <2> QED
    BY <2>1, <2>2, <2>3, ParkLands, FencedLands
<1>9. CASE Verdict(w)
  <2>1. CASE Park(w, "review_done") /\ status = "reviewing"
    BY <1>9, <2>1, ParkLands DEF Verdict
  <2>2. CASE Goto(w, "exit") /\ UNCHANGED rowVars
    BY <1>9, <2>2, QuietLands DEF Verdict
  <2> QED
    BY <1>9, <2>1, <2>2 DEF Verdict
<1>10. CASE PublishFails(w)
  BY <1>10, ParkLands DEF PublishFails
<1>11. CASE PublishEnds(w)
  <2>1. \E next \in {"exit", "announce", "recordPR"} : Goto(w, next)
    BY <1>11 DEF PublishEnds
  <2> QED
    BY <1>11, <2>1, QuietLands DEF PublishEnds, storeVars
<1>12. CASE RecordPR(w)
  BY <1>12, QuietLands DEF RecordPR
<1>13. CASE Announce(w)
  <2>1. status \in {"publishing", "cancelled"} /\ pc[w] # "off"
    BY <1>13 DEF Announce, PlaceOK
  <2>2. FencedMove(w, "ready_for_review", "none", FALSE, "exit")
    BY <1>13 DEF Announce
  <2>3. status # "cancelled" /\ LegalMove(status, "ready_for_review") =>
            WorkerMove(status, "ready_for_review", "none")
    BY <2>1
  <2>4. /\ "ready_for_review" \in ExpectedStatus("exit")
        /\ "ready_for_review" \in JobStatus \ {"cancelled"}
        /\ "none" \in Reasons /\ "exit" \in WorkerSteps
        /\ status # "ready_for_review" /\ status \notin RestStatus
    BY <2>1
  <2> HIDE DEF WorkerMove, JobStatus, Reasons, RestStatus
  <2> QED
    BY <2>1, <2>2, <2>3, <2>4, FencedLands
<1> QED
  BY <1>1, <1>2, <1>3, <1>4, <1>5, <1>6, <1>7, <1>8, <1>9, <1>10, <1>11, <1>12,
     <1>13 DEF VerifyPhase, ReviewPhase, PublishPhase

LEMMA WorkerLands ==
    ASSUME JobOK, OwnerOK, OutcomeOK, PlaceOK, NEW w \in Workers, WorkerStep(w)
    PROVE  Written(w) /\ Lands(w)
BY FrameLands, PrepareLands, PlanLands, AgentLands, ChecksLand
   DEF WorkerStep, ImplementPhase

-----------------------------------------------------------------------------
(* What a step may do to the pipeline state.                                  *)

\* The steps of a job whose present work has been reviewed.
Passed == {"review_done", "pushing", "pushed"}

\* No step but a review passes the work.  The count of fix rounds changes in a
\* fix round, and starts again when a gate is left.
CoreStep ==
    /\ EffectiveState(core') \in Passed =>
          \/ EffectiveState(core) \in Passed
          \/ core.state = "reviewing" /\ core'.state = "review_done"
    /\ EffectiveState(core) \in ResetsFixBudget =>
          core'.state # core.state \/ EffectiveState(core') \in ResetsFixBudget
    /\ \/ core'.fix = core.fix
       \/ core'.fix = 0 /\ EffectiveState(core) \in ResetsFixBudget
       \/ \E w \in Workers : /\ pc[w] = "setFix" /\ pc'[w] = "noteFix"
                             /\ core'.state = core.state
                             /\ core'.fix = seenFix[w] + 1
    /\ RowGates'

\* A status write that hides no gate and skips none.
Fits(to, reason) ==
    /\ to \in SchedulingStatuses /\ core.state = "failed" =>
          core.failedFrom \notin ResetsFixBudget
    /\ to = "needs_human" =>
          \/ reason = "paused" /\ OriginOf(core) \notin ResetsFixBudget
          \/ reason = "plan_review"
          \/ reason = "review_done" /\ core.state = "reviewing"
    /\ to \in FailureStatuses =>
          core.state # "failed" /\ OriginOf(core) \notin {"review_done", "pushed"}
    /\ to = "publishing" => EffectiveState(core) = "pushing"
    /\ to = "ready_for_review" => core.state = "pushing"
    /\ to # "conflicted"

\* The origin of a paused or failed job is its effective state.
LEMMA OriginIsEffective ==
    ASSUME RowOK
    PROVE  /\ OriginOf(core) = EffectiveState(core)
           /\ OriginOf(core) \in Steps \cup {"done", "cancelled"}
<1>1. Origins(core) /\ core \in CoreStates /\ core.state \in CoreStatesOf(status)
  BY DEF RowOK, RowTypeOK, Agrees
<1>2. OriginOf(core) = EffectiveState(core)
  BY <1>1 DEF Origins, OriginOf, EffectiveState
<1>3. CASE status \in TerminalStatuses
  BY <1>1, <1>2, <1>3
     DEF CoreStatesOf, TerminalStatuses, SchedulingStatuses, StageStatuses,
         StageStatusState, FailureStatuses, OriginOf
<1>4. CASE status \notin TerminalStatuses
  BY <1>2, <1>4, OriginIsStep DEF RowOK, RowTypeOK
<1> QED
  BY <1>3, <1>4

\* A job that is not scheduled, paused or failed has its own step.
LEMMA AtEffective ==
    ASSUME NEW s, NEW n, s \notin {"needs_input", "failed"}
    PROVE  /\ EffectiveState(At(s, n)) = s /\ At(s, n).state = s
           /\ At(s, n).fix = n
           /\ At(s, n).pausedFrom = NoState /\ At(s, n).failedFrom = NoState
BY DEF At, Core, EffectiveState

LEMMA AdvanceSteps ==
    ASSUME RowOK, RowGates, NEW to \in JobStatus, NEW reason \in Reasons,
           NEW missing \in BOOLEAN, Fits(to, reason),
           status' = to, core' = Advance(core, to, reason, missing)
    PROVE  CoreStep
<1> DEFINE prior == EffectiveState(core)
<1>0. /\ OriginOf(core) = prior /\ prior \in Steps \cup {"done", "cancelled"}
      /\ core \in CoreStates /\ Origins(core)
  BY OriginIsEffective DEF RowOK, RowTypeOK, Agrees
<1>1. prior # core.state => core.state \in {"needs_input", "failed"}
  BY DEF EffectiveState
<1>2. NoState \notin ResetsFixBudget /\ NoState \notin Passed
  BY DEF NoState, ResetsFixBudget, Passed
<1>3. CASE to \in StageStatuses
  <2>1. core' = At(StageStatusState(to), core.fix)
    BY <1>3 DEF Advance, StageStatuses, SchedulingStatuses, FailureStatuses
  <2>2. StageStatusState(to) \notin {"needs_input", "failed"}
    BY <1>3 DEF StageStatusState, StageStatuses
  <2>3. /\ EffectiveState(core') = StageStatusState(to)
        /\ core'.state = StageStatusState(to) /\ core'.fix = core.fix
        /\ core'.pausedFrom = NoState /\ core'.failedFrom = NoState
    BY <2>1, <2>2, AtEffective
  <2>4. StageStatusState(to) \in Passed => prior \in Passed
    BY <1>1, <1>3 DEF Fits, StageStatusState, StageStatuses, Passed
  <2>5. prior \in ResetsFixBudget /\ core'.state = core.state => EffectiveState(core') \in ResetsFixBudget
    BY <1>1, <2>2, <2>3
  <2>6. to \notin SchedulingStatuses
    BY <1>3 DEF StageStatuses, SchedulingStatuses
  <2> QED
    BY <1>2, <2>3, <2>4, <2>5, <2>6 DEF CoreStep, RowGates, NoState
<1>4. CASE to \in SchedulingStatuses
  <2>1. core' = Rescheduled(core, to)
    BY <1>4 DEF Advance, SchedulingStatuses, StageStatuses, FailureStatuses
  <2>2. CASE core.state \in {"needs_input", "failed"}
    <3>1. prior \notin ResetsFixBudget
      BY <1>0, <1>4, <2>2 DEF Fits, RowGates, EffectiveState, Origins
    <3>2. core' = At(prior, core.fix)
      BY <1>0, <2>1, <2>2, <3>1 DEF Rescheduled
    <3>3. prior \notin {"needs_input", "failed"}
      BY <1>0 DEF Steps
    <3> QED
      BY <1>2, <3>1, <3>2, <3>3, AtEffective DEF CoreStep, RowGates, NoState
  <2>3. CASE core.state \notin {"needs_input", "failed"}
    <3> DEFINE land == Landing(core.state, to)
               count == IF core.state \in ResetsFixBudget THEN 0 ELSE core.fix
    <3>1. core' = At(land, count)
      BY <2>1, <2>3 DEF Rescheduled
    <3>2. land \in {"implementing", "provisioning"}
      BY DEF Landing
    <3>3. /\ EffectiveState(core') = land /\ core'.state = land /\ core'.fix = count
          /\ core'.pausedFrom = NoState /\ core'.failedFrom = NoState
      BY <3>1, <3>2, AtEffective
    <3>4. prior = core.state
      BY <1>1, <2>3
    <3>5. land \notin ResetsFixBudget /\ land \notin Passed
      BY <3>2 DEF ResetsFixBudget, Passed
    <3> HIDE DEF land
    <3> QED
      BY <1>2, <3>3, <3>4, <3>5 DEF CoreStep, RowGates, NoState
  <2> QED
    BY <2>2, <2>3
<1>5. CASE to = "needs_human"
  <2>1. CASE reason \in GateReasons
    <3>1. core' = At(GateState(reason), core.fix) /\ reason \in {"plan_review", "review_done"}
      BY <1>5, <2>1 DEF Advance, SchedulingStatuses, StageStatuses, FailureStatuses, GateReasons, Fits
    <3>2. GateState(reason) = reason
      BY <3>1 DEF GateState
    <3>3. /\ EffectiveState(core') = reason /\ core'.state = reason /\ core'.fix = core.fix
          /\ core'.pausedFrom = NoState /\ core'.failedFrom = NoState
      BY <3>1, <3>2, AtEffective
    <3>4. reason = "review_done" => core.state = "reviewing"
      BY <1>5 DEF Fits
    <3> QED
      BY <1>2, <1>5, <3>1, <3>3, <3>4
         DEF CoreStep, RowGates, Passed, ResetsFixBudget, SchedulingStatuses, NoState
  <2>2. CASE reason \notin GateReasons
    <3>1. core' = Core("needs_input", prior, NoState, core.fix)
      BY <1>0, <1>5, <2>2
         DEF Advance, SchedulingStatuses, StageStatuses, FailureStatuses
    <3>2. prior \notin ResetsFixBudget
      BY <1>0, <1>5, <2>2 DEF Fits, GateReasons
    <3>3. prior # NoState
      BY <1>0 DEF Steps, NoState, JobState
    <3> QED
      BY <1>2, <1>5, <3>1, <3>2, <3>3
         DEF CoreStep, RowGates, SchedulingStatuses, Core, EffectiveState, NoState
  <2> QED
    BY <2>1, <2>2
<1>6. CASE to \in FailureStatuses
  <2>1. PICK from \in {prior, "provisioning"} : core' = Core("failed", NoState, from, core.fix)
    BY <1>0, <1>6 DEF Advance, SchedulingStatuses, StageStatuses, FailureStatuses
  <2>2. from # NoState
    BY <1>0 DEF Steps, NoState, JobState
  <2>3. EffectiveState(core') = from
    BY <2>1, <2>2 DEF Core, EffectiveState
  <2>4. from \notin {"review_done", "pushed"} /\ core.state # "failed"
    BY <1>0, <1>6 DEF Fits
  <2>5. core'.state = "failed" /\ core'.fix = core.fix /\ core'.pausedFrom = NoState
        /\ core'.failedFrom = from
    BY <2>1 DEF Core
  <2> QED
    BY <1>2, <1>6, <2>3, <2>4, <2>5
       DEF CoreStep, RowGates, SchedulingStatuses, FailureStatuses, Passed, NoState
<1> QED
  BY <1>3, <1>4, <1>5, <1>6
     DEF JobStatus, StageStatuses, SchedulingStatuses, FailureStatuses, Fits

LEMMA SameCore ==
    ASSUME RowGates, UNCHANGED <<status, core>>
    PROVE  CoreStep
BY DEF CoreStep, RowGates

\* Whatever a worker writes fits, if the plan step finds no later gate.
LEMMA WorkerFits ==
    ASSUME RowOK, RowGates, NEW to \in JobStatus, NEW reason \in Reasons,
           WorkerMove(status, to, reason),
           status \in RestStatus => core.state \notin {"review_done", "pushed"}
    PROVE  Fits(to, reason)
<1>1. /\ status \in JobStatus /\ core \in CoreStates
      /\ core.state \in CoreStatesOf(status) /\ Origins(core)
  BY DEF RowOK, RowTypeOK, Agrees
<1>2. status \in FailureStatuses => to \notin FailureStatuses /\ to # "needs_human"
  BY DEF WorkerMove, LegalMove, StatusTransitions, FailureStatuses, RetryTargets
<1>3. core.state = "failed" => status \in FailureStatuses
  BY <1>1 DEF CoreStatesOf, JobStatus, SchedulingStatuses, StageStatuses,
              StageStatusState, WAITING, FailureStatuses, Steps
<1>4. OriginOf(core) = EffectiveState(core)
  BY OriginIsEffective
<1>5. core.state = "needs_input" => EffectiveState(core) \notin ResetsFixBudget
  BY <1>1 DEF RowGates, EffectiveState, Origins
<1>6. core.state \notin {"needs_input", "failed"} => EffectiveState(core) = core.state
  BY DEF EffectiveState
<1>7. to = "needs_human" => status # "needs_human" /\ status \notin TerminalStatuses
  BY DEF WorkerMove
<1>8. to = "needs_human" /\ core.state \notin {"needs_input", "failed"} =>
          core.state \notin ResetsFixBudget
  BY <1>1, <1>7
     DEF CoreStatesOf, JobStatus, SchedulingStatuses, StageStatuses, RestStatus,
         StageStatusState, WAITING, FailureStatuses, RowGates, ResetsFixBudget, TerminalStatuses
<1>9. /\ status = "publishing" => core.state = "pushing"
      /\ status = "reviewing" => core.state = "reviewing"
      /\ status \in {"queued", "preparing", "recovering", "running", "verifying"} => core.state # "failed"
  BY <1>1 DEF CoreStatesOf, StageStatuses, StageStatusState, SchedulingStatuses,
              FailureStatuses, Steps
<1>10. to \in FailureStatuses => EffectiveState(core) \notin {"review_done", "pushed"}
  <2>1. core.state \notin {"review_done", "pushed"} \/ status = "ready_for_review" \/ status = "needs_human" \/ status \in SchedulingStatuses \/ status \in TerminalStatuses
    BY <1>1 DEF CoreStatesOf, StageStatuses, StageStatusState, SchedulingStatuses, Steps,
                JobStatus, TerminalStatuses, FailureStatuses
  <2> QED
    BY <1>2, <1>3, <1>5, <1>6, <2>1
       DEF RestStatus, RowGates, ResetsFixBudget, WorkerMove
<1> QED
  BY <1>2, <1>3, <1>4, <1>5, <1>6, <1>8, <1>9, <1>10
     DEF Fits, WorkerMove, FailureStatuses, SchedulingStatuses

-----------------------------------------------------------------------------
(* The steady job: who may move it, and when.                                 *)

\* A command that is not dispatched, leaves the status alone or cancels.
Harmless == cmd.step \in {"none", "raise"} \/ cmd.to = "cancelled"

\* Any other command waits where only a human takes the job on.
CommandRests == ~Harmless => status \in RestStatus

\* A recovery whose version is current has read the job as it is, unowned.
FreshOK ==
    /\ \A c \in Controllers :
          c \in fresh /\ cstep[c] \in {"decide", "close", "write", "park"} =>
              cstatus[c] = status /\ worker = NoWorker
    /\ \A c \in Controllers :
          /\ cstep[c] \in {"close", "write"} => cstatus[c] \in {"preparing", "running"}
          /\ cstep[c] = "park" => cstatus[c] \in StageRetryStatuses

\* What is true of the pipeline state while a command is carried out.
CommandGates ==
    /\ cmd.step = "retry" =>
          cmd.to = "queued" /\ core.state = "failed" /\ core.failedFrom \notin ResetsFixBudget
    /\ cmd.step = "resume" => cmd.to = "queued"
    /\ cmd.step = "move" =>
          cmd.to \in {"planning", "verifying", "reviewing", "publishing", "cancelled"}
    /\ cmd.step = "move" /\ cmd.to = "publishing" => EffectiveState(core) = "pushing"
    /\ cmd.step = "resetFix" => core.state \in {"review_done", "pushed"}
    /\ cmd.step \in {"approve", "reject", "core"} => cmd.to \notin {"review_done", "pushed"}

SteadyOK ==
    /\ PlaceOK /\ CommandRests /\ FreshOK /\ RowGates /\ PlannedGate /\ CommandGates
    /\ poll = "none"

LEMMA FencedNext ==
    ASSUME JobOK, NEW w \in Workers, NEW to, NEW reason, NEW missing, NEW next,
           FencedMove(w, to, reason, missing, next)
    PROVE  pc'[w] = next \/ pc'[w] = "refused" \/ pc'[w] = "exit"
BY DEF ProcessOK, Goto, FencedMove, AlreadyThere, Refuse, LoseOut, Write

\* Only the plan stage, or its contract, leaves a worker at "planned".
LEMMA PlannedFrom ==
    ASSUME JobOK, NEW w \in Workers, WorkerStep(w), pc'[w] = "planned"
    PROVE  pc[w] \in {"planning", "contract"}
<1> USE DEF ProcessOK, Goto, Park
<1>2. CASE Boot(w) \/ AskModel(w) \/ Refused(w) \/ Exit(w)
  BY <1>2 DEF Boot, FirstStep, PhaseKnown, Phases, AskModel, Refused, Exit, Forget
<1>3. CASE ImplementPhase(w)
  <2>1. CASE ToPreparing(w) \/ Prepare(w) \/ PrepareFails(w)
    BY FencedNext, <2>1 DEF ToPreparing, Prepare, PrepareFails
  <2>2. CASE ModelsUnset(w) \/ NoPlanning(w) \/ ToPlanning(w)
    BY FencedNext, <2>2 DEF ModelsUnset, NoPlanning, ToPlanning
  <2>3. CASE PlannerAnswers(w) \/ PlannerFails(w) \/ SavePlan(w)
    BY FencedNext, <2>3 DEF PlannerAnswers, PlannerFails, SavePlan
  <2>4. CASE ApplyContract(w) \/ AfterPlanning(w) \/ RequirePlan(w)
    BY FencedNext, <2>4 DEF ApplyContract, AfterPlanning, RequirePlan
  <2>5. CASE NewAttempt(w) \/ ToRunning(w) \/ RunAgent(w) \/ AgentEnds(w)
    BY FencedNext, <2>5 DEF NewAttempt, ToRunning, RunAgent, AgentEnds
  <2>6. CASE FinishAttempt(w) \/ AgentRaises(w) \/ SetupRaises(w)
    BY <2>6 DEF FinishAttempt, AgentRaises, SetupRaises
  <2> QED
    BY <1>3, <2>1, <2>2, <2>3, <2>4, <2>5, <2>6 DEF ImplementPhase
<1>4. CASE VerifyPhase(w)
  BY FencedNext, <1>4 DEF VerifyPhase, VerifyEnds, VerifyRaises, NoContract, ToReview,
                    SetFix, NoteFix, Requeue
<1>5. CASE ReviewPhase(w) \/ PublishPhase(w)
  BY FencedNext, <1>5 DEF ReviewPhase, NoReview, ReviewEnds, ReviewFails, Verdict,
                    PublishPhase, PublishFails, PublishEnds, RecordPR, Announce
<1> QED
  BY <1>2, <1>3, <1>4, <1>5 DEF WorkerStep

\* What a worker makes of a job that rests: nothing, or a plan step's failure.
LEMMA WorkerAtRest ==
    ASSUME RowOK, PlaceOK, NEW w \in Workers, Written(w), pc[w] # "off",
           status \in RestStatus
    PROVE  /\ status' \in RestStatus
           /\ EffectiveState(core') = EffectiveState(core)
           /\ core' = core \/ (pc[w] = "planned" /\ status \notin FailureStatuses)
<1>1. CASE UNCHANGED <<status, core>>
  <2>1. status' = status /\ core' = core
    BY <1>1
  <2> QED
    BY <2>1
<1>2. pc[w] # "setFix"
  <2>1. "setFix" \in VerifySteps
    BY DEF VerifySteps
  <2> QED
    BY <2>1, Expectations DEF PlaceOK, RestStatus, FailureStatuses
<1>3. ASSUME NEW to \in JobStatus, NEW reason \in Reasons,
             status' = to, core' = Advance(core, to, reason, FALSE),
             WorkerMove(status, to, reason), pc[w] = "planned"
      PROVE  /\ status' \in RestStatus
             /\ EffectiveState(core') = EffectiveState(core)
             /\ status \notin FailureStatuses
  <2>1. /\ status \notin FailureStatuses
        /\ \/ to = "needs_human" /\ reason = "paused"
           \/ to \in FailureStatuses
    BY <1>3 DEF WorkerMove, RestStatus, LegalMove, StatusTransitions, FailureStatuses,
                RetryTargets
  <2>2. OriginOf(core) = EffectiveState(core) /\ OriginOf(core) # NoState
    BY OriginIsEffective DEF Steps, NoState, JobState
  <2>3. \/ core' = Core("needs_input", OriginOf(core), NoState, core.fix)
        \/ core' = Core("failed", NoState, OriginOf(core), core.fix)
    BY <1>3, <2>1
       DEF Advance, StageStatuses, SchedulingStatuses, GateReasons, FailureStatuses
  <2>4. EffectiveState(core') = EffectiveState(core)
    BY <2>2, <2>3 DEF Core, EffectiveState
  <2> QED
    BY <1>3, <2>1, <2>4 DEF RestStatus
<1> QED
  BY <1>1, <1>2, <1>3 DEF Written

LEMMA WorkerSteady ==
    ASSUME JobOK, OwnerOK, OutcomeOK, SteadyOK, NEW w \in Workers, WorkerStep(w),
           UNCHANGED <<controllerVars, commandVars>>
    PROVE  SteadyOK' /\ CoreStep
<1> USE DEF SteadyOK
<1>1. Written(w) /\ Lands(w)
  BY WorkerLands
<1>2. /\ pc[w] # "off" /\ fresh' \subseteq fresh
      /\ \A u \in Workers : u # w => pc'[u] = pc[u]
  <2>1. CASE StaysOwner(w)
    BY <2>1 DEF StaysOwner, Goto, ProcessOK
  <2>2. CASE Exit(w)
    BY <2>2 DEF Exit, ReleaseLease, Forget, Goto, ProcessOK
  <2> QED
    BY <2>1, <2>2, WorkerStays
<1>3. /\ worker = w /\ worker # NoWorker
      /\ \A u \in Workers : u # w => pc'[u] = "off"
  BY <1>2, NoWorkerAssumption DEF OwnerOK, Owns
<1>4. status \in RestStatus => pc[w] = "planned" \/ core' = core
  BY <1>1, <1>2, WorkerAtRest
<1>5. CoreStep
  <2>1. CASE UNCHANGED <<status, core>>
    BY <2>1, SameCore
  <2>2. CASE /\ pc[w] = "setFix" /\ pc'[w] = "noteFix" /\ UNCHANGED status
             /\ core' = [core EXCEPT !.fix = seenFix[w] + 1]
    BY <2>2 DEF CoreStep, RowGates, EffectiveState, RowOK, RowTypeOK, CoreStates
  <2>3. ASSUME NEW to \in JobStatus, NEW reason \in Reasons, NEW missing \in BOOLEAN,
               status' = to, core' = Advance(core, to, reason, missing),
               WorkerMove(status, to, reason),
               status \in RestStatus => pc[w] = "planned"
        PROVE  CoreStep
    <3>1. Fits(to, reason)
      BY <2>3, WorkerFits DEF PlannedGate
    <3> QED
      BY <2>3, <3>1, AdvanceSteps
  <2> QED
    BY <1>1, <2>1, <2>2, <2>3 DEF Written
<1>6. PlaceOK'
  BY <1>1, <1>3 DEF PlaceOK, Lands
<1>7. CommandRests'
  BY <1>1, <1>2, WorkerAtRest DEF CommandRests, Harmless
<1>8. FreshOK'
  BY <1>2, <1>3 DEF FreshOK
<1>9. PlannedGate'
  <2>1. pc'[w] = "planned" => core.state \notin Passed \cup {"reviewing", "needs_input", "failed"}
    <3>1. pc'[w] = "planned" => status \in {"planning", "cancelled"}
      BY PlannedFrom, Expectations DEF PlaceOK
    <3> QED
      BY <3>1 DEF RowOK, Agrees, CoreStatesOf, StageStatuses, SchedulingStatuses,
                  StageStatusState, FailureStatuses, Passed
  <2>2. pc'[w] = "planned" => EffectiveState(core) \notin Passed /\ core.state # "reviewing"
    BY <2>1 DEF EffectiveState
  <2>3. core'.state \in {"review_done", "pushed"} => EffectiveState(core') \in Passed
    BY DEF EffectiveState, Passed
  <2> QED
    BY <1>3, <1>5, <2>2, <2>3 DEF PlannedGate, CoreStep
<1>10. CommandGates'
  <2>1. ~Harmless => status \in RestStatus
    BY DEF CommandRests
  <2>2. cmd.step = "retry" \/ cmd.step = "resetFix" => core' = core
    <3>1. CASE cmd.step = "retry"
      <4>1. status \in RestStatus /\ core.state = "failed"
        BY <2>1, <3>1 DEF CommandGates, Harmless
      <4>2. status \in FailureStatuses
        BY <4>1 DEF RowOK, Agrees, CoreStatesOf, RestStatus, FailureStatuses, WAITING,
                    StageStatuses, StageStatusState, SchedulingStatuses
      <4> QED
        BY <1>1, <1>2, <4>1, <4>2, WorkerAtRest
    <3>2. CASE cmd.step = "resetFix"
      <4>1. core.state \in {"review_done", "pushed"} /\ pc[w] # "planned"
        BY <3>2 DEF CommandGates, PlannedGate
      <4>2. status \in RestStatus \cup TerminalStatuses \cup SchedulingStatuses
        BY <4>1 DEF RowOK, RowTypeOK, Agrees, CoreStatesOf, RestStatus, JobStatus,
                    FailureStatuses, StageStatuses, StageStatusState, SchedulingStatuses,
                    TerminalStatuses
      <4>3. status \notin TerminalStatuses /\ status \notin SchedulingStatuses
        BY <4>1 DEF RowOK, Agrees, CoreStatesOf, TerminalStatuses, FailureStatuses,
                    StageStatuses, StageStatusState, SchedulingStatuses, RowGates, ResetsFixBudget
      <4> QED
        BY <1>4, <4>1, <4>2, <4>3
    <3> QED
      BY <3>1, <3>2
  <2>3. cmd.step = "move" /\ cmd.to = "publishing" => EffectiveState(core') = EffectiveState(core)
    BY <1>1, <1>2, <2>1, WorkerAtRest DEF Harmless
  <2> QED
    BY <2>2, <2>3 DEF CommandGates
<1> QED
  BY <1>5, <1>6, <1>7, <1>8, <1>9, <1>10 DEF CoreStep

\* What the steps of a controller do to the job's row and to its process table.
LEMMA ControllerRow ==
    ASSUME JobOK, ControllerOK, OwnerOK, NEW c \in Controllers,
           ControllerStep(c) \/ Restart(c)
    PROVE  /\ \/ UNCHANGED <<status, core>>
              \/ /\ c \in fresh /\ cstep[c] \in {"write", "park"}
                 /\ \E to \in {"planning", "recovering", "needs_human"} :
                       /\ cstep[c] = "write" => to # "needs_human"
                       /\ cstep[c] = "park" => to = "needs_human"
                       /\ status' = to
                       /\ core' = Advance(core, to,
                                          IF to = "needs_human" THEN "paused" ELSE "none",
                                          FALSE)
           /\ \A w \in Workers : pc'[w] \in {pc[w], "off", "boot"}
           /\ \A d \in Controllers : d # c => cstep'[d] = cstep[d] /\ cstatus'[d] = cstatus[d]
<1> USE DEF Continue, EndRecovery, EndSpawn, ControllerOK, ControllerTypeOK, ProcessOK
<1>1. CASE \/ Claim(c) \/ ReapContainers(c) \/ RecoverRead(c) \/ Interrupted(c)
           \/ CloseOrphanedAttempt(c)
  BY <1>1 DEF Claim, ReapContainers, RecoverRead, Interrupted, CloseOrphanedAttempt,
              storeVars, workerVars
<1>2. CASE RetryStage(c) \/ StageCrashedTooOften(c) \/ Schedule(c) \/ PopenFails(c)
           \/ ReapProcess(c) \/ Restart(c)
  BY <1>2 DEF RetryStage, StageCrashedTooOften, Schedule, PopenFails, ReapProcess,
              Restart, storeVars, workerVars
<1>3. CASE Acquire(c)
  <2>1. UNCHANGED <<status, core, pc, cstatus>>
    BY <1>3 DEF Acquire, workerVars
  <2>2. Continue(c, "popen") \/ Continue(c, "idle")
    BY <1>3 DEF Acquire
  <2> QED
    BY <2>1, <2>2
<1>4. CASE Popen(c)
  <2>1. UNCHANGED <<status, core, cstatus>> /\ cworker[c] \in Workers
        /\ pc' = [pc EXCEPT ![cworker[c]] = "boot"] /\ Continue(c, "idle")
    BY <1>4 DEF Popen, storeVars, OwnerOK
  <2> QED
    BY <2>1
<1>5. CASE TerminateCancelled(c)
  <2>1. /\ UNCHANGED <<status, core, cstep, cstatus>>
        /\ pc' = [pc EXCEPT ![active[c]] = "off"]
    BY <1>5 DEF TerminateCancelled, Dies, Forget, Goto
  <2> QED
    BY <2>1
<1>6. CASE WriteRecovery(c)
  <2>1. UNCHANGED pc /\ cstep[c] = "write" /\ EndRecovery(c)
    BY <1>6 DEF WriteRecovery, workerVars
  <2>2. \/ UNCHANGED <<status, core>>
        \/ c \in fresh /\ \E to \in {"planning", "recovering"} :
              status' = to /\ core' = Advance(core, to, "none", FALSE)
    BY <1>6 DEF WriteRecovery, VersionedMove, AdvanceTo, WriteStatus
  <2> QED
    BY <2>1, <2>2
<1>7. CASE ParkCrashed(c)
  <2>1. UNCHANGED pc /\ cstep[c] = "park" /\ EndRecovery(c)
    BY <1>7 DEF ParkCrashed, workerVars
  <2>2. \/ UNCHANGED <<status, core>>
        \/ /\ c \in fresh /\ status' = "needs_human"
           /\ core' = Advance(core, "needs_human", "paused", FALSE)
    BY <1>7 DEF ParkCrashed, VersionedMove, AdvanceTo, WriteStatus
  <2> QED
    BY <2>1, <2>2
<1> QED
  BY <1>1, <1>2, <1>3, <1>4, <1>5, <1>6, <1>7 DEF ControllerStep, Recovery, Scheduling

\* Reading, waiting and writing with a version that is current.
LEMMA ControllerFresh ==
    ASSUME JobOK, ControllerOK, OwnerOK, FreshOK, NEW c \in Controllers,
           ControllerStep(c) \/ Restart(c)
    PROVE  FreshOK'
<1> USE DEF FreshOK, Continue, EndRecovery, EndSpawn, ControllerOK, ControllerTypeOK
<1>1. CASE Claim(c)
  BY <1>1 DEF Claim, ClaimExpiredLease
<1>2. CASE RecoverRead(c)
  <2>1. CASE worker = NoWorker /\ status \in {"preparing", "running"} \cup StageRetryStatuses
    <3>1. /\ cstatus' = [cstatus EXCEPT ![c] = status] /\ fresh' = fresh \cup {c}
          /\ cstep' = [cstep EXCEPT ![c] = "decide"]
          /\ UNCHANGED <<status, worker>>
      BY <1>2, <2>1 DEF RecoverRead
    <3> QED
      BY <2>1, <3>1
  <2>2. CASE ~(worker = NoWorker /\ status \in {"preparing", "running"} \cup StageRetryStatuses)
    <3>1. /\ cstep' = [cstep EXCEPT ![c] = "idle"]
          /\ UNCHANGED <<status, worker, cstatus, fresh>>
      BY <1>2, <2>2 DEF RecoverRead
    <3> QED
      BY <3>1
  <2> QED
    BY <2>1, <2>2
<1>3. CASE ReapContainers(c) \/ Interrupted(c) \/ CloseOrphanedAttempt(c)
           \/ StageCrashedTooOften(c) \/ Schedule(c)
  <2>1. /\ UNCHANGED <<status, worker, fresh, cstatus>>
        /\ \E step \in {"read", "close", "write", "park", "acquire"} :
              /\ Continue(c, step)
              /\ step = "close" => cstep[c] = "decide" /\ cstatus[c] \in {"preparing", "running"}
              /\ step = "write" => cstep[c] = "close"
              /\ step = "park" => cstep[c] = "decide" /\ cstatus[c] \in StageRetryStatuses
    BY <1>3 DEF ReapContainers, Interrupted, CloseOrphanedAttempt, StageCrashedTooOften,
                Schedule, storeVars
  <2> QED
    BY <2>1
<1>4. CASE WriteRecovery(c) \/ ParkCrashed(c) \/ RetryStage(c) \/ Restart(c)
  <2>1. /\ cstep' = [cstep EXCEPT ![c] = "idle"] /\ cstatus' = [cstatus EXCEPT ![c] = "none"]
        /\ UNCHANGED worker
        /\ fresh' \subseteq fresh /\ (UNCHANGED status \/ fresh' = {})
    BY <1>4 DEF WriteRecovery, ParkCrashed, RetryStage, Restart, VersionedMove, AdvanceTo,
                WriteStatus
  <2> QED
    BY <2>1
<1>5. CASE Acquire(c)
  <2>1. /\ UNCHANGED <<status, cstatus>>
        /\ Continue(c, "popen") \/ Continue(c, "idle")
        /\ fresh' = {} \/ UNCHANGED <<fresh, worker>>
    BY <1>5 DEF Acquire, AcquireLease
  <2> QED
    BY <2>1
<1>6. CASE Popen(c) \/ PopenFails(c)
  <2>1. /\ UNCHANGED <<status, cstatus>> /\ Continue(c, "idle")
        /\ fresh' = {} \/ UNCHANGED <<fresh, worker>>
    BY <1>6 DEF Popen, PopenFails, ReleaseLease, storeVars
  <2> QED
    BY <2>1
<1>7. CASE ReapProcess(c) \/ TerminateCancelled(c)
  <2>1. /\ UNCHANGED <<status, cstep, cstatus>>
        /\ fresh' = {} \/ UNCHANGED <<fresh, worker>>
    BY <1>7 DEF ReapProcess, TerminateCancelled, Dies, ReleaseLease
  <2> QED
    BY <2>1
<1> QED
  BY <1>1, <1>2, <1>3, <1>4, <1>5, <1>6, <1>7 DEF ControllerStep, Recovery, Scheduling

LEMMA ControllerSteady ==
    ASSUME JobOK, ControllerOK, CommandOK, OwnerOK, SteadyOK, NEW c \in Controllers,
           ControllerStep(c) \/ Restart(c), UNCHANGED commandVars
    PROVE  SteadyOK' /\ CoreStep
<1> USE DEF SteadyOK
<1>1. \A w \in Workers : pc'[w] \in {pc[w], "off", "boot"}
  BY ControllerRow
<1>2. FreshOK'
  BY ControllerFresh
<1>3. CASE UNCHANGED <<status, core>>
  <2>1. PlaceOK'
    BY <1>1, <1>3, Expectations DEF PlaceOK, RowOK, RowTypeOK
  <2>2. CoreStep
    BY <1>3, SameCore
  <2>3. PlannedGate' /\ CommandRests'
    BY <1>1, <1>3 DEF PlannedGate, CommandRests, Harmless
  <2>4. CommandGates'
    <3>1. EffectiveState(core)' = EffectiveState(core)
      BY <1>3 DEF EffectiveState
    <3> QED
      BY <1>3, <3>1 DEF CommandGates
  <2> QED
    BY <1>2, <2>1, <2>2, <2>3, <2>4 DEF CoreStep
<1>4. ASSUME NEW to \in {"planning", "recovering", "needs_human"},
             c \in fresh, cstep[c] \in {"write", "park"},
             cstep[c] = "write" => to # "needs_human",
             cstep[c] = "park" => to = "needs_human",
             status' = to,
             core' = Advance(core, to, IF to = "needs_human" THEN "paused" ELSE "none", FALSE)
      PROVE  SteadyOK' /\ CoreStep
  <2>1. /\ worker = NoWorker
        /\ \A w \in Workers : pc[w] = "off"
    BY <1>4, NoWorkerAssumption DEF FreshOK, OwnerOK, Owns
  <2>2. /\ cstep[c] = "write" => status \in {"preparing", "running"}
        /\ cstep[c] = "park" => status \in StageRetryStatuses
    BY <1>4 DEF FreshOK
  <2>3. Harmless
    BY <1>4, <2>2 DEF CommandRests, RestStatus, FailureStatuses, StageRetryStatuses
  <2>4. CoreStep
    <3> DEFINE reason == IF to = "needs_human" THEN "paused" ELSE "none"
    <3>1. core.state \in CoreStatesOf(status) /\ Origins(core)
      BY DEF RowOK, Agrees
    <3>2. core.state \notin {"failed", "needs_input"}
      BY <1>4, <2>2, <3>1
         DEF StageRetryStatuses, CoreStatesOf, SchedulingStatuses, StageStatuses,
             StageStatusState, FailureStatuses, Steps
    <3>3. to = "needs_human" => core.state \notin ResetsFixBudget
      BY <1>4, <2>2, <3>1
         DEF StageRetryStatuses, CoreStatesOf, SchedulingStatuses, StageStatuses,
             StageStatusState, FailureStatuses, ResetsFixBudget
    <3>4. Fits(to, reason)
      BY <3>2, <3>3 DEF Fits, OriginOf, FailureStatuses
    <3>5. to \in JobStatus /\ reason \in Reasons
      BY DEF JobStatus, Reasons
    <3> QED
      BY <1>4, <3>4, <3>5, AdvanceSteps
  <2>5. PlaceOK' /\ PlannedGate'
    BY <1>1, <1>4, <2>1, Expectations DEF PlaceOK, PlannedGate, JobStatus
  <2>6. CommandRests' /\ CommandGates'
    BY <2>3 DEF CommandRests, Harmless, CommandGates, CommandOK, CommandKnown
  <2> QED
    BY <1>2, <2>4, <2>5, <2>6 DEF CoreStep
<1> QED
  BY <1>3, <1>4, ControllerRow

\* A job at a gate, paused or failed rests.
LEMMA GateRests ==
    ASSUME RowOK, RowGates,
           core.state \in ResetsFixBudget \cup {"needs_input", "failed"}
    PROVE  status \in RestStatus
<1>1. status \in JobStatus /\ core.state \in CoreStatesOf(status)
  BY DEF RowOK, RowTypeOK, Agrees
<1> QED
  BY <1>1 DEF CoreStatesOf, SchedulingStatuses, StageStatuses, StageStatusState,
              FailureStatuses, JobStatus, RestStatus, RowGates, ResetsFixBudget, Steps

\* A job that rests is at a gate, paused or failed.
LEMMA RestsAtGate ==
    ASSUME RowOK, status \in RestStatus
    PROVE  core.state \in ResetsFixBudget \cup {"needs_input", "failed"}
BY DEF RowOK, RowTypeOK, Agrees, CoreStatesOf, SchedulingStatuses, StageStatuses,
       StageStatusState, FailureStatuses, RestStatus, ResetsFixBudget, WAITING

LEMMA AcceptSteady ==
    ASSUME JobOK, CommandOK, SteadyOK, Command \/ Edit
    PROVE  SteadyOK' /\ CoreStep
<1> USE DEF SteadyOK
<1>1. PICK step, to : Accept(step, to)
  BY DEF Command, Edit, ApprovePlan, RejectPlan, Resume, Retry, Recheck, Reprompt, Push,
         Repush, MarkMerged, Discard, RaiseLimit
<1>2. /\ UNCHANGED <<status, core, worker, fresh, pc, cstep, cstatus, poll>>
      /\ cmd' = [step |-> step, to |-> to, doc |-> meta]
  BY <1>1 DEF Accept, storeVars, workerVars
<1>3. CoreStep
  BY <1>2, SameCore
<1>4. PlaceOK' /\ FreshOK' /\ PlannedGate'
  BY <1>2 DEF PlaceOK, FreshOK, PlannedGate
<1>5. CommandRests' /\ CommandGates'
  <2>1. core \in CoreStates /\ Origins(core)
    BY DEF RowOK, RowTypeOK, Agrees
  <2>2. core.state \in ResetsFixBudget \cup {"needs_input", "failed"} => status \in RestStatus
    BY GateRests
  <2>3. /\ core.state = "needs_input" => EffectiveState(core) = core.pausedFrom
        /\ core.state = "failed" => EffectiveState(core) = core.failedFrom
    BY <2>1 DEF Origins, EffectiveState
  <2>4. \A s : /\ StageStatusOf(s) \in {"planning", "verifying", "reviewing", "publishing", "queued"}
               /\ StageStatusOf(s) = "publishing" => s = "pushing"
    BY DEF StageStatusOf
  <2>5. EffectiveState(core)' = EffectiveState(core)
    BY <1>2 DEF EffectiveState
  <2> USE <1>2, <2>2, <2>3, <2>4, <2>5
      DEF Accept, CommandRests, Harmless, CommandGates, ResetsFixBudget
  <2>6. CASE ApprovePlan \/ RejectPlan \/ Recheck \/ Reprompt
    BY <2>6 DEF ApprovePlan, RejectPlan, Recheck, Reprompt
  <2>7. CASE Resume
    BY <2>7 DEF Resume
  <2>8. CASE Retry
    BY <2>8 DEF Retry, RowGates
  <2>9. CASE Push \/ Repush \/ MarkMerged \/ Discard \/ RaiseLimit
    BY <2>9 DEF Push, Repush, MarkMerged, Discard, RaiseLimit
  <2> QED
    BY <2>6, <2>7, <2>8, <2>9 DEF Command, Edit
<1> QED
  BY <1>2, <1>3, <1>4, <1>5 DEF CoreStep

\* What is left of a command's status write, and the pipeline state after it.
LEMMA MoveStatusSteps ==
    ASSUME JobOK, CommandOK, SteadyOK, MoveStatus \/ ResolveConflict
    PROVE  /\ CoreStep
           /\ \/ UNCHANGED <<status, core>>
              \/ /\ status' = "cancelled" \/ status \in RestStatus
                 /\ core'.state \notin {"review_done", "pushed"}
<1> USE DEF SteadyOK
<1>1. ASSUME NEW to \in {"queued", "planning", "verifying", "reviewing", "publishing", "cancelled"},
             status' = to, core' = Advance(core, to, "none", FALSE),
             to = "queued" /\ core.state = "failed" => core.failedFrom \notin ResetsFixBudget,
             to = "publishing" => EffectiveState(core) = "pushing"
      PROVE  CoreStep /\ core'.state \notin {"review_done", "pushed"}
  <2>1. Fits(to, "none") /\ to \in JobStatus /\ "none" \in Reasons
    BY <1>1 DEF Fits, FailureStatuses, SchedulingStatuses, JobStatus, Reasons
  <2>2. CoreStep
    BY <1>1, <2>1, AdvanceSteps
  <2>3. CASE to = "queued"
    BY <1>1, <2>2, <2>3 DEF CoreStep, RowGates, SchedulingStatuses, ResetsFixBudget
  <2>4. CASE to # "queued"
    BY <1>1, <2>2, <2>4
       DEF Advance, StageStatuses, StageStatusState, SchedulingStatuses, FailureStatuses,
           At, Core
  <2> QED
    BY <2>2, <2>3, <2>4
<1>2. CASE UNCHANGED <<status, core>>
  BY <1>2, SameCore
<1>3. CASE MoveStatus /\ ~UNCHANGED <<status, core>>
  <2>1. /\ cmd.step \in {"move", "resume", "retry"}
        /\ cmd.step = "resume" => status = "needs_human"
        /\ status' = cmd.to /\ core' = Advance(core, cmd.to, "none", FALSE)
    BY <1>3 DEF MoveStatus, HumanMove, AdvanceTo, WriteStatus
  <2>2. cmd.to \in {"queued", "planning", "verifying", "reviewing", "publishing", "cancelled"}
    BY <2>1 DEF CommandGates
  <2>3. cmd.to = "cancelled" \/ status \in RestStatus
    BY <2>1 DEF CommandRests, Harmless
  <2>4. status = "needs_human" => core.state # "failed"
    BY DEF RowOK, Agrees, CoreStatesOf, SchedulingStatuses, StageStatuses, FailureStatuses, WAITING
  <2>5. cmd.to = "queued" /\ core.state = "failed" => core.failedFrom \notin ResetsFixBudget
    BY <2>1, <2>4 DEF CommandGates
  <2>6. cmd.to = "publishing" => EffectiveState(core) = "pushing"
    BY <2>1 DEF CommandGates
  <2> QED
    BY <1>1, <2>1, <2>2, <2>3, <2>5, <2>6
<1>4. CASE ResolveConflict /\ ~UNCHANGED <<status, core>>
  <2>1. status = "conflicted" /\ status' = "queued" /\ core' = Advance(core, "queued", "none", FALSE)
    BY <1>4 DEF ResolveConflict, AdvanceTo, WriteStatus
  <2>2. core.state # "failed"
    BY <2>1 DEF RowOK, Agrees, CoreStatesOf, SchedulingStatuses, StageStatuses, FailureStatuses
  <2> QED
    BY <1>1, <2>1, <2>2 DEF RestStatus
<1> QED
  BY <1>2, <1>3, <1>4

LEMMA MoveCoreSteps ==
    ASSUME JobOK, CommandOK, SteadyOK, MoveCore
    PROVE  /\ CoreStep
           /\ \/ UNCHANGED <<status, core>>
              \/ status \in RestStatus /\ core'.state \notin {"review_done", "pushed"}
<1> USE DEF SteadyOK
<1> DEFINE target == cmd.to
<1>1. CASE UNCHANGED <<status, core>>
  BY <1>1, SameCore
<1>2. CASE ~UNCHANGED <<status, core>>
  <2>1. target \in CommandTargets \ {"review_done"} /\ cmd.step = "core"
    BY DEF MoveCore, CommandOK, CommandKnown, CommandGates, CommandTargets
  <2>2. status \in RestStatus
    BY <2>1 DEF CommandRests, Harmless, CommandTargets
  <2>3. /\ status' = CoreTargetStatus(target, target = "implementing")
        /\ core.state = target \/ CoreMoveAllowed(core, target)
        /\ core' = IF core.state = target THEN core ELSE CoreMove(core, target)
    BY <1>2 DEF MoveCore, CoreCommand, TransitionCore, WriteStatus
  <2>4. status' \in SchedulingStatuses => target = "implementing"
    BY <2>1, <2>3 DEF CommandTargets, CoreTargetStatus, LegacyStatus, SchedulingStatuses, WAITING
  <2>5. core.state \in ResetsFixBudget \cup {"needs_input", "failed"}
    BY <2>2, RestsAtGate
  <2>6. core \in CoreStates /\ Origins(core)
    BY DEF RowOK, RowTypeOK, Agrees
  <2>7. target \in {"plan_review", "planning", "implementing", "pushing", "done"}
    BY <2>1 DEF CommandTargets
  <2> HIDE DEF target
  <2>8. CASE core.state = target
    <3>1. core' = core
      BY <2>3, <2>8
    <3> QED
      BY <2>2, <2>4, <2>7, <2>8, <3>1
         DEF CoreStep, RowGates, ResetsFixBudget
  <2>9. CASE core.state # target
    <3>1. CoreMoveAllowed(core, target) /\ core' = CoreMove(core, target)
      BY <2>3, <2>9
    <3>2. CASE core.state = "needs_input"
      <4>1. target = core.pausedFrom /\ core.failedFrom = NoState
        BY <2>6, <2>7, <3>1, <3>2 DEF CoreMoveAllowed, Origins
      <4>2. core' = At(target, core.fix)
        BY <3>1, <3>2, <4>1 DEF CoreMove, At
      <4>3. EffectiveState(core) = target
        BY <2>7, <3>2, <4>1 DEF EffectiveState, NoState
      <4> QED
        BY <2>2, <2>4, <2>7, <4>1, <4>2, <4>3, AtEffective
           DEF CoreStep, RowGates, ResetsFixBudget, NoState
    <3>3. CASE core.state = "failed"
      <4>1. target = core.failedFrom /\ core.pausedFrom = NoState
        BY <2>6, <2>7, <3>1, <3>3 DEF CoreMoveAllowed, Origins
      <4>2. core' = At(target, core.fix)
        BY <3>1, <3>3, <4>1 DEF CoreMove, At
      <4>3. EffectiveState(core) = target
        BY <2>7, <3>3, <4>1 DEF EffectiveState, NoState
      <4> QED
        BY <2>2, <2>4, <2>7, <3>3, <4>1, <4>2, <4>3, AtEffective
           DEF CoreStep, RowGates, ResetsFixBudget, NoState
    <3>4. CASE core.state \in ResetsFixBudget
      <4>1. target \in {"planning", "implementing", "pushing", "done"}
        BY <2>7, <3>1, <3>4 DEF CoreMoveAllowed, CoreTransitions, ResetsFixBudget
      <4>2. target = "pushing" => core.state \in Passed
        BY <3>1, <3>4 DEF CoreMoveAllowed, CoreTransitions, ResetsFixBudget, Passed
      <4>3. \E n \in {0, core.fix} : core' = At(target, n)
        BY <3>1, <3>4 DEF CoreMove, ResetsFixBudget
      <4>4. EffectiveState(core) = core.state
        BY <3>4 DEF EffectiveState, ResetsFixBudget
      <4>5. target \notin {"needs_input", "failed"}
        BY <4>1
      <4>6. /\ core'.state = target /\ EffectiveState(core') = target
            /\ core'.pausedFrom = NoState /\ core'.failedFrom = NoState
            /\ core'.fix \in {0, core.fix}
        BY <4>3, <4>5, AtEffective
      <4> QED
        BY <2>2, <2>4, <2>9, <3>4, <4>1, <4>2, <4>4, <4>6
           DEF CoreStep, RowGates, ResetsFixBudget, NoState, Passed
    <3> QED
      BY <2>5, <3>2, <3>3, <3>4
  <2> QED
    BY <2>8, <2>9
<1> QED
  BY <1>1, <1>2

LEMMA HandlerSteady ==
    ASSUME JobOK, CommandOK, SteadyOK, RowOK', Handler
    PROVE  SteadyOK' /\ CoreStep
<1> USE DEF SteadyOK
<1>1. /\ UNCHANGED <<worker, pc, cstep, cstatus, poll>>
      /\ fresh' = {} \/ UNCHANGED <<fresh, status>>
  BY DEF Handler, WritePlanDecision, ResetFix, MoveCore, MoveStatus, ResolveConflict,
         GrantLimit, WriteMeta, CoreCommand, TransitionCore, HumanMove, AdvanceTo,
         WriteStatus, workerVars
<1>2. FreshOK'
  BY <1>1 DEF FreshOK
<1>3. CASE WritePlanDecision \/ GrantLimit
  <2>1. UNCHANGED <<status, core>>
    BY <1>3 DEF WritePlanDecision, GrantLimit
  <2>2. \/ cmd' = NoCommand
        \/ /\ cmd.step \in {"approve", "reject"}
           /\ cmd'.step = "core" /\ cmd'.to = cmd.to
    BY <1>3 DEF WritePlanDecision, GrantLimit, Proceed, CommandOK, CommandTypeOK
  <2>3. CommandRests' /\ CommandGates'
    BY <2>1, <2>2 DEF NoCommand, CommandRests, Harmless, CommandGates
  <2> QED
    BY <1>1, <1>2, <2>1, <2>3, SameCore DEF CoreStep, PlaceOK, PlannedGate
<1>4. CASE ResetFix
  <2>1. UNCHANGED status /\ core' = [core EXCEPT !.fix = 0] /\ core \in CoreStates
    BY <1>4 DEF ResetFix, SetFixAttempts, RowOK, RowTypeOK
  <2>2. core.state \in {"review_done", "pushed"}
    BY <1>4 DEF ResetFix, CommandGates
  <2>3. CoreStep
    BY <2>1, <2>2 DEF CoreStep, RowGates, EffectiveState, ResetsFixBudget, CoreStates
  <2>4. PlaceOK' /\ PlannedGate'
    BY <1>1, <2>1 DEF PlaceOK, PlannedGate, CoreStates
  <2>5. CommandRests' /\ CommandGates'
    BY <1>4, <2>1 DEF ResetFix, Proceed, CommandRests, Harmless, CommandGates,
       CommandOK, CommandTypeOK, CommandKnown
  <2> QED
    BY <1>1, <1>2, <2>3, <2>4, <2>5 DEF CoreStep
<1>5. CASE MoveCore \/ MoveStatus \/ ResolveConflict
  <2>1. CommandRests' /\ CommandGates'
    <3>1. cmd' = NoCommand
      BY <1>5 DEF MoveCore, MoveStatus, ResolveConflict
    <3> QED
      BY <3>1 DEF NoCommand, CommandRests, Harmless, CommandGates
  <2>2. /\ CoreStep
        /\ \/ UNCHANGED <<status, core>>
           \/ /\ status' = "cancelled" \/ status \in RestStatus
              /\ core'.state \notin {"review_done", "pushed"}
    BY <1>5, MoveCoreSteps, MoveStatusSteps
  <2>3. PlannedGate'
    BY <1>1, <2>2 DEF PlannedGate
  <2>4. PlaceOK'
    <3>1. CASE UNCHANGED status
      BY <1>1, <3>1 DEF PlaceOK
    <3>2. CASE status' = "cancelled"
      BY <3>2 DEF PlaceOK
    <3>3. CASE status \in RestStatus
      <4>1. \A w \in Workers : pc[w] # "off" => pc[w] \in {"boot", "planned", "refused", "exit"}
        BY <3>3, Expectations, AllSteps
           DEF PlaceOK, RestStatus, FailureStatuses, ProcessOK, VerifySteps, ReviewSteps,
               PublishSteps
      <4> QED
        BY <1>1, <4>1, Expectations DEF PlaceOK, RowOK, RowTypeOK
    <3> QED
      BY <2>2, <3>1, <3>2, <3>3
  <2> QED
    BY <1>1, <1>2, <2>1, <2>2, <2>3, <2>4 DEF CoreStep
<1> QED
  BY <1>3, <1>4, <1>5 DEF Handler

LEMMA Unmoved ==
    ASSUME SteadyOK,
           UNCHANGED <<status, core, worker, fresh, cstep, cstatus, cmd, poll>>,
           \A w \in Workers : pc'[w] \in {pc[w], "off"}
    PROVE  SteadyOK' /\ CoreStep
<1>1. EffectiveState(core)' = EffectiveState(core)
  BY DEF EffectiveState
<1>2. CoreStep
  BY SameCore DEF SteadyOK
<1> QED
  BY <1>1, <1>2 DEF SteadyOK, CoreStep, PlaceOK, CommandRests, Harmless, FreshOK,
                    PlannedGate, CommandGates

SteadyJob == OwnedJob /\ OutcomeOK /\ SteadyOK

LEMMA SteadyStep ==
    ASSUME Steady, SteadyJob, [Next]_vars
    PROVE  SteadyJob' /\ CoreStep
<1> USE DEF SteadyJob, OwnedJob, PipelineOK
<1>1. OwnedJob' /\ OutcomeOK'
  BY OwnedStep, OutcomeStep DEF Steady
<1>2. ~Lapse /\ ~Poll /\ ~Poller /\ \A w \in Workers : ~StoreError(w)
  BY NothingToSpend
     DEF Steady, Uninterrupted, BudgetKinds, Lapse, StoreError, Poll, SteadyOK, Poller,
         StampPR, ApplyPoll, MarkConflicted
<1>3. ASSUME NEW w \in Workers, Process(w) \/ Crash(w)
      PROVE  SteadyOK' /\ CoreStep
  <2>1. CASE WorkerStep(w) /\ UNCHANGED <<controllerVars, commandVars>>
    BY <2>1, WorkerSteady
  <2>2. CASE /\ Heartbeat(w) \/ Dies(w)
             /\ UNCHANGED <<controllerVars, commandVars>>
    <3>1. UNCHANGED <<status, core, worker, fresh, cstep, cstatus, cmd, poll>>
      BY <2>2 DEF Heartbeat, Dies
    <3>2. \A u \in Workers : pc'[u] \in {pc[u], "off"}
      BY <2>2 DEF Heartbeat, Dies, Forget, Goto, ProcessOK
    <3> QED
      BY <3>1, <3>2, Unmoved
  <2> QED
    BY <1>3, <2>1, <2>2 DEF Process, Crash
<1>4. ASSUME NEW c \in Controllers, Controller(c) \/ ControllerRestart(c)
      PROVE  SteadyOK' /\ CoreStep
  BY <1>4, ControllerSteady DEF Controller, ControllerRestart
<1>5. ASSUME Command \/ Edit PROVE SteadyOK' /\ CoreStep
  BY <1>5, AcceptSteady
<1>6. ASSUME Finish PROVE SteadyOK' /\ CoreStep
  <2>1. RowOK'
    BY <1>1
  <2> QED
    BY <1>2, <1>6, <2>1, HandlerSteady DEF Finish
<1>7. ASSUME LeaseExpires \/ UNCHANGED vars PROVE SteadyOK' /\ CoreStep
  <2>1. UNCHANGED <<status, core, worker, fresh, cstep, cstatus, cmd, poll, pc>>
    BY <1>7 DEF LeaseExpires, Expire, vars, storeVars, workerVars
  <2> QED
    BY <2>1, Unmoved
<1>8. SteadyOK' /\ CoreStep
  BY <1>2, <1>3, <1>4, <1>5, <1>6, <1>7 DEF Next
<1> QED
  BY <1>1, <1>8

LEMMA SteadyInit == Init => SteadyJob
<1> SUFFICES ASSUME Init PROVE SteadyJob
  OBVIOUS
<1>1. OutcomeOK
  BY DEF Init, StoreInit, WorkerInit, CommandInit, NoCommand, OutcomeOK, OutcomeIsAtomic
<1>2. PlaceOK /\ CommandRests /\ FreshOK /\ PlannedGate /\ CommandGates /\ poll = "none"
  BY DEF Init, StoreInit, WorkerInit, ControllerInit, CommandInit, NoCommand, PlaceOK,
         CommandRests, Harmless, FreshOK, PlannedGate, CommandGates
<1>3. RowGates
  BY DEF Init, StoreInit, InitialCore, At, Core, RowGates, ResetsFixBudget, NoState
<1> QED
  BY <1>1, <1>2, <1>3, OwnedInit DEF SteadyJob, SteadyOK

\* No controller, restart or command moves a steady job under the feet of the
\* worker that owns it, except to cancel it.
THEOREM OwnersUndisturbed == Steady /\ Spec => []OwnerUndisturbed
<1>1. SteadyJob => OwnerUndisturbed
  <2> SUFFICES ASSUME SteadyJob, NEW w \in Workers
               PROVE  status \in ExpectedStatus(pc[w]) \cup {"cancelled"}
    BY DEF OwnerUndisturbed
  <2>1. pc[w] = "off" => ExpectedStatus(pc[w]) = JobStatus
    BY DEF ExpectedStatus, VerifySteps, ReviewSteps, PublishSteps
  <2> QED
    BY <2>1 DEF SteadyJob, SteadyOK, PlaceOK, OwnedJob, PipelineOK, RowOK, RowTypeOK
<1>2. Steady /\ SteadyJob /\ [Next]_vars => SteadyJob'
  BY SteadyStep
<1>3. Steady' <=> Steady
  BY DEF Steady, Uninterrupted
<1> QED
  BY SteadyInit, <1>1, <1>2, <1>3, PTL DEF Spec

-----------------------------------------------------------------------------
(* What a worker has read is still true when it acts on it.                   *)

\* From its plan check to the end of its agent; and on its way to push.
LaunchSteps == {"attempt", "launch", "contain", "running", "finish"}

PushSteps == {"recordPR", "announce"}

\* What brings a worker to these steps and to those of a fix round.
Comes(w) ==
    /\ pc'[w] \in LaunchSteps =>
          /\ UNCHANGED meta
          /\ pc[w] \in LaunchSteps \/ (Staged => meta.approved)
    /\ pc'[w] \in PushSteps =>
          /\ UNCHANGED checks
          /\ \/ pc[w] \in PushSteps
             \/ /\ pc[w] = "publish" /\ status = "publishing"
                /\ Publishes => checks = "passed"
    /\ pc'[w] = "setFix" =>
          /\ UNCHANGED <<status, core>> /\ pc[w] = "verify"
          /\ seenFix'[w] = core.fix /\ core.fix < MaxFix
    /\ pc'[w] = "noteFix" =>
          pc[w] = "setFix" /\ UNCHANGED status /\ core'.fix = seenFix[w] + 1
    /\ pc'[w] = "requeue" => pc[w] = "noteFix" /\ UNCHANGED <<status, core>>
    /\ \A u \in Workers : u # w => seenFix'[u] = seenFix[u]

LEMMA FrameComes ==
    ASSUME JobOK, NEW w \in Workers,
           Boot(w) \/ AskModel(w) \/ Refused(w) \/ Exit(w)
    PROVE  Comes(w)
<1> USE DEF ProcessOK, LocalsTypeOK, Goto, Comes, LaunchSteps, PushSteps
<1>1. CASE Boot(w)
  BY <1>1 DEF Boot, FirstStep, PhaseKnown, Phases
<1>2. CASE AskModel(w)
  BY <1>2 DEF AskModel
<1>3. CASE Refused(w) \/ Exit(w)
  BY <1>3 DEF Refused, Exit, Forget
<1> QED
  BY <1>1, <1>2, <1>3

LEMMA PlanComes ==
    ASSUME JobOK, NEW w \in Workers,
           \/ ToPreparing(w) \/ Prepare(w) \/ PrepareFails(w)
           \/ ModelsUnset(w) \/ NoPlanning(w) \/ ToPlanning(w)
           \/ PlannerAnswers(w) \/ PlannerFails(w) \/ SavePlan(w)
           \/ ApplyContract(w) \/ AfterPlanning(w) \/ RequirePlan(w)
           \/ SetupRaises(w)
    PROVE  Comes(w)
<1> USE DEF ProcessOK, LocalsTypeOK, Goto, Comes, LaunchSteps, PushSteps, Park
<1>1. CASE ToPreparing(w) \/ Prepare(w) \/ PrepareFails(w)
  BY <1>1, FencedNext DEF ToPreparing, Prepare, PrepareFails
<1>2. CASE ModelsUnset(w) \/ NoPlanning(w) \/ ToPlanning(w)
  BY <1>2, FencedNext DEF ModelsUnset, NoPlanning, ToPlanning
<1>3. CASE PlannerAnswers(w) \/ PlannerFails(w) \/ SavePlan(w)
  BY <1>3, FencedNext DEF PlannerAnswers, PlannerFails, SavePlan
<1>4. CASE ApplyContract(w)
  BY <1>4 DEF ApplyContract, Write
<1>5. CASE AfterPlanning(w)
  BY <1>5, FencedNext DEF AfterPlanning
<1>6. CASE RequirePlan(w)
  BY <1>6, FencedNext DEF RequirePlan
<1>7. CASE SetupRaises(w)
  BY <1>7 DEF SetupRaises
<1> QED
  BY <1>1, <1>2, <1>3, <1>4, <1>5, <1>6, <1>7

LEMMA AgentComes ==
    ASSUME JobOK, NEW w \in Workers,
           \/ NewAttempt(w) \/ ToRunning(w) \/ RunAgent(w) \/ AgentEnds(w)
           \/ FinishAttempt(w) \/ AgentRaises(w)
    PROVE  Comes(w)
<1> USE DEF ProcessOK, LocalsTypeOK, Goto, Comes, LaunchSteps, PushSteps
<1>1. CASE NewAttempt(w) \/ RunAgent(w) \/ AgentEnds(w)
  BY <1>1 DEF NewAttempt, RunAgent, AgentEnds
<1>2. CASE ToRunning(w)
  BY <1>2, FencedNext DEF ToRunning
<1>3. CASE FinishAttempt(w) \/ AgentRaises(w)
  BY <1>3 DEF FinishAttempt, AgentRaises
<1> QED
  BY <1>1, <1>2, <1>3

LEMMA StageComes ==
    ASSUME JobOK, NEW w \in Workers,
           VerifyPhase(w) \/ ReviewPhase(w) \/ PublishPhase(w)
    PROVE  Comes(w)
<1> USE DEF ProcessOK, LocalsTypeOK, Goto, Comes, LaunchSteps, PushSteps, Park
<1>1. CASE VerifyEnds(w)
  BY <1>1 DEF VerifyEnds
<1>2. CASE VerifyRaises(w) \/ NoContract(w) \/ ToReview(w) \/ Requeue(w)
  BY <1>2, FencedNext DEF VerifyRaises, NoContract, ToReview, Requeue
<1>3. CASE SetFix(w) \/ NoteFix(w)
  BY <1>3 DEF SetFix, NoteFix, SetFixAttempts, RowOK, RowTypeOK, CoreStates
<1>4. CASE ReviewPhase(w)
  BY <1>4, FencedNext DEF ReviewPhase, NoReview, ReviewEnds, ReviewFails, Verdict
<1>5. CASE PublishFails(w) \/ Announce(w)
  BY <1>5, FencedNext DEF PublishFails, Announce
<1>6. CASE PublishEnds(w)
  BY <1>6 DEF PublishEnds, storeVars
<1>7. CASE RecordPR(w)
  BY <1>7 DEF RecordPR
<1> QED
  BY <1>1, <1>2, <1>3, <1>4, <1>5, <1>6, <1>7 DEF VerifyPhase, PublishPhase

LEMMA WorkerComes ==
    ASSUME JobOK, NEW w \in Workers, WorkerStep(w)
    PROVE  Comes(w)
BY FrameComes, PlanComes, AgentComes, StageComes DEF WorkerStep, ImplementPhase

\* Only a fix round requeues a job whose checks run.
LEMMA RequeueOnly ==
    ASSUME JobOK, PlaceOK, NEW w \in Workers, WorkerStep(w), pc[w] # "off",
           status = "verifying", status' = "queued"
    PROVE  pc[w] = "requeue"
<1>1. pc[w] \in VerifySteps \cup {"boot", "planned", "refused", "exit"}
  BY Expectations, AllSteps
     DEF PlaceOK, ProcessOK, VerifySteps, ReviewSteps, PublishSteps
<1>2. \A to, reason, missing, next :
          FencedMove(w, to, reason, missing, next) => status' = status \/ status' = to
  BY DEF FencedMove, AlreadyThere, Refuse, LoseOut, Write, AdvanceTo, WriteStatus
<1>3. ~NoContract(w) /\ ~ToReview(w)
  BY <1>2 DEF NoContract, ToReview, Park
<1>4. ~AfterPlanning(w)
  BY DEF AfterPlanning
<1>5. ~Boot(w) /\ ~Refused(w) /\ ~Exit(w) /\ ~SetupRaises(w)
  BY DEF Boot, Refused, Exit, SetupRaises, AdvanceTo, WriteStatus
<1>6. ~VerifyEnds(w) /\ ~VerifyRaises(w) /\ ~SetFix(w) /\ ~NoteFix(w)
  BY DEF VerifyEnds, VerifyRaises, SetFix, NoteFix, AdvanceTo, WriteStatus
<1>7. /\ ~AskModel(w) /\ ~ReviewPhase(w) /\ ~PublishPhase(w)
      /\ ImplementPhase(w) => AfterPlanning(w) \/ SetupRaises(w)
  BY <1>1 DEF AskModel, ReviewPhase, NoReview, ReviewEnds, ReviewFails, Verdict,
              PublishPhase, PublishFails, PublishEnds, RecordPR, Announce, VerifySteps,
              ImplementPhase, ToPreparing, Prepare, PrepareFails, ModelsUnset, NoPlanning,
              ToPlanning, PlannerAnswers, PlannerFails, SavePlan, ApplyContract,
              RequirePlan, NewAttempt, ToRunning, RunAgent, AgentEnds, FinishAttempt,
              AgentRaises
<1>8. Requeue(w)
  BY <1>3, <1>4, <1>5, <1>6, <1>7 DEF WorkerStep, VerifyPhase
<1> QED
  BY <1>8 DEF Requeue

\* A step that is none of a worker's own leaves what a live worker relies on.
OthersStep ==
    /\ \A w \in Workers : /\ pc'[w] \in {pc[w], "off", "boot"}
                          /\ pc'[w] \in {"off", "boot"} \/ seenFix'[w] = seenFix[w]
    /\ ~(status = "verifying" /\ status' = "queued")
    /\ status \notin RestStatus => UNCHANGED checks /\ meta'.approved = meta.approved

LEMMA ControllerStandsBy ==
    ASSUME JobOK, ControllerOK, OwnerOK, SteadyOK, NEW c \in Controllers,
           ControllerStep(c) \/ Restart(c)
    PROVE  OthersStep
<1>1. \A w \in Workers : pc'[w] \in {pc[w], "off", "boot"}
  BY ControllerRow
<1>2. ~(status = "verifying" /\ status' = "queued")
  BY ControllerRow
<1>3. UNCHANGED <<checks, meta>>
  BY DEF ControllerStep, Restart, Recovery, Scheduling, Claim, ReapContainers, RecoverRead,
     Interrupted, CloseOrphanedAttempt, WriteRecovery, RetryStage, StageCrashedTooOften,
     ParkCrashed, Schedule, Acquire, Popen, PopenFails, ReapProcess, TerminateCancelled,
     Dies, storeVars
<1>4. \A w \in Workers : pc'[w] \in {"off", "boot"} \/ seenFix'[w] = seenFix[w]
  <2>1. CASE TerminateCancelled(c)
    <3>1. /\ pc' = [pc EXCEPT ![active[c]] = "off"]
          /\ seenFix' = [seenFix EXCEPT ![active[c]] = 0]
      BY <2>1 DEF TerminateCancelled, Dies, Forget, Goto
    <3> QED
      BY <3>1 DEF ProcessOK, LocalsTypeOK
  <2>2. CASE ~TerminateCancelled(c)
    <3>1. UNCHANGED seenFix
      BY <2>2 DEF ControllerStep, Restart, Recovery, Scheduling, Claim, ReapContainers,
         RecoverRead, Interrupted, CloseOrphanedAttempt, WriteRecovery, RetryStage,
         StageCrashedTooOften, ParkCrashed, Schedule, Acquire, Popen, PopenFails,
         ReapProcess, workerVars
    <3> QED
      BY <3>1
  <2> QED
    BY <2>1, <2>2
<1> QED
  BY <1>1, <1>2, <1>3, <1>4 DEF OthersStep

LEMMA HumanStandsBy ==
    ASSUME JobOK, CommandOK, SteadyOK, Command \/ Edit \/ Handler
    PROVE  OthersStep
<1>1. UNCHANGED workerVars
  BY HumanLeavesProcesses DEF Handler, Command, Edit, WritePlanDecision, ResetFix, MoveCore,
     MoveStatus, ResolveConflict, GrantLimit, ApprovePlan, RejectPlan, Resume, Retry, Recheck,
     Reprompt, Push, Repush, MarkMerged, Discard, RaiseLimit, Accept
<1>2. CASE Command \/ Edit
  BY <1>1, <1>2 DEF Command, Edit, ApprovePlan, RejectPlan, Resume, Retry, Recheck, Reprompt,
     Push, Repush, MarkMerged, Discard, RaiseLimit, Accept, storeVars, OthersStep, workerVars
<1>3. CASE WritePlanDecision
  <2>1. status \in RestStatus /\ UNCHANGED status
    BY <1>3 DEF WritePlanDecision, SteadyOK, CommandRests, Harmless, CommandOK, CommandKnown,
                CommandTargets
  <2> QED
    BY <1>1, <2>1 DEF OthersStep, workerVars
<1>4. CASE GrantLimit
  <2>1. UNCHANGED <<status, checks>> /\ meta' = [meta EXCEPT !.grants = @ + 1]
    BY <1>4 DEF GrantLimit, WriteMeta
  <2>2. meta'.approved = meta.approved
    BY <2>1 DEF OtherTypeOK, MetaDocuments
  <2> QED
    BY <1>1, <2>1, <2>2 DEF OthersStep, workerVars
<1>5. CASE ResetFix
  BY <1>1, <1>5 DEF ResetFix, OthersStep, workerVars
<1>6. CASE MoveCore \/ MoveStatus \/ ResolveConflict
  <2>1. UNCHANGED meta /\ (status # "conflicted" => UNCHANGED checks)
    BY <1>6 DEF MoveCore, MoveStatus, ResolveConflict
  <2>2. UNCHANGED status \/ status' = "cancelled" \/ status \in RestStatus
    BY <1>6, MoveCoreSteps, MoveStatusSteps
  <2> QED
    BY <1>1, <2>1, <2>2 DEF OthersStep, workerVars, RestStatus, FailureStatuses
<1> QED
  BY <1>2, <1>3, <1>4, <1>5, <1>6 DEF Handler

\* The worker that moves is the only one there is.
OwnStep(w) ==
    /\ WorkerStep(w) /\ pc[w] # "off"
    /\ \A u \in Workers : u # w => pc'[u] = "off"

LEMMA MovesAlone ==
    ASSUME JobOK, OwnerOK, NEW w \in Workers, WorkerStep(w)
    PROVE  OwnStep(w)
<1>1. pc[w] # "off" /\ \A u \in Workers : u # w => pc'[u] = pc[u]
  <2>1. CASE StaysOwner(w)
    BY <2>1 DEF StaysOwner, Goto, ProcessOK
  <2>2. CASE Exit(w)
    BY <2>2 DEF Exit, Forget, Goto, ProcessOK
  <2> QED
    BY <2>1, <2>2, WorkerStays
<1> QED
  BY <1>1 DEF OwnStep, OwnerOK, Owns

LEMMA StepKinds ==
    ASSUME Steady, SteadyJob, [Next]_vars
    PROVE  OthersStep \/ \E w \in Workers : OwnStep(w)
<1> USE DEF SteadyJob, OwnedJob, PipelineOK
<1>1. ~Lapse /\ ~Poll /\ ~Poller /\ \A w \in Workers : ~StoreError(w)
  BY NothingToSpend
     DEF Steady, Uninterrupted, BudgetKinds, Lapse, StoreError, Poll, SteadyOK, Poller,
         StampPR, ApplyPoll, MarkConflicted
<1>2. ASSUME NEW w \in Workers, Heartbeat(w) \/ Dies(w)
      PROVE  OthersStep
  <2>1. UNCHANGED <<status, meta, checks>>
    BY <1>2 DEF Heartbeat, Dies
  <2>2. \A u \in Workers : \/ pc'[u] = pc[u] /\ seenFix'[u] = seenFix[u]
                           \/ pc'[u] = "off"
    BY <1>2 DEF Heartbeat, Dies, Forget, Goto, ProcessOK, LocalsTypeOK
  <2> QED
    BY <2>1, <2>2 DEF OthersStep
<1>3. ASSUME LeaseExpires \/ UNCHANGED vars PROVE OthersStep
  BY <1>3 DEF LeaseExpires, Expire, vars, storeVars, workerVars, OthersStep
<1> QED
  BY <1>1, <1>2, <1>3, MovesAlone, ControllerStandsBy, HumanStandsBy
     DEF Next, Process, Crash, Controller, ControllerRestart, Finish

LEMMA HistorySteps == [Next]_vars => HistoryNext
BY DEF Next, HistoryNext, vars, storeVars, historyVars

\* A live worker's job does not rest.
LEMMA AtWork ==
    ASSUME PlaceOK, NEW w \in Workers,
           pc[w] \in LaunchSteps \cup VerifySteps \cup PushSteps
    PROVE  /\ status \notin RestStatus
           /\ pc[w] \in VerifySteps => status \in {"verifying", "cancelled"}
           /\ pc[w] \in PushSteps => status \in {"publishing", "cancelled"}
BY Expectations
   DEF PlaceOK, LaunchSteps, PushSteps, VerifySteps, PublishSteps, RestStatus, FailureStatuses

\* The plan a worker launches its agent for is still approved.
ApprovedOK ==
    \A w \in Workers : pc[w] \in LaunchSteps /\ Staged => meta.approved

LEMMA ApprovedStep ==
    ASSUME Steady, SteadyJob, ApprovedOK, [Next]_vars
    PROVE  ApprovedOK'
<1> SUFFICES ASSUME NEW w \in Workers, pc'[w] \in LaunchSteps, Staged
             PROVE  meta'.approved
  BY DEF ApprovedOK, Staged
<1>1. CASE OthersStep
  <2>1. pc[w] \in LaunchSteps
    BY <1>1 DEF OthersStep, LaunchSteps
  <2>2. status \notin RestStatus
    BY <2>1, AtWork DEF SteadyJob, SteadyOK
  <2> QED
    BY <1>1, <2>1, <2>2 DEF OthersStep, ApprovedOK
<1>2. ASSUME NEW u \in Workers, OwnStep(u) PROVE meta'.approved
  <2>1. u = w
    BY <1>2 DEF OwnStep, LaunchSteps
  <2>2. Comes(w)
    BY <1>2, <2>1, WorkerComes DEF OwnStep, SteadyJob, OwnedJob, PipelineOK
  <2> QED
    BY <2>2 DEF Comes, ApprovedOK
<1> QED
  BY <1>1, <1>2, StepKinds

\* In a staged job no implementer starts before its plan is approved, and no
\* command takes the approval back under a running implementer.
THEOREM PlanFirst == Steady /\ Spec => []PlanGate
<1>1. Init => SteadyJob /\ ApprovedOK
  BY SteadyInit DEF Init, WorkerInit, ApprovedOK, LaunchSteps
<1>2. Steady /\ SteadyJob /\ ApprovedOK /\ [Next]_vars => SteadyJob' /\ ApprovedOK'
  BY SteadyStep, ApprovedStep
<1>3. ApprovedOK => PlanGate
  BY DEF ApprovedOK, PlanGate, LaunchSteps
<1>4. Steady' <=> Steady
  BY DEF Steady, Uninterrupted
<1> QED
  BY <1>1, <1>2, <1>3, <1>4, PTL DEF Spec

-----------------------------------------------------------------------------
\* Past the review gate, and above all on its way to the host, a job has been
\* reviewed since its implementer last ran.
PassedOK ==
    /\ EffectiveState(core) \in Passed => reviewed
    /\ \A w \in Workers :
          pc[w] \in PushSteps => reviewed /\ (Publishes => checks = "passed")

LEMMA PassedStep ==
    ASSUME Steady, SteadyJob, PassedOK, [Next]_vars
    PROVE  PassedOK'
<1> USE DEF SteadyJob
<1>1. SteadyJob' /\ CoreStep /\ HistoryNext
  BY SteadyStep, HistorySteps
<1>2. reviewed \in BOOLEAN /\ reviewed' \in BOOLEAN
  BY <1>1 DEF OwnedJob, PipelineOK, HistoryOK
<1>3. EffectiveState(core') \in Passed => reviewed'
  <2>1. status' = "running" => EffectiveState(core') \notin Passed
    <3>1. status' = "running" => core'.state = "implementing"
      BY <1>1 DEF OwnedJob, PipelineOK, RowOK, Agrees, CoreStatesOf, SchedulingStatuses,
                  StageStatuses, StageStatusState, FailureStatuses
    <3> QED
      BY <3>1 DEF EffectiveState, Passed
  <2>2. EffectiveState(core') \in Passed =>
            \/ reviewed
            \/ core.state = "reviewing" /\ core'.state = "review_done"
    BY <1>1 DEF CoreStep, PassedOK
  <2> QED
    BY <1>1, <1>2, <2>1, <2>2 DEF HistoryNext
<1>4. ASSUME NEW w \in Workers, pc'[w] \in PushSteps,
             UNCHANGED checks, reviewed, Publishes => checks = "passed"
      PROVE  reviewed' /\ (Publishes => checks' = "passed")
  <2>1. status' # "running"
    <3>1. pc'[w] # "off" /\ ExpectedStatus(pc'[w]) = {"publishing"}
      BY <1>4, Expectations DEF PushSteps, PublishSteps
    <3> QED
      BY <1>1, <3>1 DEF SteadyOK, PlaceOK
  <2> QED
    BY <1>1, <1>4, <2>1 DEF HistoryNext
<1>5. ASSUME NEW w \in Workers, pc'[w] \in PushSteps
      PROVE  reviewed' /\ (Publishes => checks' = "passed")
  <2>1. CASE OthersStep
    <3>1. pc[w] \in PushSteps
      BY <1>5, <2>1 DEF OthersStep, PushSteps
    <3>2. UNCHANGED checks
      BY <2>1, <3>1, AtWork DEF OthersStep, SteadyOK
    <3> QED
      BY <1>4, <1>5, <3>1, <3>2 DEF PassedOK
  <2>2. ASSUME NEW u \in Workers, OwnStep(u)
        PROVE  reviewed' /\ (Publishes => checks' = "passed")
    <3>1. u = w
      BY <1>5, <2>2 DEF OwnStep, PushSteps
    <3>2. Comes(w)
      BY <2>2, <3>1, WorkerComes DEF OwnStep, OwnedJob, PipelineOK
    <3>3. CASE pc[w] \in PushSteps
      BY <1>4, <1>5, <3>2, <3>3 DEF PassedOK, Comes
    <3>4. CASE pc[w] \notin PushSteps
      <4>1. /\ status = "publishing" /\ UNCHANGED checks
            /\ Publishes => checks = "passed"
        BY <1>5, <3>2, <3>4 DEF Comes
      <4>2. core.state = "pushing"
        BY <4>1 DEF OwnedJob, PipelineOK, RowOK, Agrees, CoreStatesOf, SchedulingStatuses,
                    StageStatuses, StageStatusState, FailureStatuses
      <4>3. reviewed
        BY <4>2 DEF PassedOK, Passed, EffectiveState
      <4> QED
        BY <1>4, <1>5, <4>1, <4>3
    <3> QED
      BY <3>3, <3>4
  <2> QED
    BY <2>1, <2>2, StepKinds
<1> QED
  BY <1>3, <1>5 DEF PassedOK

\* What a worker pushes has passed the review gate since the implementer last
\* ran, and its checks are those of the HEAD it pushes.
THEOREM ReviewedThenPushed == Steady /\ Spec => []PushedIsReviewed
<1>1. Init => SteadyJob /\ PassedOK
  <2>1. Init => EffectiveState(core) \notin Passed
    BY DEF Init, StoreInit, InitialCore, At, Core, EffectiveState, Passed
  <2> QED
    BY <2>1, SteadyInit DEF Init, WorkerInit, PassedOK, PushSteps
<1>2. Steady /\ SteadyJob /\ PassedOK /\ [Next]_vars => SteadyJob' /\ PassedOK'
  BY SteadyStep, PassedStep
<1>3. PassedOK => PushedIsReviewed
  BY DEF PassedOK, PushedIsReviewed, PushSteps
<1>4. Steady' <=> Steady
  BY DEF Steady, Uninterrupted
<1> QED
  BY <1>1, <1>2, <1>3, <1>4, PTL DEF Spec

-----------------------------------------------------------------------------
(* Fix rounds.                                                                *)

\* The stored counter is never behind the rounds, except at a gate that starts
\* it again, and a fix round under way raises it before it requeues the job.
RoundsOK ==
    /\ rounds <= MaxFix /\ core.fix <= MaxFix
    /\ EffectiveState(core) \notin ResetsFixBudget => rounds <= core.fix
    /\ \A w \in Workers : pc[w] \in {"noteFix", "requeue"} => rounds < core.fix
    /\ \A w \in Workers :
          pc[w] = "setFix" => seenFix[w] = core.fix /\ core.fix < MaxFix

\* While its checks run, a job hides no gate.
LEMMA CheckingHidesNone ==
    ASSUME RowOK, status \in {"verifying", "cancelled"}
    PROVE  EffectiveState(core) \notin ResetsFixBudget
<1>1. core.state \in {"checking", "cancelled"}
  BY DEF RowOK, Agrees, CoreStatesOf, SchedulingStatuses, StageStatuses, StageStatusState,
         FailureStatuses
<1> QED
  BY <1>1 DEF EffectiveState, ResetsFixBudget

LEMMA RoundsStep ==
    ASSUME Steady, SteadyJob, RoundsOK, [Next]_vars
    PROVE  RoundsOK'
<1> USE DEF SteadyJob, OwnedJob, PipelineOK
<1> DEFINE fixes == core.fix
           again == status = "verifying" /\ status' = "queued"
<1>1. SteadyJob' /\ CoreStep /\ HistoryNext
  BY SteadyStep, HistorySteps
<1>2. /\ fixes \in Nat /\ fixes' \in Nat /\ rounds \in Nat /\ MaxFix \in Nat
      /\ \A w \in Workers : seenFix[w] \in Nat
  BY <1>1, WorkerAssumption DEF RowOK, RowTypeOK, CoreStates, ProcessOK, LocalsTypeOK, HistoryOK
<1>3. ASSUME NEW w \in Workers, pc[w] \in {"setFix", "noteFix", "requeue"}
      PROVE  EffectiveState(core) \notin ResetsFixBudget
  <2>1. pc[w] \in VerifySteps
    BY <1>3 DEF VerifySteps
  <2>2. status \in {"verifying", "cancelled"}
    BY <2>1, AtWork DEF SteadyOK
  <2> QED
    BY <2>2, CheckingHidesNone
<1>4. \/ rounds' = 0
      \/ rounds' = rounds /\ ~again
      \/ rounds' = rounds + 1 /\ again
  BY <1>1 DEF HistoryNext
<1>5. ASSUME NEW w \in Workers, OwnStep(w)
      PROVE  /\ Comes(w) /\ \A u \in Workers : u # w => pc'[u] = "off"
             /\ again => pc[w] = "requeue"
  BY <1>5, WorkerComes, RequeueOnly DEF OwnStep, SteadyOK
<1>6. \/ fixes' = fixes
      \/ fixes' = 0 /\ EffectiveState(core) \in ResetsFixBudget
      \/ \E w \in Workers : /\ pc[w] = "setFix" /\ pc'[w] = "noteFix"
                            /\ fixes < MaxFix /\ fixes' = fixes + 1
  BY <1>1 DEF CoreStep, RoundsOK
<1>7. again => rounds < fixes /\ fixes' = fixes
  <2> SUFFICES ASSUME again PROVE rounds < fixes /\ fixes' = fixes
    OBVIOUS
  <2>1. PICK w \in Workers : OwnStep(w)
    BY StepKinds DEF OthersStep
  <2>2. pc[w] = "requeue" /\ \A u \in Workers : u # w => pc'[u] = "off"
    BY <1>5, <2>1
  <2> QED
    BY <1>3, <1>6, <2>2 DEF RoundsOK
<1>8. rounds' <= MaxFix /\ fixes' <= MaxFix
  BY <1>2, <1>4, <1>6, <1>7 DEF RoundsOK
<1>9. EffectiveState(core') \notin ResetsFixBudget => rounds' <= fixes'
  <2> SUFFICES ASSUME EffectiveState(core') \notin ResetsFixBudget
               PROVE  rounds' <= fixes'
    OBVIOUS
  <2>1. CASE EffectiveState(core) \in ResetsFixBudget
    <3>1. core'.state # core.state
      BY <1>1, <2>1 DEF CoreStep
    <3> QED
      BY <1>1, <1>2, <2>1, <3>1 DEF HistoryNext
  <2>2. CASE EffectiveState(core) \notin ResetsFixBudget
    BY <1>2, <1>4, <1>6, <1>7, <2>2 DEF RoundsOK
  <2> QED
    BY <2>1, <2>2
<1>10. ASSUME NEW w \in Workers, pc'[w] \in {"noteFix", "requeue"}
       PROVE  rounds' < fixes'
  <2>1. CASE OthersStep
    <3>1. pc[w] \in {"noteFix", "requeue"} /\ ~again
      BY <1>10, <2>1 DEF OthersStep
    <3>2. \A u \in Workers : pc'[u] = "noteFix" => pc[u] # "setFix"
      BY <2>1 DEF OthersStep
    <3>3. fixes' = fixes
      BY <1>3, <1>6, <3>1, <3>2
    <3> QED
      BY <1>2, <1>4, <3>1, <3>3 DEF RoundsOK
  <2>2. ASSUME NEW u \in Workers, OwnStep(u) PROVE rounds' < fixes'
    <3>1. u = w /\ Comes(w)
      BY <1>5, <1>10, <2>2
    <3>2. CASE pc'[w] = "noteFix"
      <4>1. pc[w] = "setFix" /\ ~again /\ fixes' = seenFix[w] + 1
        BY <3>1, <3>2 DEF Comes
      <4>2. seenFix[w] = fixes /\ rounds <= fixes
        BY <1>3, <4>1 DEF RoundsOK
      <4> QED
        BY <1>2, <1>4, <4>1, <4>2
    <3>3. CASE pc'[w] = "requeue"
      <4>1. pc[w] = "noteFix" /\ ~again /\ fixes' = fixes
        BY <3>1, <3>3 DEF Comes
      <4> QED
        BY <1>2, <1>4, <4>1 DEF RoundsOK
    <3> QED
      BY <1>10, <3>2, <3>3
  <2> QED
    BY <2>1, <2>2, StepKinds
<1>11. ASSUME NEW w \in Workers, pc'[w] = "setFix"
       PROVE  seenFix'[w] = fixes' /\ fixes' < MaxFix
  <2>1. CASE OthersStep
    <3>1. pc[w] = "setFix" /\ seenFix'[w] = seenFix[w]
      BY <1>11, <2>1 DEF OthersStep
    <3>2. \A u \in Workers : pc'[u] = "noteFix" => pc[u] # "setFix"
      BY <2>1 DEF OthersStep
    <3>3. fixes' = fixes
      BY <1>3, <1>6, <3>1, <3>2
    <3> QED
      BY <3>1, <3>3 DEF RoundsOK
  <2>2. ASSUME NEW u \in Workers, OwnStep(u)
        PROVE  seenFix'[w] = fixes' /\ fixes' < MaxFix
    <3>1. u = w /\ Comes(w)
      BY <1>5, <1>11, <2>2
    <3> QED
      BY <1>11, <3>1 DEF Comes
  <2> QED
    BY <2>1, <2>2, StepKinds
<1> QED
  BY <1>8, <1>9, <1>10, <1>11 DEF RoundsOK

\* Between two decisions of a human, the checks send a steady job back to the
\* implementer at most MaxFix times, although the counter is an absolute value
\* written without the lease.
THEOREM RoundsCapped == Steady /\ Spec => []FixRoundsCapped
<1>1. Init => SteadyJob /\ RoundsOK
  <2>1. Init => rounds = 0 /\ core.fix = 0
    BY DEF Init, StoreInit, InitialCore, At, Core
  <2>2. Init => RoundsOK
    BY <2>1, WorkerAssumption DEF Init, WorkerInit, RoundsOK
  <2> QED
    BY <2>2, SteadyInit
<1>2. Steady /\ SteadyJob /\ RoundsOK /\ [Next]_vars => SteadyJob' /\ RoundsOK'
  BY SteadyStep, RoundsStep
<1>3. RoundsOK => FixRoundsCapped
  BY DEF RoundsOK, FixRoundsCapped
<1>4. Steady' <=> Steady
  BY DEF Steady, Uninterrupted
<1> QED
  BY <1>1, <1>2, <1>3, <1>4, PTL DEF Spec

-----------------------------------------------------------------------------
(* One implement container, with one controller: a second one that has read   *)
(* an expired lease just before the first may recover the job after it.       *)

OneController == \A c, d \in Controllers : c = d

\* A container outlives its worker only until a controller has reaped it; a
\* controller schedules or recovers a job only when nobody works on it.
AgentsOK ==
    /\ agents = {} \/ \E w \in Workers : agents = {w}
    /\ \A w \in Workers :
          pc[w] # "off" => agents \subseteq (IF pc[w] = "running" THEN {w} ELSE {})
    /\ \A c \in Controllers : cstep[c] # "idle" => \A w \in Workers : pc[w] = "off"
    /\ \A c \in Controllers : cstep[c] \notin {"idle", "claimed"} => agents = {}
    /\ agents # {} => status \in {"running", "cancelled"}

\* What a worker does to the containers.
AgentMoves(w) ==
    /\ pc'[w] = "running" => pc[w] = "contain"
    /\ \/ pc[w] # "running" /\ UNCHANGED agents
       \/ agents' = agents \ {w}
       \/ /\ pc[w] = "contain" /\ pc'[w] = "running"
          /\ agents' = agents \cup {w} /\ UNCHANGED status

LEMMA FrameAgents ==
    ASSUME JobOK, NEW w \in Workers,
           Boot(w) \/ AskModel(w) \/ Refused(w) \/ Exit(w)
    PROVE  AgentMoves(w)
BY DEF ProcessOK, LocalsTypeOK, Goto, AgentMoves, Boot, FirstStep, PhaseKnown, Phases,
       AskModel, Refused, Exit, Forget, storeVars

LEMMA PlanAgents ==
    ASSUME JobOK, NEW w \in Workers,
           \/ ToPreparing(w) \/ Prepare(w) \/ PrepareFails(w)
           \/ ModelsUnset(w) \/ NoPlanning(w) \/ ToPlanning(w)
           \/ PlannerAnswers(w) \/ PlannerFails(w) \/ SavePlan(w)
           \/ ApplyContract(w) \/ AfterPlanning(w) \/ RequirePlan(w)
           \/ SetupRaises(w)
    PROVE  AgentMoves(w)
<1> USE DEF ProcessOK, LocalsTypeOK, Goto, AgentMoves, Park
<1>1. CASE ToPreparing(w) \/ Prepare(w) \/ PrepareFails(w)
  BY <1>1, FencedNext DEF ToPreparing, Prepare, PrepareFails
<1>2. CASE ModelsUnset(w) \/ NoPlanning(w) \/ ToPlanning(w)
  BY <1>2, FencedNext DEF ModelsUnset, NoPlanning, ToPlanning, storeVars
<1>3. CASE PlannerAnswers(w) \/ PlannerFails(w) \/ SavePlan(w)
  BY <1>3, FencedNext DEF PlannerAnswers, PlannerFails, SavePlan
<1>4. CASE ApplyContract(w)
  BY <1>4 DEF ApplyContract, Write
<1>5. CASE AfterPlanning(w)
  BY <1>5, FencedNext DEF AfterPlanning, storeVars
<1>6. CASE RequirePlan(w)
  BY <1>6, FencedNext DEF RequirePlan, storeVars
<1>7. CASE SetupRaises(w)
  BY <1>7 DEF SetupRaises
<1> QED
  BY <1>1, <1>2, <1>3, <1>4, <1>5, <1>6, <1>7

LEMMA ImplementAgents ==
    ASSUME JobOK, NEW w \in Workers,
           \/ NewAttempt(w) \/ ToRunning(w) \/ RunAgent(w) \/ AgentEnds(w)
           \/ FinishAttempt(w) \/ AgentRaises(w)
    PROVE  AgentMoves(w)
<1> USE DEF ProcessOK, LocalsTypeOK, Goto, AgentMoves
<1>1. CASE NewAttempt(w) \/ RunAgent(w) \/ AgentEnds(w)
  BY <1>1 DEF NewAttempt, RunAgent, AgentEnds
<1>2. CASE ToRunning(w)
  BY <1>2, FencedNext DEF ToRunning
<1>3. CASE FinishAttempt(w) \/ AgentRaises(w)
  BY <1>3 DEF FinishAttempt, AgentRaises
<1> QED
  BY <1>1, <1>2, <1>3

LEMMA StageAgents ==
    ASSUME JobOK, NEW w \in Workers,
           VerifyPhase(w) \/ ReviewPhase(w) \/ PublishPhase(w)
    PROVE  AgentMoves(w)
<1> USE DEF ProcessOK, LocalsTypeOK, Goto, AgentMoves, Park
<1>1. CASE VerifyEnds(w)
  BY <1>1 DEF VerifyEnds
<1>2. CASE VerifyRaises(w) \/ NoContract(w) \/ ToReview(w) \/ Requeue(w)
  BY <1>2, FencedNext DEF VerifyRaises, NoContract, ToReview, Requeue
<1>3. CASE SetFix(w) \/ NoteFix(w)
  BY <1>3 DEF SetFix, NoteFix
<1>4. CASE ReviewPhase(w)
  BY <1>4, FencedNext DEF ReviewPhase, NoReview, ReviewEnds, ReviewFails, Verdict, storeVars
<1>5. CASE PublishFails(w) \/ Announce(w)
  BY <1>5, FencedNext DEF PublishFails, Announce
<1>6. CASE PublishEnds(w)
  BY <1>6 DEF PublishEnds, storeVars
<1>7. CASE RecordPR(w)
  BY <1>7 DEF RecordPR
<1> QED
  BY <1>1, <1>2, <1>3, <1>4, <1>5, <1>6, <1>7 DEF VerifyPhase, PublishPhase

LEMMA OwnAgents ==
    ASSUME Steady, SteadyJob, SteadyJob', AgentsOK, NEW w \in Workers, OwnStep(w),
           UNCHANGED cstep
    PROVE  AgentsOK'
<1>1. AgentMoves(w)
  BY FrameAgents, PlanAgents, ImplementAgents, StageAgents
     DEF OwnStep, WorkerStep, ImplementPhase, SteadyJob, OwnedJob, PipelineOK
<1>2. pc[w] # "off" /\ \A u \in Workers : u # w => pc'[u] = "off"
  BY DEF OwnStep
<1>3. \A c \in Controllers : cstep'[c] = "idle"
  BY <1>2 DEF AgentsOK
<1>4. CASE pc[w] = "contain"
  <2>1. status \in {"running", "cancelled"}
    BY <1>4, Expectations DEF SteadyJob, SteadyOK, PlaceOK
  <2>2. agents = {}
    BY <1>4 DEF AgentsOK
  <2>3. \/ agents' = {}
        \/ agents' = {w} /\ UNCHANGED status
    BY <1>1, <2>2 DEF AgentMoves
  <2>4. agents' # {} => pc'[w] = "running"
    BY <1>1, <2>2 DEF AgentMoves
  <2> QED
    BY <1>2, <1>3, <2>1, <2>3, <2>4 DEF AgentsOK
<1>5. CASE pc[w] # "contain"
  <2>1. pc'[w] # "running" /\ agents' = {}
    BY <1>1, <1>2, <1>5 DEF AgentMoves, AgentsOK
  <2> QED
    BY <1>3, <2>1 DEF AgentsOK
<1> QED
  BY <1>4, <1>5

LEMMA ControllerAgents ==
    ASSUME OneController, JobOK, ControllerOK, OwnerOK, AgentsOK, NEW c \in Controllers,
           ControllerStep(c) \/ Restart(c)
    PROVE  AgentsOK'
<1> USE DEF OneController, Continue, EndRecovery, EndSpawn, ControllerOK, ControllerTypeOK,
            ProcessOK
<1>1. ASSUME cstep'[c] # "idle" => \A w \in Workers : pc'[w] = "off",
             cstep'[c] \notin {"idle", "claimed"} => agents' = {},
             agents' \in {agents, {}},
             agents' # {} => UNCHANGED status,
             \A w \in Workers : pc'[w] \in {pc[w], "off"} \/ agents' = {}
      PROVE  AgentsOK'
  <2>1. \A d \in Controllers : d = c
    BY DEF OneController
  <2>2. ASSUME NEW w \in Workers, pc'[w] # "off", agents' # {}
        PROVE  agents' \subseteq (IF pc'[w] = "running" THEN {w} ELSE {})
    BY <1>1, <2>2 DEF AgentsOK
  <2>3. agents' = {} \/ \E w \in Workers : agents' = {w}
    BY <1>1 DEF AgentsOK
  <2>4. agents' # {} => status' \in {"running", "cancelled"}
    BY <1>1 DEF AgentsOK
  <2> QED
    BY <1>1, <2>1, <2>2, <2>3, <2>4 DEF AgentsOK
<1>2. CASE Claim(c)
  <2>1. /\ UNCHANGED <<status, agents, pc>> /\ cstep'[c] = "claimed" /\ lease = "expired"
    BY <1>2 DEF Claim, ClaimExpiredLease, workerVars
  <2>2. \A w \in Workers : pc[w] = "off"
    BY <2>1 DEF OwnerOK, Owns
  <2> QED
    BY <1>1, <2>1, <2>2
<1>3. CASE ReapContainers(c)
  <2>1. agents' = {} /\ UNCHANGED pc /\ cstep[c] # "idle"
    BY <1>3 DEF ReapContainers, workerVars
  <2> QED
    BY <1>1, <2>1 DEF AgentsOK
<1>4. CASE \/ RecoverRead(c) \/ Interrupted(c) \/ CloseOrphanedAttempt(c)
           \/ WriteRecovery(c) \/ RetryStage(c) \/ StageCrashedTooOften(c)
           \/ ParkCrashed(c)
  <2>1. /\ UNCHANGED <<agents, pc>> /\ cstep[c] \notin {"idle", "claimed"}
    BY <1>4 DEF RecoverRead, Interrupted, CloseOrphanedAttempt, WriteRecovery, RetryStage,
       StageCrashedTooOften, ParkCrashed, storeVars, workerVars
  <2> QED
    BY <1>1, <2>1 DEF AgentsOK
<1>5. CASE Schedule(c)
  <2>1. /\ UNCHANGED <<status, agents, pc>>
        /\ Schedulable
    BY <1>5 DEF Schedule, storeVars, workerVars
  <2>2. agents = {}
    BY <2>1 DEF Schedulable, SchedulableStatuses, AgentsOK
  <2>3. \A w \in Workers : pc[w] = "off"
    BY <2>1, NoWorkerAssumption DEF Schedulable, OwnerOK, Owns
  <2> QED
    BY <1>1, <2>1, <2>2, <2>3
<1>6. CASE Acquire(c) \/ PopenFails(c)
  <2>1. UNCHANGED <<agents, pc>> /\ cstep[c] \in {"acquire", "popen"}
    BY <1>6 DEF Acquire, PopenFails, workerVars
  <2> QED
    BY <1>1, <2>1 DEF AgentsOK
<1>7. CASE Popen(c)
  <2>1. UNCHANGED agents /\ cstep[c] = "popen" /\ cstep'[c] = "idle"
    BY <1>7 DEF Popen, storeVars
  <2> QED
    BY <1>1, <2>1 DEF AgentsOK
<1>8. CASE ReapProcess(c) \/ TerminateCancelled(c) \/ Restart(c)
  <2>1. /\ UNCHANGED <<status, agents>>
        /\ UNCHANGED cstep \/ cstep'[c] = "idle"
        /\ \A w \in Workers : pc'[w] \in {pc[w], "off"}
    BY <1>8 DEF ReapProcess, TerminateCancelled, Restart, Dies, Forget, Goto, workerVars
  <2> QED
    BY <1>1, <2>1 DEF AgentsOK
<1> QED
  BY <1>2, <1>3, <1>4, <1>5, <1>6, <1>7, <1>8 DEF ControllerStep, Recovery, Scheduling

LEMMA UntouchedAgents ==
    ASSUME AgentsOK, UNCHANGED <<agents, cstep>>,
           \A w \in Workers : pc'[w] \in {pc[w], "off"},
           UNCHANGED status \/ status' = "cancelled" \/ status \in RestStatus
    PROVE  AgentsOK'
<1>1. agents' # {} => status' \in {"running", "cancelled"}
  BY DEF AgentsOK, RestStatus, FailureStatuses
<1> QED
  BY <1>1 DEF AgentsOK

LEMMA HumanAgents ==
    ASSUME JobOK, CommandOK, SteadyOK, AgentsOK, Command \/ Edit \/ Handler
    PROVE  AgentsOK'
<1>1. UNCHANGED <<agents, pc, cstep>>
  BY HumanLeavesProcesses DEF Handler, Command, Edit, WritePlanDecision, ResetFix, MoveCore,
     MoveStatus, ResolveConflict, GrantLimit, ApprovePlan, RejectPlan, Resume, Retry, Recheck,
     Reprompt, Push, Repush, MarkMerged, Discard, RaiseLimit, Accept, workerVars, storeVars
<1>2. UNCHANGED status \/ status' = "cancelled" \/ status \in RestStatus
  <2>1. CASE Command \/ Edit
    BY <2>1 DEF Command, Edit, ApprovePlan, RejectPlan, Resume, Retry, Recheck, Reprompt,
       Push, Repush, MarkMerged, Discard, RaiseLimit, Accept, storeVars
  <2>2. CASE WritePlanDecision \/ ResetFix \/ GrantLimit
    BY <2>2 DEF WritePlanDecision, ResetFix, GrantLimit
  <2>3. CASE MoveCore \/ MoveStatus \/ ResolveConflict
    BY <2>3, MoveCoreSteps, MoveStatusSteps
  <2> QED
    BY <2>1, <2>2, <2>3 DEF Handler
<1> QED
  BY <1>1, <1>2, UntouchedAgents

LEMMA AgentsStep ==
    ASSUME OneController, Steady, SteadyJob, AgentsOK, [Next]_vars
    PROVE  AgentsOK'
<1> USE DEF SteadyJob, OwnedJob, PipelineOK
<1>1. ~Lapse /\ ~Poll /\ ~Poller /\ \A w \in Workers : ~StoreError(w)
  BY NothingToSpend
     DEF Steady, Uninterrupted, BudgetKinds, Lapse, StoreError, Poll, SteadyOK, Poller,
         StampPR, ApplyPoll, MarkConflicted
<1>2. ASSUME NEW w \in Workers, WorkerStep(w), UNCHANGED cstep
      PROVE  AgentsOK'
  <2>1. SteadyJob'
    BY SteadyStep
  <2>2. OwnStep(w)
    BY <1>2, MovesAlone
  <2> QED
    BY <1>2, <2>1, <2>2, OwnAgents
<1>3. ASSUME NEW w \in Workers, Heartbeat(w) \/ Dies(w), UNCHANGED cstep
      PROVE  AgentsOK'
  <2>1. UNCHANGED <<status, agents>>
    BY <1>3 DEF Heartbeat, Dies, storeVars
  <2>2. \A u \in Workers : pc'[u] \in {pc[u], "off"}
    BY <1>3 DEF Heartbeat, Dies, Forget, Goto, ProcessOK
  <2> QED
    BY <1>3, <2>1, <2>2, UntouchedAgents
<1>4. ASSUME LeaseExpires \/ UNCHANGED vars PROVE AgentsOK'
  <2>1. UNCHANGED <<status, agents, cstep, pc>>
    BY <1>4 DEF LeaseExpires, Expire, vars, storeVars, workerVars
  <2> QED
    BY <2>1, UntouchedAgents
<1> QED
  BY <1>1, <1>2, <1>3, <1>4, ControllerAgents, HumanAgents
     DEF Next, Process, Crash, Controller, ControllerRestart, Finish

\* With one controller, at most one implement container works on the worktree
\* of a steady job, through crashes, restarts and commands.
THEOREM OneAgentAtATime == OneController /\ Steady /\ Spec => []OneAgent
<1>1. Init => SteadyJob /\ AgentsOK
  BY SteadyInit DEF Init, StoreInit, WorkerInit, ControllerInit, AgentsOK
<1>2. OneController /\ Steady /\ SteadyJob /\ AgentsOK /\ [Next]_vars
          => SteadyJob' /\ AgentsOK'
  BY SteadyStep, AgentsStep
<1>3. AgentsOK => OneAgent
  <2> SUFFICES ASSUME AgentsOK PROVE Cardinality(agents) <= 1
    BY DEF OneAgent
  <2>1. CASE agents = {}
    BY <2>1, FS_EmptySet
  <2>2. ASSUME NEW w \in Workers, agents = {w} PROVE Cardinality(agents) <= 1
    BY <2>2, FS_Singleton
  <2> QED
    BY <2>1, <2>2 DEF AgentsOK
<1>4. (Steady' <=> Steady) /\ (OneController' <=> OneController)
  BY DEF Steady, Uninterrupted, OneController
<1> QED
  BY <1>1, <1>2, <1>3, <1>4, PTL DEF Spec

-----------------------------------------------------------------------------
(* No job is left in a status nobody works on and nobody schedules, if the    *)
(* one controller is not restarted and no edit bumps the version of the row   *)
(* while it recovers the job: either makes the recovery give up for good.     *)

Attended ==
    OneController /\ Steady /\ Budget["edit"] = 0 /\ Budget["restart"] = 0

\* Not scheduled: only the worker that holds the lease, or the recovery of a
\* lease that has lapsed, takes the job on.
AtRisk == {"preparing", "running"}

\* Steps of a worker that is about to let go of the lease.
LastSteps == {"exit", "refused", "planned"}

OrphanOK ==
    /\ status \in AtRisk /\ worker = NoWorker =>
          \E c \in Controllers :
             \/ cstep[c] \in {"claimed", "read"}
             \/ cstep[c] \in {"decide", "close", "write"} /\ c \in fresh
    /\ \A c \in Controllers : cstep[c] \in {"acquire", "popen"} => status \notin AtRisk
    /\ \A w \in Workers : pc[w] \in LastSteps \cup {"boot"} => status \notin AtRisk
    /\ \A w \in Workers :
          pc[w] = "finish" /\ result[w] = "cancelled" => status = "cancelled"
    /\ cmd.step # "raise"

\* A worker gives up a job only after it has taken it out of these statuses.
Closes(w) ==
    /\ pc'[w] \in LastSteps => status' \notin AtRisk
    /\ pc'[w] = "finish" /\ result'[w] = "cancelled" => status' = "cancelled"

LEMMA RiskMoves ==
    /\ \A from \in AtRisk, to \in {"running", "needs_human", "failed", "environment_error"} :
          LegalMove(from, to)
    /\ \A to \in {"verifying", "queued"} : LegalMove("running", to)
    /\ \A to \in {"planning", "recovering"} : LegalMove("preparing", to)
    /\ LegalMove("running", "recovering")
BY DEF AtRisk, LegalMove, StatusTransitions, FailureStatuses

LEMMA FencedCloses ==
    ASSUME JobOK, OwnerOK, NEW w \in Workers, pc[w] # "off",
           NEW to, NEW reason, NEW missing, NEW next,
           FencedMove(w, to, reason, missing, next),
           status \in AtRisk => LegalMove(status, to),
           next \in LastSteps => to \notin AtRisk, next # "finish"
    PROVE  Closes(w)
<1>1. Owns(w)
  BY DEF OwnerOK
<1>2. CASE Refuse(w, to)
  BY <1>2 DEF Refuse, Goto, ProcessOK, Closes
<1>3. CASE AlreadyThere(w, to, next) \/ Write(w, to, reason, missing, next)
  <2>1. status' = to /\ pc'[w] = next
    BY <1>3 DEF AlreadyThere, Write, AdvanceTo, WriteStatus, Goto, ProcessOK
  <2> QED
    BY <2>1 DEF Closes
<1> QED
  BY <1>1, <1>2, <1>3 DEF FencedMove, LoseOut

LEMMA FrameCloses ==
    ASSUME JobOK, OwnerOK, PlaceOK, OrphanOK, NEW w \in Workers,
           Boot(w) \/ AskModel(w) \/ Refused(w) \/ Exit(w)
    PROVE  Closes(w)
<1> USE DEF ProcessOK, LocalsTypeOK, Goto, Closes, OrphanOK, LastSteps
<1>1. CASE Boot(w)
  BY <1>1 DEF Boot, FirstStep, PhaseKnown, Phases
<1>2. CASE AskModel(w)
  BY <1>2 DEF AskModel
<1>3. CASE Refused(w)
  BY <1>3 DEF Refused, AdvanceTo, WriteStatus, AtRisk
<1>4. CASE Exit(w)
  BY <1>4 DEF Exit, Forget
<1> QED
  BY <1>1, <1>2, <1>3, <1>4

LEMMA PlanCloses ==
    ASSUME JobOK, OwnerOK, PlaceOK, OrphanOK, NEW w \in Workers,
           \/ ToPreparing(w) \/ Prepare(w) \/ PrepareFails(w)
           \/ ModelsUnset(w) \/ NoPlanning(w) \/ ToPlanning(w)
           \/ PlannerAnswers(w) \/ PlannerFails(w) \/ SavePlan(w)
           \/ ApplyContract(w) \/ AfterPlanning(w) \/ RequirePlan(w)
           \/ SetupRaises(w)
    PROVE  Closes(w)
<1> USE RiskMoves DEF LastSteps
<1>1. CASE ToPreparing(w)
  <2>1. pc[w] = "start" /\ status \notin AtRisk
    BY <1>1, Expectations DEF ToPreparing, PlaceOK, AtRisk
  <2> QED
    BY <1>1, <2>1, FencedCloses DEF ToPreparing
<1>2. CASE Prepare(w) \/ NoPlanning(w) \/ SavePlan(w)
  BY <1>2 DEF Prepare, NoPlanning, SavePlan, Goto, ProcessOK, Closes
<1>3. CASE PrepareFails(w)
  BY <1>3, FencedCloses DEF PrepareFails, AtRisk
<1>4. CASE ModelsUnset(w)
  BY <1>4, FencedCloses DEF ModelsUnset, Park, AtRisk
<1>5. CASE ToPlanning(w)
  <2>1. pc[w] = "plan" /\ status \in {"preparing", "planning", "cancelled"}
    BY <1>5, Expectations DEF ToPlanning, PlaceOK
  <2> QED
    BY <1>5, <2>1, FencedCloses DEF ToPlanning, AtRisk
<1>6. CASE PlannerAnswers(w)
  <2>1. status \notin AtRisk
    BY <1>6, Expectations DEF PlannerAnswers, PlaceOK, AtRisk
  <2> QED
    BY <1>6, <2>1 DEF PlannerAnswers, Goto, ProcessOK, Closes
<1>7. CASE PlannerFails(w)
  <2>1. CASE Park(w, "paused")
    BY <1>7, <2>1, FencedCloses DEF PlannerFails, Park, AtRisk
  <2>2. CASE FencedMove(w, "failed", "none", TRUE, "exit")
    BY <1>7, <2>2, FencedCloses DEF PlannerFails, AtRisk
  <2> QED
    BY <1>7, <2>1, <2>2 DEF PlannerFails
<1>8. CASE ApplyContract(w)
  <2>1. status \notin AtRisk
    BY <1>8, Expectations DEF ApplyContract, PlaceOK, AtRisk
  <2> QED
    BY <1>8, <2>1 DEF ApplyContract, Write, AdvanceTo, WriteStatus, Goto, ProcessOK,
                      Closes, AtRisk
<1>9. CASE AfterPlanning(w)
  <2>1. status \notin AtRisk /\ pc[w] # "off"
    BY <1>9 DEF AfterPlanning, OrphanOK
  <2>2. CASE Park(w, "plan_review")
    BY <2>1, <2>2, FencedCloses DEF Park, AtRisk
  <2>3. CASE ~Park(w, "plan_review")
    BY <1>9, <2>1, <2>3 DEF AfterPlanning, Goto, ProcessOK, Closes
  <2> QED
    BY <2>2, <2>3
<1>10. CASE RequirePlan(w)
  <2>1. CASE Staged /\ ~meta.approved
    <3>1. PICK reason : FencedMove(w, "needs_human", reason, FALSE, "exit")
      BY <1>10, <2>1 DEF RequirePlan, Park
    <3> QED
      BY <1>10, <3>1, FencedCloses DEF RequirePlan, AtRisk
  <2>2. CASE ~(Staged /\ ~meta.approved)
    BY <1>10, <2>2 DEF RequirePlan, Goto, ProcessOK, Closes
  <2> QED
    BY <2>1, <2>2
<1>11. CASE SetupRaises(w)
  <2>1. Owns(w) /\ pc'[w] = "exit"
    BY <1>11 DEF SetupRaises, OwnerOK, Goto, ProcessOK
  <2>2. status' \notin AtRisk
    BY <1>11, <2>1 DEF SetupRaises, AdvanceTo, WriteStatus, AtRisk
  <2> QED
    BY <2>1, <2>2 DEF Closes
<1> QED
  BY <1>1, <1>2, <1>3, <1>4, <1>5, <1>6, <1>7, <1>8, <1>9, <1>10, <1>11

LEMMA AgentCloses ==
    ASSUME JobOK, OwnerOK, PlaceOK, OutcomeOK, OrphanOK, NEW w \in Workers,
           \/ NewAttempt(w) \/ ToRunning(w) \/ RunAgent(w) \/ AgentEnds(w)
           \/ FinishAttempt(w) \/ AgentRaises(w)
    PROVE  Closes(w)
<1> USE RiskMoves DEF LastSteps
<1>1. CASE NewAttempt(w) \/ RunAgent(w)
  BY <1>1 DEF NewAttempt, RunAgent, Goto, ProcessOK, Closes
<1>2. CASE ToRunning(w)
  BY <1>2, FencedCloses DEF ToRunning
<1>3. CASE AgentEnds(w)
  <2>1. Owned(w)
    BY <1>3 DEF AgentEnds, OwnerOK, Owned
  <2>2. pc'[w] = "finish" /\ UNCHANGED status
    BY <1>3, <2>1 DEF AgentEnds, Goto, ProcessOK
  <2>3. PICK r \in Outcomes :
            result' = [result EXCEPT ![w] = IF status = "cancelled" THEN "cancelled" ELSE r]
    BY <1>3, <2>1 DEF AgentEnds
  <2>4. result'[w] = "cancelled" => status = "cancelled"
    BY <2>3 DEF ProcessOK, LocalsTypeOK, Outcomes
  <2> QED
    BY <2>2, <2>4 DEF Closes
<1>4. CASE FinishAttempt(w)
  <2>1. Owns(w) /\ pc[w] = "finish" /\ pc'[w] \in {"exit", "refused"}
    BY <1>4 DEF FinishAttempt, OwnerOK, Goto, ProcessOK
  <2>2. status \in {"running", "cancelled"}
    BY <2>1, Expectations DEF PlaceOK
  <2>3. CASE status = "cancelled"
    <3>1. \A to : LegalMove("cancelled", to) <=> to = "cancelled"
      BY WorkerTable
    <3>2. result[w] \in Outcomes => JobEnd(result[w]) # "cancelled"
      BY DEF Outcomes, JobEnd, Retried
    <3>3. result[w] \in Outcomes \cup {"cancelled"}
      BY <2>1 DEF OutcomeOK, ProcessOK, LocalsTypeOK
    <3>4. UNCHANGED status
      BY <1>4, <2>1, <2>3, <3>1, <3>2, <3>3 DEF FinishAttempt
    <3> QED
      BY <2>1, <2>3, <3>4 DEF Closes, AtRisk
  <2>4. CASE status = "running"
    <3>1. result[w] \in Outcomes
      BY <2>1, <2>4 DEF OutcomeOK, ProcessOK, LocalsTypeOK, OrphanOK
    <3>2. JobEnd(result[w]) \in {"verifying", "needs_human", "environment_error",
                                 "queued", "failed"}
      BY <3>1 DEF Outcomes, JobEnd
    <3>3. LegalMove(status, JobEnd(result[w])) /\ result[w] # "cancelled"
      BY <2>4, <3>1, <3>2 DEF AtRisk, Outcomes
    <3>4. status' = JobEnd(result[w])
      BY <1>4, <2>1, <3>3 DEF FinishAttempt, EndJob, WriteStatus
    <3> QED
      BY <2>1, <3>2, <3>4 DEF Closes, AtRisk
  <2> QED
    BY <2>2, <2>3, <2>4
<1>5. CASE AgentRaises(w)
  <2>1. Owns(w) /\ pc'[w] = "exit" /\ pc[w] \in {"contain", "running"}
    BY <1>5 DEF AgentRaises, OwnerOK, Goto, ProcessOK
  <2>2. \/ status' = "failed"
        \/ ~LegalMove(status, "failed") /\ UNCHANGED status
    BY <1>5, <2>1 DEF AgentRaises, EndJob, WriteStatus
  <2>3. status' \notin AtRisk
    BY <2>2 DEF AtRisk
  <2> QED
    BY <2>1, <2>3 DEF Closes
<1> QED
  BY <1>1, <1>2, <1>3, <1>4, <1>5

LEMMA StageCloses ==
    ASSUME JobOK, OwnerOK, PlaceOK, NEW w \in Workers,
           VerifyPhase(w) \/ ReviewPhase(w) \/ PublishPhase(w)
    PROVE  Closes(w)
<1> USE DEF LastSteps
<1>1. pc[w] \in VerifySteps \cup ReviewSteps \cup PublishSteps
  BY DEF VerifyPhase, VerifyEnds, VerifyRaises, NoContract, ToReview, SetFix, NoteFix,
         Requeue, ReviewPhase, NoReview, ReviewEnds, ReviewFails, Verdict,
         PublishPhase, PublishFails, PublishEnds, RecordPR, Announce,
         VerifySteps, ReviewSteps, PublishSteps
<1>2. pc[w] # "off" /\ status \notin AtRisk
  BY <1>1, Expectations
     DEF PlaceOK, AtRisk, VerifySteps, ReviewSteps, PublishSteps
<1>3. ASSUME NEW to, NEW reason, NEW missing, to \notin AtRisk,
             FencedMove(w, to, reason, missing, "exit")
      PROVE  Closes(w)
  BY <1>2, <1>3, FencedCloses
<1>4. ASSUME status' \notin AtRisk, pc'[w] # "finish" PROVE Closes(w)
  BY <1>4 DEF Closes
<1>5. CASE VerifyEnds(w)
  BY <1>2, <1>4, <1>5 DEF VerifyEnds, Goto, ProcessOK
<1>6. CASE VerifyRaises(w)
  <2>1. status' \in {"needs_human", "failed", status} /\ pc'[w] = "exit"
    BY <1>6 DEF VerifyRaises, AdvanceTo, WriteStatus, Goto, ProcessOK
  <2> QED
    BY <1>2, <1>4, <2>1 DEF AtRisk
<1>7. CASE NoContract(w) \/ ToReview(w) \/ Requeue(w)
  <2>1. PICK to \in {"needs_human", "reviewing", "queued"},
             reason \in Reasons, missing \in BOOLEAN :
            FencedMove(w, to, reason, missing, "exit")
    BY <1>7 DEF NoContract, ToReview, Requeue, Park, Reasons
  <2> QED
    BY <1>3, <2>1 DEF AtRisk
<1>8. CASE SetFix(w) \/ NoteFix(w)
  BY <1>2, <1>4, <1>8 DEF SetFix, NoteFix, Goto, ProcessOK
<1>9. CASE NoReview(w) \/ ReviewEnds(w)
  BY <1>2, <1>4, <1>9 DEF NoReview, ReviewEnds, Goto, ProcessOK, storeVars
<1>10. CASE ReviewFails(w) \/ Verdict(w)
  <2>1. CASE \/ FencedMove(w, "failed", "none", TRUE, "exit")
             \/ Park(w, "paused") \/ Park(w, "review_done")
    <3>1. PICK to \in {"failed", "needs_human"}, reason \in Reasons,
               missing \in BOOLEAN : FencedMove(w, to, reason, missing, "exit")
      BY <2>1 DEF Park, Reasons
    <3> QED
      BY <1>3, <3>1 DEF AtRisk
  <2>2. CASE UNCHANGED status /\ pc'[w] = "exit"
    BY <1>2, <1>4, <2>2
  <2> QED
    BY <1>10, <2>1, <2>2 DEF ReviewFails, Verdict, Goto, ProcessOK
<1>11. CASE PublishFails(w) \/ Announce(w)
  <2>1. PICK to \in {"needs_human", "ready_for_review"},
             reason \in Reasons, missing \in BOOLEAN :
            FencedMove(w, to, reason, missing, "exit")
    BY <1>11 DEF PublishFails, Announce, Park, Reasons
  <2> QED
    BY <1>3, <2>1 DEF AtRisk
<1>12. CASE PublishEnds(w) \/ RecordPR(w)
  BY <1>2, <1>4, <1>12 DEF PublishEnds, RecordPR, Goto, ProcessOK, storeVars
<1> QED
  BY <1>5, <1>6, <1>7, <1>8, <1>9, <1>10, <1>11, <1>12
     DEF VerifyPhase, ReviewPhase, PublishPhase

LEMMA ControllerTerminal ==
    ASSUME JobOK, ControllerOK, NEW c \in Controllers, ControllerStep(c)
    PROVE  status \in TerminalStatuses => status' = status
BY RecoveryOK, SpawnOK DEF ControllerStep, RowKept

\* A command that moves a job at rest lets a controller schedule it.
LEMMA RestLeftSafely ==
    ASSUME JobOK, CommandOK, SteadyOK, Handler, status \in RestStatus
    PROVE  status' \notin AtRisk
<1>1. status \notin AtRisk
  BY DEF RestStatus, FailureStatuses, AtRisk
<1>2. CASE WritePlanDecision \/ ResetFix \/ GrantLimit
  BY <1>1, <1>2 DEF WritePlanDecision, ResetFix, GrantLimit
<1>3. CASE MoveCore
  <2>1. cmd.to \in CommandTargets \ {"review_done"}
    BY <1>3 DEF MoveCore, SteadyOK, CommandGates, CommandOK, CommandKnown
  <2>2. UNCHANGED status \/ status' = CoreTargetStatus(cmd.to, cmd.to = "implementing")
    BY <1>3 DEF MoveCore, CoreCommand, TransitionCore, WriteStatus
  <2> QED
    BY <1>1, <2>1, <2>2 DEF CommandTargets, CoreTargetStatus, LegacyStatus, WAITING, AtRisk
<1>4. CASE MoveStatus
  BY <1>1, <1>4 DEF MoveStatus, HumanMove, AdvanceTo, WriteStatus, SteadyOK, CommandGates, AtRisk
<1>5. CASE ResolveConflict
  BY <1>1, <1>5 DEF ResolveConflict, AdvanceTo, WriteStatus, AtRisk
<1> QED
  BY <1>2, <1>3, <1>4, <1>5 DEF Handler

LEMMA OwnCloses ==
    ASSUME Steady, SteadyJob, SteadyJob', AgentsOK, OrphanOK, NEW w \in Workers,
           OwnStep(w), UNCHANGED <<cstep, cmd>>
    PROVE  OrphanOK'
<1> USE DEF SteadyJob, OwnedJob, PipelineOK, SteadyOK
<1>1. Closes(w)
  BY FrameCloses, PlanCloses, AgentCloses, StageCloses
     DEF OwnStep, WorkerStep, ImplementPhase
<1>2. pc[w] # "off" /\ worker = w /\ \A u \in Workers : u # w => pc'[u] = "off"
  BY DEF OwnStep, OwnerOK, Owns
<1>3. \A c \in Controllers : cstep'[c] = "idle"
  BY <1>2 DEF AgentsOK
<1>4. pc'[w] # "boot"
  <2>1. MovesOn(w)
    BY FrameKept, ImplementKept, VerifyKept, ReviewKept, PublishKept
       DEF OwnStep, WorkerStep, WorkerKept
  <2> QED
    BY <2>1 DEF MovesOn, Goto, ProcessOK
<1>5. status' \in AtRisk => worker' # NoWorker
  <2>1. CASE StaysOwner(w)
    BY <1>2, <2>1, NoWorkerAssumption DEF StaysOwner
  <2>2. CASE Exit(w)
    BY <2>2 DEF Exit, OrphanOK, LastSteps
  <2> QED
    BY <2>1, <2>2, WorkerStays DEF OwnStep
<1> QED
  BY <1>1, <1>2, <1>3, <1>4, <1>5 DEF OrphanOK, Closes, LastSteps

LEMMA ControllerAttends ==
    ASSUME OneController, JobOK, ControllerOK, OwnerOK, SteadyOK, AgentsOK, OrphanOK,
           NEW c \in Controllers, ControllerStep(c), UNCHANGED cmd
    PROVE  OrphanOK'
<1> USE DEF Continue, EndRecovery, EndSpawn, ControllerOK, ControllerTypeOK, OrphanOK
<1>1. \A d \in Controllers : d = c
  BY DEF OneController
<1>2. status' \in AtRisk => status' = status
  BY ControllerRow DEF AtRisk
<1>3. \A w \in Workers : /\ pc'[w] \in {pc[w], "off", "boot"}
                         /\ pc'[w] \notin {"off", "boot"} => result'[w] = result[w]
  <2>1. CASE TerminateCancelled(c)
    <3>1. /\ pc' = [pc EXCEPT ![active[c]] = "off"]
          /\ result' = [result EXCEPT ![active[c]] = "none"]
      BY <2>1 DEF TerminateCancelled, Dies, Forget, Goto
    <3> QED
      BY <3>1 DEF ProcessOK, LocalsTypeOK
  <2>2. CASE ~TerminateCancelled(c)
    <3>1. UNCHANGED result
      BY <2>2 DEF ControllerStep, Recovery, Scheduling, Claim, ReapContainers,
         RecoverRead, Interrupted, CloseOrphanedAttempt, WriteRecovery, RetryStage,
         StageCrashedTooOften, ParkCrashed, Schedule, Acquire, Popen, PopenFails,
         ReapProcess, workerVars
    <3> QED
      BY <3>1, ControllerRow
  <2> QED
    BY <2>1, <2>2
<1>4. status = "cancelled" => status' = "cancelled"
  BY ControllerTerminal DEF TerminalStatuses
<1>5. ASSUME status' \in AtRisk /\ worker' = NoWorker =>
                \/ cstep'[c] \in {"claimed", "read"}
                \/ cstep'[c] \in {"decide", "close", "write"} /\ c \in fresh',
             cstep'[c] \in {"acquire", "popen"} => status' \notin AtRisk,
             \A w \in Workers : pc'[w] = "boot" => pc[w] = "boot" \/ status' \notin AtRisk
      PROVE  OrphanOK'
  BY <1>1, <1>2, <1>3, <1>4, <1>5 DEF LastSteps
<1>6. CASE Claim(c)
  BY <1>5, <1>6 DEF Claim, workerVars
<1>7. CASE ReapContainers(c) \/ Interrupted(c) \/ CloseOrphanedAttempt(c)
  <2>1. /\ UNCHANGED <<status, worker, fresh, pc>>
        /\ cstep'[c] \in {"read", "close", "write"}
        /\ \/ cstep[c] = "claimed" /\ cstep'[c] = "read"
           \/ cstep[c] \in {"decide", "close"}
    BY <1>7 DEF ReapContainers, Interrupted, CloseOrphanedAttempt, storeVars, workerVars
  <2> QED
    BY <1>1, <1>5, <2>1
<1>8. CASE RecoverRead(c)
  <2>1. UNCHANGED <<status, worker, pc>> /\ cstep'[c] \in {"decide", "idle"}
    BY <1>8 DEF RecoverRead, workerVars
  <2>2. status \in AtRisk /\ worker = NoWorker => cstep'[c] = "decide" /\ c \in fresh'
    BY <1>8 DEF RecoverRead, AtRisk
  <2> QED
    BY <1>5, <2>1, <2>2
<1>9. CASE WriteRecovery(c)
  <2>1. /\ UNCHANGED <<worker, pc>> /\ cstep'[c] = "idle" /\ cstep[c] = "write"
    BY <1>9 DEF WriteRecovery, workerVars
  <2>2. status \in AtRisk /\ worker = NoWorker => status' \notin AtRisk
    <3> SUFFICES ASSUME status \in AtRisk, worker = NoWorker PROVE status' \notin AtRisk
      OBVIOUS
    <3>1. c \in fresh /\ cstatus[c] = status
      BY <1>1, <2>1 DEF SteadyOK, FreshOK
    <3>2. PICK to \in {"planning", "recovering"} :
              /\ to = "planning" => cstatus[c] = "preparing"
              /\ VersionedMove(c, to, "none")
      BY <1>9 DEF WriteRecovery
    <3>3. LegalMove(status, to) /\ status # to
      BY <3>1, <3>2, RiskMoves DEF AtRisk
    <3> QED
      BY <3>1, <3>2, <3>3 DEF VersionedMove, AdvanceTo, WriteStatus, AtRisk
  <2> QED
    BY <1>2, <1>5, <2>1, <2>2
<1>10. CASE RetryStage(c) \/ StageCrashedTooOften(c) \/ ParkCrashed(c)
  <2>1. /\ UNCHANGED <<worker, pc>> /\ cstep'[c] \notin {"acquire", "popen"}
        /\ \/ cstep[c] = "decide" /\ cstatus[c] \in StageRetryStatuses
           \/ cstep[c] = "park"
    BY <1>10 DEF RetryStage, StageCrashedTooOften, ParkCrashed, storeVars, workerVars
  <2>2. ~(status \in AtRisk /\ worker = NoWorker)
    <3>1. status \in AtRisk /\ c \in fresh /\ cstep[c] = "decide" =>
              cstatus[c] \notin StageRetryStatuses
      BY DEF SteadyOK, FreshOK, AtRisk, StageRetryStatuses
    <3> QED
      BY <1>1, <2>1, <3>1
  <2> QED
    BY <1>2, <1>5, <2>1, <2>2
<1>11. CASE Schedule(c)
  <2>1. UNCHANGED <<status, pc>> /\ Schedulable
    BY <1>11 DEF Schedule, storeVars, workerVars
  <2>2. status \notin AtRisk
    BY <2>1 DEF Schedulable, SchedulableStatuses, AtRisk
  <2> QED
    BY <1>5, <2>1, <2>2
<1>12. CASE Acquire(c) \/ Popen(c) \/ PopenFails(c)
  <2>1. UNCHANGED status /\ cstep[c] \in {"acquire", "popen"}
    BY <1>12 DEF Acquire, Popen, PopenFails, storeVars
  <2>2. status' \notin AtRisk
    BY <2>1
  <2> QED
    BY <1>5, <2>2
<1>13. CASE ReapProcess(c) \/ TerminateCancelled(c)
  <2>1. /\ UNCHANGED <<status, cstep>>
        /\ status = "cancelled" \/ UNCHANGED <<worker, fresh>>
        /\ \A w \in Workers : pc'[w] = "boot" => pc[w] = "boot"
    BY <1>13 DEF ReapProcess, TerminateCancelled, Dies, Forget, Goto, workerVars, ProcessOK
  <2> QED
    BY <1>1, <1>5, <2>1 DEF AtRisk
<1> QED
  BY <1>6, <1>7, <1>8, <1>9, <1>10, <1>11, <1>12, <1>13
     DEF ControllerStep, Recovery, Scheduling

\* A command leaves a job that is worked on, and the version of its row, alone.
LEMMA HumanAttends ==
    ASSUME JobOK, CommandOK, SteadyOK, OrphanOK, RowKept, Command \/ Handler
    PROVE  OrphanOK'
<1> USE DEF OrphanOK
<1>1. UNCHANGED <<worker, pc, result, cstep>>
  BY HumanLeavesProcesses DEF Handler, Command, WritePlanDecision, ResetFix, MoveCore,
     MoveStatus, ResolveConflict, GrantLimit, ApprovePlan, RejectPlan, Resume, Retry, Recheck,
     Reprompt, Push, Repush, MarkMerged, Discard, Accept, workerVars, storeVars
<1>2. cmd'.step # "raise"
  <2>1. CASE Command
    <3>1. PICK step, to : step # "raise" /\ Accept(step, to)
      BY <2>1 DEF Command, ApprovePlan, RejectPlan, Resume, Retry, Recheck, Reprompt, Push,
                  Repush, MarkMerged, Discard
    <3> QED
      BY <3>1 DEF Accept
  <2>2. CASE Handler
    <3>1. \/ cmd' = NoCommand
          \/ Proceed("move") \/ Proceed("core")
      BY <2>2 DEF Handler, WritePlanDecision, ResetFix, MoveCore, MoveStatus,
                  ResolveConflict, GrantLimit
    <3>2. CASE cmd' = NoCommand
      BY <3>2 DEF NoCommand
    <3>3. CASE Proceed("move")
      BY <3>3 DEF Proceed, CommandOK, CommandTypeOK
    <3>4. CASE Proceed("core")
      BY <3>4 DEF Proceed, CommandOK, CommandTypeOK
    <3> QED
      BY <3>1, <3>2, <3>3, <3>4
  <2> QED
    BY <2>1, <2>2
<1>3. status' \in AtRisk => UNCHANGED <<status, fresh>>
  <2>1. CASE Command
    BY <2>1 DEF Command, ApprovePlan, RejectPlan, Resume, Retry, Recheck, Reprompt, Push,
                Repush, MarkMerged, Discard, Accept, storeVars
  <2>2. CASE Handler /\ status \in RestStatus
    BY <2>2, RestLeftSafely
  <2>3. CASE Handler /\ status \notin RestStatus
    <3>1. cmd.to = "cancelled" /\ cmd.step \notin {"approve", "reject", "core", "resetFix"}
      BY <2>3 DEF SteadyOK, CommandRests, Harmless, CommandOK, CommandKnown, CommandTargets,
                  Handler, WritePlanDecision, ResetFix, MoveCore, MoveStatus,
                  ResolveConflict, GrantLimit
    <3>2. CASE MoveStatus
      BY <3>1, <3>2 DEF MoveStatus, HumanMove, AdvanceTo, WriteStatus, AtRisk
    <3>3. CASE ResolveConflict
      BY <2>3, <3>3 DEF ResolveConflict, RestStatus
    <3> QED
      BY <2>3, <3>1, <3>2, <3>3 DEF Handler, WritePlanDecision, ResetFix, MoveCore, GrantLimit
  <2> QED
    BY <2>1, <2>2, <2>3
<1>4. status = "cancelled" => status' = "cancelled"
  BY DEF RowKept, TerminalStatuses
<1> QED
  BY <1>1, <1>2, <1>3, <1>4

LEMMA OrphanStep ==
    ASSUME Attended, SteadyJob, AgentsOK, OrphanOK, [Next]_vars
    PROVE  OrphanOK'
<1> USE DEF SteadyJob, OwnedJob, PipelineOK, Attended
<1>1. /\ ~Lapse /\ ~Poll /\ ~Poller /\ ~Edit
      /\ \A w \in Workers : ~StoreError(w)
      /\ \A c \in Controllers : ~ControllerRestart(c)
  BY NothingToSpend
     DEF Steady, Uninterrupted, BudgetKinds, Lapse, StoreError, Poll, SteadyOK, Poller,
         StampPR, ApplyPoll, MarkConflicted, Edit, ControllerRestart
<1>2. ASSUME NEW w \in Workers, WorkerStep(w), UNCHANGED <<cstep, cmd>>
      PROVE  OrphanOK'
  <2>1. SteadyJob'
    BY SteadyStep
  <2>2. OwnStep(w)
    BY <1>2, MovesAlone
  <2> QED
    BY <1>2, <2>1, <2>2, OwnCloses
<1>3. ASSUME NEW w \in Workers, Heartbeat(w) \/ Dies(w), UNCHANGED <<cstep, cmd>>
      PROVE  OrphanOK'
  <2>1. UNCHANGED <<status, worker, fresh>>
    BY <1>3 DEF Heartbeat, Dies
  <2>2. \A u \in Workers : \/ pc'[u] = pc[u] /\ result'[u] = result[u]
                           \/ pc'[u] = "off"
    BY <1>3 DEF Heartbeat, Dies, Forget, Goto, ProcessOK, LocalsTypeOK
  <2> QED
    BY <1>3, <2>1, <2>2 DEF OrphanOK, LastSteps
<1>4. ASSUME LeaseExpires \/ UNCHANGED vars PROVE OrphanOK'
  <2>1. UNCHANGED <<status, worker, fresh, cstep, cmd, pc, result>>
    BY <1>4 DEF LeaseExpires, Expire, vars, storeVars, workerVars
  <2> QED
    BY <2>1 DEF OrphanOK
<1>5. CASE Command \/ Handler
  <2>1. RowKept
    <3>1. CASE Command
      BY <3>1, CommandsOK DEF Command
    <3>2. CASE Handler
      BY <3>2, HandlerOK
    <3> QED
      BY <1>5, <3>1, <3>2
  <2> QED
    BY <1>5, <2>1, HumanAttends
<1> QED
  BY <1>1, <1>2, <1>3, <1>4, <1>5, ControllerAttends
     DEF Next, Process, Crash, Controller, Finish

\* A preparing or running job has a worker with a lease, or the controller is
\* recovering it: no crash, at whatever step and however often, and no command
\* leaves it where nobody takes it on.
THEOREM NobodyForgotten == Attended /\ Spec => []NoOrphan
<1>1. Init => SteadyJob /\ AgentsOK /\ OrphanOK
  BY SteadyInit DEF Init, StoreInit, WorkerInit, ControllerInit, CommandInit, NoCommand,
                    AgentsOK, OrphanOK, AtRisk, LastSteps
<1>2. Attended /\ SteadyJob /\ AgentsOK /\ OrphanOK /\ [Next]_vars
          => SteadyJob' /\ AgentsOK' /\ OrphanOK'
  BY SteadyStep, AgentsStep, OrphanStep DEF Attended
<1>3. OrphanOK => NoOrphan
  BY DEF OrphanOK, NoOrphan, AtRisk
<1>4. Attended' <=> Attended
  BY DEF Attended, Steady, Uninterrupted, OneController
<1> QED
  BY <1>1, <1>2, <1>3, <1>4, PTL DEF Spec
=============================================================================
