--------------------------- MODULE JobWorker_proofs ---------------------------
(* Every step of a worker process keeps the row of the job typed, its two     *)
(* columns in agreement and its terminal statuses final, and the variables of *)
(* the process typed; for any set of workers, lease held or lost.             *)
EXTENDS JobWorker, JobStore_proofs

\* A process that boots has been told its phase.
PhaseKnown == \A w \in Workers : pc[w] = "boot" => phase[w] \in Phases

ProcessOK == WorkerTypeOK /\ PhaseKnown

JobOK == RowOK /\ OtherTypeOK /\ ProcessOK

\* A step of w: it moves w alone, and not back to the start of a process.
MovesOn(w) == \E step \in WorkerSteps \ {"boot"} : Goto(w, step)

WorkerKept(w) ==
    /\ RowKept
    /\ OtherTypeOK'
    /\ LocalsTypeOK'
    /\ MovesOn(w)
    /\ phase' \in {phase, [phase EXCEPT ![w] = "none"]}

USE DEF WorkerTypeOK, rowVars, leaseVars, metaVars, attemptVars, workVars, locals, JobOK

LEMMA StepNames ==
    WorkerSteps \ {"boot"} =
        {"start", "prepare", "plan", "ask", "planning", "savePlan", "contract",
         "planned", "gate", "attempt", "launch", "contain", "running", "finish",
         "verify", "noContract", "toReview", "setFix", "noteFix", "requeue",
         "review", "reviewing", "verdict", "publish", "recordPR", "announce",
         "refused", "off", "exit"}
BY DEF WorkerSteps, BodySteps, ImplementSteps, VerifySteps, ReviewSteps,
       PublishSteps

\* A step that leaves the process and its phase typed leaves PhaseKnown true.
LEMMA WorkerKeptOK ==
    ASSUME JobOK, NEW w \in Workers, WorkerKept(w)
    PROVE  JobOK'
<1>1. PICK step \in WorkerSteps \ {"boot"} : pc' = [pc EXCEPT ![w] = step]
  BY DEF WorkerKept, MovesOn, Goto
<1>2. pc' \in [Workers -> WorkerSteps]
  BY <1>1 DEF ProcessOK
<1>3. PhaseKnown'
  BY <1>1 DEF WorkerKept, ProcessOK, PhaseKnown, LocalsTypeOK
<1> QED
  BY <1>2, <1>3 DEF WorkerKept, ProcessOK, RowKept

\* A fenced status write: made, refused, superseded or not needed.
LEMMA FencedMoveKeepsRow ==
    ASSUME JobOK, NEW w \in Workers, NEW to, NEW reason \in Reasons,
           reason \in GateReasons => to = "needs_human",
           NEW missing \in BOOLEAN, NEW next \in WorkerSteps \ {"boot"},
           FencedMove(w, to, reason, missing, next)
    PROVE  RowKept /\ MovesOn(w)
<1>1. CASE AlreadyThere(w, to, next)
  BY <1>1, RowUnchanged DEF AlreadyThere, MovesOn
<1>2. CASE Refuse(w, to)
  BY <1>2, RowUnchanged, StepNames DEF Refuse, MovesOn
<1>3. CASE LoseOut(w, to)
  BY <1>3, RowUnchanged, StepNames DEF LoseOut, MovesOn
<1>4. CASE Write(w, to, reason, missing, next)
  BY <1>4, AdvanceToKeepsRow DEF Write, MovesOn
<1> QED
  BY <1>1, <1>2, <1>3, <1>4 DEF FencedMove

LEMMA ParkKeepsRow ==
    ASSUME JobOK, NEW w \in Workers, NEW reason \in Reasons, Park(w, reason)
    PROVE  RowKept /\ MovesOn(w)
BY FencedMoveKeepsRow, StepNames DEF Park

\* A step that only writes the status, or leaves the row alone.
LEMMA RowStepKept ==
    ASSUME JobOK, NEW w \in Workers, RowKept, MovesOn(w),
           UNCHANGED <<leaseVars, metaVars, attemptVars, workVars, locals>>
    PROVE  WorkerKept(w)
BY DEF WorkerKept, OtherTypeOK, LocalsTypeOK, ProcessOK

-----------------------------------------------------------------------------
LEMMA FrameKept ==
    ASSUME JobOK, NEW w \in Workers,
           Boot(w) \/ AskModel(w) \/ Refused(w) \/ Exit(w)
    PROVE  WorkerKept(w)
<1>1. CASE Boot(w)
  <2>1. pc[w] = "boot" => FirstStep(phase[w]) \in WorkerSteps \ {"boot"}
    BY StepNames DEF ProcessOK, PhaseKnown, Phases, FirstStep
  <2>2. RowKept /\ MovesOn(w)
    BY <1>1, <2>1, RowUnchanged, StepNames DEF Boot, MovesOn
  <2> QED
    BY <1>1, <2>2 DEF Boot, WorkerKept, OtherTypeOK, LocalsTypeOK, ProcessOK
<1>2. CASE AskModel(w)
  <2>1. RowKept /\ MovesOn(w)
    BY <1>2, RowUnchanged, StepNames DEF AskModel, MovesOn, storeVars
  <2> QED
    BY <1>2, <2>1 DEF AskModel, WorkerKept, OtherTypeOK, LocalsTypeOK, ProcessOK, storeVars
<1>3. CASE Refused(w)
  <2>1. RowKept /\ MovesOn(w)
    BY <1>3, RowUnchanged, AdvanceToKeepsRow, StepNames
       DEF Refused, MovesOn, LegalMove, Reasons, GateReasons
  <2> QED
    BY <1>3, <2>1, RowStepKept DEF Refused
<1>4. CASE Exit(w)
  <2>1. worker' \in {worker, NoWorker} /\ lease' \in {lease, "none"} /\ fresh' \in {fresh, {}}
    BY <1>4 DEF Exit, ReleaseLease
  <2>2. RowKept
    BY <1>4, <2>1, RowUntouched DEF Exit, RowOK, RowTypeOK
  <2>3. MovesOn(w)
    BY <1>4, StepNames DEF Exit, Forget, MovesOn
  <2>4. OtherTypeOK'
    BY <1>4, <2>1 DEF Exit, OtherTypeOK
  <2>5. LocalsTypeOK' /\ phase' = [phase EXCEPT ![w] = "none"]
    BY <1>4 DEF Exit, Forget, LocalsTypeOK, ProcessOK, NoMeta, MetaDocuments, PRStates
  <2> QED
    BY <2>2, <2>3, <2>4, <2>5 DEF WorkerKept
<1> QED
  BY <1>1, <1>2, <1>3, <1>4

-----------------------------------------------------------------------------
\* The status writes of the implementation phase, and its steps that touch
\* nothing but the process.
LEMMA PlanStatusKept ==
    ASSUME JobOK, NEW w \in Workers,
           \/ PrepareFails(w) \/ ModelsUnset(w) \/ NoPlanning(w) \/ ToPlanning(w)
           \/ PlannerFails(w) \/ ApplyContract(w) \/ RequirePlan(w)
           \/ ToRunning(w) \/ SetupRaises(w)
    PROVE  WorkerKept(w)
<1> USE DEF Reasons, GateReasons
<1>1. CASE PrepareFails(w)
  BY <1>1, FencedMoveKeepsRow, RowStepKept, StepNames DEF PrepareFails
<1>2. CASE ModelsUnset(w)
  BY <1>2, ParkKeepsRow, RowStepKept DEF ModelsUnset
<1>3. CASE NoPlanning(w)
  <2>1. RowKept /\ MovesOn(w)
    BY <1>3, RowUnchanged, StepNames DEF NoPlanning, MovesOn, storeVars
  <2> QED
    BY <1>3, <2>1, RowStepKept DEF NoPlanning, storeVars
<1>4. CASE ToPlanning(w)
  BY <1>4, FencedMoveKeepsRow, RowStepKept, StepNames DEF ToPlanning
<1>5. CASE PlannerFails(w)
  <2>1. RowKept /\ MovesOn(w)
    BY <1>5, ParkKeepsRow, FencedMoveKeepsRow, StepNames DEF PlannerFails
  <2> QED
    BY <1>5, <2>1, RowStepKept DEF PlannerFails
<1>6. CASE ApplyContract(w)
  <2>1. CASE Goto(w, "planned") /\ UNCHANGED rowVars
    BY <1>6, <2>1, RowUnchanged, RowStepKept, StepNames DEF ApplyContract, MovesOn
  <2>2. CASE Write(w, "needs_human",
                   IF PlanMode = "gated" THEN "plan_review" ELSE "paused",
                   FALSE, "planned")
    <3>1. RowKept /\ MovesOn(w)
      BY <2>2, FencedMoveKeepsRow, StepNames DEF FencedMove
    <3> QED
      BY <1>6, <3>1, RowStepKept DEF ApplyContract
  <2> QED
    BY <1>6, <2>1, <2>2 DEF ApplyContract
<1>7. CASE RequirePlan(w)
  <2>1. RowKept /\ MovesOn(w)
    BY <1>7, ParkKeepsRow, RowUnchanged, StepNames DEF RequirePlan, MovesOn
  <2> QED
    BY <1>7, <2>1, RowStepKept DEF RequirePlan
<1>8. CASE ToRunning(w)
  BY <1>8, FencedMoveKeepsRow, RowStepKept, StepNames DEF ToRunning
<1>9. CASE SetupRaises(w)
  <2>1. RowKept
    <3>1. PICK to \in {"failed", "needs_human"} :
             IF Owns(w) /\ status # to /\ LegalMove(status, to)
             THEN AdvanceTo(to, IF to = "failed" THEN "none" ELSE "paused", FALSE)
             ELSE UNCHANGED rowVars
      BY <1>9 DEF SetupRaises
    <3> QED
      BY <3>1, AdvanceToKeepsRow, RowUnchanged
  <2>2. MovesOn(w)
    BY <1>9, StepNames DEF SetupRaises, MovesOn
  <2> QED
    BY <1>9, <2>1, <2>2, RowStepKept DEF SetupRaises
<1> QED
  BY <1>1, <1>2, <1>3, <1>4, <1>5, <1>6, <1>7, <1>8, <1>9

\* Its steps that write metadata, the plan or an attempt.
LEMMA PlanDataKept ==
    ASSUME JobOK, NEW w \in Workers,
           \/ ToPreparing(w) \/ Prepare(w) \/ PlannerAnswers(w) \/ SavePlan(w)
           \/ AfterPlanning(w) \/ NewAttempt(w)
    PROVE  WorkerKept(w)
<1> USE DEF Reasons, GateReasons
<1>1. CASE ToPreparing(w)
  <2>1. RowKept /\ MovesOn(w)
    BY <1>1, FencedMoveKeepsRow, StepNames DEF ToPreparing
  <2> QED
    BY <1>1, <2>1 DEF ToPreparing, WorkerKept, OtherTypeOK, LocalsTypeOK, ProcessOK
<1>2. CASE Prepare(w)
  <2>1. RowKept
    BY <1>2, RowUntouched DEF Prepare, WriteMeta, RowOK, RowTypeOK
  <2>2. MovesOn(w)
    BY <1>2, StepNames DEF Prepare, MovesOn
  <2>3. NoMeta \in MetaDocuments
    BY DEF NoMeta, MetaDocuments, PRStates
  <2> QED
    BY <1>2, <2>1, <2>2, <2>3
       DEF Prepare, WriteMeta, WorkerKept, OtherTypeOK, LocalsTypeOK, ProcessOK
<1>3. CASE PlannerAnswers(w)
  <2>1. RowKept
    BY <1>3, RowUntouched DEF PlannerAnswers, MayBumpVersion, RowOK, RowTypeOK
  <2>2. MovesOn(w)
    BY <1>3, StepNames DEF PlannerAnswers, MovesOn
  <2> QED
    BY <1>3, <2>1, <2>2 DEF PlannerAnswers, WorkerKept, OtherTypeOK, LocalsTypeOK, ProcessOK
<1>4. CASE SavePlan(w)
  <2>1. RowKept
    BY <1>4, RowUntouched DEF SavePlan, RowOK, RowTypeOK
  <2>2. MovesOn(w)
    BY <1>4, StepNames DEF SavePlan, MovesOn
  <2> QED
    BY <1>4, <2>1, <2>2 DEF SavePlan, WorkerKept, OtherTypeOK, LocalsTypeOK, ProcessOK
<1>5. CASE AfterPlanning(w)
  <2>1. RowKept
    BY <1>5, RowUntouched, RowUnchanged, ParkKeepsRow
       DEF AfterPlanning, WriteMeta, RowOK, RowTypeOK
  <2>2. MovesOn(w)
    BY <1>5, ParkKeepsRow, StepNames DEF AfterPlanning, MovesOn
  <2>3. meta' \in MetaDocuments
    BY <1>5 DEF AfterPlanning, WriteMeta, OtherTypeOK, MetaDocuments
  <2> QED
    BY <1>5, <2>1, <2>2, <2>3
       DEF AfterPlanning, WorkerKept, OtherTypeOK, LocalsTypeOK, ProcessOK
<1>6. CASE NewAttempt(w)
  <2>1. RowKept /\ MovesOn(w)
    BY <1>6, RowUnchanged, StepNames DEF NewAttempt, MovesOn
  <2> QED
    BY <1>6, <2>1 DEF NewAttempt, StartAttempt, AttemptStatus, WorkerKept,
                      OtherTypeOK, LocalsTypeOK, ProcessOK
<1> QED
  BY <1>1, <1>2, <1>3, <1>4, <1>5, <1>6

\* The end of an attempt writes the job's status in the same transaction.
LEMMA EndJobKeepsRow ==
    ASSUME RowOK, NEW to, NEW missing \in BOOLEAN, LegalMove(status, to),
           EndJob(to, missing)
    PROVE  RowKept
<1> DEFINE reason == IF to = "needs_human" THEN "paused" ELSE "none"
<1>1. to \in JobStatus /\ (status \in TerminalStatuses => to = status)
  BY StatusTableClosed DEF LegalMove, RowOK, RowTypeOK
<1>2. reason \in Reasons /\ reason \notin GateReasons
  BY DEF Reasons, GateReasons
<1>3. /\ Advance(core, to, reason, missing) \in CoreStates
      /\ Agrees(to, reason, Advance(core, to, reason, missing))
  BY <1>1, <1>2, AdvanceAgrees DEF RowOK, RowTypeOK
<1>4. WriteStatus(to, IF to = "needs_human" THEN reason ELSE attention,
                  Advance(core, to, reason, missing))
  BY DEF EndJob
<1>5. /\ status' = to
      /\ core' = Advance(core, to, reason, missing)
      /\ attention' = IF to = "needs_human" THEN reason ELSE attention
      /\ fresh' = {} /\ crashes' = 0
  BY <1>4 DEF WriteStatus
<1>6. Agrees(status', attention', core')
  BY <1>3, <1>5 DEF Agrees
<1> QED
  BY <1>1, <1>2, <1>3, <1>5, <1>6 DEF RowOK, RowTypeOK, RowKept

LEMMA AgentKept ==
    ASSUME JobOK, NEW w \in Workers,
           RunAgent(w) \/ AgentEnds(w) \/ FinishAttempt(w) \/ AgentRaises(w)
    PROVE  WorkerKept(w)
<1>1. CASE RunAgent(w)
  <2>1. RowKept /\ MovesOn(w)
    BY <1>1, RowUnchanged, StepNames DEF RunAgent, MovesOn
  <2> QED
    BY <1>1, <2>1 DEF RunAgent, BranchChanges, WorkerKept, OtherTypeOK, LocalsTypeOK, ProcessOK
<1>2. CASE AgentEnds(w)
  <2>1. RowKept
    BY <1>2, RowUntouched DEF AgentEnds, MayBumpVersion, RowOK, RowTypeOK
  <2>2. MovesOn(w)
    BY <1>2, StepNames DEF AgentEnds, MovesOn
  <2>3. checks' \in {"none", "failed", "passed"} /\ sameHead' \subseteq Workers
    BY <1>2 DEF AgentEnds, BranchChanges, OtherTypeOK
  <2>4. result' \in [Workers -> Outcomes \cup {"cancelled", "none"}]
    BY <1>2 DEF AgentEnds, LocalsTypeOK, ProcessOK
  <2> QED
    BY <1>2, <2>1, <2>2, <2>3, <2>4
       DEF AgentEnds, WorkerKept, OtherTypeOK, LocalsTypeOK, ProcessOK
<1>3. CASE FinishAttempt(w)
  <2>1. RowKept /\ MovesOn(w)
    <3>1. CASE UNCHANGED rowVars
      BY <1>3, <3>1, RowUnchanged, StepNames DEF FinishAttempt, MovesOn
    <3>2. CASE /\ LegalMove(status, JobEnd(result[w]))
               /\ EndJob(JobEnd(result[w]), FALSE)
               /\ Goto(w, "exit")
      BY <3>2, EndJobKeepsRow, StepNames DEF MovesOn
    <3> QED
      BY <1>3, <3>1, <3>2 DEF FinishAttempt
  <2>2. AttemptEnd(result[w]) \in AttemptStatus
    BY DEF AttemptEnd, AttemptStatus
  <2>3. attempt' \in [Workers -> AttemptStatus] /\ retries' \in Nat
    <3>1. attempt' \in {attempt, [attempt EXCEPT ![w] = AttemptEnd(result[w])]}
      BY <1>3 DEF FinishAttempt
    <3>2. retries' \in {retries, retries + 1}
      BY <1>3 DEF FinishAttempt
    <3> QED
      BY <2>2, <3>1, <3>2 DEF OtherTypeOK
  <2> QED
    BY <1>3, <2>1, <2>3 DEF FinishAttempt, WorkerKept, OtherTypeOK, LocalsTypeOK, ProcessOK
<1>4. CASE AgentRaises(w)
  <2>1. RowKept
    <3>1. CASE UNCHANGED rowVars
      BY <3>1, RowUnchanged
    <3>2. CASE /\ LegalMove(status, "failed")
               /\ \E sandboxMissing \in BOOLEAN : EndJob("failed", sandboxMissing)
      BY <3>2, EndJobKeepsRow
    <3> QED
      BY <1>4, <3>1, <3>2 DEF AgentRaises
  <2>2. MovesOn(w)
    BY <1>4, StepNames DEF AgentRaises, MovesOn
  <2>3. checks' \in {"none", "failed", "passed"} /\ sameHead' \subseteq Workers
    BY <1>4 DEF AgentRaises, BranchChanges, OtherTypeOK
  <2>4. attempt' \in [Workers -> AttemptStatus]
    BY <1>4 DEF AgentRaises, AttemptStatus, OtherTypeOK
  <2> QED
    BY <1>4, <2>1, <2>2, <2>3, <2>4
       DEF AgentRaises, WorkerKept, OtherTypeOK, LocalsTypeOK, ProcessOK
<1> QED
  BY <1>1, <1>2, <1>3, <1>4

LEMMA ImplementKept ==
    ASSUME JobOK, NEW w \in Workers, ImplementPhase(w)
    PROVE  WorkerKept(w)
BY PlanStatusKept, PlanDataKept, AgentKept DEF ImplementPhase

-----------------------------------------------------------------------------
LEMMA VerifyKept ==
    ASSUME JobOK, NEW w \in Workers, VerifyPhase(w)
    PROVE  WorkerKept(w)
<1> USE DEF Reasons, GateReasons
<1>1. CASE VerifyEnds(w)
  <2>1. RowKept
    BY <1>1, RowUntouched DEF VerifyEnds, MayBumpVersion, RowOK, RowTypeOK
  <2>2. PICK r \in CheckResults :
          /\ SaveRun(w, r)
          /\ LET fixes == r = "new_failures" /\ core.fix < MaxFix
             IN  /\ Goto(w, CASE ~Owned(w) \/ status # "verifying" -> "exit"
                              [] r = "missing_contract"           -> "noContract"
                              [] fixes                            -> "setFix"
                              [] OTHER                            -> "toReview")
                 /\ seenFix' = [seenFix EXCEPT ![w] = IF fixes THEN core.fix ELSE 0]
    BY <1>1 DEF VerifyEnds
  <2>3. MovesOn(w)
    BY <2>2, StepNames DEF MovesOn
  <2>4. checks' \in {"none", "failed", "passed"}
    BY <2>2 DEF SaveRun
  <2>5. core.fix \in Nat
    BY DEF RowOK, RowTypeOK, CoreStates
  <2>6. seenFix' \in [Workers -> Nat]
    BY <2>2, <2>5 DEF LocalsTypeOK, ProcessOK
  <2> QED
    BY <1>1, <2>1, <2>3, <2>4, <2>6
       DEF VerifyEnds, WorkerKept, OtherTypeOK, LocalsTypeOK, ProcessOK
<1>2. CASE VerifyRaises(w)
  <2>1. RowKept
    <3>1. CASE UNCHANGED rowVars
      BY <3>1, RowUnchanged
    <3>2. CASE /\ status = "verifying"
               /\ \/ AdvanceTo("needs_human", "paused", FALSE)
                  \/ \E sandboxMissing \in BOOLEAN :
                        AdvanceTo("failed", "none", sandboxMissing)
      <4>1. LegalMove("verifying", "needs_human") /\ LegalMove("verifying", "failed")
        BY DEF LegalMove, StatusTransitions, FailureStatuses
      <4> QED
        BY <3>2, <4>1, AdvanceToKeepsRow
    <3> QED
      BY <1>2, <3>1, <3>2 DEF VerifyRaises
  <2>2. MovesOn(w)
    BY <1>2, StepNames DEF VerifyRaises, MovesOn
  <2> QED
    BY <1>2, <2>1, <2>2 DEF VerifyRaises, WorkerKept, OtherTypeOK, LocalsTypeOK, ProcessOK
<1>3. CASE NoContract(w)
  BY <1>3, ParkKeepsRow, RowStepKept DEF NoContract
<1>4. CASE ToReview(w)
  BY <1>4, FencedMoveKeepsRow, RowStepKept, StepNames DEF ToReview
<1>5. CASE SetFix(w)
  <2>4. RowKept
    BY <1>5, SetFixKeepsRow DEF SetFix, LocalsTypeOK, ProcessOK, RowOK, RowTypeOK
  <2>5. MovesOn(w)
    BY <1>5, StepNames DEF SetFix, MovesOn
  <2> QED
    BY <1>5, <2>4, <2>5 DEF SetFix, WorkerKept, OtherTypeOK, LocalsTypeOK, ProcessOK
<1>6. CASE NoteFix(w)
  <2>1. RowKept
    BY <1>6, RowUntouched DEF NoteFix, WriteMeta, RowOK, RowTypeOK
  <2>2. MovesOn(w)
    BY <1>6, StepNames DEF NoteFix, MovesOn
  <2>3. NoMeta \in MetaDocuments
    BY DEF NoMeta, MetaDocuments, PRStates
  <2> QED
    BY <1>6, <2>1, <2>2, <2>3
       DEF NoteFix, WriteMeta, WorkerKept, OtherTypeOK, LocalsTypeOK, ProcessOK
<1>7. CASE Requeue(w)
  BY <1>7, FencedMoveKeepsRow, RowStepKept, StepNames DEF Requeue
<1> QED
  BY <1>1, <1>2, <1>3, <1>4, <1>5, <1>6, <1>7 DEF VerifyPhase

LEMMA ReviewKept ==
    ASSUME JobOK, NEW w \in Workers, ReviewPhase(w)
    PROVE  WorkerKept(w)
<1> USE DEF Reasons, GateReasons
<1>1. CASE NoReview(w)
  <2>1. RowKept /\ MovesOn(w)
    BY <1>1, RowUnchanged, StepNames DEF NoReview, MovesOn, storeVars
  <2> QED
    BY <1>1, <2>1, RowStepKept DEF NoReview, storeVars
<1>2. CASE ReviewEnds(w)
  <2>1. RowKept
    BY <1>2, RowUntouched DEF ReviewEnds, MayBumpVersion, RowOK, RowTypeOK
  <2>2. MovesOn(w)
    BY <1>2, StepNames DEF ReviewEnds, MovesOn
  <2> QED
    BY <1>2, <2>1, <2>2 DEF ReviewEnds, WorkerKept, OtherTypeOK, LocalsTypeOK, ProcessOK
<1>3. CASE ReviewFails(w)
  <2>1. RowKept /\ MovesOn(w)
    BY <1>3, ParkKeepsRow, FencedMoveKeepsRow, RowUnchanged, StepNames
       DEF ReviewFails, MovesOn
  <2> QED
    BY <1>3, <2>1, RowStepKept DEF ReviewFails
<1>4. CASE Verdict(w)
  <2>1. RowKept /\ MovesOn(w)
    BY <1>4, ParkKeepsRow, RowUnchanged, StepNames DEF Verdict, MovesOn
  <2> QED
    BY <1>4, <2>1, RowStepKept DEF Verdict
<1> QED
  BY <1>1, <1>2, <1>3, <1>4 DEF ReviewPhase

LEMMA PublishKept ==
    ASSUME JobOK, NEW w \in Workers, PublishPhase(w)
    PROVE  WorkerKept(w)
<1> USE DEF Reasons, GateReasons
<1>1. CASE PublishFails(w)
  BY <1>1, ParkKeepsRow, RowStepKept DEF PublishFails
<1>2. CASE PublishEnds(w)
  <2>1. RowKept /\ MovesOn(w)
    BY <1>2, RowUnchanged, StepNames DEF PublishEnds, MovesOn, storeVars
  <2> QED
    BY <1>2, <2>1, RowStepKept DEF PublishEnds, storeVars
<1>3. CASE RecordPR(w)
  <2>1. RowKept
    BY <1>3, RowUntouched DEF RecordPR, WriteMeta, RowOK, RowTypeOK
  <2>2. MovesOn(w)
    BY <1>3, StepNames DEF RecordPR, MovesOn
  <2>3. meta' \in MetaDocuments
    BY <1>3 DEF RecordPR, WriteMeta, OtherTypeOK, MetaDocuments, PRStates
  <2> QED
    BY <1>3, <2>1, <2>2, <2>3 DEF RecordPR, WorkerKept, OtherTypeOK, LocalsTypeOK, ProcessOK
<1>4. CASE Announce(w)
  BY <1>4, FencedMoveKeepsRow, RowStepKept, StepNames DEF Announce
<1> QED
  BY <1>1, <1>2, <1>3, <1>4 DEF PublishPhase

-----------------------------------------------------------------------------
\* A step of a worker process keeps the job in order.
LEMMA WorkerStepOK ==
    ASSUME JobOK, NEW w \in Workers, WorkerStep(w)
    PROVE  JobOK' /\ RowKept
<1>1. WorkerKept(w)
  BY FrameKept, ImplementKept, VerifyKept, ReviewKept, PublishKept DEF WorkerStep
<1> QED
  BY <1>1, WorkerKeptOK DEF WorkerKept

\* So do its heartbeat and its death.
LEMMA HeartbeatOK ==
    ASSUME JobOK, NEW w \in Workers, Heartbeat(w) \/ HeartbeatFails(w)
    PROVE  JobOK' /\ RowKept
<1>1. RowKept /\ OtherTypeOK' /\ LocalsTypeOK' /\ UNCHANGED <<pc, phase>>
  BY RowUnchanged DEF Heartbeat, HeartbeatFails, OtherTypeOK, LocalsTypeOK, ProcessOK, storeVars
<1> QED
  BY <1>1 DEF ProcessOK, PhaseKnown, RowKept

LEMMA DiesOK ==
    ASSUME JobOK, NEW w \in Workers, Dies(w)
    PROVE  JobOK' /\ RowKept
<1>1. RowKept
  BY RowUnchanged DEF Dies
<1>2. MovesOn(w) /\ phase' = [phase EXCEPT ![w] = "none"]
  BY StepNames DEF Dies, Forget, MovesOn
<1>3. OtherTypeOK'
  BY DEF Dies, OtherTypeOK
<1>4. LocalsTypeOK'
  BY DEF Dies, Forget, LocalsTypeOK, ProcessOK, NoMeta, MetaDocuments, PRStates
<1> QED
  BY <1>1, <1>2, <1>3, <1>4, WorkerKeptOK DEF WorkerKept
=============================================================================
