------------------------------ MODULE JobWorker ------------------------------
(* The worker processes (mu/jobs/lease.py, worker.py, verify_worker.py,       *)
(* review_worker.py, stages.py and the publish phase of publish.py).          *)
(*                                                                            *)
(* A worker runs one leased phase of the job and exits: run_leased() checks   *)
(* ownership, the phase body runs with a lease-fenced service while a thread  *)
(* heartbeats, and the lease is released on the way out.  pc[w] is where the  *)
(* body stands between two store transactions; seen... are the values the     *)
(* body has read and still relies on.                                         *)
EXTENDS JobStore

CONSTANTS
    PlanMode,       \* "unstaged", "auto" (no approval required) or "gated"
    MaxFix,         \* checks.max_fix_attempts
    MaxRetries,     \* job.max_retries
    Publishes       \* publish mode is not "none"

ASSUME WorkerAssumption ==
    /\ PlanMode \in {"unstaged", "auto", "gated"}
    /\ MaxFix \in Nat
    /\ MaxRetries \in Nat
    /\ Publishes \in BOOLEAN

VARIABLES
    pc,             \* where each worker process stands; "off": no process
    phase,          \* --phase of the process
    result,         \* outcome of the stage it just ran
    seenFix,        \* core.fix_attempts read by a verifier
    seenMeta,       \* job.metadata read before a slow step
    seenOwner,      \* job.worker_id read when planning began
    lost            \* StageLease.lost: a heartbeat has failed

workerVars == <<pc, phase, result, seenFix, seenMeta, seenOwner, lost>>

ImplementSteps == {"start", "prepare", "plan", "ask", "planning", "savePlan",
                   "contract", "planned", "gate", "attempt", "launch",
                   "contain", "running", "finish"}

VerifySteps == {"verify", "noContract", "toReview", "setFix", "noteFix",
                "requeue"}

PublishSteps == {"publish", "recordPR", "announce"}

ReviewSteps == {"review", "reviewing", "verdict"}

BodySteps == ImplementSteps \cup VerifySteps \cup ReviewSteps \cup PublishSteps
             \cup {"refused"}

WorkerSteps == BodySteps \cup {"off", "boot", "exit"}

\* The heartbeat thread runs during the body (the lease itself is longer).
Heartbeating(w) == pc[w] \in BodySteps /\ ~lost[w]

Staged == PlanMode # "unstaged"

WorkerInit ==
    /\ pc = [w \in Workers |-> "off"]
    /\ phase = [w \in Workers |-> "none"]
    /\ result = [w \in Workers |-> "none"]
    /\ seenFix = [w \in Workers |-> 0]
    /\ seenMeta = [w \in Workers |-> NoMeta]
    /\ seenOwner = [w \in Workers |-> NoWorker]
    /\ lost = [w \in Workers |-> FALSE]

Goto(w, step) == pc' = [pc EXCEPT ![w] = step]

locals == <<phase, result, seenFix, seenMeta, seenOwner, lost>>

\* A process is gone, and everything it had read with it.
Forget(w) ==
    /\ Goto(w, "off")
    /\ phase' = [phase EXCEPT ![w] = "none"]
    /\ result' = [result EXCEPT ![w] = "none"]
    /\ seenFix' = [seenFix EXCEPT ![w] = 0]
    /\ seenMeta' = [seenMeta EXCEPT ![w] = NoMeta]
    /\ seenOwner' = [seenOwner EXCEPT ![w] = NoWorker]
    /\ lost' = [lost EXCEPT ![w] = FALSE]

-----------------------------------------------------------------------------
\* A status write of a phase body: service.transition() on the fenced view.

\* The status is already there: returned as it is, without a write.
AlreadyThere(w, to, next) ==
    status = to /\ Goto(w, next) /\ UNCHANGED rowVars

\* JobStateError: run_leased looks at the refusal.
Refuse(w, to) ==
    ~LegalMove(status, to) /\ Goto(w, "refused") /\ UNCHANGED rowVars

\* LeaseLostError: run_leased returns.
LoseOut(w, to) ==
    /\ status # to /\ LegalMove(status, to) /\ ~Owns(w)
    /\ Goto(w, "exit")
    /\ UNCHANGED rowVars

\* Mutant: the write is made without asking for the lease.
Write_Unfenced(w, to, reason, sandboxMissing, next) ==
    /\ status # to /\ LegalMove(status, to)
    /\ AdvanceTo(to, reason, sandboxMissing)
    /\ Goto(w, next)

Write(w, to, reason, sandboxMissing, next) ==
    /\ status # to /\ LegalMove(status, to) /\ Owns(w)
    /\ AdvanceTo(to, reason, sandboxMissing)
    /\ Goto(w, next)

FencedMove(w, to, reason, sandboxMissing, next) ==
    \/ AlreadyThere(w, to, next)
    \/ Refuse(w, to)
    \/ LoseOut(w, to)
    \/ Write(w, to, reason, sandboxMissing, next)

\* require_human(), after which every phase body returns.
Park(w, reason) == FencedMove(w, "needs_human", reason, FALSE, "exit")

\* StageLease.owned(): no failed heartbeat, and the store agrees.
Owned(w) == ~lost[w] /\ Owns(w)

-----------------------------------------------------------------------------
\* run_leased(): the frame around every phase body.

StatusesOf(p) ==
    CASE p = "implementation" -> {"queued", "recovering", "planning"}
      [] p = "verification"   -> {"verifying"}
      [] p = "review"         -> {"reviewing"}
      [] p = "publish"        -> {"publishing"}

FirstStep(p) ==
    CASE p = "implementation" -> IF status = "queued" THEN "start" ELSE "prepare"
      [] p = "verification"   -> "verify"
      [] p = "review"         -> "review"
      [] p = "publish"        -> "publish"

Boot(w) ==
    /\ pc[w] = "boot"
    /\ IF worker = w /\ status \in StatusesOf(phase[w])
       THEN /\ Goto(w, FirstStep(phase[w]))
            /\ seenMeta' = [seenMeta EXCEPT ![w] = meta]
            /\ sameHead' = IF phase[w] = "verification"
                           THEN sameHead \cup {w} ELSE sameHead
       ELSE /\ Goto(w, "exit")
            /\ UNCHANGED <<seenMeta, sameHead>>
    /\ UNCHANGED <<rowVars, leaseVars, metaVars, attemptVars, checks, agents,
                   phase, result, seenFix, seenOwner, lost>>

\* _refused_transition(): park the job unless it moved on or changed hands.
Refused(w) ==
    /\ pc[w] = "refused"
    /\ IF /\ Owned(w)
          /\ status \in SchedulableStatuses
          /\ "needs_human" \in StatusTransitions(status)
       THEN AdvanceTo("needs_human", "paused", FALSE)
       ELSE UNCHANGED rowVars
    /\ Goto(w, "exit")
    /\ UNCHANGED <<leaseVars, metaVars, attemptVars, workVars, locals>>

\* StageLease.close(): release the lease, and the process exits.
Exit(w) ==
    /\ pc[w] = "exit"
    /\ ReleaseLease(w)
    /\ Forget(w)
    /\ sameHead' = sameHead \ {w}
    /\ UNCHANGED <<status, attention, core, crashes, metaVars, attemptVars,
                   checks, agents>>

-----------------------------------------------------------------------------
\* The implementation phase (_implementation).

ToPreparing(w) ==
    /\ pc[w] = "start"
    /\ FencedMove(w, "preparing", "none", FALSE, "prepare")
    /\ seenMeta' = [seenMeta EXCEPT ![w] = meta]
    /\ UNCHANGED <<leaseVars, metaVars, attemptVars, workVars, phase, result,
                   seenFix, seenOwner, lost>>

\* manager.prepare(): git work, then the job's metadata as it was read before
\* that work is written back with the worktree's fields.
Prepare(w) ==
    /\ pc[w] = "prepare"
    /\ WriteMeta(seenMeta[w])
    /\ seenMeta' = [seenMeta EXCEPT ![w] = NoMeta]
    /\ Goto(w, IF status \in {"preparing", "planning"} THEN "plan" ELSE "gate")
    /\ UNCHANGED <<status, attention, core, crashes, leaseVars, planned,
                   attemptVars, workVars, phase, result, seenFix, seenOwner,
                   lost>>

PrepareFails(w) ==
    /\ pc[w] = "prepare"
    /\ FencedMove(w, "environment_error", "none", FALSE, "exit")
    /\ UNCHANGED <<leaseVars, metaVars, attemptVars, workVars, locals>>

\* _maybe_run_plan_stage(), up to the planner.
ModelsUnset(w) ==
    /\ pc[w] = "plan"
    /\ Park(w, "paused")
    /\ UNCHANGED <<leaseVars, metaVars, attemptVars, workVars, locals>>

NoPlanning(w) ==
    /\ pc[w] = "plan"
    /\ Staged => planned /\ status # "planning"
    /\ Goto(w, "gate")
    /\ UNCHANGED <<storeVars, locals>>

ToPlanning(w) ==
    /\ pc[w] = "plan"
    /\ Staged /\ (planned => status = "planning")
    /\ FencedMove(w, "planning", "none", FALSE, "ask")
    /\ UNCHANGED <<leaseVars, metaVars, attemptVars, workVars, locals>>

\* run_plan_stage() and run_review_stage(): the model works on the job row as
\* it stands now; the lease checked when it answers is the one this row names.
AskModel(w) ==
    /\ \/ pc[w] = "ask" /\ Goto(w, "planning")
       \/ pc[w] = "review" /\ status = "reviewing" /\ Goto(w, "reviewing")
    /\ seenOwner' = [seenOwner EXCEPT ![w] = worker]
    /\ UNCHANGED <<storeVars, phase, result, seenFix, seenMeta, lost>>

AnswerCounts(w) == seenOwner[w] = NoWorker \/ Owns(seenOwner[w])

PlannerAnswers(w) ==
    /\ pc[w] = "planning"
    /\ Goto(w, IF AnswerCounts(w) THEN "savePlan" ELSE "planned")
    /\ seenOwner' = [seenOwner EXCEPT ![w] = NoWorker]
    /\ MayBumpVersion
    /\ UNCHANGED <<status, attention, core, crashes, leaseVars, metaVars,
                   attemptVars, workVars, phase, result, seenFix, seenMeta,
                   lost>>

\* Whatever goes wrong in run_plan_stage() parks or fails the job, a refused
\* write of its own included.
PlannerFails(w) ==
    /\ pc[w] \in {"planning", "savePlan", "contract"}
    /\ \/ Park(w, "paused")
       \/ FencedMove(w, "failed", "none", TRUE, "exit")
    /\ UNCHANGED <<leaseVars, metaVars, attemptVars, workVars, locals>>

\* The plan artifact, its pointers and the merged contract.
SavePlan(w) ==
    /\ pc[w] = "savePlan"
    /\ planned' = TRUE
    /\ fresh' = {}
    /\ Goto(w, "contract")
    /\ UNCHANGED <<status, attention, core, crashes, leaseVars, meta,
                   attemptVars, workVars, locals>>

\* apply_plan_contract(): a plan without validation commands parks the job.
ApplyContract(w) ==
    /\ pc[w] = "contract"
    /\ \/ Goto(w, "planned") /\ UNCHANGED rowVars
       \/ /\ status = "planning"
          /\ Write(w, "needs_human",
                   IF PlanMode = "gated" THEN "plan_review" ELSE "paused",
                   FALSE, "planned")
    /\ UNCHANGED <<leaseVars, metaVars, attemptVars, workVars, locals>>

\* Back in _maybe_run_plan_stage(): the gate, or automatic approval.
AfterPlanning(w) ==
    /\ pc[w] = "planned"
    /\ \/ /\ status # "planning"
          /\ Goto(w, "exit")
          /\ UNCHANGED <<rowVars, meta>>
       \/ /\ status = "planning" /\ PlanMode = "gated"
          /\ Park(w, "plan_review")
          /\ UNCHANGED meta
       \/ /\ status = "planning" /\ PlanMode # "gated" /\ planned
          /\ WriteMeta([meta EXCEPT !.approved = TRUE])
          /\ Goto(w, "gate")
          /\ UNCHANGED <<status, attention, core, crashes>>
       \/ /\ status = "planning" /\ PlanMode # "gated" /\ ~planned
          /\ Goto(w, "gate")
          /\ UNCHANGED <<rowVars, meta>>
    /\ UNCHANGED <<leaseVars, planned, attemptVars, workVars, locals>>

\* Mutant: the implementer starts whether the plan is approved or not.
RequirePlan_Skipped(w) ==
    /\ pc[w] = "gate"
    /\ Goto(w, "attempt")
    /\ UNCHANGED <<storeVars, locals>>

\* _require_approved_plan()
RequirePlan(w) ==
    /\ pc[w] = "gate"
    /\ IF Staged /\ ~meta.approved
       THEN Park(w, IF planned THEN "plan_review" ELSE "paused")
       ELSE Goto(w, "attempt") /\ UNCHANGED rowVars
    /\ UNCHANGED <<leaseVars, metaVars, attemptVars, workVars, locals>>

NewAttempt(w) ==
    /\ pc[w] = "attempt"
    /\ StartAttempt(w)
    /\ Goto(w, "launch")
    /\ UNCHANGED <<rowVars, leaseVars, metaVars, retries, workVars, locals>>

ToRunning(w) ==
    /\ pc[w] = "launch"
    /\ FencedMove(w, "running", "none", FALSE, "contain")
    /\ UNCHANGED <<leaseVars, metaVars, attemptVars, workVars, locals>>

\* The worktree or its HEAD changes: earlier and running checks are stale.
BranchChanges == checks' = "none" /\ sameHead' = {}

\* runner.run(): the implement container starts...
RunAgent(w) ==
    /\ pc[w] = "contain"
    /\ agents' = agents \cup {w}
    /\ BranchChanges
    /\ Goto(w, "running")
    /\ UNCHANGED <<rowVars, leaseVars, metaVars, attemptVars, locals>>

Outcomes == {"completed", "needs_human", "failed", "environment_error",
             "transient"}

\* ... and ends.  The outcome is dropped unless the lease still holds; then it
\* is checkpointed, unless the job has been cancelled meanwhile.
AgentEnds(w) ==
    /\ pc[w] = "running"
    /\ agents' = agents \ {w}
    /\ MayBumpVersion
    /\ IF Owned(w)
       THEN /\ \E r \in Outcomes :
                 result' = [result EXCEPT ![w] =
                              IF status = "cancelled" THEN "cancelled" ELSE r]
            /\ BranchChanges
            /\ Goto(w, "finish")
       ELSE /\ IF w \in agents THEN BranchChanges ELSE UNCHANGED <<checks, sameHead>>
            /\ Goto(w, "exit")
            /\ UNCHANGED result
    /\ UNCHANGED <<status, attention, core, crashes, leaseVars, metaVars,
                   attemptVars, phase, seenFix, seenMeta, seenOwner, lost>>

-----------------------------------------------------------------------------
\* _apply_outcome(): the attempt's end and the job's next status, in one
\* transaction of finish_attempt_owned().

Retried(r) == r = "transient" /\ retries < MaxRetries

AttemptEnd(r) ==
    IF r \in {"completed", "needs_human", "cancelled"} THEN r ELSE "failed"

JobEnd(r) ==
    CASE r = "completed"           -> "verifying"
      [] r = "needs_human"         -> "needs_human"
      [] r = "environment_error"   -> "environment_error"
      [] r = "transient"           -> IF Retried(r) THEN "queued" ELSE "failed"
      [] r = "failed"              -> "failed"

\* The status part: the attention column is written with needs_human only.
EndJob(to, sandboxMissing) ==
    LET reason == IF to = "needs_human" THEN "paused" ELSE "none"
    IN  WriteStatus(to, IF to = "needs_human" THEN reason ELSE attention,
                    Advance(core, to, reason, sandboxMissing))

\* Mutant: the attempt is closed, the job is left to a later transaction.
FinishAttempt_JobLater(w) ==
    /\ pc[w] = "finish"
    /\ Goto(w, "exit")
    /\ IF Owns(w)
       THEN attempt' = [attempt EXCEPT ![w] = AttemptEnd(result[w])]
       ELSE UNCHANGED attempt
    /\ result' = [result EXCEPT ![w] = "none"]
    /\ UNCHANGED <<rowVars, leaseVars, metaVars, newest, retries, workVars, phase,
                   seenFix, seenMeta, seenOwner, lost>>

FinishAttempt(w) ==
    /\ pc[w] = "finish"
    /\ IF Owns(w)
       THEN /\ attempt' = [attempt EXCEPT ![w] = AttemptEnd(result[w])]
            /\ retries' = IF Retried(result[w]) THEN retries + 1 ELSE retries
            /\ \/ /\ result[w] = "cancelled"
                  /\ Goto(w, "exit")
                  /\ UNCHANGED rowVars
               \/ /\ result[w] # "cancelled"
                  /\ LegalMove(status, JobEnd(result[w]))
                  /\ EndJob(JobEnd(result[w]), FALSE)
                  /\ Goto(w, "exit")
               \/ /\ result[w] # "cancelled"
                  /\ ~LegalMove(status, JobEnd(result[w]))
                  /\ Goto(w, "refused")
                  /\ UNCHANGED rowVars
       ELSE /\ Goto(w, "exit")
            /\ UNCHANGED <<rowVars, attempt, retries>>
    /\ result' = [result EXCEPT ![w] = "none"]
    /\ UNCHANGED <<leaseVars, metaVars, newest, workVars, phase, seenFix,
                   seenMeta, seenOwner, lost>>

\* The except branch, while the agent runs: the attempt and the job fail
\* together; a refused job move is swallowed.
AgentRaises(w) ==
    /\ pc[w] \in {"contain", "running"}
    /\ agents' = agents \ {w}
    /\ IF w \in agents THEN BranchChanges ELSE UNCHANGED <<checks, sameHead>>
    /\ Goto(w, "exit")
    /\ IF Owns(w)
       THEN /\ attempt' = [attempt EXCEPT ![w] = "failed"]
            /\ IF LegalMove(status, "failed")
               THEN \E sandboxMissing \in BOOLEAN :
                        EndJob("failed", sandboxMissing)
               ELSE UNCHANGED rowVars
       ELSE UNCHANGED <<rowVars, attempt>>
    /\ UNCHANGED <<leaseVars, metaVars, newest, retries, locals>>

\* The except branch, before there is an attempt; a move that is refused there
\* is swallowed.
SetupRaises(w) ==
    /\ pc[w] \in {"prepare", "plan", "planned", "gate", "attempt"}
    /\ Goto(w, "exit")
    /\ \E to \in {"failed", "needs_human"} :
          IF Owns(w) /\ status # to /\ LegalMove(status, to)
          THEN AdvanceTo(to, IF to = "failed" THEN "none" ELSE "paused", FALSE)
          ELSE UNCHANGED rowVars
    /\ UNCHANGED <<leaseVars, metaVars, attemptVars, workVars, locals>>

-----------------------------------------------------------------------------
\* The verification phase: ChecksStage.verify(), then apply_checks_result().

\* "no_fix": no new failures, suites that could not run, or a futile fix.
CheckResults == {"missing_contract", "no_fix", "new_failures"}

\* VerificationStore.save(): is the latest run one that can be pushed?  Not
\* with new failures, nor with suites failing as before, nor for an old HEAD.
SaveRun(w, r) ==
    checks' \in IF w \in sameHead /\ r = "no_fix"
                THEN {"passed", "failed"} ELSE {"failed"}

VerifyEnds(w) ==
    /\ pc[w] = "verify"
    /\ \E r \in CheckResults :
          /\ SaveRun(w, r)
          /\ LET fixes == r = "new_failures" /\ core.fix < MaxFix
             IN  /\ Goto(w, CASE ~Owned(w) \/ status # "verifying" -> "exit"
                              [] r = "missing_contract"           -> "noContract"
                              [] fixes                            -> "setFix"
                              [] OTHER                            -> "toReview")
                 /\ seenFix' = [seenFix EXCEPT ![w] =
                                  IF fixes THEN core.fix ELSE 0]
    /\ MayBumpVersion
    /\ sameHead' = sameHead \ {w}
    /\ UNCHANGED <<status, attention, core, crashes, leaseVars, metaVars,
                   attemptVars, agents, phase, result, seenMeta, seenOwner,
                   lost>>

\* Every exception is swallowed; the job is parked or failed if still ours.
VerifyRaises(w) ==
    /\ pc[w] = "verify"
    /\ IF Owned(w) /\ status = "verifying"
       THEN \/ AdvanceTo("needs_human", "paused", FALSE)
            \/ \E sandboxMissing \in BOOLEAN :
                  AdvanceTo("failed", "none", sandboxMissing)
       ELSE UNCHANGED rowVars
    /\ sameHead' = sameHead \ {w}
    /\ Goto(w, "exit")
    /\ UNCHANGED <<leaseVars, metaVars, attemptVars, checks, agents, locals>>

NoContract(w) ==
    /\ pc[w] = "noContract"
    /\ Park(w, "paused")
    /\ UNCHANGED <<leaseVars, metaVars, attemptVars, workVars, locals>>

ToReview(w) ==
    /\ pc[w] = "toReview"
    /\ FencedMove(w, "reviewing", "none", FALSE, "exit")
    /\ UNCHANGED <<leaseVars, metaVars, attemptVars, workVars, locals>>

\* The fix round: the counter, the metadata note, then the requeue.
SetFix(w) ==
    /\ pc[w] = "setFix"
    /\ SetFixAttempts(seenFix[w] + 1)
    /\ Goto(w, "noteFix")
    /\ seenFix' = [seenFix EXCEPT ![w] = 0]
    /\ seenMeta' = [seenMeta EXCEPT ![w] = meta]
    /\ UNCHANGED <<status, attention, fresh, crashes, leaseVars, metaVars,
                   attemptVars, workVars, phase, result, seenOwner, lost>>

NoteFix(w) ==
    /\ pc[w] = "noteFix"
    /\ WriteMeta(seenMeta[w])
    /\ seenMeta' = [seenMeta EXCEPT ![w] = NoMeta]
    /\ Goto(w, "requeue")
    /\ UNCHANGED <<status, attention, core, crashes, leaseVars, planned,
                   attemptVars, workVars, phase, result, seenFix, seenOwner,
                   lost>>

Requeue(w) ==
    /\ pc[w] = "requeue"
    /\ FencedMove(w, "queued", "none", FALSE, "exit")
    /\ UNCHANGED <<leaseVars, metaVars, attemptVars, workVars, locals>>

-----------------------------------------------------------------------------
\* The review phase: run_review_stage(), then apply_review_verdict().

\* The job left REVIEWING before the stage read it.
NoReview(w) ==
    /\ pc[w] = "review" /\ status # "reviewing"
    /\ Goto(w, "exit")
    /\ UNCHANGED <<storeVars, locals>>

ReviewEnds(w) ==
    /\ pc[w] = "reviewing"
    /\ Goto(w, IF AnswerCounts(w) THEN "verdict" ELSE "exit")
    /\ seenOwner' = [seenOwner EXCEPT ![w] = NoWorker]
    /\ MayBumpVersion
    /\ UNCHANGED <<status, attention, core, crashes, leaseVars, metaVars,
                   attemptVars, workVars, phase, result, seenFix, seenMeta,
                   lost>>

ReviewFails(w) ==
    /\ pc[w] \in {"reviewing", "verdict"}
    /\ \/ ~Owned(w) /\ Goto(w, "exit") /\ UNCHANGED rowVars
       \/ Owned(w) /\ FencedMove(w, "failed", "none", TRUE, "exit")
       \/ Owned(w) /\ Park(w, "paused")
    /\ UNCHANGED <<leaseVars, metaVars, attemptVars, workVars, locals>>

\* Mutant: a finished review goes on to publish.
Verdict_Publishes(w) ==
    /\ pc[w] = "verdict"
    /\ IF status = "reviewing" /\ (worker = NoWorker \/ Owns(worker))
       THEN FencedMove(w, "publishing", "none", FALSE, "exit")
       ELSE Goto(w, "exit") /\ UNCHANGED rowVars
    /\ UNCHANGED <<leaseVars, metaVars, attemptVars, workVars, locals>>

\* The lease asserted here is the row's, whoever holds it.
Verdict(w) ==
    /\ pc[w] = "verdict"
    /\ IF status = "reviewing" /\ (worker = NoWorker \/ Owns(worker))
       THEN Park(w, "review_done")
       ELSE Goto(w, "exit") /\ UNCHANGED rowVars
    /\ UNCHANGED <<leaseVars, metaVars, attemptVars, workVars, locals>>

-----------------------------------------------------------------------------
\* The publish phase (publish_job()).

PublishFails(w) ==
    /\ pc[w] = "publish" /\ status = "publishing"
    /\ Park(w, "paused")
    /\ UNCHANGED <<leaseVars, metaVars, attemptVars, workVars, locals>>

\* Nothing to do, publishing disabled, or pushed with a pull request.
PublishEnds(w) ==
    /\ pc[w] = "publish"
    /\ \/ status # "publishing" /\ Goto(w, "exit")
       \/ status = "publishing" /\ ~Publishes /\ Goto(w, "announce")
       \/ /\ status = "publishing" /\ Publishes
          /\ checks = "passed"
          /\ Goto(w, "recordPR")
    /\ UNCHANGED <<storeVars, locals>>

RecordPR(w) ==
    /\ pc[w] = "recordPR"
    /\ WriteMeta([meta EXCEPT !.pr = "open"])
    /\ Goto(w, "announce")
    /\ UNCHANGED <<status, attention, core, crashes, leaseVars, planned,
                   attemptVars, workVars, locals>>

Announce(w) ==
    /\ pc[w] = "announce"
    /\ FencedMove(w, "ready_for_review", "none", FALSE, "exit")
    /\ UNCHANGED <<leaseVars, metaVars, attemptVars, workVars, locals>>

-----------------------------------------------------------------------------
\* The heartbeat thread, and the end of a process without its finally block.

\* heartbeat(): by worker id alone; it renews a lease that has expired.
Heartbeat(w) ==
    /\ Heartbeating(w)
    /\ worker = w /\ lease = "expired"
    /\ lease' = "live"
    /\ UNCHANGED <<rowVars, worker, metaVars, attemptVars, workVars, pc, locals>>

\* heartbeat_loop(): an error of the store counts as a lost lease.
HeartbeatFails(w) ==
    /\ Heartbeating(w)
    /\ lost' = [lost EXCEPT ![w] = TRUE]
    /\ UNCHANGED <<storeVars, pc, phase, result, seenFix, seenMeta, seenOwner>>

\* The process dies; its container does not.
Dies(w) ==
    /\ pc[w] # "off"
    /\ Forget(w)
    /\ sameHead' = sameHead \ {w}
    /\ UNCHANGED <<rowVars, leaseVars, metaVars, attemptVars, checks, agents>>

ImplementPhase(w) ==
    \/ ToPreparing(w) \/ Prepare(w) \/ PrepareFails(w)
    \/ ModelsUnset(w) \/ NoPlanning(w) \/ ToPlanning(w)
    \/ PlannerAnswers(w) \/ PlannerFails(w) \/ SavePlan(w) \/ ApplyContract(w)
    \/ AfterPlanning(w) \/ RequirePlan(w) \/ NewAttempt(w) \/ ToRunning(w)
    \/ RunAgent(w) \/ AgentEnds(w) \/ FinishAttempt(w)
    \/ AgentRaises(w) \/ SetupRaises(w)

VerifyPhase(w) ==
    \/ VerifyEnds(w) \/ VerifyRaises(w) \/ NoContract(w) \/ ToReview(w)
    \/ SetFix(w) \/ NoteFix(w) \/ Requeue(w)

ReviewPhase(w) == NoReview(w) \/ ReviewEnds(w) \/ ReviewFails(w) \/ Verdict(w)

PublishPhase(w) == PublishFails(w) \/ PublishEnds(w) \/ RecordPR(w) \/ Announce(w)

\* One step of the process of w, other than its heartbeat or its death.
WorkerStep(w) ==
    \/ Boot(w) \/ AskModel(w) \/ Refused(w) \/ Exit(w)
    \/ ImplementPhase(w) \/ VerifyPhase(w) \/ ReviewPhase(w) \/ PublishPhase(w)

LocalsTypeOK ==
    /\ phase \in [Workers -> Phases \cup {"none"}]
    /\ result \in [Workers -> Outcomes \cup {"cancelled", "none"}]
    /\ seenFix \in [Workers -> Nat]
    /\ seenMeta \in [Workers -> MetaDocuments]
    /\ seenOwner \in [Workers -> Workers \cup {NoWorker}]
    /\ lost \in [Workers -> BOOLEAN]

WorkerTypeOK == LocalsTypeOK /\ pc \in [Workers -> WorkerSteps]
=============================================================================
