----------------------------- MODULE JobCommands -----------------------------
(* What moves a job besides its workers and controllers: the commands of a    *)
(* human (mu/jobs/core/commands.py, with the availability rules of actions.py *)
(* and the review service), the merge poll of publish.py and the base drift   *)
(* watch of base_drift.py.  None of them holds a lease.                       *)
(*                                                                            *)
(* A command runs under the job's command lock: it checks its rule on facts   *)
(* it reads, then its handler makes one store transaction after another.      *)
EXTENDS JobController

VARIABLES
    cmd,            \* the command being dispatched: [step, to, doc]
    poll            \* what a poll has found and not yet applied

commandVars == <<cmd, poll>>

NoCommand == [step |-> "none", to |-> "none", doc |-> NoMeta]

CommandSteps == {"none", "approve", "reject", "resetFix", "core", "move",
                 "resume", "retry", "resolve", "raise"}

PollSteps == {"none", "merged", "closed", "applyMerged", "applyClosed", "drift"}

CommandInit == cmd = NoCommand /\ poll = "none"

others == <<workerVars, controllerVars>>

\* service.transition() without a lease owner: legal, or an error.
HumanMove(to, reason) ==
    IF status # to /\ LegalMove(status, to)
    THEN AdvanceTo(to, reason, FALSE)
    ELSE UNCHANGED rowVars

\* transition_core(): legal in the core table, or an error.
CoreCommand(target, queued) ==
    IF core.state = target \/ CoreMoveAllowed(core, target)
    THEN TransitionCore(target, queued)
    ELSE UNCHANGED rowVars

-----------------------------------------------------------------------------
\* check_allowed() accepts a command on the facts of this moment.

Accept(step, to) ==
    /\ cmd.step = "none"
    /\ cmd' = [step |-> step, to |-> to, doc |-> meta]
    /\ UNCHANGED <<storeVars, others, poll>>

ApprovePlan == core.state = "plan_review" /\ planned /\ Accept("approve", "implementing")

RejectPlan == core.state = "plan_review" /\ Accept("reject", "planning")

\* Mutant: a review that is resumed is taken for done.
StageStatusOf_SkipsReview(s) ==
    CASE s = "planning"                -> "planning"
      [] s = "checking"                -> "verifying"
      [] s \in {"reviewing", "pushing"} -> "publishing"
      [] OTHER                         -> "queued"

\* The stages a paused or failed job re-enters by a status of their own.
StageStatusOf(s) ==
    CASE s = "planning"  -> "planning"
      [] s = "checking"  -> "verifying"
      [] s = "reviewing" -> "reviewing"
      [] s = "pushing"   -> "publishing"
      [] OTHER           -> "queued"

\* resume, and raiseLimit or restartStage on a paused job.
Resume ==
    /\ core.state = "needs_input"
    /\ IF status = "conflicted"
       THEN Accept("resolve", "queued")
       ELSE Accept(IF StageStatusOf(core.pausedFrom) = "queued"
                   THEN "resume" ELSE "move",
                   StageStatusOf(core.pausedFrom))

Retry ==
    /\ core.state = "failed"
    /\ IF core.failedFrom \in {"plan_review", "review_done"}
       THEN Accept("core", core.failedFrom)
       ELSE Accept(IF StageStatusOf(core.failedFrom) = "queued"
                   THEN "retry" ELSE "move",
                   StageStatusOf(core.failedFrom))

Recheck ==
    /\ core.state \in {"review_done", "pushed"}
    /\ Accept("resetFix", "verifying")

Reprompt ==
    /\ core.state \in {"review_done", "pushed"}
    /\ Accept("resetFix", "implementing")

Push == core.state = "review_done" /\ checks = "passed" /\ Accept("core", "pushing")

Repush == core.state = "pushed" /\ meta.pr = "closed" /\ Accept("core", "pushing")

MarkMerged == core.state = "pushed" /\ Accept("core", "done")

Discard == core.state \notin TERMINAL /\ Accept("move", "cancelled")

RaiseLimit == core.state \notin TERMINAL /\ Accept("raise", "none")

-----------------------------------------------------------------------------
\* The handlers.

Proceed(step) == cmd' = [cmd EXCEPT !.step = step, !.doc = NoMeta]

\* approve_plan() and reject_plan(): the whole metadata document is written
\* back; then the gate is left.
WritePlanDecision ==
    /\ cmd.step \in {"approve", "reject"}
    /\ WriteMeta([cmd.doc EXCEPT !.approved = @ \/ cmd.step = "approve"])
    /\ Proceed("core")
    /\ UNCHANGED <<status, attention, core, crashes, leaseVars, planned,
                   attemptVars, workVars, others, poll>>

\* recheck and reprompt start the fix budget again, and mark the metadata.
ResetFix ==
    /\ cmd.step = "resetFix"
    /\ SetFixAttempts(0)
    /\ fresh' = {}
    /\ Proceed(IF cmd.to = "verifying" THEN "move" ELSE "core")
    /\ UNCHANGED <<status, attention, crashes, leaseVars, metaVars,
                   attemptVars, workVars, others, poll>>

MoveCore ==
    /\ cmd.step = "core"
    /\ CoreCommand(cmd.to, cmd.to = "implementing")
    /\ cmd' = NoCommand
    /\ UNCHANGED <<leaseVars, metaVars, attemptVars, workVars, others, poll>>

\* service.transition(), or service.resume() and retry() with their checks.
MoveStatus ==
    /\ cmd.step \in {"move", "resume", "retry"}
    /\ IF \/ cmd.step = "move"
          \/ status = "needs_human"
          \/ cmd.step = "retry" /\ status \in FailureStatuses
       THEN HumanMove(cmd.to, "none")
       ELSE UNCHANGED rowVars
    /\ cmd' = NoCommand
    /\ UNCHANGED <<leaseVars, metaVars, attemptVars, workVars, others, poll>>

\* resolve_conflict(): the host merges the base into the branch; requeue.
ResolveConflict ==
    /\ cmd.step = "resolve"
    /\ IF status = "conflicted"
       THEN AdvanceTo("queued", "none", FALSE) /\ BranchChanges
       ELSE UNCHANGED <<rowVars, checks, sameHead>>
    /\ cmd' = NoCommand
    /\ UNCHANGED <<leaseVars, metaVars, attemptVars, agents, others, poll>>

\* raise_limit(): an atomic edit of the metadata.
GrantLimit ==
    /\ cmd.step = "raise"
    /\ WriteMeta([meta EXCEPT !.grants = @ + 1])
    /\ cmd' = NoCommand
    /\ UNCHANGED <<status, attention, core, crashes, leaseVars, planned,
                   attemptVars, workVars, others, poll>>

Handler ==
    \/ WritePlanDecision \/ ResetFix \/ MoveCore \/ MoveStatus
    \/ ResolveConflict \/ GrantLimit

-----------------------------------------------------------------------------
\* The merge poll and the drift watch.

Polled == {"ready_for_review", "conflicted"}

\* check_pr_state(): what the host says of the job's pull request.
PollHost ==
    /\ poll = "none"
    /\ status \in Polled /\ meta.pr \in {"open", "merged"}
    /\ poll' \in {"merged", "closed"}
    /\ UNCHANGED <<storeVars, others, cmd>>

\* The job is still one to poll: stamp the pull request, which a publish in
\* between has kept (open_draft_pr() replaces only one flagged "closed")...
StampPR ==
    /\ poll \in {"merged", "closed"}
    /\ IF status \in Polled
       THEN /\ WriteMeta([meta EXCEPT !.pr = poll])
            /\ poll' = IF poll = "merged" THEN "applyMerged" ELSE "applyClosed"
       ELSE poll' = "none" /\ UNCHANGED <<fresh, meta>>
    /\ UNCHANGED <<status, attention, core, crashes, leaseVars, planned,
                   attemptVars, workVars, others, cmd>>

\* ... and move the job.
ApplyPoll ==
    /\ \/ poll = "applyMerged" /\ HumanMove("merged", "none")
       \/ poll = "applyClosed" /\ HumanMove("needs_human", "pr_closed")
    /\ poll' = "none"
    /\ UNCHANGED <<leaseVars, metaVars, attemptVars, workVars, others, cmd>>

\* apply_base_drift(): the branch no longer merges and no PR is open.
DriftFound ==
    /\ poll = "none"
    /\ status = "ready_for_review" /\ meta.pr \in {"none", "closed"}
    /\ poll' = "drift"
    /\ UNCHANGED <<storeVars, others, cmd>>

MarkConflicted ==
    /\ poll = "drift"
    /\ HumanMove("conflicted", "paused")
    /\ poll' = "none"
    /\ UNCHANGED <<leaseVars, metaVars, attemptVars, workVars, others, cmd>>

Poller == StampPR \/ ApplyPoll \/ MarkConflicted

CommandTypeOK ==
    /\ cmd \in [step : CommandSteps,
                to : JobStatus \cup JobState \cup {"none"},
                doc : MetaDocuments]
    /\ poll \in PollSteps
=============================================================================
