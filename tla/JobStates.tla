------------------------------ MODULE JobStates ------------------------------
(* The job lifecycle tables of mu/jobs/core/states.py: the stored status and  *)
(* its legal moves, the pipeline ("core") state and its legal moves, and the  *)
(* two mappings between them (advance, to_legacy_status).  Pure: no state.    *)
(*                                                                            *)
(* The statuses timed_out and budget_exceeded are left out: the source keeps  *)
(* them for old rows only, no code path writes them.  Attention reasons are   *)
(* abstracted to the three that name a gate, and "paused" for every other one *)
(* (question, provider error, limit reached, worker lost, merge conflict...). *)
EXTENDS Integers

NoState == "none"

JobState == {"selected", "provisioning", "planning", "plan_review",
             "implementing", "checking", "reviewing", "review_done",
             "pushing", "pushed", "done", "needs_input", "failed", "cancelled"}

TERMINAL == {"done", "cancelled"}

ACTIVE == {"provisioning", "planning", "implementing", "checking",
           "reviewing", "pushing"}

WAITING == {"plan_review", "review_done", "needs_input"}

\* A stage, or a gate where a human decides: what a paused job can return to.
Steps == JobState \ {"selected", "done", "needs_input", "failed", "cancelled"}

CoreTransitions(s) ==
    CASE s = "selected"     -> {"provisioning"}
      [] s = "provisioning" -> {"planning", "implementing"}
      [] s = "planning"     -> {"plan_review", "implementing"}
      [] s = "plan_review"  -> {"implementing", "planning"}
      [] s = "implementing" -> {"checking"}
      [] s = "checking"     -> {"implementing", "reviewing"}
      [] s = "reviewing"    -> {"review_done"}
      [] s = "review_done"  -> {"pushing", "implementing", "checking"}
      [] s = "pushing"      -> {"pushed"}
      [] s = "pushed"       -> {"done", "implementing", "pushing"}
      [] OTHER              -> {}

Core(s, paused, failed, fixes) ==
    [state |-> s, pausedFrom |-> paused, failedFrom |-> failed, fix |-> fixes]

CoreStates ==
    [state : JobState, pausedFrom : JobState \cup {NoState},
     failedFrom : JobState \cup {NoState}, fix : Nat]

\* A core record in `s`, with no origin to return to.
At(s, fixes) == Core(s, NoState, NoState, fixes)

\* transition(): does the pure transition function accept the move?
CoreMoveAllowed(c, target) ==
    /\ c.state \notin TERMINAL
    /\ \/ target = "cancelled"
       \/ target = "needs_input" /\ c.state \in ACTIVE
       \/ target = "failed" /\ c.state \in ACTIVE \cup WAITING
       \/ /\ target \notin {"cancelled", "needs_input", "failed"}
          /\ CASE c.state = "needs_input" -> target = c.pausedFrom
               [] c.state = "failed"      -> target = c.failedFrom
               [] OTHER                   -> target \in CoreTransitions(c.state)

\* Entering the implementer from one of these is fresh work: fix budget 0.
FreshImplementation == {"plan_review", "provisioning", "planning",
                        "review_done", "pushed"}

\* transition(), for the targets the commands use (a gate, a stage or "done";
\* a fix-round move checking -> implementing never comes through here).
CoreMove(c, target) ==
    IF c.state = "needs_input" THEN Core(target, NoState, c.failedFrom, c.fix)
    ELSE IF c.state = "failed" THEN Core(target, c.pausedFrom, NoState, c.fix)
    ELSE At(target, IF target = "implementing" /\ c.state \in FreshImplementation
                    THEN 0 ELSE c.fix)

\* effective_state(): the step a paused or failed job is "in".
EffectiveState(c) ==
    CASE c.state = "needs_input" /\ c.pausedFrom # NoState -> c.pausedFrom
      [] c.state = "failed" /\ c.failedFrom # NoState      -> c.failedFrom
      [] OTHER                                             -> c.state

-----------------------------------------------------------------------------
\* The stored status column.

JobStatus == {"queued", "preparing", "running", "needs_human", "verifying",
              "planning", "reviewing", "publishing", "ready_for_review",
              "recovering", "conflicted", "failed", "environment_error",
              "cancelled", "merged"}

TerminalStatuses == {"cancelled", "merged"}

FailureStatuses == {"failed", "environment_error"}

RetryTargets == {"queued", "planning", "verifying", "reviewing", "publishing",
                 "cancelled"}

StatusTransitions(s) ==
    CASE s = "queued"      -> {"preparing", "cancelled"}
      [] s = "preparing"   -> {"planning", "running", "needs_human",
                               "recovering", "environment_error", "failed",
                               "cancelled"}
      [] s = "running"     -> {"needs_human", "verifying", "recovering",
                               "failed", "environment_error", "cancelled",
                               "queued"}
      [] s = "needs_human" -> {"planning", "reviewing", "publishing",
                               "verifying", "running", "queued", "failed",
                               "cancelled"}
      [] s = "verifying"   -> {"reviewing", "ready_for_review", "queued",
                               "running", "needs_human", "recovering",
                               "conflicted", "failed", "cancelled"}
      [] s = "ready_for_review" -> {"verifying", "queued", "running",
                               "conflicted", "merged", "needs_human",
                               "cancelled"}
      [] s = "recovering"  -> {"planning", "reviewing", "publishing",
                               "running", "needs_human", "failed",
                               "cancelled", "environment_error"}
      [] s = "conflicted"  -> {"queued", "running", "needs_human", "merged",
                               "failed", "cancelled"}
      [] s = "planning"    -> {"running", "needs_human", "recovering",
                               "queued", "failed", "cancelled",
                               "environment_error"}
      [] s = "reviewing"   -> {"running", "publishing", "ready_for_review",
                               "needs_human", "recovering", "queued",
                               "failed", "cancelled"}
      [] s = "publishing"  -> {"ready_for_review", "needs_human",
                               "recovering", "failed", "cancelled"}
      [] s \in FailureStatuses -> RetryTargets
      [] OTHER             -> {}

\* Mutant: the table of legal moves is not asked.
LegalMove_AnyTarget(from, to) == to \in JobStatus

\* can_transition_status(), with the store's "same status is always legal".
LegalMove(from, to) == from = to \/ to \in StatusTransitions(from)

Phases == {"implementation", "verification", "review", "publish"}

\* STATUS_PHASE: the worker the controller launches for a schedulable status.
PhaseOf(s) ==
    CASE s \in {"queued", "planning", "recovering"} -> "implementation"
      [] s = "verifying"                            -> "verification"
      [] s = "reviewing"                            -> "review"
      [] s = "publishing"                           -> "publish"

\* Mutant: a recovered job is not scheduled.
SchedulableStatuses_NotRecovering ==
    {"queued", "planning", "verifying", "reviewing", "publishing"}

SchedulableStatuses == {"queued", "planning", "recovering", "verifying",
                        "reviewing", "publishing"}

\* A lease expiry in these re-dispatches the same stage.
StageRetryStatuses == {"planning", "verifying", "reviewing", "publishing"}

-----------------------------------------------------------------------------
\* advance(): the core state that follows a write of a status.

StageStatuses == {"planning", "running", "verifying", "reviewing",
                  "publishing", "ready_for_review", "merged", "cancelled"}

StageStatusState(s) ==
    CASE s = "planning"         -> "planning"
      [] s = "running"          -> "implementing"
      [] s = "verifying"        -> "checking"
      [] s = "reviewing"        -> "reviewing"
      [] s = "publishing"       -> "pushing"
      [] s = "ready_for_review" -> "pushed"
      [] s = "merged"           -> "done"
      [] s = "cancelled"        -> "cancelled"

SchedulingStatuses == {"queued", "preparing", "recovering"}

Reasons == {"none", "plan_review", "review_done", "pr_closed", "paused"}

GateReasons == {"plan_review", "review_done", "pr_closed"}

GateState(reason) ==
    CASE reason = "plan_review" -> "plan_review"
      [] reason = "review_done" -> "review_done"
      [] reason = "pr_closed"   -> "pushed"

\* The gates a human leaves with fresh work: the fix budget starts again.
ResetsFixBudget == {"plan_review", "review_done", "pushed"}

\* RESCHEDULE and the _FRESH landing, for a prior state that keeps no origin.
Landing(s, status) ==
    CASE s \in ResetsFixBudget \cup {"implementing", "checking"}
                                -> "implementing"
      [] status = "recovering"  -> "implementing"
      [] OTHER                  -> "provisioning"

OriginOf(c) ==
    CASE c.state = "needs_input" ->
            IF c.pausedFrom = NoState THEN "implementing" ELSE c.pausedFrom
      [] c.state = "failed" ->
            IF c.failedFrom = NoState THEN "provisioning" ELSE c.failedFrom
      [] OTHER -> c.state

Rescheduled(c, status) ==
    LET origin == OriginOf(c)
        gate == IF c.state = "needs_input" THEN origin ELSE c.state
    IN  IF \/ c.state = "failed"
           \/ c.state = "needs_input" /\ origin \notin ResetsFixBudget
        THEN At(origin, c.fix)
        ELSE At(Landing(gate, status),
                IF gate \in ResetsFixBudget THEN 0 ELSE c.fix)

Advance(c, status, reason, sandboxMissing) ==
    CASE status \in StageStatuses -> At(StageStatusState(status), c.fix)
      [] status \in SchedulingStatuses -> Rescheduled(c, status)
      [] status = "needs_human" /\ reason \in GateReasons ->
            At(GateState(reason), c.fix)
      [] status \in {"needs_human", "conflicted"} /\ reason \notin GateReasons ->
            Core("needs_input", OriginOf(c), NoState, c.fix)
      [] status \in FailureStatuses ->
            Core("failed", NoState,
                 IF status = "failed" /\ sandboxMissing
                 THEN "provisioning" ELSE OriginOf(c),
                 c.fix)

InitialCore == At("provisioning", 0)

\* Mutant: a core state without an entry is written under its own name.
LegacyStatus_StateName(s) ==
    CASE s = "planning"     -> "planning"
      [] s = "implementing" -> "running"
      [] s = "done"         -> "merged"
      [] s \in WAITING      -> "needs_human"
      [] OTHER              -> s

\* to_legacy_status(): the status a command-driven core move writes.
LegacyStatus(s) ==
    CASE s = "selected"     -> "queued"
      [] s = "provisioning" -> "preparing"
      [] s = "planning"     -> "planning"
      [] s = "implementing" -> "running"
      [] s = "checking"     -> "verifying"
      [] s = "reviewing"    -> "reviewing"
      [] s = "pushing"      -> "publishing"
      [] s = "pushed"       -> "ready_for_review"
      [] s = "done"         -> "merged"
      [] s = "failed"       -> "failed"
      [] s = "cancelled"    -> "cancelled"
      [] s \in WAITING      -> "needs_human"

-----------------------------------------------------------------------------
\* When the two columns describe the same moment of a job: the pipeline states
\* a status goes with; an origin exactly while the job is paused or failed; the
\* attention reason naming the gate it waits at.

CoreStatesOf(s) ==
    CASE s \in SchedulingStatuses -> Steps
      [] s \in StageStatuses -> {StageStatusState(s)}
      [] s = "needs_human" -> WAITING \cup {"pushed"}
      [] s = "conflicted" -> {"needs_input"}
      [] s \in FailureStatuses -> {"failed"}

Origins(c) ==
    /\ c.state = "needs_input" <=> c.pausedFrom # NoState
    /\ c.state = "failed" <=> c.failedFrom # NoState
    /\ c.pausedFrom \in Steps \cup {NoState}
    /\ c.failedFrom \in Steps \cup {NoState}

Agrees(s, reason, c) ==
    /\ c.state \in CoreStatesOf(s)
    /\ Origins(c)
    /\ s = "needs_human" /\ c.state \in GateReasons => reason = c.state
=============================================================================
