----------------------------- MODULE JobPipeline -----------------------------
(* One durable job with everything that acts on it: worker processes, the     *)
(* controllers, the humans and the pollers, interleaving between store        *)
(* transactions; and the faults: leases that lapse under a live process,      *)
(* dying workers, restarting controllers, store errors.                       *)
(*                                                                            *)
(* Faults, human commands and polls are drawn from a budget, so that a run    *)
(* can name the ones it looks at; everything else is unbounded.               *)
EXTENDS JobCommands

CONSTANTS
    Budget          \* how often each of BudgetKinds may happen

BudgetKinds == {"lapse", "crash", "restart", "storeError", "command",
                "edit", "poll"}

ASSUME BudgetAssumption == Budget \in [BudgetKinds -> Nat]

VARIABLES
    budget,         \* what is left of it
    reviewed,       \* history: the implementer has not run since a review
    rounds          \* history: fix rounds since a human last began fresh work

historyVars == <<reviewed, rounds>>

vars == <<storeVars, workerVars, controllerVars, commandVars, budget, historyVars>>

Init ==
    /\ StoreInit
    /\ WorkerInit
    /\ ControllerInit
    /\ CommandInit
    /\ budget = Budget
    /\ reviewed = FALSE
    /\ rounds = 0

\* A check round that sends the job back to the implementer; the count starts
\* again where a human leaves a gate, rechecks or re-prompts.
HistoryNext ==
    /\ reviewed' = IF status' = "running" /\ status # "running" THEN FALSE
                   ELSE IF core'.state = "review_done" /\ core.state = "reviewing"
                   THEN TRUE ELSE reviewed
    /\ rounds' = IF core'.state # core.state
                    /\ EffectiveState(core) \in ResetsFixBudget THEN 0
                 ELSE IF status = "verifying" /\ status' = "queued"
                 THEN rounds + 1 ELSE rounds

-----------------------------------------------------------------------------
\* Faults.

Spend(kind) ==
    /\ budget[kind] > 0
    /\ budget' = [budget EXCEPT ![kind] = @ - 1]

\* Nobody renews the lease: its holder is gone, or its heartbeat has stopped.
Abandoned(w) ==
    /\ pc[w] = "off" \/ lost[w]
    /\ \A c \in Controllers : cworker[c] # w

Expire ==
    /\ lease = "live"
    /\ lease' = "expired"
    /\ UNCHANGED <<rowVars, worker, metaVars, attemptVars, workVars, workerVars,
                   controllerVars, commandVars>>

\* Time passes: an abandoned lease expires.
LeaseExpires == worker # NoWorker /\ Abandoned(worker) /\ Expire /\ UNCHANGED budget

\* The holder is alive but too slow: suspended, starved, or the clock jumps.
Lapse == worker # NoWorker /\ ~Abandoned(worker) /\ Expire /\ Spend("lapse")

Crash(w) == Dies(w) /\ Spend("crash") /\ UNCHANGED <<controllerVars, commandVars>>

StoreError(w) ==
    HeartbeatFails(w) /\ Spend("storeError") /\ UNCHANGED <<controllerVars, commandVars>>

ControllerRestart(c) == Restart(c) /\ Spend("restart") /\ UNCHANGED commandVars

-----------------------------------------------------------------------------
Process(w) ==
    /\ WorkerStep(w) \/ Heartbeat(w)
    /\ UNCHANGED <<controllerVars, commandVars, budget>>

Controller(c) == ControllerStep(c) /\ UNCHANGED <<commandVars, budget>>

Command ==
    /\ \/ ApprovePlan \/ RejectPlan \/ Resume \/ Retry \/ Recheck \/ Reprompt
       \/ Push \/ Repush \/ MarkMerged \/ Discard
    /\ Spend("command")

\* A command that leaves the job where it is.
Edit == RaiseLimit /\ Spend("edit")

Poll == (PollHost \/ DriftFound) /\ Spend("poll")

Finish == (Handler \/ Poller) /\ UNCHANGED budget

Next ==
    /\ \/ \E w \in Workers : Process(w) \/ Crash(w) \/ StoreError(w)
       \/ \E c \in Controllers : Controller(c) \/ ControllerRestart(c)
       \/ Command \/ Edit \/ Poll \/ Finish
       \/ LeaseExpires \/ Lapse
    /\ HistoryNext

Spec == Init /\ [][Next]_vars

\* What the code's scheduling guarantees: a process that can run runs, a
\* controller keeps ticking and does each part of its tick, starting a process
\* does not fail for ever, a dispatched command and a poll are carried out,
\* and time passes.
Fairness ==
    /\ \A w \in Workers : WF_vars(Process(w) /\ HistoryNext)
    /\ \A c \in Controllers :
          /\ WF_vars(Recovery(c) /\ UNCHANGED <<commandVars, budget>> /\ HistoryNext)
          /\ WF_vars(Scheduling(c) /\ UNCHANGED <<commandVars, budget>> /\ HistoryNext)
          /\ SF_vars(Popen(c) /\ UNCHANGED <<commandVars, budget>> /\ HistoryNext)
          /\ WF_vars(ReapProcess(c) /\ UNCHANGED <<commandVars, budget>> /\ HistoryNext)
    /\ WF_vars(Finish /\ HistoryNext)
    /\ WF_vars(LeaseExpires /\ HistoryNext)

FairSpec == Spec /\ Fairness

-----------------------------------------------------------------------------
TypeOK ==
    /\ StoreTypeOK
    /\ WorkerTypeOK
    /\ ControllerTypeOK
    /\ CommandTypeOK
    /\ budget \in [BudgetKinds -> Nat]
    /\ reviewed \in BOOLEAN
    /\ rounds \in Nat

-----------------------------------------------------------------------------
(* Safety.                                                                    *)

\* The status column, which schedules the job, and the pipeline state, which
\* decides what a human may do with it, describe the same moment of the job:
\* each is written by its own table, and commands bypass the status table.
Coherent == Agrees(status, attention, core)

\* A worker that owns the job finds it where its own phase left it: neither a
\* recovery nor a command, except a cancellation, moves it under its feet.
\* (At "planned" the plan contract may have parked it already.)
ExpectedStatus(step) ==
    CASE step = "start" -> {"queued"}
      [] step = "prepare" -> {"preparing", "recovering", "planning"}
      [] step = "plan" -> {"preparing", "planning"}
      [] step \in {"ask", "planning", "savePlan", "contract"} -> {"planning"}
      [] step \in {"gate", "attempt", "launch"} ->
            {"preparing", "planning", "recovering"}
      [] step \in {"contain", "running", "finish"} -> {"running"}
      [] step \in VerifySteps -> {"verifying"}
      [] step \in ReviewSteps -> {"reviewing"}
      [] step \in PublishSteps -> {"publishing"}
      [] OTHER -> JobStatus

OwnerUndisturbed ==
    \A w \in Workers :
        Owned(w) => status \in ExpectedStatus(pc[w]) \cup {"cancelled"}

\* At most one implement container works on the job's worktree.
OneAgent == Cardinality(agents) <= 1

\* An attempt that ended well has taken its job along: a RUNNING job never
\* carries the outcome of a finished attempt.
OutcomeIsAtomic ==
    status = "running" /\ newest # NoWorker =>
        attempt[newest] \notin {"completed", "needs_human"}

\* Between two decisions of a human, the checks send the job back to the
\* implementer at most MaxFix times.
FixRoundsCapped == rounds <= MaxFix

\* No implementer starts in a staged job without an approved plan.
PlanGate ==
    \A w \in Workers :
        Staged /\ Owned(w) /\ pc[w] \in {"contain", "running"} => meta.approved

\* What is pushed has been reviewed since the implementer last ran, and its
\* checks can be shown for the HEAD that is pushed.
PushedIsReviewed ==
    \A w \in Workers :
        Owned(w) /\ pc[w] \in {"recordPR", "announce"} =>
            reviewed /\ (Publishes => checks = "passed")

\* A job in a worker's status has a lease, which will expire if its worker is
\* gone, or a controller that is about to recover it.
NoOrphan ==
    status \in {"preparing", "running"} /\ worker = NoWorker =>
        \E c \in Controllers : cstep[c] \notin {"idle", "acquire", "popen"}

\* A merged or cancelled job stays what it is, whoever still acts on it.
TerminalIsFinal == [][(status \in TerminalStatuses) => status' = status]_vars

-----------------------------------------------------------------------------
(* The pipeline keeps the promise of JobLifecycle.                            *)

StageOf(s) ==
    CASE s \in {"selected", "provisioning", "planning", "plan_review"} -> "design"
      [] s \in {"implementing", "checking", "reviewing"} -> "build"
      [] s = "review_done" -> "reviewed"
      [] s = "pushing"     -> "publish"
      [] s = "pushed"      -> "pushed"
      [] s = "done"        -> "merged"
      [] s = "cancelled"   -> "cancelled"

Promise == INSTANCE JobLifecycle WITH
    Gated <- PlanMode = "gated",
    stage <- StageOf(EffectiveState(core)),
    approved <- Staged /\ meta.approved,
    deciding <- cmd.step # "none"

\* A human sees the job of JobLifecycle: no fault, and no order in which
\* workers, controllers and commands act, lets it pass a gate by itself.
KeepsPromise == Promise!LifecycleSpec

-----------------------------------------------------------------------------
(* Liveness, under FairSpec.                                                  *)

Resting ==
    status \in {"needs_human", "ready_for_review", "conflicted"}
              \cup FailureStatuses \cup TerminalStatuses

\* A job that is left alone comes to rest at a gate, in a failure a human can
\* retry, or at its end: no crash leaves it in a status nobody works on.
ComesToRest == []<>Resting

\* A cancelled job lets go of its worker process and of its lease.
CancelledLetsGo ==
    status = "cancelled" ~> worker = NoWorker /\ \A w \in Workers : pc[w] = "off"
=============================================================================
