---------------------------- MODULE JobController ----------------------------
(* The job controllers (mu/jobs/controller.py) and the lease recovery they    *)
(* run (recover_expired_leases() in mu/jobs/service.py).                      *)
(*                                                                            *)
(* A controller holds no lease itself: it recovers expired leases, leases a   *)
(* schedulable job for a fresh worker id and starts the worker process.  Its  *)
(* _active table keeps it from starting a second process for a job while its  *)
(* own child lives; a restarted controller knows nothing of older children.   *)
(* cstep[c] is where the tick stands between two store transactions.          *)
EXTENDS JobWorker

CONSTANTS
    MaxStageCrashes \* jobs.max_stage_crash_retries

ASSUME ControllerAssumption == MaxStageCrashes \in Nat

VARIABLES
    cstep,          \* where each controller stands in its tick
    cstatus,        \* status of the job row it has read for recovery
    cworker,        \* worker id it is about to start
    cphase,         \* phase it is about to start
    active          \* _active: its own live child for the job

controllerVars == <<cstep, cstatus, cworker, cphase, active>>

ControllerSteps == {"idle", "claimed", "read", "decide", "close", "write",
                    "park", "acquire", "popen"}

ControllerInit ==
    /\ cstep = [c \in Controllers |-> "idle"]
    /\ cstatus = [c \in Controllers |-> "none"]
    /\ cworker = [c \in Controllers |-> NoWorker]
    /\ cphase = [c \in Controllers |-> "none"]
    /\ active = [c \in Controllers |-> NoWorker]

Continue(c, step) == cstep' = [cstep EXCEPT ![c] = step]

-----------------------------------------------------------------------------
\* Lease recovery.

\* Mutant: the leases of jobs that are over are not looked at.
Claim_LiveJobs(c) ==
    /\ cstep[c] = "idle"
    /\ status \notin TerminalStatuses
    /\ ClaimExpiredLease
    /\ Continue(c, "claimed")
    /\ UNCHANGED <<status, attention, core, crashes, metaVars, attemptVars,
                   workVars, workerVars, cstatus, cworker, cphase, active>>

\* The compare-and-set of release_expired_lease() on an expired_leases() row.
Claim(c) ==
    /\ cstep[c] = "idle"
    /\ ClaimExpiredLease
    /\ Continue(c, "claimed")
    /\ UNCHANGED <<status, attention, core, crashes, metaVars, attemptVars,
                   workVars, workerVars, cstatus, cworker, cphase, active>>

\* Mutant: the stage containers of the job are left running.
ReapContainers_Left(c) ==
    /\ cstep[c] = "claimed"
    /\ Continue(c, "read")
    /\ UNCHANGED <<storeVars, workerVars, cstatus, cworker, cphase, active>>

\* _reap_stage_containers(): the orphans of the job are removed.
ReapContainers(c) ==
    /\ cstep[c] = "claimed"
    /\ agents' = {}
    /\ Continue(c, "read")
    /\ UNCHANGED <<rowVars, leaseVars, metaVars, attemptVars, checks, sameHead,
                   workerVars, cstatus, cworker, cphase, active>>

\* Mutant: a job whose worker died while preparing is not recovered.
RecoverRead_RunningOnly(c) ==
    /\ cstep[c] = "read"
    /\ IF worker = NoWorker /\ status \in {"running"} \cup StageRetryStatuses
       THEN /\ cstatus' = [cstatus EXCEPT ![c] = status]
            /\ fresh' = fresh \cup {c}
            /\ Continue(c, "decide")
       ELSE /\ Continue(c, "idle")
            /\ UNCHANGED <<cstatus, fresh>>
    /\ UNCHANGED <<status, attention, core, crashes, leaseVars, metaVars,
                   attemptVars, workVars, workerVars, cworker, cphase, active>>

\* _recover_one(): read the row and remember its version.
RecoverRead(c) ==
    /\ cstep[c] = "read"
    /\ IF /\ worker = NoWorker
          /\ status \in {"preparing", "running"} \cup StageRetryStatuses
       THEN /\ cstatus' = [cstatus EXCEPT ![c] = status]
            /\ fresh' = fresh \cup {c}
            /\ Continue(c, "decide")
       ELSE /\ Continue(c, "idle")
            /\ UNCHANGED <<cstatus, fresh>>
    /\ UNCHANGED <<status, attention, core, crashes, leaseVars, metaVars,
                   attemptVars, workVars, workerVars, cworker, cphase, active>>

\* A transition() with expected_version: a refused or superseded one is given
\* up until the lease of another worker expires.
VersionedMove(c, to, reason) ==
    IF status # to /\ LegalMove(status, to) /\ c \in fresh
    THEN AdvanceTo(to, reason, FALSE)
    ELSE UNCHANGED rowVars

EndRecovery(c) ==
    /\ Continue(c, "idle")
    /\ cstatus' = [cstatus EXCEPT ![c] = "none"]

\* The replay of a finished attempt (_resume_after_finished_attempt) is not an
\* action here: it needs a RUNNING job whose newest attempt has ended well, and
\* OutcomeIsAtomic of JobPipeline shows that there is none.
Interrupted(c) ==
    /\ cstep[c] = "decide" /\ cstatus[c] \in {"preparing", "running"}
    /\ Continue(c, "close")
    /\ UNCHANGED <<storeVars, workerVars, cstatus, cworker, cphase, active>>

CloseOrphanedAttempt(c) ==
    /\ cstep[c] = "close"
    /\ CloseRunningAttempts
    /\ Continue(c, "write")
    /\ UNCHANGED <<rowVars, leaseVars, metaVars, newest, retries, workVars,
                   workerVars, cstatus, cworker, cphase, active>>

WriteRecovery(c) ==
    /\ cstep[c] = "write"
    /\ VersionedMove(c, IF cstatus[c] = "preparing" /\ Staged /\ ~meta.approved
                        THEN "planning" ELSE "recovering",
                     "none")
    /\ EndRecovery(c)
    /\ UNCHANGED <<leaseVars, metaVars, attemptVars, workVars, workerVars,
                   cworker, cphase, active>>

\* A stage is dispatched again, a bounded number of times.
RetryStage(c) ==
    /\ cstep[c] = "decide" /\ cstatus[c] \in StageRetryStatuses
    /\ crashes < MaxStageCrashes
    /\ crashes' = IF status = cstatus[c] THEN crashes + 1 ELSE crashes
    /\ EndRecovery(c)
    /\ UNCHANGED <<status, attention, core, fresh, leaseVars, metaVars,
                   attemptVars, workVars, workerVars, cworker, cphase, active>>

StageCrashedTooOften(c) ==
    /\ cstep[c] = "decide" /\ cstatus[c] \in StageRetryStatuses
    /\ crashes >= MaxStageCrashes
    /\ Continue(c, "park")
    /\ UNCHANGED <<storeVars, workerVars, cstatus, cworker, cphase, active>>

ParkCrashed(c) ==
    /\ cstep[c] = "park"
    /\ VersionedMove(c, "needs_human", "paused")
    /\ EndRecovery(c)
    /\ UNCHANGED <<leaseVars, metaVars, attemptVars, workVars, workerVars,
                   cworker, cphase, active>>

-----------------------------------------------------------------------------
\* Scheduling.

\* tick(): a candidate, unless a child of this controller still works on it.
Schedule(c) ==
    /\ cstep[c] = "idle"
    /\ active[c] = NoWorker
    /\ Schedulable
    /\ cphase' = [cphase EXCEPT ![c] = PhaseOf(status)]
    /\ Continue(c, "acquire")
    /\ UNCHANGED <<storeVars, workerVars, cstatus, cworker, active>>

\* Worker ids are never used twice; an id that nothing refers to any more
\* stands for a new one.
Unused(w) ==
    /\ pc[w] = "off"
    /\ worker # w
    /\ w \notin agents
    /\ \A c \in Controllers : active[c] # w /\ cworker[c] # w
    /\ \A v \in Workers : seenOwner[v] # w

\* _spawn(): lease the job for a new worker id...
Acquire(c) ==
    /\ cstep[c] = "acquire"
    /\ \E w \in Workers :
          /\ Unused(w) /\ (status = "running" => newest # w)
          /\ IF LeaseFree(w)
             THEN /\ AcquireLease(w)
                  /\ cworker' = [cworker EXCEPT ![c] = w]
                  /\ attempt' = [attempt EXCEPT ![w] = "none"]
                  /\ newest' = IF newest = w THEN NoWorker ELSE newest
                  /\ Continue(c, "popen")
                  /\ UNCHANGED cphase
             ELSE /\ Continue(c, "idle")
                  /\ cphase' = [cphase EXCEPT ![c] = "none"]
                  /\ UNCHANGED <<worker, lease, fresh, attempt, newest, cworker>>
    /\ UNCHANGED <<status, attention, core, crashes, metaVars, retries,
                   workVars, workerVars, cstatus, active>>

EndSpawn(c) ==
    /\ Continue(c, "idle")
    /\ cworker' = [cworker EXCEPT ![c] = NoWorker]
    /\ cphase' = [cphase EXCEPT ![c] = "none"]

\* ... and start its process,
Popen(c) ==
    /\ cstep[c] = "popen"
    /\ pc' = [pc EXCEPT ![cworker[c]] = "boot"]
    /\ phase' = [phase EXCEPT ![cworker[c]] = cphase[c]]
    /\ active' = [active EXCEPT ![c] = cworker[c]]
    /\ EndSpawn(c)
    /\ UNCHANGED <<storeVars, result, seenFix, seenMeta, seenOwner, lost, cstatus>>

\* or give the lease back when it cannot be started.
PopenFails(c) ==
    /\ cstep[c] = "popen"
    /\ ReleaseLease(cworker[c])
    /\ EndSpawn(c)
    /\ UNCHANGED <<status, attention, core, crashes, metaVars, attemptVars,
                   workVars, workerVars, cstatus, active>>

\* _reap(): the child has exited.
ReapProcess(c) ==
    /\ active[c] # NoWorker
    /\ pc[active[c]] = "off"
    /\ active' = [active EXCEPT ![c] = NoWorker]
    /\ IF status = "cancelled"
       THEN ReleaseLease(active[c])
       ELSE UNCHANGED <<worker, lease, fresh>>
    /\ UNCHANGED <<status, attention, core, crashes, metaVars, attemptVars,
                   workVars, workerVars, cstep, cstatus, cworker, cphase>>

\* _terminate_cancelled(): SIGTERM, then SIGKILL.
TerminateCancelled(c) ==
    /\ active[c] # NoWorker
    /\ status = "cancelled"
    /\ Dies(active[c])
    /\ UNCHANGED controllerVars

\* The controller process dies and comes back; its children live on.
Restart(c) ==
    /\ cstep' = [cstep EXCEPT ![c] = "idle"]
    /\ cstatus' = [cstatus EXCEPT ![c] = "none"]
    /\ cworker' = [cworker EXCEPT ![c] = NoWorker]
    /\ cphase' = [cphase EXCEPT ![c] = "none"]
    /\ active' = [active EXCEPT ![c] = NoWorker]
    /\ fresh' = fresh \ {c}
    /\ UNCHANGED <<status, attention, core, crashes, leaseVars, metaVars,
                   attemptVars, workVars, workerVars>>

Recovery(c) ==
    \/ Claim(c) \/ ReapContainers(c) \/ RecoverRead(c)
    \/ Interrupted(c) \/ CloseOrphanedAttempt(c) \/ WriteRecovery(c)
    \/ RetryStage(c) \/ StageCrashedTooOften(c) \/ ParkCrashed(c)

Scheduling(c) == Schedule(c) \/ Acquire(c) \/ Popen(c)

ControllerStep(c) ==
    \/ Recovery(c) \/ Scheduling(c) \/ PopenFails(c)
    \/ ReapProcess(c) \/ TerminateCancelled(c)

ControllerTypeOK ==
    /\ cstep \in [Controllers -> ControllerSteps]
    /\ cstatus \in [Controllers -> JobStatus \cup {"none"}]
    /\ cworker \in [Controllers -> Workers \cup {NoWorker}]
    /\ cphase \in [Controllers -> Phases \cup {"none"}]
    /\ active \in [Controllers -> Workers \cup {NoWorker}]
=============================================================================
