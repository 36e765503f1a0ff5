------------------------------- MODULE JobStore -------------------------------
(* One job of the durable job store (mu/jobs/store.py): the row of the jobs   *)
(* table, its attempts and its latest check run, and the store's operations.  *)
(* Every operator here is the effect of one BEGIN IMMEDIATE transaction; the  *)
(* modules above compose them into the steps of workers, controllers and      *)
(* humans, which interleave between transactions.                             *)
(*                                                                            *)
(* Time: a lease is "live" or "expired" rather than a timestamp; it lapses in *)
(* a step of its own.  The row's version column is represented by the readers *)
(* whose remembered version is still current (fresh): a write that bumps the  *)
(* version empties the set.                                                   *)
EXTENDS JobStates, FiniteSets

CONSTANTS
    Workers,        \* ids a controller can give to a worker process
    NoWorker,       \* worker_id = ''
    Controllers     \* job controllers sharing the store

ASSUME NoWorkerAssumption == NoWorker \notin Workers

VARIABLES
    status,         \* jobs.status
    attention,      \* jobs.attention_reason
    core,           \* jobs.state, paused_from, failed_from, fix_attempts
    worker,         \* jobs.worker_id
    lease,          \* jobs.lease_expires_at: "none", "live" or "expired"
    fresh,          \* controllers whose remembered jobs.version is current
    meta,           \* jobs.metadata_json: plan approval, limit grants, PR
    planned,        \* the job has a plan artifact (plan_store.latest_version)
    attempt,        \* job_attempts.status of each worker's attempt
    newest,         \* worker of the attempt with the highest number
    retries,        \* attempts with metadata.retry_scheduled
    crashes,        \* lease-expired events since the status was entered
    checks,         \* latest check run, seen from the current HEAD
    sameHead,       \* verifiers whose checked HEAD is still the branch HEAD
    agents          \* workers whose implement container is running

rowVars == <<status, attention, core, fresh, crashes>>
leaseVars == <<worker, lease>>
metaVars == <<meta, planned>>
attemptVars == <<attempt, newest, retries>>
workVars == <<checks, sameHead, agents>>

storeVars == <<rowVars, leaseVars, metaVars, attemptVars, workVars>>

\* The metadata keys the model follows; every writer owns the whole document.
\*   approved  plan_approved_version is set
\*   grants    stage limit grants of the human (limit_grants)
\*   pr        pr.state of the job's pull request
PRStates == {"none", "open", "closed", "merged"}

MetaDocuments == [approved : BOOLEAN, grants : Nat, pr : PRStates]

NoMeta == [approved |-> FALSE, grants |-> 0, pr |-> "none"]

AttemptStatus == {"none", "running", "completed", "needs_human", "failed",
                  "cancelled", "interrupted"}

StoreInit ==
    /\ status = "queued"
    /\ attention = "none"
    /\ core = InitialCore
    /\ worker = NoWorker
    /\ lease = "none"
    /\ fresh = {}
    /\ meta = NoMeta
    /\ planned = FALSE
    /\ attempt = [w \in Workers |-> "none"]
    /\ newest = NoWorker
    /\ retries = 0
    /\ crashes = 0
    /\ checks = "none"
    /\ sameHead = {}
    /\ agents = {}

-----------------------------------------------------------------------------
\* Leases.

\* assert_lease(): w holds the lease and it has not expired.
Owns(w) == worker = w /\ lease = "live"

\* acquire_lease(): only another worker's unexpired lease refuses it; the
\* job's status is not looked at.
LeaseFree(w) == worker \in {NoWorker, w} \/ lease # "live"

AcquireLease(w) ==
    /\ worker' = w
    /\ lease' = "live"
    /\ fresh' = {}

\* release_lease(): by worker id alone, expired or not.
ReleaseLease(w) ==
    IF worker = w
    THEN worker' = NoWorker /\ lease' = "none" /\ fresh' = {}
    ELSE UNCHANGED <<worker, lease, fresh>>

\* release_expired_lease(): the compare-and-set that claims a lapsed lease.
ClaimExpiredLease ==
    /\ worker # NoWorker
    /\ lease = "expired"
    /\ worker' = NoWorker
    /\ lease' = "none"
    /\ fresh' = {}

-----------------------------------------------------------------------------
\* Status writes.  Every one of them bumps the version, and starts the count
\* of stage crashes again (a status_changed event).

WriteStatus(to, reason, next) ==
    /\ status' = to
    /\ attention' = reason
    /\ core' = next
    /\ fresh' = {}
    /\ crashes' = 0

\* Mutant: the status is written, the core state is not advanced.
AdvanceTo_StatusOnly(to, reason, sandboxMissing) == WriteStatus(to, reason, core)

\* store.transition() and the transition of finish_attempt_owned(), once the
\* fences have passed.
AdvanceTo(to, reason, sandboxMissing) ==
    WriteStatus(to, reason, Advance(core, to, reason, sandboxMissing))

\* transition_core(): checks the core move, not the status table.
CoreTargetStatus(target, queued) ==
    IF queued /\ target = "implementing" THEN "queued" ELSE LegacyStatus(target)

TransitionCore(target, queued) ==
    /\ core.state = target \/ CoreMoveAllowed(core, target)
    /\ WriteStatus(CoreTargetStatus(target, queued),
                   IF target \in {"plan_review", "review_done"}
                   THEN target ELSE "none",
                   IF core.state = target THEN core ELSE CoreMove(core, target))

\* Mutant: the counter of fix rounds is not stored.
SetFixAttempts_Lost(n) == UNCHANGED core

\* set_fix_attempts(): an absolute value, unfenced, no version bump.
SetFixAttempts(n) == core' = [core EXCEPT !.fix = n]

\* update_runtime_fields() with the whole metadata document, read earlier.
WriteMeta(document) == meta' = document /\ fresh' = {}

\* Stages also write cost, environment and resume fields, which nothing here
\* reads; such a write shows only as a version bump, made or not.
MayBumpVersion == fresh' \in {fresh, {}}

-----------------------------------------------------------------------------
\* Attempts.

\* start_attempt(): unfenced; the new attempt has the highest number.
StartAttempt(w) ==
    /\ attempt' = [attempt EXCEPT ![w] = "running"]
    /\ newest' = w

\* finish_attempt(): unfenced.  Recovery closes every attempt still running.
CloseRunningAttempts ==
    attempt' = [w \in Workers |->
                  IF attempt[w] = "running" THEN "interrupted" ELSE attempt[w]]

\* schedulable_jobs(): a schedulable status whose lease is absent or expired.
Schedulable ==
    /\ status \in SchedulableStatuses
    /\ worker = NoWorker \/ lease = "expired"

-----------------------------------------------------------------------------
RowTypeOK ==
    /\ status \in JobStatus
    /\ attention \in Reasons
    /\ core \in CoreStates
    /\ fresh \subseteq Controllers
    /\ crashes \in Nat

OtherTypeOK ==
    /\ worker \in Workers \cup {NoWorker}
    /\ lease \in {"none", "live", "expired"}
    /\ meta \in MetaDocuments
    /\ planned \in BOOLEAN
    /\ attempt \in [Workers -> AttemptStatus]
    /\ newest \in Workers \cup {NoWorker}
    /\ retries \in Nat
    /\ checks \in {"none", "failed", "passed"}
    /\ sameHead \subseteq Workers
    /\ agents \subseteq Workers

StoreTypeOK == RowTypeOK /\ OtherTypeOK
=============================================================================
