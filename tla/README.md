# TLA+ models of Mu-CLI's concurrent subsystems

Mu-CLI is a terminal-first coding assistant. Most of it is a single-user
program around model calls. Three of its subsystems are not: they share a store
between processes, talk over a network, survive crashes, and let humans act at
any moment.

- **Durable engineering jobs** (`src/mu/jobs`): work that outlives the terminal
  and the machine, carried from a plan to a pull request by short-lived workers
  over one SQLite store, under leases.
- **Fleet orchestration** (`src/mu/orchestration`): a master that runs a plan of
  steps over batches of nodes, and agents that poll it for work.
- **Thread coordination** (`src/mu/threads`): several assistant threads in
  several processes that edit one workspace, claim paths and send each other
  messages.

These modules model the three, check them with TLC and prove their central
invariants with TLAPS.

1. [The system and its parts](#1-the-system-and-its-parts)
2. [The modules and how they follow the code](#2-the-modules-and-how-they-follow-the-code)
3. [What is checked](#3-what-is-checked)
4. [What the checks found](#4-what-the-checks-found)
5. [What is proved](#5-what-is-proved)
6. [Not modelled](#6-not-modelled)

## 1. The system and its parts

Paths are relative to `src/mu/`.

| part | state it keeps | operations | interacts through |
|---|---|---|---|
| job lifecycle tables `jobs/core/states.py` | none | two transition tables, `advance`, `to_legacy_status` | called by store and service |
| job store `jobs/store.py` | the row of a job (status, attention, pipeline state, lease, version, metadata), attempts, check runs, events | one `BEGIN IMMEDIATE` transaction per operation | shared by every process |
| lease recovery `jobs/service.py`, `jobs/sandbox/reaper.py` | none of its own | claim, reap, read, close, write: separate transactions | store, docker |
| job controller `jobs/controller.py` | `_active` children, in memory | tick: recover, lease, start, reap, terminate | starts worker processes |
| job workers `jobs/lease.py`, `worker.py`, `verify_worker.py`, `review_worker.py`, `publish.py` | what they have read; a heartbeat thread | one leased phase, then exit | fenced store writes, containers, model, git remote, pull request host |
| job commands `jobs/core/commands.py` (+ `actions.py`, `plan_ops.py`, `limits.py`, `review.py`) | a per-job lock | rule check, then a handler of several transactions | store |
| pollers `jobs/publish.py`, `jobs/base_drift.py` | none | merge poll, drift watch | store, git host |
| fleet master `orchestration/runs.py`, `scheduler.py`, `states.py`, `enroll.py`, `service.py` | runs, executions, node status, kill switch | propose, approve, pause, continue, cancel, roll back, retry, tick | store |
| hub `orchestration/hub.py`, `server.py` | none of its own | claim for a poll, events of a POST | store, HTTP |
| node agent `orchestration/node/agent.py`, `executor.py`, `transport.py` | queue of events, running threads, cancellations, all in memory | poll, dispatch, run, post, resend | HTTP, processes |
| thread coordinator `threads/coordinator.py` | threads, claims, conflicts, messages, wakes, execution leases | claim, release, override, hand off, send, deliver, wake, delete | one journal shared by processes |
| turns `session/session.py`, `agent/loop_body.py`, `agent/thread_guard.py`, `threads/scheduler.py` | turn in progress, messages it has read | begin, heartbeat, read inbox, guarded write, end; deliver a wake | coordinator |
| job sandbox, plan documents, interactions, tracker | images, versions, questions | build, draft, answer, write back | docker, store, Jira |
| container sessions, sessions, agent loop, modes, memory, teacher, tools, UI, GUI, editor, traces, providers, mobile, nvim | as named | sequential or presentation | model and HTTP services |

**What is hard.** *Jobs:* nothing but the store is shared and every actor works
in several transactions: a worker suspended for longer than its lease comes back
to a job that is no longer its own, recovery acts on a row that another
controller may have leased, a command is interleaved with the pipeline, and the
git remote and the pull request host know neither lease nor transaction.
*Fleet:* replies and POSTs are lost or repeated, a silent node may be at work, a
command checks a run it read before its transaction, and the hub reads an
execution in one transaction and writes it in another. *Threads:* turns of
several processes claim, override and delete at any time, a wake may be
delivered twice, and a lease may run out under a turn.

**What makes each part correct.** *Tables:* the two state columns describe the
same moment (`Coherent`), ends are final (`TerminalIsFinal`). *Leases and
recovery:* only the owner moves the job (`OwnerUndisturbed`), no job is lost
(`NoOrphan`, `ComesToRest`), one container per worktree (`OneAgent`), attempt
and job end together (`OutcomeIsAtomic`). *Phases:* no implementer without an
approved plan (`PlanGate`), fix rounds are capped (`FixRoundsCapped`), only
reviewed work is pushed (`PushedIsReviewed`). *Publishing:* work of others on
the branch is not replaced (`ForeignKept`), what is announced is what was
verified (`AnnouncedIsVerified`), the job knows its pull request (`NamesOpenPR`) and
hears of its end (`DecisionArrives`). *Commands and polls:* a job leaves a gate
only by a human's decision (`KeepsPromise`). *Fleet:* a change is not made twice
(`AtMostOnce`) nor undone twice (`UndoneOnce`), nothing in flight is forgotten
(`Accounted`, `Settles`), a batch is left only when it is fit (`KeepsPromise`),
success means that everything was done (`SuccessIsComplete`). *Threads:* claims
and writes are exclusive (`ClaimsExclusive`, `WritesExclusive`), claims belong to
somebody (`OwnersAreMembers`), a thread has one turn (`OneTurn`) and reads its
mail (`WakeIsOwed`, `MessagesArrive`).

## 2. The modules and how they follow the code

```
JobStates          the tables of states.py (pure)
  JobStore         the row of one job and the transactions of store.py
    JobWorker      run_leased and the four phases, as steps between transactions
      JobController   tick, spawn, reap; lease recovery
        JobCommands   human commands, merge poll, base drift
          JobPipeline composition, faults, properties, refinement of JobLifecycle
  JobPublish       the publish phase against git remote and pull request host

FleetStates        states and legal moves of runs, executions and nodes (pure)
  FleetScheduler   the rollout engine of scheduler.py (pure)
    FleetMaster    the store: commands, tick, node status, hub.claim
      FleetAgent   the node agent, and the hub's handling of its events
        Fleet      composition, faults, properties, refinement of FleetPromise

ThreadClaims       threads, claims and conflicts
  ThreadMail       messages, wakes, execution leases
    ThreadTurns    turns, tools, schedulers, faults, properties

JobLifecycle, FleetPromise   abstract promises
MC*                values for TLC
*_proofs           theorems
```

### Jobs

**JobStates** translates `STATUS_TRANSITIONS`, `TRANSITIONS`, `STATUS_PHASE`,
`advance()` and `to_legacy_status()`. The CASE tables have no `OTHER` where the
source has no entry; the type theorem therefore also says that no table is asked
for a key it lacks.

**JobStore** has the columns the properties can tell apart. `core` is the
`CoreState` record; `lease` is *none*, *live* or *expired* instead of a
timestamp; `fresh` is the set of controllers whose remembered `version` is still
the row's, so a write that bumps the version empties it; `meta` holds the plan
approval, the limit grants and the pull request's state, always written as a
whole document unless the code merges atomically. `checks` is the latest check
run as seen from the current branch HEAD, and `sameHead` the verifiers whose
HEAD is still current. `agents` are the implement containers, which survive
their worker.

**JobWorker**: `pc[w]` is where the body of a worker stands between two store
transactions. `FencedMove` is `service.transition()` on a fenced view with its
four outcomes in the code's order: same status (returned *before* the fence),
illegal (`JobStateError`, handled by `_refused_transition`), lease lost, written.
Values read before a slow step are kept in `seenMeta`, `seenFix` and `seenOwner`,
because the code goes on using them. A heartbeat renews an expired lease that is
still its own. The service's read and the store transaction that follows it are
one step: the transaction checks again what the read has seen, except for the
early return on the same status, which is what `AlreadyThere` models.

**JobController**: recovery is `Claim`, `ReapContainers`, `RecoverRead`, then
close and write, each its own step, so that a restart or another controller may
come between any two. Worker ids are fresh in the code; here an id nobody refers
to any more stands for a new one (`Unused`). `_resume_after_finished_attempt`
needs a RUNNING job whose newest attempt has ended well; `OutcomeIsAtomic` says
that there is none, so the replay has no action.

**JobCommands**: `Accept` is the rule check on the facts of the moment; the
handler's transactions follow one by one while others act. `restartStage` on a
paused job acts as `Resume`; on a live stage it does not move the row, so it is
no action here. The merge poll is *host answer*, *stamp*, *move*; the drift
watch is *found*, *move*.

**JobPipeline** adds the faults (`Lapse`, `LeaseExpires`, `Crash`, `StoreError`,
`ControllerRestart`), a budget for faults, commands and polls, two history
variables (`reviewed`, `rounds`), and states the properties. **JobLifecycle** is
what the job's owner may rely on: the job works by itself between gates and
leaves a gate only while a human decision is being carried out. `JobPipeline`
maps `StageOf(EffectiveState(core))`, the approval and "a command is in
progress" to its three variables.

**JobPublish** takes the publish phase apart, which is three steps in
`JobWorker`: `publish_job()` and `open_draft_pr()` read the job once (`ReadJob`),
squash and look at the remote (`Squash`), push (`GitPush`), write `pushed_sha`
(`OnPushed`), look for a pull request (`LookUp`), create one (`CreatePR`), record
it (`RecordPR`) and move the job (`Announce`). A commit is who made it, the
verified commit whose tree it has on the base (0 for any other tree or parent),
and a stamp that tells signed squashes of the same tree apart (an unsigned squash
is reproducible, so `signed` is chosen in `Init`). `Equivalent` compares tree and
parent only, as the code does: it cannot know who made a commit. `Accepted` is
what git does with a plain push and with `--force-with-lease`. Others may amend
the commit on the branch, push work of their own, or put the branch back to the
base (`ForeignPush`), and delete it when they decide its pull request (`Decide`);
`stale` and `cleared` are history variables that record when a superseded worker
wrote, and when the branch was deleted or put back. The workers' locals (`my`)
are what they read before; only the final move is fenced by the lease, the
remote, the host and `merge_metadata()` are not, which is why a superseded worker
goes on in the model. The rest of the pipeline is `Rework` and `Push`. That the
host refuses a second open pull request of the same branch is assumed.

### Fleet

**FleetScheduler** is `scheduler.py` as functions of a run and of the executions
of each node: progress of a node, rollback targets, health, and the decisions of
`tick()` in its order. An execution is named by its node and its place in the
sequence of the node's executions; a row is never deleted. **FleetMaster** has the
tables as variables. A command checks the run it has read and writes in a
transaction of its own, so `op[a]` is the command between the two; the service
lists the runs to tick before it ticks them (`listed`). A tick is one
transaction, as `apply_tick()` is. Time is what has passed: `late` (an
execution's clock has run out), `online` (the node polled lately), `rested` (the
pause between batches is over).

**FleetAgent** has the agent's main loop (`poll`), its threads (`procs`), what it
reports as running, cancellations, the queue of events and the POST under way;
and the hub's handlers of POSTs, which outlive a POST the agent gave up on.
`hub.claim()` marks executions as dispatched in the store before the reply is
sent, so `PollLost` loses them. An event is read and written by the hub in two
transactions: `HubRead` keeps the state seen when something comes between. All
of it is in memory, so `Dies` empties it.

**Fleet** composes them with the faults, a budget for commands and for faults,
and histories: `began` (processes started, per dispatch), `forsaken` (executions
whose dispatch or process was lost), `held`, `excused` (batches the engine
paused at, or a human let pass), `retried`. **FleetPromise** says what an operator
may rely on: a batch is left only when it is over and within the limits, or when
a human let it pass, and only a human starts, resumes or rolls back a run or
ends it early. Mapping: run state and batch, "the batch is settled and holds
nothing up", `excused`, "a command is under way".

### Threads

**ThreadClaims** has one step per immediate transaction of the coordinator on
claims: claim (all or nothing, a conflict recorded otherwise), release, hand off,
override of a conflict, expiry, deletion of a thread. A path is a model value,
`Below` says which lies below which. **ThreadMail** has messages; a wake request
belongs to the message it was made for and is a field of it. **ThreadTurns** has
the turn of each process on each thread: begin under a lease, heartbeat and look
at the inbox before each request (`Iterate`), mark as delivered (`Read`, a later
transaction), tool calls that claim what they write (`GuardedWrite`,
`Written`), end. A handler of a wake is `check`, `go`, `turn`, `over` or `back`.
A process may die (`Crash`: its lease becomes `Gone`, its claims stay) or be
suspended so that its lease lapses.

## 3. What is checked

| run | bounds | properties | what it shows |
|---|---|---|---|
| `Human` | 3 commands, 1 raised limit, 1 poll, 1 controller restart; gated plan | `TypeOK` `Coherent` `FixRoundsCapped` `PushedIsReviewed` `TerminalIsFinal` | approve, recheck or re-prompt, push, repush and a late poll in any order |
| `Faults` | 2 commands, 1 crash, 1 heartbeat error, 1 drift; plan approved automatically, no publishing | `OutcomeIsAtomic` `Coherent` `PlanGate` `TerminalIsFinal` `KeepsPromise` | no fault a living controller sees carries a job past a gate; the drift watch and conflict resolution |
| `Takeover` | 1 lapse, 2 controllers; unstaged | `OwnerUndisturbed` `OutcomeIsAtomic` `KeepsPromise` | a superseded worker cannot move the job of its successor, nor can a second controller |
| `Rest` | 2 commands, 1 crash; gated; fair | `NoOrphan` `OneAgent` `PlanGate` `ComesToRest` `CancelledLetsGo` `KeepsPromise` | a crash at any step is recovered from, and the job comes to rest |
| `Publish` | 2 commands, 1 trouble (crash, lapse, lost answer, failed look-up), 1 act of others on branch or host; 2 workers; fair | `TypeOK` `NamesOpenPR` `ForeignKept` `AnnouncedIsVerified` `PublishEnds` `DecisionArrives` | publish, rework and re-push stay in step with remote and host |
| `Rollout` | a canary and a batch of two, 1 step, 2 commands | `TypeOK` `ParallelCapped` `SuccessIsComplete` `KeepsPromise` | the rollout engine over executions that end in any order |
| `Network` | 1 node, 2 steps (one idempotent with a rollback, one not, undone on failure), approve, 1 trouble; fair | `AtMostOnce` `Accounted` `Settles` | lost replies and POSTs, a dead agent, a silent node, overlapping writes |
| `Undo` | 1 node, 1 undoable step, 3 commands, 1 trouble | `UndoneOnce` `AtMostOnce` | roll back, cancel, retry and pause in any order |
| `Group` | 2 threads, 2 processes, a directory and a file in it, 2 user turns, 1 message, 3 tool calls, 1 trouble | `TypeOK` `ClaimsExclusive` `OwnersAreMembers` `WritesExclusive` `OneTurn` `WakeIsOwed` | claims and wakes under overrides, hand-offs, deletion, a lapse, a crash |
| `OrphanedJob` `CanarySkipped` `LostMessage` | as little as each needs | `NoOrphan`; `CanaryHolds`; `MessagesArrive` | section 4 |

**Why the bounds are enough.** Only commands, faults, messages and acts of others
are bounded (`Budget`); steps of workers, controllers, agents, schedulers and
turns are not. *Jobs:* two worker ids, a worker and its successor: at most one
holds the lease, a superseded one and the current one are the interesting pair,
and ids are used again. `MaxFix = MaxRetries = 1` separates "below the limit"
from "at the limit", which is all the code distinguishes. One command passes the
plan gate, two reach the push, three come back from it. *Publish:* two commands
make a second publish after a first that failed or was closed, and one trouble
puts a fault into any step of either; one act of others is enough for a squash
that is amended, adopted by the first and replaced by the second. *Fleet:* a
canary and a batch of two are the smallest plan in which `max_parallel`, the
canary rule and the threshold differ, and with `PauseBetween` the batches are
apart; `Network` and `Undo` need one node only, as nodes share nothing but the
run. `MaxAttempts = 2` lets an idempotent tool be dispatched again once.
*Threads:* two threads in two processes, one of them with a wake scheduler, and a
file below a directory are the smallest overlapping pair. Ids that are alike are
symmetric, except under fairness. Deadlock is not checked: a job, a run and a
group may rest for ever.

**Fairness.** It is stated for what loops and timeouts of the code guarantee.
*Jobs* (`Rest`): weak fairness of each worker (the OS schedules it, a stage has a
time limit), of recovery, scheduling and reaping (the controller's loop runs them
every tick and catches exceptions), of a dispatched command or poll (both run to
their end in one thread), and of the expiry of a lease nobody renews; strong
fairness of `Popen` only: starting a process may fail, but not for ever.
*Publish*: workers run to their end, the controller starts one, the poll goes
round. *Fleet* (`Network`): the service ticks, a command is carried out, a live
agent polls and posts, a tool ends (the executor kills it at its timeout), the
hub works through a POST, and time passes; that a dead agent is started again is
not assumed. *Threads* (`LostMessage`): turns and tool
calls end, dead processes come back, schedulers poll, time passes. Human
decisions and faults are never fair.

Each property of a passing run has a mutant: an operator next to the original
(`..._Unfenced`, `..._Skipped`, `..._Lost`, ...) that changes one definition the
way a plausible bug would, and makes TLC report that property.

## 4. What the checks found

Three statements of the repository do not hold, each with a run that reaches the
counterexample (`findings` in `PROJECT.json` quotes the lines).

- `OrphanedJob`: a worker whose lease lapsed releases it on exit; a preparing or
  running job is left without a lease, and nothing will ever recover it.
- `CanarySkipped`: *Continue* marks the current batch as evaluated even while
  the canary is still at work (after an operator's pause, or on a run read as
  approved or running); a canary that fails afterwards pauses nothing.
- `LostMessage`: a message sent between a turn's look at its inbox and its mark
  finds a wake under way and makes none; the mark then closes that wake.

The following were met while the passing runs were chosen. They are the reason
for the exceptions in some properties and for the budgets above.

*Jobs.* After a takeover the superseded worker's move to `running` succeeds
because the job *is* running, and its container starts beside the successor's
(`service.py:254`); `prepare()` writes back metadata read before its git work and
loses a grant or an approval given meanwhile (`worktree.py:494`); the merge poll
moves a job that a repush has just made publishing (`publish.py:946`); a
cancelled job keeps an attempt marked failed (`store.py:829`); a controller that
dies between claim and recovery strands the job (`service.py:565`); a superseded
verifier can save its run in the middle of a push, so `PushedIsReviewed` is not
checked under takeover; with a poll and four commands a verifier can overwrite a
reset fix counter; `NoOrphan` also fails with a heartbeat error, with an
edit of the row between recovery's read and write, and with two controllers when a
process cannot be started. `advance()` makes moves that
`TRANSITIONS` does not list: the table is enforced for commands only.

*Publish.* A host that merges the pull request during a rework is not polled
then; the next publish updates the merged pull request and the poll moves the job
to merged, although the reworked commits never were. A late poll that parks a
publishing job, a lost answer and a re-prompt together make the job refuse its
own signed commit as one it "did not push". A superseded worker writes
`pushed_sha` and `pr` unfenced, so the record may name an old pull request, and
may push an older commit where the branch was deleted or put back to the base:
`NamesOpenPR` and `AnnouncedIsVerified` name these cases (`stale`, `cleared`).
"Only ever replace what this job pushed itself" (`publish.py:690`) holds only up
to a squash that somebody else amended (its message, author or signature):
`_is_equivalent_squash()` takes it for the job's own, it is adopted and recorded
as `pushed_sha` and `pr.head_sha` (`publish.py:693`), and the next publish, even
of the same tree, finds it among the commits it may replace and forces its own
squash over it (`publish.py:701`). The property "a commit of others is never
followed by one of the job", `[][branch.by = "others" => branch'.by # "job"]_vars`,
is violated in this way by two reworks and one amended commit, or by a crash, one
rework and one amended commit.
`ForeignKept` therefore is about `OthersWork`, commits with another tree or
parent: those are never replaced, and what is lost by the amended squash is its
wording only.

*Fleet.* A result that is refused because its execution was queued again is
posted for ever until a timeout (`hub.py:304`). The hub's stale write can revive
an execution that a revocation ended. Rollbacks are queued newest first but
dispatched together, also beside a later step that is still running. A run may
be rolled back while a step of it still succeeds. The checks of a command on a
run read earlier permit illegal moves: a *Continue* that races a cancel brings
the run back. A requeued execution may run while the first process still does,
and the second is then never cancelled. A node that was retried after its own
rollback runs the second step without the first. A quarantined node with a queued
execution blocks its run (`Settles` excepts it). Executions in flight of
cancelled or paused runs never time out. `max_parallel` is not respected by
retries and rollbacks. With two operators a stale *Continue* can lower
`evaluated_batch`; `KeepsPromise` of `Fleet` is checked with one.

*Threads.* A request that names a path and one below it gets two claims, which an
override or a hand-off can give to two threads. Claiming a directory while
holding a file in it only extends the file's claim. A turn ignores the answer of
its heartbeat, so a lapse lets turns overlap (`OneTurn` excepts such threads).
The inbox shows the twenty oldest unacknowledged messages: twenty that were
answered and not acknowledged hide all newer ones. A wake whose turn was refused
the lease or failed is finished all the same.

## 5. What is proved

Theorems hold for all values of the constants, under the named assumptions of the
modules. These give the constants their types and say that a plan has a step, a
batch and a node, and that its batches leave no node out (`make_batches` cuts the
list of nodes up); that paths form a tree (`Below` is reflexive, and of two paths
with something below both one lies below the other) and a request is a finite set
of them; and that the two marks for a lease nobody holds are different from each
other and from processes. Where a theorem has a hypothesis besides, the table
names it; each was found by looking for a counterexample without it.

| module | theorem | states | hypothesis |
|---|---|---|---|
| `JobPipeline_proofs` | `TypeCorrect` | `[]TypeOK` | |
| | `CoherentAlways` | `[]Coherent` | |
| | `TerminalFinal` | `TerminalIsFinal` | |
| `JobSafety_proofs` | `OutcomeAlwaysAtomic` | `[]OutcomeIsAtomic` | |
| | `LiveWorkerOwns` | `[]OnlyOwnersLive` | `Uninterrupted` |
| | `OwnersUndisturbed` | `[]OwnerUndisturbed` | `Steady` |
| | `PlanFirst` | `[]PlanGate` | `Steady` |
| | `ReviewedThenPushed` | `[]PushedIsReviewed` | `Steady` |
| | `RoundsCapped` | `[]FixRoundsCapped` | `Steady` |
| | `OneAgentAtATime` | `[]OneAgent` | `Steady`, `OneController` |
| | `NobodyForgotten` | `[]NoOrphan` | `Attended` |
| `JobPublish_proofs` | `TypeCorrect` | `[]TypeOK` | |
| | `NeverReplaced` | `ForeignKept` | |
| | `NamesWhatIsOpen` | `[]NamesOpenPR` | |
| | `AnnouncesTheVerified` | `AnnouncedIsVerified` | |
| `Fleet_proofs` | `TypeCorrect` | `[]TypeOK` | |
| | `UndoneAtMostOnce` | `[]UndoneOnce` | |
| | `StartedAtMostOnce` | `[]AtMostOnce` | |
| | `NothingForgotten` | `[]Accounted` | |
| | `NeverTooMany` | `[]ParallelCapped` | `[][NoOverlap]_vars` |
| | `SuccessMeansDone` | `SuccessIsComplete` | `[][NoOverlap]_vars`, `[][RollbackGoesOn]_vars` |
| `ThreadTurns_proofs` | `TypeCorrect` | `[]TypeOK` | |
| | `NeverSharedClaim` | `[]ClaimsExclusive` | `Unnested(Requests \cup Edits)` |
| | `ClaimsOfMembers` | `[]OwnersAreMembers` | |
| | `NoWakeLeftOver` | `[]WakeIsOwed` | |
| | `OneTurnAtATime` | `[]OneTurn` | |
| | `NeverSharedWrite` | `[]WritesExclusive` | `Unnested(Requests)`, `EditsAreFiles` |

**Jobs, whatever goes wrong.** The type of the row depends on the tables having an
entry for every status written, and on the controller and the command lock
remembering sensible values. The inductive invariant is `PipelineOK`: types with
`RowOK` (the row's type and `Coherent`: a write preserves the agreement only if it
held before, because a pause's origin must be a step to return to), `PhaseKnown`
(a live worker runs a known phase), `SpawnKnown` and `CommandKnown`.
`JobStore_proofs` shows that the tables are closed, that `Advance` of a coherent
row is coherent and that terminal statuses have no successor, and lifts this to
the store's operations (`RowKept`); `JobWorker_proofs` and `JobPipeline_proofs`
show, one case per action, that every step is such a write. `OutcomeIsAtomic` is
not inductive alone: an owner about to enter `running` must have an attempt that
has not ended, a stage that ended must have an outcome, and no command may move
the job to `running` (`OutcomeOK`).

**Jobs, steadily run.** The other properties rest on who may move the job, and
the proof follows the argument of the code. `OwnedJob`: as long as leases do not
lapse under live workers (`Uninterrupted`: no budget for lapses and heartbeat
errors; crashes, restarts, commands, edits and polls are not limited) every live
worker holds the lease, and a controller about to start one has leased the job in
a name nobody else uses. `SteadyJob` adds that the job stands where its worker
expects it (`PlaceOK`), that a command under way other than a cancel waits where
only a human moves the job (`CommandRests`), that a recovery whose version is
current has read the row as it is (`FreshOK`: the version check of the code, as an
invariant), and that no gate hides behind a scheduled, paused or failed job
(`RowGates`). On top of it `ApprovedOK`, `PassedOK` and `RoundsOK` are one
invariant each for the plan gate, the review gate and the fix counter, and every
step is one of a few kinds (`StepKinds`: a worker's own, or one that leaves the
worker's row alone). `AgentsOK` says that a container outlives its worker only
until a controller has reaped it; `OrphanOK`, which TLC checked first, which step of
which recovery an unleased running job is in.

The hypotheses are needed. With a lapse, a superseded worker acts beside its
successor (section 4). With a poll (`Steady` has none), its late answer moves a job
that runs again: `OwnerUndisturbed` and `PushedIsReviewed` fail; the `Human` run
checks a bounded instance with one. With two controllers and two crashes, one that
read an expired lease just before the other can reap and lease the job after it,
beside the other's worker: `OneAgent` fails. `Attended` is `Steady` with one
controller, no restart and no edit: a restart between claim and write, or an edit
that raises the version between the recovery's read and its write, makes the
recovery give up a job whose lease it has cleared, and `NoOrphan` fails.

**Publish.** `ForeignKept` is about any step while work of others is at the
remote. A push passes only if the branch is missing, is at the base, or is what
the worker expected, and what it expects was found among the commits of the
metadata it had read. The inductive invariant `SquashInv` therefore says that
every commit named by metadata or by a worker's locals has the tree of a verified
commit on the base, whoever made it, or is none: adopting a commit keeps this, as
it has the tree of the worker's own squash (and a worker that squashes has read a
verified commit), so other work is never expected, whenever it came. `NamingInv`
follows the holder of the lease: until somebody writes without it, what the
holder read is what the metadata say, it makes a pull request only when the
metadata name none that is not closed, and the one open pull request is the one
it is about to record (`HolderOK`). `TreeInv` orders commits by the verified
commit they come from: nothing recorded is newer than `head`, which moves only
while nobody holds the lease, so after the holder's push a worker that is behind
can only fail to push, unless the branch was deleted or put back to the base
(`cleared`); what others amend keeps its tree.

**Fleet.** `UndoneOnce` is a property of the store alone: `MasterOK` is the type
of the master with `OnceIn` (no two executions of a node undo the same one, only
an earlier one that is no rollback itself and whose step has a rollback). The
lemmas of `FleetMaster_proofs` show that queueing is the only operation that adds
rows, that a tick and *Roll back* queue for `RollbackTargets` only, and that all
else keeps the shape of the rows. `TypeCorrect` needs, for the sequences in the
agents, that the hub never handles an empty POST and a node never an empty reply.
`AtMostOnce` needs a base: what a row's `attempts` were when an operator last
queued it (`Within`); since then it was handed out at most `Cap` times, each time
under its own nonce, and no dispatch an agent knows is older. `Accounted` follows
an execution from the reply through the agent's threads, its queue and the last
POST to the hub's handlers (`InHand`), with `SenderOK`: only the last handler is
waited for, and the sender keeps what the hub has not dealt with. `ParallelCapped`
follows from the count in the tick, if nobody who has ended comes back to work;
only a write of the hub after another writer came between its reading and its
writing can do that, so behaviours with such an `Overlap` are left out. The
cardinality of a sum of sets is from the library's theorems on finite sets.
`SuccessIsComplete` needs that what is over stays over (`DoneOK`): a node nobody
retried has one row for a step, so that its outcome is that row's; a node of a
batch that was left has failed or is past its last step; and a rollback that is
live there is of the whole run, or of a node that has failed. `SettledOver` (by the
least step a node does not pass, from the library's well-founded order on the
naturals) and `ReadyRetains` say what `node_progress` promises the tick, and every
operation is shown to retain it.

Both hypotheses are needed; TLC found the behaviours on two batches of one node each. A
stale write of the hub revives a row of the first batch after that was left: it
then counts neither as failed nor as at work, and the run succeeds over it. And a
rollback of the run that is paused and resumed (`rolling_back` may go to `paused`,
and *Continue* makes that `running`) lets the run go on with its last batch and
succeed, while the rollback of the first is still queued, where no node can claim
it any more.

**Threads.** `ClaimsExclusive` is not inductive: a hand-off or an override moves a
claim to a thread whose other claims must not touch those of the old owner. The
invariant says that no two claims touch, whoever owns them (`Apart`), which
holds only if no single request names a path and another below it; the `Group`
run satisfies it, and without it the property is false (section 4). `ClaimInv`,
type and `OwnersAreMembers`, needs no such thing. `WakeIsOwed` needs that a wake
to be delivered again is under way (`MailInv`). `OneTurn` holds because whoever
is in a turn holds the lease (`TurnInv`), unless it has slipped or the thread was
deleted. `WritesExclusive` is about claims looked at before the write: what makes
it true is that a writing thread still has them (`Covered`), and that a file lies
below both claims, so by the tree these touch.

**Only model-checked.** Liveness (`ComesToRest`, `CancelledLetsGo`, `PublishEnds`,
`DecisionArrives`, `Settles`: fairness and `ENABLED` are outside the prover) and the
refinements of `JobLifecycle` and `FleetPromise` (`KeepsPromise`).

## 6. Not modelled

- *Jobs.* One job; jobs share nothing but the store and `max_workers`. Time:
  leases lapse in a step of their own, `next_run_at` and runtime deadlines are
  left out. `timed_out` and `budget_exceeded` are not written by the code. Agent,
  planner, checks and reviewer are nondeterministic outcomes. Reaping containers
  always succeeds (the code swallows docker errors), and store operations other
  than heartbeats do not fail. Commands left out: `skipSetup`,
  `continueUnverified`, environment commands, `delete`, messages and answers, plan
  drafts. Publishing over several sources, the secret scan.
- *Fleet.* One run; a node works on that run only. Building plans and checking
  policies, schedules, tests of tools, check mode, `agent_update` runs, rotation
  of credentials, signatures (always valid) and node policy orders; `when` and
  `nodes` conditions are only steps that are skipped. The hub takes the first 200
  events of a POST; here all. A tool that outlives its dead agent reports nothing
  and is left out.
- *Threads.* Registration, status and activity log, `wait_for_reply`, sessions in
  containers. What a turn does with a message is not modelled.
- *The rest of the program* is not modelled because there is nothing a model
  checker would add: the agent loop, modes and engines are sequential around a
  model's answers; memory, history and plan documents are data with one writer;
  sandbox, container sessions, providers and tracker are I/O around services
  outside; terminal, GUI, mobile client and editor plugin present the state of the
  above. They are most of the program's lines, so the modelled share of the lines
  is small; `PROJECT.json` lists each with its reason.
