----------------------------- MODULE JobPublish ------------------------------
(* The publish phase of a job in detail (mu/jobs/publish.py), against the git *)
(* remote and the pull request host it writes to: the publish workers, one of *)
(* them superseded perhaps, the merge poll, and a human who works on the same *)
(* branch and decides the pull requests.                                      *)
(*                                                                            *)
(* JobWorker and JobCommands have this phase in three steps and a pull request*)
(* in one word; here the rest of the pipeline is short: a job in rework is    *)
(* "queued" until its next commit is verified and pushed.                     *)
EXTENDS JobStates, Sequences

CONSTANTS
    Workers,        \* process ids of publish workers
    NoWorker,
    Budget          \* how often a kind of event may happen

BudgetKinds == {"trouble", "host", "command"}

ASSUME PublishAssumption ==
    /\ NoWorker \notin Workers
    /\ Budget \in [BudgetKinds -> Nat]

VARIABLES
    status, reason,     \* the row: status, attention reason
    head,               \* the verified commit (a number, newer is larger)
    owner,              \* the holder of the lease
    pushedSha, pr,      \* metadata: "pushed_sha" and "pr"
    branch,             \* the job's branch at the push remote
    prs,                \* the pull requests of the branch at the host
    signed,             \* squashes carry a signature: none is made twice
    squashes,           \* squashes made so far
    pc, my,             \* each worker: next step, local variables
    poll,               \* what the merge poll has found and not yet applied
    budget,
    stale,              \* history: a superseded worker pushed, opened a pull
                        \* request or wrote metadata
    cleared             \* history: somebody deleted the branch, or put it back
                        \* to the base

rowVars == <<status, reason, head>>
metaVars == <<pushedSha, pr, stale>>
hostVars == <<branch, prs, cleared>>
gitVars == <<signed, squashes>>
workerVars == <<pc, my>>

vars == <<rowVars, owner, metaVars, hostVars, gitVars, workerVars, poll, budget>>

\* A commit of the branch, by whoever has made it.  Its tree is that of a verified
\* commit, directly on the base, or 0: anything else.
Commit(by, tree, stamp) == [by |-> by, tree |-> tree, stamp |-> stamp]

NoCommit == Commit("nobody", 0, 0)

\* What the job's branch starts from, and squashes are put on.
Base == Commit("base", 0, 0)

\* Work of somebody else, which is more than a squash amended.
OthersWork(c) == c.by = "others" /\ c.tree = 0

\* metadata.pr
NoPR == [number |-> 0, state |-> "none", sha |-> NoCommit]

OpenPRs == {n \in DOMAIN prs : prs[n] = "open"}

NoLocals == [tree |-> 0, pushed |-> NoCommit, pr |-> NoPR, sha |-> NoCommit,
             expect |-> NoCommit, number |-> 0]

NoPoll == [step |-> "none", number |-> 0, result |-> "none"]

Init ==
    /\ status = "publishing" /\ reason = "none"
    /\ head = 1
    /\ owner = NoWorker
    /\ pushedSha = NoCommit /\ pr = NoPR
    /\ branch = NoCommit /\ prs = << >> /\ cleared = FALSE
    /\ signed \in BOOLEAN /\ squashes = 0
    /\ pc = [w \in Workers |-> "off"]
    /\ my = [w \in Workers |-> NoLocals]
    /\ poll = NoPoll
    /\ budget = Budget
    /\ stale = FALSE

Spend(kind) ==
    /\ budget[kind] > 0
    /\ budget' = [budget EXCEPT ![kind] = @ - 1]

Goto(w, step) == pc' = [pc EXCEPT ![w] = step]

Keep(w, field, value) == my' = [my EXCEPT ![w][field] = value]

\* The pull request to record; what is not used any more is forgotten.
Found(w, n) ==
    my' = [my EXCEPT ![w] = [NoLocals EXCEPT !.sha = my[w].sha, !.number = n]]

\* service.transition() by the poll or a human.
Move(to, why) ==
    IF status # to /\ LegalMove(status, to)
    THEN status' = to /\ reason' = why /\ head' = head
    ELSE UNCHANGED rowVars

-----------------------------------------------------------------------------
\* The process of a worker: the lease, and its end.

Start(w) ==
    /\ status = "publishing" /\ owner = NoWorker /\ pc[w] = "off"
    /\ owner' = w
    /\ Goto(w, "read")
    /\ UNCHANGED <<rowVars, metaVars, hostVars, gitVars, my, poll, budget>>

\* The lease is released, and the process ends.
Leaves(w) ==
    /\ owner' = IF owner = w THEN NoWorker ELSE owner
    /\ pc' = [pc EXCEPT ![w] = "off"]
    /\ my' = [my EXCEPT ![w] = NoLocals]

\* run_leased(): the last move is fenced by the lease, and an illegal one ends
\* the process too.
Ends(w, to, why) ==
    /\ IF owner = w THEN Move(to, why) ELSE UNCHANGED rowVars
    /\ Leaves(w)

\* Mutant: an exception only ends the process.
Fails_Quietly(w) == Leaves(w) /\ UNCHANGED rowVars

\* Any exception of the phase parks the job on a human.
Fails(w) == Ends(w, "needs_human", "paused")

\* The process dies; its lease runs out, and the stage is dispatched again.
Dies(w) ==
    /\ pc[w] # "off"
    /\ Spend("trouble")
    /\ Leaves(w)
    /\ UNCHANGED <<rowVars, metaVars, hostVars, gitVars, poll>>

\* The lease runs out under a process that is suspended, or starved.
Lapses ==
    /\ owner # NoWorker
    /\ Spend("trouble")
    /\ owner' = NoWorker
    /\ UNCHANGED <<rowVars, metaVars, hostVars, gitVars, workerVars, poll>>

-----------------------------------------------------------------------------
\* publish_job() and open_draft_pr().

\* The job as it is read once, and the commit of its latest check run.
ReadJob(w) ==
    /\ pc[w] = "read"
    /\ IF status = "publishing"
       THEN /\ Goto(w, "squash")
            /\ my' = [my EXCEPT ![w] = [NoLocals EXCEPT !.tree = head,
                                        !.pushed = pushedSha, !.pr = pr]]
            /\ owner' = owner
       ELSE Leaves(w)
    /\ UNCHANGED <<rowVars, metaVars, hostVars, gitVars, poll, budget>>

\* What this job has pushed, as far as the metadata that was read can tell.
Previous(w) == {my[w].pushed, my[w].pr.sha} \ {NoCommit}

\* Mutant: any squash at the remote is taken for the one to push.
Equivalent_AnyTree(c, sha) == c.tree > 0

\* _is_equivalent_squash() compares tree and parent, and asks for no author: a
\* squash that somebody else has amended is one too.
Equivalent(c, sha) == c.tree = sha.tree

\* _is_ancestor(): a squash descends from nothing but the base.
IsAncestor(c) == c = Base

\* Mutant: what is at the remote may be replaced whoever pushed it.
MayReplace_Anything(w, sha) == TRUE

\* What the remote may have for the push to go on.
MayReplace(w, sha) ==
    branch \in Previous(w) \cup {NoCommit, sha} \/ IsAncestor(branch)

\* squash_for_publish(), the look at the remote branch, and the choice between
\* a plain push (no commit expected) and --force-with-lease.
Squash(w) ==
    /\ pc[w] = "squash"
    /\ squashes' = IF signed THEN squashes + 1 ELSE squashes
    /\ LET made == Commit("job", my[w].tree, squashes')
           sha == IF branch \notin Previous(w) /\ Equivalent(branch, made)
                  THEN branch ELSE made
       IN  IF MayReplace(w, sha)
           THEN /\ my' = [my EXCEPT ![w] = [NoLocals EXCEPT
                               !.pr = my[w].pr, !.sha = sha,
                               !.expect = IF branch = sha \/ IsAncestor(branch)
                                          THEN NoCommit ELSE branch]]
                /\ Goto(w, "push")
                /\ UNCHANGED <<rowVars, owner>>
           ELSE Fails(w)
    /\ UNCHANGED <<metaVars, hostVars, signed, poll, budget>>

\* A push that changes nothing is up to date.  Otherwise the remote takes a plain
\* one that creates the branch or goes forward, and a forced one while the branch
\* is what was expected.
Accepted(w) ==
    \/ branch = my[w].sha
    \/ my[w].expect = NoCommit /\ (branch = NoCommit \/ IsAncestor(branch))
    \/ my[w].expect # NoCommit /\ branch = my[w].expect

\* Neither the remote, the host nor merge_metadata() asks for the lease.
NoteWrite(w) == stale' = (stale \/ owner # w)

GitPush(w) ==
    /\ pc[w] = "push"
    /\ IF Accepted(w)
       THEN /\ branch' = my[w].sha
            /\ NoteWrite(w)
            /\ Keep(w, "expect", NoCommit)
            /\ Goto(w, "pushed")
            /\ UNCHANGED <<rowVars, owner>>
       ELSE Fails(w) /\ UNCHANGED <<branch, stale>>
    /\ UNCHANGED <<pushedSha, pr, prs, cleared, gitVars, poll, budget>>

\* The command fails, or runs out of time: the remote may have taken the push.
PushBreaks(w) ==
    /\ pc[w] = "push"
    /\ Spend("trouble")
    /\ branch' \in {branch} \cup IF Accepted(w) THEN {my[w].sha} ELSE {}
    /\ NoteWrite(w)
    /\ Fails(w)
    /\ UNCHANGED <<pushedSha, pr, prs, cleared, gitVars, poll>>

OnPushed(w) ==
    /\ pc[w] = "pushed"
    /\ pushedSha' = my[w].sha
    /\ NoteWrite(w)
    /\ Goto(w, "lookup")
    /\ UNCHANGED <<rowVars, owner, pr, hostVars, gitVars, my, poll, budget>>

\* The pull request of the metadata, unless it is flagged closed.
Existing(w) == my[w].pr.number > 0 /\ my[w].pr.state # "closed"

\* The pull request the metadata names, or else an open one of the branch.
LookUp(w) ==
    /\ pc[w] = "lookup"
    /\ \/ /\ Existing(w)
          /\ Found(w, my[w].pr.number)
          /\ Goto(w, "record")
       \/ /\ ~Existing(w) /\ OpenPRs # {}
          /\ \E n \in OpenPRs : Found(w, n)
          /\ Goto(w, "record")
       \/ /\ ~Existing(w) /\ OpenPRs = {}
          /\ Goto(w, "create")
          /\ Found(w, 0)
    /\ UNCHANGED <<rowVars, owner, metaVars, hostVars, gitVars, poll, budget>>

\* find_open_pr(): an error of the host counts as "none found".
LookUpFails(w) ==
    /\ pc[w] = "lookup" /\ ~Existing(w)
    /\ Spend("trouble")
    /\ Goto(w, "create")
    /\ Found(w, 0)
    /\ UNCHANGED <<rowVars, owner, metaVars, hostVars, gitVars, poll>>

\* The host refuses a second open pull request of a branch.
CreatePR(w) ==
    /\ pc[w] = "create"
    /\ IF OpenPRs = {}
       THEN /\ prs' = Append(prs, "open")
            /\ NoteWrite(w)
            /\ Found(w, Len(prs'))
            /\ Goto(w, "record")
            /\ UNCHANGED <<rowVars, owner>>
       ELSE Fails(w) /\ UNCHANGED <<prs, stale>>
    /\ UNCHANGED <<pushedSha, pr, branch, cleared, gitVars, poll, budget>>

\* The request fails, or its answer is lost.
CreateBreaks(w) ==
    /\ pc[w] = "create"
    /\ Spend("trouble")
    /\ prs' \in {prs} \cup IF OpenPRs = {} THEN {Append(prs, "open")} ELSE {}
    /\ NoteWrite(w)
    /\ Fails(w)
    /\ UNCHANGED <<pushedSha, pr, branch, cleared, gitVars, poll>>

\* Mutant: the record keeps the number of the pull request it had.
RecordOf_KeepsNumber(w) ==
    [number |-> IF pr.number > 0 THEN pr.number ELSE my[w].number,
     state |-> "none", sha |-> my[w].sha]

\* Mutant: the record keeps the state it had.
RecordOf_KeepsState(w) ==
    [number |-> my[w].number, state |-> pr.state, sha |-> my[w].sha]

\* The new record; it carries no state.
RecordOf(w) == [number |-> my[w].number, state |-> "none", sha |-> my[w].sha]

RecordPR(w) ==
    /\ pc[w] = "record"
    /\ pr' = RecordOf(w)
    /\ NoteWrite(w)
    /\ Goto(w, "announce")
    /\ UNCHANGED <<rowVars, owner, pushedSha, hostVars, gitVars, my, poll, budget>>

Announce(w) ==
    /\ pc[w] = "announce"
    /\ Ends(w, "ready_for_review", "none")
    /\ UNCHANGED <<metaVars, hostVars, gitVars, poll, budget>>

PublishStep(w) ==
    \/ ReadJob(w) \/ Squash(w) \/ GitPush(w) \/ OnPushed(w)
    \/ LookUp(w) \/ CreatePR(w) \/ RecordPR(w) \/ Announce(w)

PublishTrouble(w) == PushBreaks(w) \/ LookUpFails(w) \/ CreateBreaks(w) \/ Dies(w)

-----------------------------------------------------------------------------
\* The merge poll (poll_merged_prs()).

Polled == {"ready_for_review", "conflicted"}

\* Mutant: the poll acts on any answer.
Decided_AnyAnswer(n) == n > 0

\* What check_pr_state() finds, other than "open" and "unknown".
Decided(n) == prs[n] # "open"

PollHost ==
    /\ poll = NoPoll
    /\ status \in Polled /\ pr.number > 0 /\ pr.state # "closed"
    /\ Decided(pr.number)
    /\ poll' = [step |-> "stamp", number |-> pr.number, result |-> prs[pr.number]]
    /\ UNCHANGED <<rowVars, owner, metaVars, hostVars, gitVars, workerVars, budget>>

\* The job is read again, and the record stamped if it is still the same.
StampPR ==
    /\ poll.step = "stamp"
    /\ IF status \in Polled /\ pr.number = poll.number
       THEN /\ pr' = [pr EXCEPT !.state = poll.result]
            /\ poll' = [poll EXCEPT !.step = "apply"]
       ELSE poll' = NoPoll /\ pr' = pr
    /\ UNCHANGED <<rowVars, owner, pushedSha, stale, hostVars, gitVars,
                   workerVars, budget>>

ApplyPoll ==
    /\ poll.step = "apply"
    /\ IF poll.result = "merged"
       THEN Move("merged", "none") ELSE Move("needs_human", "pr_closed")
    /\ poll' = NoPoll
    /\ UNCHANGED <<owner, metaVars, hostVars, gitVars, workerVars, budget>>

Poller == PollHost \/ StampPR \/ ApplyPoll

-----------------------------------------------------------------------------
\* Humans: at the job, ...

\* The job is pushed, or pushed and its pull request was closed.
Pushed ==
    \/ status = "ready_for_review"
    \/ status = "needs_human" /\ reason = "pr_closed"

Rework ==
    /\ Pushed
    /\ Spend("command")
    /\ status' = "queued" /\ reason' = "none"
    /\ UNCHANGED <<head, owner, metaVars, hostVars, gitVars, workerVars, poll>>

\* Implemented (or only checked again), verified and reviewed, and pushed; the
\* workers of those phases take the lease, so a publish worker has left it.
Push ==
    /\ status = "queued" /\ owner = NoWorker
    /\ status' = "publishing" /\ reason' = "none"
    /\ head' \in {head, head + 1}
    /\ UNCHANGED <<owner, metaVars, hostVars, gitVars, workerVars, poll, budget>>

Repush ==
    /\ Pushed /\ pr.state = "closed"
    /\ Spend("command")
    /\ status' = "publishing" /\ reason' = "none"
    /\ UNCHANGED <<head, owner, metaVars, hostVars, gitVars, workerVars, poll>>

\* A publish that failed is tried again.
Resume ==
    /\ status = "needs_human" /\ reason = "paused"
    /\ Spend("command")
    /\ status' = "publishing" /\ reason' = "none"
    /\ UNCHANGED <<head, owner, metaVars, hostVars, gitVars, workerVars, poll>>

\* ... and at the host: they decide a pull request, and delete the branch perhaps.
Decide ==
    /\ Spend("host")
    /\ \E n \in OpenPRs, outcome \in {"merged", "closed"} :
          prs' = [prs EXCEPT ![n] = outcome]
    /\ \/ branch' = branch /\ cleared' = cleared
       \/ branch' = NoCommit /\ cleared' = TRUE
    /\ UNCHANGED <<rowVars, owner, metaVars, gitVars, workerVars, poll>>

\* Or they push to the branch: the commit amended (its message, say, which leaves
\* the tree and the parent), work of their own, or the base again.
ForeignPush ==
    /\ Spend("host")
    /\ \/ /\ \E tree \in {branch.tree, 0} :
                branch' = Commit("others", tree, branch.stamp + 1)
          /\ cleared' = cleared
       \/ branch' = Base /\ cleared' = TRUE
    /\ UNCHANGED <<rowVars, owner, metaVars, prs, gitVars, workerVars, poll>>

Human == Rework \/ Push \/ Repush \/ Resume \/ Decide \/ ForeignPush

-----------------------------------------------------------------------------
Next ==
    \/ \E w \in Workers : Start(w) \/ PublishStep(w) \/ PublishTrouble(w)
    \/ Lapses \/ Poller \/ Human

Spec == Init /\ [][Next]_vars

\* Workers run to their end (they have timeouts), the controller starts one for
\* a job to publish, and the poll goes round.
Fairness ==
    /\ \A w \in Workers : WF_vars(PublishStep(w))
    /\ WF_vars(\E w \in Workers : Start(w))
    /\ WF_vars(Poller)

FairSpec == Spec /\ Fairness

-----------------------------------------------------------------------------
Commits == [by : {"nobody", "base", "job", "others"}, tree : Nat, stamp : Nat]

Records == [number : Nat, state : {"none", "merged", "closed"}, sha : Commits]

\* Every variable has its type; the records name pull requests of the host.
TypeOK ==
    /\ status \in JobStatus /\ reason \in Reasons
    /\ head \in Nat /\ owner \in Workers \cup {NoWorker}
    /\ pushedSha \in Commits /\ branch \in Commits
    /\ pr \in Records /\ pr.number \in 0..Len(prs)
    /\ prs \in Seq({"open", "merged", "closed"})
    /\ signed \in BOOLEAN /\ squashes \in Nat
    /\ my \in [Workers -> [tree : Nat, pushed : Commits, pr : Records,
                           sha : Commits, expect : Commits, number : 0..Len(prs)]]
    /\ pc \in [Workers -> {"off", "read", "squash", "push", "pushed", "lookup",
                           "create", "record", "announce"}]
    /\ poll \in [step : {"none", "stamp", "apply"}, number : 0..Len(prs),
                 result : {"none", "merged", "closed"}]
    /\ budget \in [BudgetKinds -> Nat]
    /\ stale \in BOOLEAN /\ cleared \in BOOLEAN

\* "Refusing to overwrite it": no worker, whatever it has adopted and recorded
\* before, puts a squash in the place of work somebody else has pushed, whether
\* that came before the look at the remote, after it, or under a superseded worker.
\* (What is only the squash amended, with the same tree and parent, is adopted as
\* the job's own and replaced by a later squash.)
ForeignKept == [][OthersWork(branch) => branch'.tree = 0]_vars

\* A job that is announced has its verified commit on the branch, amended perhaps,
\* or what others did to the branch since; also with a superseded worker about,
\* whose push of an older commit may come at any time (it passes only where
\* somebody deleted the branch, or put it back to the base).
AnnouncedIsVerified ==
    [][status = "publishing" /\ status' = "ready_for_review" /\ branch.tree > 0
       => branch.tree = head \/ (stale /\ cleared)]_vars

\* Unless a superseded worker went on writing: a pull request that is open
\* for the branch of a pushed job is the one the job names, after any crash,
\* lost answer or failed lookup on the way, and after a re-push.
NamesOpenPR ==
    status = "ready_for_review" /\ ~stale => \A n \in OpenPRs : n = pr.number

\* A publish comes to an end: pushed, or before a human.
PublishEnds == status = "publishing" ~> status # "publishing"

\* What the host decides on the pull request a pushed job names reaches the job
\* (or a superseded worker replaces the record).
Due == status = "ready_for_review" /\ pr.number > 0 /\ Decided(pr.number)

DecisionArrives == Due ~> ~Due
=============================================================================
