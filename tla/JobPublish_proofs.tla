-------------------------- MODULE JobPublish_proofs --------------------------
(* Proofs about the publish phase, for any workers and any number of crashes, *)
(* lapses, lost answers, commands and decisions at the host.                  *)
(*                                                                            *)
(* SquashInv: every commit the metadata or a worker's variables name has the  *)
(* tree of a verified commit on the base, whoever made it.  A push replaces   *)
(* nothing else, so it is never other work that goes.  NamingInv says which   *)
(* pull request a job names, TreeInv which commit a worker has and has put on *)
(* the branch.                                                                *)
EXTENDS JobPublish, SequenceTheorems, TLAPS

\* Squashes of verified commits, amended by somebody perhaps, and none.
Squashes == {c \in Commits : c.tree > 0 \/ c = NoCommit}

\* Records and local variables, when the host has k pull requests.
SquashRecords(k) ==
    [number : 0..k, state : {"none", "merged", "closed"}, sha : Squashes]

Locals(k) == [tree : Nat, pushed : Squashes, pr : SquashRecords(k),
              sha : Squashes, expect : Squashes, number : 0..k]

PublishSteps == {"off", "read", "squash", "push", "pushed", "lookup", "create",
                 "record", "announce"}

RowOK == status \in JobStatus /\ reason \in Reasons /\ head \in Nat \ {0}

MetaOK ==
    /\ pushedSha \in Squashes
    /\ pr \in SquashRecords(Len(prs))
    /\ stale \in BOOLEAN

HostOK ==
    /\ branch \in Commits /\ prs \in Seq({"open", "merged", "closed"})
    /\ cleared \in BOOLEAN

WorkersOK ==
    /\ owner \in Workers \cup {NoWorker}
    /\ my \in [Workers -> Locals(Len(prs))]
    /\ pc \in [Workers -> PublishSteps]
    /\ \A w \in Workers : pc[w] = "squash" => my[w].tree > 0

PollOK ==
    poll \in [step : {"none", "stamp", "apply"}, number : 0..Len(prs),
              result : {"none", "merged", "closed"}]

RestOK ==
    signed \in BOOLEAN /\ squashes \in Nat /\ budget \in [BudgetKinds -> Nat]

SquashInv == RowOK /\ MetaOK /\ HostOK /\ WorkersOK /\ PollOK /\ RestOK

LEMMA SquashTypes == SquashInv => TypeOK
<1> SUFFICES ASSUME SquashInv PROVE TypeOK
  OBVIOUS
<1>1. Squashes \subseteq Commits /\ SquashRecords(Len(prs)) \subseteq Records
  BY DEF SquashInv, HostOK, Squashes, SquashRecords, Records
<1>2. Locals(Len(prs)) \subseteq
         [tree : Nat, pushed : Commits, pr : Records, sha : Commits,
          expect : Commits, number : 0..Len(prs)]
  BY <1>1 DEF Locals
<1>3. pushedSha \in Commits /\ pr \in Records /\ pr.number \in 0..Len(prs)
  BY <1>1 DEF SquashInv, MetaOK, SquashRecords
<1> QED
  BY <1>2, <1>3 DEF SquashInv, RowOK, MetaOK, HostOK, WorkersOK, PollOK, RestOK,
                    TypeOK, PublishSteps

LEMMA NoLocalsOK == \A k \in Nat : NoLocals \in Locals(k)
<1>1. NoCommit \in Squashes
  BY DEF NoCommit, Commit, Squashes, Commits
<1>2. \A k \in Nat : NoPR \in SquashRecords(k)
  BY <1>1 DEF NoPR, SquashRecords
<1> QED  BY <1>1, <1>2 DEF NoLocals, Locals

\* Pull requests are only added.
LEMMA MorePRs ==
    ASSUME SquashInv, HostOK', Len(prs') >= Len(prs)
    PROVE  /\ my \in [Workers -> Locals(Len(prs'))]
           /\ pr \in SquashRecords(Len(prs'))
           /\ 0..Len(prs) \subseteq 0..Len(prs')
<1>1. Len(prs) \in Nat /\ Len(prs') \in Nat
  BY DEF SquashInv, HostOK
<1>2. 0..Len(prs) \subseteq 0..Len(prs')
  BY <1>1
<1>3. /\ SquashRecords(Len(prs)) \subseteq SquashRecords(Len(prs'))
      /\ Locals(Len(prs)) \subseteq Locals(Len(prs'))
  BY <1>2 DEF Locals, SquashRecords
<1> QED  BY <1>2, <1>3 DEF SquashInv, WorkersOK, MetaOK

LEMMA LeavesOK ==
    ASSUME SquashInv, NEW w \in Workers, Leaves(w), HostOK', Len(prs') >= Len(prs)
    PROVE  WorkersOK'
<1>1. NoLocals \in Locals(Len(prs'))
  BY NoLocalsOK DEF HostOK
<1>2. my' \in [Workers -> Locals(Len(prs'))]
  BY <1>1, MorePRs DEF Leaves
<1> QED  BY <1>2 DEF Leaves, SquashInv, WorkersOK, PublishSteps

LEMMA MoveOK ==
    ASSUME RowOK, NEW to \in JobStatus, NEW why \in Reasons, Move(to, why)
    PROVE  RowOK'
BY DEF Move, RowOK, rowVars

LEMMA EndsOK ==
    ASSUME SquashInv, NEW w \in Workers, NEW to \in JobStatus, NEW why \in Reasons,
           Ends(w, to, why), HostOK', Len(prs') >= Len(prs)
    PROVE  RowOK' /\ WorkersOK'
<1>1. WorkersOK'
  BY LeavesOK DEF Ends
<1>2. RowOK'
  BY MoveOK DEF Ends, SquashInv, RowOK, rowVars
<1> QED  BY <1>1, <1>2

LEMMA FailsOK ==
    ASSUME SquashInv, NEW w \in Workers, Fails(w), HostOK', Len(prs') >= Len(prs)
    PROVE  RowOK' /\ WorkersOK'
BY EndsOK, "needs_human" \in JobStatus, "paused" \in Reasons
   DEF Fails, JobStatus, Reasons

\* A worker that goes on: its variables keep their types.
LEMMA GoesOn ==
    ASSUME SquashInv, NEW w \in Workers, NEW step \in PublishSteps, Goto(w, step),
           NEW l \in Locals(Len(prs')), my' = [my EXCEPT ![w] = l],
           step = "squash" => l.tree > 0, UNCHANGED owner, HostOK', Len(prs') >= Len(prs)
    PROVE  WorkersOK'
BY MorePRs DEF Goto, SquashInv, WorkersOK

LEMMA NoPollOK ==
    NoPoll \in [step : {"none", "stamp", "apply"}, number : {0},
                result : {"none", "merged", "closed"}]
BY DEF NoPoll

LEMMA SpendOK ==
    ASSUME RestOK, NEW kind \in BudgetKinds, Spend(kind)
    PROVE  budget' \in [BudgetKinds -> Nat]
BY DEF RestOK, Spend

-----------------------------------------------------------------------------
\* The steps of a worker.

LEMMA SquashOK ==
    ASSUME SquashInv, NEW w \in Workers, Squash(w)
    PROVE  SquashInv'
<1> DEFINE made == Commit("job", my[w].tree, squashes')
           sha == IF branch \notin Previous(w) /\ Equivalent(branch, made)
                  THEN branch ELSE made
           expect == IF branch = sha \/ IsAncestor(branch) THEN NoCommit ELSE branch
           l == [NoLocals EXCEPT !.pr = my[w].pr, !.sha = sha, !.expect = expect]
<1>1. /\ my[w] \in Locals(Len(prs)) /\ my[w].tree > 0
      /\ branch \in Commits /\ squashes' \in Nat
  BY DEF Squash, SquashInv, WorkersOK, HostOK, RestOK
<1>2. made \in Squashes /\ NoCommit \in Squashes
  BY <1>1 DEF Locals, Squashes, Commits, Commit, NoCommit
<1>3. sha \in Squashes
  BY <1>1, <1>2 DEF Equivalent, Squashes, Commit
<1>4. MetaOK' /\ HostOK' /\ PollOK' /\ RestOK' /\ Len(prs') = Len(prs)
  BY <1>1 DEF Squash, metaVars, hostVars, SquashInv, MetaOK, HostOK, PollOK, RestOK
<1>5. CASE MayReplace(w, sha)
  <2>1. my' = [my EXCEPT ![w] = l] /\ Goto(w, "push") /\ UNCHANGED <<rowVars, owner>>
    BY <1>5 DEF Squash
  <2>2. Previous(w) \subseteq Squashes
    BY <1>1 DEF Previous, Locals, SquashRecords
  <2>3. expect \in Squashes
    BY <1>2, <1>3, <1>5, <2>2 DEF MayReplace
  <2>4. l \in Locals(Len(prs'))
    <3>1. NoLocals \in Locals(Len(prs'))
      BY NoLocalsOK, <1>4 DEF HostOK
    <3>2. my[w].pr \in SquashRecords(Len(prs'))
      BY <1>1, <1>4 DEF Locals
    <3> HIDE DEF sha, expect
    <3> QED  BY <3>1, <3>2, <1>3, <2>3 DEF Locals
  <2> HIDE DEF l
  <2>5. HostOK' /\ Len(prs') >= Len(prs) /\ "push" \in PublishSteps
    BY <1>4 DEF PublishSteps, HostOK, SquashInv
  <2>6. WorkersOK'
    BY <2>1, <2>4, <2>5, GoesOn
  <2>7. RowOK'
    BY <2>1 DEF SquashInv, RowOK, rowVars
  <2> QED  BY <1>4, <2>6, <2>7 DEF SquashInv
<1>6. CASE ~MayReplace(w, sha)
  <2>1. Fails(w)
    BY <1>6 DEF Squash
  <2>2. Len(prs') >= Len(prs)
    BY <1>4 DEF HostOK, SquashInv
  <2> QED  BY <1>4, <2>1, <2>2, FailsOK DEF SquashInv
<1> QED  BY <1>5, <1>6

\* A push, answered or not, leaves a commit at the remote.
LEMMA GitPushOK ==
    ASSUME SquashInv, NEW w \in Workers, GitPush(w) \/ PushBreaks(w)
    PROVE  SquashInv'
<1>1. my[w] \in Locals(Len(prs)) /\ NoCommit \in Squashes
  BY DEF SquashInv, WorkersOK, NoCommit, Squashes, Commits, Commit
<1>2. HostOK' /\ Len(prs') >= Len(prs)
  BY <1>1 DEF GitPush, PushBreaks, SquashInv, HostOK, Locals, Squashes
<1>3. MetaOK' /\ PollOK'
  BY DEF GitPush, PushBreaks, NoteWrite, SquashInv, MetaOK, PollOK
<1>4. RestOK'
  <2>1. CASE GitPush(w)
    BY <2>1 DEF GitPush, gitVars, SquashInv, RestOK
  <2>2. CASE PushBreaks(w)
    BY <2>2, SpendOK, "trouble" \in BudgetKinds
       DEF PushBreaks, gitVars, SquashInv, RestOK, BudgetKinds
  <2> QED  BY <2>1, <2>2
<1>5. CASE GitPush(w) /\ Accepted(w)
  <2> DEFINE l == [my[w] EXCEPT !.expect = NoCommit]
  <2>1. my' = [my EXCEPT ![w] = l]
    BY <1>5 DEF GitPush, Keep
  <2>2. l \in Locals(Len(prs'))
    BY <1>1, <1>5 DEF GitPush, Locals
  <2> HIDE DEF l
  <2>3. WorkersOK'
    BY <1>2, <1>5, <2>1, <2>2, GoesOn, "pushed" \in PublishSteps
       DEF GitPush, PublishSteps
  <2>4. RowOK'
    BY <1>5 DEF GitPush, rowVars, SquashInv, RowOK
  <2> QED  BY <1>2, <1>3, <1>4, <2>3, <2>4 DEF SquashInv
<1>6. CASE Fails(w)
  BY <1>2, <1>3, <1>4, <1>6, FailsOK DEF SquashInv
<1> QED  BY <1>5, <1>6 DEF GitPush, PushBreaks


\* What a worker found, or made, to record.
LEMMA FoundOK ==
    ASSUME SquashInv, NEW w \in Workers, NEW n \in 0..Len(prs'), Found(w, n),
           NEW step \in PublishSteps \ {"squash"}, Goto(w, step), UNCHANGED owner,
           HostOK', Len(prs') >= Len(prs)
    PROVE  WorkersOK'
<1> DEFINE l == [NoLocals EXCEPT !.sha = my[w].sha, !.number = n]
<1>1. NoLocals \in Locals(Len(prs')) /\ my[w].sha \in Squashes
  BY NoLocalsOK DEF HostOK, SquashInv, WorkersOK, Locals
<1>2. l \in Locals(Len(prs'))
  BY <1>1 DEF Locals
<1>3. my' = [my EXCEPT ![w] = l]
  BY DEF Found
<1> HIDE DEF l
<1> QED  BY <1>2, <1>3, GoesOn

LEMMA LookUpOK ==
    ASSUME SquashInv, NEW w \in Workers, LookUp(w) \/ LookUpFails(w)
    PROVE  SquashInv'
<1>1. my[w] \in Locals(Len(prs)) /\ Len(prs) \in Nat /\ DOMAIN prs = 1..Len(prs)
  BY DEF SquashInv, WorkersOK, HostOK
<1>2. UNCHANGED <<rowVars, owner, metaVars, hostVars, gitVars, poll>>
  BY DEF LookUp, LookUpFails
<1>3. RestOK'
  BY <1>2, SpendOK, "trouble" \in BudgetKinds
     DEF LookUp, LookUpFails, gitVars, SquashInv, RestOK, BudgetKinds
<1>4. RowOK' /\ MetaOK' /\ HostOK' /\ PollOK' /\ Len(prs') >= Len(prs)
  BY <1>1, <1>2 DEF rowVars, metaVars, hostVars, SquashInv, RowOK, MetaOK, HostOK, PollOK
<1>5. PICK n \in 0..Len(prs) : Found(w, n) /\ (Goto(w, "record") \/ Goto(w, "create"))
  BY <1>1 DEF LookUp, LookUpFails, OpenPRs, Locals, SquashRecords
<1>6. n \in 0..Len(prs') /\ owner' = owner
  BY <1>2, <1>5 DEF hostVars
<1>7. WorkersOK'
  BY <1>4, <1>5, <1>6, FoundOK, "record" \in PublishSteps, "create" \in PublishSteps
     DEF PublishSteps
<1> QED  BY <1>3, <1>4, <1>7 DEF SquashInv

LEMMA CreateOK ==
    ASSUME SquashInv, NEW w \in Workers, CreatePR(w) \/ CreateBreaks(w)
    PROVE  SquashInv'
<1>1. prs' = prs \/ prs' = Append(prs, "open")
  BY DEF CreatePR, CreateBreaks
<1>2. HostOK' /\ Len(prs') >= Len(prs) /\ Len(prs') \in Nat
  BY <1>1 DEF CreatePR, CreateBreaks, SquashInv, HostOK
<1>3. MetaOK' /\ PollOK'
  BY <1>2, MorePRs DEF CreatePR, CreateBreaks, NoteWrite, SquashInv, MetaOK, PollOK
<1>4. RestOK'
  <2>1. CASE CreatePR(w)
    BY <2>1 DEF CreatePR, gitVars, SquashInv, RestOK
  <2>2. CASE CreateBreaks(w)
    BY <2>2, SpendOK, "trouble" \in BudgetKinds
       DEF CreateBreaks, gitVars, SquashInv, RestOK, BudgetKinds
  <2> QED  BY <2>1, <2>2
<1>5. CASE CreatePR(w) /\ OpenPRs = {}
  <2>1. Found(w, Len(prs')) /\ Goto(w, "record") /\ UNCHANGED <<rowVars, owner>>
    BY <1>5 DEF CreatePR
  <2>2. WorkersOK'
    BY <1>2, <2>1, FoundOK, "record" \in PublishSteps, Len(prs') \in 0..Len(prs')
       DEF PublishSteps
  <2>3. RowOK'
    BY <2>1 DEF rowVars, SquashInv, RowOK
  <2> QED  BY <1>2, <1>3, <1>4, <2>2, <2>3 DEF SquashInv
<1>6. CASE Fails(w)
  BY <1>2, <1>3, <1>4, <1>6, FailsOK DEF SquashInv
<1> QED  BY <1>5, <1>6 DEF CreatePR, CreateBreaks

LEMMA RecordsOK ==
    ASSUME SquashInv, NEW w \in Workers, OnPushed(w) \/ RecordPR(w)
    PROVE  SquashInv'
<1>1. my[w] \in Locals(Len(prs))
  BY DEF SquashInv, WorkersOK
<1>2. UNCHANGED <<rowVars, owner, hostVars, gitVars, my, poll, budget>>
  BY DEF OnPushed, RecordPR
<1>3. MetaOK'
  <2>1. RecordOf(w) \in SquashRecords(Len(prs))
    BY <1>1 DEF RecordOf, Locals, SquashRecords
  <2>2. my[w].sha \in Squashes
    BY <1>1 DEF Locals
  <2> QED
    BY <1>2, <2>1, <2>2 DEF OnPushed, RecordPR, NoteWrite, hostVars, SquashInv, MetaOK
<1>4. WorkersOK'
  BY <1>2 DEF OnPushed, RecordPR, Goto, hostVars, SquashInv, WorkersOK, PublishSteps
<1> QED
  BY <1>2, <1>3, <1>4 DEF rowVars, hostVars, gitVars, SquashInv, RowOK, HostOK, PollOK, RestOK

\* The first and the last step, and the two ways to lose a lease.
LEMMA ComesAndGoes ==
    ASSUME SquashInv, NEW w \in Workers,
           Start(w) \/ ReadJob(w) \/ Announce(w) \/ Dies(w) \/ Lapses
    PROVE  SquashInv'
<1>1. UNCHANGED <<metaVars, hostVars, gitVars, poll>>
  BY DEF Start, ReadJob, Announce, Dies, Lapses
<1>2. MetaOK' /\ HostOK' /\ PollOK' /\ Len(prs') >= Len(prs) /\ Len(prs) \in Nat
  BY <1>1 DEF metaVars, hostVars, SquashInv, MetaOK, HostOK, PollOK
<1>3. RestOK'
  BY <1>1, SpendOK, "trouble" \in BudgetKinds
     DEF Start, ReadJob, Announce, Dies, Lapses, gitVars, SquashInv, RestOK, BudgetKinds
<1>4. CASE Start(w) \/ Lapses
  BY <1>1, <1>2, <1>3, <1>4
     DEF Start, Lapses, Goto, rowVars, hostVars, workerVars, SquashInv, RowOK,
         WorkersOK, PublishSteps
<1>5. CASE ReadJob(w) /\ status = "publishing"
  <2> DEFINE l == [NoLocals EXCEPT !.tree = head, !.pushed = pushedSha, !.pr = pr]
  <2>1. my' = [my EXCEPT ![w] = l] /\ Goto(w, "squash") /\ owner' = owner
    BY <1>5 DEF ReadJob
  <2>2. NoLocals \in Locals(Len(prs')) /\ pr \in SquashRecords(Len(prs'))
    BY <1>1, <1>2, NoLocalsOK DEF hostVars, SquashInv, MetaOK
  <2>3. l \in Locals(Len(prs')) /\ l.tree > 0
    <3>1. l \in Locals(Len(prs'))
      BY <2>2 DEF Locals, SquashInv, RowOK, MetaOK
    <3>2. l.tree = head
      BY DEF NoLocals
    <3> QED  BY <3>1, <3>2 DEF SquashInv, RowOK
  <2> HIDE DEF l
  <2>4. WorkersOK'
    BY <1>2, <2>1, <2>3, GoesOn, "squash" \in PublishSteps DEF PublishSteps
  <2>5. RowOK'
    BY <1>5 DEF ReadJob, rowVars, SquashInv, RowOK
  <2> QED  BY <1>2, <1>3, <2>4, <2>5 DEF SquashInv
<1>6. CASE Leaves(w) /\ UNCHANGED rowVars
  BY <1>2, <1>3, <1>6, LeavesOK DEF rowVars, SquashInv, RowOK
<1>7. CASE Announce(w)
  BY <1>2, <1>3, <1>7, EndsOK, "ready_for_review" \in JobStatus, "none" \in Reasons
     DEF Announce, JobStatus, Reasons, SquashInv
<1> QED  BY <1>4, <1>5, <1>6, <1>7 DEF ReadJob, Dies

-----------------------------------------------------------------------------
\* The poll, and the humans.

LEMMA PollerOK ==
    ASSUME SquashInv, Poller
    PROVE  SquashInv'
<1>1. UNCHANGED <<owner, pushedSha, stale, hostVars, gitVars, workerVars, budget>>
  BY DEF Poller, PollHost, StampPR, ApplyPoll, metaVars
<1>2. HostOK' /\ WorkersOK' /\ RestOK'
  BY <1>1 DEF hostVars, gitVars, workerVars, SquashInv, HostOK, WorkersOK, RestOK
<1>3. CASE PollHost
  <2>1. prs[pr.number] \in {"merged", "closed"}
    BY <1>3 DEF PollHost, Decided, SquashInv, MetaOK, HostOK, SquashRecords
  <2>2. poll' \in [step : {"none", "stamp", "apply"}, number : 0..Len(prs),
                   result : {"none", "merged", "closed"}]
    BY <1>3, <2>1 DEF PollHost, SquashInv, MetaOK, SquashRecords
  <2> QED
    BY <1>1, <1>2, <1>3, <2>2
       DEF PollHost, rowVars, metaVars, hostVars, SquashInv, RowOK, MetaOK, PollOK
<1>4. CASE StampPR
  BY <1>1, <1>2, <1>4, NoPollOK
     DEF StampPR, rowVars, hostVars, SquashInv, RowOK, MetaOK, PollOK, SquashRecords
<1>5. CASE ApplyPoll
  <2>1. RowOK'
    BY <1>5, MoveOK, {"merged", "needs_human"} \subseteq JobStatus,
       {"none", "pr_closed"} \subseteq Reasons
       DEF ApplyPoll, JobStatus, Reasons, SquashInv
  <2> QED
    BY <1>1, <1>2, <1>5, <2>1, NoPollOK
       DEF ApplyPoll, metaVars, hostVars, SquashInv, MetaOK, PollOK
<1> QED  BY <1>3, <1>4, <1>5 DEF Poller

LEMMA HumanOK ==
    ASSUME SquashInv, Human
    PROVE  SquashInv'
<1>1. UNCHANGED <<owner, metaVars, gitVars, workerVars, poll>>
  BY DEF Human, Rework, Push, Repush, Resume, Decide, ForeignPush
<1>2. RowOK'
  <2>1. CASE UNCHANGED rowVars
    BY <2>1 DEF rowVars, SquashInv, RowOK
  <2>2. CASE Rework \/ Repush \/ Resume
    BY <2>2 DEF Rework, Repush, Resume, SquashInv, RowOK, JobStatus, Reasons
  <2>3. CASE Push
    BY <2>3 DEF Push, SquashInv, RowOK, JobStatus, Reasons
  <2> QED
    BY <2>1, <2>2, <2>3 DEF Human, Decide, ForeignPush
<1>3. RestOK'
  BY <1>1, SpendOK, "host" \in BudgetKinds, "command" \in BudgetKinds
     DEF Human, Rework, Push, Repush, Resume, Decide, ForeignPush, gitVars,
         SquashInv, RestOK, BudgetKinds
<1>4. HostOK' /\ Len(prs') = Len(prs)
  <2>1. CASE UNCHANGED hostVars
    BY <2>1 DEF hostVars, SquashInv, HostOK
  <2>2. CASE Decide
    <3>1. PICK n \in OpenPRs, outcome \in {"merged", "closed"} :
             prs' = [prs EXCEPT ![n] = outcome]
      BY <2>2 DEF Decide
    <3>2. prs' \in Seq({"open", "merged", "closed"}) /\ Len(prs') = Len(prs)
      <4>1. n \in 1..Len(prs) /\ outcome \in {"open", "merged", "closed"}
        BY DEF OpenPRs, SquashInv, HostOK
      <4>2. prs \in Seq({"open", "merged", "closed"})
        BY DEF SquashInv, HostOK
      <4> QED  BY <3>1, <4>1, <4>2, ExceptSeq
    <3>3. branch' \in Commits /\ cleared' \in BOOLEAN
      <4>1. NoCommit \in Commits
        BY DEF Commits, NoCommit, Commit
      <4>2. branch \in Commits /\ cleared \in BOOLEAN
        BY DEF SquashInv, HostOK
      <4> QED  BY <2>2, <4>1, <4>2 DEF Decide
    <3> QED  BY <3>2, <3>3 DEF HostOK
  <2>3. CASE ForeignPush
    <3>1. branch \in Commits /\ cleared \in BOOLEAN
      BY DEF SquashInv, HostOK
    <3>2. branch' \in Commits
      BY <2>3, <3>1 DEF ForeignPush, Commit, Commits, Base
    <3>3. cleared' \in BOOLEAN /\ prs' = prs
      BY <2>3, <3>1 DEF ForeignPush
    <3> QED  BY <3>2, <3>3 DEF SquashInv, HostOK
  <2> QED
    BY <2>1, <2>2, <2>3 DEF Human, Rework, Push, Repush, Resume
<1> QED
  BY <1>1, <1>2, <1>3, <1>4
     DEF metaVars, workerVars, SquashInv, MetaOK, WorkersOK, PollOK

LEMMA Inductive == SquashInv /\ [Next]_vars => SquashInv'
<1> SUFFICES ASSUME SquashInv, [Next]_vars PROVE SquashInv'
  OBVIOUS
<1>1. CASE UNCHANGED vars
  BY <1>1 DEF vars, rowVars, metaVars, hostVars, gitVars, workerVars, SquashInv,
              RowOK, MetaOK, HostOK, WorkersOK, PollOK, RestOK
<1>2. ASSUME NEW w \in Workers, Start(w) \/ PublishStep(w) \/ PublishTrouble(w)
      PROVE  SquashInv'
  BY <1>2, ComesAndGoes, SquashOK, GitPushOK, LookUpOK, CreateOK, RecordsOK
     DEF PublishStep, PublishTrouble
<1>3. CASE Lapses
  BY <1>3, ComesAndGoes DEF Lapses, SquashInv, WorkersOK
<1> QED  BY <1>1, <1>2, <1>3, PollerOK, HumanOK DEF Next

LEMMA Initially == Init => SquashInv
<1> SUFFICES ASSUME Init PROVE SquashInv
  OBVIOUS
<1>1. Len(prs) = 0 /\ prs \in Seq({"open", "merged", "closed"})
  BY DEF Init
<1>2. NoCommit \in Squashes /\ NoPR \in SquashRecords(0) /\ NoLocals \in Locals(0)
  BY NoLocalsOK DEF NoPR, SquashRecords, NoCommit, Squashes, Commits, Commit
<1>3. MetaOK /\ HostOK
  BY <1>1, <1>2 DEF Init, MetaOK, HostOK, Squashes
<1>4. WorkersOK
  BY <1>1, <1>2 DEF Init, WorkersOK, PublishSteps
<1>5. PollOK
  BY <1>1, NoPollOK DEF Init, PollOK
<1> QED
  BY <1>3, <1>4, <1>5, PublishAssumption
     DEF Init, SquashInv, RowOK, RestOK, JobStatus, Reasons

-----------------------------------------------------------------------------
\* Every variable of the publish phase keeps its type, and the records name
\* pull requests that the host has.
THEOREM TypeCorrect == Spec => []TypeOK
<1>1. Spec => []SquashInv
  BY Initially, Inductive, PTL DEF Spec
<1> QED  BY <1>1, SquashTypes, PTL

\* No step of a worker, superseded or not, puts a squash in the place of work that
\* somebody else has pushed: what a push replaces at the remote is none, the base,
\* the same commit, or the one the lease of the push names.
LEMMA StepKeepsWork ==
    ASSUME SquashInv, [Next]_vars, OthersWork(branch)
    PROVE  branch'.tree = 0
<1>1. CASE UNCHANGED branch
  BY <1>1 DEF OthersWork
<1>2. ASSUME NEW w \in Workers, GitPush(w) \/ PushBreaks(w)
      PROVE  branch'.tree = 0
  <2>1. branch \notin Squashes /\ branch # Base /\ NoCommit \in Squashes
    BY DEF OthersWork, Squashes, Base, NoCommit, Commits, Commit
  <2>2. my[w].sha \in Squashes /\ my[w].expect \in Squashes
    BY DEF SquashInv, WorkersOK, Locals
  <2>3. ~Accepted(w)
    BY <2>1, <2>2 DEF Accepted, IsAncestor
  <2> QED  BY <1>1, <1>2, <2>3 DEF GitPush, PushBreaks
<1>3. CASE Decide \/ ForeignPush
  BY <1>1, <1>3 DEF Decide, ForeignPush, OthersWork, Commit, NoCommit, Base
<1> QED
  BY <1>1, <1>2, <1>3
     DEF Next, vars, hostVars, Start, PublishStep, PublishTrouble, ReadJob, Squash,
         OnPushed, LookUp, LookUpFails, CreatePR, CreateBreaks, RecordPR, Announce,
         Dies, Lapses, Poller, PollHost, StampPR, ApplyPoll, Human, Rework, Push,
         Repush, Resume

\* open_draft_pr(): whoever publishes, and however often, work that others have
\* pushed to the job's branch is not replaced; also after a squash that somebody
\* has amended was adopted.
THEOREM NeverReplaced == Spec => ForeignKept
<1>1. Spec => []SquashInv
  BY Initially, Inductive, PTL DEF Spec
<1>2. SquashInv /\ [Next]_vars => [OthersWork(branch) => branch'.tree = 0]_vars
  BY StepKeepsWork
<1> QED  BY <1>1, <1>2, PTL DEF Spec, ForeignKept

-----------------------------------------------------------------------------
(* Which pull request a job names.  The host has at most one open pull        *)
(* request of a branch.  While nobody writes without the lease, the metadata  *)
(* changes only by the holder's record, so what the holder read is what there *)
(* is; and it makes a pull request only where the metadata names none that is *)
(* not flagged closed.                                                        *)

HostInv ==
    /\ \A i, j \in OpenPRs : i = j
    /\ poll.step # "none" => poll.number \in DOMAIN prs /\ poll.result = prs[poll.number]
    /\ pr.state # "none" => pr.number \in DOMAIN prs /\ pr.state = prs[pr.number]

Live == pr.number > 0 /\ pr.state # "closed"

OnlyOpen(n) == OpenPRs \subseteq {n}

\* The holder of the lease and the pull request it works for.
HolderOK(w) ==
    /\ status \notin Polled
    /\ pc[w] # "off"
    /\ ~stale =>
        /\ pc[w] \in {"squash", "push", "pushed", "lookup"} => my[w].pr = pr
        /\ pc[w] = "create" => ~Live
        /\ pc[w] = "record" => OnlyOpen(my[w].number)
        /\ pc[w] = "announce" => OnlyOpen(pr.number)

NamingInv ==
    /\ HostInv
    /\ status # "conflicted"
    /\ \A w \in Workers : owner = w => HolderOK(w)
    /\ ~stale => (Live \/ status = "ready_for_review" => OnlyOpen(pr.number))

Creates == \E w \in Workers : CreatePR(w) \/ CreateBreaks(w)

\* Pull requests are decided once, and made only where none is open.
LEMMA HostStep ==
    ASSUME SquashInv, HostInv, [Next]_vars
    PROVE  /\ HostInv'
           /\ DOMAIN prs \subseteq DOMAIN prs'
           /\ \A n \in DOMAIN prs : prs[n] # "open" => prs'[n] = prs[n]
           /\ OpenPRs' \subseteq OpenPRs \/ Creates
<1> DEFINE Goes == /\ DOMAIN prs \subseteq DOMAIN prs'
                   /\ \A n \in DOMAIN prs : prs[n] # "open" => prs'[n] = prs[n]
                   /\ \A i, j \in OpenPRs' : i = j
                   /\ OpenPRs' \subseteq OpenPRs \/ Creates
<1>1. prs \in Seq({"open", "merged", "closed"}) /\ DOMAIN prs = 1..Len(prs) /\ Len(prs) \in Nat
  BY LenProperties DEF SquashInv, HostOK
<1>2. Goes
  <2>1. CASE prs' = prs
    BY <2>1 DEF HostInv, OpenPRs
  <2>2. CASE Creates /\ OpenPRs = {} /\ prs' = Append(prs, "open")
    <3>1. /\ DOMAIN prs' = 1..(Len(prs) + 1)
          /\ \A n \in 1..Len(prs) : prs'[n] = prs[n]
          /\ prs'[Len(prs) + 1] = "open"
      <4>1. /\ prs' \in Seq({"open", "merged", "closed"}) /\ Len(prs') = Len(prs) + 1
            /\ \A n \in 1..Len(prs) : prs'[n] = prs[n]
            /\ prs'[Len(prs) + 1] = "open"
        BY <1>1, <2>2, AppendProperties
      <4> QED  BY <4>1, LenProperties
    <3>2. \A i \in OpenPRs' : i = Len(prs) + 1
      <4>1. \A n \in 1..(Len(prs) + 1) : n \in 1..Len(prs) \/ n = Len(prs) + 1
        BY <1>1
      <4> QED  BY <1>1, <2>2, <3>1, <4>1 DEF OpenPRs
    <3> QED  BY <1>1, <2>2, <3>1, <3>2
  <2>3. CASE Decide
    <3>1. PICK n \in OpenPRs, outcome \in {"merged", "closed"} :
             prs' = [prs EXCEPT ![n] = outcome]
      BY <2>3 DEF Decide
    <3>2. DOMAIN prs' = DOMAIN prs /\ OpenPRs' \subseteq OpenPRs
      BY <3>1 DEF OpenPRs
    <3> QED  BY <3>1, <3>2 DEF HostInv, OpenPRs
  <2> QED
    BY <2>1, <2>2, <2>3
       DEF Next, vars, hostVars, Creates, Start, PublishStep, PublishTrouble, ReadJob,
           Squash, GitPush, PushBreaks, OnPushed, LookUp, LookUpFails, CreatePR,
           CreateBreaks, RecordPR, Announce, Dies, Lapses, Poller, PollHost, StampPR,
           ApplyPoll, Human, Rework, Push, Repush, Resume, ForeignPush
<1>3. poll.step # "none" => poll.number \in DOMAIN prs' /\ poll.result = prs'[poll.number]
  <2>1. poll.step # "none" => poll.result # "open"
    BY DEF SquashInv, PollOK
  <2> QED  BY <1>2, <2>1 DEF HostInv
<1>4. pr.state # "none" => pr.number \in DOMAIN prs' /\ pr.state = prs'[pr.number]
  <2>1. pr.state # "none" => pr.state # "open"
    BY DEF SquashInv, MetaOK, SquashRecords
  <2> QED  BY <1>2, <2>1 DEF HostInv
<1> HIDE DEF Goes
<1>5. CASE poll' = poll /\ pr' = pr
  BY <1>2, <1>3, <1>4, <1>5 DEF HostInv, Goes
<1>6. ASSUME NEW w \in Workers, RecordPR(w)
      PROVE  HostInv'
  <2>1. pr'.state = "none" /\ poll' = poll
    BY <1>6 DEF RecordPR, RecordOf
  <2> QED  BY <1>2, <1>3, <2>1 DEF HostInv, Goes
<1>7. CASE PollHost
  <2>1. pr.number \in DOMAIN prs /\ prs' = prs /\ pr' = pr
    BY <1>1, <1>7 DEF PollHost, metaVars, hostVars, SquashInv, MetaOK, SquashRecords
  <2>2. poll'.number = pr.number /\ poll'.result = prs[pr.number]
    BY <1>7 DEF PollHost
  <2> QED  BY <1>2, <1>4, <2>1, <2>2 DEF HostInv, Goes
<1>8. CASE StampPR
  <2>1. CASE status \in Polled /\ pr.number = poll.number
    <3>1. /\ pr' = [pr EXCEPT !.state = poll.result]
          /\ poll' = [poll EXCEPT !.step = "apply"] /\ poll.step # "none"
      BY <1>8, <2>1 DEF StampPR
    <3>2. pr'.number = poll.number /\ pr'.state = poll.result
      BY <2>1, <3>1 DEF SquashInv, MetaOK, SquashRecords
    <3>3. poll'.number = poll.number /\ poll'.result = poll.result
      BY <3>1 DEF SquashInv, PollOK
    <3> QED  BY <1>2, <1>3, <3>1, <3>2, <3>3 DEF HostInv, Goes
  <2>2. CASE ~(status \in Polled /\ pr.number = poll.number)
    BY <1>2, <1>4, <1>8, <2>2 DEF StampPR, NoPoll, HostInv, Goes
  <2> QED  BY <2>1, <2>2
<1>9. CASE ApplyPoll
  BY <1>2, <1>4, <1>9 DEF ApplyPoll, metaVars, NoPoll, HostInv, Goes
<1>10. HostInv'
  BY <1>5, <1>6, <1>7, <1>8, <1>9
     DEF Next, vars, metaVars, Start, PublishStep, PublishTrouble, ReadJob,
         Squash, GitPush, PushBreaks, OnPushed, LookUp, LookUpFails, CreatePR,
         CreateBreaks, Announce, Dies, Lapses, Poller, Human, Rework, Push, Repush,
         Resume, Decide, ForeignPush
<1> QED  BY <1>2, <1>10 DEF Goes

\* A step by which, as long as nobody writes without the lease, nothing happens
\* to the record and no pull request comes up.
Quiet == ~stale' => ~stale /\ pr' = pr /\ OpenPRs' \subseteq OpenPRs

\* The holder keeps its place and its variables, unless it loses the lease.
HolderRests ==
    \A w \in Workers : owner' = w => owner = w /\ pc'[w] = pc[w] /\ my'[w] = my[w]

LEMMA QuietKeeps ==
    ASSUME NamingInv, HostInv', Quiet, HolderRests,
           status' = status \/ status' \notin Polled
    PROVE  NamingInv'
<1>1. status' # "conflicted" /\ (status' = "ready_for_review" => status = "ready_for_review")
  BY DEF NamingInv, Polled
<1>2. ASSUME NEW w \in Workers, owner' = w
      PROVE  HolderOK(w)'
  <2>1. HolderOK(w) /\ pc'[w] = pc[w] /\ my'[w] = my[w]
    BY <1>2 DEF NamingInv, HolderRests
  <2>2. status' \notin Polled
    BY <2>1 DEF HolderOK
  <2>3. \A n : ~stale' /\ OnlyOpen(n) => OnlyOpen(n)'
    BY DEF Quiet, OnlyOpen
  <2>4. ~stale' /\ ~Live => ~Live'
    BY DEF Quiet, Live
  <2>5. ASSUME ~stale'
        PROVE  /\ pc'[w] \in {"squash", "push", "pushed", "lookup"} => my'[w].pr = pr'
               /\ pc'[w] = "create" => ~Live'
               /\ pc'[w] = "record" => OnlyOpen(my[w].number)'
               /\ pc'[w] = "announce" => OnlyOpen(pr.number)'
    BY <2>1, <2>3, <2>4, <2>5 DEF HolderOK, Quiet
  <2> QED  BY <2>1, <2>2, <2>5 DEF HolderOK
<1>3. ~stale' => (Live' \/ status' = "ready_for_review" => OnlyOpen(pr.number)')
  BY <1>1 DEF NamingInv, Quiet, OnlyOpen, Live
<1> QED  BY <1>1, <1>2, <1>3 DEF NamingInv

LEMMA OthersRest ==
    ASSUME SquashInv, NEW w \in Workers, Start(w) \/ PublishStep(w) \/ PublishTrouble(w),
           NEW v \in Workers, v # w
    PROVE  pc'[v] = pc[v] /\ my'[v] = my[v]
<1>1. my \in [Workers -> Locals(Len(prs))] /\ pc \in [Workers -> PublishSteps]
  BY DEF SquashInv, WorkersOK
<1>2. CASE Leaves(w)
  BY <1>1, <1>2 DEF Leaves
<1>3. CASE UNCHANGED my /\ \E step : Goto(w, step)
  BY <1>1, <1>3 DEF Goto
<1>4. CASE (\E n : Found(w, n)) /\ \E step : Goto(w, step)
  BY <1>1, <1>4 DEF Goto, Found
<1>5. CASE ReadJob(w) \/ Squash(w) \/ GitPush(w)
  BY <1>1, <1>2, <1>5
     DEF ReadJob, Squash, GitPush, Goto, Keep, Fails, Ends
<1>6. CASE Start(w) \/ OnPushed(w) \/ RecordPR(w)
  BY <1>3, <1>6 DEF Start, OnPushed, RecordPR
<1>7. CASE LookUp(w) \/ LookUpFails(w)
  BY <1>4, <1>7 DEF LookUp, LookUpFails
<1>8. CASE CreatePR(w)
  BY <1>2, <1>4, <1>8 DEF CreatePR, Fails, Ends
<1>9. CASE PushBreaks(w) \/ CreateBreaks(w) \/ Dies(w) \/ Announce(w)
  BY <1>2, <1>9 DEF PushBreaks, CreateBreaks, Dies, Announce, Fails, Ends
<1> QED  BY <1>5, <1>6, <1>7, <1>8, <1>9 DEF PublishStep, PublishTrouble

\* A worker that ends, and makes no pull request.
LEMMA LeavingNames ==
    ASSUME SquashInv, NamingInv, HostInv', NEW w \in Workers,
           PublishStep(w) \/ PublishTrouble(w), Leaves(w),
           status' = status \/ status' \notin Polled, Quiet
    PROVE  NamingInv'
<1>1. HolderRests
  <2> SUFFICES ASSUME NEW v \in Workers, owner' = v
               PROVE  owner = v /\ pc'[v] = pc[v] /\ my'[v] = my[v]
    BY DEF HolderRests
  <2>1. owner = v /\ v # w
    BY PublishAssumption DEF Leaves
  <2> QED  BY <2>1, OthersRest
<1> QED  BY <1>1, QuietKeeps

\* The holder of the lease goes on.
LEMMA HolderNames ==
    ASSUME SquashInv, NamingInv, HostInv', NEW w \in Workers, owner = w, owner' = w,
           PublishStep(w) \/ PublishTrouble(w), ~Leaves(w),
           status' = status, stale' = stale,
           OpenPRs' \subseteq OpenPRs \/ CreatePR(w)
    PROVE  NamingInv'
<1>1. HolderOK(w) /\ my[w] \in Locals(Len(prs)) /\ pc[w] \in PublishSteps
  BY DEF SquashInv, WorkersOK, NamingInv
<1>2. my \in [Workers -> Locals(Len(prs))] /\ pc \in [Workers -> PublishSteps]
  BY DEF SquashInv, WorkersOK
<1> DEFINE Named == /\ ~stale' /\ Live' => OnlyOpen(pr.number)'
                    /\ pc'[w] # "off"
                    /\ ~stale' =>
                        /\ pc'[w] \in {"squash", "push", "pushed", "lookup"} =>
                              my'[w].pr = pr'
                        /\ pc'[w] = "create" => ~Live'
                        /\ pc'[w] = "record" => OnlyOpen(my[w].number)'
                        /\ pc'[w] = "announce" => OnlyOpen(pr.number)'
<1>3. ASSUME ReadJob(w) \/ Squash(w) \/ GitPush(w) \/ OnPushed(w)
      PROVE  Named
  <2>1. pr' = pr /\ OpenPRs' = OpenPRs
    BY <1>3 DEF ReadJob, Squash, GitPush, OnPushed, metaVars, hostVars, OpenPRs
  <2>2. CASE ReadJob(w)
    <3>1. my'[w].pr = pr /\ pc'[w] = "squash"
      BY <1>2, <2>2 DEF ReadJob, Goto, NoLocals
    <3> QED  BY <2>1, <3>1 DEF Named, NamingInv, Live, OnlyOpen
  <2>3. CASE Squash(w)
    <3>1. my'[w].pr = my[w].pr /\ pc[w] = "squash" /\ pc'[w] = "push"
      BY <1>2, <2>3 DEF Squash, Goto, NoLocals, Fails, Ends
    <3> QED  BY <1>1, <2>1, <3>1 DEF Named, NamingInv, HolderOK, Live, OnlyOpen
  <2>4. CASE GitPush(w)
    <3>1. my'[w].pr = my[w].pr /\ pc[w] = "push" /\ pc'[w] = "pushed"
      BY <1>1, <1>2, <2>4 DEF GitPush, Goto, Keep, Locals, Fails, Ends
    <3> QED  BY <1>1, <2>1, <3>1 DEF Named, NamingInv, HolderOK, Live, OnlyOpen
  <2>5. CASE OnPushed(w)
    <3>1. my'[w].pr = my[w].pr /\ pc[w] = "pushed" /\ pc'[w] = "lookup"
      BY <1>2, <2>5 DEF OnPushed, Goto
    <3> QED  BY <1>1, <2>1, <3>1 DEF Named, NamingInv, HolderOK, Live, OnlyOpen
  <2> QED  BY <1>3, <2>2, <2>3, <2>4, <2>5
<1>4. ASSUME LookUp(w) \/ LookUpFails(w)
      PROVE  Named
  <2>1. pr' = pr /\ OpenPRs' = OpenPRs /\ pc[w] = "lookup"
    BY <1>4 DEF LookUp, LookUpFails, metaVars, hostVars, OpenPRs
  <2>2. ~stale => my[w].pr = pr
    BY <1>1, <2>1 DEF HolderOK
  <2>3. CASE Existing(w) /\ Found(w, my[w].pr.number) /\ Goto(w, "record")
    <3>1. my'[w].number = my[w].pr.number /\ pc'[w] = "record"
      BY <1>2, <2>3 DEF Found, Goto, NoLocals
    <3>2. ~stale => Live
      BY <2>2, <2>3 DEF Existing, Live
    <3> QED  BY <2>1, <2>2, <3>1, <3>2 DEF Named, NamingInv, Live, OnlyOpen
  <2>4. ASSUME NEW n \in OpenPRs, Found(w, n), Goto(w, "record")
        PROVE  Named
    <3>1. my'[w].number = n /\ pc'[w] = "record"
      BY <1>2, <2>4 DEF Found, Goto, NoLocals
    <3>2. OnlyOpen(n)
      BY <2>4 DEF OnlyOpen, NamingInv, HostInv
    <3> QED  BY <2>1, <3>1, <3>2 DEF Named, NamingInv, Live, OnlyOpen
  <2>5. CASE ~Existing(w) /\ Goto(w, "create")
    <3>1. pc'[w] = "create"
      BY <1>2, <2>5 DEF Goto
    <3>2. ~stale => ~Live
      BY <2>2, <2>5 DEF Existing, Live
    <3> QED  BY <2>1, <3>1, <3>2 DEF Named, NamingInv, Live, OnlyOpen
  <2> QED  BY <1>4, <2>3, <2>4, <2>5 DEF LookUp, LookUpFails
<1>5. ASSUME CreatePR(w)
      PROVE  Named
  <2>1. /\ prs' = Append(prs, "open") /\ OpenPRs = {} /\ pr' = pr /\ pc[w] = "create"
        /\ Found(w, Len(prs')) /\ Goto(w, "record")
    BY <1>5 DEF CreatePR, Fails, Ends
  <2>2. my'[w].number = Len(prs') /\ pc'[w] = "record"
    BY <1>2, <2>1 DEF Found, Goto, NoLocals
  <2>3. OnlyOpen(my[w].number)'
    <3>1. /\ prs \in Seq({"open", "merged", "closed"}) /\ Len(prs) \in Nat
          /\ DOMAIN prs = 1..Len(prs)
      BY LenProperties DEF SquashInv, HostOK
    <3>2. /\ prs' \in Seq({"open", "merged", "closed"}) /\ Len(prs') = Len(prs) + 1
          /\ \A n \in 1..Len(prs) : prs'[n] = prs[n]
          /\ prs'[Len(prs) + 1] = "open"
      BY <2>1, <3>1, AppendProperties
    <3>3. DOMAIN prs' = 1..(Len(prs) + 1)
      BY <3>2, LenProperties
    <3>4. \A n \in 1..(Len(prs) + 1) : n \in 1..Len(prs) \/ n = Len(prs) + 1
      BY <3>1
    <3>5. \A n \in OpenPRs' : n = Len(prs')
      BY <2>1, <3>1, <3>2, <3>3, <3>4 DEF OpenPRs
    <3> QED  BY <2>2, <3>5 DEF OnlyOpen
  <2>4. ~stale => ~Live
    BY <1>1, <2>1 DEF HolderOK
  <2> QED  BY <2>1, <2>2, <2>3, <2>4 DEF Named, Live
<1>6. ASSUME RecordPR(w)
      PROVE  Named
  <2>1. /\ pr' = RecordOf(w) /\ OpenPRs' = OpenPRs
        /\ pc[w] = "record" /\ pc'[w] = "announce"
    BY <1>2, <1>6 DEF RecordPR, Goto, hostVars, OpenPRs
  <2>2. pr'.number = my[w].number
    BY <2>1 DEF RecordOf
  <2> QED  BY <1>1, <2>1, <2>2 DEF Named, HolderOK, OnlyOpen
<1>7. Named
  <2>1. ~Announce(w) /\ ~Dies(w) /\ ~PushBreaks(w) /\ ~CreateBreaks(w)
    BY DEF Announce, Dies, PushBreaks, CreateBreaks, Fails, Ends
  <2> QED  BY <1>3, <1>4, <1>5, <1>6, <2>1 DEF PublishStep, PublishTrouble
<1>8. HolderOK(w)'
  BY <1>1, <1>7 DEF Named, HolderOK, Polled
<1>9. status' # "ready_for_review" /\ status' # "conflicted"
  BY <1>1 DEF HolderOK, Polled
<1> QED  BY <1>7, <1>8, <1>9 DEF Named, NamingInv

LEMMA WorkerNames ==
    ASSUME SquashInv, NamingInv, HostInv', NEW w \in Workers,
           PublishStep(w) \/ PublishTrouble(w),
           OpenPRs' \subseteq OpenPRs \/ CreatePR(w) \/ CreateBreaks(w)
    PROVE  NamingInv'
<1>1. stale \in BOOLEAN /\ owner \in Workers \cup {NoWorker} /\ NoWorker \notin Workers
  BY PublishAssumption DEF SquashInv, MetaOK, WorkersOK
<1>2. \A to, why : Ends(w, to, why) =>
         Leaves(w) /\ (status' = status \/ (status' = to /\ owner = w))
  BY DEF Ends, Move, rowVars
<1>3. Fails(w) => Leaves(w) /\ (status' = status \/ status' = "needs_human")
  BY <1>2 DEF Fails
<1>4. "needs_human" \notin Polled
  BY DEF Polled
<1>5. CASE Announce(w) /\ owner = w
  <2>1. /\ pc[w] = "announce" /\ Ends(w, "ready_for_review", "none")
        /\ UNCHANGED <<metaVars, hostVars>>
    BY <1>5 DEF Announce
  <2>2. owner' = NoWorker
    BY <1>5, <2>1 DEF Ends, Leaves
  <2>3. status' # "conflicted"
    BY <1>2, <2>1 DEF NamingInv
  <2>4. ~stale => OnlyOpen(pr.number)
    BY <1>5, <2>1 DEF NamingInv, HolderOK
  <2> QED  BY <1>1, <2>1, <2>2, <2>3, <2>4 DEF NamingInv, metaVars, hostVars, OnlyOpen,
           Live, OpenPRs
<1>6. CASE CreateBreaks(w) /\ owner = w
  <2>1. pc[w] = "create" /\ Fails(w) /\ pr' = pr /\ stale' = stale
    BY <1>1, <1>6 DEF CreateBreaks, NoteWrite
  <2>2. owner' = NoWorker
    BY <1>6, <2>1 DEF Fails, Ends, Leaves
  <2>3. status' \notin Polled
    BY <1>3, <1>4, <1>6, <2>1 DEF NamingInv, HolderOK
  <2>4. ~stale' => ~Live'
    BY <1>6, <2>1 DEF NamingInv, HolderOK, Live
  <2> QED  BY <1>1, <2>2, <2>3, <2>4 DEF NamingInv, Polled
<1>7. CASE Leaves(w) /\ ~(Announce(w) /\ owner = w) /\ ~(CreateBreaks(w) /\ owner = w)
  <2>1. status' = status \/ status' \notin Polled
    BY <1>2, <1>3, <1>4, <1>7
       DEF PublishStep, PublishTrouble, ReadJob, Squash, GitPush, PushBreaks, OnPushed,
           LookUp, LookUpFails, CreatePR, CreateBreaks, RecordPR, Announce, Dies, rowVars
  <2>2. Quiet
    <3>1. CASE owner # w /\ (GitPush(w) \/ PushBreaks(w) \/ CreatePR(w) \/ CreateBreaks(w)
                             \/ OnPushed(w) \/ RecordPR(w))
      BY <3>1
         DEF GitPush, PushBreaks, OnPushed, CreatePR, CreateBreaks, RecordPR, NoteWrite,
             Quiet, OpenPRs
    <3>2. CASE \/ ReadJob(w) \/ Squash(w) \/ LookUp(w) \/ LookUpFails(w) \/ Announce(w)
               \/ Dies(w)
      BY <3>2 DEF ReadJob, Squash, LookUp, LookUpFails, Announce, Dies, metaVars, hostVars,
         Quiet, OpenPRs
    <3>3. CASE owner = w /\ (GitPush(w) \/ PushBreaks(w))
      BY <1>1, <3>3 DEF GitPush, PushBreaks, NoteWrite, Quiet, OpenPRs
    <3>4. CASE owner = w /\ (OnPushed(w) \/ CreatePR(w) \/ RecordPR(w))
      <4>1. owner' = NoWorker
        BY <1>7, <3>4 DEF Leaves
      <4>2. CreatePR(w) /\ prs' = prs /\ pr' = pr /\ stale' = stale
        BY <1>1, <3>4, <4>1 DEF OnPushed, CreatePR, RecordPR
      <4> QED  BY <4>2 DEF Quiet, OpenPRs
    <3> QED  BY <1>7, <3>1, <3>2, <3>3, <3>4 DEF PublishStep, PublishTrouble
  <2> QED  BY <1>7, <2>1, <2>2, LeavingNames
<1>8. CASE ~Leaves(w)
  <2>1. /\ status' = status /\ owner' = owner
        /\ \/ ReadJob(w) \/ Squash(w) \/ GitPush(w) \/ OnPushed(w) \/ LookUp(w)
           \/ LookUpFails(w) \/ CreatePR(w) \/ RecordPR(w)
    BY <1>3, <1>8
       DEF PublishStep, PublishTrouble, ReadJob, Squash, GitPush, PushBreaks, OnPushed,
           LookUp, LookUpFails, CreatePR, CreateBreaks, RecordPR, Announce, Dies, Ends,
           Fails, rowVars
  <2>2. CASE owner = w
    <3>1. stale' = stale
      BY <1>1, <2>1, <2>2
         DEF ReadJob, Squash, GitPush, OnPushed, LookUp, LookUpFails, CreatePR, RecordPR,
             NoteWrite, metaVars
    <3>2. ~CreateBreaks(w)
      BY <1>3, <1>8 DEF CreateBreaks
    <3> QED  BY <1>8, <2>1, <2>2, <3>1, <3>2, HolderNames
  <2>3. CASE owner # w
    <3>1. HolderRests
      BY <2>1, <2>3, OthersRest DEF HolderRests
    <3>2. Quiet
      BY <2>1, <2>3
         DEF ReadJob, Squash, GitPush, OnPushed, LookUp, LookUpFails, CreatePR, RecordPR,
             NoteWrite, metaVars, hostVars, Quiet, OpenPRs
    <3> QED  BY <2>1, <3>1, <3>2, QuietKeeps
  <2> QED  BY <2>2, <2>3
<1> QED  BY <1>5, <1>6, <1>7, <1>8

LEMMA NamingStep ==
    ASSUME SquashInv, NamingInv, [Next]_vars
    PROVE  NamingInv'
<1>1. HostInv' /\ (OpenPRs' \subseteq OpenPRs \/ Creates)
  BY HostStep DEF NamingInv
<1>2. stale \in BOOLEAN /\ owner \in Workers \cup {NoWorker} /\ NoWorker \notin Workers
  BY PublishAssumption DEF SquashInv, MetaOK, WorkersOK
<1>3. ASSUME NEW w \in Workers, Start(w)
      PROVE  NamingInv'
  <2>1. /\ status = "publishing" /\ owner' = w /\ pc'[w] = "read"
        /\ UNCHANGED <<rowVars, metaVars, hostVars>>
    BY <1>3 DEF Start, Goto, SquashInv, WorkersOK
  <2>2. HolderOK(w)'
    BY <2>1 DEF HolderOK, Polled, rowVars
  <2> QED  BY <1>1, <2>1, <2>2 DEF NamingInv, rowVars, metaVars, hostVars, Live, OnlyOpen,
           OpenPRs
<1>4. ASSUME NEW w \in Workers, PublishStep(w) \/ PublishTrouble(w)
      PROVE  NamingInv'
  <2>1. OpenPRs' \subseteq OpenPRs \/ CreatePR(w) \/ CreateBreaks(w)
    BY <1>4
       DEF OpenPRs, PublishStep, PublishTrouble, ReadJob, Squash, GitPush, PushBreaks,
           OnPushed, LookUp, LookUpFails, RecordPR, Announce, Dies, hostVars
  <2> QED  BY <1>1, <1>4, <2>1, WorkerNames DEF NamingInv
<1>5. CASE Lapses
  <2>1. /\ owner' = NoWorker /\ UNCHANGED <<rowVars, metaVars, hostVars>>
    BY <1>5 DEF Lapses
  <2> QED  BY <1>1, <1>2, <2>1 DEF NamingInv, rowVars, metaVars, hostVars, Live, OnlyOpen,
           OpenPRs
<1>6. CASE StampPR
  <2>1. /\ UNCHANGED <<rowVars, owner, stale, prs, workerVars>>
        /\ pr' = pr \/ (status \in Polled /\ pr' = [pr EXCEPT !.state = poll.result]
                        /\ poll.step # "none" /\ pr.number = poll.number)
    BY <1>6 DEF StampPR, hostVars
  <2>2. CASE pr' = pr
    BY <1>1, <2>1, <2>2, QuietKeeps DEF Quiet, HolderRests, OpenPRs, rowVars, workerVars
  <2>3. CASE /\ status \in Polled /\ pr' = [pr EXCEPT !.state = poll.result]
             /\ poll.step # "none" /\ pr.number = poll.number
    <3>1. pr'.number = pr.number /\ pr'.state = poll.result
      BY <2>3 DEF SquashInv, MetaOK, SquashRecords
    <3>2. Live' => Live
      BY <2>3, <3>1 DEF NamingInv, HostInv, Live
    <3>3. \A w \in Workers : owner' # w
      BY <2>1, <2>3 DEF NamingInv, HolderOK
    <3> QED  BY <1>1, <2>1, <3>1, <3>2, <3>3 DEF NamingInv, rowVars, OnlyOpen, OpenPRs
  <2> QED  BY <2>1, <2>2, <2>3
<1>7. CASE PollHost \/ ApplyPoll \/ Human \/ UNCHANGED vars
  <2>1. UNCHANGED <<owner, metaVars, workerVars>>
    BY <1>7 DEF PollHost, ApplyPoll, Human, Rework, Push, Repush, Resume, Decide,
       ForeignPush, vars
  <2>2. OpenPRs' \subseteq OpenPRs
    <3>1. CASE prs' = prs
      BY <3>1 DEF OpenPRs
    <3>2. CASE Decide
      BY <3>2 DEF Decide, OpenPRs
    <3> QED  BY <1>7, <3>1, <3>2 DEF PollHost, ApplyPoll, Human, Rework, Push, Repush,
             Resume, ForeignPush, vars, hostVars
  <2>3. status' = status \/ status' \notin Polled
    <3>1. ApplyPoll => status' \in {status, "merged", "needs_human"}
      BY DEF ApplyPoll, Move, rowVars
    <3> QED  BY <1>7, <3>1 DEF PollHost, Human, Rework, Push, Repush, Resume, Decide,
             ForeignPush, vars, rowVars, Polled
  <2> QED  BY <1>1, <2>1, <2>2, <2>3, QuietKeeps DEF Quiet, HolderRests, metaVars, workerVars
<1> QED  BY <1>3, <1>4, <1>5, <1>6, <1>7 DEF Next, Poller

\* open_draft_pr(), the merge poll and the humans at the host: after any crash,
\* lost answer or failed lookup, an open pull request of a pushed job is the one
\* the job names, unless a worker without the lease went on writing.
THEOREM NamesWhatIsOpen == Spec => []NamesOpenPR
<1>1. Spec => []SquashInv
  BY Initially, Inductive, PTL DEF Spec
<1>2. Init => NamingInv
  <2> SUFFICES ASSUME Init PROVE NamingInv
    OBVIOUS
  <2>1. OpenPRs = {} /\ owner \notin Workers /\ poll.step = "none" /\ pr.state = "none"
    BY PublishAssumption DEF Init, OpenPRs, NoPoll, NoPR
  <2> QED  BY <2>1 DEF Init, NamingInv, HostInv, OnlyOpen
<1>3. SquashInv /\ NamingInv /\ [Next]_vars => NamingInv'
  BY NamingStep
<1>4. NamingInv => NamesOpenPR
  BY DEF NamingInv, NamesOpenPR, OnlyOpen
<1> QED  BY <1>1, <1>2, <1>3, <1>4, PTL DEF Spec

-----------------------------------------------------------------------------
(* Which commit is announced.  Commits are known by the verified commit whose *)
(* tree they have, and the head only grows: a worker that read the job        *)
(* earlier has an older tree, and it never expects a newer one at the remote  *)
(* than its own.                                                              *)

\* A worker that has put its commit on the branch.
HasPushed == {"pushed", "lookup", "create", "record", "announce"}

TreesOK(w) ==
    /\ pc[w] = "squash" => /\ my[w].pushed.tree <= my[w].tree
                           /\ my[w].pr.sha.tree <= my[w].tree
                           /\ my[w].tree <= head
    /\ pc[w] = "push" => my[w].expect.tree <= my[w].sha.tree
    /\ pc[w] \in HasPushed \cup {"push"} => my[w].sha.tree > 0 /\ my[w].sha.tree <= head

\* The head on the branch, or what others, and a superseded worker, made of it.
Carried ==
    /\ branch.tree > 0 => branch.tree = head \/ (stale /\ cleared)
    /\ branch = NoCommit \/ IsAncestor(branch) => cleared

\* The holder of the lease has the head, and has it on the branch.
OnBranch(w) ==
    /\ pc[w] = "squash" => my[w].tree = head
    /\ pc[w] = "push" => my[w].sha.tree = head
    /\ pc[w] \in HasPushed => Carried

TreeInv ==
    /\ pushedSha.tree <= head /\ pr.sha.tree <= head
    /\ \A w \in Workers : TreesOK(w) /\ (owner = w => OnBranch(w))

\* What a step of one worker leaves for another: the remote has a commit of
\* that worker, which expected no newer one, or what it had.
Overwrites(w) ==
    /\ pc[w] = "push" /\ Accepted(w)
    /\ branch' = my[w].sha /\ stale' = (stale \/ owner # w)

LEMMA HeadGrows ==
    ASSUME SquashInv, [Next]_vars
    PROVE  head' >= head /\ (head' = head \/ (owner = NoWorker /\ owner' = NoWorker))
<1>1. head \in Nat
  BY DEF SquashInv, RowOK
<1>2. CASE Push
  BY <1>1, <1>2 DEF Push
<1>3. head' = head \/ Push
  BY DEF Next, vars, rowVars, Start, PublishStep, PublishTrouble, ReadJob, Squash,
     GitPush, PushBreaks, OnPushed, LookUp, LookUpFails, CreatePR, CreateBreaks,
     RecordPR, Announce, Dies, Lapses, Poller, PollHost, StampPR, ApplyPoll, Human,
     Rework, Repush, Resume, Decide, ForeignPush, Ends, Fails, Move
<1> QED  BY <1>1, <1>2, <1>3

LEMMA StaleGrows ==
    ASSUME SquashInv, [Next]_vars
    PROVE  (stale => stale') /\ (cleared => cleared')
<1>1. stale => stale'
  BY DEF Next, vars, metaVars, NoteWrite, Start, PublishStep, PublishTrouble, ReadJob,
     Squash, GitPush, PushBreaks, OnPushed, LookUp, LookUpFails, CreatePR, CreateBreaks,
     RecordPR, Announce, Dies, Lapses, Poller, PollHost, StampPR, ApplyPoll, Human,
     Rework, Push, Repush, Resume, Decide, ForeignPush
<1>2. cleared' = cleared \/ cleared' = TRUE
  BY DEF Next, vars, hostVars, Start, PublishStep, PublishTrouble, ReadJob, Squash,
     GitPush, PushBreaks, OnPushed, LookUp, LookUpFails, CreatePR, CreateBreaks,
     RecordPR, Announce, Dies, Lapses, Poller, PollHost, StampPR, ApplyPoll, Human,
     Rework, Push, Repush, Resume, Decide, ForeignPush
<1> QED  BY <1>1, <1>2

\* Who writes the branch: workers, and others, who amend what there is, do work of
\* their own, or clear the branch.
LEMMA BranchWrites ==
    ASSUME SquashInv, [Next]_vars
    PROVE  \/ branch' = branch
           \/ \E w \in Workers : Overwrites(w) /\ (GitPush(w) \/ PushBreaks(w))
           \/ branch'.tree = 0 /\ cleared' /\ UNCHANGED workerVars
           \/ /\ branch'.by = "others" /\ branch'.tree \in {0, branch.tree}
              /\ UNCHANGED workerVars
<1>1. CASE Decide \/ ForeignPush
  BY <1>1 DEF Decide, ForeignPush, NoCommit, Base, Commit
<1>2. ASSUME NEW w \in Workers, GitPush(w) \/ PushBreaks(w)
      PROVE  branch' = branch \/ Overwrites(w)
  BY <1>2 DEF GitPush, PushBreaks, Overwrites, NoteWrite
<1> QED  BY <1>1, <1>2
         DEF Next, vars, hostVars, Start, PublishStep, PublishTrouble, ReadJob, Squash,
             OnPushed, LookUp, LookUpFails, CreatePR, CreateBreaks, RecordPR, Announce,
             Dies, Lapses, Poller, PollHost, StampPR, ApplyPoll, Human, Rework, Push,
             Repush, Resume

\* The branch of the holder, while others push, decide and clear it.
LEMMA HolderBranch ==
    ASSUME SquashInv, TreeInv, [Next]_vars, NEW v \in Workers, owner = v,
           owner' = v, pc'[v] = pc[v], my'[v] = my[v]
    PROVE  OnBranch(v)'
<1>1. head' = head
  BY HeadGrows, PublishAssumption
<1>2. (stale => stale') /\ (cleared => cleared')
  BY StaleGrows
<1>3. OnBranch(v)
  BY DEF TreeInv
<1>4. ASSUME pc[v] \in HasPushed
      PROVE  Carried'
  <2>0. Carried
    BY <1>3, <1>4 DEF OnBranch
  <2>1. CASE branch' = branch
    BY <1>1, <1>2, <2>0, <2>1 DEF Carried
  <2>2. ASSUME NEW w \in Workers, Overwrites(w), w # v
        PROVE  Carried'
    <3>1. TreesOK(w) /\ my[w] \in Locals(Len(prs)) /\ branch \in Commits /\ head \in Nat
      BY DEF TreeInv, SquashInv, WorkersOK, HostOK, RowOK
    <3>2. /\ branch' = my[w].sha /\ my[w].sha.tree > 0 /\ my[w].sha.tree <= head
          /\ my[w].expect.tree <= my[w].sha.tree /\ stale'
      BY <2>2, <3>1 DEF Overwrites, TreesOK
    <3>3. /\ my[w].sha.tree \in Nat /\ branch.tree \in Nat
          /\ my[w].expect # NoCommit => my[w].expect.tree > 0
      BY <3>1 DEF Locals, Squashes, Commits
    <3>4. branch' # NoCommit /\ ~IsAncestor(branch)'
      BY <3>2 DEF NoCommit, Base, IsAncestor, Commit
    <3>5. CASE branch = NoCommit \/ IsAncestor(branch)
      BY <1>2, <2>0, <3>2, <3>4, <3>5 DEF Carried
    <3>6. CASE branch = my[w].sha
      BY <1>1, <1>2, <2>0, <3>2, <3>6 DEF Carried
    <3>7. CASE branch = my[w].expect /\ my[w].expect # NoCommit
      <4>1. branch.tree = head \/ cleared
        BY <2>0, <3>3, <3>7 DEF Carried
      <4>2. branch.tree = head => my[w].sha.tree = head
        BY <3>1, <3>2, <3>3, <3>7
      <4> QED  BY <1>1, <1>2, <3>2, <3>4, <4>1, <4>2 DEF Carried
    <3> QED  BY <2>2, <3>5, <3>6, <3>7 DEF Overwrites, Accepted
  <2>3. ASSUME Overwrites(v), GitPush(v) \/ PushBreaks(v)
        PROVE  FALSE
    BY <1>4, <2>3 DEF Overwrites, HasPushed
  <2>4. CASE branch'.tree = 0 /\ cleared'
    BY <2>4 DEF Carried
  <2>5. CASE branch'.by = "others" /\ branch'.tree \in {0, branch.tree}
    <3>1. branch' # NoCommit /\ ~IsAncestor(branch)'
      BY <2>5 DEF NoCommit, Base, IsAncestor, Commit
    <3> QED  BY <1>1, <1>2, <2>0, <2>5, <3>1 DEF Carried
  <2> QED  BY <2>1, <2>2, <2>3, <2>4, <2>5, BranchWrites
<1> QED  BY <1>1, <1>3, <1>4 DEF OnBranch

LEMMA RecordTrees ==
    ASSUME SquashInv, TreeInv, [Next]_vars
    PROVE  pushedSha'.tree <= head' /\ pr'.sha.tree <= head'
<1>1. /\ pushedSha.tree \in Nat /\ pr.sha.tree \in Nat /\ head \in Nat /\ head' \in Nat
      /\ head' >= head
  BY HeadGrows, Inductive DEF SquashInv, MetaOK, RowOK, SquashRecords, Squashes, Commits
<1>2. ASSUME NEW w \in Workers, OnPushed(w) \/ RecordPR(w)
      PROVE  pushedSha'.tree <= head' /\ pr'.sha.tree <= head'
  <2>1. pc[w] \in HasPushed /\ my[w].sha.tree \in Nat
    BY <1>2 DEF OnPushed, RecordPR, HasPushed, SquashInv, WorkersOK, Locals, Squashes, Commits
  <2>2. my[w].sha.tree <= head
    BY <2>1 DEF TreeInv, TreesOK
  <2>3. /\ pushedSha' = pushedSha \/ pushedSha' = my[w].sha
        /\ pr' = pr \/ pr'.sha = my[w].sha
    BY <1>2 DEF OnPushed, RecordPR, RecordOf
  <2>4. pushedSha.tree <= head /\ pr.sha.tree <= head
    BY DEF TreeInv
  <2>5. pushedSha'.tree <= head /\ pr'.sha.tree <= head
    BY <2>2, <2>3, <2>4
  <2>6. pushedSha'.tree \in Nat /\ pr'.sha.tree \in Nat
    BY <1>1, <2>1, <2>3
  <2> QED  BY <1>1, <2>5, <2>6
<1>3. CASE pushedSha' = pushedSha /\ pr'.sha = pr.sha
  BY <1>1, <1>3 DEF TreeInv
<1>4. CASE StampPR
  <2>1. pushedSha' = pushedSha /\ pr'.sha = pr.sha
    BY <1>4 DEF StampPR, SquashInv, MetaOK, SquashRecords
  <2> QED  BY <1>3, <2>1
<1> QED
  BY <1>2, <1>3, <1>4
     DEF Next, vars, metaVars, Start, PublishStep, PublishTrouble, ReadJob, Squash,
         GitPush, PushBreaks, LookUp, LookUpFails, CreatePR, CreateBreaks, Announce,
         Dies, Lapses, Poller, PollHost, ApplyPoll, Human, Rework, Push, Repush, Resume,
         Decide, ForeignPush

LEMMA TreesRest ==
    ASSUME SquashInv, TreeInv, [Next]_vars, NEW v \in Workers,
           pc'[v] = pc[v], my'[v] = my[v]
    PROVE  TreesOK(v)'
<1>1. /\ head \in Nat /\ head' \in Nat /\ head' >= head
  BY HeadGrows, Inductive DEF SquashInv, RowOK
<1>2. my[v].tree \in Nat /\ my[v].sha.tree \in Nat
  BY DEF SquashInv, WorkersOK, Locals, Squashes, Commits
<1>3. TreesOK(v)
  BY DEF TreeInv
<1> QED  BY <1>1, <1>2, <1>3 DEF TreesOK

\* A worker's own step.
LEMMA WorkerTrees ==
    ASSUME SquashInv, TreeInv, [Next]_vars, NEW w \in Workers,
           Start(w) \/ PublishStep(w) \/ PublishTrouble(w)
    PROVE  TreesOK(w)' /\ (owner' = w => OnBranch(w)')
<1>1. /\ my \in [Workers -> Locals(Len(prs))] /\ pc \in [Workers -> PublishSteps]
      /\ NoWorker \notin Workers
  BY PublishAssumption DEF SquashInv, WorkersOK
<1>2. head' = head
  BY DEF rowVars, Start, PublishStep, PublishTrouble, ReadJob, Squash, GitPush,
     PushBreaks, OnPushed, LookUp, LookUpFails, CreatePR, CreateBreaks, RecordPR,
     Announce, Dies, Ends, Fails, Move
<1>3. TreesOK(w) /\ (owner = w => OnBranch(w))
  BY DEF TreeInv
<1> DEFINE Fine == TreesOK(w)' /\ (owner' = w => OnBranch(w)')
<1>4. ASSUME Leaves(w) \/ Start(w)
      PROVE  Fine
  <2>1. pc'[w] \in {"off", "read"}
    BY <1>1, <1>4 DEF Leaves, Start, Goto
  <2> QED  BY <2>1 DEF TreesOK, OnBranch, HasPushed
<1>5. ASSUME ReadJob(w), ~Leaves(w)
      PROVE  Fine
  <2>1. /\ pc'[w] = "squash" /\ my'[w].tree = head /\ my'[w].pushed = pushedSha
        /\ my'[w].pr = pr
    BY <1>1, <1>5 DEF ReadJob, Goto, NoLocals
  <2>2. pushedSha.tree <= head /\ pr.sha.tree <= head /\ head \in Nat
    BY DEF TreeInv, SquashInv, RowOK
  <2> QED  BY <1>2, <2>1, <2>2 DEF TreesOK, OnBranch, HasPushed
<1>6. ASSUME Squash(w), ~Leaves(w)
      PROVE  Fine
  <2> DEFINE made == Commit("job", my[w].tree, squashes')
             sha == IF branch \notin Previous(w) /\ Equivalent(branch, made)
                    THEN branch ELSE made
             expect == IF branch = sha \/ IsAncestor(branch) THEN NoCommit ELSE branch
  <2>1. /\ my'[w].sha = sha /\ my'[w].expect = expect /\ MayReplace(w, sha)
        /\ pc[w] = "squash" /\ pc'[w] = "push"
    <3>1. pc[w] = "squash" /\ MayReplace(w, sha) /\ Goto(w, "push")
      BY <1>6 DEF Squash, Fails, Ends
    <3>2. my' = [my EXCEPT ![w] = [NoLocals EXCEPT
                    !.pr = my[w].pr, !.sha = sha, !.expect = expect]]
      BY <1>6, <3>1 DEF Squash
    <3>3. pc'[w] = "push"
      BY <1>1, <3>1 DEF Goto
    <3> HIDE DEF sha, expect
    <3>4. my'[w] = [NoLocals EXCEPT !.pr = my[w].pr, !.sha = sha, !.expect = expect]
      BY <1>1, <3>2
    <3>5. my'[w].sha = sha /\ my'[w].expect = expect
      BY <3>4 DEF NoLocals
    <3> QED  BY <3>1, <3>3, <3>5
  <2>2. sha.tree = my[w].tree
    BY DEF Commit, Equivalent
  <2> HIDE DEF sha, made
  <2>3. my[w].tree \in Nat /\ my[w].tree > 0 /\ my[w].tree <= head
    BY <1>1, <1>3, <2>1 DEF TreesOK, Locals, SquashInv, WorkersOK
  <2>4. expect.tree <= my[w].tree
    BY <1>3, <2>1, <2>3 DEF MayReplace, Previous, TreesOK, NoCommit, Commit
  <2>5. owner' = w => my[w].tree = head
    <3>1. owner' = owner
      BY <1>6, <2>1 DEF Squash, sha, made
    <3> QED  BY <1>3, <2>1, <3>1 DEF OnBranch
  <2> HIDE DEF expect
  <2> QED  BY <1>2, <2>1, <2>2, <2>3, <2>4, <2>5 DEF TreesOK, OnBranch, HasPushed
<1>7. ASSUME GitPush(w), ~Leaves(w)
      PROVE  Fine
  <2>1. /\ branch' = my[w].sha /\ pc[w] = "push" /\ pc'[w] = "pushed" /\ owner' = owner
        /\ my'[w].sha = my[w].sha
    BY <1>1, <1>7 DEF GitPush, Goto, Keep, Fails, Ends, Locals
  <2>2. my[w].sha.tree > 0 /\ my[w].sha.tree <= head
    BY <1>3, <2>1 DEF TreesOK
  <2>3. branch' # NoCommit /\ ~IsAncestor(branch)'
    BY <2>1, <2>2 DEF NoCommit, Base, IsAncestor, Commit
  <2>4. owner' = w => Carried'
    BY <1>2, <1>3, <2>1, <2>3 DEF OnBranch, Carried
  <2> QED  BY <1>2, <2>1, <2>2, <2>4 DEF TreesOK, OnBranch, HasPushed
<1>8. ASSUME OnPushed(w) \/ LookUp(w) \/ LookUpFails(w) \/ CreatePR(w) \/ RecordPR(w),
             ~Leaves(w)
      PROVE  Fine
  <2>1. /\ pc[w] \in HasPushed /\ pc'[w] \in HasPushed /\ owner' = owner
        /\ my'[w].sha = my[w].sha /\ branch' = branch
    <3>1. CASE OnPushed(w) \/ RecordPR(w)
      BY <1>1, <3>1 DEF OnPushed, RecordPR, Goto, HasPushed, hostVars
    <3>2. CASE LookUp(w) \/ LookUpFails(w)
      BY <1>1, <3>2 DEF LookUp, LookUpFails, Goto, Found, NoLocals, HasPushed, hostVars
    <3>3. CASE CreatePR(w)
      BY <1>1, <1>8, <3>3 DEF CreatePR, Goto, Found, NoLocals, HasPushed, Fails, Ends
    <3> QED  BY <1>8, <3>1, <3>2, <3>3
  <2>2. (stale => stale') /\ (cleared => cleared')
    BY StaleGrows
  <2> QED  BY <1>2, <1>3, <2>1, <2>2 DEF TreesOK, OnBranch, Carried, HasPushed
<1>9. PushBreaks(w) \/ CreateBreaks(w) \/ Dies(w) \/ Announce(w) => Leaves(w)
  BY DEF PushBreaks, CreateBreaks, Dies, Announce, Fails, Ends
<1> QED  BY <1>4, <1>5, <1>6, <1>7, <1>8, <1>9 DEF PublishStep, PublishTrouble

LEMMA TreeStep ==
    ASSUME SquashInv, TreeInv, [Next]_vars
    PROVE  TreeInv'
<1> SUFFICES ASSUME NEW v \in Workers
             PROVE  TreesOK(v)' /\ (owner' = v => OnBranch(v)')
  BY RecordTrees DEF TreeInv
<1>1. CASE Start(v) \/ PublishStep(v) \/ PublishTrouble(v)
  BY <1>1, WorkerTrees
<1>2. CASE pc'[v] = pc[v] /\ my'[v] = my[v] /\ (owner' = v => owner = v)
  BY <1>2, TreesRest, HolderBranch
<1>3. ASSUME NEW w \in Workers, w # v, Start(w) \/ PublishStep(w) \/ PublishTrouble(w)
      PROVE  pc'[v] = pc[v] /\ my'[v] = my[v] /\ (owner' = v => owner = v)
  <2>1. owner' \in {owner, w, NoWorker}
    BY <1>3 DEF Start, PublishStep, PublishTrouble, ReadJob, Squash, GitPush, PushBreaks,
       OnPushed, LookUp, LookUpFails, CreatePR, CreateBreaks, RecordPR, Announce, Dies,
       Ends, Fails, Leaves
  <2> QED  BY <1>3, <2>1, OthersRest, PublishAssumption
<1>4. CASE Lapses \/ Poller \/ Human \/ UNCHANGED vars
  <2>1. UNCHANGED workerVars /\ owner' \in {owner, NoWorker}
    BY <1>4 DEF Lapses, Poller, PollHost, StampPR, ApplyPoll, Human, Rework, Push,
       Repush, Resume, Decide, ForeignPush, vars
  <2> QED  BY <1>2, <2>1, PublishAssumption DEF workerVars
<1> QED  BY <1>1, <1>2, <1>3, <1>4 DEF Next

\* publish_job(): a job is announced with its verified commit on the branch, or
\* with what others have put there; a superseded worker's older commit passes
\* only where somebody deleted the branch, or put it back to the base.
THEOREM AnnouncesTheVerified == Spec => AnnouncedIsVerified
<1>1. Spec => []SquashInv
  BY Initially, Inductive, PTL DEF Spec
<1>2. Init => TreeInv
  <2> SUFFICES ASSUME Init PROVE TreeInv
    OBVIOUS
  <2>1. owner \notin Workers
    BY PublishAssumption DEF Init
  <2>2. pushedSha.tree = 0 /\ pr.sha.tree = 0 /\ head = 1 /\ \A w \in Workers : pc[w] = "off"
    BY DEF Init, NoPR, NoCommit, Commit
  <2> QED  BY <2>1, <2>2 DEF TreeInv, TreesOK, HasPushed
<1>3. SquashInv /\ TreeInv /\ [Next]_vars => TreeInv'
  BY TreeStep
<1>4. SquashInv /\ TreeInv /\ [Next]_vars =>
         [status = "publishing" /\ status' = "ready_for_review" /\ branch.tree > 0
          => branch.tree = head \/ (stale /\ cleared)]_vars
  <2> SUFFICES ASSUME SquashInv, TreeInv, Next, status = "publishing",
                      status' = "ready_for_review", branch.tree > 0
               PROVE  branch.tree = head \/ (stale /\ cleared)
    OBVIOUS
  <2>1. PICK w \in Workers : Announce(w) /\ owner = w
    BY DEF Next, rowVars, Start, PublishStep, PublishTrouble, ReadJob, Squash, GitPush,
       PushBreaks, OnPushed, LookUp, LookUpFails, CreatePR, CreateBreaks, RecordPR,
       Announce, Dies, Lapses, Poller, PollHost, StampPR, ApplyPoll, Human, Rework, Push,
       Repush, Resume, Decide, ForeignPush, Ends, Fails, Move
  <2>2. OnBranch(w) /\ pc[w] \in HasPushed
    BY <2>1 DEF TreeInv, Announce, HasPushed
  <2> QED  BY <2>2 DEF OnBranch, Carried
<1> QED  BY <1>1, <1>2, <1>3, <1>4, PTL DEF Spec, AnnouncedIsVerified
=============================================================================
