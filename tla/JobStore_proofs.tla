--------------------------- MODULE JobStore_proofs ----------------------------
(* What the tables of JobStates make of a row whose two columns agree, and    *)
(* what the status-writing transactions of JobStore make of the job's row:    *)
(* typed and with agreeing columns before, so after; and a terminal status    *)
(* stays.  Everything the processes do to the row is one of these.            *)
EXTENDS JobStore, TLAPS

USE DEF JobState, Steps, TERMINAL, NoState

\* Where a paused or failed job goes back to is a step of the pipeline.
LEMMA OriginIsStep ==
    ASSUME NEW s \in JobStatus \ TerminalStatuses, NEW reason,
           NEW c \in CoreStates, Agrees(s, reason, c)
    PROVE  OriginOf(c) \in Steps
BY DEF CoreStates, JobStatus, TerminalStatuses, Agrees, CoreStatesOf, Origins,
       OriginOf, StageStatuses, StageStatusState, SchedulingStatuses,
       FailureStatuses, WAITING

\* Rescheduling puts the job at a step, with no origin.
LEMMA RescheduledAtStep ==
    ASSUME NEW s \in JobStatus \ TerminalStatuses, NEW reason,
           NEW c \in CoreStates, Agrees(s, reason, c), NEW to
    PROVE  \E x \in Steps, n \in Nat : Rescheduled(c, to) = At(x, n)
<1>1. OriginOf(c) \in Steps /\ c.fix \in Nat
  BY OriginIsStep DEF CoreStates
<1>2. \A x : Landing(x, to) \in Steps
  BY DEF Landing, ResetsFixBudget
<1> QED
  BY <1>1, <1>2 DEF Rescheduled

\* A record at a step agrees with every status that goes with the step.
LEMMA AtAgrees ==
    ASSUME NEW x \in JobState \ {"needs_input", "failed"}, NEW n \in Nat
    PROVE  /\ At(x, n) \in CoreStates
           /\ At(x, n).state = x
           /\ Origins(At(x, n))
BY DEF At, Core, CoreStates, Origins

\* advance(): from a row whose columns agree, every status write that does not
\* revive a job leaves them in agreement.
LEMMA AdvanceAgrees ==
    ASSUME NEW s \in JobStatus, NEW reason,
           NEW c \in CoreStates, Agrees(s, reason, c),
           NEW to \in JobStatus, NEW r \in Reasons, NEW missing \in BOOLEAN,
           r \in GateReasons => to = "needs_human",
           s \in TerminalStatuses => to = s
    PROVE  /\ Advance(c, to, r, missing) \in CoreStates
           /\ Agrees(to, r, Advance(c, to, r, missing))
<1> DEFINE d == Advance(c, to, r, missing)
<1>1. c.fix \in Nat /\ (s \notin TerminalStatuses => OriginOf(c) \in Steps)
  BY OriginIsStep DEF CoreStates
<1>2. CASE to \in StageStatuses
  <2>1. d = At(StageStatusState(to), c.fix)
    BY <1>2 DEF Advance, StageStatuses, SchedulingStatuses, FailureStatuses
  <2>2. StageStatusState(to) \in JobState \ {"needs_input", "failed"}
    BY <1>2 DEF StageStatuses, StageStatusState
  <2>3. d \in CoreStates /\ d.state = StageStatusState(to) /\ Origins(d)
    BY <1>1, <2>1, <2>2, AtAgrees
  <2>4. CoreStatesOf(to) = {StageStatusState(to)} /\ to # "needs_human"
    BY <1>2 DEF CoreStatesOf, StageStatuses, SchedulingStatuses, FailureStatuses
  <2> QED
    BY <2>3, <2>4 DEF Agrees
<1> s \in TerminalStatuses => to \in StageStatuses
  BY DEF TerminalStatuses, StageStatuses
<1>3. CASE to \in SchedulingStatuses
  <2> s \in JobStatus \ TerminalStatuses
    BY <1>3 DEF StageStatuses, SchedulingStatuses
  <2>1. d = Rescheduled(c, to)
    BY <1>3 DEF Advance, StageStatuses, SchedulingStatuses, FailureStatuses
  <2>2. PICK x \in Steps, n \in Nat : d = At(x, n)
    BY <2>1, RescheduledAtStep
  <2>3. d \in CoreStates /\ d.state \in Steps /\ Origins(d)
    BY <2>2, AtAgrees
  <2>4. CoreStatesOf(to) = Steps /\ to # "needs_human"
    BY <1>3 DEF CoreStatesOf, StageStatuses, SchedulingStatuses, FailureStatuses
  <2> QED
    BY <2>3, <2>4 DEF Agrees
<1>4. CASE to = "needs_human" /\ r \in GateReasons
  <2>1. d = At(GateState(r), c.fix)
    BY <1>4 DEF Advance, StageStatuses, SchedulingStatuses, FailureStatuses
  <2>2. GateState(r) \in {"plan_review", "review_done", "pushed"}
        /\ (GateState(r) \in GateReasons => r = GateState(r))
    BY <1>4 DEF GateState, GateReasons
  <2>3. d \in CoreStates /\ d.state = GateState(r) /\ Origins(d)
    BY <1>1, <2>1, <2>2, AtAgrees
  <2>4. CoreStatesOf(to) = WAITING \cup {"pushed"}
    BY <1>4 DEF CoreStatesOf, StageStatuses, SchedulingStatuses, FailureStatuses
  <2> QED
    BY <2>2, <2>3, <2>4 DEF Agrees, WAITING
<1>5. CASE to \in {"needs_human", "conflicted"} /\ r \notin GateReasons
  <2> OriginOf(c) \in Steps
    BY <1>1, <1>5 DEF StageStatuses
  <2>1. d = Core("needs_input", OriginOf(c), NoState, c.fix)
    BY <1>5 DEF Advance, StageStatuses, SchedulingStatuses, FailureStatuses
  <2>2. d \in CoreStates /\ d.state = "needs_input" /\ Origins(d)
    BY <1>1, <2>1 DEF Core, CoreStates, Origins
  <2>3. "needs_input" \in CoreStatesOf(to) /\ "needs_input" \notin GateReasons
    BY <1>5 DEF CoreStatesOf, StageStatuses, SchedulingStatuses,
                FailureStatuses, WAITING, GateReasons
  <2> QED
    BY <2>2, <2>3 DEF Agrees
<1>6. CASE to \in FailureStatuses
  <2> OriginOf(c) \in Steps
    BY <1>1, <1>6 DEF StageStatuses, FailureStatuses
  <2>1. PICK x \in Steps : d = Core("failed", NoState, x, c.fix)
    BY <1>1, <1>6 DEF Advance, StageStatuses, SchedulingStatuses, FailureStatuses
  <2>2. d \in CoreStates /\ d.state = "failed" /\ Origins(d)
    BY <1>1, <2>1 DEF Core, CoreStates, Origins
  <2>3. "failed" \in CoreStatesOf(to) /\ to # "needs_human"
    BY <1>6 DEF CoreStatesOf, StageStatuses, SchedulingStatuses, FailureStatuses
  <2> QED
    BY <2>2, <2>3 DEF Agrees
<1> QED
  BY <1>2, <1>3, <1>4, <1>5, <1>6
     DEF JobStatus, StageStatuses, SchedulingStatuses, FailureStatuses

\* The status table never leaves its vocabulary, and ends where it should.
LEMMA StatusTableClosed ==
    ASSUME NEW s \in JobStatus
    PROVE  /\ StatusTransitions(s) \subseteq JobStatus
           /\ s \in TerminalStatuses => StatusTransitions(s) = {}
BY DEF JobStatus, StatusTransitions, TerminalStatuses, FailureStatuses, RetryTargets

\* transition(), for the targets of commands: the row the command writes agrees
\* again, and a core state at its end lets no command through.
CommandTargets == {"plan_review", "planning", "implementing", "review_done",
                   "pushing", "done"}

LEMMA CoreMoveAgrees ==
    ASSUME NEW c \in CoreStates, Origins(c),
           NEW target \in CommandTargets, CoreMoveAllowed(c, target)
    PROVE  /\ CoreMove(c, target) \in CoreStates
           /\ CoreMove(c, target).state = target
           /\ Origins(CoreMove(c, target))
           /\ c.state \notin TERMINAL
<1>1. c.state \notin TERMINAL
  BY DEF CoreMoveAllowed
<1>2. CASE c.state = "needs_input"
  <2>0. c.failedFrom = NoState
    BY <1>2 DEF Origins
  <2>1. CoreMove(c, target) = Core(target, NoState, NoState, c.fix)
    BY <1>2, <2>0 DEF CoreMove, Core
  <2> QED
    BY <1>1, <2>1 DEF Core, CoreStates, Origins, CommandTargets
<1>3. CASE c.state = "failed"
  <2>0. c.pausedFrom = NoState
    BY <1>3 DEF Origins
  <2>1. CoreMove(c, target) = Core(target, NoState, NoState, c.fix)
    BY <1>3, <2>0 DEF CoreMove, Core
  <2> QED
    BY <1>1, <2>1 DEF Core, CoreStates, Origins, CommandTargets
<1>4. CASE c.state \notin {"needs_input", "failed"}
  <2>1. c.fix \in Nat /\ target \in JobState \ {"needs_input", "failed"}
    BY DEF CoreStates, CommandTargets
  <2>2. \E n \in Nat : CoreMove(c, target) = At(target, n)
    BY <1>4, <2>1 DEF CoreMove
  <2> QED
    BY <1>1, <2>1, <2>2, AtAgrees
<1> QED
  BY <1>2, <1>3, <1>4

\* The status a command writes goes with the core state it moves to.
LEMMA LegacyStatusAgrees ==
    ASSUME NEW target \in CommandTargets
    PROVE  /\ LegacyStatus(target) \in JobStatus
           /\ target \in CoreStatesOf(LegacyStatus(target))
           /\ target \in CoreStatesOf("queued") \/ target # "implementing"
BY DEF CommandTargets, LegacyStatus, JobStatus, CoreStatesOf, StageStatuses,
       SchedulingStatuses, FailureStatuses, StageStatusState, WAITING

-----------------------------------------------------------------------------
RowOK == RowTypeOK /\ Agrees(status, attention, core)

\* What every step must do to the row.
RowKept == RowOK' /\ (status \in TerminalStatuses => status' = status)

\* A step that leaves status, reason and core alone.
LEMMA RowUntouched ==
    ASSUME RowOK, UNCHANGED <<status, attention, core>>,
           fresh' \subseteq Controllers, crashes' \in Nat
    PROVE  RowKept
BY DEF RowOK, RowKept, RowTypeOK

LEMMA RowUnchanged ==
    ASSUME RowOK, UNCHANGED rowVars
    PROVE  RowKept
BY RowUntouched DEF rowVars, RowOK, RowTypeOK

\* store.transition(), its fences passed.
LEMMA AdvanceToKeepsRow ==
    ASSUME RowOK, NEW to, NEW reason \in Reasons, NEW missing \in BOOLEAN,
           LegalMove(status, to), reason \in GateReasons => to = "needs_human",
           AdvanceTo(to, reason, missing)
    PROVE  RowKept
<1>1. to \in JobStatus /\ (status \in TerminalStatuses => to = status)
  BY StatusTableClosed DEF LegalMove, RowOK, RowTypeOK
<1>2. /\ Advance(core, to, reason, missing) \in CoreStates
      /\ Agrees(to, reason, Advance(core, to, reason, missing))
  BY <1>1, AdvanceAgrees DEF RowOK, RowTypeOK
<1> QED
  BY <1>1, <1>2 DEF AdvanceTo, WriteStatus, RowOK, RowTypeOK, RowKept

\* transition_core(), for the targets of commands.
LEMMA TransitionCoreKeepsRow ==
    ASSUME RowOK, NEW target \in CommandTargets, NEW queued \in BOOLEAN,
           TransitionCore(target, queued)
    PROVE  RowKept
<1> DEFINE to == CoreTargetStatus(target, queued)
           reason == IF target \in {"plan_review", "review_done"}
                     THEN target ELSE "none"
           next == IF core.state = target THEN core ELSE CoreMove(core, target)
<1>1. core \in CoreStates /\ Origins(core) /\ core.state \in CoreStatesOf(status)
  BY DEF RowOK, RowTypeOK, Agrees
<1>2. next \in CoreStates /\ Origins(next) /\ next.state = target
  BY <1>1, CoreMoveAgrees DEF TransitionCore
<1>3. /\ to \in JobStatus
      /\ target \in CoreStatesOf(to)
      /\ to = LegacyStatus(target) \/ to = "queued"
  BY LegacyStatusAgrees DEF CoreTargetStatus, JobStatus
<1>4. reason \in Reasons /\ (target \in GateReasons => reason = target)
  BY DEF Reasons, GateReasons, CommandTargets
<1>5. WriteStatus(to, reason, next)
  BY DEF TransitionCore
<1>6. Agrees(to, reason, next)
  BY <1>2, <1>3, <1>4 DEF Agrees
<1>7. status \in TerminalStatuses => to = status
  <2> SUFFICES ASSUME status \in TerminalStatuses PROVE to = status
    OBVIOUS
  <2>1. CoreStatesOf("cancelled") = {"cancelled"} /\ CoreStatesOf("merged") = {"done"}
    BY DEF CoreStatesOf, StageStatuses, StageStatusState, SchedulingStatuses,
           FailureStatuses
  <2>2. \/ status = "cancelled" /\ core.state = "cancelled"
        \/ status = "merged" /\ core.state = "done"
    BY <1>1, <2>1 DEF TerminalStatuses
  <2>3. core.state = target
    BY <1>1, <2>2, CoreMoveAgrees DEF TransitionCore, TERMINAL
  <2>4. target = "done" /\ status = "merged"
    BY <2>2, <2>3 DEF CommandTargets
  <2>5. CoreTargetStatus("done", queued) = "merged"
    BY DEF CoreTargetStatus, LegacyStatus, WAITING
  <2> QED
    BY <2>4, <2>5
<1> QED
  BY <1>2, <1>3, <1>4, <1>5, <1>6, <1>7
     DEF WriteStatus, RowOK, RowTypeOK, RowKept

\* set_fix_attempts().
LEMMA SetFixKeepsRow ==
    ASSUME RowOK, NEW n \in Nat, SetFixAttempts(n),
           UNCHANGED <<status, attention, crashes>>, fresh' \subseteq Controllers
    PROVE  RowKept
<1>1. /\ core' \in CoreStates
      /\ core'.state = core.state
      /\ core'.pausedFrom = core.pausedFrom
      /\ core'.failedFrom = core.failedFrom
  BY DEF SetFixAttempts, CoreStates, RowOK, RowTypeOK
<1>2. Agrees(status, attention, core')
  BY <1>1 DEF RowOK, Agrees, Origins
<1> QED
  BY <1>1, <1>2 DEF RowOK, RowTypeOK, RowKept
=============================================================================
