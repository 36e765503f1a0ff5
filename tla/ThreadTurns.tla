----------------------------- MODULE ThreadTurns -----------------------------
(* The turns of a group of threads, run by several processes (session.py,     *)
(* loop_body.py, thread_guard.py, tools/thread/handlers.py), and the wake     *)
(* schedulers of those that have one (threads/scheduler.py, gui/app.py).      *)
(*                                                                            *)
(* A turn takes the thread's lease, reads its inbox before each request to    *)
(* the provider, uses tools, and at its end gives back what it claimed.  The  *)
(* transactions at the end of a turn are one step here.  A process has at     *)
(* most one handler for a wake at a time.                                     *)
EXTENDS ThreadMail

CONSTANTS
    Schedulers,     \* processes with a wake scheduler
    Requests,       \* sets of paths that are claimed explicitly
    Edits,          \* sets of paths that a tool call writes
    Budget

BudgetKinds == {"turn", "send", "tool", "trouble"}

ASSUME TurnAssumption ==
    /\ Schedulers \subseteq Procs
    /\ Requests \subseteq SUBSET Paths
    /\ Edits \subseteq SUBSET Paths
    /\ \A ps \in Requests \cup Edits : IsFiniteSet(ps)
    /\ Budget \in [BudgetKinds -> Nat]

VARIABLES
    alive,      \* which processes run
    turn,       \* the turn of each process on each thread
    inbox,      \* the messages a turn has seen and not marked yet
    writing,    \* the paths the running tool call of a turn writes
    handlers,   \* wakes that are being delivered
    budget,
    bereft,     \* history: turns whose claims were taken, or ran out, as they wrote
    slipped     \* history: threads whose lease ran out under a turn

turnVars == <<alive, turn, inbox, writing, handlers, budget, bereft, slipped>>

vars == <<claimVars, mailVars, turnVars>>

\* check: it was claimed; go: the thread is idle here; turn: its turn runs;
\* over, back: what is to be written.
Handlers == [proc : Procs, wake : Nat, at : {"check", "go", "turn", "over", "back"}]

Init ==
    /\ ClaimInit
    /\ MailInit
    /\ alive = Procs
    /\ turn = [p \in Procs |-> [t \in Threads |-> "none"]]
    /\ inbox = [p \in Procs |-> [t \in Threads |-> {}]]
    /\ writing = [p \in Procs |-> [t \in Threads |-> {}]]
    /\ handlers = {}
    /\ budget = Budget
    /\ bereft = {}
    /\ slipped = {}

Spend(kind) ==
    /\ budget[kind] > 0
    /\ budget' = [budget EXCEPT ![kind] = @ - 1]

\* Turns that write under a claim of t that is in ids.
WritersUnder(ids) ==
    {w \in Turns : \E i \in ids :
        /\ claims[i].owner = w[2]
        /\ \E f \in writing[w[1]][w[2]] : Overlap(f, claims[i].path)}

-----------------------------------------------------------------------------
(* A turn.                                                                    *)

\* Mutant: nobody looks whether the lease was got.
MayBegin_Anyhow(p, t) ==
    /\ p \in alive /\ t \in members /\ turn[p][t] = "none"

MayBegin(p, t) ==
    /\ p \in alive /\ turn[p][t] = "none"
    /\ MayLease(p, t)

Begin(p, t) ==
    /\ MayBegin(p, t)
    /\ turn' = [turn EXCEPT ![p][t] = "begun"]
    /\ Leased(p, t)
    /\ UNCHANGED <<claimVars, msgs, alive, inbox, writing, bereft, slipped>>

UserTurn(p, t) == Begin(p, t) /\ Spend("turn") /\ UNCHANGED handlers

\* Before a request to the provider: a heartbeat, whose answer is not looked
\* at, and a look into the inbox.  A thread that was deleted gets neither.
Iterate(p, t) ==
    /\ turn[p][t] \in {"begun", "live"} /\ writing[p][t] = {}
    /\ turn' = [turn EXCEPT ![p][t] = IF Inbox(t) = {} THEN "live" ELSE "reading"]
    /\ inbox' = [inbox EXCEPT ![p][t] = Inbox(t)]
    /\ IF MayLease(p, t) THEN Leased(p, t) ELSE UNCHANGED <<lease, lapsed>>
    /\ UNCHANGED <<claimVars, msgs, alive, writing, handlers, budget, bereft, slipped>>

\* What was seen is marked delivered, and so is the wake for it.
Read(p, t) ==
    /\ turn[p][t] = "reading"
    /\ turn' = [turn EXCEPT ![p][t] = "live"]
    /\ msgs' = Delivered(inbox[p][t])
    /\ inbox' = [inbox EXCEPT ![p][t] = {}]
    /\ UNCHANGED <<claimVars, lease, lapsed, alive, writing, handlers, budget,
                   bereft, slipped>>

\* What a turn gives back.
Returned(p, t) == {i \in Owned(t) : claims[i].turn = <<p, t>>}

\* A turn is over: its claims and its lease are given back.
End(p, t) ==
    /\ turn[p][t] \in {"begun", "live"} /\ writing[p][t] = {}
    /\ IF turn[p][t] = "live" THEN UNCHANGED budget ELSE Spend("trouble")
    /\ turn' = [turn EXCEPT ![p][t] = "none"]
    /\ claims' = Ended(Returned(p, t), <<p, t>>)
    /\ Unleased(p, t)
    /\ handlers' = {IF h.proc = p /\ h.at = "turn" /\ msgs[h.wake].to = t
                    THEN [h EXCEPT !.at = "over"] ELSE h : h \in handlers}
    /\ UNCHANGED <<members, conflicts, msgs, alive, inbox, writing, bereft, slipped>>

-----------------------------------------------------------------------------
(* Tool calls of a live turn.                                                 *)

Idle(p, t) == turn[p][t] = "live" /\ writing[p][t] = {}

ToolFrame == UNCHANGED <<lease, lapsed, alive, turn, inbox, handlers, slipped>>

\* The owners of paths in dispute are told, one message each; a second message
\* to the same owner finds the wake of the first.
Notices(t, order) ==
    msgs \o [k \in DOMAIN order |->
        [Message(t, order[k].owner, msgs) EXCEPT !.wake =
            IF \E j \in 1..(k - 1) : order[j].owner = order[k].owner THEN "none" ELSE @]]

\* The guard of native writes: claim, then write; or tell the owners.
GuardedWrite(p, t) ==
    \E fs \in Edits :
        /\ Idle(p, t) /\ Spend("tool")
        /\ \/ /\ Granted(t, fs, <<p, t>>)
              /\ writing' = [writing EXCEPT ![p][t] = fs]
              /\ UNCHANGED msgs
           \/ /\ \E by \in [Disputed(t, fs) -> Active] :
                    /\ Refused(t, fs, by)
                    /\ \E order \in [1..Cardinality(NewConflicts(t, by)) -> NewConflicts(t, by)] :
                          /\ \A k, l \in DOMAIN order : order[k] = order[l] => k = l
                          /\ msgs' = Notices(t, order)
              /\ UNCHANGED writing
        /\ ToolFrame /\ UNCHANGED bereft

\* The tool call returns.
Written(p, t) ==
    /\ writing[p][t] # {}
    /\ writing' = [writing EXCEPT ![p][t] = {}]
    /\ bereft' = bereft \ {<<p, t>>}
    /\ UNCHANGED <<claimVars, msgs, budget>> /\ ToolFrame

ClaimPaths(p, t) ==
    \E ps \in Requests :
        /\ Idle(p, t) /\ Spend("tool")
        /\ \/ Granted(t, ps, <<p, t>>)
           \/ \E by \in [Disputed(t, ps) -> Active] : Refused(t, ps, by)
        /\ UNCHANGED <<msgs, writing, bereft>> /\ ToolFrame

\* Explicitly, whatever turn made them: all of them, or those at some paths.
ReleasePaths(p, t) ==
    /\ Idle(p, t) /\ Spend("tool")
    /\ Release(Owned(t)) \/ \E ps \in Requests : Release(Touching(t, ps))
    /\ UNCHANGED <<msgs, writing, bereft>> /\ ToolFrame

HandOffPaths(p, t) ==
    /\ Idle(p, t) /\ Spend("tool")
    /\ \E u \in members, ps \in Requests : HandOff(t, u, ps)
    /\ UNCHANGED <<msgs, writing, bereft>> /\ ToolFrame

OverrideConflict(p, t) ==
    /\ Idle(p, t) /\ Spend("trouble")
    /\ \E c \in {d \in conflicts : d.requester = t} :
          /\ Override(c)
          /\ bereft' = bereft \cup WritersUnder({c.claim} \cap DOMAIN claims)
    /\ UNCHANGED <<msgs, writing>> /\ ToolFrame

SendMessage(p, t) ==
    /\ Idle(p, t) /\ Spend("send")
    /\ \E u \in members : Send(t, u)
    /\ UNCHANGED <<claimVars, writing, bereft>> /\ ToolFrame

AcknowledgeMessage(p, t) ==
    /\ Idle(p, t) /\ Spend("tool")
    /\ \E k \in DOMAIN msgs :
          msgs[k].to = t /\ msgs[k].delivered /\ ~msgs[k].gone /\ Acknowledge(k)
    /\ UNCHANGED <<claimVars, writing, bereft>> /\ ToolFrame

-----------------------------------------------------------------------------
(* Wake schedulers.                                                           *)

HandlerFrame == UNCHANGED <<claimVars, alive, inbox, writing, bereft, slipped>>

\* A scheduler claims a wake and gives it to a thread of its pool.
Schedule(p) ==
    /\ p \in alive \cap Schedulers
    /\ \E k \in DOMAIN msgs :
          /\ \A h \in handlers : ~(h.proc = p /\ h.wake = k)
          /\ ClaimWake(k)
          /\ handlers' = handlers \cup {[proc |-> p, wake |-> k, at |-> "check"]}
    /\ UNCHANGED <<lease, lapsed, turn, budget>> /\ HandlerFrame

Goes(h, at) == handlers' = (handlers \ {h}) \cup {[h EXCEPT !.at = at]}

\* _run_thread_wake(): nothing to do for a thread that is gone; not now, if the
\* session is busy here.
Check(h) ==
    LET t == msgs[h.wake].to IN
    /\ h.at = "check"
    /\ Goes(h, IF t \notin members THEN "over"
               ELSE IF turn[h.proc][t] # "none" THEN "back" ELSE "go")
    /\ UNCHANGED <<mailVars, turn, budget>> /\ HandlerFrame

\* The session cannot be loaded.
CheckFails(h) ==
    /\ h.at = "check" /\ Spend("trouble")
    /\ Goes(h, "back")
    /\ UNCHANGED <<mailVars, turn>> /\ HandlerFrame

\* The turn begins when no other turn of the session runs here.  That the lease
\* is refused is an error of the turn, and the wake is over all the same.
WakeTurn(h) ==
    LET t == msgs[h.wake].to IN
    /\ h.at = "go"
    /\ \/ Begin(h.proc, t) /\ Goes(h, "turn") /\ UNCHANGED budget
       \/ /\ turn[h.proc][t] = "none" /\ MayRefuse(h.proc, t)
          /\ Goes(h, "over")
          /\ UNCHANGED <<mailVars, turn, budget>> /\ HandlerFrame

FinishHandler(h) ==
    /\ h.at = "over"
    /\ FinishWake(h.wake)
    /\ handlers' = handlers \ {h}
    /\ UNCHANGED <<lease, lapsed, turn, budget>> /\ HandlerFrame

RequeueHandler(h) ==
    /\ h.at = "back"
    /\ RequeueWake(h.wake)
    /\ handlers' = handlers \ {h}
    /\ UNCHANGED <<lease, lapsed, turn, budget>> /\ HandlerFrame

-----------------------------------------------------------------------------
(* Time and faults.                                                           *)

\* A handler of a process that runs is quick, unless something is wrong.
WakeAges(k) ==
    /\ Ages(k)
    /\ IF \E h \in handlers : h.wake = k THEN Spend("trouble") ELSE UNCHANGED budget
    /\ UNCHANGED <<claimVars, lease, lapsed, alive, turn, inbox, writing, handlers,
                   bereft, slipped>>

\* A turn renews its lease, unless its process is suspended.
LeaseLapses(t) ==
    /\ lease[t] # Nobody /\ t \notin lapsed
    /\ lapsed' = lapsed \cup {t}
    /\ LET holders == {p \in Procs : turn[p][t] # "none"} IN
       IF holders = {} THEN UNCHANGED <<budget, slipped>>
       ELSE Spend("trouble") /\ slipped' = slipped \cup {t}
    /\ UNCHANGED <<claimVars, msgs, lease, alive, turn, inbox, writing, handlers, bereft>>

\* The thread that renews the lease, as long as the turn has it.
Renew(p, t) ==
    /\ turn[p][t] # "none" /\ MayLease(p, t) /\ t \in lapsed
    /\ Leased(p, t)
    /\ UNCHANGED <<claimVars, msgs, turnVars>>

ClaimExpires(i) ==
    /\ Expire(i) /\ Spend("trouble")
    /\ bereft' = bereft \cup WritersUnder({i})
    /\ UNCHANGED <<mailVars, alive, turn, inbox, writing, handlers, slipped>>

\* A thread is deleted in some surface, whatever it does at the time.
DeleteThread(t) ==
    /\ t \in members /\ Spend("trouble")
    /\ Forget(t)
    /\ ForgetMail(t)
    /\ bereft' = bereft \cup WritersUnder(Owned(t))
    /\ UNCHANGED <<alive, turn, inbox, writing, handlers, slipped>>

\* A process dies.  What it claimed stays claimed, by a turn that is no more.
Crash(p) ==
    /\ p \in alive /\ Spend("trouble")
    /\ alive' = alive \ {p}
    /\ turn' = [turn EXCEPT ![p] = [t \in Threads |-> "none"]]
    /\ inbox' = [inbox EXCEPT ![p] = [t \in Threads |-> {}]]
    /\ writing' = [writing EXCEPT ![p] = [t \in Threads |-> {}]]
    /\ handlers' = {h \in handlers : h.proc # p}
    /\ lease' = [t \in Threads |-> IF lease[t] = p THEN Gone ELSE lease[t]]
    /\ claims' = [i \in DOMAIN claims |->
          IF claims[i].turn # NoTurn /\ claims[i].turn[1] = p
          THEN [claims[i] EXCEPT !.turn = NoTurn] ELSE claims[i]]
    /\ bereft' = {w \in bereft : w[1] # p}
    /\ UNCHANGED <<members, conflicts, msgs, lapsed, slipped>>

Restart(p) ==
    /\ p \notin alive
    /\ alive' = alive \cup {p}
    /\ UNCHANGED <<claimVars, mailVars, turn, inbox, writing, handlers, budget, bereft,
                   slipped>>

Next ==
    \/ \E p \in Procs, t \in Threads :
          \/ UserTurn(p, t) \/ Iterate(p, t) \/ Read(p, t) \/ End(p, t)
          \/ GuardedWrite(p, t) \/ Written(p, t)
          \/ ClaimPaths(p, t) \/ ReleasePaths(p, t) \/ HandOffPaths(p, t)
          \/ OverrideConflict(p, t)
          \/ SendMessage(p, t) \/ AcknowledgeMessage(p, t)
          \/ Renew(p, t)
    \/ \E p \in Procs : Schedule(p) \/ Crash(p) \/ Restart(p)
    \/ \E h \in handlers :
          \/ Check(h) \/ CheckFails(h) \/ WakeTurn(h)
          \/ FinishHandler(h) \/ RequeueHandler(h)
    \/ \E k \in DOMAIN msgs : WakeAges(k)
    \/ \E i \in DOMAIN claims : ClaimExpires(i)
    \/ \E t \in Threads : LeaseLapses(t) \/ DeleteThread(t)

Spec == Init /\ [][Next]_vars

-----------------------------------------------------------------------------
(* Safety.                                                                    *)

TypeOK ==
    /\ ClaimTypeOK
    /\ MailTypeOK
    /\ alive \subseteq Procs
    /\ turn \in [Procs -> [Threads -> {"none", "begun", "reading", "live"}]]
    /\ inbox \in [Procs -> [Threads -> SUBSET Nat]]
    /\ writing \in [Procs -> [Threads -> SUBSET Paths]]
    /\ handlers \subseteq Handlers
    /\ budget \in [BudgetKinds -> Nat]
    /\ bereft \subseteq Turns /\ slipped \subseteq Threads

\* Two threads never write the same file at a time, unless a claim was taken
\* from the one as it wrote (an override, a deletion, an hour gone by), or two
\* turns of it came to run at once.
WritesExclusive ==
    \A v, w \in Turns :
        /\ v[2] # w[2]
        /\ \E f \in writing[v[1]][v[2]], g \in writing[w[1]][w[2]] : Overlap(f, g)
        => {v, w} \cap bereft # {} \/ {v[2], w[2]} \cap slipped # {}

\* "the target thread's execution lease prevents overlapping turns"
\* (scheduler.py:20), unless it ran out under one.
OneTurn ==
    \A t \in Threads \ slipped : \A p, q \in Procs :
        turn[p][t] # "none" /\ turn[q][t] # "none" => p = q

\* "If an already-running turn consumed the message ... do not launch a
\* redundant synthetic turn" (coordinator.py:713): no wake is left for it.
WakeIsOwed ==
    \A k \in DOMAIN msgs : msgs[k].wake \in LiveWake => ~msgs[k].delivered

-----------------------------------------------------------------------------
(* Liveness.                                                                  *)

\* Turns go on and end, tool calls return, processes that died are started
\* again, schedulers poll and their handlers run, and time passes.
Fairness ==
    /\ \A p \in Procs, t \in Threads :
          /\ WF_vars(turn[p][t] = "begun" /\ Iterate(p, t))
          /\ WF_vars(Read(p, t))
          /\ WF_vars(turn[p][t] = "live" /\ End(p, t))
          /\ WF_vars(Written(p, t))
    /\ \A p \in Procs : WF_vars(Schedule(p)) /\ WF_vars(Restart(p))
    /\ \A p \in Procs : WF_vars(\E h \in handlers : h.proc = p /\
          (Check(h) \/ WakeTurn(h) \/ FinishHandler(h) \/ RequeueHandler(h)))
    /\ \A t \in Threads : WF_vars(lease[t] = Gone /\ LeaseLapses(t))
    /\ WF_vars(\E k \in DOMAIN msgs :
          (\A h \in handlers : h.wake # k) /\ WakeAges(k))

FairSpec == Spec /\ Fairness

Arrived(k) == k \in DOMAIN msgs /\ (msgs[k].delivered \/ msgs[k].gone)

Sends == 1..Budget["send"]

\* "Idle peers are automatically woken; busy peers receive it in live L3
\* coordination context" (tools/thread/handlers.py): every message is read.
MessagesArrive == \A k \in Sends : k \in DOMAIN msgs ~> Arrived(k)
=============================================================================
