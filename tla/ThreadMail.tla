----------------------------- MODULE ThreadMail -----------------------------
(* Messages between threads, the wakes that make an idle thread read them,    *)
(* and the lease on a thread's turn (mu/threads/coordinator.py).              *)
(*                                                                            *)
(* A wake request belongs to the message it was made for, so its state is a   *)
(* field of the message; "none" when the message found a wake under way.      *)
EXTENDS ThreadClaims

CONSTANTS
    InboxLimit,     \* context_block(): limit of open_messages()
    Nobody,         \* no lease
    Gone            \* the lease of a process that has died

ASSUME MailAssumption ==
    /\ InboxLimit \in Nat
    /\ {Nobody, Gone} \cap Procs = {}
    /\ Gone # Nobody

VARIABLES
    msgs,       \* messages in the order they were sent
    lease,      \* who holds the execution lease of each thread
    lapsed      \* threads whose lease has run out

mailVars == <<msgs, lease, lapsed>>

WAKE_STATES == {"none", "pending", "claimed", "done"}

LiveWake == {"pending", "claimed"}

Messages == [from : Threads, to : Threads, delivered : BOOLEAN, acked : BOOLEAN,
             gone : BOOLEAN, wake : WAKE_STATES, old : BOOLEAN]

MailInit ==
    /\ msgs = <<>>
    /\ lease = [t \in Threads |-> Nobody]
    /\ lapsed = {}

-----------------------------------------------------------------------------
(* Messages.                                                                  *)

\* A message t sends u after `ms'; one wake for the target is enough.
Message(t, u, ms) ==
    [from |-> t, to |-> u, delivered |-> FALSE, acked |-> FALSE, gone |-> FALSE,
     wake |-> IF \E k \in DOMAIN ms : ms[k].to = u /\ ms[k].wake \in LiveWake
              THEN "none" ELSE "pending",
     old |-> FALSE]

\* send_message(); to oneself or out of the group it fails.
Send(t, u) ==
    /\ {t, u} \subseteq members /\ t # u
    /\ msgs' = Append(msgs, Message(t, u, msgs))

\* open_messages(): the oldest that are not acknowledged.
Inbox(t) ==
    LET open == {k \in DOMAIN msgs : msgs[k].to = t /\ ~msgs[k].acked /\ ~msgs[k].gone}
    IN  {k \in open : Cardinality({j \in open : j < k}) < InboxLimit}

\* mark_delivered(): their wakes are not needed any more.
Delivered(ids) ==
    [k \in DOMAIN msgs |->
        IF k \notin ids THEN msgs[k]
        ELSE [msgs[k] EXCEPT !.delivered = TRUE,
                             !.wake = IF @ \in LiveWake THEN "done" ELSE @,
                             !.old = FALSE]]

Acknowledge(k) == msgs' = [msgs EXCEPT ![k].acked = TRUE]

\* delete_thread(), as far as mail goes: its messages, wakes and lease.
ForgetMail(t) ==
    /\ msgs' = [k \in DOMAIN msgs |->
          [msgs[k] EXCEPT !.gone = @ \/ t \in {msgs[k].from, msgs[k].to},
                          !.wake = IF msgs[k].to = t THEN "none" ELSE @,
                          !.old = IF msgs[k].to = t THEN FALSE ELSE @]]
    /\ lease' = [lease EXCEPT ![t] = Nobody]
    /\ lapsed' = lapsed \ {t}

-----------------------------------------------------------------------------
(* Leases.                                                                    *)

\* Mutant: the row is inserted for a thread that is not there.
MayLease_AnyThread(p, t) == lease[t] \in {Nobody, p, Gone} \/ t \in lapsed

\* heartbeat() succeeds: nobody else has the lease, it has run out, or its
\* process is dead.
MayLease(p, t) == t \in members /\ (lease[t] \in {Nobody, p, Gone} \/ t \in lapsed)

\* It fails.  (Of a dead process it is not always known that it is dead.)
MayRefuse(p, t) ==
    t \notin members \/ (lease[t] \notin {Nobody, p} /\ t \notin lapsed)

Leased(p, t) == lease' = [lease EXCEPT ![t] = p] /\ lapsed' = lapsed \ {t}

\* release_execution_lease()
Unleased(p, t) ==
    IF lease[t] = p
    THEN lease' = [lease EXCEPT ![t] = Nobody] /\ lapsed' = lapsed \ {t}
    ELSE UNCHANGED <<lease, lapsed>>

-----------------------------------------------------------------------------
(* Wakes.                                                                     *)

\* claim_wake(): wakes claimed long ago are taken back; then the oldest whose
\* target exists and is in no turn is claimed.
Recovered ==
    [k \in DOMAIN msgs |->
        IF msgs[k].old THEN [msgs[k] EXCEPT !.wake = "pending", !.old = FALSE]
        ELSE msgs[k]]

Claimable ==
    {k \in DOMAIN msgs :
        /\ Recovered[k].wake = "pending" /\ msgs[k].to \in members
        /\ lease[msgs[k].to] = Nobody \/ msgs[k].to \in lapsed}

ClaimWake(k) ==
    /\ k \in Claimable /\ \A j \in Claimable : k <= j
    /\ msgs' = [Recovered EXCEPT ![k].wake = "claimed"]

\* finish_wake(), whatever has become of the wake.
FinishWake(k) ==
    msgs' = [msgs EXCEPT ![k].wake = IF @ = "none" THEN @ ELSE "done", ![k].old = FALSE]

\* Mutant: whatever has become of it.
RequeueWake_Always(k) ==
    msgs' = [msgs EXCEPT ![k].wake = IF @ = "none" THEN @ ELSE "pending", ![k].old = FALSE]

\* requeue_wake(), unless it is not claimed any more.
RequeueWake(k) ==
    msgs' = [msgs EXCEPT ![k].wake = IF @ = "claimed" THEN "pending" ELSE @, ![k].old = FALSE]

\* It was claimed half a minute ago.
Ages(k) ==
    /\ k \in DOMAIN msgs /\ msgs[k].wake = "claimed" /\ ~msgs[k].old
    /\ msgs' = [msgs EXCEPT ![k].old = TRUE]

\* The foreign keys of the journal hold as well.
MailTypeOK ==
    /\ msgs \in Seq(Messages)
    /\ lease \in [Threads -> Procs \cup {Nobody, Gone}]
    /\ lapsed \subseteq {t \in Threads : lease[t] # Nobody}
    /\ \A t \in Threads \ members :
          lease[t] = Nobody /\ \A k \in DOMAIN msgs : msgs[k].to = t => msgs[k].wake = "none"
=============================================================================
