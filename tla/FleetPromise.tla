---------------------------- MODULE FleetPromise ----------------------------
(* What an operator may rely on while a run goes over its batches, without    *)
(* executions, nodes or messages: the run starts and leaves a batch only in   *)
(* this way, and only a command of a human changes it in any other.  What the *)
(* nodes make of a batch (fit) and when somebody decides (deciding) is up to  *)
(* the world: the actions read them and say nothing of their next values.     *)
EXTENDS Naturals

CONSTANT LastBatch

VARIABLES
    state,      \* of the run, as FleetStates names it
    batch,      \* the batch it is at
    fit,        \* the batch is over, and its failures are within the limits
    excused,    \* batches a human has let pass
    deciding    \* a command of a human is being carried out

promiseVars == <<state, batch, fit, excused, deciding>>

PromiseInit ==
    /\ state = "proposed" /\ batch = 1 /\ excused = {}
    /\ fit \in BOOLEAN /\ deciding = FALSE

Human ==
    /\ deciding
    /\ state' \in {"approved", "rejected", "expired", "cancelled", "running",
                   "paused", "rolling_back"}
    /\ \/ excused' = excused
       \/ \E b \in 1..LastBatch : excused' = excused \cup {b}
    /\ UNCHANGED batch

\* A run that was approved starts at the first batch.
At == IF state = "approved" THEN 1 ELSE batch

Start ==
    /\ state \in {"approved", "running"} /\ state' = "running"
    /\ batch' = At
    /\ UNCHANGED excused

Leave ==
    /\ state \in {"approved", "running"} /\ state' = "running"
    /\ fit \/ At \in excused
    /\ At < LastBatch /\ batch' = At + 1
    /\ UNCHANGED excused

Hold ==
    /\ state \in {"approved", "running"} /\ state' = "paused"
    /\ At \notin excused /\ batch' = At
    /\ UNCHANGED excused

Finish ==
    /\ state \in {"approved", "running"} /\ At = LastBatch
    /\ state' \in {"succeeded", "failed"} /\ batch' = At
    /\ UNCHANGED excused

Recover ==
    /\ state = "rolling_back" /\ state' \in {"rolled_back", "failed"}
    /\ UNCHANGED <<batch, excused>>

Rest == UNCHANGED <<state, batch, excused>>

PromiseNext == Human \/ Start \/ Leave \/ Hold \/ Finish \/ Recover \/ Rest

PromiseSpec == PromiseInit /\ [][PromiseNext]_promiseVars
=============================================================================
