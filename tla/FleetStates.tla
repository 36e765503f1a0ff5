----------------------------- MODULE FleetStates -----------------------------
(* The transition tables of mu/orchestration/states.py: a run over nodes, and *)
(* one execution (one step of one node, or the undoing of one).  Pure.        *)
EXTENDS Integers

NoState == "none"

RUN_STATES == {"proposed", "approved", "running", "paused", "rolling_back",
               "succeeded", "failed", "cancelled", "rejected", "rolled_back",
               "expired"}

RUN_ACTIVE == {"approved", "running", "rolling_back"}

RUN_TERMINAL == {"succeeded", "failed", "cancelled", "rejected",
                 "rolled_back", "expired"}

RUN_TRANSITIONS(s) ==
    CASE s = "proposed" -> {"approved", "rejected", "cancelled", "expired"}
      [] s = "approved" -> {"running", "cancelled"}
      [] s = "running"  -> {"paused", "succeeded", "failed", "cancelled",
                            "rolling_back"}
      [] s = "paused"   -> {"running", "cancelled", "rolling_back", "failed"}
      [] s = "rolling_back" -> {"rolled_back", "failed", "paused"}
      [] s \in {"succeeded", "failed"} -> {"rolling_back"}
      [] OTHER -> {}

EXEC_STATES == {"queued", "dispatched", "running", "succeeded", "failed",
                "timed_out", "cancelled", "unreachable", "refused", "skipped"}

EXEC_LIVE == {"queued", "dispatched", "running"}

EXEC_IN_FLIGHT == {"dispatched", "running"}

EXEC_TERMINAL == EXEC_STATES \ EXEC_LIVE

EXEC_TRANSITIONS(s) ==
    CASE s = "queued" -> {"dispatched", "cancelled", "unreachable", "skipped",
                          "failed"}
      [] s = "dispatched" -> {"running", "succeeded", "failed", "refused",
                              "timed_out", "cancelled", "unreachable", "queued"}
      [] s = "running" -> {"succeeded", "failed", "timed_out", "cancelled",
                           "unreachable", "queued"}
      [] OTHER -> {}

NODE_STATUS == {"active", "quarantined", "revoked"}

\* set_status(): where a node may be moved from; enrolment is not modelled.
StatusAllowedFrom(s) ==
    CASE s = "active"      -> {"quarantined"}
      [] s = "quarantined" -> {"active"}
      [] s = "revoked"     -> {"active", "quarantined"}
=============================================================================
