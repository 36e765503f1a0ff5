----------------------------- MODULE JobLifecycle -----------------------------
(* What a durable job promises the human who owns it, whatever its workers,   *)
(* controllers and leases do: the job works on its own between gates, it      *)
(* leaves a gate only while a human decision is being carried out, a plan     *)
(* that needs approval is implemented only once approved, and what is pushed  *)
(* has passed the review gate.  JobPipeline implements it.                    *)
EXTENDS FiniteSets

CONSTANTS
    Gated           \* plans wait for a human's approval

VARIABLES
    stage,          \* the part of the pipeline the job is in
    approved,       \* its plan has been approved
    deciding        \* a human's command is being carried out

lifecycleVars == <<stage, approved, deciding>>

Stages == {"design", "build", "reviewed", "publish", "pushed", "merged",
           "cancelled"}

Over == {"merged", "cancelled"}

LifecycleInit ==
    /\ stage = "design"
    /\ approved = FALSE
    /\ deciding = FALSE

\* Decisions arrive and end at any time.
MayDecide == deciding' \in BOOLEAN

Decide == MayDecide /\ UNCHANGED <<stage, approved>>

Approve ==
    /\ stage = "design"
    /\ Gated => deciding
    /\ approved' = TRUE
    /\ MayDecide
    /\ UNCHANGED stage

Move(from, to) == stage \in from /\ stage' = to /\ MayDecide /\ UNCHANGED approved

\* The workers take the plan to a review, and a push to a pull request; a
\* sandbox that has to be set up again takes the job back to its start.
Implement == Move({"design"}, "build") /\ (Gated => approved)

SetUpAgain == Move({"build"}, "design")

Review == Move({"build"}, "reviewed")

Publish == Move({"publish"}, "pushed")

\* The host may merge the pull request of a pushed job.
Merge == Move({"pushed"}, "merged")

\* The rest is up to the human.
MoreWork == deciding /\ Move({"reviewed", "pushed"}, "build")

Push == deciding /\ Move({"reviewed", "pushed"}, "publish")

Cancel == deciding /\ Move(Stages \ Over, "cancelled")

LifecycleNext ==
    \/ Decide \/ Approve \/ Implement \/ SetUpAgain \/ Review \/ Publish
    \/ Merge \/ MoreWork \/ Push \/ Cancel

LifecycleSpec == LifecycleInit /\ [][LifecycleNext]_lifecycleVars
=============================================================================
