---------------------------- MODULE ProposalReview ----------------------------
(***************************************************************************)
(* What the proposal service promises of one proposal, without requests,   *)
(* columns or timestamps written into rows: the proposal is in one stage,  *)
(* and every change of stage is one step, taken in a stage that allows it, *)
(* under a version that nobody else has used.  An admin's step is taken on *)
(* the version that the admin has seen.                                    *)
(***************************************************************************)
EXTENDS Naturals

CONSTANTS
  Admins,       \* reviewers
  Timeout,      \* how old a version must be before its work is taken over
  Resubmittable \* stages in which an applicant may submit again

VARIABLES
  stage,    \* where the proposal is in its life
  version,  \* increases with every change of stage, 0 before the first
  seen,     \* the version each admin has seen
  clock     \* the time

reviewVars == <<stage, version, seen, clock>>

Stages ==
  {"none", "pending", "rejected", "applying", "applyFailed", "applied",
   "removing", "removeFailed", "removed"}

ReviewInit ==
  /\ stage = "none"
  /\ version = 0
  /\ seen = [a \in Admins |-> 0]
  /\ clock = 1

\* A step from a stage in "from" to stage "to" under a new version.
Move(from, to) ==
  /\ stage \in from
  /\ stage' = to
  /\ version' \in Nat /\ version' > version
  /\ UNCHANGED <<seen, clock>>

\* A running attempt may be taken over only once its version is old.
Overdue == clock >= version + Timeout

Submit == Move({"none"} \cup Resubmittable, "pending")

Approve(a) == seen[a] = version /\ Move({"pending", "applyFailed"}, "applying")
TakeOver(a) == seen[a] = version /\ Overdue /\ Move({"applying"}, "applying")
Reject(a) == seen[a] = version /\ Move({"pending", "applyFailed"}, "rejected")
Reopen(a) == seen[a] = version /\ Move({"rejected"}, "pending")
FinishApply(a) ==
  seen[a] = version /\ Move({"applying"}, "applied")
FailApply(a) ==
  seen[a] = version /\ Move({"applying"}, "applyFailed")
Revoke(a) ==
  seen[a] = version /\ Move({"applied", "removeFailed"}, "removing")
TakeOverRemoval(a) ==
  seen[a] = version /\ Overdue /\ Move({"removing"}, "removing")
FinishRemoval(a) == seen[a] = version /\ Move({"removing"}, "removed")
FailRemoval(a) == seen[a] = version /\ Move({"removing"}, "removeFailed")

See(a) ==
  /\ seen' = [seen EXCEPT ![a] = version]
  /\ UNCHANGED <<stage, version, clock>>

Pass == clock' = clock + 1 /\ UNCHANGED <<stage, version, seen>>

ReviewNext ==
  \/ Submit
  \/ \E a \in Admins :
       \/ Approve(a) \/ TakeOver(a) \/ Reject(a) \/ Reopen(a)
       \/ FinishApply(a) \/ FailApply(a)
       \/ Revoke(a) \/ TakeOverRemoval(a) \/ FinishRemoval(a) \/ FailRemoval(a)
       \/ See(a)
  \/ Pass

ReviewSpec == ReviewInit /\ [][ReviewNext]_reviewVars
=============================================================================
