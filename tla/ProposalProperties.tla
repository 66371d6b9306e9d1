-------------------------- MODULE ProposalProperties --------------------------
(***************************************************************************)
(* What must hold of the proposal service.                                 *)
(***************************************************************************)
EXTENDS ProposalLifecycle, FiniteSets

(***************************************************************************)
(* The three status columns of the row agree: only 8 of their 64           *)
(* combinations can be reached, whatever requests interleave.  Each        *)
(* operation writes one or two of the columns and guards on others, so     *)
(* one that wrote on a row it had not judged would break this.             *)
(***************************************************************************)
Coherent(row) ==
  /\ row.review \in {"pending", "rejected"} => row.apply = "not_started"
  /\ row.review = "approved" => row.apply # "not_started"
  /\ row.review = "removed" <=> row.remove = "removed"
  /\ row.remove # "not_started" => row.apply = "applied"
  /\ row.resource # None => row.apply = "applied"

StatusesCohere == proposal # None => Coherent(proposal)

(***************************************************************************)
(* The stage of the abstract lifecycle that a row stands for.              *)
(***************************************************************************)
StageOf(row) ==
  IF row = None THEN "none"
  ELSE IF row.review # "approved" THEN row.review
  ELSE IF row.apply = "applying" THEN "applying"
  ELSE IF row.apply = "failed" THEN "applyFailed"
  ELSE IF row.remove = "not_started" THEN "applied"
  ELSE IF row.remove = "removing" THEN "removing"
  ELSE "removeFailed"

ResubmittableStages ==
  CASE Policy = "any" ->
         {"pending", "rejected", "applyFailed", "applied", "removeFailed",
          "removed"}
    [] Policy = "rejected-only" -> {"rejected"}
    [] Policy = "rejected-or-removed" -> {"rejected", "removed"}

Review == INSTANCE ProposalReview WITH
  stage <- StageOf(proposal),
  version <- PreviousStamp,
  seen <- view,
  Resubmittable <- ResubmittableStages

(***************************************************************************)
(* Split into a read and a conditional write, with any number of requests  *)
(* in between, each operation still acts as one step on the row as it is   *)
(* when written, on the version its admin last loaded: the service         *)
(* implements the abstract lifecycle.                                      *)
(***************************************************************************)
ImplementsReview == Review!ReviewSpec

(***************************************************************************)
(* The reviewers' queues (SQL filters) list exactly the proposals that the *)
(* service would let an admin approve, or whose removal it would let an    *)
(* admin retry (checks in TypeScript): none is stuck unlisted, and none is *)
(* listed that the service would refuse.                                   *)
(***************************************************************************)
QueuesMatchOperations ==
  proposal # None =>
    /\ NeedsReview(proposal) <=> CanApprove(proposal)
    /\ Actionable(proposal) <=>
         \/ CanApprove(proposal)
         \/ CanRemove(proposal) /\ RetryingRemoval(proposal)

(***************************************************************************)
(* A submission is stored once per idempotency key, and each submission    *)
(* reset the proposal to pending exactly once, however often a client      *)
(* repeats the call and whatever is decided between its three steps.       *)
(***************************************************************************)
ProposedEntries == {i \in 1..Len(audit) : audit[i] = "proposed"}

KeySubmittedOnce ==
  /\ \A i, j \in 1..Len(submissions) :
       submissions[i].key = submissions[j].key /\ i # j
         => submissions[i].key = None
  /\ Cardinality(ProposedEntries) = Len(submissions)

(***************************************************************************)
(* A community application stays with its applicant and organization:      *)
(* everyone who ever submitted it created it, and an organization once     *)
(* named is never exchanged, with racing submissions and rejections.       *)
(***************************************************************************)
ApplicationStaysWithOwner ==
  [][SameActor /\ proposal # None =>
       /\ proposal'.createdBy = proposal.createdBy
       /\ proposal.org # None => proposal'.org = proposal.org
       /\ \A i \in 1..Len(submissions') :
            submissions'[i].by = proposal.createdBy]_<<proposal, submissions>>

(***************************************************************************)
(* A completed setup step stays completed, with its resource, until the    *)
(* application is rejected or submitted again: neither the heartbeat of an *)
(* abandoned run nor a retry takes it back, since a later release deletes  *)
(* what the completed steps name.                                          *)
(***************************************************************************)
CompletedStepSticks ==
  [][proposal # None =>
       \A s \in Steps :
         \/ proposal.steps[s].status # "completed"
         \/ proposal'.steps[s] = proposal.steps[s]
         \/ proposal'.review \in {"rejected", "pending"}]_proposal

(***************************************************************************)
(* The id of what a setup created is forgotten only when the proposal was  *)
(* removed first: with a resubmission policy no request can reset an       *)
(* applied proposal and orphan its resource.                               *)
(***************************************************************************)
AppliedResourceKept ==
  [][proposal # None =>
       \/ proposal.resource = None
       \/ proposal'.resource = proposal.resource
       \/ Policy = "rejected-or-removed"
          /\ proposal.review = "removed"]_proposal

(***************************************************************************)
(* A setup whose run has died does not stay hidden as "applying": it ends  *)
(* or comes into the reviewers' queue.                                     *)
(***************************************************************************)
Running(v) ==
  proposal # None /\ proposal.apply = "applying" /\ proposal.updatedAt = v

StallSurfaces ==
  \A v \in 1..MaxStamp :
    Running(v) ~> (~Running(v) \/ NeedsReview(proposal))

(***************************************************************************)
(* A run that still records progress is not taken over.  proposals.test.ts *)
(* states it: "keeps a run that is still recording progress out of the     *)
(* stalled queue" and expects approve to refuse.                           *)
(***************************************************************************)
RetryOnlyAfterSilence ==
  [][proposal # None /\ proposal.apply = "applying"
     /\ proposal' # proposal /\ proposal'.apply = "applying"
     /\ proposal'.updatedAt # proposal.updatedAt
       => ApplyStalled(proposal)]_proposal
=============================================================================
