-------------------------- MODULE ProposalLifecycle --------------------------
(***************************************************************************)
(* The proposal service (plugins/proposals/src/services/proposals.ts) for  *)
(* one proposal, i.e. one (pluginId, entityId) pair.                       *)
(*                                                                         *)
(* Every operation of the service but recordApplyStep reads the row,       *)
(* decides on what it read, and later writes with                          *)
(* UPDATE ... WHERE updated_at = <what was read>.  The two halves are two  *)
(* actions here, Read... and Write..., so that any other request can come  *)
(* in between, and a server restart (Drop) can lose a request between      *)
(* them.  A refusal (BAD_REQUEST, FORBIDDEN, STALE_PROPOSAL) found while   *)
(* reading changes nothing and is a stuttering step.                       *)
(*                                                                         *)
(* Abstracted: payload text (its organization reference is kept), reasons, *)
(* error messages, ids, actor labels and the read-only queries other than  *)
(* the review queue filter.  Dates are natural numbers of clock ticks,     *)
(* 0 standing for SQL NULL.                                                *)
(***************************************************************************)
EXTENDS Naturals, Sequences

CONSTANTS
  Admins,      \* reviewers: they call everything but propose
  Applicants,  \* browsers and API clients that call propose
  Accounts,    \* the accounts they are signed in with
  Account,     \* the account of each
  Keys,        \* idempotency keys
  Orgs,        \* organizations a payload can refer to
  Steps,       \* names of setup steps
  Resources,   \* ids of what a setup creates
  None,        \* SQL NULL, an absent row, an omitted argument
  Policy,      \* the caller's resubmission policy, "any" when it sets none
  SameActor,   \* requireSameActor: TRUE exactly for the "node" plugin
  Timeout,     \* LIFECYCLE_TIMEOUT_MS in ticks
  MaxStamp,    \* bound: no row is written with a later updatedAt
  MaxAudit     \* bound: no setup step is audited beyond this length

Clients == Admins \cup Applicants

ReviewStatus == {"pending", "approved", "rejected", "removed"}
ApplyStatus == {"not_started", "applying", "applied", "failed"}
RemoveStatus == {"not_started", "removing", "removed", "failed"}
StepStatus == {"started", "waiting", "completed"}

Step == [status: StepStatus \cup {None}, resource: Resources \cup {None}]

\* The columns of the proposals table that steer the lifecycle.
Row ==
  [updatedAt: Nat, review: ReviewStatus, apply: ApplyStatus,
   remove: RemoveStatus, createdBy: Accounts, org: Orgs \cup {None},
   steps: [Steps -> Step], activityAt: Nat, resource: Resources \cup {None}]

\* NULL is neither a row nor an id.
ASSUME ConstantsAssumption ==
  /\ Account \in [Applicants -> Accounts]
  /\ Policy \in {"any", "rejected-only", "rejected-or-removed"}
  /\ SameActor \in BOOLEAN
  /\ Timeout \in Nat \ {0}
  /\ MaxStamp \in Nat
  /\ MaxAudit \in Nat
  /\ None \notin Row

AdminOps ==
  {"approve", "reject", "reopen", "remove", "markApplied", "markApplyFailed",
   "markRemoved", "markRemoveFailed"}

\* A request between its read and its write: the row it read, the timestamp
\* it will write, and for propose the idempotency key and organization.
Request ==
  [op: AdminOps \cup {"idle", "lookedUp", "propose", "record"},
   base: Row \cup {None}, stamp: Nat,
   key: Keys \cup {None}, org: Orgs \cup {None}]

Idle ==
  [op |-> "idle", base |-> None, stamp |-> 0, key |-> None, org |-> None]

Action ==
  {"proposed", "approved", "apply_retried", "rejected", "reopened",
   "approval_revocation_started", "removal_retried", "applied",
   "apply_failed", "apply_step_recorded", "approval_revoked",
   "remove_failed"}

VARIABLES
  proposal,     \* the row, or None
  submissions,  \* proposal_submissions, in insertion order
  audit,        \* actions of proposal_audit_log, in insertion order
  clock,        \* Date.now() of the server
  view,         \* the updatedAt each admin last loaded: its expectedUpdatedAt
  req           \* the request each client has in flight

vars == <<proposal, submissions, audit, clock, view, req>>

TypeOK ==
  /\ proposal \in Row \cup {None}
  /\ submissions \in Seq([key: Keys \cup {None}, by: Accounts])
  /\ audit \in Seq(Action)
  /\ clock \in Nat
  /\ view \in [Admins -> Nat]
  /\ req \in [Clients -> Request]

Init ==
  /\ proposal = None
  /\ submissions = <<>>
  /\ audit = <<>>
  /\ clock = 1
  /\ view = [a \in Admins |-> 0]
  /\ req = [c \in Clients |-> Idle]
-----------------------------------------------------------------------------
(***************************************************************************)
(* Time.                                                                   *)
(***************************************************************************)
\* Mutant: trusts the clock, so that two writes of one tick share updatedAt.
NextTimestampFromClock(previous) == clock

\* nextTimestamp: later than the row it replaces even within one tick.
NextTimestamp(previous) == IF clock > previous THEN clock ELSE previous + 1

TimedOut(since) == clock >= since + Timeout

LastActivity(row) ==
  IF row.activityAt > row.updatedAt THEN row.activityAt ELSE row.updatedAt

ApplyStalled(row) == row.apply = "applying" /\ TimedOut(LastActivity(row))

\* Mutant: the queue does not look at recorded activity.
NeedsReviewByUpdate(row) ==
  \/ row.review = "pending"
  \/ row.review = "approved" /\ row.apply = "failed"
  \/ row.review = "approved" /\ row.apply = "applying"
     /\ TimedOut(row.updatedAt)

\* Mutant: the queue lists no setup that is still applying.
NeedsReviewIdleOnly(row) ==
  \/ row.review = "pending"
  \/ row.review = "approved" /\ row.apply = "failed"

\* The condition of getProposals' lifecycleStatus = "needs_review".
NeedsReview(row) ==
  \/ row.review = "pending"
  \/ row.review = "approved" /\ row.apply = "failed"
  \/ /\ row.review = "approved"
     /\ row.apply = "applying"
     /\ TimedOut(row.updatedAt) /\ TimedOut(row.activityAt)

\* The condition of its lifecycleStatus = "actionable".
Actionable(row) ==
  \/ NeedsReview(row)
  \/ row.remove = "failed"
  \/ row.remove = "removing" /\ TimedOut(row.updatedAt)
-----------------------------------------------------------------------------
(***************************************************************************)
(* propose: look the idempotency key up, read the row, write.              *)
(***************************************************************************)
KeyUsed(k) ==
  k # None /\ \E i \in 1..Len(submissions) : submissions[i].key = k

\* A key that is found ends the request: the caller gets the stored proposal
\* or a refusal, and nothing changes.
LookUpKey(c, k, o) ==
  /\ req[c] = Idle
  /\ ~KeyUsed(k)
  /\ req' = [req EXCEPT ![c] = [Idle EXCEPT !.op = "lookedUp",
                                            !.key = k, !.org = o]]
  /\ UNCHANGED <<proposal, submissions, audit, clock, view>>

\* Mutant: the organization of the earlier payload is not compared.
OwnsProposalAnyOrg(c, o, row) ==
  SameActor => row.createdBy = Account[c]

OwnsProposal(c, o, row) ==
  SameActor => /\ row.createdBy = Account[c]
               /\ row.org \in {None, o}

\* Mutant: an approved proposal can be submitted again under any policy.
PolicyAllowsApproved(row) ==
  row.review \in {"approved", "rejected"} \/ Policy = "any"

PolicyAllows(row) ==
  \/ Policy = "any"
  \/ row.review = "rejected"
  \/ /\ Policy = "rejected-or-removed"
     /\ row.review = "removed" \/ row.remove = "removed"

MayPropose(c, o, row) ==
  /\ OwnsProposal(c, o, row)
  /\ row.apply # "applying"
  /\ row.remove # "removing"
  /\ PolicyAllows(row)

PreviousStamp == IF proposal = None THEN 0 ELSE proposal.updatedAt

ReadPropose(c) ==
  /\ req[c].op = "lookedUp"
  /\ NextTimestamp(PreviousStamp) <= MaxStamp
  /\ req' = [req EXCEPT ![c] =
       IF proposal = None \/ MayPropose(c, @.org, proposal)
         THEN [@ EXCEPT !.op = "propose", !.base = proposal,
                        !.stamp = NextTimestamp(PreviousStamp)]
         ELSE Idle]
  /\ UNCHANGED <<proposal, submissions, audit, clock, view>>

NewRow(c) ==
  [updatedAt |-> req[c].stamp, review |-> "pending", apply |-> "not_started",
   remove |-> "not_started", createdBy |-> Account[c],
   org |-> req[c].org,
   steps |-> [s \in Steps |-> [status |-> None, resource |-> None]],
   activityAt |-> 0, resource |-> None]

\* The update leaves created_by and apply_activity_at alone.
ResubmittedRow(c) ==
  [NewRow(c) EXCEPT !.createdBy = proposal.createdBy,
                    !.activityAt = proposal.activityAt]

\* Mutant: the update is conditional on the id alone.
UnchangedId(c) == req[c].base = None <=> proposal = None

\* The compare-and-set on (id, updated_at); a row is never deleted.
Unchanged(c) ==
  IF req[c].base = None
    THEN proposal = None
    ELSE proposal # None /\ proposal.updatedAt = req[c].base.updatedAt

\* Mutant: no unique index on the idempotency key.
WriteProposeNoIndex(c) ==
  /\ req[c].op = "propose"
  /\ req' = [req EXCEPT ![c] = Idle]
  /\ IF Unchanged(c)
       THEN /\ proposal' = IF proposal = None THEN NewRow(c)
                                              ELSE ResubmittedRow(c)
            /\ submissions' = Append(submissions,
                                     [key |-> req[c].key, by |-> Account[c]])
            /\ audit' = Append(audit, "proposed")
       ELSE UNCHANGED <<proposal, submissions, audit>>
  /\ UNCHANGED <<clock, view>>

\* The unique index on the idempotency key aborts the whole transaction.
WritePropose(c) ==
  /\ req[c].op = "propose"
  /\ req' = [req EXCEPT ![c] = Idle]
  /\ IF Unchanged(c) /\ ~KeyUsed(req[c].key)
       THEN /\ proposal' = IF proposal = None THEN NewRow(c)
                                              ELSE ResubmittedRow(c)
            /\ submissions' = Append(submissions,
                                     [key |-> req[c].key, by |-> Account[c]])
            /\ audit' = Append(audit, "proposed")
       ELSE UNCHANGED <<proposal, submissions, audit>>
  /\ UNCHANGED <<clock, view>>
-----------------------------------------------------------------------------
(***************************************************************************)
(* The operations of an admin.  Each needs the expectedUpdatedAt of the    *)
(* row as the admin last loaded it.                                        *)
(***************************************************************************)
\* Any reply or query that shows admin a the row.
Load(a) ==
  /\ req[a] = Idle
  /\ proposal # None
  /\ view[a] # proposal.updatedAt
  /\ view' = [view EXCEPT ![a] = proposal.updatedAt]
  /\ UNCHANGED <<proposal, submissions, audit, clock, req>>

Read(a, op) ==
  /\ req[a] = Idle
  /\ proposal # None
  /\ view[a] = proposal.updatedAt
  /\ NextTimestamp(proposal.updatedAt) <= MaxStamp
  /\ req' = [req EXCEPT ![a] =
       [Idle EXCEPT !.op = op, !.base = proposal,
                    !.stamp = NextTimestamp(proposal.updatedAt)]]
  /\ UNCHANGED <<proposal, submissions, audit, clock, view>>

Write(a, op, row, action) ==
  /\ req[a].op = op
  /\ req' = [req EXCEPT ![a] = Idle]
  /\ IF Unchanged(a)
       THEN /\ proposal' = [row EXCEPT !.updatedAt = req[a].stamp]
            /\ audit' = Append(audit, action)
       ELSE UNCHANGED <<proposal, audit>>
  /\ UNCHANGED <<submissions, clock, view>>

Retrying(row) ==
  row.review = "approved" /\ (row.apply = "failed" \/ ApplyStalled(row))

\* An applied proposal is returned as it is: no write, no step.
CanApprove(row) ==
  /\ row.review # "removed"
  /\ row.apply # "applied"
  /\ row.review = "pending" \/ Retrying(row)

ReadApprove(a) == Read(a, "approve") /\ CanApprove(proposal)

\* Mutant: a retry is logged as a first approval.
WriteApproveUnlogged(a) ==
  Write(a, "approve",
        [proposal EXCEPT !.review = "approved", !.apply = "applying",
                         !.activityAt = req[a].stamp],
        "approved")

\* "retrying" is decided on the row that was read.
WriteApprove(a) ==
  Write(a, "approve",
        [proposal EXCEPT !.review = "approved", !.apply = "applying",
                         !.activityAt = req[a].stamp],
        IF req[a].base.review = "approved" THEN "apply_retried"
                                           ELSE "approved")

CanReject(row) ==
  /\ row.apply # "applying"
  /\ \/ row.review = "pending"
     \/ row.review = "approved" /\ row.apply \in {"not_started", "failed"}

ReadReject(a) == Read(a, "reject") /\ CanReject(proposal)

\* Mutant: the review status is written into the apply column as well.
WriteRejectBoth(a) ==
  Write(a, "reject",
        [proposal EXCEPT !.review = "rejected", !.apply = "rejected"],
        "rejected")

\* Mutant: a rejected setup keeps its apply status.
WriteRejectReviewOnly(a) ==
  Write(a, "reject", [proposal EXCEPT !.review = "rejected"], "rejected")

WriteReject(a) ==
  Write(a, "reject",
        [proposal EXCEPT !.review = "rejected", !.apply = "not_started",
           !.steps = [s \in Steps |-> [status |-> None, resource |-> None]],
           !.activityAt = 0],
        "rejected")

ReadReopen(a) == Read(a, "reopen") /\ proposal.review = "rejected"

WriteReopen(a) ==
  Write(a, "reopen", [proposal EXCEPT !.review = "pending"], "reopened")

RetryingRemoval(row) ==
  \/ row.remove = "failed"
  \/ row.remove = "removing" /\ TimedOut(row.updatedAt)

CanRemove(row) ==
  /\ row.review = "approved"
  /\ row.apply = "applied"
  /\ row.remove = "not_started" \/ RetryingRemoval(row)

ReadRemove(a) == Read(a, "remove") /\ CanRemove(proposal)

WriteRemove(a) ==
  Write(a, "remove", [proposal EXCEPT !.remove = "removing"],
        IF req[a].base.remove = "not_started"
          THEN "approval_revocation_started" ELSE "removal_retried")

ReadMarkApplied(a) == Read(a, "markApplied") /\ proposal.apply = "applying"

\* The resource is the one passed in or else the one on the row that was read.
WriteMarkApplied(a, given) ==
  Write(a, "markApplied",
        [proposal EXCEPT !.apply = "applied",
           !.resource = IF given # None THEN given ELSE req[a].base.resource],
        "applied")

ReadMarkApplyFailed(a) ==
  Read(a, "markApplyFailed") /\ proposal.apply = "applying"

WriteMarkApplyFailed(a) ==
  Write(a, "markApplyFailed", [proposal EXCEPT !.apply = "failed"],
        "apply_failed")

ReadMarkRemoved(a) == Read(a, "markRemoved") /\ proposal.remove = "removing"

WriteMarkRemoved(a) ==
  Write(a, "markRemoved",
        [proposal EXCEPT !.review = "removed", !.remove = "removed"],
        "approval_revoked")

ReadMarkRemoveFailed(a) ==
  Read(a, "markRemoveFailed") /\ proposal.remove = "removing"

WriteMarkRemoveFailed(a) ==
  Write(a, "markRemoveFailed", [proposal EXCEPT !.remove = "failed"],
        "remove_failed")
-----------------------------------------------------------------------------
(***************************************************************************)
(* recordApplyStep: one transaction that locks the row, with no            *)
(* expectedUpdatedAt, and that leaves updatedAt alone.  Its timestamp is   *)
(* taken before the lock is.                                               *)
(***************************************************************************)
BeginRecord(a) ==
  /\ Steps # {}
  /\ req[a] = Idle
  /\ proposal # None
  /\ clock <= MaxStamp
  /\ req' = [req EXCEPT ![a] = [Idle EXCEPT !.op = "record",
                                            !.stamp = clock]]
  /\ UNCHANGED <<proposal, submissions, audit, clock, view>>

SetupActive(row) ==
  row # None /\ row.review = "approved" /\ row.apply = "applying"

StepResource(previous, status, given) ==
  IF given # None THEN given
  ELSE IF status = "completed" \/ previous.status = status
         THEN previous.resource
         ELSE None

\* Mutant: a completed step is recorded again like any other.
StepKeptIfSame(previous, step) == previous = step

StepKept(previous, step) == previous.status = "completed" \/ previous = step

WriteRecord(a, s, status, given) ==
  LET previous == proposal.steps[s]
      step == [status |-> status,
               resource |-> StepResource(previous, status, given)]
      kept == StepKept(previous, step)
  IN  /\ req[a].op = "record"
      /\ req' = [req EXCEPT ![a] = Idle]
      /\ IF SetupActive(proposal)
           THEN /\ kept \/ Len(audit) < MaxAudit
                /\ proposal' =
                     [proposal EXCEPT !.activityAt = req[a].stamp,
                                      !.steps[s] = IF kept THEN @ ELSE step]
                /\ audit' = IF kept THEN audit
                                    ELSE Append(audit, "apply_step_recorded")
           ELSE UNCHANGED <<proposal, audit>>
      /\ UNCHANGED <<submissions, clock, view>>
-----------------------------------------------------------------------------
\* The server restarts, or the connection breaks, before the write.
Drop(c) ==
  /\ req[c] # Idle
  /\ req' = [req EXCEPT ![c] = Idle]
  /\ UNCHANGED <<proposal, submissions, audit, clock, view>>

Tick ==
  /\ clock < MaxStamp + Timeout
  /\ clock' = clock + 1
  /\ UNCHANGED <<proposal, submissions, audit, view, req>>

Propose(c) ==
  \/ \E k \in Keys \cup {None}, o \in Orgs \cup {None} : LookUpKey(c, k, o)
  \/ ReadPropose(c)
  \/ WritePropose(c)

Decide(a) ==
  \/ ReadApprove(a) \/ WriteApprove(a)
  \/ ReadReject(a) \/ WriteReject(a)
  \/ ReadReopen(a) \/ WriteReopen(a)
  \/ ReadRemove(a) \/ WriteRemove(a)

Report(a) ==
  \/ ReadMarkApplied(a)
  \/ \E r \in Resources \cup {None} : WriteMarkApplied(a, r)
  \/ ReadMarkApplyFailed(a) \/ WriteMarkApplyFailed(a)
  \/ ReadMarkRemoved(a) \/ WriteMarkRemoved(a)
  \/ ReadMarkRemoveFailed(a) \/ WriteMarkRemoveFailed(a)

Record(a) ==
  \/ BeginRecord(a)
  \/ \E s \in Steps, status \in StepStatus, r \in Resources \cup {None} :
       WriteRecord(a, s, status, r)

Next ==
  \/ \E c \in Applicants : Propose(c)
  \/ \E a \in Admins : Load(a) \/ Decide(a) \/ Report(a) \/ Record(a)
  \/ \E c \in Clients : Drop(c)
  \/ Tick

Spec == Init /\ [][Next]_vars

\* Only time is sure to pass.
FairSpec == Spec /\ WF_vars(Tick)
=============================================================================
