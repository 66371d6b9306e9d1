-------------------------- MODULE CommunityProperties --------------------------
(***************************************************************************)
(* What must hold of setting up and releasing a community.                 *)
(***************************************************************************)
EXTENDS CommunitySetup

\* History: a release was under way while the application was applying or
\* applied, or while a setup handler ran.
VARIABLE raced

Releasing == \E a \in Admins : api[a].at \in ReleaseState
SettingUp ==
  \/ stage \in {"applying", "applied"}
  \/ \E a \in Admins : api[a].at \in ApplyState

HistoryInit == Init /\ raced = FALSE
HistoryNext == Next /\ raced' = (raced \/ (Releasing' /\ SettingUp'))
HistorySpec == HistoryInit /\ [][HistoryNext]_<<vars, raced>>

(***************************************************************************)
(* A release deletes nothing but what this setup created: not an           *)
(* organization that was adopted for its slug or came with the             *)
(* application, nor a node reused for its DAO, whoever races.              *)
(***************************************************************************)
OthersKept ==
  [][/\ \A o \in Live(orgs) : orgs[o].ours \/ orgs'[o] # None
     /\ \A n \in Live(nodes) : nodes[n].ours \/ nodes'[n] # None
    ]_<<orgs, nodes>>

(***************************************************************************)
(* However many handlers set the community up at once, one node holds its  *)
(* DAO account and slug.                                                   *)
(***************************************************************************)
OneCommunity == \A m, n \in Live(nodes) : m = n

(***************************************************************************)
(* An applied application has the node it names, that node's organization  *)
(* and a published configuration, after any number of failed, abandoned,   *)
(* repeated and concurrent runs, and of releases that did not race a run   *)
(* and that had no communities under the node to keep it for.              *)
(***************************************************************************)
AppliedIsWhole ==
  stage = "applied" /\ ~raced =>
    /\ appliedNode \in Live(nodes)
    /\ nodes[appliedNode].children \/ nodes[appliedNode].org \in Live(orgs)
    /\ config = "published"

(***************************************************************************)
(* Rejecting a failed setup leaves no node of it behind, unless there are  *)
(* communities under it, a run raced the release, or someone replaced the  *)
(* metadata that links the node.                                           *)
(***************************************************************************)
RejectedLeavesNoNode ==
  stage = "rejected" /\ ~raced => \A n \in LinkedNodes : nodes[n].children

(***************************************************************************)
(* docs/community-application-organizations.md: removal "runs only for     *)
(* applyStatus: failed".                                                   *)
(***************************************************************************)
RemovalOnlyWhenFailed ==
  [][(\/ \E o \in Live(orgs) : orgs'[o] = None
      \/ \E n \in Live(nodes) : nodes'[n] = None)
       => stage = "failed"]_<<orgs, nodes>>

(***************************************************************************)
(* docs/community-application-organizations.md: rejecting a failed setup   *)
(* "first removes the resources it created, then rejects it": no           *)
(* organization that only the applicant and the first reviewer use stays.  *)
(***************************************************************************)
RejectionReleasesOrg ==
  [][stage = "failed" /\ stage' = "rejected"
       => \A o \in Live(orgs) : ~(orgs[o].ours /\ Unused(o))]_stage
=============================================================================
