---------------------------- MODULE CommunitySetup ----------------------------
(***************************************************************************)
(* Setting up the community of an approved application, and releasing what *)
(* a failed setup left when the application is rejected.                   *)
(*                                                                         *)
(* Three parties take part.  The admin's browser tab runs the sequence of  *)
(* -proposal-application.ts.  For each tab the API server runs at most one *)
(* handler, applyCommunityProposal or releaseCommunityProposal (api/src/   *)
(* index.ts), which goes on when the tab is closed or loses the reply.     *)
(* The proposal service is what ProposalReview promises: every change of   *)
(* stage is one step under a new version.  Organizations live in the auth  *)
(* service, nodes (with their tenant and domain binding) in the API's      *)
(* database.                                                               *)
(*                                                                         *)
(* Abstracted: a run may be taken over at any time, since it may be silent *)
(* for five minutes at any point; what the community and publication steps *)
(* record, which is only displayed (that the service refuses to record     *)
(* unless the application is applying is kept); DAO votes beyond the       *)
(* first; teams and the roles of the applicant.  The reviewers are not the *)
(* applicant.  A removal after an application was applied is not modelled: *)
(* the app has none.                                                       *)
(***************************************************************************)
EXTENDS Naturals, Sequences

CONSTANTS
  Admins,      \* platform admins who review
  None,        \* NULL, a deleted row, no id
  MaxVersion,  \* bound: no setup is started or reopened from a later version
  MaxOrgs,     \* bound: organizations ever created
  MaxNodes     \* bound: nodes ever created

ASSUME ConstantsAssumption ==
  /\ MaxVersion \in Nat /\ MaxOrgs \in Nat \ {0} /\ MaxNodes \in Nat \ {0}
  /\ None \notin Admins /\ None \notin Nat

Stage == {"pending", "applying", "failed", "applied", "rejected"}

\* Ids are positions in the order of creation and are never used again.
OrgId == 1..MaxOrgs
NodeId == 1..MaxNodes

\* ours: created by this setup.  proposal: stamped communityProposalId.
\* linked: communityLinkedOrg.  reviewer: communityReviewerId.  others: there
\* are members, invitations or codes besides the applicant's and reviewer's.
Org == [ours: BOOLEAN, proposal: BOOLEAN, linked: BOOLEAN,
        reviewer: Admins \cup {None}, others: BOOLEAN]

\* linked: communityProposalId in its metadata.  org: its tenant's orgId.
Node == [ours: BOOLEAN, linked: BOOLEAN, org: OrgId \cup {None},
         children: BOOLEAN]

ASSUME NullAssumption == None \notin Org /\ None \notin Node

TabState ==
  {"idle", "calling", "publishing", "proposing", "confirming", "finishing",
   "failing", "releasing", "rejecting"}
ApplyState ==
  {"check", "lookUp", "create", "bind", "staff", "recordOrg", "findNode",
   "insertNode", "recordNode"}
ReleaseState ==
  {"releaseCheck", "releaseNode", "deleteNode", "releaseOrg", "deleteOrg"}

\* token: the updatedAt that came with the proposal.
Tab == [at: TabState, token: Nat, node: NodeId \cup {None}]
Handler == [at: {"idle"} \cup ApplyState \cup ReleaseState, token: Nat,
            org: OrgId \cup {None}, node: NodeId \cup {None}]

NoTab == [at |-> "idle", token |-> 0, node |-> None]
NoHandler == [at |-> "idle", token |-> 0, org |-> None, node |-> None]

VARIABLES
  payloadOrg, \* the orgId of an application from the older wizard, or None
  stage,      \* of the proposal
  version,    \* of the proposal: its updatedAt
  recordedOrg,\* resource of its completed organization step, or None
  appliedNode,\* its appliedResourceId
  orgs,       \* every organization ever created that matters, None if deleted
  nodes,      \* every node ever created with the slug, None if deleted
  config,     \* the DAO's tenant configuration
  tab,        \* each admin's browser
  api         \* the handler that runs for each

proposalVars == <<stage, version, recordedOrg, appliedNode>>
vars == <<payloadOrg, proposalVars, orgs, nodes, config, tab, api>>

TypeOK ==
  /\ payloadOrg \in OrgId \cup {None}
  /\ stage \in Stage
  /\ version \in Nat
  /\ recordedOrg \in OrgId \cup {None}
  /\ appliedNode \in NodeId \cup {None}
  /\ orgs \in Seq(Org \cup {None}) /\ Len(orgs) <= MaxOrgs
  /\ nodes \in Seq(Node \cup {None}) /\ Len(nodes) <= MaxNodes
  /\ config \in {"unpublished", "voting", "published"}
  /\ tab \in [Admins -> Tab]
  /\ api \in [Admins -> Handler]

SomeonesOrg ==
  [ours |-> FALSE, proposal |-> FALSE, linked |-> FALSE, reviewer |-> None,
   others |-> FALSE]
SomeonesNode(o) ==
  [ours |-> FALSE, linked |-> FALSE, org |-> o, children |-> FALSE]

\* An organization of the applicant's may hold the slug or be the one applied
\* with (one that binding refuses is a failed call: ApiError), and
\* someone's node may be in the way or belong to that organization.
Init ==
  /\ \/ orgs = <<>> /\ payloadOrg = None
     \/ orgs = <<SomeonesOrg>> /\ payloadOrg \in {None, 1}
  /\ nodes \in {<<>>, <<SomeonesNode(payloadOrg)>>}
  /\ stage = "pending"
  /\ version = 0
  /\ recordedOrg = None
  /\ appliedNode = None
  /\ config = "unpublished"
  /\ tab = [a \in Admins |-> NoTab]
  /\ api = [a \in Admins |-> NoHandler]

Live(things) == {i \in 1..Len(things) : things[i] # None}
-----------------------------------------------------------------------------
(***************************************************************************)
(* The tab: approveAndApplyProposal.                                       *)
(***************************************************************************)
Free(a) == tab[a] = NoTab /\ api[a] = NoHandler

GoTo(a, at) == tab' = [tab EXCEPT ![a].at = at]
Leave(a) == tab' = [tab EXCEPT ![a] = NoTab]

\* The attempt whose token tab a holds is the one that is applying.
OwnsAttempt(a) == stage = "applying" /\ version = tab[a].token

ChangeStage(to) == stage' = to /\ version' = version + 1

Approve(a) ==
  /\ Free(a)
  /\ stage \in {"pending", "failed", "applying"}
  /\ version < MaxVersion
  /\ ChangeStage("applying")
  /\ tab' = [tab EXCEPT ![a] = [at |-> "calling", token |-> version + 1,
                                node |-> None]]
  /\ api' = [api EXCEPT ![a].at = "check"]
  /\ UNCHANGED <<payloadOrg, recordedOrg, appliedNode, orgs, nodes, config>>

\* Recording the publication step is refused unless stage is applying, and
\* stopIfDaoVoteOpen ends the run, so that no second vote is asked for.
CheckPublished(a) ==
  /\ tab[a].at = "publishing"
  /\ GoTo(a, IF stage # "applying" THEN "failing"
             ELSE IF config = "published" THEN "finishing"
             ELSE IF config = "voting" THEN "failing" ELSE "proposing")
  /\ UNCHANGED <<payloadOrg, proposalVars, orgs, nodes, config, api>>

\* An error of publishTenantConfig is kept until publication was checked.
ProposeConfig(a) ==
  /\ tab[a].at = "proposing"
  /\ config' \in {config} \cup {c \in {"voting"} : config = "unpublished"}
  /\ GoTo(a, "confirming")
  /\ UNCHANGED <<payloadOrg, proposalVars, orgs, nodes, api>>

ConfirmPublished(a) ==
  /\ tab[a].at = "confirming"
  /\ GoTo(a, IF config = "published" /\ stage = "applying" THEN "finishing"
                                                           ELSE "failing")
  /\ UNCHANGED <<payloadOrg, proposalVars, orgs, nodes, config, api>>

\* Mutant: the token is not compared.
MarkAppliedAnyToken(a) ==
  /\ tab[a].at = "finishing"
  /\ IF stage = "applying"
       THEN /\ ChangeStage("applied")
            /\ appliedNode' = tab[a].node
            /\ Leave(a)
       ELSE UNCHANGED <<stage, version, appliedNode>> /\ GoTo(a, "failing")
  /\ UNCHANGED <<payloadOrg, recordedOrg, orgs, nodes, config, api>>

MarkApplied(a) ==
  /\ tab[a].at = "finishing"
  /\ IF OwnsAttempt(a)
       THEN /\ ChangeStage("applied")
            /\ appliedNode' = tab[a].node
            /\ Leave(a)
       ELSE UNCHANGED <<stage, version, appliedNode>> /\ GoTo(a, "failing")
  /\ UNCHANGED <<payloadOrg, recordedOrg, orgs, nodes, config, api>>

MarkApplyFailed(a) ==
  /\ tab[a].at = "failing"
  /\ IF OwnsAttempt(a) THEN ChangeStage("failed")
                       ELSE UNCHANGED <<stage, version>>
  /\ Leave(a)
  /\ UNCHANGED <<payloadOrg, recordedOrg, appliedNode, orgs, nodes, config,
                 api>>

\* Mutant: a tab that is closed stays in a state of its own.
TabErrorClosed(a) ==
  /\ tab[a].at # "idle"
  /\ GoTo(a, "closed")
  /\ UNCHANGED <<payloadOrg, proposalVars, orgs, nodes, config, api>>

\* A call fails, its reply is lost, or, when the next one fails as well, the
\* tab is closed.  The handler, if one runs, goes on.
TabError(a) ==
  /\ \/ /\ tab[a].at \in {"calling", "publishing", "proposing", "confirming",
                          "finishing"}
        /\ GoTo(a, "failing")
     \/ /\ tab[a].at \in {"failing", "releasing", "rejecting"}
        /\ Leave(a)
  /\ UNCHANGED <<payloadOrg, proposalVars, orgs, nodes, config, api>>

-----------------------------------------------------------------------------
(***************************************************************************)
(* The handler applyCommunityProposal.                                     *)
(***************************************************************************)
Proceed(a, at) == api' = [api EXCEPT ![a].at = at]

\* A refusal or failure of any call ends a handler of either kind.
ApiError(a) ==
  /\ api[a] # NoHandler
  /\ api' = [api EXCEPT ![a] = NoHandler]
  /\ tab' = [tab EXCEPT ![a] =
       CASE @.at = "calling" -> [@ EXCEPT !.at = "failing"]
         [] @.at = "releasing" -> NoTab
         [] OTHER -> @]
  /\ UNCHANGED <<payloadOrg, proposalVars, orgs, nodes, config>>

CheckApplying(a) ==
  /\ api[a].at = "check"
  /\ stage = "applying"
  /\ Proceed(a, "lookUp")
  /\ UNCHANGED <<payloadOrg, proposalVars, orgs, nodes, config, tab>>

\* The organization that decides how provisioning goes on: the one applied
\* with, or the one that holds the slug.
CandidateOrgs ==
  IF payloadOrg # None THEN {payloadOrg} \cap Live(orgs) ELSE Live(orgs)

LookUpOrg(a) ==
  /\ api[a].at = "lookUp"
  /\ \/ /\ payloadOrg = None /\ CandidateOrgs = {}
        /\ Proceed(a, "create")
     \/ \E o \in CandidateOrgs :
          api' = [api EXCEPT ![a].org = o,
                    ![a].at = IF payloadOrg = None /\ orgs[o].proposal
                                THEN "staff" ELSE "bind"]
  /\ UNCHANGED <<payloadOrg, proposalVars, orgs, nodes, config, tab>>

\* If the slug was taken meanwhile, by this setup, that organization is used.
CreateOrg(a) ==
  /\ api[a].at = "create"
  /\ IF Live(orgs) = {}
       THEN /\ Len(orgs) < MaxOrgs
            /\ orgs' = Append(orgs, [ours |-> TRUE, proposal |-> TRUE,
                                     linked |-> FALSE, reviewer |-> a,
                                     others |-> FALSE])
            /\ api' = [api EXCEPT ![a].at = "staff", ![a].org = Len(orgs) + 1]
       ELSE \E o \in Live(orgs) :
              /\ orgs[o].proposal
              /\ api' = [api EXCEPT ![a].at = "staff", ![a].org = o]
              /\ UNCHANGED orgs
  /\ UNCHANGED <<payloadOrg, proposalVars, nodes, config, tab>>

\* Mutant: an adopted organization is stamped like one that was created.
BindOrgUnlinked(a) ==
  /\ api[a].at = "bind"
  /\ orgs[api[a].org] # None
  /\ orgs' = [orgs EXCEPT ![api[a].org].proposal = TRUE,
                          ![api[a].org].reviewer = a]
  /\ Proceed(a, "staff")
  /\ UNCHANGED <<payloadOrg, proposalVars, nodes, config, tab>>

\* An organization adopted for its slug is marked as linked.
BindOrg(a) ==
  /\ api[a].at = "bind"
  /\ orgs[api[a].org] # None
  /\ orgs' = [orgs EXCEPT ![api[a].org].proposal = TRUE,
                          ![api[a].org].reviewer = a,
                          ![api[a].org].linked = @ \/ payloadOrg = None]
  /\ Proceed(a, "staff")
  /\ UNCHANGED <<payloadOrg, proposalVars, nodes, config, tab>>

\* The applicant's ownership, the reviewer's membership, the default teams.
StaffOrg(a) ==
  /\ api[a].at = "staff"
  /\ orgs[api[a].org] # None
  /\ orgs' = [orgs EXCEPT ![api[a].org].others =
                            @ \/ orgs[api[a].org].reviewer # a]
  /\ Proceed(a, "recordOrg")
  /\ UNCHANGED <<payloadOrg, proposalVars, nodes, config, tab>>

\* recordApplyStep: a completed step keeps its resource.
RecordOrg(a) ==
  /\ api[a].at = "recordOrg"
  /\ stage = "applying"
  /\ recordedOrg' = IF recordedOrg = None THEN api[a].org ELSE recordedOrg
  /\ Proceed(a, "findNode")
  /\ UNCHANGED <<payloadOrg, stage, version, appliedNode, orgs, nodes, config,
                 tab>>

LinkedNodes == {n \in Live(nodes) : nodes[n].linked}

\* findProposalNode: the linked node, else one of the DAO and organization.
ProposalNodes(o) ==
  IF LinkedNodes # {} THEN LinkedNodes
                      ELSE {n \in Live(nodes) : nodes[n].org = o}

UseNode(a, n) == api' = [api EXCEPT ![a].at = "recordNode", ![a].node = n]

\* Without a node of the proposal, any that holds the account, the slug or the
\* hostname is a conflict.
FindNode(a) ==
  /\ api[a].at = "findNode"
  /\ \/ \E n \in ProposalNodes(api[a].org) : UseNode(a, n)
     \/ Live(nodes) = {} /\ Proceed(a, "insertNode")
  /\ UNCHANGED <<payloadOrg, proposalVars, orgs, nodes, config, tab>>

NewNode(a) ==
  [ours |-> TRUE, linked |-> TRUE, org |-> api[a].org, children |-> FALSE]

\* Mutant: no unique index stops a second tenant for the account.
InsertNodeNoIndex(a) ==
  /\ api[a].at = "insertNode"
  /\ Len(nodes) < MaxNodes
  /\ nodes' = Append(nodes, NewNode(a))
  /\ UseNode(a, Len(nodes) + 1)
  /\ UNCHANGED <<payloadOrg, proposalVars, orgs, config, tab>>

\* A unique violation falls back to the node of the proposal.
InsertNode(a) ==
  /\ api[a].at = "insertNode"
  /\ IF Live(nodes) = {}
       THEN /\ Len(nodes) < MaxNodes
            /\ nodes' = Append(nodes, NewNode(a))
            /\ UseNode(a, Len(nodes) + 1)
       ELSE /\ \E n \in ProposalNodes(api[a].org) : UseNode(a, n)
            /\ UNCHANGED nodes
  /\ UNCHANGED <<payloadOrg, proposalVars, orgs, config, tab>>

RecordNode(a) ==
  /\ api[a].at = "recordNode"
  /\ stage = "applying"
  /\ api' = [api EXCEPT ![a] = NoHandler]
  /\ tab' = IF tab[a].at = "calling"
              THEN [tab EXCEPT ![a].at = "publishing", ![a].node = api[a].node]
              ELSE tab
  /\ UNCHANGED <<payloadOrg, proposalVars, orgs, nodes, config>>
-----------------------------------------------------------------------------
(***************************************************************************)
(* Rejecting: rejectProposal in the tab, releaseCommunityProposal behind.  *)
(***************************************************************************)
\* Only a failed setup has something to release.
StartReject(a) ==
  /\ Free(a)
  /\ stage \in {"pending", "failed"}
  /\ tab' = [tab EXCEPT ![a] = [at |-> IF stage = "failed" THEN "releasing"
                                                           ELSE "rejecting",
                                token |-> version, node |-> None]]
  /\ api' = IF stage = "failed"
              THEN [api EXCEPT ![a].at = "releaseCheck", ![a].token = version]
              ELSE api
  /\ UNCHANGED <<payloadOrg, proposalVars, orgs, nodes, config>>

ReleaseCheck(a) ==
  /\ api[a].at = "releaseCheck"
  /\ stage = "failed" /\ version = api[a].token
  /\ api' = [api EXCEPT ![a].at = "releaseNode", ![a].token = 0,
               ![a].org = IF payloadOrg = None THEN recordedOrg ELSE None]
  /\ UNCHANGED <<payloadOrg, proposalVars, orgs, nodes, config, tab>>

\* Mutant: the node is found by the organization that was recorded.
ReleasableByOrg ==
  {n \in Live(nodes) : nodes[n].org = recordedOrg /\ ~nodes[n].children}

Releasable == {n \in LinkedNodes : ~nodes[n].children}

\* releaseNodeProposal reads, and then deletes in the same transaction.
ReleaseNode(a) ==
  /\ api[a].at = "releaseNode"
  /\ \/ \E n \in Releasable :
          api' = [api EXCEPT ![a].at = "deleteNode", ![a].node = n]
     \/ Releasable = {} /\ Proceed(a, "releaseOrg")
  /\ UNCHANGED <<payloadOrg, proposalVars, orgs, nodes, config, tab>>

DeleteNode(a) ==
  /\ api[a].at = "deleteNode"
  /\ nodes' = [nodes EXCEPT ![api[a].node] = None]
  /\ Proceed(a, "releaseOrg")
  /\ UNCHANGED <<payloadOrg, proposalVars, orgs, config, tab>>

\* The release is over; the tab goes on to reject, if it still waits.
Released(a) ==
  /\ api' = [api EXCEPT ![a] = NoHandler]
  /\ tab' = IF tab[a].at = "releasing"
              THEN [tab EXCEPT ![a].at = "rejecting"] ELSE tab

\* What releaseCommunityOrganization deletes.
Unused(o) ==
  /\ orgs[o] # None
  /\ orgs[o].proposal /\ ~orgs[o].linked /\ ~orgs[o].others

ReleaseOrg(a) ==
  /\ api[a].at = "releaseOrg"
  /\ IF api[a].org # None /\ Unused(api[a].org)
       THEN Proceed(a, "deleteOrg") /\ UNCHANGED tab
       ELSE Released(a)
  /\ UNCHANGED <<payloadOrg, proposalVars, orgs, nodes, config>>

DeleteOrg(a) ==
  /\ api[a].at = "deleteOrg"
  /\ orgs' = [orgs EXCEPT ![api[a].org] = None]
  /\ Released(a)
  /\ UNCHANGED <<payloadOrg, proposalVars, nodes, config>>

Reject(a) ==
  /\ tab[a].at = "rejecting"
  /\ IF stage \in {"pending", "failed"} /\ version = tab[a].token
       THEN ChangeStage("rejected") /\ recordedOrg' = None
       ELSE UNCHANGED <<stage, version, recordedOrg>>
  /\ Leave(a)
  /\ UNCHANGED <<payloadOrg, appliedNode, orgs, nodes, config, api>>

\* An admin reopens it, or the applicant submits it again.
Reopen ==
  /\ stage = "rejected"
  /\ version < MaxVersion
  /\ ChangeStage("pending")
  /\ UNCHANGED <<payloadOrg, recordedOrg, appliedNode, orgs, nodes, config,
                 tab, api>>
-----------------------------------------------------------------------------
(***************************************************************************)
(* Everybody else.                                                         *)
(***************************************************************************)
\* A member, an invitation or an onboarding code is added.  Only where it
\* matters: an adopted organization is spared however few are in it.
UseOrg(o) ==
  /\ orgs[o] # None /\ orgs[o].ours /\ ~orgs[o].others
  /\ orgs' = [orgs EXCEPT ![o].others = TRUE]
  /\ UNCHANGED <<payloadOrg, proposalVars, nodes, config, tab, api>>

\* nodes.spawn: a community is created under the node.
SpawnUnder(n) ==
  /\ nodes[n] # None /\ ~nodes[n].children
  /\ nodes' = [nodes EXCEPT ![n].children = TRUE]
  /\ UNCHANGED <<payloadOrg, proposalVars, orgs, config, tab, api>>

\* nodes.update replaces the metadata, and with it the link to the proposal.
ReplaceMetadata(n) ==
  /\ nodes[n] # None /\ nodes[n].linked
  /\ nodes' = [nodes EXCEPT ![n].linked = FALSE]
  /\ UNCHANGED <<payloadOrg, proposalVars, orgs, config, tab, api>>

\* The DAO accepts or rejects the vote.
CloseVote ==
  /\ config = "voting"
  /\ config' \in {"unpublished", "published"}
  /\ UNCHANGED <<payloadOrg, proposalVars, orgs, nodes, tab, api>>

Run(a) ==
  \/ Approve(a) \/ CheckPublished(a) \/ ProposeConfig(a) \/ ConfirmPublished(a)
  \/ MarkApplied(a) \/ MarkApplyFailed(a) \/ TabError(a)

ApplyHandler(a) ==
  \/ CheckApplying(a) \/ LookUpOrg(a) \/ CreateOrg(a) \/ BindOrg(a)
  \/ StaffOrg(a) \/ RecordOrg(a) \/ FindNode(a) \/ InsertNode(a)
  \/ RecordNode(a)

Release(a) ==
  \/ StartReject(a) \/ ReleaseCheck(a) \/ ReleaseNode(a) \/ DeleteNode(a)
  \/ ReleaseOrg(a) \/ DeleteOrg(a) \/ Reject(a)

Next ==
  \/ \E a \in Admins : Run(a) \/ ApplyHandler(a) \/ Release(a) \/ ApiError(a)
  \/ Reopen
  \/ \E o \in 1..Len(orgs) : UseOrg(o)
  \/ \E n \in 1..Len(nodes) : SpawnUnder(n) \/ ReplaceMetadata(n)
  \/ CloseVote

Spec == Init /\ [][Next]_vars
=============================================================================
