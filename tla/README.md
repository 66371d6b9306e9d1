# Verification of citynode.app

TLA+ models, TLC checks and TLAPS proofs for the NEAR Builders city node
application. A community applies for a node; a platform admin reviews the
application; an approved application is set up as an organization in the auth
service, a tenant with a node and a domain binding in the API's database, and
a configuration that the community's DAO publishes. A setup that fails or
stalls is resumed, or released and rejected. A node's editors connect a Luma
calendar, whose events the API imports and they choose to show. Around a
community that runs, members ask to join teams, organizers record who checked in
at events, validators are attached to nodes, and teams take stake out of a
validator's pool through their DAO.

## Inventory

State is listed only where the part keeps it itself. "Modelled" says in which
module.

| Part, in the source | State it keeps | Operations that change it | Modelled |
| --- | --- | --- | --- |
| Proposal service, `plugins/proposals` | `proposals`, `proposal_submissions`, `proposal_audit_log` | propose, approve, reject, reopen, remove, markApplied, markApplyFailed, recordApplyStep, markRemoved, markRemoveFailed | ProposalLifecycle |
| Review UI, `ui/.../admin/proposals/-proposal-application.ts` | one run per open tab: where it is, the `updatedAt` it holds | approveAndApplyProposal, rejectProposal, the publication heartbeat | CommunitySetup, but for the heartbeat's timer |
| Community setup API, `api/src/index.ts`, `lib/community-organizations.ts`, `services/tenants.ts` | organizations and members (auth service), tenants, nodes, bindings | applyCommunityProposal, releaseCommunityProposal | CommunitySetup |
| Node tree, `api/src/services/nodes.ts` | `nodes`: parent, slug, metadata | spawn, update, delete | NodeTree |
| Validators and bindings, `validators.ts`, `tenants.ts` | one default or primary flag in a set of rows | create, update, delete, setDefault, createBinding, setPrimaryBinding | DefaultFlag; what stakes resolve to, NodeStaking |
| Team join requests, `team-join-requests.ts`, `team-join-policy.ts`, `index.ts` | `team_join_requests`, and team members in the auth service | create, withdraw, endorse, decide, close | TeamJoin |
| Attendance, `attendance.ts` | attendance rows and a checkpoint per code | reconcile, recordCode | Attendance |
| Team payout, `team-stake-card.tsx`, `team-unstake.ts`, `sputnik-proposals.ts` | a submission in the browser; proposals and the pool's account on the chain | submitTeamPoolAction | TeamPool |
| Discovery, `discovery.ts` and its two helpers | Luma connections, activities, profiles, reports | import, disconnect, visibility, moderation, report, saveActivity, saveProfile | LumaCalendar: imported events only |
| Member directory, `member-directory.ts` | one row per listed member | setOptIn, refreshPrimaryAccount, recordCount | no |
| Registry plugin, `plugins/registry` | none: reads an external key-value index, prepares transactions | none | no |
| API router and storage, `api/src/index.ts`, `storage.ts`, `near-rpc.ts`, `staking-pools.ts`, `dao.ts`, `nearbuilders.ts` | none but uploaded objects | permission checks around the services | no |
| UI, `ui/src/lib` | none that outlives the page; the chain keeps the rest | builds DAO proposals and transactions | no |

How they interact. The review UI drives everything about an application: it
calls `approve` of the proposal service, then `applyCommunityProposal` of the
API, then the DAO, then `markApplied` or `markApplyFailed`. The API handler reads
the proposal, calls the auth service, writes its own database and records
steps on the proposal. There is no transaction across these parts and no
worker: when the tab dies, the run is over, and only the passing of time
brings the application back to a reviewer. What protects the state is

- `updatedAt` of the proposal, which every write but `recordApplyStep`
  compares and increases, and which is the token of the attempt that runs;
- the unique indexes on idempotency keys, slugs, accounts and hostnames;
- marks on what was created (`communityProposalId`, `communityLinkedOrg`,
  `communityReviewerId`) by which a later run finds it and a release decides
  what it may delete.

The other parts share no state with that or with each other, but for nodes,
which validators and calendars refer to. A team's requests and attendance are
about what the auth service knows, which the API asks in calls of their own
and copies in part; what keeps these copies right is conditions in the
statements that write (`status = 'pending'`, `greatest`, `coalesce`), not locks.
A payout has no server at all: browsers read the chain and file proposals.

What is hard, and what makes each part correct:

| Part | Hard behaviour | Correct when |
| --- | --- | --- |
| Proposal service | two requests between read and conditional write, two writes in one tick, late reports of a superseded run, repeated `propose` | it acts as one atomic lifecycle; the three status columns agree; the audit log tells the row's life; one submission per key; the owner never changes; queues list what can be acted on; a completed step is kept |
| Review UI and setup API | a handler that outlives its tab, two admins who resume, a release while another admin resumes, a failure between creating and recording, what other people do with what was created | one community per application; applied means whole; rejected leaves nothing of the setup; nothing of others is deleted |
| Node tree | two moves that together make a cycle, deletion that makes children roots | a forest, in which a slug names one node of its siblings |
| Validators and bindings | two clear-then-set at read committed, rows inserted in between; a resolution of several queries over a tree that moves | at most one flag, a request to pass it on never loses it, no request hangs; what stays stakeable resolves, and what resolves was stakeable |
| Team join requests | a handler that settles or closes on what it read some calls ago, members who leave, several reviewers, one person's calls in two tabs | one pending request each, settled once and for good; only the call that settled it reports so; approved means added; closed for leaving means left |
| Attendance | reconciliations that overtake each other, codes used, made and deleted between two calls, a listing that shows the newest codes only | no check-in is skipped for good, no gap is hidden, nothing recorded is lost |
| Team payout | a DAO read in ranges while others file, vote and remove; ids with gaps; a second read after the wallet is connected | no open release is overlooked; what is signed the pool can pay |
| Discovery | import, disconnect, moderation and visibility on the same rows under different locks | what a moderator hid stays hidden, what nobody chose is not shown; no old listing and no old connection comes back; a failing import is tried again and does not block the others |

All hazards are in `PROJECT.json`, each at its line, with the properties that
cover it or the reason why none does.

## Modules and code

| Module | What it is |
| --- | --- |
| ProposalLifecycle | the proposal service, one proposal, in detail |
| ProposalReview | what it promises: one stage, one version, atomic steps |
| ProposalProperties | its properties, and the mapping of a row to a stage |
| ProposalAudit | the audit log as an account of the row's life (a recursive function over the log) |
| ProposalLifecycleProofs, ProposalRefinementProofs | proofs of invariants; of the refinement and of the row's history |
| CommunitySetup | tabs, handlers, organizations, nodes, for one application |
| CommunityProperties, CommunitySetupProofs | its properties; its proofs |
| LumaCalendar | one node's calendar, its imported events and their locks |
| LumaProperties, LumaProofs | its properties; its proofs |
| TeamJoin | requests to join a team, and the community as the auth service has it |
| JoinRequests | what becomes of a request, without handlers and lists: each change one step, for a reason that is true then |
| TeamJoinProofs | proofs about TeamJoin, that it implements JoinRequests, and about MCMembers as a whole |
| Attendance, AttendanceProofs | reconciliation of check-ins by several organizers |
| NodeTree | the tree of nodes and its editors |
| NodeStaking | a member's look at the list of stakeable nodes and the resolution of one of them, query by query, over a NodeTree that moves |
| NodeTreeProofs | proofs about both |
| DefaultFlag | the flag of the default validator or the primary hostname, statement by statement |
| FlagRequests | what a request for the flag comes to, without statements and locks: the flag moves in one step, or stays |
| TeamPool | a DAO, a pool, and browsers that release stake while others put in more |
| StakingProofs | proofs about DefaultFlag, that it implements FlagRequests, about TeamPool, and about MCStaking as a whole |
| MC... | symmetry, finite values and, in MCMembers and MCStaking, the choice of the part that moves |

Definitions whose comment starts with "Mutant" are variants that a plausible
mistake in the code would give. No specification uses them; each shows that
some property would notice.

### Proposal service

`proposal` is the row of one `(pluginId, entityId)`, `submissions` and `audit`
the two tables that refer to it, `view[a]` the `updatedAt` an admin last saw,
and `req[c]` the request a client has in flight. An operation is two actions:
`Read...` selects the row and judges it (the code's early returns and errors
are its guard), `Write...` is the transaction with
`UPDATE ... WHERE updated_at = ...` and the audit entry; anybody may act in
between, and `Drop` loses a request there. Two things are subtle and kept:
what the code decides on the row it read (`req[a].base`: whether an approval
is a retry, the resource a success falls back to) and what it takes from the
row in the database (columns an UPDATE does not mention). `recordApplyStep` has
no version: it locks the row (`WriteRecord`) after it took its time
(`BeginRecord`), and leaves `updatedAt` alone. `propose` is three actions, as
the idempotency key is looked up before the row is read.

A payload is reduced to the organization it names, because `propose` compares
that. Reasons, messages, actors' names and the read-only queries are left out,
but for the filter of the review queue, which is translated from its SQL.

### Community setup

`tab[a]` is where the run in an admin's browser stands, with the token
(`updatedAt`) it holds; `api[a]` is the handler the server runs for that
admin, which goes on when the tab has given up (`TabError`). Each call of the
auth service or the database is one action, so that a handler can be overtaken
between any two. `orgs` and `nodes` list what was ever created, with None for
what was deleted, and of each keep the marks by which the code recognizes it
(`proposal`, `linked`, `reviewer`), plus `ours`, which the code does not have:
whether this setup really created it. Everybody else appears as `UseOrg`
(somebody joins or is invited), `SpawnUnder`, `ReplaceMetadata` and
`CloseVote`.

The proposal's own service appears as ProposalReview describes it: a change of
stage is one step under a new version. That it may be used so is the theorem
Refinement.

### Luma calendar

`work[w]` is the transaction an editor or the timer of a server has open, and
the node is locked while it is "fetching", "fetched" or "disconnecting".
`moderating[m]` is the row a moderator has locked. A transaction that takes all
its locks at once and waits for nothing in between is one action (SetStatus);
an import has one for the lock, the answer of Luma and the writes, because
minutes may pass between them. `moderate` locks only the activity; but the row
it adds to `discovery_history` refers to the node (`schema.ts:127`), and the
database checks such a reference under a lock that waits for `FOR UPDATE`, so
`Unpublish` waits for the node too. That is what keeps a moderator's change
from being overwritten by `disconnectLuma`, which reads rows without a lock and
writes them back, and what can make a moderator and an import wait for each
other (`BreakDeadlock`).

An event's text is one number, the edition of the listing it was read from.

### Requests to join a team

`members`, `team` and `onTeam` are what the auth service knows, `requests` the
rows of `team_join_requests`, and `call[h]` a handler under way, with whom it
serves (`by`): two of them may serve one person, who has two tabs open or calls
again. Every handler loads the community first (`loadTeamCommunity`): `ReadTeams`,
`ListRequests`, `ReadPage` once per page, then `CloseStale`, one UPDATE per
reason, and `Relist`. Only then does it act, on what it read: `RequestToJoin`,
`Withdraw`, `Endorse`, `Decline`, or `AddMember` and `Approve`, which are two
because the first is a call of the auth service. A handler that settled a row
reads it again for its reply (`refresh`, ended by `Fail`, which stands for every
end without a further effect). `Leave`, `Join`, `EditTeam` and `EditTeamMember`
are everybody else, between any two of those. `past[i]` is history: whether the
requester has left, or was added, since row i was made. A handler forgets what
the rest of it does not use (`Serving`), which saves states.

Two requests of one member both pass what they read and race for the partial
unique index, `Admits`: the second insertion fails, and `Fail` ends it. That an
index holds is not a property here; what the runs ask is what handlers do about
rows that others have settled since, which OneReports and ImplementsRequests say.

### Attendance

`codes`, `made`, `eventOf` and `joined` are the auth service's onboarding codes;
`seen`, `counted`, `checkpoints` and `reconciled` are the API's tables; `sync[o]`
is an organizer's reconciliation. Its lanes are the events that are due and the
sweep over the newest codes of no event: lanes of events run side by side, as
`Effect.forEach` with a concurrency does, the sweep after them. A lane compares
a code's listed count with its checkpoint (`CompareCode`), asks who joined
(`ReadStatus`), and writes rows and checkpoint in one transaction (`RecordCode`).
Who joined is a number, because those who join with a code do so one after the
other and for good. `promised`, of a lane and of a row of
`attendance_event_reconciliations`, is history: what the event's listing said.

### Nodes and validators

NodeTree has `spawn` in two steps (the parent is looked up first), `update` in
three (lock, check, write) and `delete` as one statement with the foreign key's
effect on children. NodeStaking defines `Descendants`, `Ancestors`, `Line` and
`Stakeable` as the SQL of `validators.ts` computes them, each on one state, as a
statement has one snapshot.

`hosts` are the nodes with validators, and `resolve` is one member's look: the
list (`LookUp`, one query for all nodes), and then `resolveForStaking`, whose
queries are actions of their own, because they run without a transaction:
`FindNode`, `ReadBelow` (the ids below), `ReadOwn` (validators of those ids; if
there are any, this is the answer), `ReadLine` (the ids above, in order) and
`ReadInherited`. Between any two, `Rearrange` is a step of the tree, whose deleted
nodes lose their validators with the foreign key, and `ChangeHosts` the first
validator of a node or the end of its last. Everything else in `resolve` is
history: which hosts have been below or above the node all along, whether it
could be staked for at any moment since the list was read, and whether the tree
and the hosts are still those of then. ListedResolves speaks of these, since
several queries over a moving tree promise less than one:

- When the only host is above the node, another node below it becomes a host after
  `ReadOwn`, and then the first is moved away before `ReadLine`, both are missed.
  The node could be staked for all along and resolves to nobody; asking again
  helps. A host that stays on its side is never missed.
- When both the tree and the validators change, the answer may be the validators
  of a node that was related when its id was read and has a validator only now
  that it is not. The node then was never in the list. If only one of the two
  changes, what resolves was stakeable at some moment.

DefaultFlag is one table for two uses, since `validators.ts` and `tenants.ts`
write the same pattern. A transaction clears the flags it finds one row lock at
a time (`ClearOne`), marks its own row (`Mark`), and commits unless the partial
unique index refuses (`Refused`). Statements do not see what others insert
meanwhile; that is what the index is for.

### Payout

`clock`, `dao` and `pool` are the chain, and `submission[s]` a submission of the
form in some browser: `ReadTime`, `ReadLast` and one `ReadRange` per range of ids,
down to the first proposal that is older than a period, then `ReadAccount`, where
the phase and the balance are compared. All of it happens before the wallet is
connected (`Connect`) and once more after it, and again when the card has read
something newer (`Supersede`). What the DAO and the pool do is taken from how
the code and its comments use them.

The DAO may also stake what is unstaked, and deposit with or without staking
(`Fundings`; the repository's form for a node's stake files such a proposal,
`ui/src/lib/node-staking-proposals.ts`). `readTeamPoolProposals` does not look for
those, so nothing keeps a submission from being signed while one is open. AskIsCovered
says what is signed can be carried out unless another release was filed after the
ids were read, one was being carried out, or what is unstaked was staked again or
added to after the account was read (`funded`, history); each of the three does make
an ask fail, or puts off an earlier one. Deposits that are staked at once never do.

## What the runs check

| Run | Instance | Checks |
| --- | --- | --- |
| decisions | 2 admins, 1 applicant, removal and resubmission | TypeOK, StatusesCohere, AuditExplainsRow, ImplementsReview, AppliedResourceKept |
| submissions | 3 calls of 2 accounts, one key, one organization, 1 admin | KeySubmittedOnce, ApplicationStaysWithOwner |
| recording | 2 admins, one step, one resource | QueuesMatchOperations, CompletedStepSticks |
| stall | 1 admin, FairSpec | StallSurfaces |
| takeover | 2 admins, one step | RetryOnlyAfterSilence, violated |
| community | 2 admins, 2 organizations, 2 nodes | TypeOK, OneCommunity, AppliedIsWhole, RejectedLeavesNoNode, OthersKept |
| removal | the same | RemovalOnlyWhenFailed, violated |
| leak | 1 admin, 2 organizations, 2 nodes | RejectionReleasesOrg, violated |
| luma | 2 editors, 1 timer, 1 moderator, 1 event, 2 calendars | TypeOK, PublishedIsShown, DisconnectedIsWithdrawn, HiddenStaysHidden, ShownByChoice, ConnectedByEditor, SnapshotsInOrder |
| luma_due | 1 editor, 1 timer, 1 moderator, FairSpec | DueIsServed |
| members | attendance: 2 organizers, 1 event, 3 codes; team: 1 requester, 1 reviewer, 2 handlers, 2 requests | MembersTypeOK; CheckpointIsBacked, SyncedIsComplete, RecordIsKept; OneReports, ApprovedIsAdded, LeaverHasLeft, ImplementsRequests |
| staking | tree: 3 nodes, 2 slugs, 2 editors; look: the same, 1 member; flag: 3 rows, 2 requests; payout: 1 submission, 3 proposals | StakingTypeOK; NodesFormForest, SlugsResolve, ListedResolves; OneFlagged, ActsAtOnce, RequestEnds; OpenIsSeen, AskIsCovered |

The bounds, and why they are enough:

- Two admins (editors) give every race of two requests; a third one meets a
  row that already moved on, and is refused for the same reason as the second.
  The takeover is a race of a running tab and one other.
- `MaxStamp` bounds the versions of a proposal: 6 lets it be approved, fail or
  stall, be retried, applied, revoked and submitted again; 4 with steps lets a
  step be recorded, completed, and recorded again after a retry. `MaxAudit`
  only bounds how often a step is audited. `Timeout` is one or two ticks, so
  that a heartbeat, a stall and a retry fall before, on and after its end.
- `MaxVersion` 4 covers: fail, resume, applied; fail, take over, fail; fail,
  release, reject, reopen. Two organizations and two nodes are what is needed
  for an old one and its successor; a third needs a second release.
- `MaxEdition` 3 gives two imports with different listings and one that is
  older than both. One event is enough, since no code path relates two events
  of one node but through the shared URL, which is the set `taken`. Two
  calendars let one be exchanged for the other.
- `MaxRestarts` 1: a restart drops one transaction; restarting more often
  repeats the same loss.
- members and staking hold several parts that share no variable. A variable
  `focus` says which one moves in a behaviour; the others stay as they began.
  No interleaving is lost by that, because a state of one part never depends
  on the other.
- Attendance: a listing shows `Limit` = 2 of 3 codes, so that one falls out of
  the newest; `MaxJoins` 2 gives a count that grows between two reads of it;
  `MaxSyncs` 2 is what it takes for one reconciliation to overtake another;
  `MaxEdits` 1 lets an event or a code be removed, or an event come late.
  `MaxLoad` bounds codes and check-ins together. The last code is made while the
  run goes on, and codes outside the event are newer than the event's (`Early`),
  which they then push out of the listing; the proofs have no such bound.
- Requests: 2 users with a page of 2 (larger communities are the theorem's),
  2 requests so that there is a later one, 1 change by others: leaving, after
  which one may join again, or a team edited or deleted. 2 handlers at once, each
  of any member, so of two people or of one, which start anew when they end; a
  third would meet rows that are already settled, as the second may. With one
  page it makes no difference who is listed first (`AskersFirst`). 1.4 million
  states up to symmetry, the most of all runs.
- Tree: 3 nodes are the smallest tree in which two legal moves make a cycle
  together. Look: it begins in every forest of 3 nodes with any of them hosts
  (`Planted`), since how a tree came about makes no difference to a query, and beside
  it there are one change of the tree, by one editor, in which names stay and nothing
  is spawned, and one change of the hosts (`OneLook`). That is what both exceptions
  above take, so the property is about their edge; the theorem has no such bound.
  Flag: 3 rows are the one flagged and two that want to be.
- Payout: ranges of one id and at most two read, so that a read has several
  ranges, gaps, and a limit that can be passed; a period of 0 and one tick, so
  that a proposal is within its period or past it. Of the three proposals at most one
  stakes or deposits (`OneFunding`): it is not removed, the earlier one was, and it is
  filed before the form is opened, as nothing looks at it before it is carried out,
  which may be at any time.

In CommunityProperties a history variable, `raced`, tells whether a release
and a setup were ever under way together, the case in which the run `removal`
shows that a release can delete what a setup uses. AppliedIsWhole and
RejectedLeavesNoNode are about all other behaviours, and so say nothing of a release
that overlaps a setup, of which RemovalOnlyWhenFailed and the theorem RemovalsSpare
speak; OneCommunity and OthersKept are about all. CommunitySetup really may stop (an applied
application with nothing left to do), so its runs do not look for deadlock.
Nor do members and staking, where everything that is bounded (codes, changes,
proposals, the clock) can be used up with nobody under way; RequestEnds says that
no request hangs. The other runs look for deadlock.

### Findings

1. `takeover`: `approve` checks that a run is silent on the row it read, and
   its conditional write does not notice a heartbeat, which leaves `updatedAt`
   alone. A run that has just reported progress can be taken over, contrary
   to what `proposals.test.ts:872` says of it. The window is one request;
   what does hold is proved as TakeoversWereSilent.
2. `removal`: a release checks once that the setup has failed and then deletes
   in separate calls. When another admin resumes in between, the resumed run
   loses its node or organization; the documentation says removal runs only
   for a failed setup. A release that did not race deletes nothing that a setup
   uses (RemovalsSpare).
3. `leak`: an organization created by a run that died before recording it is
   not found by the release, and stays when the application is rejected. One
   that was recorded does not stay, unless a release raced a setup
   (RejectionSpends).

Seen while modelling, where no line of the repository says otherwise:

- When a release keeps the node for the communities under it
  (`api/src/index.ts:1726`), it deletes the organization all the same (1742). A
  resumed setup creates another, but reuses the node, whose tenant still names
  the deleted one.
- A handler reads the team before the requests, so a request made after a team
  became joinable can be closed as `team_not_joinable` though it never was
  while the request existed. Members are read by offset: when they fill more
  than a page and somebody leaves meanwhile, one can be missed and their request
  closed. LeaverHasLeft therefore speaks of one page.
- A withdrawal between AddMember and Approve leaves somebody on the team whose
  request says withdrawn.
- The gap "failed" of an event ends when the code that could not be read is
  deleted; codes outside all events that are no longer among the newest are
  never read again; an event added during a reconciliation has codes that were
  counted as outside, and can still be shown as synced until the next one.

## Fairness

ProposalLifecycle: only that time passes (`WF` of Tick). No admin needs to
return, no request to finish. StallSurfaces needs no more, since the queue is
a query.

LumaCalendar: timers go off (the 60-second schedule); a started transaction
goes on or fails (requests to Luma time out after eight seconds); a lock that
becomes free again and again is granted in the end, as the database queues
those who wait, hence strong fairness of what takes or uses one; a deadlock is
broken. Nothing makes Luma answer, or spares the import when a deadlock is
broken. A server restarts a bounded number of times.

DefaultFlag: a transaction that waits for rows gets its turn (`SF` of each
request's steps, since the database queues those who wait for a row lock), and a
deadlock of two is detected and one of them aborted (`WF` of BreakDeadlock). A
transaction is one handler's; nothing waits for the network in it. RequestEnds
needs both.

CommunitySetup has no fairness, and no liveness is claimed: tabs are closed,
and nothing else continues a setup.

## What is proved

All for every value of the constants, that is any number of admins,
applicants, steps, organizations, nodes, events, calendars, servers, members,
codes, rows and proposals, with the named ASSUMEs of the modules (NULL is not a
value; Timeout is positive; Editors and Timers are disjoint; there are finitely
many people).

- ProposalLifecycleProofs: TypeCorrect, Coherence. StatusesCohere is not
  inductive, since a request writes on the strength of a row it read earlier.
  IInv adds what a request in flight knows: the stamp it will write is later
  than the row it read, that row is not newer than the one stored, if they
  have the same version they agree in all that decisions depend on
  (SameDecision; recordApplyStep may have changed the rest), and the guard
  that was checked still holds of the row that was read (Judged).
- ProposalRefinementProofs: Refinement, the service implements
  ProposalReview, one lemma per conditional write, everything else a
  stuttering step; QueuesAgree; ResourceKept, for a resubmission policy other
  than "any" (with "any" an applied proposal may be submitted again). And what the
  row's history keeps: StepsStick; OwnerStays, since whoever submitted created the
  row (OwnerSubmitted) and a submission writes only on the version whose owner it
  has judged; KeyOnce, from the unique index, which aborts the whole transaction.
  LogTellsLife is about a recursive function of the log. Induction over data is not
  needed, since the log only grows at its end: the invariant (LogInv) says that the
  log so far has one reading, which ends in the row's stage, and a step lengthens that
  reading by the one entry that leads from the stage before to the stage after
  (Tells). A write logs by the row it read; Judged and SameDecision say that this
  was the stage it changes. TakeoversWereSilent bounds finding 1: only approve's
  write leaves a run under way with another token (TakingOver), and whoever is about
  to write it has read this attempt's row when it was silent (Silent), so an attempt
  keeps its token for Timeout at least.
- CommunitySetupProofs: TypeCorrect, SingleCommunity, OthersAreKept. A release
  deletes on an earlier decision; the invariant carries the reasons: a mark
  of this application without the mark of an adopted organization means that
  this setup created it, and what a release is about to delete was so marked.
  AppliedStaysWhole and RejectionLeavesNoNode, for behaviours in which no release
  has raced a setup: nothing is deleted under a setup, so what a handler took and
  a tab with the current token holds is still there (HandlerKnows, TabKnows); nothing
  is created under a release, so once it dealt with the node none without
  communities is left, up to the next approval (NothingLeft). From the same
  invariant RemovalsSpare, and with what a rejecting tab knows of its
  organization (ReleaseInv) RejectionSpends: the positive sides of findings 2 and 3.
  The bounds on the three findings are stated with their proofs, not in a run.
- LumaProofs: TypeCorrect, PagesAgree, NothingOutlivesTheCalendar and the four
  action properties HiddenUntilPublished, EditorsShow, EditorsConnect,
  LaterImportsLast. The invariant says that one worker holds the node, that
  the rows `disconnectLuma` read are still those stored (RowsAreCurrent, where
  the history's reference to the node is needed), that a timer's connection is
  the one it read, and that a fetched listing is not older than what is saved.
- TeamJoinProofs: JoinTypeCorrect, OneReportsForever, ApprovedWereAdded,
  LeaversLeft, SettledOnce, RequestsRefined. The invariant says that nobody is listed twice, that a
  requester whose row does not say they left is listed, and what a handler in
  flight knows (Knows): the row it is about to settle was added, and whom it is
  about to close for leaving did leave. The latter needs that a page of all
  members misses nobody who is one, which is where the one page comes from.
  OneReportsForever holds because a handler that
  goes on has itself ended the row's being pending, under an UPDATE that others then
  miss, and nothing writes a row that is not pending but for its endorsers.
  RequestsRefined, TeamJoin implements JoinRequests, needs one thing more of a
  handler in flight: only reviewers decide (SettlersDecide). A handler's reads
  and its calls of the auth service are stuttering steps or AddToTeam and Depart;
  each UPDATE, which names the status it expects, is one step of the abstract
  request, for the reason the handler once read and the invariant says still
  holds. What is shown of a row leaves out its endorsers.
- AttendanceProofs: AttTypeCorrect, NobodySkipped, SyncedComplete, RecordKept. The
  invariant says of each lane in flight that no count it was told is above how
  many have joined by now, and that what its listing promised is recorded or
  still left to read, unless something failed or the listing was full
  (LaneKnows); so a row without a gap is backed when it is written, and stays
  backed because rows are only added.
- NodeTreeProofs: ForestForever, SlugsAlwaysResolve, ListedAlwaysResolves. What an
  editor checked under the table lock stays true until it writes, since every
  other statement that changes a parent waits for that lock or adds a leaf.
  The look has an invariant of its own (LookInv): the hosts kept below and above are
  hosts and still where they were (Kept), those kept below are among the ids read
  (BelowKnown) and those kept above on the line read, which is one line of which no two
  nodes are equally near (LineKnown); and as long as only the tree or only the hosts
  have changed, a host among what was read was related to the node, with a
  validator, at some moment since. In a forest being below is an order, and what is
  above one node is ordered by it, hence one nearest ancestor.
- StakingProofs: OneFlaggedForever, FlagPassedOn: a transaction about to commit is
  the only one, and has cleared all flags but its own. FlagActsAtOnce, DefaultFlag
  implements FlagRequests: its commit is the step that grants the request, every
  other end denies it, and the work in between stutters. That the rows it writes
  at its commit are those it found needs what the row locks hold still until then
  (Held): rows it has cleared, and the one it has marked, are not deleted. OpenSeen, AskCovered: ids
  are given in the order of time (Ordered), and a release that was read and was
  not open is over for good (Over), as is everything older than one past its
  period; so a read may stop there. TLC needed three proposals for that; the
  theorems hold for any number, any range and any limit.

MembersTypeCorrect and StakingTypeCorrect are about the specifications the runs
check, in which `focus` chooses the part that moves: a step of one part leaves the
invariants of the others, which it does not touch, as they are. With them every
invariant that a passing run checks is a theorem, and so is every action property
and every refinement.

Only model-checked: StallSurfaces, DueIsServed and RequestEnds, since liveness
under fairness and ENABLED are out of the prover's reach.

## What is not modelled

- The heartbeat's timer in the tab: a run may be silent for five minutes at
  any point, so CommunitySetup lets it be taken over at any time.
- The reply of `approve` is read after its transaction; in ProposalLifecycle
  that is a Load that may follow any write.
- A second DAO vote for one configuration, default teams, invitations and
  roles: they would multiply states and no property is about them.
- Tenants and domain bindings are part of the node they are created with;
  `releaseNodeProposal` deletes them together.
- For Luma: manual activities, profiles and the lookup of their places,
  reports, features, measurements, rights, and other nodes. The transactions
  that lock a node and then a row at once do not show the short wait between
  the two.
- Profiles: a save reads the row, has its place looked up by a remote service and
  upserts the whole profile. A moderation during the lookup is overwritten, as
  the last write wins; a model would say no more than this sentence.
- Member directory: single statements on one row each; what is opted out is
  filtered where it is read.
- For requests to join: names, areas beyond whether there are any, and who is
  notified. Endorsements are kept, but no decision depends on them. The two lists
  of teams that are asked for side by side are one read.
- For attendance: names and dates; settled means that an event is long past.
- For the payout: who may propose, bonds, the views of balances, and what the
  wallet shows. Amounts are whole units.
- Registry plugin, storage, RPC and staking reads, and the construction of
  transactions: no state of their own.

The definitions translate a small share of the repository's lines. Two thirds
of those are React views and components, translations, contracts (schemas of
inputs and outputs), styles and generated routes, which keep no state that
outlives a page and have no order of steps to get wrong; another large part are
queries, permission checks and conversions of records, which the modules above
abstract to what their properties tell apart. Of the code that changes what is
stored or filed on the chain, what is left out is listed above.
