------------------------ MODULE ProposalLifecycleProofs ------------------------
(***************************************************************************)
(* Proofs about the proposal service, for every value of the constants.    *)
(***************************************************************************)
EXTENDS ProposalProperties, SequenceTheorems, TLAPS

(***************************************************************************)
(* Two rows of the same version differ at most in what recordApplyStep     *)
(* writes, the steps and the time of the last activity.                    *)
(***************************************************************************)
SameDecision(row, other) ==
  /\ row.review = other.review
  /\ row.apply = other.apply
  /\ row.remove = other.remove
  /\ row.createdBy = other.createdBy
  /\ row.org = other.org
  /\ row.resource = other.resource

\* What a request found on the row it read, and what of it stays true later.
OldAt(row, time) == time >= row.updatedAt + Timeout

Judged(c, q, time) ==
  /\ q.op = "approve" =>
       \/ q.base.review = "pending"
       \/ q.base.review = "approved" /\ q.base.apply = "failed"
       \/ /\ q.base.review = "approved" /\ q.base.apply = "applying"
          /\ OldAt(q.base, time)
  /\ q.op = "reject" =>
       /\ q.base.apply # "applying"
       /\ \/ q.base.review = "pending"
          \/ /\ q.base.review = "approved"
             /\ q.base.apply \in {"not_started", "failed"}
  /\ q.op = "reopen" => q.base.review = "rejected"
  /\ q.op = "remove" =>
       /\ q.base.review = "approved" /\ q.base.apply = "applied"
       /\ \/ q.base.remove \in {"not_started", "failed"}
          \/ q.base.remove = "removing" /\ OldAt(q.base, time)
  /\ q.op \in {"markApplied", "markApplyFailed"} => q.base.apply = "applying"
  /\ q.op \in {"markRemoved", "markRemoveFailed"} => q.base.remove = "removing"
  /\ q.op = "propose" => MayPropose(c, q.org, q.base)

\* Request q of client c, against row p, at a time, v being the client's view.
RequestOK(c, q, p, time, v) ==
  /\ q.op \in AdminOps => q.base # None /\ v = q.base.updatedAt
  /\ q.op = "propose" => q.stamp > 0
  /\ q.op \in AdminOps \cup {"propose"} /\ q.base # None =>
       /\ p # None
       /\ q.stamp > q.base.updatedAt
       /\ q.base.updatedAt <= p.updatedAt
       /\ q.base.updatedAt = p.updatedAt => SameDecision(q.base, p)
       /\ Judged(c, q, time)

(***************************************************************************)
(* The inductive invariant.  StatusesCohere alone is not inductive: a      *)
(* request writes on the strength of what it read, so the invariant says   *)
(* what a request in flight knows while its row has not moved on.          *)
(***************************************************************************)
IInv ==
  /\ TypeOK
  /\ StatusesCohere
  /\ \A c \in Clients : RequestOK(c, req[c], proposal, clock, view[c])
-----------------------------------------------------------------------------
\* A request of an older version has nothing left to write.
LEMMA Superseded ==
  ASSUME NEW c, NEW q \in Request, NEW p \in Row \cup {None}, NEW p2 \in Row,
         NEW time \in Nat, NEW v,
         RequestOK(c, q, p, time, v),
         p # None => p2.updatedAt > p.updatedAt
  PROVE  RequestOK(c, q, p2, time, v)
<1>1. p2 # None
  BY ConstantsAssumption
<1>2. CASE q.op \in AdminOps \cup {"propose"} /\ q.base # None
  <2>1. q.base \in Row /\ q.base.updatedAt \in Nat /\ p2.updatedAt \in Nat
    BY <1>2 DEF Request, Row
  <2>2. p # None /\ p.updatedAt \in Nat /\ q.base.updatedAt <= p.updatedAt
    BY <1>2 DEF RequestOK, Row
  <2>3. q.base.updatedAt < p2.updatedAt
    BY <2>1, <2>2
  <2>4. QED
    BY <1>1, <1>2, <2>1, <2>3 DEF RequestOK
<1>3. CASE ~(q.op \in AdminOps \cup {"propose"} /\ q.base # None)
  BY <1>3 DEF RequestOK
<1>4. QED
  BY <1>2, <1>3

\* What a request knows survives the passing of time.
LEMMA TimePasses ==
  ASSUME NEW c, NEW q \in Request, NEW p, NEW time \in Nat, NEW v,
         RequestOK(c, q, p, time, v)
  PROVE  RequestOK(c, q, p, time + 1, v)
<1>1. CASE q.op \in AdminOps \cup {"propose"} /\ q.base # None
  <2>1. q.base.updatedAt \in Nat
    BY <1>1 DEF Request, Row
  <2>2. OldAt(q.base, time) => OldAt(q.base, time + 1)
    BY <2>1, ConstantsAssumption DEF OldAt
  <2>3. Judged(c, q, time + 1)
    BY <1>1, <2>2 DEF RequestOK, Judged
  <2>4. QED
    BY <1>1, <2>3 DEF RequestOK
<1>2. CASE ~(q.op \in AdminOps \cup {"propose"} /\ q.base # None)
  BY <1>2 DEF RequestOK
<1>3. QED
  BY <1>1, <1>2

\* A step that replaces the row by a coherent one of a later version.
LEMMA RowReplaced ==
  ASSUME IInv, NEW c \in Clients,
         proposal' \in Row, Coherent(proposal)',
         proposal # None => proposal'.updatedAt > proposal.updatedAt,
         submissions' \in Seq([key: Keys \cup {None}, by: Accounts]),
         audit' \in Seq(Action),
         req' = [req EXCEPT ![c] = Idle],
         UNCHANGED <<clock, view>>
  PROVE  IInv'
<1>1. TypeOK'
  BY DEF IInv, TypeOK, Idle, Request
<1>2. StatusesCohere'
  BY DEF StatusesCohere
<1>3. ASSUME NEW d \in Clients
      PROVE  RequestOK(d, req[d], proposal, clock, view[d])'
  <2>1. CASE d = c
    BY <2>1 DEF RequestOK, Idle, IInv, TypeOK, AdminOps
  <2>2. CASE d # c
    <3>1. req'[d] = req[d] /\ req[d] \in Request /\ clock \in Nat
      BY <2>2 DEF IInv, TypeOK
    <3>2. RequestOK(d, req[d], proposal, clock, view[d])
      BY DEF IInv
    <3>3. RequestOK(d, req[d], proposal', clock, view[d])
      BY <3>1, <3>2, Superseded DEF IInv, TypeOK
    <3>4. QED
      BY <3>1, <3>3
  <2>3. QED
    BY <2>1, <2>2
<1>4. QED
  BY <1>1, <1>2, <1>3 DEF IInv

\* A step that changes nothing but one client's request.
LEMMA RequestMoved ==
  ASSUME IInv, NEW c \in Clients,
         req' \in [Clients -> Request],
         \A d \in Clients \ {c} : req'[d] = req[d],
         RequestOK(c, req'[c], proposal, clock, view[c]),
         UNCHANGED <<proposal, submissions, audit, clock, view>>
  PROVE  IInv'
BY DEF IInv, TypeOK, StatusesCohere, Coherent

\* A step that writes nothing into the row but a setup step.
LEMMA StepRecorded ==
  ASSUME IInv, NEW c \in Clients,
         proposal \in Row, proposal' \in Row,
         SameDecision(proposal', proposal),
         proposal'.updatedAt = proposal.updatedAt,
         audit' \in Seq(Action),
         req' = [req EXCEPT ![c] = Idle],
         UNCHANGED <<submissions, clock, view>>
  PROVE  IInv'
<1>1. TypeOK'
  BY DEF IInv, TypeOK, Idle, Request
<1>2. StatusesCohere'
  BY ConstantsAssumption
  DEF IInv, StatusesCohere, Coherent, SameDecision
<1>3. ASSUME NEW d \in Clients
      PROVE  RequestOK(d, req[d], proposal, clock, view[d])'
  <2>1. CASE d = c
    BY <2>1 DEF RequestOK, Idle, IInv, TypeOK, AdminOps
  <2>2. CASE d # c
    <3>1. req'[d] = req[d]
      BY <2>2 DEF IInv, TypeOK
    <3>2. RequestOK(d, req[d], proposal, clock, view[d])
      BY DEF IInv
    <3>3. proposal # None /\ proposal' # None
      BY ConstantsAssumption
    <3>4. SameDecision(req[d].base, proposal)
            => SameDecision(req[d].base, proposal')
      BY DEF SameDecision
    <3>5. QED
      BY <3>1, <3>2, <3>3, <3>4 DEF RequestOK
  <2>3. QED
    BY <2>1, <2>2
<1>4. QED
  BY <1>1, <1>2, <1>3 DEF IInv
-----------------------------------------------------------------------------
\* What an admin's request knows when it finds its row unchanged.
LEMMA Decided ==
  ASSUME IInv, NEW a \in Admins, req[a].op \in AdminOps, Unchanged(a)
  PROVE  /\ proposal # None /\ proposal \in Row /\ Coherent(proposal)
         /\ req[a].base \in Row
         /\ SameDecision(req[a].base, proposal)
         /\ req[a].base.updatedAt = proposal.updatedAt
         /\ Judged(a, req[a], clock)
         /\ req[a].stamp \in Nat /\ req[a].stamp > proposal.updatedAt
         /\ view[a] = proposal.updatedAt
<1>1. req[a] \in Request /\ a \in Clients
  BY DEF IInv, TypeOK, Clients
<1>2. RequestOK(a, req[a], proposal, clock, view[a])
  BY <1>1 DEF IInv
<1>3. req[a].base # None /\ req[a].base \in Row /\ req[a].stamp \in Nat
  BY <1>1, <1>2 DEF RequestOK, Request
<1>4. proposal # None /\ proposal.updatedAt = req[a].base.updatedAt
  BY <1>3 DEF Unchanged
<1>5. proposal \in Row /\ Coherent(proposal)
  BY <1>4 DEF IInv, TypeOK, StatusesCohere
<1>6. QED
  BY <1>2, <1>3, <1>4, <1>5 DEF RequestOK

LEMMA ReadKeeps ==
  ASSUME IInv, NEW a \in Admins, NEW op \in AdminOps, Read(a, op),
         Judged(a, req[a], clock)'
  PROVE  IInv'
<1>1. a \in Clients /\ req[a] \in Request /\ proposal \in Row
  BY DEF IInv, TypeOK, Clients, Read
<1>2. /\ req'[a].op = op /\ req'[a].base = proposal
      /\ req'[a].stamp = NextTimestamp(proposal.updatedAt)
  BY <1>1 DEF Read, Idle, IInv, TypeOK
<1>3. /\ proposal.updatedAt \in Nat
      /\ NextTimestamp(proposal.updatedAt) \in Nat
      /\ NextTimestamp(proposal.updatedAt) > proposal.updatedAt
  BY <1>1 DEF NextTimestamp, Row, IInv, TypeOK
<1>4. req' \in [Clients -> Request]
  BY <1>1, <1>3 DEF Read, Idle, IInv, TypeOK, Request, AdminOps
<1>5. RequestOK(a, req'[a], proposal, clock, view[a])
  BY <1>2, <1>3 DEF RequestOK, SameDecision, Read, AdminOps
<1>6. \A d \in Clients \ {a} : req'[d] = req[d]
  BY DEF Read, IInv, TypeOK
<1>7. QED
  BY <1>1, <1>4, <1>5, <1>6, RequestMoved DEF Read

\* The write of an admin's operation keeps IInv when the row it writes on an
\* unchanged version is well-typed and coherent.
LEMMA WriteKeeps ==
  ASSUME IInv, NEW a \in Admins, req[a].op \in AdminOps,
         req' = [req EXCEPT ![a] = Idle],
         UNCHANGED <<submissions, clock, view>>,
         \/ ~Unchanged(a) /\ UNCHANGED <<proposal, audit>>
         \/ /\ Unchanged(a)
            /\ proposal' \in Row /\ Coherent(proposal)'
            /\ proposal'.updatedAt = req[a].stamp
            /\ audit' \in Seq(Action)
  PROVE  IInv'
<1>1. a \in Clients
  BY DEF Clients
<1>2. CASE ~Unchanged(a) /\ UNCHANGED <<proposal, audit>>
  <2>1. req' \in [Clients -> Request] /\ req'[a] = Idle
    BY <1>1 DEF IInv, TypeOK, Idle, Request
  <2>2. RequestOK(a, req'[a], proposal, clock, view[a])
    BY <2>1 DEF RequestOK, Idle, AdminOps
  <2>3. \A d \in Clients \ {a} : req'[d] = req[d]
    BY DEF IInv, TypeOK
  <2>4. QED
    BY <1>1, <1>2, <2>1, <2>2, <2>3, RequestMoved
<1>3. CASE /\ Unchanged(a)
           /\ proposal' \in Row /\ Coherent(proposal)'
           /\ proposal'.updatedAt = req[a].stamp
           /\ audit' \in Seq(Action)
  <2>1. proposal'.updatedAt > proposal.updatedAt
    BY <1>3, Decided
  <2>2. submissions' \in Seq([key: Keys \cup {None}, by: Accounts])
    BY DEF IInv, TypeOK
  <2>3. QED
    BY <1>1, <1>3, <2>1, <2>2, RowReplaced
<1>4. QED
  BY <1>2, <1>3
-----------------------------------------------------------------------------
LEMMA InitKeeps == Init => IInv
<1> SUFFICES ASSUME Init PROVE IInv
  OBVIOUS
<1>1. TypeOK
  BY DEF Init, TypeOK, Idle, Request, Clients
<1>2. StatusesCohere
  BY DEF Init, StatusesCohere
<1>3. ASSUME NEW c \in Clients
      PROVE  RequestOK(c, req[c], proposal, clock, view[c])
  BY DEF Init, RequestOK, Idle, AdminOps
<1>4. QED
  BY <1>1, <1>2, <1>3 DEF IInv

LEMMA DecideKeeps ==
  ASSUME IInv, NEW a \in Admins, Decide(a)
  PROVE  IInv'
<1>1. CASE ReadApprove(a)
  <2>1. proposal \in Row /\ proposal # None
    BY <1>1 DEF ReadApprove, Read, IInv, TypeOK
  <2>2. req'[a].op = "approve" /\ req'[a].base = proposal /\ clock' = clock
    BY <1>1 DEF ReadApprove, Read, Idle, IInv, TypeOK, Clients
  <2>3. OldAt(proposal, clock) \/ ~ApplyStalled(proposal)
    BY <2>1, ConstantsAssumption
    DEF OldAt, ApplyStalled, TimedOut, LastActivity, Row, IInv, TypeOK
  <2>4. Judged(a, req[a], clock)'
    BY <1>1, <2>2, <2>3
    DEF Judged, ReadApprove, CanApprove, Retrying, ApplyStalled
  <2>5. QED
    BY <1>1, <2>4, ReadKeeps DEF ReadApprove, AdminOps
<1>2. CASE WriteApprove(a)
  <2>1. /\ req[a].op \in AdminOps
        /\ req' = [req EXCEPT ![a] = Idle]
        /\ UNCHANGED <<submissions, clock, view>>
    BY <1>2 DEF WriteApprove, Write, AdminOps
  <2>2. CASE Unchanged(a)
    <3>1. /\ proposal \in Row /\ Coherent(proposal)
          /\ SameDecision(req[a].base, proposal) /\ req[a].base \in Row
          /\ Judged(a, req[a], clock) /\ req[a].stamp \in Nat
      BY <2>1, <2>2, Decided
    <3>2. /\ proposal' = [proposal EXCEPT !.review = "approved",
                           !.apply = "applying",
                        !.activityAt = req[a].stamp,
                        !.updatedAt = req[a].stamp]
          /\ audit' = Append(audit, IF req[a].base.review = "approved"
                             THEN "apply_retried" ELSE "approved")
      BY <1>2, <2>2, <3>1 DEF WriteApprove, Write, Row
    <3>3. proposal' \in Row /\ proposal'.updatedAt = req[a].stamp
      BY <3>1, <3>2 DEF Row, ReviewStatus, ApplyStatus, RemoveStatus, Step
    <3>4. Coherent(proposal)'
      BY <1>2, <3>1, <3>2 DEF Coherent, Judged, SameDecision, Row,
         WriteApprove, Write
    <3>5. audit' \in Seq(Action)
      BY <3>2 DEF IInv, TypeOK, Action
    <3>6. QED
      BY <2>1, <2>2, <3>3, <3>4, <3>5, WriteKeeps
  <2>3. CASE ~Unchanged(a)
    BY <1>2, <2>1, <2>3, WriteKeeps DEF WriteApprove, Write
  <2>4. QED
    BY <2>2, <2>3
<1>3. CASE ReadReject(a)
  <2>1. req'[a].op = "reject" /\ req'[a].base = proposal
    BY <1>3 DEF ReadReject, Read, Idle, IInv, TypeOK, Clients
  <2>2. Judged(a, req[a], clock)'
    BY <1>3, <2>1 DEF Judged, ReadReject, CanReject
  <2>3. QED
    BY <1>3, <2>2, ReadKeeps DEF ReadReject, AdminOps
<1>4. CASE WriteReject(a)
  <2>1. /\ req[a].op \in AdminOps
        /\ req' = [req EXCEPT ![a] = Idle]
        /\ UNCHANGED <<submissions, clock, view>>
    BY <1>4 DEF WriteReject, Write, AdminOps
  <2>2. CASE Unchanged(a)
    <3>1. /\ proposal \in Row /\ Coherent(proposal)
          /\ SameDecision(req[a].base, proposal) /\ req[a].base \in Row
          /\ Judged(a, req[a], clock) /\ req[a].stamp \in Nat
      BY <2>1, <2>2, Decided
    <3>2. /\ proposal' = [proposal EXCEPT !.review = "rejected",
                           !.apply = "not_started",
                        !.steps = [s \in Steps |-> [status |-> None,
                          resource |-> None]],
                        !.activityAt = 0, !.updatedAt = req[a].stamp]
          /\ audit' = Append(audit, "rejected")
      BY <1>4, <2>2, <3>1 DEF WriteReject, Write, Row
    <3>3. proposal' \in Row /\ proposal'.updatedAt = req[a].stamp
      BY <3>1, <3>2 DEF Row, ReviewStatus, ApplyStatus, RemoveStatus, Step
    <3>4. Coherent(proposal)'
      BY <1>4, <3>1, <3>2 DEF Coherent, Judged, SameDecision, Row,
         WriteReject, Write
    <3>5. audit' \in Seq(Action)
      BY <3>2 DEF IInv, TypeOK, Action
    <3>6. QED
      BY <2>1, <2>2, <3>3, <3>4, <3>5, WriteKeeps
  <2>3. CASE ~Unchanged(a)
    BY <1>4, <2>1, <2>3, WriteKeeps DEF WriteReject, Write
  <2>4. QED
    BY <2>2, <2>3
<1>5. CASE ReadReopen(a)
  <2>1. req'[a].op = "reopen" /\ req'[a].base = proposal
    BY <1>5 DEF ReadReopen, Read, Idle, IInv, TypeOK, Clients
  <2>2. Judged(a, req[a], clock)'
    BY <1>5, <2>1 DEF Judged, ReadReopen
  <2>3. QED
    BY <1>5, <2>2, ReadKeeps DEF ReadReopen, AdminOps
<1>6. CASE WriteReopen(a)
  <2>1. /\ req[a].op \in AdminOps
        /\ req' = [req EXCEPT ![a] = Idle]
        /\ UNCHANGED <<submissions, clock, view>>
    BY <1>6 DEF WriteReopen, Write, AdminOps
  <2>2. CASE Unchanged(a)
    <3>1. /\ proposal \in Row /\ Coherent(proposal)
          /\ SameDecision(req[a].base, proposal) /\ req[a].base \in Row
          /\ Judged(a, req[a], clock) /\ req[a].stamp \in Nat
      BY <2>1, <2>2, Decided
    <3>2. /\ proposal' = [proposal EXCEPT !.review = "pending",
                           !.updatedAt = req[a].stamp]
          /\ audit' = Append(audit, "reopened")
      BY <1>6, <2>2, <3>1 DEF WriteReopen, Write, Row
    <3>3. proposal' \in Row /\ proposal'.updatedAt = req[a].stamp
      BY <3>1, <3>2 DEF Row, ReviewStatus, ApplyStatus, RemoveStatus, Step
    <3>4. Coherent(proposal)'
      BY <1>6, <3>1, <3>2 DEF Coherent, Judged, SameDecision, Row,
         WriteReopen, Write
    <3>5. audit' \in Seq(Action)
      BY <3>2 DEF IInv, TypeOK, Action
    <3>6. QED
      BY <2>1, <2>2, <3>3, <3>4, <3>5, WriteKeeps
  <2>3. CASE ~Unchanged(a)
    BY <1>6, <2>1, <2>3, WriteKeeps DEF WriteReopen, Write
  <2>4. QED
    BY <2>2, <2>3
<1>7. CASE ReadRemove(a)
  <2>1. req'[a].op = "remove" /\ req'[a].base = proposal /\ clock' = clock
    BY <1>7 DEF ReadRemove, Read, Idle, IInv, TypeOK, Clients
  <2>2. Judged(a, req[a], clock)'
    BY <1>7, <2>1
    DEF Judged, ReadRemove, CanRemove, RetryingRemoval, TimedOut, OldAt
  <2>3. QED
    BY <1>7, <2>2, ReadKeeps DEF ReadRemove, AdminOps
<1>8. CASE WriteRemove(a)
  <2>1. /\ req[a].op \in AdminOps
        /\ req' = [req EXCEPT ![a] = Idle]
        /\ UNCHANGED <<submissions, clock, view>>
    BY <1>8 DEF WriteRemove, Write, AdminOps
  <2>2. CASE Unchanged(a)
    <3>1. /\ proposal \in Row /\ Coherent(proposal)
          /\ SameDecision(req[a].base, proposal) /\ req[a].base \in Row
          /\ Judged(a, req[a], clock) /\ req[a].stamp \in Nat
      BY <2>1, <2>2, Decided
    <3>2. /\ proposal' = [proposal EXCEPT !.remove = "removing",
                           !.updatedAt = req[a].stamp]
          /\ audit' = Append(audit, IF req[a].base.remove = "not_started"
              THEN "approval_revocation_started" ELSE "removal_retried")
      BY <1>8, <2>2, <3>1 DEF WriteRemove, Write, Row
    <3>3. proposal' \in Row /\ proposal'.updatedAt = req[a].stamp
      BY <3>1, <3>2 DEF Row, ReviewStatus, ApplyStatus, RemoveStatus, Step
    <3>4. Coherent(proposal)'
      BY <1>8, <3>1, <3>2 DEF Coherent, Judged, SameDecision, Row,
         WriteRemove, Write
    <3>5. audit' \in Seq(Action)
      BY <3>2 DEF IInv, TypeOK, Action
    <3>6. QED
      BY <2>1, <2>2, <3>3, <3>4, <3>5, WriteKeeps
  <2>3. CASE ~Unchanged(a)
    BY <1>8, <2>1, <2>3, WriteKeeps DEF WriteRemove, Write
  <2>4. QED
    BY <2>2, <2>3
<1>9. QED
  BY <1>1, <1>2, <1>3, <1>4, <1>5, <1>6, <1>7, <1>8 DEF Decide

LEMMA ReportKeeps ==
  ASSUME IInv, NEW a \in Admins, Report(a)
  PROVE  IInv'
<1>1. CASE ReadMarkApplied(a)
  <2>1. req'[a].op = "markApplied" /\ req'[a].base = proposal
    BY <1>1 DEF ReadMarkApplied, Read, Idle, IInv, TypeOK, Clients
  <2>2. Judged(a, req[a], clock)'
    BY <1>1, <2>1 DEF Judged, ReadMarkApplied
  <2>3. QED
    BY <1>1, <2>2, ReadKeeps DEF ReadMarkApplied, AdminOps
<1>2. ASSUME NEW r \in Resources \cup {None}, WriteMarkApplied(a, r)
      PROVE  IInv'
  <2>1. /\ req[a].op \in AdminOps
        /\ req' = [req EXCEPT ![a] = Idle]
        /\ UNCHANGED <<submissions, clock, view>>
    BY <1>2 DEF WriteMarkApplied, Write, AdminOps
  <2>2. CASE Unchanged(a)
    <3>1. /\ proposal \in Row /\ Coherent(proposal)
          /\ SameDecision(req[a].base, proposal) /\ req[a].base \in Row
          /\ Judged(a, req[a], clock) /\ req[a].stamp \in Nat
      BY <2>1, <2>2, Decided
    <3>2. /\ proposal' = [proposal EXCEPT !.apply = "applied",
                        !.resource = IF r # None THEN r
                          ELSE req[a].base.resource,
                        !.updatedAt = req[a].stamp]
          /\ audit' = Append(audit, "applied")
      BY <1>2, <2>2, <3>1 DEF WriteMarkApplied, Write, Row
    <3>3. proposal' \in Row /\ proposal'.updatedAt = req[a].stamp
      BY <3>1, <3>2 DEF Row, ReviewStatus, ApplyStatus, RemoveStatus, Step
    <3>4. Coherent(proposal)'
      BY <1>2, <3>1, <3>2 DEF Coherent, Judged, SameDecision, Row,
         WriteMarkApplied, Write
    <3>5. audit' \in Seq(Action)
      BY <3>2 DEF IInv, TypeOK, Action
    <3>6. QED
      BY <2>1, <2>2, <3>3, <3>4, <3>5, WriteKeeps
  <2>3. CASE ~Unchanged(a)
    BY <1>2, <2>1, <2>3, WriteKeeps DEF WriteMarkApplied, Write
  <2>4. QED
    BY <2>2, <2>3
<1>3. CASE ReadMarkApplyFailed(a)
  <2>1. req'[a].op = "markApplyFailed" /\ req'[a].base = proposal
    BY <1>3 DEF ReadMarkApplyFailed, Read, Idle, IInv, TypeOK, Clients
  <2>2. Judged(a, req[a], clock)'
    BY <1>3, <2>1 DEF Judged, ReadMarkApplyFailed
  <2>3. QED
    BY <1>3, <2>2, ReadKeeps DEF ReadMarkApplyFailed, AdminOps
<1>4. CASE WriteMarkApplyFailed(a)
  <2>1. /\ req[a].op \in AdminOps
        /\ req' = [req EXCEPT ![a] = Idle]
        /\ UNCHANGED <<submissions, clock, view>>
    BY <1>4 DEF WriteMarkApplyFailed, Write, AdminOps
  <2>2. CASE Unchanged(a)
    <3>1. /\ proposal \in Row /\ Coherent(proposal)
          /\ SameDecision(req[a].base, proposal) /\ req[a].base \in Row
          /\ Judged(a, req[a], clock) /\ req[a].stamp \in Nat
      BY <2>1, <2>2, Decided
    <3>2. /\ proposal' = [proposal EXCEPT !.apply = "failed",
                           !.updatedAt = req[a].stamp]
          /\ audit' = Append(audit, "apply_failed")
      BY <1>4, <2>2, <3>1 DEF WriteMarkApplyFailed, Write, Row
    <3>3. proposal' \in Row /\ proposal'.updatedAt = req[a].stamp
      BY <3>1, <3>2 DEF Row, ReviewStatus, ApplyStatus, RemoveStatus, Step
    <3>4. Coherent(proposal)'
      BY <1>4, <3>1, <3>2 DEF Coherent, Judged, SameDecision, Row,
         WriteMarkApplyFailed, Write
    <3>5. audit' \in Seq(Action)
      BY <3>2 DEF IInv, TypeOK, Action
    <3>6. QED
      BY <2>1, <2>2, <3>3, <3>4, <3>5, WriteKeeps
  <2>3. CASE ~Unchanged(a)
    BY <1>4, <2>1, <2>3, WriteKeeps DEF WriteMarkApplyFailed, Write
  <2>4. QED
    BY <2>2, <2>3
<1>5. CASE ReadMarkRemoved(a)
  <2>1. req'[a].op = "markRemoved" /\ req'[a].base = proposal
    BY <1>5 DEF ReadMarkRemoved, Read, Idle, IInv, TypeOK, Clients
  <2>2. Judged(a, req[a], clock)'
    BY <1>5, <2>1 DEF Judged, ReadMarkRemoved
  <2>3. QED
    BY <1>5, <2>2, ReadKeeps DEF ReadMarkRemoved, AdminOps
<1>6. CASE WriteMarkRemoved(a)
  <2>1. /\ req[a].op \in AdminOps
        /\ req' = [req EXCEPT ![a] = Idle]
        /\ UNCHANGED <<submissions, clock, view>>
    BY <1>6 DEF WriteMarkRemoved, Write, AdminOps
  <2>2. CASE Unchanged(a)
    <3>1. /\ proposal \in Row /\ Coherent(proposal)
          /\ SameDecision(req[a].base, proposal) /\ req[a].base \in Row
          /\ Judged(a, req[a], clock) /\ req[a].stamp \in Nat
      BY <2>1, <2>2, Decided
    <3>2. /\ proposal' = [proposal EXCEPT !.review = "removed",
                           !.remove = "removed",
                        !.updatedAt = req[a].stamp]
          /\ audit' = Append(audit, "approval_revoked")
      BY <1>6, <2>2, <3>1 DEF WriteMarkRemoved, Write, Row
    <3>3. proposal' \in Row /\ proposal'.updatedAt = req[a].stamp
      BY <3>1, <3>2 DEF Row, ReviewStatus, ApplyStatus, RemoveStatus, Step
    <3>4. Coherent(proposal)'
      BY <1>6, <3>1, <3>2 DEF Coherent, Judged, SameDecision, Row,
         WriteMarkRemoved, Write
    <3>5. audit' \in Seq(Action)
      BY <3>2 DEF IInv, TypeOK, Action
    <3>6. QED
      BY <2>1, <2>2, <3>3, <3>4, <3>5, WriteKeeps
  <2>3. CASE ~Unchanged(a)
    BY <1>6, <2>1, <2>3, WriteKeeps DEF WriteMarkRemoved, Write
  <2>4. QED
    BY <2>2, <2>3
<1>7. CASE ReadMarkRemoveFailed(a)
  <2>1. req'[a].op = "markRemoveFailed" /\ req'[a].base = proposal
    BY <1>7 DEF ReadMarkRemoveFailed, Read, Idle, IInv, TypeOK, Clients
  <2>2. Judged(a, req[a], clock)'
    BY <1>7, <2>1 DEF Judged, ReadMarkRemoveFailed
  <2>3. QED
    BY <1>7, <2>2, ReadKeeps DEF ReadMarkRemoveFailed, AdminOps
<1>8. CASE WriteMarkRemoveFailed(a)
  <2>1. /\ req[a].op \in AdminOps
        /\ req' = [req EXCEPT ![a] = Idle]
        /\ UNCHANGED <<submissions, clock, view>>
    BY <1>8 DEF WriteMarkRemoveFailed, Write, AdminOps
  <2>2. CASE Unchanged(a)
    <3>1. /\ proposal \in Row /\ Coherent(proposal)
          /\ SameDecision(req[a].base, proposal) /\ req[a].base \in Row
          /\ Judged(a, req[a], clock) /\ req[a].stamp \in Nat
      BY <2>1, <2>2, Decided
    <3>2. /\ proposal' = [proposal EXCEPT !.remove = "failed",
                           !.updatedAt = req[a].stamp]
          /\ audit' = Append(audit, "remove_failed")
      BY <1>8, <2>2, <3>1 DEF WriteMarkRemoveFailed, Write, Row
    <3>3. proposal' \in Row /\ proposal'.updatedAt = req[a].stamp
      BY <3>1, <3>2 DEF Row, ReviewStatus, ApplyStatus, RemoveStatus, Step
    <3>4. Coherent(proposal)'
      BY <1>8, <3>1, <3>2 DEF Coherent, Judged, SameDecision, Row,
         WriteMarkRemoveFailed, Write
    <3>5. audit' \in Seq(Action)
      BY <3>2 DEF IInv, TypeOK, Action
    <3>6. QED
      BY <2>1, <2>2, <3>3, <3>4, <3>5, WriteKeeps
  <2>3. CASE ~Unchanged(a)
    BY <1>8, <2>1, <2>3, WriteKeeps DEF WriteMarkRemoveFailed, Write
  <2>4. QED
    BY <2>2, <2>3
<1>9. QED
  BY <1>1, <1>2, <1>3, <1>4, <1>5, <1>6, <1>7, <1>8 DEF Report

\* A request that ends, or that has read nothing yet, leaves IInv alone.
LEMMA RequestEnds ==
  ASSUME IInv, NEW c \in Clients,
         req' \in [Clients -> Request],
         req'[c].op \in {"idle", "lookedUp", "record"},
         \A d \in Clients \ {c} : req'[d] = req[d],
         UNCHANGED <<proposal, submissions, audit, clock, view>>
  PROVE  IInv'
<1>1. RequestOK(c, req'[c], proposal, clock, view[c])
  BY DEF RequestOK, AdminOps
<1>2. QED
  BY <1>1, RequestMoved

LEMMA DropKeeps ==
  ASSUME IInv, NEW c \in Clients, Drop(c)
  PROVE  IInv'
<1>1. req' \in [Clients -> Request] /\ req'[c].op = "idle"
  BY DEF Drop, IInv, TypeOK, Idle, Request
<1>2. \A d \in Clients \ {c} : req'[d] = req[d]
  BY DEF Drop, IInv, TypeOK
<1>3. QED
  BY <1>1, <1>2, RequestEnds DEF Drop

\* Recording a step leaves all that decisions rest on alone.
LEMMA Recorded ==
  ASSUME IInv, NEW a \in Admins, NEW s \in Steps, NEW status \in StepStatus,
         NEW r \in Resources \cup {None}, WriteRecord(a, s, status, r),
         SetupActive(proposal)
  PROVE  /\ proposal \in Row
         /\ proposal' \in Row /\ SameDecision(proposal', proposal)
         /\ proposal'.updatedAt = proposal.updatedAt
         /\ req' = [req EXCEPT ![a] = Idle]
         /\ audit' \in Seq(Action)
         /\ UNCHANGED <<submissions, clock, view>>
<1>1. proposal \in Row /\ a \in Clients
  BY DEF SetupActive, IInv, TypeOK, Clients
<1> DEFINE previous == proposal.steps[s]
           step == [status |-> status,
                    resource |-> StepResource(previous, status, r)]
<1>2. previous \in Step
  BY <1>1 DEF Row
<1>3. StepResource(previous, status, r) \in Resources \cup {None}
  BY <1>2 DEF StepResource, Step
<1>4. step \in Step
  BY <1>3 DEF Step
<1>5. /\ req' = [req EXCEPT ![a] = Idle]
      /\ proposal' = [proposal EXCEPT !.activityAt = req[a].stamp,
                        !.steps[s] = IF StepKept(previous, step)
                                       THEN @ ELSE step]
      /\ audit' = IF StepKept(previous, step) THEN audit
                    ELSE Append(audit, "apply_step_recorded")
      /\ UNCHANGED <<submissions, clock, view>>
  BY DEF WriteRecord
<1>6. req[a].stamp \in Nat
  BY <1>1 DEF IInv, TypeOK, Request
<1>7. proposal' \in Row /\ SameDecision(proposal', proposal)
      /\ proposal'.updatedAt = proposal.updatedAt
  BY <1>1, <1>2, <1>4, <1>5, <1>6 DEF Row, SameDecision
<1>8. audit' \in Seq(Action)
  BY <1>5 DEF IInv, TypeOK, Action
<1>9. QED
  BY <1>1, <1>5, <1>7, <1>8

LEMMA RecordKeeps ==
  ASSUME IInv, NEW a \in Admins, Record(a)
  PROVE  IInv'
<1>1. a \in Clients
  BY DEF Clients
<1>2. CASE BeginRecord(a)
  <2>1. req' \in [Clients -> Request] /\ req'[a].op = "record"
    BY <1>1, <1>2 DEF BeginRecord, IInv, TypeOK, Idle, Request
  <2>2. \A d \in Clients \ {a} : req'[d] = req[d]
    BY <1>2 DEF BeginRecord, IInv, TypeOK
  <2>3. QED
    BY <1>1, <1>2, <2>1, <2>2, RequestEnds DEF BeginRecord
<1>3. ASSUME NEW s \in Steps, NEW status \in StepStatus,
             NEW r \in Resources \cup {None}, WriteRecord(a, s, status, r)
      PROVE  IInv'
  <2>1. CASE SetupActive(proposal)
    BY <1>1, <1>3, <2>1, Recorded, StepRecorded DEF SetupActive
  <2>2. CASE ~SetupActive(proposal)
    <3>1. req' = [req EXCEPT ![a] = Idle]
          /\ UNCHANGED <<proposal, submissions, audit, clock, view>>
      BY <1>3, <2>2 DEF WriteRecord
    <3>2. req' \in [Clients -> Request] /\ req'[a].op = "idle"
      BY <1>1, <3>1 DEF IInv, TypeOK, Idle, Request
    <3>3. \A d \in Clients \ {a} : req'[d] = req[d]
      BY <3>1 DEF IInv, TypeOK
    <3>4. QED
      BY <1>1, <3>1, <3>2, <3>3, RequestEnds
  <2>3. QED
    BY <2>1, <2>2
<1>4. QED
  BY <1>2, <1>3 DEF Record

LEMMA ProposeKeeps ==
  ASSUME IInv, NEW c \in Applicants, Propose(c)
  PROVE  IInv'
<1>1. /\ c \in Clients /\ req[c] \in Request
      /\ Account[c] \in Accounts
  BY ConstantsAssumption DEF Clients, IInv, TypeOK
<1>2. ASSUME NEW k \in Keys \cup {None}, NEW o \in Orgs \cup {None},
             LookUpKey(c, k, o)
      PROVE  IInv'
  <2>1. req' \in [Clients -> Request] /\ req'[c].op = "lookedUp"
    BY <1>1, <1>2 DEF LookUpKey, IInv, TypeOK, Idle, Request
  <2>2. \A d \in Clients \ {c} : req'[d] = req[d]
    BY <1>2 DEF LookUpKey, IInv, TypeOK
  <2>3. QED
    BY <1>1, <1>2, <2>1, <2>2, RequestEnds DEF LookUpKey
<1>3. CASE ReadPropose(c)
  <2>1. /\ PreviousStamp \in Nat /\ NextTimestamp(PreviousStamp) \in Nat
        /\ NextTimestamp(PreviousStamp) > PreviousStamp
    BY DEF PreviousStamp, NextTimestamp, IInv, TypeOK, Row
  <2>2. \A d \in Clients \ {c} : req'[d] = req[d]
    BY <1>3 DEF ReadPropose, IInv, TypeOK
  <2>3. CASE proposal = None \/ MayPropose(c, req[c].org, proposal)
    <3>1. /\ req'[c] = [req[c] EXCEPT !.op = "propose", !.base = proposal,
                                      !.stamp = NextTimestamp(PreviousStamp)]
          /\ req' \in [Clients -> Request]
      BY <1>1, <1>3, <2>1, <2>3 DEF ReadPropose, IInv, TypeOK, Request
    <3>2. /\ req'[c].op = "propose" /\ req'[c].base = proposal
          /\ req'[c].org = req[c].org
          /\ req'[c].stamp = NextTimestamp(PreviousStamp)
      BY <1>1, <3>1 DEF Request
    <3>3. "propose" \notin AdminOps
      BY DEF AdminOps
    <3>4. proposal # None => Judged(c, req'[c], clock)
      BY <2>3, <3>2 DEF Judged
    <3>5. proposal # None => PreviousStamp = proposal.updatedAt
      BY DEF PreviousStamp
    <3>6. PreviousStamp >= 0
      BY <2>1
    <3>7. RequestOK(c, req'[c], proposal, clock, view[c])
      BY <2>1, <3>2, <3>3, <3>4, <3>5, <3>6 DEF RequestOK, SameDecision
    <3>8. QED
      BY <1>1, <1>3, <2>2, <3>1, <3>7, RequestMoved DEF ReadPropose
  <2>4. CASE ~(proposal = None \/ MayPropose(c, req[c].org, proposal))
    <3>1. req' \in [Clients -> Request] /\ req'[c].op = "idle"
      BY <1>1, <1>3, <2>4 DEF ReadPropose, IInv, TypeOK, Idle, Request
    <3>2. QED
      BY <1>1, <1>3, <2>2, <3>1, RequestEnds DEF ReadPropose
  <2>5. QED
    BY <2>3, <2>4
<1>4. CASE WritePropose(c)
  <2>1. req' = [req EXCEPT ![c] = Idle] /\ UNCHANGED <<clock, view>>
        /\ req[c].op = "propose"
    BY <1>4 DEF WritePropose
  <2>2. CASE Unchanged(c) /\ ~KeyUsed(req[c].key)
    <3>1. RequestOK(c, req[c], proposal, clock, view[c])
      BY <1>1 DEF IInv
    <3>2. /\ submissions' \in Seq([key: Keys \cup {None}, by: Accounts])
          /\ audit' \in Seq(Action)
      <4>1. /\ submissions' = Append(submissions,
                                     [key |-> req[c].key, by |-> Account[c]])
            /\ audit' = Append(audit, "proposed")
        BY <1>4, <2>2 DEF WritePropose
      <4>2. /\ [key |-> req[c].key, by |-> Account[c]] \in
                 [key: Keys \cup {None}, by: Accounts]
            /\ "proposed" \in Action
        BY <1>1 DEF Request, Action
      <4>3. /\ submissions \in Seq([key: Keys \cup {None}, by: Accounts])
            /\ audit \in Seq(Action)
        BY DEF IInv, TypeOK
      <4>4. submissions' \in Seq([key: Keys \cup {None}, by: Accounts])
        BY <4>1, <4>2, <4>3, AppendProperties
      <4>5. audit' \in Seq(Action)
        BY <4>1, <4>2, <4>3, AppendProperties
      <4>6. QED
        BY <4>4, <4>5
    <3>3. NewRow(c) \in Row /\ NewRow(c).updatedAt = req[c].stamp
          /\ Coherent(NewRow(c))
      BY <1>1 DEF NewRow, Row, Request, Step, ReviewStatus, ApplyStatus,
                  RemoveStatus, Coherent
    <3>4. CASE proposal = None
      <4>1. proposal' = NewRow(c)
        BY <1>4, <2>2, <3>4 DEF WritePropose
      <4>2. Coherent(proposal)'
        BY <3>3, <4>1 DEF Coherent
      <4>3. QED
        BY <1>1, <2>1, <3>2, <3>3, <3>4, <4>1, <4>2, RowReplaced
    <3>5. CASE proposal # None
      <4>1. proposal' = ResubmittedRow(c) /\ proposal \in Row
        BY <1>4, <2>2, <3>5 DEF WritePropose, IInv, TypeOK
      <4>2. req[c].base # None /\ proposal.updatedAt = req[c].base.updatedAt
        BY <2>2, <3>5 DEF Unchanged
      <4>3. req[c].stamp > proposal.updatedAt
        BY <2>1, <3>1, <4>2 DEF RequestOK
      <4>4. proposal' \in Row /\ proposal'.updatedAt = req[c].stamp
        BY <3>3, <4>1 DEF ResubmittedRow, Row, NewRow
      <4>5. Coherent(proposal)'
        BY <3>3, <4>1 DEF ResubmittedRow, NewRow, Coherent
      <4>6. QED
        BY <1>1, <2>1, <3>2, <3>5, <4>3, <4>4, <4>5, RowReplaced
    <3>6. QED
      BY <3>4, <3>5
  <2>3. CASE ~(Unchanged(c) /\ ~KeyUsed(req[c].key))
    <3>1. UNCHANGED <<proposal, submissions, audit>>
      BY <1>4, <2>3 DEF WritePropose
    <3>2. req' \in [Clients -> Request] /\ req'[c].op = "idle"
      BY <1>1, <2>1 DEF IInv, TypeOK, Idle, Request
    <3>3. \A d \in Clients \ {c} : req'[d] = req[d]
      BY <2>1 DEF IInv, TypeOK
    <3>4. QED
      BY <1>1, <2>1, <3>1, <3>2, <3>3, RequestEnds
  <2>4. QED
    BY <2>2, <2>3
<1>5. QED
  BY <1>2, <1>3, <1>4 DEF Propose

LEMMA LoadKeeps ==
  ASSUME IInv, NEW a \in Admins, Load(a)
  PROVE  IInv'
<1>1. TypeOK'
  BY DEF Load, IInv, TypeOK, Row
<1>2. StatusesCohere'
  BY DEF Load, IInv, StatusesCohere, Coherent
<1>3. ASSUME NEW c \in Clients
      PROVE  RequestOK(c, req[c], proposal, clock, view[c])'
  <2>1. CASE c = a
    BY <2>1 DEF Load, RequestOK, Idle, AdminOps
  <2>2. CASE c # a
    <3>1. view'[c] = view[c]
      BY <2>2 DEF Load, IInv, TypeOK
    <3>2. QED
      BY <3>1 DEF Load, IInv
  <2>3. QED
    BY <2>1, <2>2
<1>4. QED
  BY <1>1, <1>2, <1>3 DEF IInv

LEMMA TickKeeps == IInv /\ Tick => IInv'
<1> SUFFICES ASSUME IInv, Tick PROVE IInv'
  OBVIOUS
<1>1. TypeOK' /\ StatusesCohere'
  BY DEF Tick, IInv, TypeOK, StatusesCohere, Coherent
<1>2. ASSUME NEW c \in Clients
      PROVE  RequestOK(c, req[c], proposal, clock, view[c])'
  <2>1. /\ req[c] \in Request /\ clock \in Nat
        /\ RequestOK(c, req[c], proposal, clock, view[c])
    BY DEF IInv, TypeOK
  <2>2. RequestOK(c, req[c], proposal, clock + 1, view[c])
    BY <2>1, TimePasses
  <2>3. QED
    BY <2>2 DEF Tick
<1>3. QED
  BY <1>1, <1>2 DEF IInv

LEMMA NextKeeps == IInv /\ [Next]_vars => IInv'
<1> SUFFICES ASSUME IInv, [Next]_vars PROVE IInv'
  OBVIOUS
<1>1. ASSUME NEW c \in Applicants, Propose(c) PROVE IInv'
  BY <1>1, ProposeKeeps
<1>2. ASSUME NEW a \in Admins, Load(a) \/ Decide(a) \/ Report(a) \/ Record(a)
      PROVE  IInv'
  BY <1>2, LoadKeeps, DecideKeeps, ReportKeeps, RecordKeeps
<1>3. ASSUME NEW c \in Clients, Drop(c) PROVE IInv'
  BY <1>3, DropKeeps
<1>4. CASE Tick
  BY <1>4, TickKeeps
<1>5. CASE UNCHANGED vars
  BY <1>5 DEF vars, IInv, TypeOK, StatusesCohere, Coherent, RequestOK,
              SameDecision
<1>6. QED
  BY <1>1, <1>2, <1>3, <1>4, <1>5 DEF Next

(***************************************************************************)
(* The inductive invariant holds in every reachable state, for every set   *)
(* of admins and applicants, every policy and every timeout.               *)
(***************************************************************************)
THEOREM Invariance == Spec => []IInv
BY InitKeeps, NextKeeps, PTL DEF Spec

(***************************************************************************)
(* Type correctness of the proposal service's state.                       *)
(***************************************************************************)
THEOREM TypeCorrect == Spec => []TypeOK
<1>1. IInv => TypeOK
  BY DEF IInv
<1>2. QED
  BY <1>1, Invariance, PTL

(***************************************************************************)
(* The status columns of a proposal cohere, whatever requests interleave:  *)
(* the compare-and-set on updatedAt alone protects all three of them.      *)
(***************************************************************************)
THEOREM Coherence == Spec => []StatusesCohere
<1>1. IInv => StatusesCohere
  BY DEF IInv
<1>2. QED
  BY <1>1, Invariance, PTL
=============================================================================
