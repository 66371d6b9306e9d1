----------------------- MODULE ProposalRefinementProofs -----------------------
(***************************************************************************)
(* The proposal service implements the abstract lifecycle, for every value *)
(* of the constants; the row's history keeps its owner, its completed      *)
(* steps and every submission key's one use; and the audit log tells it.   *)
(***************************************************************************)
EXTENDS ProposalLifecycleProofs, ProposalAudit, FiniteSetTheorems

\* A step that leaves row, views and clock alone is invisible.
LEMMA Invisible ==
  ASSUME UNCHANGED <<proposal, clock, view>>
  PROVE  UNCHANGED Review!reviewVars
BY DEF Review!reviewVars, StageOf, PreviousStamp

\* Writing on an unchanged version takes a step to a later one.
LEMMA VersionGrows ==
  ASSUME IInv, NEW a \in Admins, req[a].op \in AdminOps, Unchanged(a),
         proposal' \in Row, proposal'.updatedAt = req[a].stamp
  PROVE  /\ view[a] = PreviousStamp
         /\ PreviousStamp' \in Nat /\ PreviousStamp' > PreviousStamp
<1>1. /\ proposal # None /\ view[a] = proposal.updatedAt
      /\ req[a].stamp > proposal.updatedAt
  BY Decided
<1>2. proposal' # None /\ proposal'.updatedAt \in Nat
  BY ConstantsAssumption DEF Row
<1>3. PreviousStamp = proposal.updatedAt
  /\ PreviousStamp' = proposal'.updatedAt
  BY <1>1, <1>2 DEF PreviousStamp
<1>4. QED
  BY <1>1, <1>2, <1>3
-----------------------------------------------------------------------------
LEMMA ApproveMaps ==
  ASSUME IInv, NEW a \in Admins, WriteApprove(a)
  PROVE  Review!ReviewNext \/ UNCHANGED Review!reviewVars
<1>1. req[a].op \in AdminOps /\ UNCHANGED <<clock, view>>
  BY DEF WriteApprove, Write, AdminOps
<1>2. CASE ~Unchanged(a)
  BY <1>1, <1>2, Invisible DEF WriteApprove, Write
<1>3. CASE Unchanged(a)
  <2>1. /\ proposal # None /\ proposal \in Row /\ Coherent(proposal)
        /\ req[a].base \in Row /\ SameDecision(req[a].base, proposal)
        /\ req[a].base.updatedAt = proposal.updatedAt
        /\ Judged(a, req[a], clock) /\ req[a].stamp \in Nat
    BY <1>1, <1>3, Decided
  <2>2. proposal' = [proposal EXCEPT !.review = "approved",
                                  !.apply = "applying",
                                  !.activityAt = req[a].stamp,
                                  !.updatedAt = req[a].stamp]
    BY <1>3, <2>1 DEF WriteApprove, Write, Row
  <2>0. proposal' \in Row /\ proposal'.updatedAt = req[a].stamp
    BY <2>1, <2>2 DEF Row, ReviewStatus, ApplyStatus, RemoveStatus, Step
  <2>3. /\ proposal' \in Row /\ proposal'.updatedAt = req[a].stamp
        /\ proposal' # None
    BY <2>0, ConstantsAssumption
  <2>4. /\ view[a] = PreviousStamp
        /\ PreviousStamp' \in Nat /\ PreviousStamp' > PreviousStamp
    BY <1>1, <1>3, <2>3, VersionGrows
  <2>5. StageOf(proposal)' = "applying"
    BY <2>1, <2>2, <2>3
    DEF StageOf, Judged, SameDecision, Coherent, Row, ReviewStatus,
      WriteApprove, Write
  <2>6. CASE proposal.review = "pending"
    <3>1. StageOf(proposal) \in {"pending"}
      BY <2>1, <2>6 DEF StageOf, Judged, SameDecision, Coherent, Row,
                      RemoveStatus, WriteApprove, Write
    <3>2. Review!Approve(a)
      BY <1>1, <2>4, <2>5, <3>1 DEF Review!Approve, Review!Move
    <3>3. QED
      BY <3>2 DEF Review!ReviewNext
  <2>7. CASE proposal.review = "approved" /\ proposal.apply = "failed"
    <3>1. StageOf(proposal) \in {"applyFailed"}
      BY <2>1, <2>7 DEF StageOf, Judged, SameDecision, Coherent, Row,
                      RemoveStatus, WriteApprove, Write
    <3>2. Review!Approve(a)
      BY <1>1, <2>4, <2>5, <3>1 DEF Review!Approve, Review!Move
    <3>3. QED
      BY <3>2 DEF Review!ReviewNext
  <2>8. CASE proposal.review = "approved" /\ proposal.apply = "applying"
    <3>1. StageOf(proposal) \in {"applying"}
      BY <2>1, <2>8 DEF StageOf, Judged, SameDecision, Coherent, Row,
                      RemoveStatus, WriteApprove, Write
    <3>2. clock >= PreviousStamp + Timeout
      BY <2>1, <2>8
      DEF Judged, SameDecision, OldAt, PreviousStamp, WriteApprove, Write
    <3>3. Review!TakeOver(a)
      BY <1>1, <2>4, <2>5, <3>1, <3>2
      DEF Review!TakeOver, Review!Move, Review!Overdue
    <3>4. QED
      BY <3>3 DEF Review!ReviewNext
  <2>9. QED
    BY <2>1, <2>6, <2>7, <2>8
    DEF Judged, SameDecision, Row, RemoveStatus, WriteApprove, Write
<1>4. QED
  BY <1>2, <1>3

LEMMA RejectMaps ==
  ASSUME IInv, NEW a \in Admins, WriteReject(a)
  PROVE  Review!ReviewNext \/ UNCHANGED Review!reviewVars
<1>1. req[a].op \in AdminOps /\ UNCHANGED <<clock, view>>
  BY DEF WriteReject, Write, AdminOps
<1>2. CASE ~Unchanged(a)
  BY <1>1, <1>2, Invisible DEF WriteReject, Write
<1>3. CASE Unchanged(a)
  <2>1. /\ proposal # None /\ proposal \in Row /\ Coherent(proposal)
        /\ req[a].base \in Row /\ SameDecision(req[a].base, proposal)
        /\ req[a].base.updatedAt = proposal.updatedAt
        /\ Judged(a, req[a], clock) /\ req[a].stamp \in Nat
    BY <1>1, <1>3, Decided
  <2>2. proposal' = [proposal EXCEPT !.review = "rejected",
                                  !.apply = "not_started",
                                  !.steps = [s \in Steps |-> [status |-> None,
                                    resource |-> None]],
                                  !.activityAt = 0,
                                  !.updatedAt = req[a].stamp]
    BY <1>3, <2>1 DEF WriteReject, Write, Row
  <2>0. proposal' \in Row /\ proposal'.updatedAt = req[a].stamp
    BY <2>1, <2>2 DEF Row, ReviewStatus, ApplyStatus, RemoveStatus, Step
  <2>3. /\ proposal' \in Row /\ proposal'.updatedAt = req[a].stamp
        /\ proposal' # None
    BY <2>0, ConstantsAssumption
  <2>4. /\ view[a] = PreviousStamp
        /\ PreviousStamp' \in Nat /\ PreviousStamp' > PreviousStamp
    BY <1>1, <1>3, <2>3, VersionGrows
  <2>5. StageOf(proposal)' = "rejected"
    BY <2>1, <2>2, <2>3
    DEF StageOf, Judged, SameDecision, Coherent, Row, ReviewStatus,
      WriteReject, Write
  <2>6. StageOf(proposal) \in {"pending", "applyFailed"}
    BY <2>1 DEF StageOf, Judged, SameDecision, Coherent, Row, RemoveStatus,
       ReviewStatus,
                WriteReject, Write
  <2>7. Review!Reject(a)
    BY <1>1, <2>4, <2>5, <2>6 DEF Review!Reject, Review!Move
  <2>8. QED
    BY <2>7 DEF Review!ReviewNext
<1>4. QED
  BY <1>2, <1>3

LEMMA ReopenMaps ==
  ASSUME IInv, NEW a \in Admins, WriteReopen(a)
  PROVE  Review!ReviewNext \/ UNCHANGED Review!reviewVars
<1>1. req[a].op \in AdminOps /\ UNCHANGED <<clock, view>>
  BY DEF WriteReopen, Write, AdminOps
<1>2. CASE ~Unchanged(a)
  BY <1>1, <1>2, Invisible DEF WriteReopen, Write
<1>3. CASE Unchanged(a)
  <2>1. /\ proposal # None /\ proposal \in Row /\ Coherent(proposal)
        /\ req[a].base \in Row /\ SameDecision(req[a].base, proposal)
        /\ req[a].base.updatedAt = proposal.updatedAt
        /\ Judged(a, req[a], clock) /\ req[a].stamp \in Nat
    BY <1>1, <1>3, Decided
  <2>2. proposal' = [proposal EXCEPT !.review = "pending",
                                  !.updatedAt = req[a].stamp]
    BY <1>3, <2>1 DEF WriteReopen, Write, Row
  <2>0. proposal' \in Row /\ proposal'.updatedAt = req[a].stamp
    BY <2>1, <2>2 DEF Row, ReviewStatus, ApplyStatus, RemoveStatus, Step
  <2>3. /\ proposal' \in Row /\ proposal'.updatedAt = req[a].stamp
        /\ proposal' # None
    BY <2>0, ConstantsAssumption
  <2>4. /\ view[a] = PreviousStamp
        /\ PreviousStamp' \in Nat /\ PreviousStamp' > PreviousStamp
    BY <1>1, <1>3, <2>3, VersionGrows
  <2>5. StageOf(proposal)' = "pending"
    BY <2>1, <2>2, <2>3
    DEF StageOf, Judged, SameDecision, Coherent, Row, ReviewStatus,
      WriteReopen, Write
  <2>6. StageOf(proposal) \in {"rejected"}
    BY <2>1 DEF StageOf, Judged, SameDecision, Coherent, Row, RemoveStatus,
       ReviewStatus,
                WriteReopen, Write
  <2>7. Review!Reopen(a)
    BY <1>1, <2>4, <2>5, <2>6 DEF Review!Reopen, Review!Move
  <2>8. QED
    BY <2>7 DEF Review!ReviewNext
<1>4. QED
  BY <1>2, <1>3

LEMMA RemoveMaps ==
  ASSUME IInv, NEW a \in Admins, WriteRemove(a)
  PROVE  Review!ReviewNext \/ UNCHANGED Review!reviewVars
<1>1. req[a].op \in AdminOps /\ UNCHANGED <<clock, view>>
  BY DEF WriteRemove, Write, AdminOps
<1>2. CASE ~Unchanged(a)
  BY <1>1, <1>2, Invisible DEF WriteRemove, Write
<1>3. CASE Unchanged(a)
  <2>1. /\ proposal # None /\ proposal \in Row /\ Coherent(proposal)
        /\ req[a].base \in Row /\ SameDecision(req[a].base, proposal)
        /\ req[a].base.updatedAt = proposal.updatedAt
        /\ Judged(a, req[a], clock) /\ req[a].stamp \in Nat
    BY <1>1, <1>3, Decided
  <2>2. proposal' = [proposal EXCEPT !.remove = "removing",
                                  !.updatedAt = req[a].stamp]
    BY <1>3, <2>1 DEF WriteRemove, Write, Row
  <2>0. proposal' \in Row /\ proposal'.updatedAt = req[a].stamp
    BY <2>1, <2>2 DEF Row, ReviewStatus, ApplyStatus, RemoveStatus, Step
  <2>3. /\ proposal' \in Row /\ proposal'.updatedAt = req[a].stamp
        /\ proposal' # None
    BY <2>0, ConstantsAssumption
  <2>4. /\ view[a] = PreviousStamp
        /\ PreviousStamp' \in Nat /\ PreviousStamp' > PreviousStamp
    BY <1>1, <1>3, <2>3, VersionGrows
  <2>5. StageOf(proposal)' = "removing"
    BY <2>1, <2>2, <2>3
    DEF StageOf, Judged, SameDecision, Coherent, Row, ReviewStatus,
      WriteRemove, Write
  <2>6. CASE proposal.remove # "removing"
    <3>1. StageOf(proposal) \in {"applied", "removeFailed"}
      BY <2>1, <2>6 DEF StageOf, Judged, SameDecision, Coherent, Row,
                      RemoveStatus, WriteRemove, Write
    <3>2. Review!Revoke(a)
      BY <1>1, <2>4, <2>5, <3>1 DEF Review!Revoke, Review!Move
    <3>3. QED
      BY <3>2 DEF Review!ReviewNext
  <2>7. CASE proposal.remove = "removing"
    <3>1. StageOf(proposal) \in {"removing"}
      BY <2>1, <2>7 DEF StageOf, Judged, SameDecision, Coherent, Row,
                      RemoveStatus, WriteRemove, Write
    <3>2. clock >= PreviousStamp + Timeout
      BY <2>1, <2>7
      DEF Judged, SameDecision, OldAt, PreviousStamp, WriteRemove, Write
    <3>3. Review!TakeOverRemoval(a)
      BY <1>1, <2>4, <2>5, <3>1, <3>2
      DEF Review!TakeOverRemoval, Review!Move, Review!Overdue
    <3>4. QED
      BY <3>3 DEF Review!ReviewNext
  <2>8. QED
    BY <2>1, <2>6, <2>7
    DEF Judged, SameDecision, Row, RemoveStatus, WriteRemove, Write
<1>4. QED
  BY <1>2, <1>3

LEMMA MarkAppliedMaps ==
  ASSUME IInv, NEW a \in Admins, NEW r \in Resources \cup {None},
    WriteMarkApplied(a, r)
  PROVE  Review!ReviewNext \/ UNCHANGED Review!reviewVars
<1>1. req[a].op \in AdminOps /\ UNCHANGED <<clock, view>>
  BY DEF WriteMarkApplied, Write, AdminOps
<1>2. CASE ~Unchanged(a)
  BY <1>1, <1>2, Invisible DEF WriteMarkApplied, Write
<1>3. CASE Unchanged(a)
  <2>1. /\ proposal # None /\ proposal \in Row /\ Coherent(proposal)
        /\ req[a].base \in Row /\ SameDecision(req[a].base, proposal)
        /\ req[a].base.updatedAt = proposal.updatedAt
        /\ Judged(a, req[a], clock) /\ req[a].stamp \in Nat
    BY <1>1, <1>3, Decided
  <2>2. proposal' = [proposal EXCEPT !.apply = "applied",
                                  !.resource = IF r # None THEN r
                                    ELSE req[a].base.resource,
                                  !.updatedAt = req[a].stamp]
    BY <1>3, <2>1 DEF WriteMarkApplied, Write, Row
  <2>0. proposal' \in Row /\ proposal'.updatedAt = req[a].stamp
    BY <2>1, <2>2 DEF Row, ReviewStatus, ApplyStatus, RemoveStatus, Step
  <2>3. /\ proposal' \in Row /\ proposal'.updatedAt = req[a].stamp
        /\ proposal' # None
    BY <2>0, ConstantsAssumption
  <2>4. /\ view[a] = PreviousStamp
        /\ PreviousStamp' \in Nat /\ PreviousStamp' > PreviousStamp
    BY <1>1, <1>3, <2>3, VersionGrows
  <2>5. StageOf(proposal)' = "applied"
    BY <2>1, <2>2, <2>3
    DEF StageOf, Judged, SameDecision, Coherent, Row, ReviewStatus,
      WriteMarkApplied, Write
  <2>6. StageOf(proposal) \in {"applying"}
    BY <2>1 DEF StageOf, Judged, SameDecision, Coherent, Row, RemoveStatus,
       ReviewStatus,
                WriteMarkApplied, Write
  <2>7. Review!FinishApply(a)
    BY <1>1, <2>4, <2>5, <2>6 DEF Review!FinishApply, Review!Move
  <2>8. QED
    BY <2>7 DEF Review!ReviewNext
<1>4. QED
  BY <1>2, <1>3

LEMMA MarkApplyFailedMaps ==
  ASSUME IInv, NEW a \in Admins, WriteMarkApplyFailed(a)
  PROVE  Review!ReviewNext \/ UNCHANGED Review!reviewVars
<1>1. req[a].op \in AdminOps /\ UNCHANGED <<clock, view>>
  BY DEF WriteMarkApplyFailed, Write, AdminOps
<1>2. CASE ~Unchanged(a)
  BY <1>1, <1>2, Invisible DEF WriteMarkApplyFailed, Write
<1>3. CASE Unchanged(a)
  <2>1. /\ proposal # None /\ proposal \in Row /\ Coherent(proposal)
        /\ req[a].base \in Row /\ SameDecision(req[a].base, proposal)
        /\ req[a].base.updatedAt = proposal.updatedAt
        /\ Judged(a, req[a], clock) /\ req[a].stamp \in Nat
    BY <1>1, <1>3, Decided
  <2>2. proposal' = [proposal EXCEPT !.apply = "failed",
                                  !.updatedAt = req[a].stamp]
    BY <1>3, <2>1 DEF WriteMarkApplyFailed, Write, Row
  <2>0. proposal' \in Row /\ proposal'.updatedAt = req[a].stamp
    BY <2>1, <2>2 DEF Row, ReviewStatus, ApplyStatus, RemoveStatus, Step
  <2>3. /\ proposal' \in Row /\ proposal'.updatedAt = req[a].stamp
        /\ proposal' # None
    BY <2>0, ConstantsAssumption
  <2>4. /\ view[a] = PreviousStamp
        /\ PreviousStamp' \in Nat /\ PreviousStamp' > PreviousStamp
    BY <1>1, <1>3, <2>3, VersionGrows
  <2>5. StageOf(proposal)' = "applyFailed"
    BY <2>1, <2>2, <2>3
    DEF StageOf, Judged, SameDecision, Coherent, Row, ReviewStatus,
      WriteMarkApplyFailed, Write
  <2>6. StageOf(proposal) \in {"applying"}
    BY <2>1 DEF StageOf, Judged, SameDecision, Coherent, Row, RemoveStatus,
       ReviewStatus,
                WriteMarkApplyFailed, Write
  <2>7. Review!FailApply(a)
    BY <1>1, <2>4, <2>5, <2>6 DEF Review!FailApply, Review!Move
  <2>8. QED
    BY <2>7 DEF Review!ReviewNext
<1>4. QED
  BY <1>2, <1>3

LEMMA MarkRemovedMaps ==
  ASSUME IInv, NEW a \in Admins, WriteMarkRemoved(a)
  PROVE  Review!ReviewNext \/ UNCHANGED Review!reviewVars
<1>1. req[a].op \in AdminOps /\ UNCHANGED <<clock, view>>
  BY DEF WriteMarkRemoved, Write, AdminOps
<1>2. CASE ~Unchanged(a)
  BY <1>1, <1>2, Invisible DEF WriteMarkRemoved, Write
<1>3. CASE Unchanged(a)
  <2>1. /\ proposal # None /\ proposal \in Row /\ Coherent(proposal)
        /\ req[a].base \in Row /\ SameDecision(req[a].base, proposal)
        /\ req[a].base.updatedAt = proposal.updatedAt
        /\ Judged(a, req[a], clock) /\ req[a].stamp \in Nat
    BY <1>1, <1>3, Decided
  <2>2. proposal' = [proposal EXCEPT !.review = "removed",
                                  !.remove = "removed",
                                  !.updatedAt = req[a].stamp]
    BY <1>3, <2>1 DEF WriteMarkRemoved, Write, Row
  <2>0. proposal' \in Row /\ proposal'.updatedAt = req[a].stamp
    BY <2>1, <2>2 DEF Row, ReviewStatus, ApplyStatus, RemoveStatus, Step
  <2>3. /\ proposal' \in Row /\ proposal'.updatedAt = req[a].stamp
        /\ proposal' # None
    BY <2>0, ConstantsAssumption
  <2>4. /\ view[a] = PreviousStamp
        /\ PreviousStamp' \in Nat /\ PreviousStamp' > PreviousStamp
    BY <1>1, <1>3, <2>3, VersionGrows
  <2>5. StageOf(proposal)' = "removed"
    BY <2>1, <2>2, <2>3
    DEF StageOf, Judged, SameDecision, Coherent, Row, ReviewStatus,
      WriteMarkRemoved, Write
  <2>6. StageOf(proposal) \in {"removing"}
    BY <2>1 DEF StageOf, Judged, SameDecision, Coherent, Row, RemoveStatus,
       ReviewStatus,
                WriteMarkRemoved, Write
  <2>7. Review!FinishRemoval(a)
    BY <1>1, <2>4, <2>5, <2>6 DEF Review!FinishRemoval, Review!Move
  <2>8. QED
    BY <2>7 DEF Review!ReviewNext
<1>4. QED
  BY <1>2, <1>3

LEMMA MarkRemoveFailedMaps ==
  ASSUME IInv, NEW a \in Admins, WriteMarkRemoveFailed(a)
  PROVE  Review!ReviewNext \/ UNCHANGED Review!reviewVars
<1>1. req[a].op \in AdminOps /\ UNCHANGED <<clock, view>>
  BY DEF WriteMarkRemoveFailed, Write, AdminOps
<1>2. CASE ~Unchanged(a)
  BY <1>1, <1>2, Invisible DEF WriteMarkRemoveFailed, Write
<1>3. CASE Unchanged(a)
  <2>1. /\ proposal # None /\ proposal \in Row /\ Coherent(proposal)
        /\ req[a].base \in Row /\ SameDecision(req[a].base, proposal)
        /\ req[a].base.updatedAt = proposal.updatedAt
        /\ Judged(a, req[a], clock) /\ req[a].stamp \in Nat
    BY <1>1, <1>3, Decided
  <2>2. proposal' = [proposal EXCEPT !.remove = "failed",
                                  !.updatedAt = req[a].stamp]
    BY <1>3, <2>1 DEF WriteMarkRemoveFailed, Write, Row
  <2>0. proposal' \in Row /\ proposal'.updatedAt = req[a].stamp
    BY <2>1, <2>2 DEF Row, ReviewStatus, ApplyStatus, RemoveStatus, Step
  <2>3. /\ proposal' \in Row /\ proposal'.updatedAt = req[a].stamp
        /\ proposal' # None
    BY <2>0, ConstantsAssumption
  <2>4. /\ view[a] = PreviousStamp
        /\ PreviousStamp' \in Nat /\ PreviousStamp' > PreviousStamp
    BY <1>1, <1>3, <2>3, VersionGrows
  <2>5. StageOf(proposal)' = "removeFailed"
    BY <2>1, <2>2, <2>3
    DEF StageOf, Judged, SameDecision, Coherent, Row, ReviewStatus,
      WriteMarkRemoveFailed, Write
  <2>6. StageOf(proposal) \in {"removing"}
    BY <2>1 DEF StageOf, Judged, SameDecision, Coherent, Row, RemoveStatus,
       ReviewStatus,
                WriteMarkRemoveFailed, Write
  <2>7. Review!FailRemoval(a)
    BY <1>1, <2>4, <2>5, <2>6 DEF Review!FailRemoval, Review!Move
  <2>8. QED
    BY <2>7 DEF Review!ReviewNext
<1>4. QED
  BY <1>2, <1>3

-----------------------------------------------------------------------------
\* A submission that the write accepts starts a review.
Submittable == StageOf(proposal) \in {"none"} \cup ResubmittableStages

LEMMA SubmitsWhenAllowed ==
  ASSUME IInv, NEW c \in Applicants, WritePropose(c), Unchanged(c),
         ~KeyUsed(req[c].key)
  PROVE  Submittable /\ StageOf(proposal') = "pending"
           /\ proposal' # None /\ proposal'.updatedAt = req[c].stamp
<1>1. /\ c \in Clients /\ req[c] \in Request /\ req[c].op = "propose"
      /\ RequestOK(c, req[c], proposal, clock, view[c])
  BY DEF Clients, IInv, TypeOK, WritePropose
<1>2. /\ NewRow(c) \in Row /\ NewRow(c) # None
      /\ ResubmittedRow(c) = [NewRow(c) EXCEPT
           !.createdBy = proposal.createdBy,
           !.activityAt = proposal.activityAt]
  BY <1>1, ConstantsAssumption
  DEF NewRow, Row, Request, Step, ReviewStatus, ApplyStatus, RemoveStatus,
      ResubmittedRow
<1>3. /\ proposal' # None /\ proposal'.updatedAt = req[c].stamp
      /\ proposal'.review = "pending"
  <2>1. CASE proposal = None
    BY <1>2, <2>1 DEF WritePropose, NewRow
  <2>2. CASE proposal # None
    <3>1. proposal \in Row /\ proposal' = ResubmittedRow(c)
      BY <2>2 DEF WritePropose, IInv, TypeOK
    <3>2. ResubmittedRow(c) \in Row
      BY <1>2, <3>1 DEF Row, NewRow
    <3>3. QED
      BY <3>1, <3>2, ConstantsAssumption DEF ResubmittedRow, NewRow
  <2>3. QED
    BY <2>1, <2>2
<1>4. CASE proposal = None
  BY <1>3, <1>4 DEF StageOf, Submittable
<1>5. CASE proposal # None
  <2>1. /\ req[c].base # None /\ proposal \in Row /\ Coherent(proposal)
        /\ req[c].base.updatedAt = proposal.updatedAt
    BY <1>5 DEF Unchanged, IInv, TypeOK, StatusesCohere
  <2>2. /\ SameDecision(req[c].base, proposal)
        /\ MayPropose(c, req[c].org, req[c].base)
    BY <1>1, <2>1 DEF RequestOK, Judged
  <2>3. /\ proposal.apply # "applying" /\ proposal.remove # "removing"
        /\ PolicyAllows(proposal)
    BY <2>2 DEF MayPropose, SameDecision, PolicyAllows
  <2>4. Submittable
    <3>1. CASE Policy = "any"
      BY <1>5, <2>1, <2>3, <3>1
      DEF StageOf, ResubmittableStages, Coherent, Row, ReviewStatus,
          ApplyStatus, RemoveStatus, Submittable
    <3>2. CASE Policy = "rejected-only"
      BY <1>5, <2>1, <2>3, <3>2
      DEF StageOf, ResubmittableStages, PolicyAllows, Submittable
    <3>3. CASE Policy = "rejected-or-removed"
      BY <1>5, <2>1, <2>3, <3>3
      DEF StageOf, ResubmittableStages, PolicyAllows, Coherent, Submittable
    <3>4. QED
      BY <3>1, <3>2, <3>3, ConstantsAssumption
  <2>5. QED
    BY <1>3, <2>4 DEF StageOf
<1>6. QED
  BY <1>4, <1>5

LEMMA ProposeMaps ==
  ASSUME IInv, NEW c \in Applicants, WritePropose(c)
  PROVE  Review!ReviewNext \/ UNCHANGED Review!reviewVars
<1>1. /\ c \in Clients /\ req[c] \in Request /\ req[c].op = "propose"
      /\ RequestOK(c, req[c], proposal, clock, view[c])
      /\ UNCHANGED <<clock, view>>
  BY DEF Clients, IInv, TypeOK, WritePropose
<1>2. CASE Unchanged(c) /\ ~KeyUsed(req[c].key)
  <2>1. /\ Submittable /\ StageOf(proposal') = "pending"
        /\ proposal' # None /\ proposal'.updatedAt = req[c].stamp
    BY <1>2, SubmitsWhenAllowed
  <2>2. StageOf(proposal)' = "pending" /\ PreviousStamp' = req[c].stamp
    BY <2>1 DEF PreviousStamp
  <2>3. /\ PreviousStamp' \in Nat /\ PreviousStamp' > PreviousStamp
    BY <1>1, <1>2, <2>2 DEF RequestOK, Unchanged, PreviousStamp, Request
  <2>4. Review!Submit
    BY <1>1, <2>1, <2>2, <2>3 DEF Submittable, Review!Submit, Review!Move
  <2>5. QED
    BY <2>4 DEF Review!ReviewNext
<1>3. CASE ~(Unchanged(c) /\ ~KeyUsed(req[c].key))
  BY <1>1, <1>3, Invisible DEF WritePropose
<1>4. QED
  BY <1>2, <1>3

\* Recording a step changes neither the stage nor the version.
LEMMA RecordMaps ==
  ASSUME IInv, NEW a \in Admins, Record(a)
  PROVE  UNCHANGED Review!reviewVars
<1>1. CASE BeginRecord(a)
  BY <1>1, Invisible DEF BeginRecord
<1>2. ASSUME NEW s \in Steps, NEW status \in StepStatus,
             NEW r \in Resources \cup {None}, WriteRecord(a, s, status, r)
      PROVE  UNCHANGED Review!reviewVars
  <2>1. CASE SetupActive(proposal)
    <3>1. /\ proposal \in Row /\ proposal' \in Row
          /\ SameDecision(proposal', proposal)
          /\ proposal'.updatedAt = proposal.updatedAt
          /\ UNCHANGED <<clock, view>>
      BY <1>2, <2>1, Recorded
    <3>2. proposal # None /\ proposal' # None
      BY <3>1, ConstantsAssumption
    <3>3. QED
      BY <3>1, <3>2
      DEF Review!reviewVars, StageOf, PreviousStamp, SameDecision
  <2>2. CASE ~SetupActive(proposal)
    BY <1>2, <2>2, Invisible DEF WriteRecord
  <2>3. QED
    BY <2>1, <2>2
<1>3. QED
  BY <1>1, <1>2 DEF Record

LEMMA InitMaps == Init => Review!ReviewInit
BY DEF Init, Review!ReviewInit, StageOf, PreviousStamp

LEMMA StepMaps == IInv
  /\ [Next]_vars => [Review!ReviewNext]_(Review!reviewVars)
<1> SUFFICES ASSUME IInv, [Next]_vars
             PROVE  Review!ReviewNext \/ UNCHANGED Review!reviewVars
  OBVIOUS
<1>1. ASSUME NEW c \in Applicants, Propose(c)
      PROVE  Review!ReviewNext \/ UNCHANGED Review!reviewVars
  BY <1>1, ProposeMaps, Invisible DEF Propose, LookUpKey, ReadPropose
<1>2. ASSUME NEW a \in Admins, Load(a)
      PROVE  Review!ReviewNext \/ UNCHANGED Review!reviewVars
  <2>1. /\ PreviousStamp = proposal.updatedAt
        /\ UNCHANGED <<StageOf(proposal), PreviousStamp>>
    BY <1>2 DEF Load, PreviousStamp, StageOf
  <2>2. Review!See(a)
    BY <1>2, <2>1 DEF Load, Review!See
  <2>3. QED
    BY <2>2 DEF Review!ReviewNext
<1>3. ASSUME NEW a \in Admins, Decide(a)
      PROVE  Review!ReviewNext \/ UNCHANGED Review!reviewVars
  <2>1. CASE ReadApprove(a) \/ ReadReject(a) \/ ReadReopen(a) \/ ReadRemove(a)
    BY <2>1, Invisible DEF ReadApprove, ReadReject, ReadReopen, ReadRemove,
       Read
  <2>2. CASE \/ WriteApprove(a) \/ WriteReject(a)
             \/ WriteReopen(a) \/ WriteRemove(a)
    BY <2>2, ApproveMaps, RejectMaps, ReopenMaps, RemoveMaps
  <2>3. QED
    BY <1>3, <2>1, <2>2 DEF Decide
<1>4. ASSUME NEW a \in Admins, Report(a)
      PROVE  Review!ReviewNext \/ UNCHANGED Review!reviewVars
  <2>1. CASE \/ ReadMarkApplied(a) \/ ReadMarkApplyFailed(a)
             \/ ReadMarkRemoved(a) \/ ReadMarkRemoveFailed(a)
    BY <2>1, Invisible DEF ReadMarkApplied, ReadMarkApplyFailed,
       ReadMarkRemoved, ReadMarkRemoveFailed, Read
  <2>2. CASE \/ \E r \in Resources \cup {None} : WriteMarkApplied(a, r)
             \/ WriteMarkApplyFailed(a)
             \/ WriteMarkRemoved(a) \/ WriteMarkRemoveFailed(a)
    BY <2>2, MarkAppliedMaps, MarkApplyFailedMaps, MarkRemovedMaps,
       MarkRemoveFailedMaps
  <2>3. QED
    BY <1>4, <2>1, <2>2 DEF Report
<1>5. ASSUME NEW a \in Admins, Record(a)
      PROVE  UNCHANGED Review!reviewVars
  BY <1>5, RecordMaps
<1>6. ASSUME NEW c \in Clients, Drop(c)
      PROVE  UNCHANGED Review!reviewVars
  BY <1>6, Invisible DEF Drop
<1>7. CASE Tick
  <2>1. Review!Pass
    BY <1>7 DEF Tick, Review!Pass, StageOf, PreviousStamp
  <2>2. QED
    BY <2>1 DEF Review!ReviewNext
<1>8. CASE UNCHANGED vars
  BY <1>8, Invisible DEF vars
<1>9. QED
  BY <1>1, <1>2, <1>3, <1>4, <1>5, <1>6, <1>7, <1>8 DEF Next

(***************************************************************************)
(* Read, decide and conditionally write, interleaved in any way with any   *)
(* other requests, restarts and the passing of time, act as one step of    *)
(* the abstract lifecycle on the version that the admin loaded.            *)
(***************************************************************************)
THEOREM Refinement == Spec => ImplementsReview
BY InitMaps, Invariance, StepMaps, PTL DEF Spec, ImplementsReview,
   Review!ReviewSpec
-----------------------------------------------------------------------------
(***************************************************************************)
(* The SQL filters of the reviewers' queues and the TypeScript checks of   *)
(* approve and remove agree on every reachable row, at every time.         *)
(***************************************************************************)
THEOREM QueuesAgree == Spec => []QueuesMatchOperations
<1>1. ASSUME IInv, proposal # None
      PROVE  /\ NeedsReview(proposal) <=> CanApprove(proposal)
             /\ Actionable(proposal) <=>
                  \/ CanApprove(proposal)
                  \/ CanRemove(proposal) /\ RetryingRemoval(proposal)
  <2>1. /\ proposal \in Row /\ Coherent(proposal) /\ clock \in Nat
        /\ proposal.updatedAt \in Nat /\ proposal.activityAt \in Nat
    BY <1>1 DEF IInv, TypeOK, StatusesCohere, Row
  <2>2. TimedOut(LastActivity(proposal)) <=>
          TimedOut(proposal.updatedAt) /\ TimedOut(proposal.activityAt)
    BY <2>1, ConstantsAssumption DEF TimedOut, LastActivity
  <2>3. NeedsReview(proposal) <=> CanApprove(proposal)
    BY <2>1, <2>2 DEF NeedsReview, CanApprove, Retrying, ApplyStalled, Coherent
  <2>4. proposal.remove = "removing" \/ proposal.remove = "failed" =>
          proposal.review = "approved" /\ proposal.apply = "applied"
    BY <2>1 DEF Coherent, Row, ReviewStatus
  <2>5. QED
    BY <2>1, <2>3, <2>4 DEF Actionable, CanRemove, RetryingRemoval
<1>2. IInv => QueuesMatchOperations
  BY <1>1 DEF QueuesMatchOperations
<1>3. QED
  BY <1>2, Invariance, PTL

\* A row with a resource is applied, and only a resubmission clears it.
LEMMA ResourceStep ==
  ASSUME IInv, [Next]_vars, Policy # "any", proposal # None,
         proposal.resource # None, proposal'.resource # proposal.resource
  PROVE  Policy = "rejected-or-removed" /\ proposal.review = "removed"
<1>1. proposal \in Row /\ Coherent(proposal) /\ proposal.apply = "applied"
  BY DEF IInv, TypeOK, StatusesCohere, Coherent
<1>2. ASSUME NEW c \in Applicants, Propose(c)
      PROVE  Policy = "rejected-or-removed" /\ proposal.review = "removed"
  <2>1. WritePropose(c) /\ Unchanged(c)
    BY <1>2 DEF Propose, LookUpKey, ReadPropose, WritePropose
  <2>2. /\ req[c] \in Request /\ c \in Clients
        /\ RequestOK(c, req[c], proposal, clock, view[c])
    BY DEF Clients, IInv, TypeOK
  <2>3. /\ req[c].base # None /\ req[c].op = "propose"
        /\ req[c].base.updatedAt = proposal.updatedAt
    BY <2>1 DEF Unchanged, WritePropose
  <2>4. /\ SameDecision(req[c].base, proposal)
        /\ MayPropose(c, req[c].org, req[c].base)
    BY <2>2, <2>3 DEF RequestOK, Judged
  <2>5. PolicyAllows(proposal)
    BY <2>4 DEF MayPropose, SameDecision, PolicyAllows
  <2>6. QED
    BY <1>1, <2>5 DEF PolicyAllows, Coherent
<1>3. ASSUME NEW a \in Admins, Decide(a) PROVE FALSE
  BY <1>1, <1>3 DEF Decide, Write, Read, Row,
     ReadApprove, WriteApprove, ReadReject, WriteReject,
     ReadReopen, WriteReopen, ReadRemove, WriteRemove
<1>4. ASSUME NEW a \in Admins, Report(a) PROVE FALSE
  <2>1. ASSUME NEW r \in Resources \cup {None}, WriteMarkApplied(a, r)
        PROVE  FALSE
    <3>1. req[a].op = "markApplied" /\ Unchanged(a)
      BY <2>1 DEF WriteMarkApplied, Write
    <3>2. /\ SameDecision(req[a].base, proposal)
          /\ Judged(a, req[a], clock)
      BY <3>1, Decided DEF AdminOps
    <3>3. proposal.apply = "applying"
      BY <3>1, <3>2 DEF Judged, SameDecision
    <3>4. QED
      BY <1>1, <3>3
  <2>2. CASE ~\E r \in Resources \cup {None} : WriteMarkApplied(a, r)
    BY <1>1, <1>4, <2>2 DEF Report, Write, Read, Row,
       ReadMarkApplied, ReadMarkApplyFailed, WriteMarkApplyFailed,
       ReadMarkRemoved, WriteMarkRemoved,
       ReadMarkRemoveFailed, WriteMarkRemoveFailed
  <2>3. QED
    BY <2>1, <2>2
<1>5. ASSUME NEW a \in Admins, Record(a) PROVE FALSE
  <2>1. CASE BeginRecord(a)
    BY <2>1 DEF BeginRecord
  <2>2. ASSUME NEW s \in Steps, NEW status \in StepStatus,
               NEW r \in Resources \cup {None}, WriteRecord(a, s, status, r)
        PROVE  FALSE
    <3>1. ~SetupActive(proposal)
      BY <1>1 DEF SetupActive
    <3>2. QED
      BY <2>2, <3>1 DEF WriteRecord
  <2>3. QED
    BY <1>5, <2>1, <2>2 DEF Record
<1>6. QED
  BY <1>2, <1>3, <1>4, <1>5 DEF Next, Load, Drop, Tick, vars

(***************************************************************************)
(* Under either resubmission policy the id of what a setup created is      *)
(* cleared only from a removed proposal, so a release can always find it.  *)
(***************************************************************************)
THEOREM ResourceKept ==
  ASSUME Policy # "any"
  PROVE  Spec => AppliedResourceKept
<1>1. IInv /\ [Next]_vars =>
        [proposal # None =>
           \/ proposal.resource = None
           \/ proposal'.resource = proposal.resource
           \/ Policy = "rejected-or-removed"
              /\ proposal.review = "removed"]_proposal
  BY ResourceStep
<1>2. QED
  BY <1>1, Invariance, PTL DEF Spec, AppliedResourceKept

-----------------------------------------------------------------------------
(* What the row's history keeps                                            *)

\* A step of an admin: what it leaves alone of the row, the log and the submissions.
Administered ==
  /\ proposal # None /\ proposal' # None
  /\ UNCHANGED submissions
  /\ proposal'.createdBy = proposal.createdBy /\ proposal'.org = proposal.org
  /\ \/ audit' = audit
     \/ \E action \in Action \ {"proposed"} : audit' = Append(audit, action)
  /\ \A s \in Steps :
       proposal.steps[s].status = "completed" =>
         \/ proposal'.steps[s] = proposal.steps[s]
         \/ proposal'.review = "rejected"

\* A submission that is stored, on a row it has judged.
Submitted(c) ==
  /\ proposal' = IF proposal = None THEN NewRow(c) ELSE ResubmittedRow(c)
  /\ submissions' = Append(submissions, [key |-> req[c].key, by |-> Account[c]])
  /\ audit' = Append(audit, "proposed")
  /\ ~KeyUsed(req[c].key)
  /\ proposal # None => OwnsProposal(c, req[c].org, proposal)

Recordless == UNCHANGED <<proposal, submissions, audit>>

LEMMA WriteAdministers ==
  ASSUME IInv, NEW a \in Admins, NEW op \in AdminOps, NEW row,
         NEW action \in Action \ {"proposed"}, Write(a, op, row, action),
         proposal \in Row => /\ row \in Row
                             /\ row.createdBy = proposal.createdBy
                             /\ row.org = proposal.org
                             /\ \/ row.steps = proposal.steps
                                \/ row.review = "rejected"
  PROVE  Recordless \/ Administered
<1>1. CASE ~Unchanged(a)
  BY <1>1 DEF Write, Recordless
<1>2. CASE Unchanged(a)
  <2>1. /\ req[a].op \in AdminOps
        /\ proposal' = [row EXCEPT !.updatedAt = req[a].stamp]
        /\ audit' = Append(audit, action) /\ UNCHANGED submissions
    BY <1>2 DEF Write
  <2>2. proposal \in Row /\ proposal # None /\ req[a].stamp \in Nat
    BY <1>2, <2>1, Decided
  <2>3. /\ proposal' \in Row
        /\ proposal'.createdBy = row.createdBy /\ proposal'.org = row.org
        /\ proposal'.steps = row.steps /\ proposal'.review = row.review
    BY <2>1, <2>2 DEF Row
  <2>4. proposal' # None
    BY <2>3, ConstantsAssumption
  <2> QED BY <2>1, <2>2, <2>3, <2>4 DEF Administered
<1> QED BY <1>1, <1>2

LEMMA DecideAdministers ==
  ASSUME IInv, NEW a \in Admins, Decide(a) PROVE Recordless \/ Administered
<1>1. CASE ReadApprove(a) \/ ReadReject(a) \/ ReadReopen(a) \/ ReadRemove(a)
  BY <1>1 DEF ReadApprove, ReadReject, ReadReopen, ReadRemove, Read, Recordless
<1>2. req[a].stamp \in Nat
  BY DEF IInv, TypeOK, Request, Clients
<1>3. CASE WriteApprove(a)
  <2> DEFINE row == [proposal EXCEPT !.review = "approved", !.apply = "applying",
                                     !.activityAt = req[a].stamp]
             action == IF req[a].base.review = "approved" THEN "apply_retried" ELSE "approved"
  <2>1. Write(a, "approve", row, action)
    BY <1>3 DEF WriteApprove
  <2>2. proposal \in Row => /\ row \in Row /\ row.createdBy = proposal.createdBy
                            /\ row.org = proposal.org /\ row.steps = proposal.steps
    BY <1>2 DEF Row, ReviewStatus, ApplyStatus
  <2>3. action \in Action \ {"proposed"} /\ "approve" \in AdminOps
    BY DEF Action, AdminOps
  <2> HIDE DEF row, action
  <2> QED BY <2>1, <2>2, <2>3, WriteAdministers
<1>4. CASE WriteReject(a)
  <2> DEFINE row == [proposal EXCEPT !.review = "rejected", !.apply = "not_started",
                       !.steps = [s \in Steps |-> [status |-> None, resource |-> None]],
                       !.activityAt = 0]
  <2>1. Write(a, "reject", row, "rejected")
    BY <1>4 DEF WriteReject
  <2>2. proposal \in Row => /\ row \in Row /\ row.createdBy = proposal.createdBy
                            /\ row.org = proposal.org /\ row.review = "rejected"
    BY DEF Row, ReviewStatus, ApplyStatus, Step
  <2>3. "rejected" \in Action \ {"proposed"} /\ "reject" \in AdminOps
    BY DEF Action, AdminOps
  <2> HIDE DEF row
  <2> QED BY <2>1, <2>2, <2>3, WriteAdministers
<1>5. CASE WriteReopen(a)
  <2> DEFINE row == [proposal EXCEPT !.review = "pending"]
  <2>1. Write(a, "reopen", row, "reopened")
    BY <1>5 DEF WriteReopen
  <2>2. proposal \in Row => /\ row \in Row /\ row.createdBy = proposal.createdBy
                            /\ row.org = proposal.org /\ row.steps = proposal.steps
    BY DEF Row, ReviewStatus
  <2>3. "reopened" \in Action \ {"proposed"} /\ "reopen" \in AdminOps
    BY DEF Action, AdminOps
  <2> HIDE DEF row
  <2> QED BY <2>1, <2>2, <2>3, WriteAdministers
<1>6. CASE WriteRemove(a)
  <2> DEFINE row == [proposal EXCEPT !.remove = "removing"]
             action == IF req[a].base.remove = "not_started"
                       THEN "approval_revocation_started" ELSE "removal_retried"
  <2>1. Write(a, "remove", row, action)
    BY <1>6 DEF WriteRemove
  <2>2. proposal \in Row => /\ row \in Row /\ row.createdBy = proposal.createdBy
                            /\ row.org = proposal.org /\ row.steps = proposal.steps
    BY DEF Row, RemoveStatus
  <2>3. action \in Action \ {"proposed"} /\ "remove" \in AdminOps
    BY DEF Action, AdminOps
  <2> HIDE DEF row, action
  <2> QED BY <2>1, <2>2, <2>3, WriteAdministers
<1> QED BY <1>1, <1>3, <1>4, <1>5, <1>6 DEF Decide

LEMMA ReportAdministers ==
  ASSUME IInv, NEW a \in Admins, Report(a) PROVE Recordless \/ Administered
<1>1. CASE \/ ReadMarkApplied(a) \/ ReadMarkApplyFailed(a)
           \/ ReadMarkRemoved(a) \/ ReadMarkRemoveFailed(a)
  BY <1>1 DEF ReadMarkApplied, ReadMarkApplyFailed, ReadMarkRemoved,
     ReadMarkRemoveFailed, Read, Recordless
<1>2. ASSUME NEW r \in Resources \cup {None}, WriteMarkApplied(a, r)
      PROVE  Recordless \/ Administered
  <2> DEFINE resource == IF r # None THEN r ELSE req[a].base.resource
             row == [proposal EXCEPT !.apply = "applied", !.resource = resource]
  <2>1. Write(a, "markApplied", row, "applied")
    BY <1>2 DEF WriteMarkApplied
  <2>2. CASE Unchanged(a)
    <3>1. req[a].base \in Row
      BY <2>1, <2>2, Decided DEF Write, AdminOps
    <3>2. resource \in Resources \cup {None}
      BY <3>1 DEF Row
    <3> HIDE DEF resource
    <3>3. proposal \in Row => /\ row \in Row /\ row.createdBy = proposal.createdBy
                              /\ row.org = proposal.org /\ row.steps = proposal.steps
      BY <3>2 DEF Row, ApplyStatus
    <3>4. "applied" \in Action \ {"proposed"} /\ "markApplied" \in AdminOps
      BY DEF Action, AdminOps
    <3> HIDE DEF row
    <3> QED BY <2>1, <3>3, <3>4, WriteAdministers
  <2>3. CASE ~Unchanged(a)
    BY <2>1, <2>3 DEF Write, Recordless
  <2> QED BY <2>2, <2>3
<1>3. CASE WriteMarkApplyFailed(a)
  <2> DEFINE row == [proposal EXCEPT !.apply = "failed"]
  <2>1. Write(a, "markApplyFailed", row, "apply_failed")
    BY <1>3 DEF WriteMarkApplyFailed
  <2>2. proposal \in Row => /\ row \in Row /\ row.createdBy = proposal.createdBy
                            /\ row.org = proposal.org /\ row.steps = proposal.steps
    BY DEF Row, ApplyStatus
  <2>3. "apply_failed" \in Action \ {"proposed"} /\ "markApplyFailed" \in AdminOps
    BY DEF Action, AdminOps
  <2> HIDE DEF row
  <2> QED BY <2>1, <2>2, <2>3, WriteAdministers
<1>4. CASE WriteMarkRemoved(a)
  <2> DEFINE row == [proposal EXCEPT !.review = "removed", !.remove = "removed"]
  <2>1. Write(a, "markRemoved", row, "approval_revoked")
    BY <1>4 DEF WriteMarkRemoved
  <2>2. proposal \in Row => /\ row \in Row /\ row.createdBy = proposal.createdBy
                            /\ row.org = proposal.org /\ row.steps = proposal.steps
    BY DEF Row, ReviewStatus, RemoveStatus
  <2>3. "approval_revoked" \in Action \ {"proposed"} /\ "markRemoved" \in AdminOps
    BY DEF Action, AdminOps
  <2> HIDE DEF row
  <2> QED BY <2>1, <2>2, <2>3, WriteAdministers
<1>5. CASE WriteMarkRemoveFailed(a)
  <2> DEFINE row == [proposal EXCEPT !.remove = "failed"]
  <2>1. Write(a, "markRemoveFailed", row, "remove_failed")
    BY <1>5 DEF WriteMarkRemoveFailed
  <2>2. proposal \in Row => /\ row \in Row /\ row.createdBy = proposal.createdBy
                            /\ row.org = proposal.org /\ row.steps = proposal.steps
    BY DEF Row, RemoveStatus
  <2>3. "remove_failed" \in Action \ {"proposed"} /\ "markRemoveFailed" \in AdminOps
    BY DEF Action, AdminOps
  <2> HIDE DEF row
  <2> QED BY <2>1, <2>2, <2>3, WriteAdministers
<1> QED BY <1>1, <1>2, <1>3, <1>4, <1>5 DEF Report

LEMMA RecordAdministers ==
  ASSUME IInv, NEW a \in Admins, Record(a) PROVE Recordless \/ Administered
<1>1. CASE BeginRecord(a)
  BY <1>1 DEF BeginRecord, Recordless
<1>2. ASSUME NEW s \in Steps, NEW status \in StepStatus,
             NEW r \in Resources \cup {None}, WriteRecord(a, s, status, r)
      PROVE  Recordless \/ Administered
  <2>1. CASE ~SetupActive(proposal)
    BY <1>2, <2>1 DEF WriteRecord, Recordless
  <2>2. CASE SetupActive(proposal)
    <3> DEFINE previous == proposal.steps[s]
               step == [status |-> status,
                        resource |-> StepResource(previous, status, r)]
    <3>1. /\ proposal \in Row /\ proposal' \in Row /\ UNCHANGED submissions
          /\ SameDecision(proposal', proposal)
      BY <1>2, <2>2, Recorded
    <3>2. proposal # None /\ proposal' # None
      BY <3>1, ConstantsAssumption
    <3>3. /\ proposal' = [proposal EXCEPT !.activityAt = req[a].stamp,
                            !.steps[s] = IF StepKept(previous, step) THEN @ ELSE step]
          /\ audit' = IF StepKept(previous, step) THEN audit
                      ELSE Append(audit, "apply_step_recorded")
      BY <1>2, <2>2 DEF WriteRecord
    <3>4. \A t \in Steps : proposal.steps[t].status = "completed" =>
                             proposal'.steps[t] = proposal.steps[t]
      BY <3>1, <3>3 DEF StepKept, Row
    <3>5. "apply_step_recorded" \in Action \ {"proposed"}
      BY DEF Action
    <3>6. \/ audit' = audit
          \/ \E action \in Action \ {"proposed"} : audit' = Append(audit, action)
      BY <3>3, <3>5
    <3> QED BY <3>1, <3>2, <3>4, <3>6 DEF Administered, SameDecision
  <2> QED BY <2>1, <2>2
<1> QED BY <1>1, <1>2 DEF Record

LEMMA ProposeSubmits ==
  ASSUME IInv, NEW c \in Applicants, Propose(c) PROVE Recordless \/ Submitted(c)
<1>1. CASE ~(WritePropose(c) /\ Unchanged(c) /\ ~KeyUsed(req[c].key))
  BY <1>1 DEF Propose, LookUpKey, ReadPropose, WritePropose, Recordless
<1>2. CASE WritePropose(c) /\ Unchanged(c) /\ ~KeyUsed(req[c].key)
  <2>1. c \in Clients /\ req[c].op = "propose"
    BY <1>2 DEF Clients, WritePropose
  <2>2. RequestOK(c, req[c], proposal, clock, view[c])
    BY <2>1 DEF IInv
  <2>3. ASSUME proposal # None PROVE OwnsProposal(c, req[c].org, proposal)
    <3>1. /\ req[c].base # None
          /\ req[c].base.updatedAt = proposal.updatedAt
      BY <1>2, <2>3 DEF Unchanged
    <3>2. /\ SameDecision(req[c].base, proposal)
          /\ MayPropose(c, req[c].org, req[c].base)
      BY <2>1, <2>2, <3>1 DEF RequestOK, Judged
    <3> QED BY <3>2 DEF MayPropose, OwnsProposal, SameDecision
  <2> QED BY <1>2, <2>3 DEF WritePropose, Submitted
<1> QED BY <1>1, <1>2

\* Every step is one of these.
LEMMA StepShape ==
  ASSUME IInv, [Next]_vars
  PROVE  Recordless \/ Administered \/ \E c \in Applicants : Submitted(c)
<1>1. CASE \E a \in Admins : Load(a)
  BY <1>1 DEF Load, Recordless
<1>2. CASE \E c \in Clients : Drop(c)
  BY <1>2 DEF Drop, Recordless
<1>3. CASE Tick \/ UNCHANGED vars
  BY <1>3 DEF Tick, vars, Recordless
<1> QED
  BY <1>1, <1>2, <1>3, ProposeSubmits, DecideAdministers, ReportAdministers,
     RecordAdministers DEF Next

(***************************************************************************)
(* The heartbeat of an abandoned run, a retry or a late report never takes *)
(* a completed step back.                                                  *)
(***************************************************************************)
THEOREM StepsStick == Spec => CompletedStepSticks
<1>1. ASSUME IInv, [Next]_vars, proposal # None, NEW s \in Steps
      PROVE  \/ proposal.steps[s].status # "completed"
             \/ proposal'.steps[s] = proposal.steps[s]
             \/ proposal'.review \in {"rejected", "pending"}
  <2>1. CASE Recordless
    BY <2>1 DEF Recordless
  <2>2. CASE Administered
    BY <1>1, <2>2 DEF Administered
  <2>3. ASSUME NEW c \in Applicants, Submitted(c)
        PROVE  proposal'.review \in {"rejected", "pending"}
    BY <1>1, <2>3 DEF Submitted, ResubmittedRow, NewRow
  <2> QED BY <1>1, <2>1, <2>2, <2>3, StepShape
<1>2. IInv /\ [Next]_vars =>
        [proposal # None =>
           \A s \in Steps :
             \/ proposal.steps[s].status # "completed"
             \/ proposal'.steps[s] = proposal.steps[s]
             \/ proposal'.review \in {"rejected", "pending"}]_proposal
  BY <1>1
<1> QED BY <1>2, Invariance, PTL DEF Spec, CompletedStepSticks

-----------------------------------------------------------------------------
\* Whoever submitted the proposal created it.
OwnerSubmitted ==
  /\ proposal = None => submissions = <<>>
  /\ SameActor /\ proposal # None =>
       \A i \in 1..Len(submissions) : submissions[i].by = proposal.createdBy

\* One more submission, by somebody who may propose.
LEMMA SubmissionAdded ==
  ASSUME IInv, OwnerSubmitted, NEW c \in Applicants, Submitted(c), SameActor
  PROVE  /\ proposal' # None
         /\ proposal # None => /\ proposal'.createdBy = proposal.createdBy
                               /\ proposal.org # None => proposal'.org = proposal.org
         /\ \A i \in 1..Len(submissions') : submissions'[i].by = proposal'.createdBy
<1>1. /\ proposal \in Row \cup {None} /\ c \in Clients /\ req[c].stamp \in Nat
      /\ req[c].org \in Orgs \cup {None} /\ Account[c] \in Accounts
      /\ submissions \in Seq([key : Keys \cup {None}, by : Accounts])
      /\ req[c].key \in Keys \cup {None}
  BY ConstantsAssumption DEF IInv, TypeOK, Clients, Request
<1>2. /\ proposal = None => proposal' = NewRow(c)
      /\ proposal # None => proposal' = ResubmittedRow(c)
  BY DEF Submitted
<1>3. NewRow(c) \in Row
  BY <1>1 DEF NewRow, Row, ReviewStatus, ApplyStatus, RemoveStatus, Step
<1>4. proposal # None => /\ proposal'.createdBy = proposal.createdBy
                         /\ proposal'.org = req[c].org /\ proposal'.updatedAt = req[c].stamp
                         /\ proposal' \in Row
  BY <1>1, <1>2, <1>3 DEF ResubmittedRow, NewRow, Row
<1>5. proposal' # None
  BY <1>2, <1>3, <1>4, ConstantsAssumption
<1>6. proposal # None => proposal.createdBy = Account[c] /\ proposal.org \in {None, req[c].org}
  BY DEF Submitted, OwnsProposal
<1>7. proposal'.createdBy = Account[c]
  BY <1>2, <1>4, <1>6 DEF NewRow
<1>8. ASSUME NEW i \in 1..Len(submissions') PROVE submissions'[i].by = proposal'.createdBy
  <2> DEFINE new == [key |-> req[c].key, by |-> Account[c]]
  <2>1. /\ submissions' = Append(submissions, new) /\ new.by = Account[c]
        /\ new \in [key : Keys \cup {None}, by : Accounts]
    BY <1>1 DEF Submitted
  <2> HIDE DEF new
  <2>2. /\ Len(submissions) \in Nat /\ Len(submissions') = Len(submissions) + 1
        /\ submissions'[Len(submissions) + 1] = new
        /\ \A k \in 1..Len(submissions) : submissions'[k] = submissions[k]
    BY <1>1, <2>1, AppendProperties, LenProperties
  <2>3. proposal = None => Len(submissions) = 0
    BY DEF OwnerSubmitted
  <2>4. \A k \in 1..Len(submissions) : proposal # None /\ submissions[k].by = proposal.createdBy
    BY <2>3 DEF OwnerSubmitted
  <2>5. \A k \in 1..Len(submissions) : submissions'[k].by = proposal'.createdBy
    BY <1>4, <2>2, <2>4
  <2>6. i \in 1..Len(submissions) \/ i = Len(submissions) + 1
    BY <2>2
  <2> QED BY <1>7, <2>1, <2>2, <2>5, <2>6
<1> QED BY <1>4, <1>5, <1>6, <1>8

LEMMA OwnerStep ==
  ASSUME IInv, OwnerSubmitted, [Next]_vars
  PROVE  OwnerSubmitted'
<1>1. CASE Recordless
  BY <1>1 DEF Recordless, OwnerSubmitted
<1>2. CASE Administered
  BY <1>2 DEF Administered, OwnerSubmitted
<1>3. ASSUME NEW c \in Applicants, Submitted(c) PROVE OwnerSubmitted'
  <2>1. proposal' # None
    <3>1. /\ proposal \in Row \cup {None} /\ c \in Clients /\ req[c].stamp \in Nat
          /\ req[c].org \in Orgs \cup {None} /\ Account[c] \in Accounts
      BY ConstantsAssumption DEF IInv, TypeOK, Clients, Request
    <3>2. NewRow(c) \in Row
      BY <3>1 DEF NewRow, Row, ReviewStatus, ApplyStatus, RemoveStatus, Step
    <3>3. proposal # None => ResubmittedRow(c) \in Row
      BY <3>1, <3>2 DEF ResubmittedRow, Row
    <3> QED BY <1>3, <3>2, <3>3, ConstantsAssumption DEF Submitted
  <2>2. SameActor => \A i \in 1..Len(submissions') : submissions'[i].by = proposal'.createdBy
    BY <1>3, SubmissionAdded
  <2> QED BY <2>1, <2>2 DEF OwnerSubmitted
<1> QED BY <1>1, <1>2, <1>3, StepShape

(***************************************************************************)
(* A community application stays with its applicant and organization,      *)
(* however submissions, decisions and restarts interleave.                 *)
(***************************************************************************)
THEOREM OwnerStays == Spec => ApplicationStaysWithOwner
<1>1. Init => OwnerSubmitted
  BY DEF Init, OwnerSubmitted
<1>2. IInv /\ OwnerSubmitted /\ [Next]_vars => OwnerSubmitted'
  BY OwnerStep
<1>3. ASSUME IInv, OwnerSubmitted, [Next]_vars, SameActor, proposal # None
      PROVE  /\ proposal'.createdBy = proposal.createdBy
             /\ proposal.org # None => proposal'.org = proposal.org
             /\ \A i \in 1..Len(submissions') : submissions'[i].by = proposal.createdBy
  <2>1. CASE Recordless
    BY <1>3, <2>1 DEF Recordless, OwnerSubmitted
  <2>2. CASE Administered
    BY <1>3, <2>2 DEF Administered, OwnerSubmitted
  <2>3. ASSUME NEW c \in Applicants, Submitted(c)
        PROVE  /\ proposal'.createdBy = proposal.createdBy
               /\ proposal.org # None => proposal'.org = proposal.org
               /\ \A i \in 1..Len(submissions') : submissions'[i].by = proposal.createdBy
    BY <1>3, <2>3, SubmissionAdded
  <2> QED BY <1>3, <2>1, <2>2, <2>3, StepShape
<1>4. IInv /\ OwnerSubmitted /\ [Next]_vars =>
        [SameActor /\ proposal # None =>
           /\ proposal'.createdBy = proposal.createdBy
           /\ proposal.org # None => proposal'.org = proposal.org
           /\ \A i \in 1..Len(submissions') :
                submissions'[i].by = proposal.createdBy]_<<proposal, submissions>>
  BY <1>3
<1> QED BY <1>1, <1>2, <1>4, Invariance, PTL DEF Spec, ApplicationStaysWithOwner

-----------------------------------------------------------------------------
\* How often an action is in the log, when it grows by one entry.
LEMMA LogGrows ==
  ASSUME NEW log \in Seq(Action), NEW action \in Action
  PROVE  LET proposed(s) == {i \in 1..Len(s) : s[i] = "proposed"}
             longer == Append(log, action)
         IN  /\ IsFiniteSet(proposed(log)) /\ Cardinality(proposed(log)) \in Nat
             /\ Cardinality(proposed(longer)) =
                  IF action = "proposed" THEN Cardinality(proposed(log)) + 1
                                         ELSE Cardinality(proposed(log))
<1> DEFINE n == Len(log)
           longer == Append(log, action)
           old == {i \in 1..n : log[i] = "proposed"}
           new == {i \in 1..Len(longer) : longer[i] = "proposed"}
<1>1. /\ n \in Nat /\ Len(longer) = n + 1 /\ longer[n + 1] = action
      /\ \A i \in 1..n : longer[i] = log[i]
  BY AppendProperties, LenProperties
<1>2. new = IF action = "proposed" THEN old \cup {n + 1} ELSE old
  <2> HIDE DEF longer, n
  <2>1. 1..(n + 1) = (1..n) \cup {n + 1} /\ n + 1 \notin 1..n
    BY <1>1
  <2> QED BY <1>1, <2>1
<1>3. IsFiniteSet(1..n) /\ old \subseteq 1..n
  BY <1>1, FS_Interval
<1>4. IsFiniteSet(old) /\ n + 1 \notin old
  BY <1>1, <1>3, FS_Subset
<1>5. Cardinality(old) \in Nat /\ Cardinality(old \cup {n + 1}) = Cardinality(old) + 1
  BY <1>4, FS_CardinalityType, FS_AddElement
<1> HIDE DEF old, new, n
<1>6. Cardinality(new) = IF action = "proposed" THEN Cardinality(old) + 1 ELSE Cardinality(old)
  BY <1>2, <1>5
<1> QED BY <1>4, <1>5, <1>6 DEF old, new, n

LEMMA KeyStep ==
  ASSUME IInv, KeySubmittedOnce, [Next]_vars
  PROVE  KeySubmittedOnce'
<1> DEFINE Entry == [key : Keys \cup {None}, by : Accounts]
           proposed(s) == {i \in 1..Len(s) : s[i] = "proposed"}
<1>1. submissions \in Seq(Entry) /\ audit \in Seq(Action)
  BY DEF IInv, TypeOK
<1>2. /\ Cardinality(ProposedEntries) = Len(submissions) /\ Len(submissions) \in Nat
      /\ ProposedEntries = proposed(audit) /\ ProposedEntries' = proposed(audit')
  BY <1>1, LenProperties DEF KeySubmittedOnce, ProposedEntries
<1>3. CASE Recordless
  BY <1>3 DEF Recordless, KeySubmittedOnce, ProposedEntries
<1>4. CASE Administered
  <2>1. UNCHANGED submissions
    BY <1>4 DEF Administered
  <2>2. Cardinality(proposed(audit')) = Cardinality(proposed(audit))
    <3>1. CASE audit' = audit
      BY <3>1
    <3>2. ASSUME NEW action \in Action \ {"proposed"}, audit' = Append(audit, action)
          PROVE  Cardinality(proposed(audit')) = Cardinality(proposed(audit))
      BY <1>1, <3>2, LogGrows, ZenonT(30)
    <3> QED BY <1>4, <3>1, <3>2 DEF Administered
  <2> HIDE DEF proposed
  <2> QED BY <1>2, <2>1, <2>2 DEF KeySubmittedOnce
<1>5. ASSUME NEW c \in Applicants, Submitted(c) PROVE KeySubmittedOnce'
  <2> DEFINE new == [key |-> req[c].key, by |-> Account[c]]
  <2>1. new \in Entry /\ new.key = req[c].key
    BY ConstantsAssumption DEF IInv, TypeOK, Clients, Request
  <2>2. submissions' = Append(submissions, new) /\ audit' = Append(audit, "proposed")
    BY <1>5 DEF Submitted
  <2>3. new.key # None => \A i \in 1..Len(submissions) : submissions[i].key # new.key
    BY <1>5, <2>1 DEF Submitted, KeyUsed
  <2> HIDE DEF new
  <2>4. /\ Len(submissions') = Len(submissions) + 1
        /\ submissions'[Len(submissions) + 1] = new
        /\ \A i \in 1..Len(submissions) : submissions'[i] = submissions[i]
    BY <1>1, <2>1, <2>2, AppendProperties, LenProperties
  <2>5. ASSUME NEW i \in 1..Len(submissions'), NEW j \in 1..Len(submissions'),
               submissions'[i].key = submissions'[j].key, i # j
        PROVE  submissions'[i].key = None
    <3>1. /\ i \in 1..Len(submissions) \/ i = Len(submissions) + 1
          /\ j \in 1..Len(submissions) \/ j = Len(submissions) + 1
      BY <1>2, <2>4
    <3>2. CASE i \in 1..Len(submissions) /\ j \in 1..Len(submissions)
      BY <2>4, <2>5, <3>2 DEF KeySubmittedOnce
    <3>3. CASE i = Len(submissions) + 1 /\ j \in 1..Len(submissions)
      BY <2>3, <2>4, <2>5, <3>3
    <3>4. CASE j = Len(submissions) + 1 /\ i \in 1..Len(submissions)
      BY <2>3, <2>4, <2>5, <3>4
    <3> QED BY <2>5, <3>1, <3>2, <3>3, <3>4
  <2>6. Cardinality(proposed(audit')) = Cardinality(proposed(audit)) + 1
    <3>1. "proposed" \in Action
      BY DEF Action
    <3> QED BY <1>1, <2>2, <3>1, LogGrows
  <2> HIDE DEF proposed
  <2> QED BY <1>2, <2>4, <2>5, <2>6 DEF KeySubmittedOnce
<1> QED BY <1>3, <1>4, <1>5, StepShape

(***************************************************************************)
(* A submission is stored once per idempotency key, and each one reset the *)
(* proposal once.                                                          *)
(***************************************************************************)
THEOREM KeyOnce == Spec => []KeySubmittedOnce
<1>1. Init => KeySubmittedOnce
  <2> SUFFICES ASSUME Init PROVE KeySubmittedOnce
    OBVIOUS
  <2>1. submissions = <<>> /\ audit = <<>> /\ Len(submissions) = 0
    BY DEF Init
  <2>2. ProposedEntries = {}
    BY <2>1 DEF ProposedEntries
  <2> QED BY <2>1, <2>2, FS_EmptySet DEF KeySubmittedOnce
<1>2. IInv /\ KeySubmittedOnce /\ [Next]_vars => KeySubmittedOnce'
  BY KeyStep
<1> QED BY <1>1, <1>2, Invariance, PTL DEF Spec
-----------------------------------------------------------------------------
(* What the log tells                                                      *)

\* An action has one outcome in a stage.
LEMMA OneOutcome ==
  ASSUME NEW s, NEW x, NEW t, <<s, x, t>> \in Story
  PROVE  Tell(s, x) = t
<1> DEFINE next == {e \in Story : e[1] = s /\ e[2] = x}
<1>1. \A e \in Story : e[1] = s /\ e[2] = x => e = <<s, x, t>>
  BY DEF Story
<1>2. next = {<<s, x, t>>}
  BY <1>1
<1>3. (CHOOSE e \in next : TRUE) = <<s, x, t>>
  BY <1>2
<1> QED BY <1>2, <1>3 DEF Tell

\* The log goes on telling: nothing happened, or one thing that is logged.
Tells ==
  \/ UNCHANGED <<audit, StageOf(proposal)>>
  \/ \E x \in Action :
       /\ audit' = Append(audit, x)
       /\ <<StageOf(proposal), x, StageOf(proposal')>> \in Story

\* What a write tells.
LEMMA WriteTells ==
  ASSUME IInv, NEW a \in Admins, NEW op \in AdminOps, NEW row,
         NEW x \in Action, Write(a, op, row, x),
         proposal \in Row /\ Coherent(proposal) /\ Judged(a, req[a], clock)
           /\ SameDecision(req[a].base, proposal) =>
           row \in Row /\ <<StageOf(proposal), x, StageOf(row)>> \in Story
  PROVE  Tells
<1>1. CASE ~Unchanged(a)
  BY <1>1 DEF Write, Tells
<1>2. CASE Unchanged(a)
  <2>1. req[a].op \in AdminOps
    BY DEF Write
  <2>2. /\ proposal # None /\ proposal \in Row /\ Coherent(proposal)
        /\ SameDecision(req[a].base, proposal)
        /\ Judged(a, req[a], clock) /\ req[a].stamp \in Nat
    BY <1>2, <2>1, Decided
  <2>3. /\ row \in Row /\ <<StageOf(proposal), x, StageOf(row)>> \in Story
        /\ proposal' = [row EXCEPT !.updatedAt = req[a].stamp]
        /\ audit' = Append(audit, x)
    BY <1>2, <2>2 DEF Write
  <2>4. /\ proposal' \in Row /\ proposal'.review = row.review
        /\ proposal'.apply = row.apply /\ proposal'.remove = row.remove
    BY <2>2, <2>3 DEF Row
  <2>5. StageOf(proposal') = StageOf(row)
    BY <2>3, <2>4, ConstantsAssumption DEF StageOf
  <2> QED BY <2>3, <2>5 DEF Tells
<1> QED BY <1>1, <1>2

LEMMA DecideTells ==
  ASSUME IInv, NEW a \in Admins, Decide(a) PROVE Tells
<1>1. CASE ReadApprove(a) \/ ReadReject(a) \/ ReadReopen(a) \/ ReadRemove(a)
  BY <1>1 DEF ReadApprove, ReadReject, ReadReopen, ReadRemove, Read, Tells
<1>2. req[a].stamp \in Nat /\ \A row \in Row : row # None
  BY ConstantsAssumption DEF IInv, TypeOK, Request, Clients
<1>3. CASE WriteApprove(a)
  <2> DEFINE row == [proposal EXCEPT !.review = "approved", !.apply = "applying",
                                     !.activityAt = req[a].stamp]
             x == IF req[a].base.review = "approved" THEN "apply_retried" ELSE "approved"
  <2>1. Write(a, "approve", row, x) /\ req[a].op = "approve"
    BY <1>3 DEF WriteApprove, Write
  <2>2. ASSUME proposal \in Row, Coherent(proposal), Judged(a, req[a], clock),
               SameDecision(req[a].base, proposal)
        PROVE  row \in Row /\ <<StageOf(proposal), x, StageOf(row)>> \in Story
    <3>1. /\ row \in Row /\ row.review = "approved" /\ row.apply = "applying"
      BY <1>2, <2>2 DEF Row, ReviewStatus, ApplyStatus
    <3>2. StageOf(row) = "applying"
      BY <1>2, <3>1 DEF StageOf
    <3>3. \/ proposal.review = "pending" /\ x = "approved"
          \/ /\ proposal.review = "approved" /\ x = "apply_retried"
             /\ proposal.apply \in {"failed", "applying"}
      BY <2>1, <2>2 DEF Judged, SameDecision
    <3>4. \/ x = "approved" /\ StageOf(proposal) = "pending"
          \/ x = "apply_retried" /\ StageOf(proposal) \in {"applyFailed", "applying"}
      BY <1>2, <2>2, <3>3 DEF StageOf
    <3> QED BY <3>2, <3>1, <3>4 DEF Story
  <2>3. x \in Action /\ "approve" \in AdminOps
    BY DEF Action, AdminOps
  <2> HIDE DEF row, x
  <2> QED BY <2>1, <2>2, <2>3, WriteTells
<1>4. CASE WriteReject(a)
  <2> DEFINE row == [proposal EXCEPT !.review = "rejected", !.apply = "not_started",
                       !.steps = [s \in Steps |-> [status |-> None, resource |-> None]],
                       !.activityAt = 0]
  <2>1. Write(a, "reject", row, "rejected") /\ req[a].op = "reject"
    BY <1>4 DEF WriteReject, Write
  <2>2. ASSUME proposal \in Row, Coherent(proposal), Judged(a, req[a], clock),
               SameDecision(req[a].base, proposal)
        PROVE  row \in Row /\ <<StageOf(proposal), "rejected", StageOf(row)>> \in Story
    <3>1. row \in Row /\ row.review = "rejected"
      BY <2>2 DEF Row, ReviewStatus, ApplyStatus, Step
    <3>2. StageOf(row) = "rejected"
      BY <1>2, <3>1 DEF StageOf
    <3>3. StageOf(proposal) \in {"pending", "applyFailed"}
      BY <1>2, <2>1, <2>2 DEF Judged, SameDecision, StageOf, Coherent
    <3> QED BY <3>1, <3>2, <3>3 DEF Story
  <2>3. "rejected" \in Action /\ "reject" \in AdminOps
    BY DEF Action, AdminOps
  <2> HIDE DEF row
  <2> QED BY <2>1, <2>2, <2>3, WriteTells
<1>5. CASE WriteReopen(a)
  <2> DEFINE row == [proposal EXCEPT !.review = "pending"]
  <2>1. Write(a, "reopen", row, "reopened") /\ req[a].op = "reopen"
    BY <1>5 DEF WriteReopen, Write
  <2>2. ASSUME proposal \in Row, Coherent(proposal), Judged(a, req[a], clock),
               SameDecision(req[a].base, proposal)
        PROVE  row \in Row /\ <<StageOf(proposal), "reopened", StageOf(row)>> \in Story
    <3>1. row \in Row /\ row.review = "pending"
      BY <2>2 DEF Row, ReviewStatus
    <3>2. StageOf(row) = "pending" /\ StageOf(proposal) = "rejected"
      BY <1>2, <2>1, <2>2, <3>1 DEF StageOf, Judged, SameDecision
    <3> QED BY <3>1, <3>2 DEF Story
  <2>3. "reopened" \in Action /\ "reopen" \in AdminOps
    BY DEF Action, AdminOps
  <2> HIDE DEF row
  <2> QED BY <2>1, <2>2, <2>3, WriteTells
<1>6. CASE WriteRemove(a)
  <2> DEFINE row == [proposal EXCEPT !.remove = "removing"]
             x == IF req[a].base.remove = "not_started"
                  THEN "approval_revocation_started" ELSE "removal_retried"
  <2>1. Write(a, "remove", row, x) /\ req[a].op = "remove"
    BY <1>6 DEF WriteRemove, Write
  <2>2. ASSUME proposal \in Row, Coherent(proposal), Judged(a, req[a], clock),
               SameDecision(req[a].base, proposal)
        PROVE  row \in Row /\ <<StageOf(proposal), x, StageOf(row)>> \in Story
    <3>1. /\ row \in Row /\ row.remove = "removing" /\ row.review = proposal.review
          /\ row.apply = proposal.apply
      BY <2>2 DEF Row, RemoveStatus
    <3>2. proposal.review = "approved" /\ proposal.apply = "applied"
      BY <2>1, <2>2 DEF Judged, SameDecision
    <3>3. StageOf(row) = "removing"
      BY <1>2, <3>1, <3>2 DEF StageOf
    <3>4. \/ x = "approval_revocation_started" /\ StageOf(proposal) = "applied"
          \/ x = "removal_retried" /\ StageOf(proposal) \in {"removeFailed", "removing"}
      BY <1>2, <2>1, <2>2, <3>2 DEF Judged, SameDecision, StageOf
    <3> QED BY <3>1, <3>3, <3>4 DEF Story
  <2>3. x \in Action /\ "remove" \in AdminOps
    BY DEF Action, AdminOps
  <2> HIDE DEF row, x
  <2> QED BY <2>1, <2>2, <2>3, WriteTells
<1> QED BY <1>1, <1>3, <1>4, <1>5, <1>6 DEF Decide

LEMMA ReportTells ==
  ASSUME IInv, NEW a \in Admins, Report(a) PROVE Tells
<1>1. CASE \/ ReadMarkApplied(a) \/ ReadMarkApplyFailed(a)
           \/ ReadMarkRemoved(a) \/ ReadMarkRemoveFailed(a)
  BY <1>1 DEF ReadMarkApplied, ReadMarkApplyFailed, ReadMarkRemoved,
     ReadMarkRemoveFailed, Read, Tells
<1>2. /\ \A row \in Row : row # None
      /\ req[a].base \in Row \cup {None}
  BY ConstantsAssumption DEF IInv, TypeOK, Request, Clients
<1>3. ASSUME proposal \in Row, Coherent(proposal), Judged(a, req[a], clock),
             SameDecision(req[a].base, proposal)
      PROVE  /\ req[a].op \in {"markApplied", "markApplyFailed"} =>
                  proposal.review = "approved" /\ StageOf(proposal) = "applying"
             /\ req[a].op \in {"markRemoved", "markRemoveFailed"} =>
                  /\ proposal.review = "approved" /\ proposal.apply = "applied"
                  /\ StageOf(proposal) = "removing"
  BY <1>2, <1>3 DEF Judged, SameDecision, StageOf, Coherent, Row, ReviewStatus
<1>4. ASSUME NEW r \in Resources \cup {None}, WriteMarkApplied(a, r)
      PROVE  Tells
  <2> DEFINE resource == IF r # None THEN r ELSE req[a].base.resource
             row == [proposal EXCEPT !.apply = "applied", !.resource = resource]
  <2>1. Write(a, "markApplied", row, "applied") /\ req[a].op = "markApplied"
    BY <1>4 DEF WriteMarkApplied, Write
  <2>2. CASE Unchanged(a)
    <3>1. req[a].base \in Row
      BY <2>1, <2>2, Decided DEF Write, AdminOps
    <3>2. resource \in Resources \cup {None}
      BY <3>1 DEF Row
    <3> HIDE DEF resource
    <3>3. ASSUME proposal \in Row, Coherent(proposal), Judged(a, req[a], clock),
                 SameDecision(req[a].base, proposal)
          PROVE  row \in Row /\ <<StageOf(proposal), "applied", StageOf(row)>> \in Story
      <4>1. /\ row \in Row /\ row.apply = "applied" /\ row.review = proposal.review
            /\ row.remove = proposal.remove
        BY <3>2, <3>3 DEF Row, ApplyStatus
      <4>2. /\ proposal.review = "approved" /\ StageOf(proposal) = "applying"
            /\ proposal.apply = "applying"
        BY <1>3, <2>1, <3>3 DEF Judged, SameDecision
      <4>3. StageOf(row) = "applied"
        BY <1>2, <3>3, <4>1, <4>2 DEF StageOf, Coherent
      <4> QED BY <4>1, <4>2, <4>3 DEF Story
    <3>4. "applied" \in Action /\ "markApplied" \in AdminOps
      BY DEF Action, AdminOps
    <3> HIDE DEF row
    <3> QED BY <2>1, <3>3, <3>4, WriteTells
  <2>3. CASE ~Unchanged(a)
    BY <2>1, <2>3 DEF Write, Tells
  <2> QED BY <2>2, <2>3
<1>5. CASE WriteMarkApplyFailed(a)
  <2> DEFINE row == [proposal EXCEPT !.apply = "failed"]
  <2>1. Write(a, "markApplyFailed", row, "apply_failed")
          /\ req[a].op = "markApplyFailed"
    BY <1>5 DEF WriteMarkApplyFailed, Write
  <2>2. ASSUME proposal \in Row, Coherent(proposal), Judged(a, req[a], clock),
               SameDecision(req[a].base, proposal)
        PROVE  row \in Row /\ <<StageOf(proposal), "apply_failed", StageOf(row)>> \in Story
    <3>1. row \in Row /\ row.apply = "failed" /\ row.review = proposal.review
      BY <2>2 DEF Row, ApplyStatus
    <3>2. StageOf(row) = "applyFailed" /\ StageOf(proposal) = "applying"
      BY <1>2, <1>3, <2>1, <2>2, <3>1 DEF StageOf
    <3> QED BY <3>1, <3>2 DEF Story
  <2>3. "apply_failed" \in Action /\ "markApplyFailed" \in AdminOps
    BY DEF Action, AdminOps
  <2> HIDE DEF row
  <2> QED BY <2>1, <2>2, <2>3, WriteTells
<1>6. CASE WriteMarkRemoved(a)
  <2> DEFINE row == [proposal EXCEPT !.review = "removed", !.remove = "removed"]
  <2>1. Write(a, "markRemoved", row, "approval_revoked")
          /\ req[a].op = "markRemoved"
    BY <1>6 DEF WriteMarkRemoved, Write
  <2>2. ASSUME proposal \in Row, Coherent(proposal), Judged(a, req[a], clock),
               SameDecision(req[a].base, proposal)
        PROVE  row \in Row
                 /\ <<StageOf(proposal), "approval_revoked", StageOf(row)>> \in Story
    <3>1. row \in Row /\ row.review = "removed"
      BY <2>2 DEF Row, ReviewStatus, RemoveStatus
    <3>2. StageOf(row) = "removed" /\ StageOf(proposal) = "removing"
      BY <1>2, <1>3, <2>1, <2>2, <3>1 DEF StageOf
    <3> QED BY <3>1, <3>2 DEF Story
  <2>3. "approval_revoked" \in Action /\ "markRemoved" \in AdminOps
    BY DEF Action, AdminOps
  <2> HIDE DEF row
  <2> QED BY <2>1, <2>2, <2>3, WriteTells
<1>7. CASE WriteMarkRemoveFailed(a)
  <2> DEFINE row == [proposal EXCEPT !.remove = "failed"]
  <2>1. Write(a, "markRemoveFailed", row, "remove_failed")
          /\ req[a].op = "markRemoveFailed"
    BY <1>7 DEF WriteMarkRemoveFailed, Write
  <2>2. ASSUME proposal \in Row, Coherent(proposal), Judged(a, req[a], clock),
               SameDecision(req[a].base, proposal)
        PROVE  row \in Row
                 /\ <<StageOf(proposal), "remove_failed", StageOf(row)>> \in Story
    <3>1. /\ row \in Row /\ row.remove = "failed" /\ row.review = proposal.review
          /\ row.apply = proposal.apply
      BY <2>2 DEF Row, RemoveStatus
    <3>2. StageOf(row) = "removeFailed" /\ StageOf(proposal) = "removing"
      BY <1>2, <1>3, <2>1, <2>2, <3>1 DEF StageOf
    <3> QED BY <3>1, <3>2 DEF Story
  <2>3. "remove_failed" \in Action /\ "markRemoveFailed" \in AdminOps
    BY DEF Action, AdminOps
  <2> HIDE DEF row
  <2> QED BY <2>1, <2>2, <2>3, WriteTells
<1> QED BY <1>1, <1>4, <1>5, <1>6, <1>7 DEF Report

LEMMA ProposeTells ==
  ASSUME IInv, NEW c \in Applicants, Propose(c) PROVE Tells
<1>1. CASE ~(WritePropose(c) /\ Unchanged(c) /\ ~KeyUsed(req[c].key))
  BY <1>1 DEF Propose, LookUpKey, ReadPropose, WritePropose, Tells
<1>2. CASE WritePropose(c) /\ Unchanged(c) /\ ~KeyUsed(req[c].key)
  <2>1. Submittable
    BY <1>2, SubmitsWhenAllowed
  <2>2. audit' = Append(audit, "proposed") /\ StageOf(proposal') = "pending"
    BY <1>2, SubmitsWhenAllowed DEF WritePropose
  <2> QED BY <2>1, <2>2 DEF Tells, Story, Action, Submittable
<1> QED BY <1>1, <1>2

LEMMA RecordTells ==
  ASSUME IInv, NEW a \in Admins, Record(a) PROVE Tells
<1>1. CASE BeginRecord(a)
  BY <1>1 DEF BeginRecord, Tells
<1>2. ASSUME NEW s \in Steps, NEW status \in StepStatus,
             NEW r \in Resources \cup {None}, WriteRecord(a, s, status, r)
      PROVE  Tells
  <2>1. CASE ~SetupActive(proposal)
    BY <1>2, <2>1 DEF WriteRecord, Tells
  <2>2. CASE SetupActive(proposal)
    <3>1. /\ proposal \in Row /\ proposal' \in Row
          /\ SameDecision(proposal', proposal)
      BY <1>2, <2>2, Recorded
    <3>2. StageOf(proposal) = "applying" /\ StageOf(proposal') = "applying"
      BY <2>2, <3>1, ConstantsAssumption DEF StageOf, SameDecision, SetupActive
    <3>3. audit' = audit \/ audit' = Append(audit, "apply_step_recorded")
      BY <1>2, <2>2 DEF WriteRecord
    <3> QED BY <3>2, <3>3 DEF Tells, Story, Action
  <2> QED BY <2>1, <2>2
<1> QED BY <1>1, <1>2 DEF Record

LEMMA StepTells ==
  ASSUME IInv, [Next]_vars PROVE Tells
<1>1. CASE (\E a \in Admins : Load(a)) \/ (\E c \in Clients : Drop(c)) \/ Tick
             \/ UNCHANGED vars
  BY <1>1 DEF Load, Drop, Tick, vars, Tells
<1> QED
  BY <1>1, ProposeTells, DecideTells, ReportTells, RecordTells DEF Next
-----------------------------------------------------------------------------
(***************************************************************************)
(* Reading the log defines its stages, and there is one way to read it.    *)
(* That a function defined by recursion exists is an induction over the    *)
(* log; since the log only grows at its end, the invariant carries it.     *)
(***************************************************************************)
IsReading(f, log) ==
  f = [n \in 0..Len(log) |-> IF n = 0 THEN "none" ELSE Tell(f[n - 1], log[n])]

LogInv ==
  \E f : /\ IsReading(f, audit) /\ f[Len(audit)] = StageOf(proposal)
         /\ \A g : IsReading(g, audit) => g = f

\* A reading of a longer log reads the shorter one the same way.
LEMMA LongerLog ==
  ASSUME NEW log \in Seq(Action), NEW x \in Action, NEW f, IsReading(f, log),
         \A g : IsReading(g, log) => g = f
  PROVE  \E h : /\ IsReading(h, Append(log, x))
                /\ h[Len(log) + 1] = Tell(f[Len(log)], x)
                /\ \A g : IsReading(g, Append(log, x)) => g = h
<1> DEFINE m == Len(log)
           longer == Append(log, x)
           h == [n \in 0..(m + 1) |-> IF n = m + 1 THEN Tell(f[m], x) ELSE f[n]]
<1>1. /\ m \in Nat /\ Len(longer) = m + 1 /\ longer[m + 1] = x
      /\ \A n \in 1..m : longer[n] = log[n]
  BY AppendProperties, LenProperties
<1>2. \A n \in 0..m : f[n] = IF n = 0 THEN "none" ELSE Tell(f[n - 1], log[n])
  BY <1>1 DEF IsReading
<1> HIDE DEF m, longer
<1>3. ASSUME NEW n \in 0..(m + 1)
      PROVE  h[n] = IF n = 0 THEN "none" ELSE Tell(h[n - 1], longer[n])
  <2>1. CASE n = m + 1
    <3>1. n # 0 /\ h[n] = Tell(f[m], x) /\ n - 1 = m /\ h[m] = f[m]
      BY <1>1, <2>1
    <3> QED BY <1>1, <2>1, <3>1
  <2>2. CASE n \in 0..m /\ n # 0
    <3>1. h[n] = f[n] /\ n - 1 \in 0..m /\ h[n - 1] = f[n - 1] /\ n \in 1..m
      BY <1>1, <2>2
    <3> QED BY <1>1, <1>2, <2>2, <3>1
  <2>3. CASE n = 0
    BY <1>1, <1>2, <2>3
  <2> QED BY <1>1, <2>1, <2>2, <2>3
<1>4. IsReading(h, longer)
  <2>1. h = [n \in 0..(m + 1) |-> h[n]]
    OBVIOUS
  <2> HIDE DEF h
  <2>2. h = [n \in 0..(m + 1) |->
               IF n = 0 THEN "none" ELSE Tell(h[n - 1], longer[n])]
    BY <1>3, <2>1
  <2> QED BY <1>1, <2>2 DEF IsReading
<1>5. ASSUME NEW g, IsReading(g, longer) PROVE g = h
  <2> DEFINE short == [n \in 0..m |-> g[n]]
  <2>1. /\ g = [n \in 0..(m + 1) |-> g[n]]
        /\ \A n \in 0..(m + 1) :
             g[n] = IF n = 0 THEN "none" ELSE Tell(g[n - 1], longer[n])
    BY <1>1, <1>5 DEF IsReading
  <2>2. \A n \in 0..m :
          short[n] = IF n = 0 THEN "none" ELSE Tell(short[n - 1], log[n])
    <3> SUFFICES ASSUME NEW n \in 0..m
                 PROVE  short[n] = IF n = 0 THEN "none" ELSE Tell(short[n - 1], log[n])
      OBVIOUS
    <3>1. n \in 0..(m + 1) /\ short[n] = g[n]
      BY <1>1
    <3>2. g[n] = IF n = 0 THEN "none" ELSE Tell(g[n - 1], longer[n])
      BY <2>1, <3>1
    <3>3. CASE n = 0
      BY <3>1, <3>2, <3>3
    <3>4. CASE n # 0
      <4>1. n - 1 \in 0..m /\ n \in 1..m
        BY <1>1, <3>4
      <4>2. short[n - 1] = g[n - 1] /\ longer[n] = log[n]
        BY <1>1, <4>1
      <4> QED BY <3>1, <3>2, <3>4, <4>2
    <3> QED BY <3>3, <3>4
  <2>3. short = [n \in 0..m |-> short[n]]
    OBVIOUS
  <2> HIDE DEF short
  <2>4. short = [n \in 0..m |->
                   IF n = 0 THEN "none" ELSE Tell(short[n - 1], log[n])]
    BY <2>2, <2>3
  <2>5. short = f
    BY <2>4 DEF IsReading, m
  <2>6. \A n \in 0..m : g[n] = f[n]
    BY <2>5 DEF short
  <2>7. g[m + 1] = Tell(f[m], x)
    <3>1. /\ m + 1 \in 0..(m + 1) /\ m + 1 # 0 /\ (m + 1) - 1 = m
          /\ m \in 0..m
      BY <1>1
    <3>2. g[m + 1] = Tell(g[(m + 1) - 1], longer[m + 1])
      BY <2>1, <3>1
    <3> QED BY <1>1, <2>6, <3>1, <3>2
  <2>8. \A n \in 0..(m + 1) : g[n] = h[n]
    BY <1>1, <2>6, <2>7
  <2>9. h = [n \in 0..(m + 1) |-> h[n]]
    OBVIOUS
  <2> HIDE DEF h
  <2> QED BY <2>1, <2>8, <2>9
<1>6. h[m + 1] = Tell(f[m], x)
  BY <1>1
<1> QED BY <1>4, <1>5, <1>6 DEF m, longer

LEMMA LogStep == IInv /\ LogInv /\ [Next]_vars => LogInv'
<1> SUFFICES ASSUME IInv, LogInv, [Next]_vars PROVE LogInv'
  OBVIOUS
<1>1. audit \in Seq(Action) /\ Tells
  BY StepTells DEF IInv, TypeOK
<1>2. CASE UNCHANGED <<audit, StageOf(proposal)>>
  <2>1. audit' = audit /\ StageOf(proposal)' = StageOf(proposal)
    BY <1>2
  <2>2. PICK f : /\ IsReading(f, audit) /\ f[Len(audit)] = StageOf(proposal)
                 /\ \A g : IsReading(g, audit) => g = f
    BY DEF LogInv
  <2>3. /\ IsReading(f, audit') /\ f[Len(audit')] = StageOf(proposal)'
        /\ \A g : IsReading(g, audit') => g = f
    BY <2>1, <2>2
  <2> QED BY <2>3 DEF LogInv
<1>3. ASSUME NEW x \in Action, audit' = Append(audit, x),
             <<StageOf(proposal), x, StageOf(proposal')>> \in Story
      PROVE  LogInv'
  <2>1. PICK f : /\ IsReading(f, audit) /\ f[Len(audit)] = StageOf(proposal)
                 /\ \A g : IsReading(g, audit) => g = f
    BY DEF LogInv
  <2>2. PICK h : /\ IsReading(h, Append(audit, x))
                 /\ h[Len(audit) + 1] = Tell(f[Len(audit)], x)
                 /\ \A g : IsReading(g, Append(audit, x)) => g = h
    BY <1>1, <2>1, LongerLog
  <2>3. Tell(StageOf(proposal), x) = StageOf(proposal')
    BY <1>3, OneOutcome
  <2>4. Len(audit') = Len(audit) + 1
    BY <1>1, <1>3, AppendProperties
  <2> QED BY <1>3, <2>1, <2>2, <2>3, <2>4 DEF LogInv
<1> QED BY <1>1, <1>2, <1>3 DEF Tells

(***************************************************************************)
(* The audit log tells the life of the proposal: whatever requests race,   *)
(* each change of stage has one entry, which fits the stage before it.     *)
(***************************************************************************)
THEOREM LogTellsLife == Spec => []AuditExplainsRow
<1>1. Init => LogInv
  <2> SUFFICES ASSUME Init PROVE LogInv
    OBVIOUS
  <2> DEFINE f == [n \in 0..0 |-> "none"]
  <2>1. Len(audit) = 0 /\ StageOf(proposal) = "none"
    BY DEF Init, StageOf
  <2>2. \A g : IsReading(g, audit) <=> g = f
    BY <2>1 DEF IsReading
  <2>3. f[Len(audit)] = "none"
    BY <2>1
  <2> HIDE DEF f
  <2>4. /\ IsReading(f, audit) /\ f[Len(audit)] = StageOf(proposal)
        /\ \A g : IsReading(g, audit) => g = f
    BY <2>1, <2>2, <2>3
  <2> QED BY <2>4 DEF LogInv
<1>2. LogInv => AuditExplainsRow
  <2> SUFFICES ASSUME LogInv PROVE AuditExplainsRow
    OBVIOUS
  <2>1. PICK f : /\ IsReading(f, audit) /\ f[Len(audit)] = StageOf(proposal)
                 /\ \A g : IsReading(g, audit) => g = f
    BY DEF LogInv
  <2>2. StageAfter = CHOOSE g : IsReading(g, audit)
    BY DEF StageAfter, IsReading
  <2>3. StageAfter = f
    BY <2>1, <2>2
  <2> QED BY <2>1, <2>3 DEF AuditExplainsRow
<1> QED BY <1>1, <1>2, LogStep, Invariance, PTL DEF Spec
-----------------------------------------------------------------------------
(* What a run may count on                                                 *)

\* A run is given a new token while it is under way.
TakenOver ==
  /\ proposal # None /\ proposal.apply = "applying"
  /\ proposal'.apply = "applying" /\ proposal'.updatedAt # proposal.updatedAt

\* Whoever is about to take a run over has read a row on which it was silent.
Silent ==
  \A a \in Admins :
    req[a].op = "approve" /\ req[a].base.apply = "applying" => ApplyStalled(req[a].base)

\* It stays so while the request waits, as only approve's read makes such a request.
LEMMA SilentUnless ==
  ASSUME IInv, Silent, NEW c \in Clients, clock' >= clock, clock' \in Nat,
         \A d \in Clients \ {c} : req'[d] = req[d],
         req'[c].op = "approve" =>
           \/ req'[c] = req[c]
           \/ clock' = clock /\ (req'[c].base.apply = "applying" => ApplyStalled(req'[c].base))
  PROVE  Silent'
<1> SUFFICES ASSUME NEW a \in Admins, req'[a].op = "approve", req'[a].base.apply = "applying"
             PROVE  ApplyStalled(req[a].base)'
  BY DEF Silent
<1>1. CASE req'[a] = req[a]
  <2>1. ApplyStalled(req[a].base)
    BY <1>1 DEF Silent
  <2>2. req[a].base # None /\ req[a].base \in Row
    BY <1>1 DEF IInv, TypeOK, Clients, Request, RequestOK, AdminOps
  <2>3. /\ req[a].base.updatedAt \in Nat /\ req[a].base.activityAt \in Nat
        /\ clock \in Nat /\ Timeout \in Nat
    BY <2>2, ConstantsAssumption DEF Row, IInv, TypeOK
  <2>4. LastActivity(req[a].base) \in Nat
    BY <2>3 DEF LastActivity
  <2>5. /\ req[a].base.apply = "applying"
        /\ clock >= LastActivity(req[a].base) + Timeout
    BY <2>1 DEF ApplyStalled, TimedOut
  <2>6. clock' >= LastActivity(req[a].base) + Timeout
    BY <2>3, <2>4, <2>5
  <2> QED BY <1>1, <2>5, <2>6 DEF ApplyStalled, TimedOut, LastActivity
<1>2. CASE req'[a] # req[a]
  <2>1. a = c
    BY <1>2 DEF Clients
  <2>2. ApplyStalled(req'[a].base) /\ clock' = clock
    BY <1>2, <2>1
  <2> QED BY <2>2 DEF ApplyStalled, TimedOut, LastActivity
<1> QED BY <1>1, <1>2

LEMMA SilentStep == IInv /\ Silent /\ [Next]_vars => Silent'
<1> SUFFICES ASSUME IInv, Silent, [Next]_vars PROVE Silent'
  OBVIOUS
<1>1. clock \in Nat /\ req \in [Clients -> Request]
  BY DEF IInv, TypeOK
\* What a request of client c does to the requests in flight.
<1> DEFINE Moves(c) == /\ clock' = clock
                       /\ \A d \in Clients \ {c} : req'[d] = req[d]
                       /\ req'[c].op = "approve" =>
                            \/ req'[c] = req[c]
                            \/ req'[c].base.apply = "applying" => ApplyStalled(req'[c].base)
<1>2. ASSUME NEW c \in Applicants, Propose(c) PROVE Moves(c)
  <2>1. c \in Clients
    BY DEF Clients
  <2>2. ASSUME NEW k, NEW o, LookUpKey(c, k, o) PROVE Moves(c)
    BY <1>1, <2>1, <2>2 DEF LookUpKey, Idle
  <2>3. CASE ReadPropose(c)
    BY <1>1, <2>1, <2>3 DEF ReadPropose, Idle, Request
  <2>4. CASE WritePropose(c)
    BY <1>1, <2>1, <2>4 DEF WritePropose, Idle
  <2> HIDE DEF Moves
  <2> QED BY <1>2, <2>2, <2>3, <2>4 DEF Propose
<1>3. ASSUME NEW a \in Admins, NEW op \in AdminOps, Read(a, op),
             op = "approve" => CanApprove(proposal)
      PROVE  Moves(a)
  <2>1. /\ a \in Clients /\ clock' = clock
        /\ req'[a].op = op /\ req'[a].base = proposal
        /\ \A d \in Clients \ {a} : req'[d] = req[d]
    BY <1>1, <1>3 DEF Read, Idle, Clients
  <2>2. ASSUME op = "approve", proposal.apply = "applying" PROVE ApplyStalled(proposal)
    <3>1. proposal # None /\ Coherent(proposal)
      BY <1>3 DEF Read, IInv, StatusesCohere
    <3> QED BY <1>3, <2>2, <3>1 DEF CanApprove, Retrying, Coherent
  <2> QED BY <2>1, <2>2
<1>4. ASSUME NEW a \in Admins, NEW op, NEW row, NEW action, Write(a, op, row, action)
      PROVE  Moves(a)
  BY <1>1, <1>4 DEF Write, Idle, Clients
<1>5. ASSUME NEW a \in Admins, Decide(a) PROVE Moves(a)
  <2> HIDE DEF Moves
  <2>1. CASE ReadApprove(a)
    BY <2>1, <1>3 DEF ReadApprove, AdminOps
  <2>2. CASE ReadReject(a)
    BY <2>2, <1>3 DEF ReadReject, AdminOps
  <2>3. CASE ReadReopen(a)
    BY <2>3, <1>3 DEF ReadReopen, AdminOps
  <2>4. CASE ReadRemove(a)
    BY <2>4, <1>3 DEF ReadRemove, AdminOps
  <2>5. CASE WriteApprove(a)
    BY <2>5, <1>4 DEF WriteApprove
  <2>6. CASE WriteReject(a)
    BY <2>6, <1>4 DEF WriteReject
  <2>7. CASE WriteReopen(a)
    BY <2>7, <1>4 DEF WriteReopen
  <2>8. CASE WriteRemove(a)
    BY <2>8, <1>4 DEF WriteRemove
  <2> QED BY <1>5, <2>1, <2>2, <2>3, <2>4, <2>5, <2>6, <2>7, <2>8 DEF Decide
<1>6. ASSUME NEW a \in Admins, Report(a) PROVE Moves(a)
  <2> HIDE DEF Moves
  <2>1. CASE ReadMarkApplied(a)
    BY <2>1, <1>3 DEF ReadMarkApplied, AdminOps
  <2>2. CASE ReadMarkApplyFailed(a)
    BY <2>2, <1>3 DEF ReadMarkApplyFailed, AdminOps
  <2>3. CASE ReadMarkRemoved(a)
    BY <2>3, <1>3 DEF ReadMarkRemoved, AdminOps
  <2>4. CASE ReadMarkRemoveFailed(a)
    BY <2>4, <1>3 DEF ReadMarkRemoveFailed, AdminOps
  <2>5. ASSUME NEW r \in Resources \cup {None}, WriteMarkApplied(a, r) PROVE Moves(a)
    BY <2>5, <1>4 DEF WriteMarkApplied
  <2>6. CASE WriteMarkApplyFailed(a)
    BY <2>6, <1>4 DEF WriteMarkApplyFailed
  <2>7. CASE WriteMarkRemoved(a)
    BY <2>7, <1>4 DEF WriteMarkRemoved
  <2>8. CASE WriteMarkRemoveFailed(a)
    BY <2>8, <1>4 DEF WriteMarkRemoveFailed
  <2> QED BY <1>6, <2>1, <2>2, <2>3, <2>4, <2>5, <2>6, <2>7, <2>8 DEF Report
<1>7. ASSUME NEW a \in Admins, Record(a) PROVE Moves(a)
  <2>1. a \in Clients
    BY DEF Clients
  <2>2. CASE BeginRecord(a)
    BY <1>1, <2>1, <2>2 DEF BeginRecord, Idle
  <2>3. ASSUME NEW s, NEW status, NEW r, WriteRecord(a, s, status, r) PROVE Moves(a)
    BY <1>1, <2>1, <2>3 DEF WriteRecord, Idle
  <2> HIDE DEF Moves
  <2> QED BY <1>7, <2>2, <2>3 DEF Record
<1>8. ASSUME NEW c \in Clients, Drop(c) PROVE Moves(c)
  BY <1>1, <1>8 DEF Drop, Idle
<1>9. ASSUME NEW c \in Clients, Moves(c) PROVE Silent'
  BY <1>1, <1>9, SilentUnless
<1>10. ASSUME clock' \in {clock, clock + 1}, UNCHANGED req PROVE Silent'
  <2>1. CASE Admins = {}
    BY <2>1 DEF Silent
  <2>2. ASSUME NEW a \in Admins PROVE Silent'
    <3>1. a \in Clients /\ clock' >= clock /\ clock' \in Nat
      BY <1>1, <1>10 DEF Clients
    <3> QED BY <1>10, <3>1, SilentUnless
  <2> QED BY <2>1, <2>2
<1> HIDE DEF Moves
<1>11. CASE \E a \in Admins : Load(a) \/ Decide(a) \/ Report(a) \/ Record(a)
  BY <1>5, <1>6, <1>7, <1>9, <1>10, <1>11 DEF Load, Clients
<1>12. CASE \E c \in Applicants : Propose(c)
  BY <1>2, <1>9, <1>12 DEF Clients
<1> QED BY <1>8, <1>9, <1>10, <1>11, <1>12 DEF Next, Tick, vars

\* Of all writes that find the version they read, only an approval leaves a run under
\* way with another token.
LEMMA TakingOver ==
  ASSUME IInv, [Next]_vars, TakenOver
  PROVE  \E a \in Admins : WriteApprove(a) /\ Unchanged(a)
<1>1. proposal \in Row /\ Coherent(proposal) /\ proposal.apply = "applying"
  BY DEF TakenOver, IInv, TypeOK, StatusesCohere
<1>2. ASSUME NEW c \in Applicants, Propose(c) PROVE FALSE
  BY <1>2, ProposeSubmits
     DEF Submitted, Recordless, NewRow, ResubmittedRow, TakenOver
<1>3. ASSUME NEW a \in Admins, Decide(a)
      PROVE  \E b \in Admins : WriteApprove(b) /\ Unchanged(b)
  <2>1. CASE ReadApprove(a) \/ ReadReject(a) \/ ReadReopen(a) \/ ReadRemove(a)
    BY <2>1 DEF ReadApprove, ReadReject, ReadReopen, ReadRemove, Read, TakenOver
  <2>2. CASE WriteApprove(a)
    BY <2>2 DEF WriteApprove, Write, TakenOver
  <2>3. CASE WriteReject(a) \/ WriteReopen(a) \/ WriteRemove(a)
    <3>1. req[a].op \in {"reject", "reopen", "remove"} /\ Unchanged(a)
      BY <2>3 DEF WriteReject, WriteReopen, WriteRemove, Write, TakenOver
    <3>2. SameDecision(req[a].base, proposal) /\ Judged(a, req[a], clock)
      BY <3>1, Decided DEF AdminOps
    <3> QED BY <1>1, <3>1, <3>2 DEF SameDecision, Judged, Coherent
  <2> QED BY <1>3, <2>1, <2>2, <2>3 DEF Decide
<1>4. ASSUME NEW a \in Admins, Report(a) PROVE FALSE
  <2>1. CASE \/ ReadMarkApplied(a) \/ ReadMarkApplyFailed(a)
             \/ ReadMarkRemoved(a) \/ ReadMarkRemoveFailed(a)
    BY <2>1 DEF ReadMarkApplied, ReadMarkApplyFailed, ReadMarkRemoved,
       ReadMarkRemoveFailed, Read, TakenOver
  <2>2. ASSUME NEW r \in Resources \cup {None}, WriteMarkApplied(a, r) PROVE FALSE
    BY <1>1, <2>2 DEF WriteMarkApplied, Write, TakenOver, Row
  <2>3. CASE WriteMarkApplyFailed(a)
    BY <1>1, <2>3 DEF WriteMarkApplyFailed, Write, TakenOver, Row
  <2>4. CASE WriteMarkRemoved(a) \/ WriteMarkRemoveFailed(a)
    <3>1. req[a].op \in {"markRemoved", "markRemoveFailed"} /\ Unchanged(a)
      BY <2>4 DEF WriteMarkRemoved, WriteMarkRemoveFailed, Write, TakenOver
    <3>2. SameDecision(req[a].base, proposal) /\ Judged(a, req[a], clock)
      BY <3>1, Decided DEF AdminOps
    <3> QED BY <1>1, <3>1, <3>2 DEF SameDecision, Judged, Coherent
  <2> QED BY <1>4, <2>1, <2>2, <2>3, <2>4 DEF Report
<1>5. ASSUME NEW a \in Admins, Record(a) PROVE FALSE
  <2>1. CASE BeginRecord(a)
    BY <2>1 DEF BeginRecord, TakenOver
  <2>2. ASSUME NEW s \in Steps, NEW status \in StepStatus,
               NEW r \in Resources \cup {None}, WriteRecord(a, s, status, r)
        PROVE  FALSE
    BY <1>1, <2>2 DEF WriteRecord, TakenOver, Row
  <2> QED BY <1>5, <2>1, <2>2 DEF Record
<1> QED BY <1>2, <1>3, <1>4, <1>5 DEF Next, Load, Drop, Tick, vars, TakenOver

(***************************************************************************)
(* What is true of what RetryOnlyAfterSilence claims: a run that is under  *)
(* way keeps its token for Timeout at least, and it is taken over only by  *)
(* an admin who has read this attempt's row when it was silent.  A         *)
(* heartbeat between that read and the write is all that can be missed.    *)
(***************************************************************************)
TakenOverWhenSilent ==
  [][TakenOver =>
       /\ TimedOut(proposal.updatedAt)
       /\ \E a \in Admins : /\ WriteApprove(a) /\ Unchanged(a)
                            /\ ApplyStalled(req[a].base)]_proposal

\* One heartbeat, between approve's read and its write, is what a takeover may overlook.
THEOREM TakeoversWereSilent == Spec => TakenOverWhenSilent
<1>1. Init => Silent
  BY DEF Init, Idle, Silent, Clients
<1>2. Spec => []Silent
  BY <1>1, SilentStep, Invariance, PTL DEF Spec
<1>3. ASSUME IInv, Silent, [Next]_vars, TakenOver
      PROVE  /\ TimedOut(proposal.updatedAt)
             /\ \E a \in Admins : /\ WriteApprove(a) /\ Unchanged(a)
                                  /\ ApplyStalled(req[a].base)
  <2>1. PICK a \in Admins : WriteApprove(a) /\ Unchanged(a)
    BY <1>3, TakingOver
  <2>2. /\ req[a].op = "approve" /\ req[a].base \in Row /\ proposal.apply = "applying"
        /\ SameDecision(req[a].base, proposal)
        /\ req[a].base.updatedAt = proposal.updatedAt
    BY <1>3, <2>1, Decided DEF WriteApprove, Write, AdminOps, TakenOver
  <2>3. ApplyStalled(req[a].base)
    BY <1>3, <2>2 DEF Silent, SameDecision
  <2>4. TimedOut(proposal.updatedAt)
    <3>1. /\ req[a].base.updatedAt \in Nat /\ req[a].base.activityAt \in Nat
          /\ clock \in Nat /\ Timeout \in Nat
      BY <1>3, <2>2, ConstantsAssumption DEF Row, IInv, TypeOK
    <3> QED BY <2>2, <2>3, <3>1 DEF ApplyStalled, TimedOut, LastActivity
  <2> QED BY <2>1, <2>3, <2>4
<1>4. IInv /\ Silent /\ [Next]_vars =>
        [TakenOver =>
           /\ TimedOut(proposal.updatedAt)
           /\ \E a \in Admins : /\ WriteApprove(a) /\ Unchanged(a)
                                /\ ApplyStalled(req[a].base)]_proposal
  BY <1>3
<1> QED BY <1>2, <1>4, Invariance, PTL DEF Spec, TakenOverWhenSilent
=============================================================================
