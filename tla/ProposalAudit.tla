----------------------------- MODULE ProposalAudit -----------------------------
(***************************************************************************)
(* The audit log of a proposal as an account of its life.                  *)
(***************************************************************************)
EXTENDS ProposalProperties

\* <<stage before, action, stage after>>
Story ==
  {<<from, "proposed", "pending">> : from \in {"none"} \cup ResubmittableStages}
  \cup
  {<<"pending", "approved", "applying">>,
   <<"applyFailed", "apply_retried", "applying">>,
   <<"applying", "apply_retried", "applying">>,
   <<"applying", "apply_step_recorded", "applying">>,
   <<"applying", "applied", "applied">>,
   <<"applying", "apply_failed", "applyFailed">>,
   <<"pending", "rejected", "rejected">>,
   <<"applyFailed", "rejected", "rejected">>,
   <<"rejected", "reopened", "pending">>,
   <<"applied", "approval_revocation_started", "removing">>,
   <<"removeFailed", "removal_retried", "removing">>,
   <<"removing", "removal_retried", "removing">>,
   <<"removing", "approval_revoked", "removed">>,
   <<"removing", "remove_failed", "removeFailed">>}

Tell(stage, action) ==
  LET next == {t \in Story : t[1] = stage /\ t[2] = action}
  IN  IF next = {} THEN "impossible" ELSE (CHOOSE t \in next : TRUE)[3]

\* The stage in which the first n entries of the log leave the proposal.
StageAfter[n \in 0..Len(audit)] ==
  IF n = 0 THEN "none" ELSE Tell(StageAfter[n - 1], audit[n])

(***************************************************************************)
(* Read from its first entry, the audit log is a possible life of the      *)
(* proposal, and it ends in the stage that the row is in: no change of     *)
(* status goes unlogged, is logged twice, or is logged without happening.  *)
(***************************************************************************)
AuditExplainsRow == StageAfter[Len(audit)] = StageOf(proposal)
=============================================================================
