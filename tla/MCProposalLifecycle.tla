------------------------- MODULE MCProposalLifecycle -------------------------
(* Small instances of the proposal service for TLC. *)
EXTENDS ProposalAudit, TLC

\* Admins are interchangeable.
Symmetry == Permutations(Admins)

\* Every applicant calls from one place.
OneEach == [p \in Applicants |-> p]

\* One of the calls that share an account is not an account of its own.
FirstTwice ==
  [p \in Applicants |->
     IF p \in Accounts THEN p ELSE CHOOSE a \in Accounts : TRUE]
=============================================================================
