----------------------------- MODULE MCApprovals -----------------------------
(* Approvals on two change sets, two approval rows and two overlapping     *)
(* sessions.                                                               *)
EXTENDS Approvals, TLC

(* Rows are interchangeable, and so are the digests.                       *)
Symmetry == Permutations(ChangeSets) \cup Permutations(ApprovalIds)
                \cup Permutations(Digests)
=============================================================================
