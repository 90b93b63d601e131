---------------------------- MODULE MCSubmission ----------------------------
(* Submission for one approval, the key all callers compete for.           *)
EXTENDS Submission, TLC

(* Callers are interchangeable, and so are digests.                        *)
Symmetry == Permutations(Callers) \cup Permutations(Digests)
=============================================================================
