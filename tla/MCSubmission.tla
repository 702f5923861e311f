---------------------------- MODULE MCSubmission ----------------------------
(***************************************************************************)
(* Small instances of submission for TLC.                                  *)
(***************************************************************************)
EXTENDS Submission, TLC

\* Requests differ in nothing but their names.
RequestSymmetry == Permutations(Requests)
=============================================================================
