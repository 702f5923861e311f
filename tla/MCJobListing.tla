---------------------------- MODULE MCJobListing ----------------------------
(***************************************************************************)
(* Small instances of the listing for TLC.                                 *)
(***************************************************************************)
EXTENDS JobListing, TLC

\* Users, and types, differ in nothing but their names.  Ids are ordered.
NameSymmetry == Permutations(Users) \cup Permutations(Types)
=============================================================================
