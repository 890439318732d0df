---------------------------- MODULE MCClaimRace ----------------------------
(* The instance of ClaimRace that TLC checks. *)
EXTENDS ClaimRace, TLC

\* Daemons differ in nothing, nor do people.
Symmetry == Permutations(Daemons) \cup Permutations(People)
=============================================================================
