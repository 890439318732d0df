---------------------------- MODULE MCClaimLife ----------------------------
(* The instances of ClaimLife that TLC checks. *)
EXTENDS ClaimLife
=============================================================================
