------------------------------ MODULE MCBanGate ------------------------------
(***************************************************************************)
(* Instances of BanGate for TLC: two accounts, one of them the admin, and  *)
(* up to two requests in flight.                                           *)
(***************************************************************************)
EXTENDS BanGate, TLC

CONSTANTS admin, user, r1, r2

RequestSymmetry == Permutations({r1, r2})

=============================================================================
