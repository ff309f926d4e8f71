---------------------------- MODULE MCReseller ----------------------------
(* The instance of Reseller that TLC checks: resellers are interchangeable, *)
(* and so are machines and synchronisations.                                *)
EXTENDS Reseller, TLC

CONSTANTS u1, u2, v, x, y, w1, w2

Symmetry == Permutations(Users) \cup Permutations(Uids) \cup Permutations(Workers)
=============================================================================
