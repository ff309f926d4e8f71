--------------------------- MODULE MCHourlyBilling ---------------------------
(* Small instances of HourlyBilling for TLC. *)
EXTENDS HourlyBilling, TLC

CONSTANTS s1, s2, u1, w1, w2

MCOwner == [s \in Servers |-> u1]

\* s2 was created one tick off the hour grid of s1
MCCreated == [s \in Servers |-> IF s = s1 THEN 0 ELSE -1]

MCWorkerSymmetry == Permutations({w1, w2})

\* A lost transaction and a payment through a gateway do not meet in one behaviour.
Apart == crashes' = 0 \/ topUps' = 0
=============================================================================
