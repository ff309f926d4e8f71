---------------------------- MODULE MCPayments ----------------------------
(***************************************************************************)
(* Instances of Payments for TLC: every order fills the one wallet.        *)
(***************************************************************************)
EXTENDS Payments

CONSTANTS c1, z1, u1, p1, p2, poller, nobody, none

MCPayer == [o \in Orders |-> u1]
=============================================================================
