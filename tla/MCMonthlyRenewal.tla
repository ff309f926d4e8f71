-------------------------- MODULE MCMonthlyRenewal --------------------------
(* A small instance of MonthlyRenewal for TLC. *)
EXTENDS MonthlyRenewal, TLC

CONSTANTS s1, u1, w1, h1, h2, e1

MCOwner == [s \in Servers |-> u1]

\* the server has expired as the run begins
MCFirstTerm == [s \in Servers |-> 0]

\* A double click and a handler that writes extra_data back are left out where a run was
\* rolled back or the rate is missing, and that handler does not wait overnight.
NoDrafts == draft' = [e \in Editors |-> NoDraft]
Apart == /\ (crashes' = 0 /\ rate') \/ (NoDrafts /\ sess'[h2] = IdleSession)
         /\ now' = now \/ NoDrafts
=============================================================================
