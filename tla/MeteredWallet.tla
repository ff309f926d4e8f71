----------------------------- MODULE MeteredWallet -----------------------------
(***************************************************************************)
(* What the hourly billing promises: wallets that are charged by the hour, *)
(* as if every run, conversion and credit were a single step.  There are   *)
(* no processes here, no locks, no lists that grow stale and no crashes.   *)
(***************************************************************************)
EXTENDS Integers, FiniteSets

CONSTANTS Servers, Users, Owner, Price, MonthPrice, Hour

VARIABLES
  wallet,   \* what a user has
  meter,    \* until when a server is paid
  plan,     \* how it is paid: by the hour or by the month
  state,    \* active, suspended or deleted
  quote     \* the balance a payment gateway has read and will add to

vars == <<wallet, meter, plan, state, quote>>
Closed == [open |-> FALSE, seen |-> 0]

Init ==
  /\ wallet \in [Users -> Nat]
  /\ meter \in [Servers -> Int]
  /\ plan = [s \in Servers |-> "hourly"]
  /\ state = [s \in Servers |-> "active"]
  /\ quote = [u \in Users |-> Closed]

Owned(S, u) == {s \in S : Owner[s] = u}

\* a run debits one hour of every server in S, or of none of them
Charge(S) ==
  /\ \A s \in S : plan[s] = "hourly"
  /\ wallet' = [u \in Users |-> wallet[u] - Price * Cardinality(Owned(S, u))]
  /\ \A u \in Users : wallet'[u] >= 0
  /\ meter' = [s \in Servers |-> IF s \in S THEN meter[s] + Hour ELSE meter[s]]
  /\ UNCHANGED <<plan, state, quote>>

Fund(u) ==
  /\ wallet'[u] > wallet[u]
  /\ wallet' = [wallet EXCEPT ![u] = wallet'[u]]
  /\ UNCHANGED <<meter, plan, state, quote>>

\* the one blemish: a gateway adds to the wallet as it was when it took the quote
Quote(u) ==
  /\ ~quote[u].open
  /\ quote' = [quote EXCEPT ![u] = [open |-> TRUE, seen |-> wallet[u]]]
  /\ UNCHANGED <<wallet, meter, plan, state>>

CloseQuote(u) == quote[u].open /\ quote' = [quote EXCEPT ![u] = Closed]

Settle(u) ==
  /\ CloseQuote(u)
  /\ wallet'[u] > quote[u].seen
  /\ wallet' = [wallet EXCEPT ![u] = wallet'[u]]
  /\ UNCHANGED <<meter, plan, state>>

Withdraw(u) == CloseQuote(u) /\ UNCHANGED <<wallet, meter, plan, state>>

\* the meter of s, and no other, is put anywhere
MeterSet(s) == meter' = [meter EXCEPT ![s] = meter'[s]] /\ meter'[s] \in Int

\* a month is paid for an active server, which then never goes back to hours
Convert(s) ==
  /\ plan[s] = "hourly" /\ state[s] = "active"
  /\ wallet[Owner[s]] >= MonthPrice
  /\ wallet' = [wallet EXCEPT ![Owner[s]] = @ - MonthPrice]
  /\ plan' = [plan EXCEPT ![s] = "monthly"]
  /\ MeterSet(s)
  /\ UNCHANGED <<state, quote>>

Suspend(s) ==
  /\ state[s] = "active"
  /\ state' = [state EXCEPT ![s] = "suspended"]
  /\ UNCHANGED <<wallet, meter, plan, quote>>

\* the only other way to move a meter: the time of the suspension is not charged
Resume(s) ==
  /\ state[s] = "suspended"
  /\ state' = [state EXCEPT ![s] = "active"]
  /\ MeterSet(s)
  /\ plan[s] = "monthly" => UNCHANGED meter
  /\ UNCHANGED <<wallet, plan, quote>>

Remove(S) ==
  /\ state' = [s \in Servers |-> IF s \in S THEN "deleted" ELSE state[s]]
  /\ \A s \in S : plan[s] = "hourly"
  /\ UNCHANGED <<wallet, meter, plan, quote>>

Next ==
  \/ \E S \in SUBSET Servers : Charge(S) \/ Remove(S)
  \/ \E u \in Users : Fund(u) \/ Quote(u) \/ Settle(u) \/ Withdraw(u)
  \/ \E s \in Servers : Convert(s) \/ Suspend(s) \/ Resume(s)

Spec == Init /\ [][Next]_vars
=============================================================================
