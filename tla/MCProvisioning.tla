--------------------------- MODULE MCProvisioning ---------------------------
(* Instances of Provisioning for TLC.                                      *)
EXTENDS Provisioning, TLC

CONSTANTS o1, o2

(* One order tries every provider; the other the one that both may build   *)
(* on in the handler, or the one that has a sweeper.                       *)
Both == o1 :> Kinds @@ o2 :> {"hetzner", "timeweb"}

LosesAccount == {{"account", "plans"}, {"plans"}}

(* The catalogue task of Timeweb has an account only where the first order *)
(* is of Timeweb.  Two machines there are one too many for a page: the     *)
(* second order comes when the first is over, and only the sweeper is to   *)
(* blame for what remains (no restart, no other billing, the account       *)
(* stays).                                                                 *)
Ordered(o) == order'[o].kind # order[o].kind
TwoMachines == order'[o2].kind = "timeweb"
Apart ==
    /\ tw' # tw => order[o1].kind = "timeweb" /\ ~TwoMachines
    /\ Ordered(o1) => (order'[o1].kind = "timeweb" <=> "account" \in tw)
    /\ TwoMachines => /\ order'[o1].kind = "timeweb" /\ order'[o1].pc \notin Open
                      /\ crashes' = crashes /\ (balance' < balance => debits' # debits)
=============================================================================
