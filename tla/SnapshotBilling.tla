-------------------------- MODULE SnapshotBilling --------------------------
(***************************************************************************)
(* Snapshots of Hetzner servers: an image at the provider, a row of the    *)
(* table snapshots, and an hourly price that is taken from the wallet of   *)
(* the owner as long as the row is active.                                 *)
(*                                                                         *)
(* The owner creates and deletes snapshots (and restores them, which is an *)
(* operation on the server: see ServerSync); every minute beat             *)
(* starts run_snapshot_billing, which reads the snapshots that are due,    *)
(* debits each for one hour and deletes those it cannot debit, in one      *)
(* transaction for all of them.  Nothing locks a snapshots row when it is  *)
(* read, and a run that talks to Telegram and to Hetzner for more than a   *)
(* minute overlaps with the next one.                                      *)
(***************************************************************************)
EXTENDS Integers, FiniteSets

CONSTANTS
    Snapshots,
    Runs,            \* runs of the task that may overlap
    Nobody,          \* holds the lock of the owner's row when it is free
    InitialBalance,  \* of the owner; an hour costs one unit
    MaxHours,        \* bound on the clock
    MaxTopUps,       \* bound on payments by the owner
    MaxCrashes       \* bound on transactions lost by an error or a restart,
                     \* and on visits while no rate is stored

ASSUME SnapshotAssumption ==
    /\ IsFiniteSet(Snapshots) /\ Nobody \notin Runs \cup Snapshots
    /\ InitialBalance \in Nat /\ MaxHours \in Nat /\ MaxTopUps \in Nat
    /\ MaxCrashes \in Nat

VARIABLES
    image,    \* the snapshots whose image exists at Hetzner
    row,      \* row[s]: state, created_at and last_billed_at
    balance,  \* users.balance
    uLock,    \* who has locked the row of the owner
    desk,     \* desk[s]: what the owner's handler is doing with s
    run,      \* run[r]: the local state of a billing run
    now, topUps, crashes,
    charges,  \* charges[s]: committed debits for s
    overlaps  \* the snapshots debited by runs that had read an old anchor

vars == <<image, row, balance, uLock, desk, run, now, topUps, crashes,
          charges, overlaps>>
ledger == <<charges, overlaps>>
bounds == <<now, topUps, crashes>>

NoRow == [state |-> "none", born |-> 0, last |-> 0]
(* A run: the snapshots still to be visited with the anchors it has read,  *)
(* those it has debited and those whose image it has deleted.              *)
NoRun == [pc |-> "idle", todo |-> {}, seen |-> [s \in Snapshots |-> 0],
          paid |-> {}, cut |-> {}]

Init ==
    /\ image = {} /\ row = [s \in Snapshots |-> NoRow]
    /\ balance = InitialBalance /\ uLock = Nobody
    /\ desk = [s \in Snapshots |-> "idle"]
    /\ run = [r \in Runs |-> NoRun]
    /\ now = 0 /\ topUps = 0 /\ crashes = 0
    /\ charges = [s \in Snapshots |-> 0]
    /\ overlaps = {}

Active(s) == row[s].state = "active"

-----------------------------------------------------------------------------
(* cb_snap_new_do: the image is made, which takes minutes, and its price   *)
(* is asked.  An error after the request leaves the image behind.          *)
Shoot(s) ==
    /\ row[s].state = "none" /\ desk[s] = "idle" /\ s \notin image
    /\ image' = image \cup {s}
    /\ \E pc \in {"record", "idle"} : desk' = [desk EXCEPT ![s] = pc]
    /\ UNCHANGED <<row, balance, uLock, run, bounds, ledger>>

(* The row is added, anchored now, and the first hour is debited; when the *)
(* wallet is empty, the owner is only told.                                *)
Record(s) ==
    /\ desk[s] = "record" /\ uLock = Nobody /\ uLock' = s
    /\ desk' = [desk EXCEPT ![s] = IF balance >= 1 THEN "paid" ELSE "free"]
    /\ balance' = IF balance >= 1 THEN balance - 1 ELSE balance
    /\ UNCHANGED <<image, row, run, bounds, ledger>>

Created(s) ==
    /\ desk[s] \in {"paid", "free"} /\ uLock' = Nobody
    /\ row' = [row EXCEPT ![s] = [state |-> "active", born |-> now, last |-> now]]
    /\ charges' = [charges EXCEPT ![s] = IF desk[s] = "paid" THEN 1 ELSE 0]
    /\ desk' = [desk EXCEPT ![s] = "idle"]
    /\ UNCHANGED <<image, balance, run, bounds, overlaps>>

(* The message about the new snapshot fails, or the rate is missing: the   *)
(* transaction is lost and the image stays.                                *)
CreateLost(s) ==
    /\ desk[s] \in {"record", "paid", "free"} /\ crashes < MaxCrashes
    /\ balance' = IF desk[s] = "paid" THEN balance + 1 ELSE balance
    /\ uLock' = IF uLock = s THEN Nobody ELSE uLock
    /\ desk' = [desk EXCEPT ![s] = "idle"] /\ crashes' = crashes + 1
    /\ UNCHANGED <<image, row, run, now, topUps, ledger>>

-----------------------------------------------------------------------------
(* cb_snap_del: the image is deleted, whatever Hetzner answers, then the   *)
(* row is closed.                                                          *)
DeleteImage(s) ==
    /\ Active(s) /\ desk[s] = "idle"
    /\ image' \in {image, image \ {s}}
    /\ desk' = [desk EXCEPT ![s] = "close"]
    /\ UNCHANGED <<row, balance, uLock, run, bounds, ledger>>

Close(s) ==
    /\ desk[s] = "close"
    /\ row' = [row EXCEPT ![s].state = "ended"]
    /\ desk' = [desk EXCEPT ![s] = "idle"]
    /\ UNCHANGED <<image, balance, uLock, run, bounds, ledger>>

DeleteLost(s) ==
    /\ desk[s] = "close" /\ crashes < MaxCrashes
    /\ desk' = [desk EXCEPT ![s] = "idle"] /\ crashes' = crashes + 1
    /\ UNCHANGED <<image, row, balance, uLock, run, now, topUps, ledger>>

-----------------------------------------------------------------------------
(* The list of a run: active snapshots whose anchor is an hour old.        *)
Due(s) == Active(s) /\ row[s].last + 1 <= now

Start(r) ==
    /\ run[r].pc = "idle" /\ \E s \in Snapshots : Due(s)
    /\ run' = [run EXCEPT ![r] = [NoRun EXCEPT !.pc = "visit",
                 !.todo = {s \in Snapshots : Due(s)},
                 !.seen = [s \in Snapshots |-> IF Due(s) THEN row[s].last ELSE 0]]]
    /\ UNCHANGED <<image, row, balance, uLock, desk, bounds, ledger>>

(* No price is known: the snapshot is passed over and its anchor stays.    *)
Skip(r, s) ==
    /\ run[r].pc = "visit" /\ s \in run[r].todo /\ crashes < MaxCrashes
    /\ run' = [run EXCEPT ![r].todo = @ \ {s}] /\ crashes' = crashes + 1
    /\ UNCHANGED <<image, row, balance, uLock, desk, now, topUps, ledger>>

(* BillingService.debit locks the owner's row and reads it afresh; the     *)
(* UPDATE of the snapshot is flushed later.                                *)
Debit(r, s) ==
    /\ run[r].pc = "visit" /\ s \in run[r].todo /\ balance >= 1
    /\ uLock \in {Nobody, r} /\ uLock' = r /\ balance' = balance - 1
    /\ run' = [run EXCEPT ![r].todo = @ \ {s}, ![r].paid = @ \cup {s}]
    /\ UNCHANGED <<image, row, desk, bounds, ledger>>

(* The wallet does not cover the hour: the image is deleted, an error of   *)
(* Hetzner swallowed, and the row closed.                                  *)
Cut(r, s) ==
    /\ run[r].pc = "visit" /\ s \in run[r].todo /\ balance = 0
    /\ uLock \in {Nobody, r} /\ uLock' = r /\ image' \in {image, image \ {s}}
    /\ run' = [run EXCEPT ![r].todo = @ \ {s}, ![r].cut = @ \cup {s}]
    /\ UNCHANGED <<row, balance, desk, bounds, ledger>>

(* The one COMMIT.  Only the changed columns are written: the anchor of    *)
(* what was debited, computed from the anchor that was read.               *)
\* mutant: the anchor jumps to the present
AnchorNow(seen) == now
NextAnchor(seen) == seen + 1

\* mutant: a snapshot without payment is not closed
StillOpen(s, r) == row[s].state
StateAfter(s, r) == IF s \in run[r].cut THEN "ended" ELSE row[s].state

Commit(r) ==
    /\ run[r].pc = "visit" /\ run[r].todo = {}
    /\ row' = [s \in Snapshots |->
                 [row[s] EXCEPT !.state = StateAfter(s, r),
                                !.last = IF s \in run[r].paid
                                           THEN NextAnchor(run[r].seen[s]) ELSE @]]
    /\ charges' = [s \in Snapshots |-> charges[s] + IF s \in run[r].paid THEN 1 ELSE 0]
    /\ overlaps' = overlaps \cup {s \in run[r].paid : row[s].last # run[r].seen[s]}
    /\ run' = [run EXCEPT ![r] = NoRun]
    /\ uLock' = IF uLock = r THEN Nobody ELSE uLock
    /\ UNCHANGED <<image, balance, desk, bounds>>

(* The run fails before its COMMIT; beat starts the next one.              *)
RunLost(r) ==
    /\ run[r].pc = "visit" /\ crashes < MaxCrashes
    /\ balance' = balance + Cardinality(run[r].paid)
    /\ uLock' = IF uLock = r THEN Nobody ELSE uLock
    /\ run' = [run EXCEPT ![r] = NoRun] /\ crashes' = crashes + 1
    /\ UNCHANGED <<image, row, desk, now, topUps, ledger>>

-----------------------------------------------------------------------------
Hour == /\ now < MaxHours /\ now' = now + 1
        /\ UNCHANGED <<image, row, balance, uLock, desk, run, topUps,
                       crashes, ledger>>

TopUp == /\ topUps < MaxTopUps /\ uLock = Nobody
         /\ balance' = balance + 1 /\ topUps' = topUps + 1
         /\ UNCHANGED <<image, row, uLock, desk, run, now, crashes, ledger>>

Desk(s) == Record(s) \/ Created(s) \/ Close(s)
Work(r) == Start(r) \/ Commit(r) \/ \E s \in Snapshots : Debit(r, s) \/ Cut(r, s)

Next ==
    \/ \E s \in Snapshots :
         Shoot(s) \/ DeleteImage(s) \/ Desk(s) \/ CreateLost(s) \/ DeleteLost(s)
    \/ \E r \in Runs :
         Work(r) \/ RunLost(r) \/ \E s \in Snapshots : Skip(r, s)
    \/ Hour \/ TopUp

(* Beat starts a run every minute and the runs go on, as the handlers of   *)
(* the owner do; troubles are bounded, so a rate is stored in the end.     *)
Fairness ==
    /\ \A r \in Runs : WF_vars(Work(r))
    /\ \A s \in Snapshots : WF_vars(Desk(s))
    /\ WF_vars(Hour)

Spec == Init /\ [][Next]_vars /\ Fairness

-----------------------------------------------------------------------------
(* Types of all variables; the wallet is never overdrawn.                  *)
TypeOK ==
    /\ image \subseteq Snapshots
    /\ row \in [Snapshots -> [state : {"none", "active", "ended"}, born : 0..MaxHours,
                             last : 0..MaxHours]]
    /\ balance \in Nat /\ uLock \in Runs \cup Snapshots \cup {Nobody}
    /\ desk \in [Snapshots -> {"idle", "record", "paid", "free", "close"}]
    /\ run \in [Runs -> [pc : {"idle", "visit"}, todo : SUBSET Snapshots,
                         seen : [Snapshots -> 0..MaxHours],
                         paid : SUBSET Snapshots, cut : SUBSET Snapshots]]
    /\ now \in 0..MaxHours /\ topUps \in 0..MaxTopUps /\ crashes \in 0..MaxCrashes
    /\ charges \in [Snapshots -> Nat] /\ overlaps \subseteq Snapshots

(* The committed debits of a snapshot are the hours by which its anchor    *)
(* has moved since it was made, and perhaps the first hour, and the anchor *)
(* is never ahead of the clock: an outage or a missing rate loses no hour, *)
(* a lost transaction debits none, unless two overlapping runs had read    *)
(* the same anchor.                                                        *)
HoursDebited ==
    \A s \in Snapshots :
      /\ row[s].last <= now
      /\ s \notin overlaps => charges[s] - (row[s].last - row[s].born) \in {0, 1}

(* An active row whose image is gone is being closed, or was to be closed  *)
(* by a transaction that was lost: without a crash nobody goes on paying   *)
(* for an image that does not exist.                                       *)
PaidImageExists ==
    \A s \in Snapshots : Active(s) /\ s \notin image
      => \/ desk[s] = "close" \/ crashes > 0
         \/ \E r \in Runs : s \in run[r].cut

(* An hour that has passed is debited in the end, or the snapshot is       *)
(* deleted: none is kept for nothing, whatever fails in between.           *)
HourSettled == \A s \in Snapshots : Due(s) ~> ~Due(s)
=============================================================================
