---------------------------- MODULE Provisioning ----------------------------
(***************************************************************************)
(* The sale of a server: cb_confirm_purchase, the background build and    *)
(* delivery (_bg_build_and_deliver), ServerService.create_server, the     *)
(* create and delete sequences of the six provider clients, and the       *)
(* sweeper of sync_timeweb_catalog that removes what an interrupted build *)
(* left behind.                                                           *)
(*                                                                         *)
(* What a provider bills is a VM, its disk and its address.  A provider   *)
(* call succeeds or fails as it likes; what the code does after each      *)
(* failure is modelled step by step, since that is where money or         *)
(* machines get lost.  A build runs for minutes in the bot process, which *)
(* may restart at any step.  A tick is a quarter of an hour.              *)
(***************************************************************************)
EXTENDS Integers, FiniteSets

CONSTANTS
    Orders,          \* the purchases that are confirmed
    KindsOf,         \* KindsOf[o]: providers the plan of order o may be of
    Price,           \* of a plan
    InitialBalance,  \* of the buyer's wallet
    VmLimit,         \* "vm_limit" of a provider account
    MaxHourly,       \* max_hourly_servers of the buyer
    BuildLimit,      \* ticks a background build may take (wait_for, 900 s)
    SweepAge,        \* age in ticks at which an unknown VM is swept (45 min)
    PageSize,        \* VMs in the one page the sweeper lists (100)
    Setups,          \* what of Timeweb may be set up: "account", "plans"
    MaxCrashes       \* restarts of the bot that are explored

Kinds == {"hetzner", "virtualizor", "gcore", "timeweb", "rootvds", "scaleway"}

(* Builds that take minutes are handed to a background task.               *)
Background == {"gcore", "timeweb", "rootvds", "scaleway"}

ASSUME AmountsAssumption ==
    /\ Price \in Nat \ {0} /\ InitialBalance \in Nat
    /\ PageSize \in Nat /\ VmLimit \in Nat \ {0} /\ MaxHourly \in Nat \ {0} /\ MaxCrashes \in Nat
ASSUME KindsAssumption == KindsOf \in [Orders -> SUBSET Kinds]
(* A build is over, and its row committed, well before its VM is old.      *)
ASSUME AgesAssumption ==
    /\ BuildLimit \in Nat /\ SweepAge \in Nat /\ BuildLimit + 1 < SweepAge

VARIABLES
    order,    \* order[o]: the local variables of its handler or task
    row,      \* row[o]: the committed servers row
    vm,       \* vm[o]: what the provider runs for it
    disk,     \* disk[o], ip[o]: whether a volume and an address are billed
    ip,
    age,      \* age[o]: ticks since a Timeweb VM was created, up to SweepAge
    balance,  \* users.balance of the buyer
    sweep,    \* the local variables of the sweeper
    tw,       \* what of Timeweb is set up: an active account, plans
    crashes,  \* restarts so far
    debits,   \* debits[o], refunds[o]: committed transactions rows (books)
    refunds,
    raced,    \* raced[o]: the wallet was debited for something else since o
              \* had compared the balance (books)
    left      \* left[o]: a failure the code swallows has happened (books)

cloudVars == <<vm, disk, ip, age>>
moneyVars == <<balance, debits, refunds, raced>>
vars == <<order, row, cloudVars, moneyVars, sweep, tw, crashes, left>>

-----------------------------------------------------------------------------
(* Where an order can be.                                                  *)
Building == {"pick", "precheck", "reserve", "install", "address", "wait",
             "rescue", "erase", "release", "ensure", "read", "record"}
Open     == {"queued", "delivered", "failed", "lastditch"} \cup Building
NoOrder == [pc |-> "idle", kind |-> "none", paid |-> FALSE, back |-> FALSE,
            sent |-> FALSE, ticks |-> 0]

Go(o, pc) == order' = [order EXCEPT ![o].pc = pc]

(* An exception leaves create_server: the task refunds, while the handler  *)
(* of a provider that answers at once has taken nothing yet.               *)
Raise(o) == Go(o, IF order[o].kind \in Background THEN "failed" ELSE "closed")

Excuse(o) == left' = [left EXCEPT ![o] = TRUE]

Owned == {o \in Orders : row[o] = "live"}

Init ==
    /\ order = [o \in Orders |-> NoOrder]
    /\ row = [o \in Orders |-> "none"]
    /\ vm = [o \in Orders |-> "none"]
    /\ disk = [o \in Orders |-> FALSE] /\ ip = [o \in Orders |-> FALSE]
    /\ age = [o \in Orders |-> 0]
    /\ balance = InitialBalance
    /\ sweep = [pc |-> "idle", known |-> {}, todo |-> {}, ticks |-> 0]
    /\ tw \in Setups
    /\ crashes = 0
    /\ debits = [o \in Orders |-> 0] /\ refunds = [o \in Orders |-> 0]
    /\ raced = [o \in Orders |-> FALSE]
    /\ left = [o \in Orders |-> FALSE]

(* Those who had compared the balance when it was debited for something    *)
(* else.                                                                   *)
Race(S) == raced' = [o \in Orders |-> raced[o] \/ (o \in S /\ order[o].pc # "idle")]

-----------------------------------------------------------------------------
(* cb_confirm_purchase: the balance is compared and the hourly servers are *)
(* counted without a lock.  Long builds go to a background task, the rest  *)
(* is built in the handler.                                                *)
Confirm(o) ==
    /\ order[o].pc = "idle"
    /\ balance >= Price
    /\ Cardinality(Owned) < MaxHourly
    /\ \E k \in KindsOf[o] :
         order' = [order EXCEPT ![o].kind = k,
                     ![o].pc = IF k \in Background THEN "queued" ELSE "pick"]
    /\ UNCHANGED <<row, cloudVars, moneyVars, sweep, tw, crashes, left>>

(* The early check of the Timeweb balance, before anything is taken.       *)
RefuseEarly(o) ==
    /\ order[o].pc = "queued" /\ order[o].kind = "timeweb" /\ ~order[o].paid
    /\ Go(o, "closed")
    /\ UNCHANGED <<row, cloudVars, moneyVars, sweep, tw, crashes, left>>

\* mutant: the answer of debit is ignored here as well
PayIfPossible(o) ==
    /\ order[o].pc = "queued"
    /\ Go(o, "pick")
    /\ IF balance >= Price
         THEN /\ balance' = balance - Price
              /\ debits' = [debits EXCEPT ![o] = @ + 1]
              /\ Race(Orders \ {o})
         ELSE UNCHANGED <<balance, debits, raced>>
    /\ UNCHANGED <<row, cloudVars, refunds, sweep, tw, crashes, left>>

(* _bg_build_and_deliver takes the money first, under the lock of the      *)
(* user's row, and commits before it calls the provider.                   *)
PayFirst(o) ==
    /\ order[o].pc = "queued"
    /\ IF balance >= Price
         THEN /\ balance' = balance - Price
              /\ debits' = [debits EXCEPT ![o] = @ + 1]
              /\ Race(Orders \ {o})
              /\ order' = [order EXCEPT ![o].pc = "pick", ![o].paid = TRUE]
         ELSE Go(o, "closed") /\ UNCHANGED <<balance, debits, raced>>
    /\ UNCHANGED <<row, cloudVars, refunds, sweep, tw, crashes, left>>

-----------------------------------------------------------------------------
(* pick_account: live servers are counted against the limit of the account.*)
(* Hetzner asks the provider, the others their own table; Virtualizor has  *)
(* no limit.                                                               *)
RowsOf(k) == {x \in Owned : order[x].kind = k}
VmsOf(k)  == {x \in Orders : order[x].kind = k /\ vm[x] # "none"}
Pick(o, k, counted, then) ==
    /\ order[o].pc = "pick" /\ order[o].kind = k
    /\ IF Cardinality(counted) < VmLimit THEN Go(o, then) ELSE Raise(o)
    /\ UNCHANGED <<row, cloudVars, moneyVars, sweep, tw, crashes, left>>

(* Timeweb has one account.                                                *)
TwPick(o) ==
    IF "account" \in tw THEN Pick(o, "timeweb", RowsOf("timeweb"), "precheck")
    ELSE /\ order[o].pc = "pick" /\ order[o].kind = "timeweb"
         /\ Raise(o)
         /\ UNCHANGED <<row, cloudVars, moneyVars, sweep, tw, crashes, left>>
RvPick(o)   == Pick(o, "rootvds", RowsOf("rootvds"), "precheck")
ScwPick(o)  == Pick(o, "scaleway", RowsOf("scaleway"), "reserve")
GcPick(o)   == Pick(o, "gcore", RowsOf("gcore"), "install")
HzPick(o)   == Pick(o, "hetzner", VmsOf("hetzner"), "install")
VirtPick(o) == Pick(o, "virtualizor", {}, "install")

(* The balance of the provider account is asked before anything is built.  *)
Precheck(o) ==
    /\ order[o].pc = "precheck"
    /\ Go(o, "install") \/ Raise(o)
    /\ UNCHANGED <<row, cloudVars, moneyVars, sweep, tw, crashes, left>>

(* Scaleway reserves an address first.                                     *)
ScwCreateIp(o) ==
    /\ order[o].pc = "reserve"
    /\ \/ Go(o, "install") /\ ip' = [ip EXCEPT ![o] = TRUE]
       \/ Raise(o) /\ UNCHANGED ip
    /\ UNCHANGED <<row, vm, disk, age, moneyVars, sweep, tw, crashes, left>>

(* What a create request brings into being.  The answer may be lost after  *)
(* the provider has begun: then the code knows no id.                      *)
Created(o) ==
    /\ vm' = [vm EXCEPT ![o] = "building"]
    /\ age' = [age EXCEPT ![o] = 0]
    /\ disk' = [disk EXCEPT ![o] = order[o].kind \in {"scaleway", "gcore"}]
    /\ ip' = [ip EXCEPT ![o] = @ \/ order[o].kind = "gcore"]

(* The request that creates the VM, of each provider: what follows when it *)
(* is accepted, and where the code goes when it is refused.                *)
Install(o, accepted, refused) ==
    /\ order[o].pc = "install"
    /\ \/ Go(o, accepted) /\ Created(o) /\ UNCHANGED left
       \/ refused /\ UNCHANGED <<cloudVars, left>>
       \/ refused /\ Created(o) /\ Excuse(o)
    /\ UNCHANGED <<row, moneyVars, sweep, tw, crashes>>

TwCreate(o)   == order[o].kind = "timeweb"     /\ Install(o, "address", Raise(o))
ScwCreate(o)  == order[o].kind = "scaleway"    /\ Install(o, "wait", Go(o, "release"))
RvCreate(o)   == order[o].kind = "rootvds"     /\ Install(o, "wait", Raise(o))
GcCreate(o)   == order[o].kind = "gcore"       /\ Install(o, "wait", Raise(o))
HzCreate(o)   == order[o].kind = "hetzner"     /\ Install(o, "wait", Raise(o))
VirtCreate(o) == order[o].kind = "virtualizor" /\ Install(o, "record", Raise(o))

(* Timeweb: an IPv4 is asked for while the system is installed; an error   *)
(* is only logged.                                                         *)
TwEarlyIp(o) ==
    /\ order[o].pc = "address"
    /\ Go(o, "wait")
    /\ \E got \in BOOLEAN : ip' = [ip EXCEPT ![o] = got]
    /\ UNCHANGED <<row, vm, disk, age, moneyVars, sweep, tw, crashes, left>>

-----------------------------------------------------------------------------
(* The waits: _wait_status, _wait_state, _wait_task, _wait_action poll     *)
(* until the VM is on, and raise when it never is.                         *)
\* mutant: a failed wait raises without cleaning up
WaitOrGiveUp(o, k, then, late) ==
    /\ order[o].pc = "wait" /\ order[o].kind = k
    /\ (vm[o] = "on" /\ Go(o, then)) \/ Raise(o)
    /\ UNCHANGED <<row, cloudVars, moneyVars, sweep, tw, crashes, left>>

Wait(o, k, then, late) ==
    /\ order[o].pc = "wait" /\ order[o].kind = k
    /\ (vm[o] = "on" /\ Go(o, then)) \/ Go(o, late)
    /\ UNCHANGED <<row, cloudVars, moneyVars, sweep, tw, crashes, left>>

(* Three of the clients look once more before they erase what they built.  *)
TwWait(o)  == Wait(o, "timeweb", "ensure", "rescue")
ScwWait(o) == Wait(o, "scaleway", "record", "rescue")
RvWait(o)  == Wait(o, "rootvds", "record", "rescue")
GcWait(o)  == Wait(o, "gcore", "record", "erase")
HzWait(o)  == Wait(o, "hetzner", "read", "erase")

(* The rescue: a VM that came up after all is delivered, not erased.  A    *)
(* Timeweb VM must also have an address, or be given one.                  *)
Rescue(o, k) ==
    /\ order[o].pc = "rescue" /\ order[o].kind = k
    /\ (vm[o] = "on" /\ Go(o, "record")) \/ Go(o, "erase")
    /\ UNCHANGED <<row, cloudVars, moneyVars, sweep, tw, crashes, left>>
ScwRescue(o) == Rescue(o, "scaleway")

(* RootVDS is asked for an address and a password, not whether the VM runs.*)
RvRescue(o) ==
    /\ order[o].pc = "rescue" /\ order[o].kind = "rootvds"
    /\ (vm[o] # "none" /\ Go(o, "record")) \/ Go(o, "erase")
    /\ UNCHANGED <<row, cloudVars, moneyVars, sweep, tw, crashes, left>>
TwRescue(o) ==
    /\ order[o].pc = "rescue" /\ order[o].kind = "timeweb"
    /\ \/ /\ vm[o] = "on"
          /\ \E got \in {ip[o], TRUE} : /\ ip' = [ip EXCEPT ![o] = got]
                                       /\ Go(o, IF got THEN "record" ELSE "erase")
       \/ Go(o, "erase") /\ UNCHANGED ip
    /\ UNCHANGED <<row, vm, disk, age, moneyVars, sweep, tw, crashes, left>>

(* _ensure_public_ip: a Timeweb VM without an IPv4 is of no use and erased.*)
TwEnsureIp(o) ==
    /\ order[o].pc = "ensure"
    /\ \E got \in {ip[o], TRUE} :
         /\ ip' = [ip EXCEPT ![o] = got]
         /\ Go(o, IF got THEN "record" ELSE "erase")
    /\ UNCHANGED <<row, vm, disk, age, moneyVars, sweep, tw, crashes, left>>

(* Hetzner reads the finished server once more, outside the try block.     *)
HzRead(o) ==
    /\ order[o].pc = "read"
    /\ \/ Go(o, "record") /\ UNCHANGED left
       \/ Raise(o) /\ Excuse(o)
    /\ UNCHANGED <<row, cloudVars, moneyVars, sweep, tw, crashes>>

-----------------------------------------------------------------------------
(* delete_server of each client: the VM goes, and with it what is billed   *)
(* beside it.  Deleting a volume or an address may fail and is only        *)
(* logged; deleting the VM may fail as a whole.                            *)
Gone(o, disks, ips) ==
    /\ vm' = [vm EXCEPT ![o] = "none"]
    /\ disk' = [disk EXCEPT ![o] = @ /\ disks]
    /\ ip' = [ip EXCEPT ![o] = @ /\ ips]
    /\ UNCHANGED age

TwDelete(o)   == \E kept \in BOOLEAN : Gone(o, FALSE, kept)
ScwDelete(o)  == \E d, i \in BOOLEAN : Gone(o, d, i)
RvDelete(o)   == Gone(o, FALSE, FALSE)
GcDelete(o)   == Gone(o, FALSE, FALSE)
HzDelete(o)   == Gone(o, FALSE, FALSE)
VirtDelete(o) == Gone(o, FALSE, FALSE)

Delete(o) == CASE order[o].kind = "timeweb"     -> TwDelete(o)
               [] order[o].kind = "scaleway"    -> ScwDelete(o)
               [] order[o].kind = "rootvds"     -> RvDelete(o)
               [] order[o].kind = "gcore"       -> GcDelete(o)
               [] order[o].kind = "hetzner"     -> HzDelete(o)
               [] order[o].kind = "virtualizor" -> VirtDelete(o)

Remains(o) == vm'[o] # "none" \/ disk'[o] \/ ip'[o]

(* The clean-up of a failed create; its own failure is swallowed.          *)
Erase(o) ==
    /\ order[o].pc = "erase"
    /\ Delete(o) \/ UNCHANGED cloudVars
    /\ IF Remains(o) THEN Excuse(o) ELSE UNCHANGED left
    /\ IF order[o].kind = "scaleway" THEN Go(o, "release") ELSE Raise(o)
    /\ UNCHANGED <<row, moneyVars, sweep, tw, crashes>>

(* Scaleway then gives the reserved address back, whatever came before.    *)
ScwReleaseIp(o) ==
    /\ order[o].pc = "release"
    /\ \/ ip' = [ip EXCEPT ![o] = FALSE] /\ UNCHANGED left
       \/ UNCHANGED ip /\ Excuse(o)
    /\ Raise(o)
    /\ UNCHANGED <<row, vm, disk, age, moneyVars, sweep, tw, crashes>>

(* wait_for cancels a background build after fifteen minutes.  A           *)
(* cancellation is no Exception, so no clean-up of a client runs.          *)
Cancel(o) ==
    /\ order[o].pc \in Building \ {"record"} /\ order[o].kind \in Background
    /\ order[o].ticks = BuildLimit
    /\ Raise(o)
    /\ Excuse(o)
    /\ UNCHANGED <<row, cloudVars, moneyVars, sweep, tw, crashes>>

-----------------------------------------------------------------------------
(* The row of the server is written.  The task has its money and commits;  *)
(* the handler debits now, ignores the answer, and the middleware commits. *)
Record(o) ==
    /\ order[o].pc = "record"
    /\ row' = [row EXCEPT ![o] = "live"]
    /\ IF order[o].kind \in Background
         THEN /\ order' = [order EXCEPT ![o].pc = "delivered", ![o].sent = TRUE]
              /\ UNCHANGED <<balance, debits, raced>>
         ELSE /\ Go(o, "closed")
              /\ IF balance >= Price
                   THEN /\ balance' = balance - Price
                        /\ debits' = [debits EXCEPT ![o] = @ + 1]
                        /\ Race(Orders \ {o})
                   ELSE UNCHANGED <<balance, debits, raced>>
    /\ UNCHANGED <<cloudVars, refunds, sweep, tw, crashes, left>>

(* The database refuses the row, or the handler's last message fails and   *)
(* its transaction is rolled back: nobody tells the provider.              *)
RecordFails(o) ==
    /\ order[o].pc = "record"
    /\ Raise(o)
    /\ Excuse(o)
    /\ UNCHANGED <<row, cloudVars, moneyVars, sweep, tw, crashes>>

(* The delivery message; when Telegram refuses it, the exception lands in  *)
(* the handler of failed builds.                                           *)
SendDelivery(o) ==
    /\ order[o].pc = "delivered"
    /\ Go(o, "closed") \/ Go(o, "failed")
    /\ UNCHANGED <<row, cloudVars, moneyVars, sweep, tw, crashes, left>>

\* mutant: both the task and its callback credit
PaidBackTwice(o) ==
    /\ balance' = balance + Price
    /\ refunds' = [refunds EXCEPT ![o] = @ + 2]
    /\ UNCHANGED <<debits, raced>>

PaidBack(o) ==
    /\ balance' = balance + Price
    /\ refunds' = [refunds EXCEPT ![o] = @ + 1]
    /\ UNCHANGED <<debits, raced>>

(* The buyer's other servers, snapshots and reseller servers are billed    *)
(* from the same wallet, as far as it covers them.                         *)
OtherBilling ==
    /\ \E amount \in 1..balance : balance' = balance - amount
    /\ Race(Orders)
    /\ UNCHANGED <<order, row, cloudVars, debits, refunds, sweep, tw, crashes, left>>

(* The refund of a failed build, in the session that was rolled back.      *)
Refund(o) ==
    /\ order[o].pc = "failed"
    /\ \/ PaidBack(o) /\ order' = [order EXCEPT ![o].pc = "closed", ![o].back = TRUE]
       \/ Go(o, "lastditch") /\ UNCHANGED moneyVars
    /\ UNCHANGED <<row, cloudVars, sweep, tw, crashes, left>>

(* The flags that decide whether the last resort still owes a refund.      *)
StillOwed(o) == order[o].paid /\ ~order[o].back /\ ~order[o].sent

LastDitchRefund(o) ==
    /\ order[o].pc = "lastditch"
    /\ \/ /\ StillOwed(o) /\ PaidBack(o)
          /\ order' = [order EXCEPT ![o].pc = "closed", ![o].back = TRUE]
       \/ StillOwed(o) /\ Go(o, "unpaid") /\ UNCHANGED moneyVars
       \/ ~StillOwed(o) /\ Go(o, "closed") /\ UNCHANGED moneyVars
    /\ UNCHANGED <<row, cloudVars, sweep, tw, crashes, left>>

(* A row is deleted, by its owner, billing or an administrator: the        *)
(* provider is called, and after an error the row is marked deleted all    *)
(* the same (_delete_server with force).                                   *)
DeleteServer(o) ==
    /\ row[o] = "live" /\ order[o].pc \notin Open
    /\ row' = [row EXCEPT ![o] = "deleted"]
    /\ Delete(o) \/ UNCHANGED cloudVars
    /\ IF Remains(o) THEN Excuse(o) ELSE UNCHANGED left
    /\ UNCHANGED <<order, moneyVars, sweep, tw, crashes>>

-----------------------------------------------------------------------------
(* The sweeper is the end of sync_timeweb_catalog, which returns at once   *)
(* without an active account or a plan, and when the price list cannot be  *)
(* read.  It reads the ids of live rows, lists the VMs of the account, and *)
(* deletes those it does not know and that are old enough not to be under  *)
(* construction.                                                           *)
BeginSync ==
    /\ sweep.pc = "idle" /\ {"account", "plans"} \subseteq tw
    /\ sweep' = [sweep EXCEPT !.pc = "prices"]
    /\ UNCHANGED <<order, row, cloudVars, moneyVars, tw, crashes, left>>

(* The price list or the list of VMs is refused.                           *)
SyncFails ==
    /\ sweep.pc \in {"prices", "known"}
    /\ sweep' = [pc |-> "idle", known |-> {}, todo |-> {}, ticks |-> 0]
    /\ UNCHANGED <<order, row, cloudVars, moneyVars, tw, crashes, left>>

ReadKnown ==
    /\ sweep.pc = "prices"
    /\ sweep' = [pc |-> "known", known |-> Owned, todo |-> {}, ticks |-> 0]
    /\ UNCHANGED <<order, row, cloudVars, moneyVars, tw, crashes, left>>

\* mutant: the age is not looked at
OldAtOnce(o) == vm[o] # "none"
\* mutant: an age that is never reached
OldNever(o)  == age[o] > SweepAge

Old(o) == age[o] >= SweepAge

Machines == {o \in Orders : order[o].kind = "timeweb" /\ vm[o] # "none"}
Crowded  == Cardinality(Machines) > PageSize

(* Only the first page of the list is read; which VMs it holds is up to    *)
(* the provider.                                                           *)
ListOrphans ==
    /\ sweep.pc = "known"
    /\ \E listed \in SUBSET Machines :
         /\ Cardinality(listed) = PageSize \/ (~Crowded /\ listed = Machines)
         /\ sweep' = [sweep EXCEPT !.pc = "listed",
                                   !.todo = {o \in listed \ sweep.known : Old(o)}]
    /\ UNCHANGED <<order, row, cloudVars, moneyVars, tw, crashes, left>>

SweepOne(o) ==
    /\ sweep.pc = "listed" /\ o \in sweep.todo
    /\ TwDelete(o)
    /\ sweep' = [sweep EXCEPT !.todo = @ \ {o}]
    /\ UNCHANGED <<order, row, moneyVars, tw, crashes, left>>

(* The provider refuses to delete; the next run tries again.               *)
SweepRefused(o) ==
    /\ sweep.pc = "listed" /\ o \in sweep.todo
    /\ sweep' = [sweep EXCEPT !.todo = @ \ {o}]
    /\ UNCHANGED <<order, row, cloudVars, moneyVars, tw, crashes, left>>

SweepEnds ==
    /\ sweep.pc = "listed" /\ sweep.todo = {}
    /\ sweep' = [sweep EXCEPT !.pc = "idle", !.known = {}, !.ticks = 0]
    /\ UNCHANGED <<order, row, cloudVars, moneyVars, tw, crashes, left>>

(* An administrator removes or adds the account or the plans.              *)
Configure ==
    /\ tw' \in Setups
    /\ UNCHANGED <<order, row, cloudVars, moneyVars, sweep, crashes, left>>

-----------------------------------------------------------------------------
(* The provider finishes a build, or never does ("no_paid", "blocked").    *)
ProviderReady(o) ==
    /\ vm[o] = "building"
    /\ \E s \in {"on", "stuck"} : vm' = [vm EXCEPT ![o] = s]
    /\ UNCHANGED <<order, row, disk, ip, age, moneyVars, sweep, tw, crashes, left>>

(* The bot restarts: builds, refunds and messages in flight are forgotten. *)
Restart ==
    /\ crashes < MaxCrashes /\ \E o \in Orders : order[o].pc \in Open
    /\ crashes' = crashes + 1
    /\ order' = [o \in Orders |-> IF order[o].pc \in Open
                                    THEN [order[o] EXCEPT !.pc = "lost"]
                                    ELSE order[o]]
    /\ left' = [o \in Orders |-> left[o] \/ order[o].pc \in Open]
    /\ UNCHANGED <<row, cloudVars, moneyVars, sweep, tw>>

Timed(o) == order[o].pc \in Building /\ order[o].kind \in Background
Young(o) == order[o].kind = "timeweb" /\ vm[o] # "none" /\ age[o] < SweepAge

(* A quarter of an hour passes.  No background build outlives its limit,   *)
(* and the sweeper's two reads and its deletions are at most a tick apart. *)
Tick ==
    /\ \A o \in Orders : Timed(o) => order[o].ticks < BuildLimit
    /\ sweep.ticks = 0
    /\ \E o \in Orders : Young(o) \/ Timed(o)
    /\ age' = [o \in Orders |-> IF Young(o) THEN age[o] + 1 ELSE age[o]]
    /\ order' = [o \in Orders |-> IF Timed(o) THEN [order[o] EXCEPT !.ticks = @ + 1]
                                             ELSE order[o]]
    /\ sweep' = [sweep EXCEPT !.ticks = IF sweep.pc \in {"idle", "prices"} THEN 0 ELSE 1]
    /\ UNCHANGED <<row, vm, disk, ip, moneyVars, tw, crashes, left>>

-----------------------------------------------------------------------------
Sell(o)    == Confirm(o) \/ RefuseEarly(o) \/ PayFirst(o)
PickAccount(o) == \/ TwPick(o) \/ RvPick(o) \/ ScwPick(o)
                  \/ GcPick(o) \/ HzPick(o) \/ VirtPick(o)
WaitUntilOn(o) == \/ TwWait(o) \/ ScwWait(o) \/ RvWait(o) \/ GcWait(o) \/ HzWait(o)
                  \/ TwRescue(o) \/ ScwRescue(o) \/ RvRescue(o)
Create(o)  == \/ PickAccount(o) \/ Precheck(o) \/ ScwCreateIp(o)
              \/ TwCreate(o) \/ ScwCreate(o) \/ RvCreate(o)
              \/ GcCreate(o) \/ HzCreate(o) \/ VirtCreate(o)
              \/ TwEarlyIp(o) \/ WaitUntilOn(o) \/ TwEnsureIp(o)
              \/ HzRead(o) \/ Erase(o) \/ ScwReleaseIp(o) \/ Cancel(o)
Deliver(o) == \/ Record(o) \/ RecordFails(o) \/ SendDelivery(o)
              \/ Refund(o) \/ LastDitchRefund(o)
Sweep      == BeginSync \/ SyncFails \/ ReadKnown \/ ListOrphans \/ SweepEnds
              \/ \E o \in Orders : SweepOne(o) \/ SweepRefused(o)

Next == \/ \E o \in Orders : Sell(o) \/ Create(o) \/ Deliver(o)
                             \/ DeleteServer(o) \/ ProviderReady(o)
        \/ Sweep \/ Configure \/ OtherBilling \/ Restart \/ Tick

(* Tasks and handlers that were started go on, time passes, beat starts    *)
(* the synchronisation again and again, and the provider does not refuse   *)
(* its lists or to delete a VM for ever.  Nobody has to buy, and nothing   *)
(* obliges a deletion.                                                     *)
Fairness ==
    /\ WF_vars(Tick) /\ WF_vars(BeginSync) /\ WF_vars(SweepEnds)
    /\ SF_vars(ReadKnown) /\ SF_vars(ListOrphans) /\ SF_vars(\E o \in Orders : SweepOne(o))
    /\ \A o \in Orders :
         /\ WF_vars(Create(o) \/ Deliver(o) \/ PayFirst(o))
         /\ WF_vars(ProviderReady(o))
         /\ WF_vars(SweepRefused(o))

Spec == Init /\ [][Next]_vars /\ Fairness

-----------------------------------------------------------------------------
(* A background order is debited at most once and refunded at most once,   *)
(* and never refunded without a debit; once its task has ended (closed),   *)
(* it is either delivered or the money is back.  Only a restart ("lost")   *)
(* and a database that refuses both refunds ("unpaid") may keep it.        *)
Settled ==
    \A o \in Orders :
      /\ refunds[o] <= debits[o] /\ debits[o] <= 1
      /\ order[o].pc = "closed" /\ order[o].kind \in Background
            => row[o] # "none" \/ debits[o] = refunds[o]

(* A server is handed over unpaid only by a purchase in the handler whose  *)
(* wallet was debited for something else, another order or the billing of  *)
(* what the buyer has, between the unlocked check of the balance and the   *)
(* debit at the end, of which cb_confirm_purchase ignores the answer.      *)
UnpaidOnlyByRace ==
    \A o \in Orders : row[o] # "none" /\ debits[o] = 0
        => order[o].kind \notin Background /\ raced[o]

(* A purchase that ends without a server leaves nothing behind that the    *)
(* provider goes on billing (VM, volume, address), unless one of the       *)
(* failures the code itself swallows has happened on the way.              *)
CleanRefusal ==
    \A o \in Orders :
      order[o].pc = "closed" /\ row[o] # "live" /\ ~left[o]
        => vm[o] = "none" /\ ~disk[o] /\ ~ip[o]

(* The sweeper, which read the rows before it listed the VMs, never        *)
(* deletes a VM a customer has, nor one whose build is still running.      *)
SweepSparesCustomers ==
    [][\A o \in Orders : SweepOne(o)
         => row[o] # "live" /\ order[o].pc \notin Building]_vars

(* A Timeweb VM that nobody owns and no task is working on is deleted in   *)
(* the end, whatever left it behind: cancellation, failed clean-up, a      *)
(* restart of the bot, or a deletion the provider refused.  But the account *)
(* must be active, there must be a plan, and all the VMs must be on the one *)
(* page that is listed: otherwise it may run for ever.                     *)
Orphan(o) == /\ order[o].kind = "timeweb" /\ vm[o] # "none" /\ row[o] # "live"
             /\ order[o].pc \notin Open
OrphansSwept ==
    \A o \in Orders :
      Orphan(o) ~> vm[o] = "none" \/ Crowded \/ tw # {"account", "plans"}

=============================================================================
