----------------------------- MODULE ServerSync -----------------------------
(***************************************************************************)
(* One server in use: the buttons of its page and the web application      *)
(* (ServerService.perform_action and the handlers around it), what is      *)
(* sold for it (traffic, a bigger plan, another or an additional address), *)
(* and the tasks that copy the provider's view into the row                *)
(* (sync_server_status, sync_building_servers, sync_all_traffic).          *)
(*                                                                         *)
(* Every operation loads the row, spends seconds or minutes in a provider  *)
(* call, and then writes the columns it has changed, of which extra_data   *)
(* is a single one.  Only two operations lock the row when they load it;   *)
(* the others take its lock with their first UPDATE.  A payment locks the  *)
(* row of the user until the transaction ends.                             *)
(***************************************************************************)
EXTENDS Integers, FiniteSets

CONSTANTS
    Sessions,        \* handlers and tasks that work at the same time
    Menus,           \* what each session may be, one of these per behaviour
    Beat,            \* the session that also is sync_building_servers
    Nobody,          \* holds a lock that is free
    InitialBalance,  \* of the owner's wallet; everything costs one unit
    MaxPlan,         \* bound on the bigger plans that are bought
    MaxFailures      \* bound on errors and restarts that lose a transaction

(* What is paid for before the provider is asked.                          *)
Sold  == {"traffic", "upgrade", "changeip", "addip"}
(* What asks the provider and writes down its answer.                      *)
Reads == {"refresh", "building", "usage", "alltraffic"}
Power == {"start", "stop", "restart", "rebuild", "restore", "unsuspend"}
(* An administrator's actions end with a synchronisation of the row; they  *)
(* lift any suspension, change an address without a fee and add one.       *)
Staff  == {"reboot", "suspend", "pardon", "freeip", "gift"}
AllOps == Sold \cup Reads \cup Power \cup Staff
            \cup {"webip", "delete", "remove", "chpass", "mute", "hourly"}

ASSUME SyncAssumption ==
    /\ Menus \subseteq [Sessions -> SUBSET AllOps]
    /\ Beat \in Sessions /\ Nobody \notin Sessions
    /\ InitialBalance \in Nat /\ MaxPlan \in Nat /\ MaxFailures \in Nat

VARIABLES
    menu,     \* menu[s]: what session s may be in this behaviour
    row,      \* the committed servers row
    vm,       \* the machine as the provider has it: its power, whether its
              \* traffic is used up, the plan whose memory and cores it has,
              \* the plan whose disk it has, and whether an upgrade was
              \* accepted that left the disk as it was (books)
    balance,  \* users.balance of the owner
    sess,     \* sess[s]: the local state of a session
    sLock,    \* who has locked the row of the server
    uLock,    \* who has locked the row of the user
    terms,    \* billing_type
    failures, \* errors and restarts so far
    recent,   \* traffic was bought in the last 90 seconds (books)
    clobbered \* extra_data was written back from an older copy (books)

vars == <<menu, row, vm, balance, sess, sLock, uLock, terms, failures, recent, clobbered>>
books == <<failures, recent, clobbered>>
locks == <<sLock, uLock>>

(***************************************************************************)
(* The columns these operations write.  extra is extra_data: the stamp of  *)
(* the last traffic order while it is less than ninety seconds old, and    *)
(* the plan that is billed; what else is in it matters only as something   *)
(* to be overwritten.                                                      *)
(***************************************************************************)
Columns  == {"status", "reason", "extra"}

Blank == [status |-> "BUILDING", reason |-> "none",
          extra |-> [fresh |-> FALSE, plan |-> 0]]

(* A session: whether a synchronisation has found the row suspended, what  *)
(* the session has made of the row, the columns it has changed, whether    *)
(* the user has been debited and, if so, whether the provider did or may   *)
(* have done what was paid for.                                            *)
Idle == [pc |-> "idle", op |-> "none", saw |-> FALSE, new |-> Blank,
         cols |-> {}, did |-> FALSE, paid |-> FALSE]

Init ==
    /\ menu \in Menus
    /\ row = Blank
    /\ vm = [state |-> "building", over |-> FALSE, plan |-> 0, disk |-> 0,
              short |-> FALSE]
    /\ balance = InitialBalance
    /\ sess = [s \in Sessions |-> Idle]
    /\ sLock = Nobody /\ uLock = Nobody
    /\ terms \in {"HOURLY", "MONTHLY"}
    /\ failures = 0 /\ recent = FALSE /\ clobbered = FALSE

-----------------------------------------------------------------------------
Suspended(r, why) == [r EXCEPT !.status = "SUSPENDED", !.reason = why]
Unsuspended(r)    == [r EXCEPT !.status = "ACTIVE", !.reason = "none"]

(* The guards of the handlers, on the row as they have just read it.       *)
OverQuota(r) == r.status = "SUSPENDED" /\ r.reason = "TRAFFIC"

\* mutant: the stamp is not looked at
NoStampGuard(r) == r.status = "ACTIVE" \/ OverQuota(r)
TrafficGuard(r) == /\ r.status = "ACTIVE" \/ OverQuota(r)
                   /\ ~r.extra.fresh
UpgradeGuard(r) == r.status = "ACTIVE" /\ r.extra.plan < MaxPlan
ChangeIpGuard(r) == r.status = "ACTIVE"
AddIpGuard(r)    == r.status = "ACTIVE" /\ terms = "MONTHLY"
UnsuspendGuard(r) == r.reason \notin {"TRAFFIC", "ADMIN"}
                     /\ (r.reason = "LOW" => balance >= 1)

\* mutant: rebuilt servers are not looked at again
ListedBuilding(r)  == r.status = "BUILDING"
Listed(r) == r.status \in {"BUILDING", "REBUILDING"}

(* The hourly plan change costs nothing now.                               *)
Costs(op) == \/ op = "hourly"
             \/ op \in Sold /\ ~(op = "upgrade" /\ terms = "HOURLY")

-----------------------------------------------------------------------------
(* The handlers and tasks, up to the loading of the row.  SELECT ... FOR   *)
(* UPDATE waits for the lock of the row and keeps it.                      *)
Loads(s, op, pc) ==
    /\ sess[s].pc = "idle"
    /\ sess' = [sess EXCEPT ![s] =
         [Idle EXCEPT !.pc = IF Costs(op) THEN "pay" ELSE pc, !.op = op, !.new = row,
                      !.cols = IF op = "mute" THEN {"extra"} ELSE {},
                      !.saw = op \in Reads /\ row.status = "SUSPENDED"]]
    /\ UNCHANGED <<row, vm, balance, uLock, terms, menu, books>>
Plainly(s, op, pc)   == op \in menu[s] /\ Loads(s, op, pc) /\ UNCHANGED sLock
ForUpdate(s, op, pc) == /\ op \in menu[s] /\ Loads(s, op, pc)
                        /\ sLock = Nobody /\ sLock' = s

(* The buttons of the server's page.  They have no guard on the status:    *)
(* those of an old message work on whatever the row says now.              *)
Press(s) ==
    \/ Plainly(s, "refresh", "call") \/ Plainly(s, "usage", "call")
    \/ Plainly(s, "start", "call") \/ Plainly(s, "stop", "call")
    \/ Plainly(s, "restart", "mark")
    \/ UnsuspendGuard(row) /\ Plainly(s, "unsuspend", "call")
    \/ terms = "HOURLY" /\ Plainly(s, "delete", "call")
RebuildDo(s)      == Plainly(s, "rebuild", "mark")
AdminRebuildDo(s) == Plainly(s, "rebuild", "mark")
SnapRestoreDo(s)  == Plainly(s, "restore", "call")
ChangePassword(s) == row.status = "ACTIVE" /\ Plainly(s, "chpass", "call")
MuteHourly(s)     == Plainly(s, "mute", "write")

(* What is sold.                                                           *)
BuyTraffic(s) == TrafficGuard(row) /\ ForUpdate(s, "traffic", "mark")
Upgrade(s)    == UpgradeGuard(row) /\ ForUpdate(s, "upgrade", "call")
ChangeIp(s)   == ChangeIpGuard(row) /\ Plainly(s, "changeip", "call")
AddIp(s)      == AddIpGuard(row) /\ Plainly(s, "addip", "call")

(* The administrator's buttons and the web application ask the provider    *)
(* the same without looking at the row; deleting needs no hourly terms.    *)
AdminAction(s) == \/ Plainly(s, "reboot", "mark") \/ Plainly(s, "suspend", "call") \/ Plainly(s, "pardon", "call")
                  \/ Plainly(s, "freeip", "call") \/ Plainly(s, "gift", "call")
                  \/ Plainly(s, "remove", "call")
WebAction(s)   == Plainly(s, "webip", "call")

(* The tasks.                                                              *)
BuildingTask(s) == /\ s = Beat /\ Listed(row)
                   /\ Loads(s, "building", "call") /\ UNCHANGED sLock
TrafficTask(s)  == row.status = "ACTIVE" /\ Plainly(s, "alltraffic", "call")
HourlyCharge(s) == /\ row.status = "ACTIVE" /\ terms = "HOURLY"
                   /\ ForUpdate(s, "hourly", "write")

Begin(s) ==
    \/ Press(s) \/ RebuildDo(s) \/ AdminRebuildDo(s) \/ SnapRestoreDo(s)
    \/ ChangePassword(s) \/ MuteHourly(s)
    \/ BuyTraffic(s) \/ Upgrade(s) \/ ChangeIp(s) \/ AddIp(s)
    \/ AdminAction(s) \/ WebAction(s)
    \/ BuildingTask(s) \/ TrafficTask(s) \/ HourlyCharge(s)

(* perform_action writes these statuses before it asks the provider, and   *)
(* the order of traffic its stamp.                                         *)
Marked(op, r) ==
    CASE op \in {"restart", "reboot"} -> [r EXCEPT !.status = "REBOOTING"]
      [] op = "rebuild" -> [r EXCEPT !.status = "REBUILDING"]
      [] op = "traffic" -> [r EXCEPT !.extra.fresh = TRUE]
      [] OTHER          -> r

Onward(op) == CASE op = "traffic" -> "mark"
                [] op = "hourly"  -> "write"
                [] OTHER          -> "call"

(* The object of the session has a new value: what differs will be written *)
(* and the rest is of no use to the UPDATE.                                *)
Written(r, cols, old) ==
    [status |-> IF "status" \in cols THEN r.status ELSE old.status,
     reason |-> IF "reason" \in cols THEN r.reason ELSE old.reason,
     extra  |-> IF "extra" \in cols THEN r.extra ELSE old.extra]
Kept(r, cols) == Written(r, cols, Blank)
Diff(a, b) == {f \in Columns : a[f] # b[f]}
Becomes(s, pc, r, also) ==
    LET cols == sess[s].cols \cup Diff(sess[s].new, r) \cup also
    IN [sess EXCEPT ![s].pc = pc, ![s].cols = cols,
                    ![s].new = IF pc = "write" THEN Kept(r, cols) ELSE r]

(* BillingService.debit: the user's row is locked and read afresh.  When   *)
(* the money is missing the handler ends; billing suspends the server.     *)
Pay(s) ==
    /\ sess[s].pc = "pay" /\ uLock = Nobody /\ uLock' = s
    /\ IF balance >= 1
         THEN /\ balance' = balance - 1
              /\ sess' = [sess EXCEPT ![s].pc = Onward(sess[s].op), ![s].paid = TRUE]
         ELSE /\ UNCHANGED balance
              /\ sess' = Becomes(s, "write", IF sess[s].op = "hourly"
                                                THEN Suspended(sess[s].new, "LOW")
                                                ELSE sess[s].new, {})
    /\ UNCHANGED <<row, vm, sLock, terms, menu, books>>

(* An UPDATE waits for the row's lock and keeps it.                        *)
MayWrite(s) == sLock \in {Nobody, s}

Mark(s) ==
    /\ sess[s].pc = "mark" /\ MayWrite(s) /\ sLock' = s
    /\ sess' = Becomes(s, "call", Marked(sess[s].op, sess[s].new), {})
    /\ UNCHANGED <<row, vm, balance, uLock, terms, menu, books>>

-----------------------------------------------------------------------------
(* What the provider does when it is asked, and when it can.               *)
HasMachine(v)  == v.state # "gone"
Steady(v)      == v.state \in {"on", "off"}
PoweredOn(v)   == [v EXCEPT !.state = "on"]
PoweredOff(v)  == [v EXCEPT !.state = "off"]
Reinstalled(v) == [v EXCEPT !.state = "building"]
Halted(v)      == [v EXCEPT !.state = "suspended"]
Destroyed(v)   == [v EXCEPT !.state = "gone"]
MoreTraffic(v) == [v EXCEPT !.over = FALSE]

Can(op) ==
    CASE op \in {"start", "stop", "restart", "reboot", "rebuild", "restore", "suspend"}
                        -> Steady(vm)
      [] OTHER          -> HasMachine(vm)

Effect(op) ==
    CASE op \in {"start", "restart", "reboot", "unsuspend", "pardon"} -> PoweredOn(vm)
      [] op = "stop"                     -> PoweredOff(vm)
      [] op \in {"rebuild", "restore"}   -> Reinstalled(vm)
      [] op = "suspend"                  -> Halted(vm)
      [] op \in {"delete", "remove"}     -> Destroyed(vm)
      [] op = "traffic"                  -> MoreTraffic(vm)
      [] OTHER                           -> vm

(* apply_resources only ever adds to what the machine has, and sends       *)
(* nothing when it has enough already.  Memory and cores are read back     *)
(* until they are there, or the upgrade is refused, though the panel may   *)
(* have carried it out.  The disk is not: it is left alone when the disks  *)
(* cannot be enumerated, and otherwise the panel's word is taken for it.   *)
Enlarge(n, said, did) ==
    /\ said => did
    /\ \E disk \in BOOLEAN :
         /\ did \/ disk => HasMachine(vm)
         /\ vm' = [vm EXCEPT !.plan = IF did /\ @ < n THEN n ELSE @,
                             !.disk = IF disk /\ @ < n THEN n ELSE @,
                             !.short = @ \/ (said /\ ~disk /\ vm.disk < n)]

(* The request is carried out and answered; or refused; or carried out and *)
(* its answer lost, which the code takes for a refusal.  add_traffic reads *)
(* the quota back, and when that fails it says yes without knowing.        *)
Perform(op, said, did) ==
    \/ did /\ Can(op) /\ vm' = Effect(op)
    \/ said /\ did /\ op = "traffic" /\ Can(op) /\ UNCHANGED vm
    \/ ~said /\ ~did /\ UNCHANGED vm
Ask(s, said, did) ==
    IF sess[s].op = "upgrade" THEN Enlarge(sess[s].new.extra.plan + 1, said, did)
    ELSE Perform(sess[s].op, said, did)

(* sync_server_status: a suspension stays until it is lifted explicitly,   *)
(* and a deleted server stays deleted.                                     *)
\* mutant: the provider's view wins over a suspension of ours
SyncStatusPlain(r) ==
    IF r.status = "DELETED" THEN r.status
    ELSE CASE vm.state = "suspended" -> "SUSPENDED"
           [] vm.state = "building"  -> "PENDING"
           [] OTHER                  -> "ACTIVE"
SyncStatus(r) ==
    IF r.status = "DELETED" THEN r.status
    ELSE IF r.status = "SUSPENDED" \/ vm.state = "suspended" THEN "SUSPENDED"
    ELSE IF vm.state = "building" THEN "PENDING" ELSE "ACTIVE"

(* The row after the provider said yes.                                    *)
After(op, r) ==
    CASE op \in {"refresh", "building"} ->
           [r EXCEPT !.status = SyncStatus(r)]
      [] op = "alltraffic" -> IF vm.over THEN Suspended(r, "TRAFFIC") ELSE r
      [] op = "restore"    -> [r EXCEPT !.status = "REBUILDING"]
      [] op = "suspend"    -> Suspended(r, "ADMIN")
      [] op \in {"unsuspend", "pardon"} -> Unsuspended(r)
      [] op = "upgrade"    -> [r EXCEPT !.extra.plan = @ + 1]
      [] OTHER             -> r

(* Columns that are assigned although the model's part of them is equal:   *)
(* a power state, a password or a list of addresses in extra_data.         *)
Touches(op) == IF op \in {"refresh", "building", "start", "stop", "chpass", "mute",
                          "rebuild", "restore", "changeip", "addip", "webip",
                          "freeip", "gift"}
               THEN {"extra"} ELSE {}

(* The handler goes on after the provider's answer.  A deletion is written *)
(* down whatever the provider said; a refusal pays the money back, and the *)
(* order of traffic takes its stamp away.                                  *)
\* mutant: the plan is recorded although the machine was not changed
NewRowPlan(s, said) ==
    CASE said \/ sess[s].op = "upgrade" -> After(sess[s].op, sess[s].new)
      [] OTHER -> sess[s].new
NewRow(s, said) ==
    IF sess[s].op \in {"delete", "remove"} THEN [sess[s].new EXCEPT !.status = "DELETED"]
    ELSE IF said THEN After(sess[s].op, sess[s].new)
    ELSE IF sess[s].op = "traffic" THEN [sess[s].new EXCEPT !.extra.fresh = FALSE]
    ELSE sess[s].new

NextPc(s, r, said) ==
    IF said /\ sess[s].op = "alltraffic" /\ r.status = "SUSPENDED" THEN "cutoff"
    ELSE IF said /\ sess[s].op = "traffic" THEN "limit"
    ELSE IF ~said /\ sess[s].paid THEN "refund"
    ELSE IF sess[s].op \in Staff THEN "render" ELSE "write"

Answer(s, said, did) ==
    /\ sess[s].pc = "call"
    /\ Ask(s, said, did)
    /\ LET r == NewRow(s, said)
       IN sess' = [Becomes(s, NextPc(s, r, said), r,
                           IF said THEN Touches(sess[s].op) ELSE {})
                     EXCEPT ![s].did = did /\ sess[s].paid]
    /\ UNCHANGED <<row, balance, locks, terms, menu, books>>

(* billing.credit in the handler, when the provider has refused: the       *)
(* user's row is still locked.                                             *)
\* mutant: no refund
KeepMoney(s) == sess[s].pc = "refund" /\ sess' = Becomes(s, "write", sess[s].new, {})
                /\ UNCHANGED <<row, vm, balance, locks, terms, menu, books>>
Refund(s) ==
    /\ sess[s].pc = "refund"
    /\ balance' = balance + 1
    /\ sess' = [Becomes(s, "write", sess[s].new, {})
                   EXCEPT ![s].paid = FALSE, ![s].did = FALSE]
    /\ UNCHANGED <<row, vm, locks, terms, menu, books>>

(* The administrator's view of the server is drawn again, which asks the   *)
(* provider once more; a failure is swallowed.                             *)
Render(s) ==
    /\ sess[s].pc = "render"
    /\ \/ HasMachine(vm)
          /\ sess' = Becomes(s, "write",
                              [sess[s].new EXCEPT !.status = SyncStatus(sess[s].new)],
                              {"extra"})
       \/ sess' = Becomes(s, "write", sess[s].new, {})
    /\ UNCHANGED <<row, vm, balance, locks, terms, menu, books>>

(* After traffic was bought the limit of the row is brought up to date,    *)
(* and a server suspended for its traffic is to run again.                 *)
Restore(s) ==
    /\ sess[s].pc = "limit"
    /\ \/ /\ OverQuota(sess[s].new) /\ vm.state # "gone"
          /\ vm' = [vm EXCEPT !.state = "on"]
          /\ sess' = Becomes(s, "write", Unsuspended(sess[s].new), {})
       \/ UNCHANGED vm /\ sess' = Becomes(s, "write", sess[s].new, {})
    /\ UNCHANGED <<row, balance, locks, terms, menu, books>>

(* sync_all_traffic suspends in the row first, then at the provider, whose *)
(* refusal is swallowed.  The row is locked by then.                       *)
CutOff(s) ==
    /\ sess[s].pc = "cutoff" /\ MayWrite(s) /\ sLock' = s
    /\ vm' = IF vm.state \in {"on", "off"} THEN [vm EXCEPT !.state = "suspended"] ELSE vm
    /\ sess' = Becomes(s, "write", sess[s].new, {})
    /\ UNCHANGED <<row, balance, uLock, terms, menu, books>>

CutOffRefused(s) ==
    /\ sess[s].pc = "cutoff" /\ MayWrite(s) /\ sLock' = s
    /\ sess' = Becomes(s, "write", sess[s].new, {})
    /\ UNCHANGED <<row, vm, balance, uLock, terms, menu, books>>

-----------------------------------------------------------------------------
(* The UPDATE, once the row can be locked, and COMMIT, which frees the     *)
(* locks.  Selling an address: when the message about it fails, the money  *)
(* goes back although the address is there.                                *)
Merged(s) == Written(sess[s].new, sess[s].cols, row)

Freed(s) == /\ sLock' = IF sLock = s THEN Nobody ELSE sLock
            /\ uLock' = IF uLock = s THEN Nobody ELSE uLock

Bought(s) == sess[s].op = "traffic" /\ sess[s].paid

Commit(s) ==
    /\ sess[s].pc = "write"
    /\ sess[s].cols = {} \/ MayWrite(s)
    /\ row' = Merged(s)
    /\ \/ UNCHANGED balance
       \/ sess[s].op \in {"changeip", "addip"} /\ sess[s].paid /\ balance' = balance + 1
    /\ recent' = (recent \/ (Bought(s) /\ sess[s].new.extra.fresh))
    /\ clobbered' = (clobbered \/ (/\ sess[s].op # "traffic"
                                   /\ row.extra.fresh
                                   /\ ~Merged(s).extra.fresh))
    /\ sess' = [sess EXCEPT ![s] = Idle]
    /\ Freed(s)
    /\ UNCHANGED <<vm, terms, menu, failures>>

(* The session ends without COMMIT: an error that is not caught, the       *)
(* restart of its process, or the victim of a deadlock.  What the provider *)
(* has done stays done.                                                    *)
Undone(s) ==
    /\ sess[s].pc # "idle"
    /\ balance' = IF sess[s].paid THEN balance + 1 ELSE balance
    /\ sess' = [sess EXCEPT ![s] = Idle]
    /\ Freed(s)
    /\ UNCHANGED <<row, vm, terms, menu, recent, clobbered>>

Rollback(s) == failures < MaxFailures /\ failures' = failures + 1 /\ Undone(s)

(* PostgreSQL breaks a cycle of waiting transactions.                      *)
WaitsForRow(s)  == sess[s].pc \in {"mark", "write", "cutoff"} /\ ~MayWrite(s)
WaitsForUser(s) == sess[s].pc = "pay" /\ uLock \notin {Nobody, s}
DeadlockVictim(s) ==
    /\ \E t \in Sessions \ {s} :
         \/ WaitsForRow(s) /\ sLock = t /\ WaitsForUser(t) /\ uLock = s
         \/ WaitsForRow(t) /\ sLock = s /\ WaitsForUser(s) /\ uLock = t
    /\ Undone(s) /\ UNCHANGED failures

-----------------------------------------------------------------------------
(* The surroundings: a machine comes up, traffic is used, ninety seconds   *)
(* pass.                                                                   *)
MachineUp ==
    /\ vm.state = "building" /\ vm' = [vm EXCEPT !.state = "on"]
    /\ UNCHANGED <<row, balance, sess, locks, terms, menu, books>>

UseTraffic ==
    /\ ~vm.over /\ vm.state = "on"
    /\ vm' = [vm EXCEPT !.over = TRUE]
    /\ UNCHANGED <<row, balance, sess, locks, terms, menu, books>>

Aged(r) == [r EXCEPT !.extra.fresh = FALSE]
Ninety ==
    /\ row.extra.fresh \/ recent \/ clobbered
    /\ row' = Aged(row)
    /\ sess' = [s \in Sessions |-> [sess[s] EXCEPT !.new = Aged(@)]]
    /\ recent' = FALSE /\ clobbered' = FALSE
    /\ UNCHANGED <<vm, balance, locks, terms, menu, failures>>

Step(s) == \/ Pay(s) \/ Mark(s) \/ \E said, did \in BOOLEAN : Answer(s, said, did)
           \/ Refund(s) \/ Restore(s) \/ Render(s) \/ CutOff(s) \/ CutOffRefused(s)
           \/ Commit(s) \/ DeadlockVictim(s)

Next == \/ \E s \in Sessions : Begin(s) \/ Step(s) \/ Rollback(s)
        \/ MachineUp \/ UseTraffic \/ Ninety

Told == sess[Beat].op = "building" /\ Answer(Beat, TRUE, TRUE)

(* Sessions go on; beat starts the task every five minutes, the            *)
(* provider does not refuse for ever to tell what it has, and who waits    *)
(* for the lock of a row gets it, for PostgreSQL queues the transactions.  *)
Fairness ==
    /\ WF_vars(MachineUp)
    /\ \A s \in Sessions : WF_vars(Step(s))
    /\ SF_vars(BuildingTask(Beat))
    /\ SF_vars(Pay(Beat) \/ Mark(Beat) \/ CutOff(Beat) \/ CutOffRefused(Beat))
    /\ SF_vars(Told) /\ SF_vars(Commit(Beat))

Spec == Init /\ [][Next]_vars /\ Fairness

-----------------------------------------------------------------------------
(* No committed debit for traffic, a bigger plan or an address without the *)
(* provider having done it: refusals, lost answers, deadlocks and restarts *)
(* included.  Of traffic the provider may have said yes without the code   *)
(* being able to confirm it; of a bigger plan the memory and the cores are *)
(* meant, which may have been there before, and the disk is not.           *)
PaidIsDone ==
    [][\A s \in Sessions : Commit(s) /\ sess[s].paid
         => sess[s].op = "hourly" \/ sess[s].did]_vars

(* The plan a server is billed for never has more memory or cores than the *)
(* machine, nor more disk, unless an upgrade was accepted that left the    *)
(* disk alone: reported to the owner when it was skipped, unnoticed when   *)
(* the panel did not keep its word.                                        *)
Holds(v, n) == n <= v.plan /\ (n <= v.disk \/ v.short)
BilledPlanIsThere == Holds(vm, row.extra.plan)

(* No synchronisation lifts a suspension that it could see when it loaded  *)
(* the row: the machine that still runs at the provider does not count.    *)
SyncKeepsVerdict ==
    [][\A s \in Sessions :
         Commit(s) /\ row.status = "SUSPENDED" /\ row'.status # "SUSPENDED"
           => sess[s].op \notin Reads \/ ~sess[s].saw]_vars

(* Two orders of traffic, however fast the buttons are pressed, are ninety *)
(* seconds apart, unless a session that had loaded extra_data before the   *)
(* first one has written its old copy over the stamp in between.           *)
OrdersApart ==
    [][\A s \in Sessions : Mark(s) /\ sess[s].op = "traffic"
         => ~recent \/ clobbered]_vars

(* A row that is BUILDING or REBUILDING does not stay so: the task looks   *)
(* at it until the provider has told its state, unless the machine is gone *)
(* and the row cannot be told.  Two states it does not look at are not     *)
(* settled: REBOOTING, and PENDING, which is what it writes itself when    *)
(* the machine is not up yet.                                              *)
InConstruction == row.status \in {"BUILDING", "REBUILDING"}
Unlisted == row.status \in {"PENDING", "REBOOTING"}
BuildingSettles ==
    InConstruction
      ~> row.status \in {"ACTIVE", "SUSPENDED", "DELETED"} \/ Unlisted \/ vm.state = "gone"
=============================================================================
