------------------------------ MODULE Reseller ------------------------------
(***************************************************************************)
(* Resellers build virtual machines by themselves, in the Virtualizor      *)
(* panel.  A synchronisation (periodic, or by the administrator's button)  *)
(* compares the panel's list with the rows of the table servers: it adds a *)
(* row for an unknown machine, and closes the row of a machine that two    *)
(* synchronisations far enough apart have both missed.  The rows are       *)
(* debited hourly; the hours between the creation of a machine and its     *)
(* registration are billed by the administrator (backfill), and what the   *)
(* wallet does not cover is remembered as a debt that the synchronisations *)
(* collect.                                                                *)
(*                                                                         *)
(* The configuration of a reseller (active, uid at the panel, debt) is a   *)
(* part of users.extra_data, one JSON column that many handlers write back *)
(* as a whole.  Time is counted in hours; the twenty minutes for which a   *)
(* new machine is left alone and the twenty-five between two misses are    *)
(* one hour here.                                                          *)
(***************************************************************************)
EXTENDS Integers, FiniteSets

CONSTANTS
    Users, Vms, Uids,
    Workers,         \* synchronisations at the same time
    Nobody,          \* holds the lock of a user's row when it is free
    NoUid,           \* the reseller's uid is not known yet
    InitialBalance,  \* of every reseller; an hour costs one unit
    MaxHours,        \* bound on the clock
    MaxConfigs       \* bound on changes by administrators and users, and on failures

ASSUME ResellerAssumption ==
    /\ Nobody \notin Workers \cup Users /\ NoUid \notin Uids
    /\ InitialBalance \in Nat /\ MaxHours \in Nat /\ MaxConfigs \in Nat

VARIABLES
    now,
    panel,     \* panel[v]: uid of the owner, is it listed, hour of its birth
    cfg,       \* cfg[u]: active, uid, debt
    balance,   \* users.balance
    row,       \* row[u][v]: the live row, and until when dead ones were billed
    uLock,     \* uLock[u]: who has locked the row of u
    sync,      \* sync[w]: the local state of a synchronisation
    form,      \* form[u]: the administrator's change of u that is under way
    copy,      \* copy[u]: extra_data as a handler without a lock has loaded it
    configs,   \* changes so far
    billed,    \* billed[u][v]: hours charged, or taken down as debt
    owing,     \* owing[u]: debts taken down less debts collected or forgiven
    raced,     \* two resellers with one uid have been activated
    stale      \* the resellers whose extra_data was overwritten by an old copy

vars == <<now, panel, cfg, balance, row, uLock, sync, form, copy, configs,
          billed, owing, raced, stale>>

Never == MaxHours + 1     \* a time that has not come
Dead  == [live |-> FALSE, plan |-> FALSE, since |-> 0, anchor |-> 0,
          missing |-> Never, filled |-> FALSE, until |-> 0]
NoSync == [pc |-> "idle", for |-> Nobody, seen |-> {}, uid |-> NoUid, known |-> {}]
NoForm == [pc |-> "idle", uid |-> NoUid]
NoCfg  == [active |-> FALSE, uid |-> NoUid, debt |-> 0]

Init ==
    /\ now = 0
    /\ panel = [v \in Vms |-> [uid |-> NoUid, here |-> FALSE, born |-> Never]]
    /\ cfg = [u \in Users |-> NoCfg]
    /\ balance = [u \in Users |-> InitialBalance]
    /\ row = [u \in Users |-> [v \in Vms |-> Dead]]
    /\ uLock = [u \in Users |-> Nobody]
    /\ sync = [w \in Workers |-> NoSync]
    /\ form = [u \in Users |-> NoForm]
    /\ copy = [u \in Users |-> NoCfg]
    /\ configs = 0
    /\ billed = [u \in Users |-> [v \in Vms |-> 0]]
    /\ owing = [u \in Users |-> 0] /\ raced = FALSE /\ stale = {}

Free(u) == uLock[u] = Nobody
Lesser(a, b) == IF a < b THEN a ELSE b

-----------------------------------------------------------------------------
(* The panel: list_all_vps, which raises rather than answer in part.  A    *)
(* machine that comes back has its old owner.                              *)
PanelCreate(v, x) ==
    /\ ~panel[v].here /\ panel[v].uid \in {NoUid, x}
    /\ panel' = [panel EXCEPT ![v] = [uid |-> x, here |-> TRUE,
                                     born |-> Lesser(panel[v].born, now)]]
    /\ UNCHANGED <<now, cfg, balance, row, uLock, sync, form, copy, configs,
                   billed, owing, raced, stale>>

PanelDrop(v) ==
    /\ panel[v].here /\ configs < MaxConfigs /\ configs' = configs + 1
    /\ panel' = [panel EXCEPT ![v].here = FALSE]
    /\ UNCHANGED <<now, cfg, balance, row, uLock, sync, form, copy,
                   billed, owing, raced, stale>>

Listed(x) == {v \in Vms : panel[v].here /\ panel[v].uid = x}

-----------------------------------------------------------------------------
(* sync_reseller_servers and the administrator's button: the reseller is   *)
(* active when the list is fetched, slowly and without a lock.             *)
Fetch(w, u) ==
    /\ sync[w].pc = "idle" /\ cfg[u].active
    /\ sync' = [sync EXCEPT ![w] = [NoSync EXCEPT !.pc = "listed", !.for = u,
                  !.uid = cfg[u].uid, !.seen = Listed(cfg[u].uid)]]
    /\ UNCHANGED <<now, panel, cfg, balance, row, uLock, form, copy, configs,
                   billed, owing, raced, stale>>

(* sync_user_reseller_servers locks the user, reads the configuration      *)
(* afresh, gives up when the reseller was switched off or became another   *)
(* one, and reads the live rows of the account, of all users.              *)
\* mutant: the configuration is not read again
SameAsBefore(w) == TRUE
SameReseller(w) == LET c == cfg[sync[w].for] IN c.active /\ c.uid = sync[w].uid

LiveVms == {v \in Vms : \E u \in Users : row[u][v].live}

Begin(w) ==
    /\ sync[w].pc = "listed" /\ Free(sync[w].for)
    /\ IF SameReseller(w)
         THEN /\ uLock' = [uLock EXCEPT ![sync[w].for] = w]
              /\ sync' = [sync EXCEPT ![w].pc = "apply", ![w].known = LiveVms]
         ELSE /\ UNCHANGED uLock /\ sync' = [sync EXCEPT ![w] = NoSync]
    /\ UNCHANGED <<now, panel, cfg, balance, row, form, copy, configs,
                   billed, owing, raced, stale>>

(* A machine without a row gets one, anchored now; without a matching plan *)
(* it is not billed.                                                       *)
Young(v) == panel[v].born >= now
Registered(r, plan) ==
    [Dead EXCEPT !.live = TRUE, !.plan = plan, !.since = now, !.anchor = now,
                 !.until = r.until]

(* A row whose plan is found in the end is billed from now on.             *)
Matched(r) == [r EXCEPT !.plan = TRUE, !.anchor = now]

(* One miss is noted; the row is closed by a later miss.                   *)
Closed(r) == [Dead EXCEPT !.until = IF r.anchor > r.until THEN r.anchor ELSE r.until]
Missed(r) == IF r.missing = Never THEN [r EXCEPT !.missing = now]
             ELSE IF r.missing < now THEN Closed(r) ELSE r

\* mutant: the rows of other users are not asked
NewForUser(w, v) == v \in sync[w].seen /\ ~row[sync[w].for][v].live /\ ~Young(v)
New(w, v) == v \in sync[w].seen \ sync[w].known /\ ~Young(v)

Reconciled(w, v, plan) ==
    LET r == row[sync[w].for][v]
    IN IF New(w, v) THEN Registered(r, plan)
       ELSE IF ~r.live THEN r
       ELSE IF v \notin sync[w].seen THEN Missed(r)
       ELSE [(IF plan /\ ~r.plan THEN Matched(r) ELSE r) EXCEPT !.missing = Never]

(* The changes, collect_backfill_debt and COMMIT.                          *)
\* mutant: what was collected is not taken off the debt
DebtKept(u, pay) == [cfg EXCEPT ![u].debt = @]
DebtLess(u, pay) == [cfg EXCEPT ![u].debt = @ - pay]

Apply(w) ==
    LET u   == sync[w].for
        pay == Lesser(cfg[u].debt, balance[u])
    IN /\ sync[w].pc = "apply"
       /\ \E plan \in [Vms -> BOOLEAN] :
            row' = [row EXCEPT ![u] = [v \in Vms |-> Reconciled(w, v, plan[v])]]
       /\ balance' = [balance EXCEPT ![u] = @ - pay]
       /\ cfg' = DebtLess(u, pay)
       /\ owing' = [owing EXCEPT ![u] = @ - pay]
       /\ sync' = [sync EXCEPT ![w] = NoSync]
       /\ uLock' = [uLock EXCEPT ![u] = Nobody]
       /\ UNCHANGED <<now, panel, form, copy, configs, billed, raced, stale>>

(* An error of one user rolls his part back; the next round comes.         *)
SyncFails(w) ==
    /\ sync[w].pc # "idle" /\ configs < MaxConfigs /\ configs' = configs + 1
    /\ uLock' = [u \in Users |-> IF uLock[u] = w THEN Nobody ELSE uLock[u]]
    /\ sync' = [sync EXCEPT ![w] = NoSync]
    /\ UNCHANGED <<now, panel, cfg, balance, row, form, copy,
                   billed, owing, raced, stale>>

-----------------------------------------------------------------------------
(* run_hourly_billing debits the row of a reseller for one hour; without   *)
(* money or a plan the anchor stays and the debt accumulates.              *)
Due(u, v) == /\ row[u][v].live /\ row[u][v].plan
             /\ row[u][v].anchor < now /\ balance[u] >= 1

Bill(u, v) ==
    /\ Free(u) /\ Due(u, v)
    /\ row' = [row EXCEPT ![u][v].anchor = @ + 1]
    /\ balance' = [balance EXCEPT ![u] = @ - 1]
    /\ billed' = [billed EXCEPT ![u][v] = @ + 1]
    /\ UNCHANGED <<now, panel, cfg, uLock, sync, form, copy, configs,
                   owing, raced, stale>>

(* compute_backfill_rows: the hours before the registration, less those    *)
(* that an earlier row of the same machine was billed for.                 *)
\* mutant: earlier rows are not looked at
HoursBefore(u, v) == row[u][v].since - panel[v].born
BackfillHours(u, v) ==
    row[u][v].since - (IF row[u][v].until > panel[v].born THEN row[u][v].until
                                                         ELSE panel[v].born)
Selectable(u) == {v \in Vms : /\ row[u][v].live /\ row[u][v].plan
                              /\ ~row[u][v].filled /\ BackfillHours(u, v) > 0}

(* cb_reseller_backfill_do, under the lock of the user: one machine, and   *)
(* what the wallet does not cover becomes a debt.                          *)
Backfill(u, v) ==
    LET hours == BackfillHours(u, v)
        pay   == Lesser(hours, balance[u])
    IN /\ Free(u) /\ v \in Selectable(u)
       /\ balance' = [balance EXCEPT ![u] = @ - pay]
       /\ cfg' = [cfg EXCEPT ![u].debt = @ + hours - pay]
       /\ owing' = [owing EXCEPT ![u] = @ + hours - pay]
       /\ billed' = [billed EXCEPT ![u][v] = @ + hours]
       /\ row' = [row EXCEPT ![u][v].filled = TRUE]
       /\ UNCHANGED <<now, panel, uLock, sync, form, copy, configs, raced, stale>>

-----------------------------------------------------------------------------
(* The administrator: a reseller is set up or gets another uid, after a    *)
(* look at the other resellers, none of which is locked.                   *)
Clash(u, x) == \E o \in Users \ {u} : cfg[o].active /\ cfg[o].uid = x

Check(u, x) ==
    /\ form[u].pc = "idle" /\ configs < MaxConfigs /\ configs' = configs + 1
    /\ ~Clash(u, x)
    /\ form' = [form EXCEPT ![u] = [pc |-> "checked", uid |-> x]]
    /\ UNCHANGED <<now, panel, cfg, balance, row, uLock, sync, copy,
                   billed, owing, raced, stale>>

(* The row of u itself is locked and read afresh.                          *)
Configure(u) ==
    /\ form[u].pc = "checked" /\ Free(u)
    /\ cfg' = [cfg EXCEPT ![u].active = TRUE, ![u].uid = form[u].uid]
    /\ raced' = (raced \/ Clash(u, form[u].uid))
    /\ form' = [form EXCEPT ![u] = NoForm]
    /\ UNCHANGED <<now, panel, balance, row, uLock, sync, copy, configs,
                   billed, owing, stale>>

(* cb_reseller_toggle_do: switching off closes the rows and forgives the   *)
(* debt; switching on is Check and Configure with the old uid.             *)
SwitchOff(u) ==
    /\ Free(u) /\ cfg[u].active /\ configs < MaxConfigs /\ configs' = configs + 1
    /\ cfg' = [cfg EXCEPT ![u].active = FALSE, ![u].debt = 0]
    /\ owing' = [owing EXCEPT ![u] = 0]
    /\ row' = [row EXCEPT ![u] = [v \in Vms |-> IF row[u][v].live THEN Closed(row[u][v])
                                                                ELSE row[u][v]]]
    /\ UNCHANGED <<now, panel, balance, uLock, sync, form, copy, billed, raced, stale>>

(* A handler that changes something else in extra_data without a lock (a   *)
(* ban, a limit, the data of an identity check) writes back what it loaded.*)
Load(u) ==
    /\ copy[u] # cfg[u] /\ configs < MaxConfigs /\ configs' = configs + 1
    /\ copy' = [copy EXCEPT ![u] = cfg[u]]
    /\ UNCHANGED <<now, panel, cfg, balance, row, uLock, sync, form,
                   billed, owing, raced, stale>>

WriteBack(u) ==
    /\ Free(u) /\ copy[u] # NoCfg
    /\ cfg' = [cfg EXCEPT ![u] = copy[u]] /\ copy' = [copy EXCEPT ![u] = NoCfg]
    /\ stale' = IF cfg[u] # copy[u] THEN stale \cup {u} ELSE stale
    /\ raced' = (raced \/ (copy[u].active /\ Clash(u, copy[u].uid)))
    /\ UNCHANGED <<now, panel, balance, row, uLock, sync, form, configs, billed, owing>>

TopUp(u) ==
    /\ Free(u) /\ configs < MaxConfigs /\ configs' = configs + 1
    /\ balance' = [balance EXCEPT ![u] = @ + 1]
    /\ UNCHANGED <<now, panel, cfg, row, uLock, sync, form, copy, billed,
                   owing, raced, stale>>

Hour ==
    /\ now < MaxHours /\ now' = now + 1
    /\ UNCHANGED <<panel, cfg, balance, row, uLock, sync, form, copy, configs,
                   billed, owing, raced, stale>>

Next ==
    \/ \E v \in Vms : PanelDrop(v) \/ \E x \in Uids : PanelCreate(v, x)
    \/ \E w \in Workers : Begin(w) \/ Apply(w) \/ SyncFails(w)
                          \/ \E u \in Users : Fetch(w, u)
    \/ \E u \in Users : \/ Configure(u) \/ SwitchOff(u) \/ Load(u) \/ WriteBack(u) \/ TopUp(u)
                        \/ \E x \in Uids : Check(u, x)
                        \/ \E v \in Vms : Bill(u, v) \/ Backfill(u, v)
    \/ Hour

Spec == Init /\ [][Next]_vars

-----------------------------------------------------------------------------
(* However often a reseller is switched off and on, and a machine leaves   *)
(* the panel and comes back, no hour of it is charged to him twice, once   *)
(* hourly and once in a backfill, or in two backfills.                     *)
HoursBilledOnce ==
    \A u \in Users, v \in Vms : billed[u][v] <= now - Lesser(panel[v].born, now)

(* A machine is in at most one live row, however synchronisations overlap, *)
(* unless two resellers with the same uid have been activated at the same  *)
(* moment.                                                                 *)
OneLiveRow ==
    raced \/ \A v \in Vms : Cardinality({u \in Users : row[u][v].live}) <= 1

(* A debt is collected exactly once: what is remembered is what was taken  *)
(* down and is neither collected nor forgiven, unless a handler has written*)
(* back an old copy of extra_data.                                         *)
DebtCollectedOnce == \A u \in Users \ stale : cfg[u].debt = owing[u]
=============================================================================
