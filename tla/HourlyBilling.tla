---------------------------- MODULE HourlyBilling ----------------------------
(***************************************************************************)
(* The hourly wallet billing: run_hourly_billing and handle_balance_empty  *)
(* (tasks/billing.py), executed by the concurrent processes of the Celery  *)
(* worker, against the bot handlers that change the same rows.  Every      *)
(* operation is a PostgreSQL READ COMMITTED transaction: a plain SELECT    *)
(* sees the committed rows, SELECT ... FOR UPDATE and UPDATE wait for the  *)
(* row lock, and a lock is held until COMMIT or ROLLBACK.  The committed   *)
(* rows are srv, balance and grace; what an open billing transaction has   *)
(* written so far is in mem (the identity map of its ORM session).         *)
(*                                                                         *)
(* One tick of the clock is the unit in which elapsed time is observed;    *)
(* amounts are whole units of Toman and every plan costs the same.         *)
(***************************************************************************)
EXTENDS Integers, FiniteSets

CONSTANTS
  Servers, Users,
  Owner,          \* the user of a server
  Created,        \* created_at of a server, in ticks
  Reseller,       \* the servers with extra_data.reseller
  Foreign,        \* the servers priced in a foreign currency
  Workers,        \* processes of the Celery worker (--concurrency)
  Handlers,       \* bot sessions that convert a server to monthly
  Nobody, NoServer,
  Hour,           \* ticks per hour
  StaleAfter,     \* hours after which a grace mark is stale (12 in the code)
  Price, MonthPrice, TopUp, FirstBalance,
  MaxTime, MaxBalance, MaxCrashes,    \* bounds on the exploration
  MaxTopUps                           \* top-ups through a payment gateway

Procs == Workers \cup Handlers

ASSUME ServersAssumption ==
  /\ Owner \in [Servers -> Users]
  /\ Created \in [Servers -> Int]
  /\ \A s \in Servers : Created[s] <= 0
  /\ Reseller \subseteq Servers /\ Foreign \subseteq Servers
  /\ NoServer \notin Servers

ASSUME ProcsAssumption ==
  /\ Workers \cap Handlers = {}
  /\ Nobody \notin Workers /\ Nobody \notin Handlers
  /\ IsFiniteSet(Workers)

ASSUME AmountsAssumption ==
  /\ Hour \in Nat \ {0} /\ StaleAfter \in Nat \ {0}
  /\ Price \in Nat \ {0} /\ MonthPrice \in Nat \ {0} /\ TopUp \in Nat \ {0}
  /\ FirstBalance \in Nat
  /\ MaxTime \in Nat /\ MaxBalance \in Nat /\ MaxCrashes \in Nat
  /\ MaxTopUps \in Nat

VARIABLES
  now,      \* the clock
  srv,      \* server rows: status, cycle (billing_type), anchor (last_billed_at)
  balance,  \* users.balance
  grace,    \* the grace keys of users.extra_data
  rate,     \* an exchange rate is stored
  run,      \* what each worker process is executing
  mem,      \* the uncommitted values of its session
  conv,     \* the server whose conversion a handler has locked
  sLock, uLock,   \* holder of the row lock of a server, of a user
  till,     \* a payment gateway's session: the balance it has read
  topUps,   \* top-ups it has recorded
  queue,    \* users with a handle_balance_empty message in the queue
  crashes,  \* crashes so far
  \* what the transactions table and the chats say, for the properties:
  net,      \* credits minus debits recorded for a user
  paid,     \* hourly debits recorded for a server
  base,     \* where the anchor would be with no hour paid
  funded,   \* when BillingService.credit last credited the user
  slip      \* what gateways that wrote an old balance back added or took away

rows  == <<srv, balance, grace>>
locks == <<sLock, uLock>>
gate  == <<till, topUps, slip>>
books == <<net, paid, base, funded>>
vars  == <<now, rows, rate, gate, run, mem, conv, locks, queue, crashes, books>>

TillClosed == [open |-> FALSE, seen |-> 0]
NoGrace == [stamped |-> FALSE, since |-> 0, warn |-> -1]

\* the progress of a worker process through its task
IdleRun     == [pc |-> "idle", todo |-> {}, at |-> NoServer,
                charged |-> {}, ok |-> {}, empty |-> {}]
Listed(S)   == [IdleRun EXCEPT !.pc = "listed", !.todo = S]
Purging(S)  == [IdleRun EXCEPT !.pc = "purging", !.todo = S]
Paying(r, s)  == [r EXCEPT !.pc = "paying", !.at = s]
Skipped(r, s) == [r EXCEPT !.todo = @ \ {s}]
Done(r, s)    == [r EXCEPT !.pc = "listed", !.at = NoServer, !.todo = @ \ {s}]
Paid(r, s)    == [Done(r, s) EXCEPT !.charged = @ \cup {s}, !.ok = @ \cup {Owner[s]}]
Refused(r, s) == [Done(r, s) EXCEPT !.empty = IF s \in Reseller THEN @
                                                               ELSE @ \cup {Owner[s]}]

\* the identity map of its session: what it has read under lock and written
Blank   == [anchor |-> [s \in Servers |-> 0], balance |-> [u \in Users |-> 0],
            spent |-> [u \in Users |-> 0]]
Loaded(m, u, b) == [m EXCEPT !.balance = [@ EXCEPT ![u] = b]]
Debited(m, u, b, s, a) ==
  [anchor |-> [m.anchor EXCEPT ![s] = a], balance |-> [m.balance EXCEPT ![u] = b - Price],
   spent |-> [m.spent EXCEPT ![u] = @ + Price]]

Init ==
  /\ now = 0
  /\ srv = [s \in Servers |-> [status |-> "active", cycle |-> "hourly",
                               anchor |-> Created[s]]]
  /\ balance = [u \in Users |-> FirstBalance]
  /\ grace = [u \in Users |-> NoGrace]
  /\ rate = TRUE
  /\ run = [w \in Workers |-> IdleRun]
  /\ mem = [w \in Workers |-> Blank]
  /\ conv = [h \in Handlers |-> NoServer]
  /\ sLock = [s \in Servers |-> Nobody]
  /\ uLock = [u \in Users |-> Nobody]
  /\ till = [u \in Users |-> TillClosed]
  /\ topUps = 0
  /\ queue = {}
  /\ crashes = 0
  /\ net = [u \in Users |-> 0]
  /\ paid = [s \in Servers |-> 0]
  /\ base = Created
  /\ funded = [u \in Users |-> 0]
  /\ slip = [u \in Users |-> 0]

(***************************************************************************)
(* Reading rows.                                                           *)
(***************************************************************************)
\* server_live_price and to_toman give an amount: 0 means no rate is stored
Priced(s) == s \in Foreign => rate

\* mutant: only the hour that is due right now is listed, arrears are not
DueExactly(s) == /\ srv[s].status = "active" /\ srv[s].cycle = "hourly"
                 /\ srv[s].anchor = now - Hour

\* get_active_servers_for_billing: a plain SELECT
Due(s) == /\ srv[s].status = "active" /\ srv[s].cycle = "hourly"
          /\ srv[s].anchor <= now - Hour

\* mutant: SELECT without FOR UPDATE
UserNotLocked(p, u) == TRUE

ServerFree(p, s) == sLock[s] \in {Nobody, p}
UserFree(p, u)   == uLock[u] \in {Nobody, p}

\* mutant: debit without its flush, so that the next read under lock undoes it
FreshUnflushed(w, u) == balance[u]

\* the balance a FOR UPDATE read with populate_existing returns to w
FreshBalance(w, u) == IF uLock[u] = w THEN mem[w].balance[u] ELSE balance[u]

\* the locks p holds are released: COMMIT, ROLLBACK or a lost connection
Release(p) ==
  /\ sLock' = [s \in Servers |-> IF sLock[s] = p THEN Nobody ELSE sLock[s]]
  /\ uLock' = [u \in Users |-> IF uLock[u] = p THEN Nobody ELSE uLock[u]]

CloseSession(w) ==
  /\ run' = [run EXCEPT ![w] = IdleRun]
  /\ mem' = [mem EXCEPT ![w] = Blank]
  /\ Release(w)

(***************************************************************************)
(* run_hourly_billing, one transaction per run.                            *)
(***************************************************************************)
ListDue(w) ==
  /\ run[w].pc = "idle"
  /\ \E s \in Servers : Due(s)
  /\ run' = [run EXCEPT ![w] = Listed({s \in Servers : Due(s)})]
  /\ UNCHANGED <<now, rows, rate, gate, mem, conv, locks, queue, crashes, books>>

\* charge_hourly re-reads the server FOR UPDATE; only billing_type is rechecked
Chargeable(s) == srv[s].cycle = "hourly" /\ Priced(s)

LockServer(w, s) ==
  /\ run[w].pc = "listed" /\ s \in run[w].todo
  /\ ServerFree(w, s)
  /\ sLock' = [sLock EXCEPT ![s] = w]
  /\ run' = [run EXCEPT ![w] = IF Chargeable(s) THEN Paying(@, s) ELSE Skipped(@, s)]
  /\ UNCHANGED <<now, rows, rate, gate, mem, conv, uLock, queue, crashes, books>>

\* mutant: the anchor jumps to the current hour
JumpToNow(s) == Created[s] + ((now - Created[s]) \div Hour) * Hour

\* last_billed_at moves on by exactly one hour
NextAnchor(s) == (IF srv[s].anchor > Created[s] THEN srv[s].anchor ELSE Created[s]) + Hour

Affords(w, u) == FreshBalance(w, u) >= Price

\* BillingService.debit succeeds
DebitHour(w) ==
  LET s == run[w].at
      u == Owner[s]
  IN /\ run[w].pc = "paying"
     /\ UserFree(w, u)
     /\ Affords(w, u)
     /\ uLock' = [uLock EXCEPT ![u] = w]
     /\ mem' = [mem EXCEPT ![w] = Debited(@, u, FreshBalance(w, u), s, NextAnchor(s))]
     /\ run' = [run EXCEPT ![w] = Paid(@, s)]
     /\ UNCHANGED <<now, rows, rate, gate, conv, sLock, queue, crashes, books>>

\* debit returns False: a reseller's debt never starts the grace period
RefuseHour(w) ==
  LET s == run[w].at
      u == Owner[s]
  IN /\ run[w].pc = "paying"
     /\ UserFree(w, u)
     /\ ~Affords(w, u)
     /\ uLock' = [uLock EXCEPT ![u] = w]
     /\ mem' = [mem EXCEPT ![w] = Loaded(@, u, FreshBalance(w, u))]
     /\ run' = [run EXCEPT ![w] = Refused(@, s)]
     /\ UNCHANGED <<now, rows, rate, gate, conv, sLock, queue, crashes, books>>

\* the grace keys of the users all of whose debits succeeded are dropped
GraceAfterRun(w) ==
  [u \in Users |-> IF u \in run[w].ok \ run[w].empty THEN NoGrace ELSE grace[u]]

CommitRun(w) ==
  /\ run[w].pc = "listed" /\ run[w].todo = {}
  /\ srv' = [s \in Servers |-> IF s \in run[w].charged
                                 THEN [srv[s] EXCEPT !.anchor = mem[w].anchor[s]]
                                 ELSE srv[s]]
  /\ balance' = [u \in Users |-> IF u \in run[w].ok THEN mem[w].balance[u]
                                                     ELSE balance[u]]
  /\ grace' = GraceAfterRun(w)
  /\ queue' = queue \cup run[w].empty
  /\ paid' = [s \in Servers |-> IF s \in run[w].charged THEN paid[s] + 1 ELSE paid[s]]
  /\ net' = [u \in Users |-> net[u] - mem[w].spent[u]]
  /\ CloseSession(w)
  /\ UNCHANGED <<now, rate, gate, conv, crashes, base, funded>>

(***************************************************************************)
(* handle_balance_empty, one message of the queue at a time.               *)
(***************************************************************************)
HourlyOf(u) == {s \in Servers \ Reseller : Owner[s] = u /\ srv[s].cycle = "hourly"}

ActiveOf(u) == {s \in HourlyOf(u) : srv[s].status = "active"}

\* mutant: any positive balance counts as recovered
CoveredIfPositive(u) == balance[u] > 0

\* the balance pays one hour of every active hourly server
Covered(u) ==
  LET priced == {s \in ActiveOf(u) : Priced(s)}
  IN priced # {} /\ balance[u] >= Price * Cardinality(priced)

Recovered(u) == ActiveOf(u) = {} \/ Covered(u)

Elapsed(u) == now - grace[u].since
Stale(u)   == Elapsed(u) >= StaleAfter * Hour
InGrace(u) == ~Recovered(u) /\ grace[u].stamped /\ ~Stale(u)

GraceOver(u) == Elapsed(u) >= 3 * Hour /\ grace[u].warn < 3

\* the 1/3 and 2/3 warnings
WarningDue(u, k) ==
  /\ ~GraceOver(u)
  /\ grace[u].warn < k /\ Elapsed(u) >= k * Hour
  /\ k = 1 => ~(Elapsed(u) >= 2 * Hour)

Receive(u) == u \in queue /\ uLock[u] = Nobody /\ queue' = queue \ {u}

SetGrace(u, g) ==
  /\ Receive(u)
  /\ grace' = [grace EXCEPT ![u] = g]
  /\ UNCHANGED <<now, srv, balance, rate, gate, run, mem, conv, locks, crashes, books>>

ClearGrace(u) == Recovered(u) /\ SetGrace(u, NoGrace)

StampGrace(u) ==
  /\ ~Recovered(u)
  /\ ~grace[u].stamped \/ Stale(u)
  /\ SetGrace(u, [stamped |-> TRUE, since |-> now, warn |-> 0])

WarnAgain(u) ==
  /\ InGrace(u)
  /\ \E k \in 1..2 : WarningDue(u, k) /\ SetGrace(u, [grace[u] EXCEPT !.warn = k])

NothingDue(u) ==
  /\ InGrace(u)
  /\ ~GraceOver(u)
  /\ \A k \in 1..2 : ~WarningDue(u, k)
  /\ SetGrace(u, grace[u])

\* three hours are over: the VMs are deleted while the user row is locked ...
BeginPurge(w, u) ==
  /\ run[w].pc = "idle"
  /\ Receive(u)
  /\ InGrace(u) /\ GraceOver(u)
  /\ uLock' = [uLock EXCEPT ![u] = w]
  /\ run' = [run EXCEPT ![w] = Purging({s \in HourlyOf(u) : srv[s].status # "deleted"})]
  /\ UNCHANGED <<now, rows, rate, gate, mem, conv, sLock, crashes, books>>

\* ... then the records, whose UPDATE waits for their row locks
CommitPurge(w, u) ==
  /\ run[w].pc = "purging" /\ uLock[u] = w
  /\ \A s \in run[w].todo : ServerFree(w, s)
  /\ srv' = [s \in Servers |-> IF s \in run[w].todo
                                 THEN [srv[s] EXCEPT !.status = "deleted"] ELSE srv[s]]
  /\ grace' = [grace EXCEPT ![u] = [stamped |-> FALSE, since |-> 0, warn |-> 3]]
  /\ CloseSession(w)
  /\ UNCHANGED <<now, balance, rate, gate, conv, queue, crashes, books>>

(***************************************************************************)
(* The bot handlers.                                                       *)
(***************************************************************************)
\* cb_srv_to_monthly_do reads the server FOR UPDATE and checks it ...
BeginConvert(h, s) ==
  /\ conv[h] = NoServer
  /\ ServerFree(h, s)
  /\ srv[s].status = "active" /\ srv[s].cycle = "hourly" /\ s \notin Reseller
  /\ Priced(s)
  /\ conv' = [conv EXCEPT ![h] = s]
  /\ sLock' = [sLock EXCEPT ![s] = h]
  /\ UNCHANGED <<now, rows, rate, gate, run, mem, uLock, queue, crashes, books>>

\* ... then debits the month: the cycle changes and the grace keys go
PayConvert(h) ==
  LET s == conv[h]
      u == Owner[s]
  IN /\ s # NoServer
     /\ UserFree(h, u)
     /\ balance[u] >= MonthPrice
     /\ balance' = [balance EXCEPT ![u] = @ - MonthPrice]
     /\ srv' = [srv EXCEPT ![s] = [@ EXCEPT !.cycle = "monthly", !.anchor = now]]
     /\ grace' = [grace EXCEPT ![u] = NoGrace]
     /\ net' = [net EXCEPT ![u] = @ - MonthPrice]
     /\ base' = [base EXCEPT ![s] = now - Hour * paid[s]]
     /\ conv' = [conv EXCEPT ![h] = NoServer]
     /\ Release(h)
     /\ UNCHANGED <<now, rate, gate, run, mem, queue, crashes, paid, funded>>

RefuseConvert(h) ==
  /\ conv[h] # NoServer
  /\ UserFree(h, Owner[conv[h]])
  /\ balance[Owner[conv[h]]] < MonthPrice
  /\ conv' = [conv EXCEPT ![h] = NoServer]
  /\ Release(h)
  /\ UNCHANGED <<now, rows, rate, gate, run, mem, queue, crashes, books>>

\* mutant: credit leaves the grace keys alone
GraceKept(u) == grace[u]

\* credit drops balance_empty_at and balance_warn_level
GraceAfterCredit(u) == NoGrace

\* BillingService.credit, called by the admin panel and by every refund
Credit(u) ==
  /\ uLock[u] = Nobody
  /\ balance[u] + TopUp <= MaxBalance
  /\ balance' = [balance EXCEPT ![u] = @ + TopUp]
  /\ grace' = [grace EXCEPT ![u] = GraceAfterCredit(u)]
  /\ net' = [net EXCEPT ![u] = @ + TopUp]
  /\ funded' = [funded EXCEPT ![u] = now]
  /\ UNCHANGED <<now, srv, rate, gate, run, mem, conv, locks, queue, crashes,
                 paid, base>>

\* a gateway confirms an invoice: user.balance is read without a lock ...
GatewayRead(u) ==
  /\ ~till[u].open
  /\ topUps < MaxTopUps /\ balance[u] + TopUp <= MaxBalance
  /\ till' = [till EXCEPT ![u] = [open |-> TRUE, seen |-> balance[u]]]
  /\ UNCHANGED <<now, rows, rate, run, mem, conv, locks, queue, crashes, books,
                 topUps, slip>>

\* ... and the sum is written after the await of the log message; the grace keys stay
GatewayWrite(u) ==
  /\ till[u].open
  /\ uLock[u] = Nobody
  /\ balance' = [balance EXCEPT ![u] = till[u].seen + TopUp]
  /\ net' = [net EXCEPT ![u] = @ + TopUp]
  /\ slip' = [slip EXCEPT ![u] = @ + till[u].seen - balance[u]]
  /\ till' = [till EXCEPT ![u] = TillClosed]
  /\ topUps' = topUps + 1
  /\ UNCHANGED <<now, srv, grace, rate, run, mem, conv, locks, queue, crashes,
                 paid, base, funded>>

\* the session of the gateway is lost before its commit
GatewayDrop(u) ==
  /\ till[u].open
  /\ crashes < MaxCrashes /\ crashes' = crashes + 1
  /\ till' = [till EXCEPT ![u] = TillClosed]
  /\ UNCHANGED <<now, rows, rate, run, mem, conv, locks, queue, books, topUps, slip>>

GatewayStep(u) == GatewayRead(u) \/ GatewayWrite(u) \/ GatewayDrop(u)

WriteServer(s, row) ==
  /\ sLock[s] = Nobody
  /\ srv' = [srv EXCEPT ![s] = row]
  /\ UNCHANGED <<now, balance, grace, rate, gate, run, mem, conv, locks, queue, crashes,
                 net, paid, funded>>

Suspend(s) ==
  /\ srv[s].status = "active"
  /\ WriteServer(s, [srv[s] EXCEPT !.status = "suspended"])
  /\ UNCHANGED base

\* unsuspend_server_db puts an hourly anchor back on the grid of the creation hour
GridNow(s) == Created[s] + ((now - Created[s]) \div Hour) * Hour

Unsuspend(s) ==
  LET anchor == IF srv[s].cycle = "hourly" THEN GridNow(s) ELSE srv[s].anchor
  IN /\ srv[s].status = "suspended"
     /\ WriteServer(s, [srv[s] EXCEPT !.status = "active", !.anchor = anchor])
     /\ base' = [base EXCEPT ![s] = anchor - Hour * paid[s]]

\* the owner deletes an hourly server
Delete(s) ==
  /\ srv[s].status # "deleted" /\ srv[s].cycle = "hourly" /\ s \notin Reseller
  /\ WriteServer(s, [srv[s] EXCEPT !.status = "deleted"])
  /\ UNCHANGED base

(***************************************************************************)
(* Failures and the environment.                                           *)
(***************************************************************************)
Busy(p) == IF p \in Workers THEN run[p].pc # "idle" ELSE conv[p] # NoServer

\* the processes whose locks p waits for, or may be about to wait for
WaitsFor(p) ==
  LET holders ==
        IF p \in Workers
          THEN CASE run[p].pc = "paying" -> {uLock[Owner[run[p].at]]}
                 [] run[p].pc = "idle"   -> {}
                 [] OTHER                -> {sLock[s] : s \in run[p].todo}
          ELSE IF conv[p] = NoServer THEN {} ELSE {uLock[Owner[conv[p]]]}
  IN holders \ {p, Nobody}

\* PostgreSQL cancels one transaction of a cycle of waits
Deadlocked(p) ==
  \E C \in SUBSET Procs : p \in C /\ \A q \in C : WaitsFor(q) \cap C # {}

Rollback(p) ==
  /\ Busy(p)
  /\ \/ Deadlocked(p) /\ UNCHANGED crashes
     \/ crashes < MaxCrashes /\ crashes' = crashes + 1
  /\ IF p \in Workers
       THEN CloseSession(p) /\ UNCHANGED conv
       ELSE conv' = [conv EXCEPT ![p] = NoServer] /\ Release(p) /\ UNCHANGED <<run, mem>>
  /\ UNCHANGED <<now, rows, rate, gate, queue, books>>

\* the rate cache expires or is refreshed
RateChanges ==
  /\ Foreign # {}
  /\ rate' = ~rate
  /\ UNCHANGED <<now, rows, gate, run, mem, conv, locks, queue, crashes, books>>

Tick ==
  /\ now < MaxTime
  /\ now' = now + 1
  /\ UNCHANGED <<rows, rate, gate, run, mem, conv, locks, queue, crashes, books>>

\* the bounded clock has run out and nothing is in progress
Rest ==
  /\ now = MaxTime /\ queue = {}
  /\ \A p \in Procs : ~Busy(p)
  /\ UNCHANGED vars

BillingStep(w) ==
  \/ ListDue(w) \/ DebitHour(w) \/ RefuseHour(w) \/ CommitRun(w)
  \/ \E s \in Servers : LockServer(w, s)
  \/ \E u \in Users : BeginPurge(w, u) \/ CommitPurge(w, u)

GraceStep(u) == ClearGrace(u) \/ StampGrace(u) \/ WarnAgain(u) \/ NothingDue(u)

ConvertStep(h) ==
  \/ \E s \in Servers : BeginConvert(h, s)
  \/ PayConvert(h) \/ RefuseConvert(h)

ServerStep(s) == Suspend(s) \/ Unsuspend(s) \/ Delete(s)

Next ==
  \/ \E w \in Workers : BillingStep(w)
  \/ \E u \in Users : GraceStep(u) \/ Credit(u) \/ GatewayStep(u)
  \/ \E h \in Handlers : ConvertStep(h)
  \/ \E s \in Servers : ServerStep(s)
  \/ \E p \in Procs : Rollback(p)
  \/ RateChanges \/ Tick \/ Rest

Spec == Init /\ [][Next]_vars

\* Celery executes what beat and the queue hand it, a process that waits for a row lock is
\* granted it in turn (strong fairness), and time passes; users owe nobody a step
Fairness ==
  /\ \A w \in Workers : WF_vars(BillingStep(w))
  /\ \A u \in Users : SF_vars(GraceStep(u) \/ \E w \in Workers : BeginPurge(w, u))
  /\ WF_vars(Tick)

FairSpec == Spec /\ Fairness

-----------------------------------------------------------------------------
(***************************************************************************)
(* Types.                                                                  *)
(***************************************************************************)
ServerRow == [status : {"active", "suspended", "deleted"},
              cycle : {"hourly", "monthly"}, anchor : Int]
GraceKeys == [stamped : BOOLEAN, since : Nat, warn : -1..3]
RunState  == [pc : {"idle", "listed", "paying", "purging"},
              todo : SUBSET Servers, at : Servers \cup {NoServer},
              charged : SUBSET Servers, ok : SUBSET Users, empty : SUBSET Users]
SessionMap == [anchor : [Servers -> Int], balance : [Users -> Int],
               spent : [Users -> Nat]]
Till == [open : BOOLEAN, seen : Int]

\* The type of every variable: rows, session state and books hold the values the code stores.
TypeOK ==
  /\ now \in Nat
  /\ srv \in [Servers -> ServerRow]
  /\ balance \in [Users -> Int]
  /\ grace \in [Users -> GraceKeys]
  /\ rate \in BOOLEAN
  /\ run \in [Workers -> RunState]
  /\ mem \in [Workers -> SessionMap]
  /\ conv \in [Handlers -> Servers \cup {NoServer}]
  /\ sLock \in [Servers -> Procs \cup {Nobody}]
  /\ uLock \in [Users -> Procs \cup {Nobody}]
  /\ till \in [Users -> Till]
  /\ topUps \in Nat
  /\ queue \subseteq Users
  /\ crashes \in Nat
  /\ net \in [Users -> Int]
  /\ paid \in [Servers -> Nat]
  /\ base \in [Servers -> Int]
  /\ funded \in [Users -> Nat]
  /\ slip \in [Users -> Int]

(***************************************************************************)
(* Properties.                                                             *)
(***************************************************************************)
\* Every change of a balance is backed by transaction rows: concurrent runs, conversions and
\* credits, each of which computes the new balance in memory, never lose an update.  Only a
\* gateway that writes an old balance back does, and by no more than what came in between.
Ledger == \A u \in Users : balance[u] = FirstBalance + net[u] + slip[u]

\* No interleaving of runs and handlers overdraws a wallet (debit refuses under the row lock).
NoOverdraft == \A u \in Users : balance[u] >= 0

\* last_billed_at advances by exactly one hour per hourly debit recorded, so that no hour of
\* arrears is forgiven and no hour is debited without moving the anchor.
HoursMatchDebits == \A s \in Servers : srv[s].anchor = base[s] + Hour * paid[s]

\* Runs may overlap and charge_hourly does not recheck that the hour is still due, yet a
\* server is never paid further ahead than one hour per worker process.
BoundedPrepayment ==
  \A s \in Servers : srv[s].anchor <= now + Hour * Cardinality(Workers)

\* A run that listed a server before its conversion to monthly never debits an hour after it.
MonthlyNeverDebitedHourly ==
  [][\A s \in Servers : paid'[s] # paid[s] => srv[s].cycle = "hourly"]_vars

\* The concurrent transactions serialise: whatever the processes interleave, what is committed
\* is a wallet charged by the hour, in single steps, that no run charges in part.
Wallet == INSTANCE MeteredWallet WITH
  wallet <- balance,
  meter  <- [s \in Servers |-> srv[s].anchor],
  plan   <- [s \in Servers |-> srv[s].cycle],
  state  <- [s \in Servers |-> srv[s].status],
  quote  <- till
ImplementsWallet == Wallet!Spec

\* The servers of a broke user are deleted only three hours or more after the last credit of
\* BillingService.credit (administrator, refund), and among them no reseller server and none
\* whose month has been paid.  A top-up through a gateway gives no such delay.
Purged(s) == /\ srv[s].status # "deleted" /\ srv'[s].status = "deleted"
             /\ run' # run
PurgeSparesFunded ==
  [][\A s \in Servers : Purged(s) =>
       /\ now >= funded[Owner[s]] + 3 * Hour
       /\ srv[s].cycle = "hourly" /\ s \notin Reseller]_vars

InArrears(s) == /\ srv[s].status = "active" /\ srv[s].cycle = "hourly" /\ Priced(s)
                /\ srv[s].anchor + Hour <= now

Unpaid(s) == InArrears(s) /\ balance[Owner[s]] < Price

\* Hours in arrears that the wallet can pay are eventually debited, crashes or not.
ArrearsSettled ==
  \A s \in Servers : []<>(~InArrears(s) \/ balance[Owner[s]] < Price)

\* A server nobody pays for does not run free for ever: its owner ends up marked, for good, in
\* a grace period that is not over yet (a longer clock then deletes the server).
UnpaidStaysMarked ==
  \A s \in Servers \ Reseller :
    <>[]Unpaid(s) => <>[](/\ grace[Owner[s]].stamped
                          /\ Elapsed(Owner[s]) < 3 * Hour)

=============================================================================
