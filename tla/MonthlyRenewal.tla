--------------------------- MODULE MonthlyRenewal ---------------------------
(***************************************************************************)
(* The monthly cycle of a server: the nightly run_monthly_expiry_check,    *)
(* the ten-minute retry_expired_renewals (tasks/billing.py), the owner who *)
(* renews or activates a server by hand (handlers/servers.py), and the     *)
(* administrators' panel.  The tasks take a list of servers with a plain   *)
(* SELECT and work through it in one transaction, a provider call and a    *)
(* chat message at a time; they lock a server's row only when its UPDATE   *)
(* is flushed, write the columns they changed, and never read it again.    *)
(* The committed rows are row and balance; what the open transaction of a  *)
(* worker has written is in mem.                                           *)
(***************************************************************************)
EXTENDS Integers, FiniteSets

CONSTANTS
  Servers, Users,
  Owner,          \* the user of a server
  Workers,        \* processes of the Celery worker
  Handlers,       \* sessions of the bot that renew or activate
  Editors,        \* sessions of the bot that write extra_data back
  Nobody, NoServer,
  Day, Month,     \* in ticks
  NoticeDays,     \* the owner is reminded this many days ahead (3 in the code)
  Price, TopUp, FirstBalance,
  FirstTerm,      \* expires_at of a server when the exploration begins
  MaxTime, MaxFunds, MaxCrashes     \* bounds on the exploration

Procs == Workers \cup Handlers

ASSUME ServersAssumption ==
  /\ Owner \in [Servers -> Users]
  /\ NoServer \notin Servers

ASSUME ProcsAssumption ==
  /\ Workers \cap Handlers = {}
  /\ Nobody \notin Workers /\ Nobody \notin Handlers

ASSUME AmountsAssumption ==
  /\ Day \in Nat \ {0} /\ Month \in Nat \ {0} /\ NoticeDays \in Nat
  /\ Price \in Nat \ {0} /\ TopUp \in Nat \ {0} /\ FirstBalance \in Nat
  /\ FirstTerm \in [Servers -> Int]
  /\ MaxTime \in Nat /\ MaxFunds \in Nat /\ MaxCrashes \in Nat

VARIABLES
  now,        \* the clock
  row,        \* server rows: standing, since, expires, mark, notice
  balance,    \* users.balance
  rate,       \* an exchange rate is stored
  run,        \* the task a worker process executes
  mem,        \* what its session has written and not committed
  sess,       \* a bot session that renews or activates a server
  draft,      \* extra_data as a session without a lock has read it
  sLock, uLock,   \* holder of the row lock of a server, of a user
  night,      \* the last night whose check was started and not rolled back
  crashes,    \* crashes so far
  \* what the transactions table says, for the properties:
  funded,     \* credits of a user
  months,     \* months debited from a user
  charges,    \* months debited for a server
  manual,     \* renewals by hand: how many, when the last one was
  told,       \* when the owner was last told that a server is suspended for EXPIRED
  erased      \* servers whose renewal mark an older extra_data was written over

rows  == <<row, balance>>
locks == <<sLock, uLock>>
books == <<funded, months, charges, manual, told, erased>>
vars  == <<now, rows, rate, draft, run, mem, sess, locks, night, crashes, books>>

\* no manual_renewed_at: long enough ago to block nothing
Never == 0 - Month

(***************************************************************************)
(* A row.  standing joins status and suspend_reason: "expired" and "held"  *)
(* are SUSPENDED, for EXPIRED and for any other reason.  Only DELETED is   *)
(* written without a reason, and "gone" is a deleted row whose reason is   *)
(* still EXPIRED.  since is suspended_at, mark and notice are the keys     *)
(* manual_renewed_at and renew_notice_sent of extra_data.                  *)
(***************************************************************************)
BlankRow == [standing |-> "active", since |-> 0, expires |-> 0, mark |-> Never,
             notice |-> 0]

Standing(r, st, t) == [r EXCEPT !.standing = st, !.since = t]
Term(r, t)         == [r EXCEPT !.expires = t]
Extra(r, m, n)     == [r EXCEPT !.mark = m, !.notice = n]

Deleted(standing) == IF standing \in {"expired", "gone"} THEN "gone" ELSE "deleted"

Columns == {"standing", "expires", "extra"}

\* an UPDATE sets the columns the session changed and leaves the others alone
Merge(old, new, cols) ==
  [standing |-> IF "standing" \notin cols THEN old.standing
                ELSE IF new.standing = "deleted" THEN Deleted(old.standing)
                ELSE new.standing,
   since    |-> IF "standing" \in cols THEN new.since ELSE old.since,
   expires  |-> IF "expires" \in cols THEN new.expires ELSE old.expires,
   mark     |-> IF "extra" \in cols THEN new.mark ELSE old.mark,
   notice   |-> IF "extra" \in cols THEN new.notice ELSE old.notice]

\* a session's view of a server, its own writes included
View(w, s) == Merge(row[s], mem[w].row[s], mem[w].cols[s])

Blank == [row |-> [s \in Servers |-> BlankRow], cols |-> [s \in Servers |-> {}],
          balance |-> [u \in Users |-> 0], spent |-> [u \in Users |-> 0]]

Written(m, s, r, cols) == [m EXCEPT !.row = [m.row EXCEPT ![s] = Merge(@, r, cols)],
                                    !.cols = [m.cols EXCEPT ![s] = @ \cup cols]]
Loaded(m, u, b)  == [m EXCEPT !.balance = [m.balance EXCEPT ![u] = b]]
Debited(m, u, b) == [m EXCEPT !.balance = [m.balance EXCEPT ![u] = b - Price],
                              !.spent = [m.spent EXCEPT ![u] = @ + 1]]

(***************************************************************************)
(* A run: the task or the phase of the nightly check, the list at hand     *)
(* with the rows as they were read, the server it is working on, and how   *)
(* far it is with it.                                                      *)
(***************************************************************************)
IdleRun == [task |-> "idle", at |-> 0, todo |-> {}, cur |-> NoServer, step |-> "pick",
            seen |-> [s \in Servers |-> BlankRow], charged |-> {}]
Phase(r, w, task, S) ==
  [r EXCEPT !.task = task, !.todo = S,
            !.seen = [s \in Servers |-> IF s \in S THEN View(w, s) ELSE BlankRow]]
Take(r, s, step) == [r EXCEPT !.cur = s, !.step = step]
Charging(r, s)   == [r EXCEPT !.cur = s, !.step = "debited", !.charged = @ \cup {s}]
Drop(r, s)       == [r EXCEPT !.cur = NoServer, !.step = "pick", !.todo = @ \ {s},
                              !.seen = [@ EXCEPT ![s] = BlankRow]]

NoDraft == [at |-> NoServer, mark |-> Never, notice |-> 0]
IdleSession == [at |-> NoServer, pc |-> "idle"]

Init ==
  /\ now = 0
  /\ row = [s \in Servers |-> Term(BlankRow, FirstTerm[s])]
  /\ balance = [u \in Users |-> FirstBalance]
  /\ rate = TRUE
  /\ run = [w \in Workers |-> IdleRun]
  /\ mem = [w \in Workers |-> Blank]
  /\ sess = [h \in Handlers |-> IdleSession]
  /\ draft = [e \in Editors |-> NoDraft]
  /\ sLock = [s \in Servers |-> Nobody]
  /\ uLock = [u \in Users |-> Nobody]
  /\ night = -1
  /\ crashes = 0
  /\ funded = [u \in Users |-> 0]
  /\ months = [u \in Users |-> 0]
  /\ charges = [s \in Servers |-> 0]
  /\ manual = [s \in Servers |-> [times |-> 0, last |-> Never]]
  /\ told = [s \in Servers |-> MaxTime]
  /\ erased = {}

\* mutant: SELECT of the server without FOR UPDATE
ServerNotLocked(p, s) == TRUE

ServerFree(p, s) == sLock[s] \in {Nobody, p}
\* mutant: SELECT without FOR UPDATE
UserNotLocked(p, u) == TRUE

UserFree(p, u)   == uLock[u] \in {Nobody, p}

\* the balance a FOR UPDATE read with populate_existing returns to w
FreshBalance(w, u) == IF uLock[u] = w THEN mem[w].balance[u] ELSE balance[u]

Release(p) ==
  /\ sLock' = [s \in Servers |-> IF sLock[s] = p THEN Nobody ELSE sLock[s]]
  /\ uLock' = [u \in Users |-> IF uLock[u] = p THEN Nobody ELSE uLock[u]]

CloseSession(w) ==
  /\ run' = [run EXCEPT ![w] = IdleRun]
  /\ mem' = [mem EXCEPT ![w] = Blank]
  /\ Release(w)

(***************************************************************************)
(* The lists.                                                              *)
(***************************************************************************)
\* whole days left, rounded up
DaysLeft(r, t) == (r.expires - t + Day - 1) \div Day

ExpiresSoon(w, t) ==
  {s \in Servers : /\ View(w, s).standing = "active"
                   /\ View(w, s).expires > t
                   /\ View(w, s).expires <= t + NoticeDays * Day}

\* mutant: an expiry that was missed is not made up for
ExpiresToday(w, t) ==
  {s \in Servers : View(w, s).standing = "active" /\ View(w, s).expires = t}

Expired(w, t) ==
  {s \in Servers : View(w, s).standing = "active" /\ View(w, s).expires <= t}

SuspendedExpired(w) == {s \in Servers : View(w, s).standing = "expired"}

\* mutant: the filter on suspended_at is missing
OverdueAtOnce(w, t) == SuspendedExpired(w)

Overdue(w, t) == {s \in SuspendedExpired(w) : View(w, s).since <= t - Day}

(***************************************************************************)
(* run_monthly_expiry_check.  Beat starts it once a night, and again when  *)
(* it failed (self.retry); a night's check ends before the next night.     *)
(***************************************************************************)
BeginNight(w) ==
  /\ run[w].task = "idle"
  /\ night < now \/ now = MaxTime
  /\ \A v \in Workers : run[v].task \in {"idle", "retry"}
  /\ night' = now
  /\ run' = [run EXCEPT ![w] = Phase([@ EXCEPT !.at = now], w, "remind",
                                     ExpiresSoon(w, now))]
  /\ UNCHANGED <<now, rows, rate, draft, mem, sess, locks, crashes, books>>

Reminded(w, s) == run[w].seen[s].notice = DaysLeft(run[w].seen[s], run[w].at)

\* one reminder for each of the last days: extra_data is written back as it was read
Remind(w, s) ==
  /\ run[w].task = "remind" /\ s \in run[w].todo
  /\ IF Reminded(w, s)
       THEN UNCHANGED <<mem, sLock>>
       ELSE /\ ServerFree(w, s)
            /\ sLock' = [sLock EXCEPT ![s] = w]
            /\ mem' = [mem EXCEPT ![w] =
                 Written(@, s, Extra(row[s], run[w].seen[s].mark,
                                     DaysLeft(run[w].seen[s], run[w].at)), {"extra"})]
  /\ run' = [run EXCEPT ![w] = Drop(@, s)]
  /\ UNCHANGED <<now, rows, rate, draft, sess, uLock, night, crashes, books>>

ListExpired(w) ==
  /\ run[w].task = "remind" /\ run[w].todo = {}
  /\ run' = [run EXCEPT ![w] = Phase(@, w, "renew", Expired(w, run[w].at))]
  /\ UNCHANGED <<now, rows, rate, draft, mem, sess, locks, night, crashes, books>>

ListOverdue(w) ==
  /\ run[w].task = "renew" /\ run[w].todo = {}
  /\ run' = [run EXCEPT ![w] = Phase(@, w, "purge", Overdue(w, run[w].at))]
  /\ UNCHANGED <<now, rows, rate, draft, mem, sess, locks, night, crashes, books>>

\* mutant: the retry shares the filter of the purge
BeginRetryOverdue(w) ==
  /\ run[w].task = "idle"
  /\ Overdue(w, now) # {}
  /\ run' = [run EXCEPT ![w] = Phase([@ EXCEPT !.at = now], w, "retry", Overdue(w, now))]
  /\ UNCHANGED <<now, rows, rate, draft, mem, sess, locks, night, crashes, books>>

\* retry_expired_renewals, every ten minutes
BeginRetry(w) ==
  /\ run[w].task = "idle"
  /\ SuspendedExpired(w) # {}
  /\ run' = [run EXCEPT ![w] = Phase([@ EXCEPT !.at = now], w, "retry",
                                     SuspendedExpired(w))]
  /\ UNCHANGED <<now, rows, rate, draft, mem, sess, locks, night, crashes, books>>

(***************************************************************************)
(* charge_monthly and what its caller makes of the answer.                 *)
(***************************************************************************)
AtHand(w, s) == run[w].step = "pick" /\ s \in run[w].todo /\ run[w].task # "remind"

\* mutant: charge_monthly returns True when no rate is stored
PostponeAsPaid(w, s) ==
  /\ AtHand(w, s) /\ ~rate
  /\ run[w].task \in {"renew", "retry"}
  /\ run' = [run EXCEPT ![w] = Take(@, s, "debited")]
  /\ UNCHANGED <<now, rows, rate, draft, mem, sess, locks, night, crashes, books>>

\* None: no rate is stored, and the server is left for another run ...
Postpone(w, s) ==
  /\ AtHand(w, s) /\ ~rate
  /\ run[w].task \in {"renew", "retry"}
  /\ run' = [run EXCEPT ![w] = Drop(@, s)]
  /\ UNCHANGED <<now, rows, rate, draft, mem, sess, locks, night, crashes, books>>

\* ... but _renew_and_unsuspend reports it as False, and the purge takes that for a refusal
PostponeOverdue(w, s) ==
  /\ AtHand(w, s) /\ ~rate
  /\ run[w].task = "purge"
  /\ run' = [run EXCEPT ![w] = Take(@, s, "refused")]
  /\ UNCHANGED <<now, rows, rate, draft, mem, sess, locks, night, crashes, books>>

\* True: the month is debited
DebitMonth(w, s) ==
  LET u == Owner[s]
  IN /\ AtHand(w, s) /\ rate
     /\ UserFree(w, u)
     /\ FreshBalance(w, u) >= Price
     /\ uLock' = [uLock EXCEPT ![u] = w]
     /\ mem' = [mem EXCEPT ![w] = Debited(@, u, FreshBalance(w, u))]
     /\ run' = [run EXCEPT ![w] = Charging(@, s)]
     /\ UNCHANGED <<now, rows, rate, draft, sess, sLock, night, crashes, books>>

\* False: the user's row stays locked, and only the nightly check acts on it
RefuseMonth(w, s) ==
  LET u == Owner[s]
  IN /\ AtHand(w, s) /\ rate
     /\ UserFree(w, u)
     /\ FreshBalance(w, u) < Price
     /\ uLock' = [uLock EXCEPT ![u] = w]
     /\ mem' = [mem EXCEPT ![w] = Loaded(@, u, FreshBalance(w, u))]
     /\ run' = [run EXCEPT ![w] = IF run[w].task = "retry" THEN Drop(@, s)
                                                          ELSE Take(@, s, "refused")]
     /\ UNCHANGED <<now, rows, rate, draft, sess, sLock, night, crashes, books>>

\* the UPDATE of the server at hand, which waits for its row lock
Flush(w, r, cols) ==
  LET s == run[w].cur
  IN /\ ServerFree(w, s)
     /\ sLock' = [sLock EXCEPT ![s] = w]
     /\ mem' = [mem EXCEPT ![w] = Written(@, s, r, cols)]
     /\ run' = [run EXCEPT ![w] = Drop(@, s)]
     /\ UNCHANGED <<now, rows, rate, draft, sess, uLock, night, crashes, books>>

\* renew_notice_sent is dropped; without it extra_data does not change
NoticeColumns(r) == IF r.notice = 0 THEN {} ELSE {"extra"}

\* the term of an active server starts with the run, that of a suspended one now
Renew(w) ==
  LET seen == run[w].seen[run[w].cur]
      term == IF run[w].task = "renew" THEN run[w].at + Month ELSE now + Month
      up   == IF run[w].task = "renew" THEN {} ELSE {"standing"}
  IN /\ run[w].step = "debited"
     /\ Flush(w, Extra(Term(Standing(seen, "active", 0), term), seen.mark, 0),
              {"expires"} \cup up \cup NoticeColumns(seen))

Suspend(w) ==
  /\ run[w].task = "renew" /\ run[w].step = "refused"
  /\ Flush(w, Standing(BlankRow, "expired", now), {"standing"})

\* the VM is deleted at the provider, then the record is marked
Remove(w) ==
  /\ run[w].task = "purge" /\ run[w].step = "refused"
  /\ Flush(w, Standing(BlankRow, "deleted", 0), {"standing"})

\* the renewal marks a run overwrites with an older value
Overwritten(w) ==
  {s \in Servers : "extra" \in mem[w].cols[s] /\ mem[w].row[s].mark # row[s].mark}

SuspendedBy(w, s) == "standing" \in mem[w].cols[s] /\ mem[w].row[s].standing = "expired"
RemovedBy(w, s)   == "standing" \in mem[w].cols[s] /\ mem[w].row[s].standing \in {"deleted", "gone"}

CommitRun(w) ==
  /\ run[w].task \in {"purge", "retry"} /\ run[w].todo = {}
  /\ row' = [s \in Servers |-> View(w, s)]
  /\ balance' = [u \in Users |-> IF mem[w].spent[u] > 0 THEN mem[w].balance[u]
                                                        ELSE balance[u]]
  /\ months' = [u \in Users |-> months[u] + mem[w].spent[u]]
  /\ charges' = [s \in Servers |-> IF s \in run[w].charged THEN charges[s] + 1
                                                           ELSE charges[s]]
  /\ told' = [s \in Servers |-> IF SuspendedBy(w, s) THEN mem[w].row[s].since ELSE told[s]]
  /\ erased' = erased \cup Overwritten(w)
  /\ CloseSession(w)
  /\ UNCHANGED <<now, rate, draft, sess, night, crashes, funded, manual>>

(***************************************************************************)
(* The bot: _perform_renewal, and cb_server_action for "unsuspend".        *)
(***************************************************************************)
\* one renewal by hand in a month
Blocked(r) == r.mark + Month > now

\* the server is read FOR UPDATE and checked ...
LockForRenewal(h, s) ==
  /\ sess[h] = IdleSession
  /\ ServerFree(h, s)
  /\ row[s].standing = "active" /\ ~Blocked(row[s]) /\ rate
  /\ sLock' = [sLock EXCEPT ![s] = h]
  /\ sess' = [sess EXCEPT ![h] = [at |-> s, pc |-> "renewing"]]
  /\ UNCHANGED <<now, rows, rate, draft, run, mem, uLock, night, crashes, books>>

CloseHandler(h) ==
  /\ sess' = [sess EXCEPT ![h] = IdleSession]
  /\ Release(h)

RecordMonth(s) ==
  /\ balance' = [balance EXCEPT ![Owner[s]] = @ - Price]
  /\ months' = [months EXCEPT ![Owner[s]] = @ + 1]
  /\ charges' = [charges EXCEPT ![s] = @ + 1]

\* ... then the month is added to what is left of the term
PayRenewal(h) ==
  LET s == sess[h].at
      base == IF row[s].expires < now THEN now ELSE row[s].expires
  IN /\ sess[h].pc = "renewing"
     /\ UserFree(h, Owner[s])
     /\ balance[Owner[s]] >= Price
     /\ RecordMonth(s)
     /\ row' = [row EXCEPT ![s] = Extra(Term(@, base + Month), now, 0)]
     /\ manual' = [manual EXCEPT ![s] = [times |-> @.times + 1, last |-> now]]
     /\ erased' = erased \ {s}
     /\ CloseHandler(h)
     /\ UNCHANGED <<now, rate, draft, run, mem, night, crashes, funded, told>>

\* activation of a server whose suspend_reason is EXPIRED, read without a lock; that it may
\* be deleted by now is not asked
AskActivation(h, s) ==
  /\ sess[h] = IdleSession
  /\ row[s].standing \in {"expired", "gone"} /\ rate
  /\ sess' = [sess EXCEPT ![h] = [at |-> s, pc |-> "asking"]]
  /\ UNCHANGED <<now, rows, rate, draft, run, mem, locks, night, crashes, books>>

PayActivation(h) ==
  LET u == Owner[sess[h].at]
  IN /\ sess[h].pc = "asking"
     /\ UserFree(h, u)
     /\ balance[u] >= Price
     /\ uLock' = [uLock EXCEPT ![u] = h]
     /\ sess' = [sess EXCEPT ![h].pc = "paid"]
     /\ UNCHANGED <<now, rows, rate, draft, run, mem, sLock, night, crashes, books>>

\* either debit is refused
RefuseHandler(h) ==
  /\ sess[h].pc \in {"renewing", "asking"}
  /\ UserFree(h, Owner[sess[h].at])
  /\ balance[Owner[sess[h].at]] < Price
  /\ CloseHandler(h)
  /\ UNCHANGED <<now, rows, rate, draft, run, mem, night, crashes, books>>

\* the new term is committed whether or not the provider lifts the suspension
Activate(h, lifted) ==
  LET s == sess[h].at
      renewed == Term(row[s], now + Month)
  IN /\ sess[h].pc = "paid"
     /\ ServerFree(h, s)
     /\ RecordMonth(s)
     /\ row' = [row EXCEPT ![s] = IF lifted THEN Standing(renewed, "active", 0)
                                            ELSE renewed]
     /\ CloseHandler(h)
     /\ UNCHANGED <<now, rate, draft, run, mem, night, crashes, funded, manual, told, erased>>

(***************************************************************************)
(* Administrators, the traffic limit and payments.                         *)
(***************************************************************************)
SetStanding(s, st) ==
  /\ sLock[s] = Nobody
  /\ row' = [row EXCEPT ![s] = Standing(@, st, 0)]
  /\ UNCHANGED <<now, balance, rate, draft, run, mem, sess, locks, night, crashes, books>>

\* perform_action("suspend"), sync_all_traffic
Hold(s) == row[s].standing \in {"active", "expired"} /\ SetStanding(s, "held")

\* an administrator or a traffic purchase lifts a suspension: nothing is charged
Lift(s) == row[s].standing \in {"expired", "held"} /\ SetStanding(s, "active")

\* the reason of a suspension is not cleared
Delete(s) == /\ row[s].standing \notin {"deleted", "gone"}
             /\ SetStanding(s, Deleted(row[s].standing))

Credit(u) ==
  /\ uLock[u] = Nobody
  /\ funded[u] + TopUp <= MaxFunds
  /\ balance' = [balance EXCEPT ![u] = @ + TopUp]
  /\ funded' = [funded EXCEPT ![u] = @ + TopUp]
  /\ UNCHANGED <<now, row, rate, draft, run, mem, sess, locks, night, crashes,
                 months, charges, manual, told, erased>>

(***************************************************************************)
(* Start, stop, rebuild, a new password, the remembered addresses and the  *)
(* server page read the row without a lock, await the provider, and write  *)
(* the whole of extra_data back with a key changed.                        *)
(***************************************************************************)
ReadExtra(e, s) ==
  /\ draft[e] = NoDraft
  /\ draft' = [draft EXCEPT ![e] = [at |-> s, mark |-> row[s].mark, notice |-> row[s].notice]]
  /\ UNCHANGED <<now, rows, rate, run, mem, sess, locks, night, crashes, books>>

WriteExtra(e, s) ==
  /\ draft[e].at = s
  /\ sLock[s] = Nobody
  /\ row' = [row EXCEPT ![s] = Extra(@, draft[e].mark, draft[e].notice)]
  /\ erased' = IF draft[e].mark # row[s].mark THEN erased \cup {s} ELSE erased
  /\ draft' = [draft EXCEPT ![e] = NoDraft]
  /\ UNCHANGED <<now, balance, rate, run, mem, sess, locks, night, crashes, funded, months,
                 charges, manual, told>>

\* the provider refuses
DropExtra(e) ==
  /\ draft[e] # NoDraft
  /\ draft' = [draft EXCEPT ![e] = NoDraft]
  /\ UNCHANGED <<now, rows, rate, run, mem, sess, locks, night, crashes, books>>

EditorStep(e) == DropExtra(e) \/ \E s \in Servers : ReadExtra(e, s) \/ WriteExtra(e, s)

(***************************************************************************)
(* Failures and the environment.                                           *)
(***************************************************************************)
\* the processes whose locks p waits for, or may be about to wait for
WaitsFor(p) ==
  LET holders ==
        IF p \in Workers
          THEN CASE run[p].step # "pick"   -> {sLock[run[p].cur]}
                 [] run[p].step = "pick" /\ run[p].task = "remind"
                                          -> {sLock[s] : s \in run[p].todo}
                 [] OTHER                  -> {uLock[Owner[s]] : s \in run[p].todo}
          ELSE CASE sess[p].pc = "idle" -> {}
                 [] sess[p].pc = "paid" -> {sLock[sess[p].at]}
                 [] OTHER               -> {uLock[Owner[sess[p].at]]}
  IN holders \ {p, Nobody}

\* PostgreSQL cancels one transaction of a cycle of waits
Deadlocked(p) ==
  \E C \in SUBSET Procs : p \in C /\ \A q \in C : WaitsFor(q) \cap C # {}

\* an exception in the run, or a dead worker: the task is tried again
RollbackRun(w) ==
  /\ run[w].task # "idle"
  /\ crashes < MaxCrashes /\ crashes' = crashes + 1
  /\ night' = IF run[w].task = "retry" THEN night ELSE -1
  /\ CloseSession(w)
  /\ UNCHANGED <<now, rows, rate, draft, sess, books>>

RollbackHandler(h) ==
  /\ sess[h] # IdleSession
  /\ \/ Deadlocked(h) /\ UNCHANGED crashes
     \/ crashes < MaxCrashes /\ crashes' = crashes + 1
  /\ CloseHandler(h)
  /\ UNCHANGED <<now, rows, rate, draft, run, mem, night, books>>

RateChanges ==
  /\ rate' = ~rate
  /\ UNCHANGED <<now, rows, draft, run, mem, sess, locks, night, crashes, books>>

\* a transaction is over before a second day begins
Tick ==
  /\ now < MaxTime
  /\ \A w \in Workers : run[w].task # "idle" => run[w].at = now
  /\ now' = now + 1
  /\ UNCHANGED <<rows, rate, draft, run, mem, sess, locks, night, crashes, books>>

RunStep(w) ==
  \/ ListExpired(w) \/ ListOverdue(w) \/ CommitRun(w)
  \/ Renew(w) \/ Suspend(w) \/ Remove(w)
  \/ \E s \in Servers : \/ Remind(w, s)
                        \/ Postpone(w, s) \/ PostponeOverdue(w, s)
                        \/ DebitMonth(w, s) \/ RefuseMonth(w, s)

HandlerStep(h) ==
  \/ \E s \in Servers : LockForRenewal(h, s) \/ AskActivation(h, s)
  \/ PayRenewal(h) \/ PayActivation(h) \/ RefuseHandler(h)
  \/ \E lifted \in BOOLEAN : Activate(h, lifted)

ServerStep(s) == Hold(s) \/ Lift(s) \/ Delete(s)

Next ==
  \/ \E w \in Workers : BeginNight(w) \/ BeginRetry(w) \/ RunStep(w) \/ RollbackRun(w)
  \/ \E h \in Handlers : HandlerStep(h) \/ RollbackHandler(h)
  \/ \E s \in Servers : ServerStep(s)
  \/ \E e \in Editors : EditorStep(e)
  \/ \E u \in Users : Credit(u)
  \/ RateChanges \/ Tick

Spec == Init /\ [][Next]_vars

\* beat starts both tasks again and again, a run is granted the row locks it waits for in turn,
\* a bot session that was begun goes on, and time passes
SessionEnds(h) == PayRenewal(h) \/ PayActivation(h) \/ RefuseHandler(h)
                  \/ RollbackHandler(h) \/ \E lifted \in BOOLEAN : Activate(h, lifted)

Fairness ==
  /\ \A w \in Workers : SF_vars(BeginNight(w)) /\ SF_vars(BeginRetry(w)) /\ SF_vars(RunStep(w))
  /\ \A h \in Handlers : WF_vars(SessionEnds(h))
  /\ WF_vars(Tick)

FairSpec == Spec /\ Fairness

-----------------------------------------------------------------------------
(***************************************************************************)
(* Types.                                                                  *)
(***************************************************************************)
ServerRow == [standing : {"active", "expired", "held", "deleted", "gone"}, since : Nat,
              expires : Int, mark : Int, notice : Int]
RunState  == [task : {"idle", "remind", "renew", "purge", "retry"}, at : Nat,
              todo : SUBSET Servers, cur : Servers \cup {NoServer},
              step : {"pick", "debited", "refused"}, seen : [Servers -> ServerRow],
              charged : SUBSET Servers]
SessionMap == [row : [Servers -> ServerRow], cols : [Servers -> SUBSET Columns],
               balance : [Users -> Int], spent : [Users -> Nat]]
Draft == [at : Servers \cup {NoServer}, mark : Int, notice : Int]
HandlerState == [at : Servers \cup {NoServer}, pc : {"idle", "renewing", "asking", "paid"}]

\* The type of every variable: rows, session state and books hold the values the code stores.
TypeOK ==
  /\ now \in Nat
  /\ row \in [Servers -> ServerRow]
  /\ balance \in [Users -> Int]
  /\ rate \in BOOLEAN
  /\ run \in [Workers -> RunState]
  /\ mem \in [Workers -> SessionMap]
  /\ sess \in [Handlers -> HandlerState]
  /\ draft \in [Editors -> Draft]
  /\ sLock \in [Servers -> Procs \cup {Nobody}]
  /\ uLock \in [Users -> Procs \cup {Nobody}]
  /\ night \in Int
  /\ crashes \in Nat
  /\ funded \in [Users -> Nat]
  /\ months \in [Users -> Nat]
  /\ charges \in [Servers -> Nat]
  /\ manual \in [Servers -> [times : Nat, last : Int]]
  /\ told \in [Servers -> Nat]
  /\ erased \subseteq Servers

(***************************************************************************)
(* Properties.                                                             *)
(***************************************************************************)
\* The wallet is what was paid in minus one price for each month debited, and is never
\* overdrawn, however the tasks, renewals by hand and credits interleave.
Ledger == \A u \in Users : /\ balance[u] = FirstBalance + funded[u] - Price * months[u]
                           /\ balance[u] >= 0

\* No free month (the bug the docstring of charge_monthly remembers): expires_at moves on only in
\* a transaction that debits one month, and by a month from the old term or from today at most.
ExtensionsPaid ==
  [][\A s \in Servers : row'[s].expires > row[s].expires =>
       /\ charges'[s] = charges[s] + 1
       /\ row'[s].expires <= (IF row[s].expires > now THEN row[s].expires ELSE now) + Month]_vars

\* Double clicks, parallel sessions and later clicks never renew by hand twice in a month, but
\* for the way that is left: an older extra_data was written over the mark, by a nightly
\* reminder or by one of the handlers that do not lock the row.
OneManualRenewalAMonth ==
  [][\A s \in Servers : manual'[s].times > manual[s].times =>
       now >= manual[s].last + Month \/ s \in erased]_vars

\* A server is removed only when its owner was told of the suspension and had a day to pay, even
\* if it was suspended, lifted and suspended again while the run worked through its list.
DayBeforeRemoval ==
  [][\A w \in Workers, s \in Servers :
       CommitRun(w) /\ RemovedBy(w, s) => now >= told[s] + Day]_vars

\* A suspended server whose owner can pay is renewed in the end, without waiting for the night.
TopUpRenews ==
  \A s \in Servers :
    []<>(row[s].standing # "expired" \/ balance[Owner[s]] < Price \/ ~rate)

\* A server whose term is over is renewed or suspended in the end.
ExpiryHandled ==
  \A s \in Servers :
    []<>(row[s].standing # "active" \/ row[s].expires > now \/ ~rate)
=============================================================================
