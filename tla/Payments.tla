------------------------------- MODULE Payments -------------------------------
(***************************************************************************)
(* The two gateways that fill a wallet: NOWPayments (crypto invoices, told *)
(* by an IPN webhook and by a polling task) and Zarinpal (told by the      *)
(* payer's browser).  The webhook handlers (webhook_server.py), the        *)
(* polling task (tasks/crypto_polling.py) and the cancel button each work  *)
(* in a session of their own.  Rows are read without FOR UPDATE; an UPDATE *)
(* waits for the row lock and holds it until COMMIT.  The wallet is read   *)
(* in one step and its new, absolute, value is written in a later one.     *)
(*                                                                         *)
(* NOWPayments, Zarinpal and the payer are the environment: every          *)
(* notification they ever sent stays in the net, where it can be lost,     *)
(* late, repeated or overtaken.                                            *)
(***************************************************************************)
EXTENDS Integers, FiniteSets

CONSTANTS
  Crypto, Zarin,   \* invoices of NOWPayments, payment orders of Zarinpal
  Users, Payer,    \* the wallet an order fills
  Sessions,        \* sessions of the bot process: webhook requests and cancel buttons
  Poller,          \* the session of the polling task
  Reliable,        \* the invoices whose IPN is sent until it is taken
  Nobody, NoOrder,
  Amount, Charge, FirstBalance,
  MaxCredits, MaxCrashes     \* bounds on the exploration

Orders == Crypto \cup Zarin
Procs  == Sessions \cup {Poller}

ASSUME OrdersAssumption ==
  /\ Crypto \cap Zarin = {}
  /\ Payer \in [Orders -> Users]
  /\ Reliable \subseteq Crypto
  /\ NoOrder \notin Orders

ASSUME ProcsAssumption == Poller \notin Sessions /\ Nobody \notin Procs

ASSUME AmountsAssumption ==
  /\ Amount \in Nat \ {0} /\ Charge \in Nat \ {0} /\ FirstBalance \in Nat
  /\ MaxCredits \in Nat /\ MaxCrashes \in Nat

VARIABLES
  np,        \* the invoice at NOWPayments
  due,       \* the ten minutes of expires_at are over
  inTime,    \* the payer paid before that
  invoice,   \* crypto_payments rows: status, activated
  bank,      \* the payment at Zarinpal
  order,     \* payment_orders.status
  sent,      \* notifications and redirects sent so far
  balance,   \* users.balance
  sess,      \* what each session is doing
  todo, late,      \* the list the poller works off, and its expired part
  oLock, uLock,    \* row locks of orders and users
  crashes,
  credits,   \* credit transactions per order
  net        \* credits minus debits in the transactions of a user

gateways == <<np, due, inTime, bank, sent>>
tables   == <<invoice, order, balance>>
locks    == <<oLock, uLock>>
books    == <<credits, net>>
vars == <<gateways, tables, sess, todo, late, locks, crashes, books>>

\* _PENDING_STATUSES, of which NOWPayments reports these two here
Pending == {"waiting", "confirming"}

Idle == [pc |-> "idle", order |-> NoOrder, status |-> "none", saw |-> 0, seen |-> FALSE]

\* a session that has read the row of o and is about to write status st to it
Working(pc, o, st) ==
  [pc |-> pc, order |-> o, status |-> st, saw |-> 0, seen |-> credits[o] > 0]

Init ==
  /\ np = [c \in Crypto |-> "none"]
  /\ due = [c \in Crypto |-> FALSE]
  /\ inTime = [c \in Crypto |-> FALSE]
  /\ invoice = [c \in Crypto |-> [status |-> "absent", activated |-> FALSE]]
  /\ bank = [z \in Zarin |-> "none"]
  /\ order = [z \in Zarin |-> "absent"]
  /\ sent = {}
  /\ balance = [u \in Users |-> FirstBalance]
  /\ sess = [p \in Procs |-> Idle]
  /\ todo = {} /\ late = {}
  /\ oLock = [o \in Orders |-> Nobody]
  /\ uLock = [u \in Users |-> Nobody]
  /\ crashes = 0
  /\ credits = [o \in Orders |-> 0]
  /\ net = [u \in Users |-> 0]

OrderFree(p, o) == oLock[o] \in {Nobody, p}
UserFree(p, u)  == uLock[u] \in {Nobody, p}

\* COMMIT, ROLLBACK or a lost connection
Close(p) ==
  /\ sess' = [sess EXCEPT ![p] = Idle]
  /\ oLock' = [o \in Orders |-> IF oLock[o] = p THEN Nobody ELSE oLock[o]]
  /\ uLock' = [u \in Users |-> IF uLock[u] = p THEN Nobody ELSE uLock[u]]

Go(p, s) == sess' = [sess EXCEPT ![p] = s] /\ UNCHANGED locks

(***************************************************************************)
(* The payer, the gateways and the clock.                                  *)
(***************************************************************************)
\* cb_np_currency creates the invoice at NOWPayments and shows its address ...
CreateInvoice(c) ==
  /\ np[c] = "none"
  /\ np' = [np EXCEPT ![c] = "waiting"]
  /\ UNCHANGED <<due, inTime, bank, sent, tables, sess, todo, late, locks, crashes, books>>

\* ... and its row is committed after the handler; an exception before loses it
SaveInvoice(c) ==
  /\ np[c] # "none" /\ invoice[c].status = "absent"
  /\ invoice' = [invoice EXCEPT ![c].status = "waiting"]
  /\ UNCHANGED <<gateways, order, balance, sess, todo, late, locks, crashes, books>>

NpReports(c, st) ==
  /\ np' = [np EXCEPT ![c] = st]
  /\ sent' = sent \cup {<<c, st>>}
  /\ UNCHANGED <<due, bank, tables, sess, todo, late, locks, crashes, books>>

PayInvoice(c) == /\ np[c] = "waiting"
                 /\ inTime' = [inTime EXCEPT ![c] = ~due[c]]
                 /\ NpReports(c, "confirming")

FinishInvoice(c) == np[c] = "confirming" /\ NpReports(c, "finished") /\ UNCHANGED inTime

FailInvoice(c) == np[c] \in Pending /\ NpReports(c, "failed") /\ UNCHANGED inTime

TenMinutesPass(c) ==
  /\ np[c] # "none" /\ ~due[c]
  /\ due' = [due EXCEPT ![c] = TRUE]
  /\ UNCHANGED <<np, inTime, bank, sent, tables, sess, todo, late, locks, crashes, books>>

\* _checkout stores the order and sends the payer to Zarinpal
Checkout(z) ==
  /\ order[z] = "absent"
  /\ order' = [order EXCEPT ![z] = "pending"]
  /\ bank' = [bank EXCEPT ![z] = "open"]
  /\ UNCHANGED <<np, due, inTime, sent, invoice, balance, sess, todo, late, locks, crashes,
                 books>>

BankMoves(z, from, to, redirect) ==
  /\ bank[z] = from
  /\ bank' = [bank EXCEPT ![z] = to]
  /\ sent' = sent \cup redirect
  /\ UNCHANGED <<np, due, inTime, tables, sess, todo, late, locks, crashes, books>>

PayOrder(z) == BankMoves(z, "open", "paid", {<<z, "OK">>})

\* the payer turns back, which leaves the payment page open
TurnBack(z) == BankMoves(z, "open", "open", {<<z, "NOK">>}) /\ <<z, "NOK">> \notin sent

\* the bank returns money that nobody verified
Reverse(z) == BankMoves(z, "paid", "reversed", {})

(***************************************************************************)
(* NOWPayments: _handle_ipn, _do_poll and cb_np_cancel share these steps.  *)
(***************************************************************************)
\* mutant: invoices the payer cancelled are closed for good
AlreadyActivatedOrCancelled(c) == invoice[c].activated \/ invoice[c].status = "cancelled"

\* mutant: the flag is not looked at
NeverActivated(c) == FALSE

\* cp.activated is checked on the row as it is read
AlreadyActivated(c) == invoice[c].activated

ReadInvoice(p, c, st) ==
  Go(p, IF AlreadyActivated(c) \/ invoice[c].status = "absent"
          THEN Idle ELSE Working("update", c, st))

ReceiveIpn(p, c, st) ==
  /\ sess[p].pc = "idle" /\ <<c, st>> \in sent
  /\ ReadInvoice(p, c, st)
  /\ UNCHANGED <<gateways, tables, todo, late, crashes, books>>

Cancel(p, c) ==
  /\ sess[p].pc = "idle"
  /\ ~invoice[c].activated
  /\ invoice[c].status \notin {"absent", "finished", "expired", "cancelled"}
  /\ Go(p, Working("update", c, "cancelled"))
  /\ UNCHANGED <<gateways, tables, todo, late, crashes, books>>

\* mutant: a payment the network is still confirming is taken for paid
FinalOrConfirming(st) == st \in {"finished", "confirming"}

Final(st) == st = "finished"

\* mutant: the whole row is written back as it was read
WholeRow(c, st) == [status |-> st, activated |-> FALSE]

\* the ORM writes the columns that changed
WithStatus(c, st) == [invoice[c] EXCEPT !.status = st]

StoreStatus(p) ==
  LET c == sess[p].order
  IN /\ sess[p].pc = "update" /\ ~Final(sess[p].status)
     /\ OrderFree(p, c)
     /\ invoice' = [invoice EXCEPT ![c] = WithStatus(c, sess[p].status)]
     /\ Close(p)
     /\ UNCHANGED <<gateways, order, balance, todo, late, crashes, books>>

\* activate_crypto_payment: loading the user flushes the status, which locks the invoice
ReadWallet(p) ==
  LET c == sess[p].order
  IN /\ sess[p].pc = "update" /\ Final(sess[p].status)
     /\ OrderFree(p, c)
     /\ oLock' = [oLock EXCEPT ![c] = p]
     /\ sess' = [sess EXCEPT ![p].pc = "credit", ![p].saw = balance[Payer[c]]]
     /\ UNCHANGED <<gateways, tables, todo, late, uLock, crashes, books>>

\* the flush before the log message locks the wallet
LockWallet(p) ==
  LET u == Payer[sess[p].order]
  IN /\ sess[p].pc = "credit"
     /\ UserFree(p, u)
     /\ uLock' = [uLock EXCEPT ![u] = p]
     /\ sess' = [sess EXCEPT ![p].pc = "commit"]
     /\ UNCHANGED <<gateways, tables, todo, late, oLock, crashes, books>>

\* the transaction row and the new balance
Book(p) ==
  LET o == sess[p].order
      u == Payer[o]
  IN /\ balance' = [balance EXCEPT ![u] = sess[p].saw + Amount]
     /\ credits' = [credits EXCEPT ![o] = @ + 1]
     /\ net' = [net EXCEPT ![u] = @ + Amount]

Activated == [status |-> "finished", activated |-> TRUE]

CommitInvoice(p) ==
  LET c == sess[p].order
  IN /\ sess[p].pc = "commit" /\ c \in Crypto
     /\ invoice' = [invoice EXCEPT ![c] = Activated]
     /\ Book(p)
     /\ Close(p)
     /\ UNCHANGED <<gateways, order, todo, late, crashes>>

(***************************************************************************)
(* The polling task: a list, then one short session per invoice.           *)
(***************************************************************************)
Pollable(c) == ~invoice[c].activated /\ invoice[c].status \in Pending

PollList ==
  /\ sess[Poller].pc = "idle" /\ todo = {}
  /\ todo' = {c \in Crypto : Pollable(c)}
  /\ late' = {c \in todo' : due[c]}
  /\ todo' # {}
  /\ UNCHANGED <<gateways, tables, sess, locks, crashes, books>>

Listed(c) == todo' = todo \ {c} /\ late' = late \ {c}

\* expiry comes first, and NOWPayments is not asked
PollExpire(c) ==
  /\ sess[Poller].pc = "idle" /\ c \in todo \cap late
  /\ Listed(c)
  /\ Go(Poller, IF Pollable(c) THEN Working("update", c, "expired") ELSE Idle)
  /\ UNCHANGED <<gateways, tables, crashes, books>>

PollAsk(c) ==
  /\ sess[Poller].pc = "idle" /\ c \in todo \ late
  /\ Listed(c)
  /\ Go(Poller, [Idle EXCEPT !.pc = "asked", !.order = c, !.status = np[c]])
  /\ UNCHANGED <<gateways, tables, crashes, books>>

\* NOWPaymentsError
PollError(c) ==
  /\ sess[Poller].pc = "idle" /\ c \in todo \ late
  /\ Listed(c)
  /\ UNCHANGED <<gateways, tables, sess, locks, crashes, books>>

PollRead ==
  /\ sess[Poller].pc = "asked"
  /\ ReadInvoice(Poller, sess[Poller].order, sess[Poller].status)
  /\ UNCHANGED <<gateways, tables, todo, late, crashes, books>>

(***************************************************************************)
(* Zarinpal: _handle_zarinpal_callback.                                    *)
(***************************************************************************)
ReceiveCallback(p, z, st) ==
  /\ sess[p].pc = "idle" /\ <<z, st>> \in sent
  /\ order[z] # "paid"
  /\ credits[z] < MaxCredits
  /\ Go(p, Working(IF st = "OK" THEN "verify" ELSE "fail", z, "none"))
  /\ UNCHANGED <<gateways, tables, todo, late, crashes, books>>

FailOrder(p) ==
  LET z == sess[p].order
  IN /\ sess[p].pc = "fail"
     /\ OrderFree(p, z)
     /\ order' = [order EXCEPT ![z] = "failed"]
     /\ Close(p)
     /\ UNCHANGED <<gateways, invoice, balance, todo, late, crashes, books>>

\* code 100 the first time, 101 after that; the order is not read again
VerifyAccepted(p) ==
  LET z == sess[p].order
  IN /\ sess[p].pc = "verify" /\ bank[z] \in {"paid", "verified"}
     /\ bank' = [bank EXCEPT ![z] = "verified"]
     /\ Go(p, [sess[p] EXCEPT !.pc = "credit", !.saw = balance[Payer[z]]])
     /\ UNCHANGED <<np, due, inTime, sent, tables, todo, late, crashes, books>>

VerifyRefused(p) ==
  /\ sess[p].pc = "verify" /\ bank[sess[p].order] \notin {"paid", "verified"}
  /\ Go(p, [sess[p] EXCEPT !.pc = "fail"])
  /\ UNCHANGED <<gateways, tables, todo, late, crashes, books>>

\* the answer is lost: the payer is told that the payment is being looked into
VerifyError(p) ==
  LET z == sess[p].order
  IN /\ sess[p].pc = "verify"
     /\ \/ UNCHANGED bank
        \/ bank[z] = "paid" /\ bank' = [bank EXCEPT ![z] = "verified"]
     /\ Close(p)
     /\ UNCHANGED <<np, due, inTime, sent, tables, todo, late, crashes, books>>

CommitOrder(p) ==
  LET z == sess[p].order
  IN /\ sess[p].pc = "commit" /\ z \in Zarin
     /\ OrderFree(p, z)
     /\ order' = [order EXCEPT ![z] = "paid"]
     /\ Book(p)
     /\ Close(p)
     /\ UNCHANGED <<gateways, invoice, todo, late, crashes>>

(***************************************************************************)
(* The other writers of the wallet, and crashes.                           *)
(***************************************************************************)
Covered(u) == balance[u] >= Charge

\* BillingService.debit, whose transaction reads the balance under the row lock
Debit(u) ==
  /\ uLock[u] = Nobody
  /\ Covered(u)
  /\ balance' = [balance EXCEPT ![u] = @ - Charge]
  /\ net' = [net EXCEPT ![u] = @ - Charge]
  /\ UNCHANGED <<gateways, invoice, order, sess, todo, late, locks, crashes, credits>>

Crash(p) ==
  /\ sess[p].pc # "idle" /\ crashes < MaxCrashes
  /\ crashes' = crashes + 1
  /\ Close(p)
  /\ IF p = Poller THEN todo' = {} /\ late' = {} ELSE UNCHANGED <<todo, late>>
  /\ UNCHANGED <<gateways, tables, books>>

Environment ==
  \/ \E c \in Crypto : \/ CreateInvoice(c) \/ SaveInvoice(c) \/ PayInvoice(c)
                       \/ FinishInvoice(c) \/ FailInvoice(c) \/ TenMinutesPass(c)
  \/ \E z \in Zarin : Checkout(z) \/ PayOrder(z) \/ TurnBack(z) \/ Reverse(z)
  \/ \E u \in Users : Debit(u)

Notify(p) ==
  \/ \E c \in Crypto : Cancel(p, c) \/ \E st \in Pending \cup {"finished", "failed"} :
                                         ReceiveIpn(p, c, st)
  \/ \E z \in Zarin, st \in {"OK", "NOK"} : ReceiveCallback(p, z, st)

\* the steps of a session that has been given an order
Proceed(p) ==
  \/ StoreStatus(p) \/ ReadWallet(p) \/ LockWallet(p) \/ CommitInvoice(p)
  \/ VerifyAccepted(p) \/ VerifyRefused(p) \/ VerifyError(p)
  \/ FailOrder(p) \/ CommitOrder(p)

Poll == PollList \/ PollRead \/ \E c \in Crypto : PollExpire(c) \/ PollAsk(c) \/ PollError(c)

Next ==
  \/ Environment \/ Poll
  \/ \E p \in Sessions : Notify(p)
  \/ \E p \in Procs : Proceed(p) \/ Crash(p)

Spec == Init /\ [][Next]_vars

\* aiohttp and Celery run what they were handed, PostgreSQL grants a row lock in turn, beat
\* starts the polling task again and again, and NOWPayments answers it once in a while; an
\* IPN is sure to arrive only for the reliable invoices
Fairness ==
  /\ \A p \in Procs : SF_vars(Proceed(p))
  /\ WF_vars(PollList \/ PollRead \/ \E c \in Crypto : PollExpire(c))
  /\ \A c \in Crypto : SF_vars(PollAsk(c))
  /\ \A c \in Reliable : SF_vars(\E p \in Sessions : ReceiveIpn(p, c, "finished"))

FairSpec == Spec /\ Fairness

-----------------------------------------------------------------------------
(***************************************************************************)
(* Types.                                                                  *)
(***************************************************************************)
Reports  == {"waiting", "confirming", "finished", "failed"}
Statuses == Reports \cup {"none", "absent", "expired", "cancelled"}

SessionState ==
  [pc : {"idle", "asked", "update", "verify", "fail", "credit", "commit"},
   order : Orders \cup {NoOrder}, status : Statuses, saw : Nat, seen : BOOLEAN]

\* The type of every variable; a wallet never holds less than nothing.
TypeOK ==
  /\ np \in [Crypto -> Reports \cup {"none"}]
  /\ due \in [Crypto -> BOOLEAN] /\ inTime \in [Crypto -> BOOLEAN]
  /\ invoice \in [Crypto -> [status : Statuses, activated : BOOLEAN]]
  /\ bank \in [Zarin -> {"none", "open", "paid", "verified", "reversed"}]
  /\ order \in [Zarin -> {"absent", "pending", "paid", "failed"}]
  /\ sent \subseteq (Crypto \X Reports) \cup (Zarin \X {"OK", "NOK"})
  /\ balance \in [Users -> Nat]
  /\ sess \in [Procs -> SessionState]
  /\ todo \subseteq Crypto /\ late \subseteq Crypto
  /\ oLock \in [Orders -> Procs \cup {Nobody}]
  /\ uLock \in [Users -> Procs \cup {Nobody}]
  /\ crashes \in Nat
  /\ credits \in [Orders -> Nat]
  /\ net \in [Users -> Int]

(***************************************************************************)
(* Properties.                                                             *)
(***************************************************************************)
\* No message, however late, repeated or overtaken, credits a payment that its gateway has not
\* confirmed (status finished; verify answering 100 or 101).
OnlyConfirmedCredited ==
  /\ \A c \in Crypto : credits[c] > 0 => np[c] = "finished"
  /\ \A z \in Zarin : credits[z] > 0 => bank[z] = "verified"

\* The activated flag says whether the invoice was credited, also after a crash, a stale status
\* update or a cancellation that lost the race.
FlagMeansCredited == \A c \in Crypto : invoice[c].activated <=> credits[c] > 0

\* A notification that is handled after the invoice was credited (a repeated IPN, a poll after
\* the IPN) credits nothing.
ReplayCreditsNothing ==
  [][\A c \in Crypto : credits'[c] > credits[c] =>
       \E p \in Procs : sess[p].pc = "commit" /\ sess[p].order = c /\ ~sess[p].seen]_vars

\* An invoice paid within its ten minutes is credited once NOWPayments has finished it, even
\* when it was cancelled or expired in the meantime.
PaidInTimeCredited ==
  \A c \in Crypto :
    (np[c] = "finished" /\ inTime[c] /\ invoice[c].status # "absent") ~> invoice[c].activated

\* zarinpal_payment.py:117: after a successful payment the balance is charged automatically.
WalletKeepsCredits == \A u \in Users : balance[u] = FirstBalance + net[u]
=============================================================================
