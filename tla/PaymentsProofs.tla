----------------------------- MODULE PaymentsProofs -----------------------------
(***************************************************************************)
(* Theorems about Payments for every set of invoices, orders, wallets and  *)
(* sessions and every value of the constants.                              *)
(***************************************************************************)
EXTENDS Payments, TLAPS

(***************************************************************************)
(* The inductive invariant.  A "finished" that is under way, in the net or *)
(* in a session, is one that NOWPayments has reported, and a session that  *)
(* is about to credit an invoice has read its row before any credit.       *)
(***************************************************************************)
Reported == \A c \in Crypto : <<c, "finished">> \in sent => np[c] = "finished"

\* an order is paid only after it was stored
Unopened == \A z \in Zarin : order[z] = "absent" => bank[z] = "none"

\* which steps of a session belong to which gateway
OnOrder(p) ==
  /\ sess[p].pc # "idle" => sess[p].order \in Orders
  /\ sess[p].pc \in {"asked", "update"} => sess[p].order \in Crypto
  /\ sess[p].pc \in {"verify", "fail"} => sess[p].order \in Zarin

\* what a session is about to write is what the gateway says
Confirmed(p) ==
  /\ sess[p].order \in Crypto /\ sess[p].status = "finished" => np[sess[p].order] = "finished"
  /\ sess[p].pc \in {"credit", "commit"} =>
       /\ sess[p].order \in Crypto => sess[p].status = "finished"
       /\ sess[p].order \in Zarin => bank[sess[p].order] = "verified"

ReadBeforeCredit(p) ==
  sess[p].pc \in {"update", "credit", "commit"} /\ sess[p].order \in Crypto => ~sess[p].seen

SessionInv(p) == OnOrder(p) /\ Confirmed(p) /\ ReadBeforeCredit(p)

IInv ==
  /\ TypeOK
  /\ Reported /\ Unopened
  /\ \A p \in Procs : SessionInv(p)
  /\ OnlyConfirmedCredited
  /\ FlagMeansCredited

(***************************************************************************)
(* Lemmas about the session records.                                       *)
(***************************************************************************)
LEMMA IdleType == Idle \in SessionState
  BY DEF Idle, SessionState, Statuses

LEMMA WorkingFields ==
  ASSUME NEW pc, NEW o, NEW st
  PROVE  /\ Working(pc, o, st).pc = pc /\ Working(pc, o, st).order = o
         /\ Working(pc, o, st).status = st
  BY Zenon DEF Working

LEMMA WorkingType ==
  ASSUME TypeOK, NEW pc \in {"update", "verify", "fail"}, NEW o \in Orders, NEW st \in Statuses
  PROVE  Working(pc, o, st) \in SessionState
<1>1. ASSUME NEW b \in BOOLEAN
      PROVE  [pc |-> pc, order |-> o, status |-> st, saw |-> 0, seen |-> b] \in SessionState
  BY DEF SessionState
<1>2. (credits[o] > 0) \in BOOLEAN
  OBVIOUS
<1> QED BY <1>1, <1>2, Zenon DEF Working

LEMMA CloseTypes ==
  ASSUME TypeOK, NEW p \in Procs, Close(p)
  PROVE  /\ sess' \in [Procs -> SessionState]
         /\ oLock' \in [Orders -> Procs \cup {Nobody}]
         /\ uLock' \in [Users -> Procs \cup {Nobody}]
         /\ sess'[p] = Idle
         /\ \A q \in Procs : q # p => sess'[q] = sess[q]
  BY IdleType DEF TypeOK, Close

LEMMA GoTypes ==
  ASSUME TypeOK, NEW p \in Procs, NEW s \in SessionState, Go(p, s)
  PROVE  /\ sess' \in [Procs -> SessionState]
         /\ oLock' \in [Orders -> Procs \cup {Nobody}]
         /\ uLock' \in [Users -> Procs \cup {Nobody}]
         /\ sess'[p] = s
         /\ \A q \in Procs : q # p => sess'[q] = sess[q]
  BY DEF TypeOK, Go, locks

(***************************************************************************)
(* Frames.                                                                 *)
(***************************************************************************)
\* The gateways take back nothing that they have confirmed.
Forward ==
  /\ \A c \in Crypto : np[c] = "finished" => np'[c] = "finished"
  /\ \A z \in Zarin : bank[z] = "verified" => bank'[z] = "verified"

LEMMA NothingCredited ==
  ASSUME IInv, Forward, UNCHANGED credits,
         \A c \in Crypto : invoice'[c].activated = invoice[c].activated
  PROVE  OnlyConfirmedCredited' /\ FlagMeansCredited'
BY DEF IInv, OnlyConfirmedCredited, FlagMeansCredited, Forward

\* A step of the environment keeps the invariant when the gateways move forward.
LEMMA EnvironmentFrame ==
  ASSUME IInv, TypeOK', Forward, Reported', Unopened', UNCHANGED <<sess, credits>>,
         \A c \in Crypto : invoice'[c].activated = invoice[c].activated
  PROVE  IInv'
<1>1. \A p \in Procs : SessionInv(p)'
  BY DEF IInv, SessionInv, OnOrder, Confirmed, ReadBeforeCredit, Forward
<1> QED BY <1>1, NothingCredited DEF IInv

\* A step of one session has only that session, and what it credits, to answer for.
LEMMA SessionFrame ==
  ASSUME IInv, TypeOK', Forward, Unopened', UNCHANGED <<np, sent>>,
         OnlyConfirmedCredited', FlagMeansCredited',
         NEW p \in Procs, \A q \in Procs : q # p => sess'[q] = sess[q],
         SessionInv(p)'
  PROVE  IInv'
<1>1. \A q \in Procs : SessionInv(q)'
  <2> SUFFICES ASSUME NEW q \in Procs, q # p PROVE SessionInv(q)'
    OBVIOUS
  <2>1. sess'[q] = sess[q] /\ SessionInv(q)
    BY DEF IInv
  <2> QED BY <2>1 DEF SessionInv, OnOrder, Confirmed, ReadBeforeCredit, Forward
<1>2. Reported'
  BY DEF IInv, Reported
<1> QED BY <1>1, <1>2 DEF IInv

LEMMA IdleIsHarmless ==
  ASSUME TypeOK, NEW p \in Procs, sess'[p] = Idle
  PROVE  SessionInv(p)'
<1>1. NoOrder \notin Crypto /\ NoOrder \notin Zarin
  BY OrdersAssumption DEF Orders
<1> QED BY <1>1 DEF SessionInv, OnOrder, Confirmed, ReadBeforeCredit, Idle

(***************************************************************************)
(* The environment.                                                        *)
(***************************************************************************)
LEMMA EnvironmentStep == IInv /\ Environment => IInv'
<1> SUFFICES ASSUME IInv, Environment PROVE IInv'
  OBVIOUS
<1>0. TypeOK /\ Reported /\ Unopened
  BY DEF IInv
<1>1. ASSUME NEW c \in Crypto, CreateInvoice(c) PROVE IInv'
  <2>1. TypeOK'
    BY <1>0, <1>1 DEF CreateInvoice, TypeOK, Reports, tables, locks, books
  <2>2. Forward /\ Reported' /\ Unopened'
    BY <1>0, <1>1 DEF CreateInvoice, Forward, Reported, Unopened, TypeOK, tables
  <2> QED BY <1>1, <2>1, <2>2, EnvironmentFrame DEF CreateInvoice, tables, books
<1>2. ASSUME NEW c \in Crypto, SaveInvoice(c) PROVE IInv'
  <2>1. TypeOK'
    BY <1>0, <1>2 DEF SaveInvoice, TypeOK, Reports, Statuses, gateways, locks, books
  <2>2. \A d \in Crypto : invoice'[d].activated = invoice[d].activated
    BY <1>0, <1>2 DEF SaveInvoice, TypeOK
  <2>3. Forward /\ Reported' /\ Unopened'
    BY <1>0, <1>2 DEF SaveInvoice, Forward, Reported, Unopened, gateways
  <2> QED BY <1>2, <2>1, <2>2, <2>3, EnvironmentFrame DEF SaveInvoice, books
<1>3. ASSUME NEW c \in Crypto, NEW st \in Reports, NpReports(c, st), np[c] # "finished",
             inTime' \in [Crypto -> BOOLEAN]
      PROVE  IInv'
  <2>1. TypeOK'
    BY <1>0, <1>3 DEF NpReports, TypeOK, tables, locks, books
  <2>2. Forward
    BY <1>0, <1>3 DEF NpReports, Forward, TypeOK
  <2>3. Reported' /\ Unopened'
    BY <1>0, <1>3 DEF NpReports, Reported, Unopened, TypeOK, tables
  <2> QED BY <1>3, <2>1, <2>2, <2>3, EnvironmentFrame DEF NpReports, tables, books
<1>4. ASSUME NEW c \in Crypto, PayInvoice(c) \/ FinishInvoice(c) \/ FailInvoice(c) PROVE IInv'
  <2>1. inTime' \in [Crypto -> BOOLEAN]
    BY <1>0, <1>4 DEF PayInvoice, FinishInvoice, FailInvoice, TypeOK
  <2>2. PICK st \in Reports : NpReports(c, st)
    BY <1>4 DEF PayInvoice, FinishInvoice, FailInvoice, Reports
  <2>3. np[c] # "finished"
    BY <1>4 DEF PayInvoice, FinishInvoice, FailInvoice, Pending
  <2> QED BY <2>1, <2>2, <2>3, <1>3
<1>5. ASSUME NEW c \in Crypto, TenMinutesPass(c) PROVE IInv'
  <2>1. TypeOK'
    BY <1>0, <1>5 DEF TenMinutesPass, TypeOK, tables, locks, books
  <2>2. Forward /\ Reported' /\ Unopened'
    BY <1>0, <1>5 DEF TenMinutesPass, Forward, Reported, Unopened, tables
  <2> QED BY <1>5, <2>1, <2>2, EnvironmentFrame DEF TenMinutesPass, tables, books
<1>6. ASSUME NEW z \in Zarin, Checkout(z) PROVE IInv'
  <2>1. TypeOK'
    BY <1>0, <1>6 DEF Checkout, TypeOK, locks, books
  <2>2. bank[z] = "none"
    BY <1>0, <1>6 DEF Checkout, Unopened
  <2>3. Forward /\ Reported' /\ Unopened'
    BY <1>0, <1>6, <2>2 DEF Checkout, Forward, Reported, Unopened, TypeOK
  <2> QED BY <1>6, <2>1, <2>3, EnvironmentFrame DEF Checkout, books
<1>7. ASSUME NEW z \in Zarin, NEW from \in {"open", "paid"},
             NEW to \in {"open", "paid", "reversed"},
             NEW redirect \in SUBSET {<<z, "OK">>, <<z, "NOK">>},
             BankMoves(z, from, to, redirect)
      PROVE  IInv'
  <2>1. TypeOK'
    BY <1>0, <1>7 DEF BankMoves, TypeOK, tables, locks, books
  <2>2. Forward
    BY <1>0, <1>7 DEF BankMoves, Forward, TypeOK
  <2>3. Reported' /\ Unopened'
    BY <1>0, <1>7 DEF BankMoves, Reported, Unopened, TypeOK, tables
  <2> QED BY <1>7, <2>1, <2>2, <2>3, EnvironmentFrame DEF BankMoves, tables, books
<1>8. ASSUME NEW z \in Zarin, PayOrder(z) \/ TurnBack(z) \/ Reverse(z) PROVE IInv'
  BY <1>7, <1>8 DEF PayOrder, TurnBack, Reverse
<1>9. ASSUME NEW u \in Users, Debit(u) PROVE IInv'
  <2>1. TypeOK'
    BY <1>0, <1>9, AmountsAssumption
    DEF Debit, Covered, TypeOK, gateways, locks
  <2>2. Forward /\ Reported' /\ Unopened'
    BY <1>0, <1>9 DEF Debit, Forward, Reported, Unopened, gateways
  <2> QED BY <1>9, <2>1, <2>2, EnvironmentFrame DEF Debit
<1> QED BY <1>1, <1>2, <1>4, <1>5, <1>6, <1>8, <1>9 DEF Environment

(***************************************************************************)
(* The steps that read: a notification, a button, the poll.                *)
(***************************************************************************)
\* A session that turns to s credits nothing.
LEMMA GoStep ==
  ASSUME IInv, NEW p \in Procs, NEW s \in SessionState, Go(p, s),
         UNCHANGED <<np, due, inTime, sent, tables, books>>,
         bank' \in [Zarin -> {"none", "open", "paid", "verified", "reversed"}],
         \A z \in Zarin : bank[z] \in {"none", "verified"} => bank'[z] = bank[z],
         todo' \subseteq Crypto, late' \subseteq Crypto, crashes' \in Nat,
         SessionInv(p)'
  PROVE  IInv'
<1>0. TypeOK /\ Unopened
  BY DEF IInv
<1>1. TypeOK'
  BY <1>0, GoTypes DEF TypeOK, tables, books
<1>2. Forward /\ Unopened'
  BY <1>0 DEF Forward, Unopened, TypeOK, tables
<1>3. \A q \in Procs : q # p => sess'[q] = sess[q]
  BY <1>0, GoTypes
<1>4. OnlyConfirmedCredited' /\ FlagMeansCredited'
  BY <1>2, NothingCredited DEF tables, books
<1> QED BY <1>1, <1>2, <1>3, <1>4, SessionFrame

\* A row read before its credit may be written with any status that is true.
LEMMA WorkingIsSafe ==
  ASSUME IInv, NEW p \in Procs, NEW c \in Crypto, NEW st \in Statuses,
         ~invoice[c].activated,
         st = "finished" => np[c] = "finished",
         sess'[p] = Working("update", c, st), UNCHANGED np
  PROVE  SessionInv(p)'
<1>1. ~(credits[c] > 0)
  BY DEF IInv, FlagMeansCredited
<1>2. sess'[p].pc = "update" /\ sess'[p].order = c /\ sess'[p].status = st
  BY WorkingFields
<1>3. c \in Orders
  BY DEF Orders
<1>4. ~sess'[p].seen
  <2>1. ~Working("update", c, st).seen
    BY <1>1, Zenon DEF Working
  <2> QED BY <2>1
<1> QED BY <1>2, <1>3, <1>4 DEF SessionInv, OnOrder, Confirmed, ReadBeforeCredit

LEMMA ReadStep ==
  ASSUME IInv, NEW p \in Procs, NEW c \in Crypto, NEW st \in Statuses,
         ReadInvoice(p, c, st) \/ (Go(p, Working("update", c, st)) /\ ~invoice[c].activated),
         st = "finished" => np[c] = "finished",
         UNCHANGED <<gateways, tables, books>>,
         todo' \subseteq Crypto, late' \subseteq Crypto, crashes' \in Nat
  PROVE  IInv'
<1>0. TypeOK /\ c \in Orders /\ \A z \in Zarin : bank' = bank
  BY DEF IInv, Orders, gateways
<1>1. UNCHANGED <<np, due, inTime, sent>> /\ bank' = bank
  BY DEF gateways
<1>2. bank' \in [Zarin -> {"none", "open", "paid", "verified", "reversed"}]
  BY <1>0, <1>1 DEF TypeOK
<1>3. CASE Go(p, Idle)
  <2>1. SessionInv(p)'
    BY <1>0, <1>3, IdleType, GoTypes, IdleIsHarmless
  <2> QED BY <1>1, <1>2, <1>3, <2>1, IdleType, GoStep
<1>4. CASE Go(p, Working("update", c, st)) /\ ~invoice[c].activated
  <2>1. Working("update", c, st) \in SessionState
    BY <1>0, WorkingType
  <2>2. sess'[p] = Working("update", c, st)
    BY <1>0, <1>4, <2>1, GoTypes
  <2>3. SessionInv(p)'
    BY <1>1, <1>4, <2>2, WorkingIsSafe
  <2> QED BY <1>1, <1>2, <1>4, <2>1, <2>3, GoStep
<1> QED BY <1>3, <1>4 DEF ReadInvoice, AlreadyActivated

LEMMA NotifyStep == ASSUME NEW p \in Sessions PROVE IInv /\ Notify(p) => IInv'
<1> SUFFICES ASSUME IInv, Notify(p) PROVE IInv'
  OBVIOUS
<1>0. TypeOK /\ Reported /\ p \in Procs
  BY DEF IInv, Procs
<1>1. todo \subseteq Crypto /\ late \subseteq Crypto /\ crashes \in Nat
  BY <1>0 DEF TypeOK
<1>2. ASSUME NEW c \in Crypto, Cancel(p, c) PROVE IInv'
  <2>1. "cancelled" \in Statuses
    BY DEF Statuses
  <2> QED BY <1>0, <1>1, <1>2, <2>1, ReadStep DEF Cancel
<1>3. ASSUME NEW c \in Crypto, NEW st \in Pending \cup {"finished", "failed"},
             ReceiveIpn(p, c, st)
      PROVE  IInv'
  <2>1. st \in Statuses
    BY DEF Statuses, Reports, Pending
  <2>2. st = "finished" => np[c] = "finished"
    BY <1>0, <1>3 DEF ReceiveIpn, Reported
  <2> QED BY <1>0, <1>1, <1>3, <2>1, <2>2, ReadStep DEF ReceiveIpn
<1>4. ASSUME NEW z \in Zarin, NEW st \in {"OK", "NOK"}, ReceiveCallback(p, z, st) PROVE IInv'
  <2> DEFINE pc == IF st = "OK" THEN "verify" ELSE "fail"
             s  == Working(pc, z, "none")
  <2>1. z \in Orders /\ z \notin Crypto
    BY OrdersAssumption DEF Orders
  <2>2. pc \in {"verify", "fail"} /\ "none" \in Statuses
    BY DEF Statuses
  <2>3. s \in SessionState
    BY <1>0, <2>1, <2>2, WorkingType
  <2>4. Go(p, s)
    BY <1>4 DEF ReceiveCallback
  <2>5. sess'[p] = s
    BY <1>0, <2>3, <2>4, GoTypes
  <2>6. s.pc = pc /\ s.order = z
    BY WorkingFields
  <2>7. SessionInv(p)'
    <3> HIDE DEF pc, s
    <3> QED BY <2>1, <2>2, <2>5, <2>6 DEF SessionInv, OnOrder, Confirmed, ReadBeforeCredit
  <2>8. UNCHANGED <<np, due, inTime, sent, bank, tables, books>> /\ UNCHANGED <<todo, late, crashes>>
    BY <1>4 DEF ReceiveCallback, gateways
  <2>9. bank' \in [Zarin -> {"none", "open", "paid", "verified", "reversed"}]
    BY <1>0, <2>8 DEF TypeOK
  <2> HIDE DEF pc, s
  <2> QED BY <1>0, <1>1, <2>3, <2>4, <2>7, <2>8, <2>9, GoStep
<1> QED BY <1>2, <1>3, <1>4 DEF Notify

LEMMA PollStep == IInv /\ Poll => IInv'
<1> SUFFICES ASSUME IInv, Poll PROVE IInv'
  OBVIOUS
<1>0. TypeOK /\ Poller \in Procs /\ SessionInv(Poller)
  BY DEF IInv, Procs
<1>1. todo \subseteq Crypto /\ late \subseteq Crypto /\ crashes \in Nat
  BY <1>0 DEF TypeOK
<1>2. ASSUME UNCHANGED <<gateways, tables, sess, locks, crashes, books>>,
             todo' \subseteq Crypto, late' \subseteq Crypto
      PROVE  IInv'
  <2>1. TypeOK'
    BY <1>0, <1>2 DEF TypeOK, gateways, tables, locks, books
  <2>2. Forward /\ Reported' /\ Unopened'
    BY <1>2 DEF IInv, Forward, Reported, Unopened, gateways, tables
  <2> QED BY <1>2, <2>1, <2>2, EnvironmentFrame DEF tables, books
<1>3. CASE PollList
  BY <1>2, <1>3 DEF PollList
<1>4. CASE PollRead
  <2> DEFINE c == sess[Poller].order
             st == sess[Poller].status
  <2>1. c \in Crypto
    BY <1>0, <1>4 DEF PollRead, SessionInv, OnOrder
  <2>2. st \in Statuses
    BY <1>0 DEF TypeOK, SessionState
  <2>3. st = "finished" => np[c] = "finished"
    BY <1>0, <2>1 DEF SessionInv, Confirmed
  <2> QED BY <1>0, <1>1, <1>4, <2>1, <2>2, <2>3, ReadStep DEF PollRead
<1>5. ASSUME NEW c \in Crypto, PollExpire(c) PROVE IInv'
  <2>1. "expired" \in Statuses
    BY DEF Statuses
  <2>2. todo' \subseteq Crypto /\ late' \subseteq Crypto /\ crashes' \in Nat
    BY <1>1, <1>5 DEF PollExpire, Listed
  <2>3. CASE Pollable(c)
    <3>1. Go(Poller, Working("update", c, "expired")) /\ ~invoice[c].activated
      BY <1>5, <2>3 DEF PollExpire, Pollable
    <3> QED BY <1>0, <1>5, <2>1, <2>2, <3>1, ReadStep DEF PollExpire
  <2>4. CASE ~Pollable(c)
    <3>1. Go(Poller, Idle)
      BY <1>5, <2>4 DEF PollExpire
    <3>2. SessionInv(Poller)'
      BY <1>0, <3>1, IdleType, GoTypes, IdleIsHarmless
    <3>3. UNCHANGED <<np, due, inTime, sent, bank, tables, books>>
      BY <1>5 DEF PollExpire, gateways
    <3>4. bank' \in [Zarin -> {"none", "open", "paid", "verified", "reversed"}]
      BY <1>0, <3>3 DEF TypeOK
    <3> QED BY <1>0, <2>2, <3>1, <3>2, <3>3, <3>4, IdleType, GoStep
  <2> QED BY <2>3, <2>4
<1>6. ASSUME NEW c \in Crypto, PollAsk(c) PROVE IInv'
  <2> DEFINE s == [Idle EXCEPT !.pc = "asked", !.order = c, !.status = np[c]]
  <2>1. s \in SessionState /\ s.pc = "asked" /\ s.order = c /\ s.status = np[c]
    BY <1>0 DEF Idle, SessionState, Statuses, Orders, TypeOK
  <2>2. Go(Poller, s)
    BY <1>6 DEF PollAsk
  <2>3. sess'[Poller] = s
    BY <1>0, <2>1, <2>2, GoTypes
  <2>4. UNCHANGED <<np, due, inTime, sent, bank, tables, books, crashes>>
    BY <1>6 DEF PollAsk, gateways
  <2>5. SessionInv(Poller)'
    <3>1. c \in Orders /\ c \notin Zarin
      BY OrdersAssumption DEF Orders
    <3> HIDE DEF s
    <3> QED BY <2>1, <2>3, <2>4, <3>1 DEF SessionInv, OnOrder, Confirmed, ReadBeforeCredit
  <2>6. todo' \subseteq Crypto /\ late' \subseteq Crypto
    BY <1>1, <1>6 DEF PollAsk, Listed
  <2>7. bank' \in [Zarin -> {"none", "open", "paid", "verified", "reversed"}] /\ crashes' \in Nat
    BY <1>0, <1>1, <2>4 DEF TypeOK
  <2> HIDE DEF s
  <2> QED BY <1>0, <2>1, <2>2, <2>4, <2>5, <2>6, <2>7, GoStep
<1>7. ASSUME NEW c \in Crypto, PollError(c) PROVE IInv'
  BY <1>1, <1>2, <1>7 DEF PollError, Listed
<1> QED BY <1>3, <1>4, <1>5, <1>6, <1>7 DEF Poll

(***************************************************************************)
(* The steps that write.                                                   *)
(***************************************************************************)
\* A session that ends without a credit, however it ends.
LEMMA CloseStep ==
  ASSUME IInv, NEW p \in Procs, Close(p),
         UNCHANGED <<np, due, inTime, sent, balance, books>>,
         bank' \in [Zarin -> {"none", "open", "paid", "verified", "reversed"}],
         order' \in [Zarin -> {"absent", "pending", "paid", "failed"}],
         \A z \in Zarin : bank[z] \in {"none", "verified"} => bank'[z] = bank[z],
         \A z \in Zarin : order'[z] = "absent" => order[z] = "absent",
         invoice' \in [Crypto -> [status : Statuses, activated : BOOLEAN]],
         \A c \in Crypto : invoice'[c].activated = invoice[c].activated,
         todo' \subseteq Crypto, late' \subseteq Crypto, crashes' \in Nat
  PROVE  IInv'
<1>0. TypeOK /\ Unopened
  BY DEF IInv
<1>1. TypeOK'
  BY <1>0, CloseTypes DEF TypeOK, books
<1>2. Forward /\ Unopened'
  BY <1>0 DEF Forward, Unopened, TypeOK
<1>3. SessionInv(p)' /\ \A q \in Procs : q # p => sess'[q] = sess[q]
  BY <1>0, CloseTypes, IdleIsHarmless
<1>4. OnlyConfirmedCredited' /\ FlagMeansCredited'
  BY <1>2, NothingCredited DEF books
<1> QED BY <1>1, <1>2, <1>3, <1>4, SessionFrame

\* What Book writes.
LEMMA BookTypes ==
  ASSUME TypeOK, NEW p \in Procs, sess[p].order \in Orders, Book(p)
  PROVE  /\ balance' \in [Users -> Nat] /\ credits' \in [Orders -> Nat]
         /\ net' \in [Users -> Int]
         /\ credits'[sess[p].order] > 0
         /\ \A o \in Orders : o # sess[p].order => credits'[o] = credits[o]
<1>1. Payer[sess[p].order] \in Users
  BY OrdersAssumption
<1>2. sess[p].saw \in Nat
  BY DEF TypeOK, SessionState
<1> QED BY <1>1, <1>2, AmountsAssumption DEF Book, TypeOK

LEMMA ProceedStep == ASSUME NEW p \in Procs PROVE IInv /\ Proceed(p) => IInv'
<1> SUFFICES ASSUME IInv, Proceed(p) PROVE IInv'
  OBVIOUS
<1> DEFINE o == sess[p].order
           st == sess[p].status
<1>0. TypeOK /\ SessionInv(p) /\ Unopened
  BY DEF IInv
<1>1. /\ todo \subseteq Crypto /\ late \subseteq Crypto /\ crashes \in Nat
      /\ sess[p] \in SessionState /\ st \in Statuses
      /\ bank \in [Zarin -> {"none", "open", "paid", "verified", "reversed"}]
      /\ order \in [Zarin -> {"absent", "pending", "paid", "failed"}]
      /\ invoice \in [Crypto -> [status : Statuses, activated : BOOLEAN]]
  BY <1>0 DEF TypeOK, SessionState
<1>2. Crypto \cap Zarin = {} /\ Crypto \subseteq Orders /\ Zarin \subseteq Orders
  BY OrdersAssumption DEF Orders
<1>3. CASE StoreStatus(p)
  <2>1. o \in Crypto
    BY <1>0, <1>3 DEF StoreStatus, SessionInv, OnOrder
  <2>2. /\ invoice' \in [Crypto -> [status : Statuses, activated : BOOLEAN]]
        /\ \A c \in Crypto : invoice'[c].activated = invoice[c].activated
    BY <1>1, <1>3, <2>1 DEF StoreStatus, WithStatus
  <2> QED BY <1>1, <1>3, <2>2, CloseStep DEF StoreStatus, gateways
<1>4. CASE ReadWallet(p)
  <2>1. o \in Crypto /\ o \in Orders /\ o \notin Zarin
    BY <1>0, <1>2, <1>4 DEF ReadWallet, SessionInv, OnOrder
  <2>2. balance[Payer[o]] \in Nat
    BY <1>0, <2>1, OrdersAssumption DEF TypeOK
  <2>3. /\ sess' \in [Procs -> SessionState]
        /\ sess'[p].pc = "credit" /\ sess'[p].order = o /\ sess'[p].status = st
        /\ sess'[p].seen = sess[p].seen
        /\ \A q \in Procs : q # p => sess'[q] = sess[q]
    BY <1>0, <1>1, <1>4, <2>2 DEF ReadWallet, TypeOK, SessionState
  <2>4. TypeOK'
    BY <1>0, <1>4, <2>1, <2>3 DEF ReadWallet, TypeOK, gateways, tables, books
  <2>5. st = "finished"
    BY <1>4 DEF ReadWallet, Final
  <2>6. SessionInv(p)'
    <3>1. sess[p].pc = "update"
      BY <1>4 DEF ReadWallet
    <3>2. UNCHANGED <<np, bank>>
      BY <1>4 DEF ReadWallet, gateways
    <3> QED BY <1>0, <2>1, <2>3, <2>5, <3>1, <3>2
            DEF SessionInv, OnOrder, Confirmed, ReadBeforeCredit
  <2>7. Forward /\ Unopened'
    BY <1>0, <1>4 DEF ReadWallet, Forward, Unopened, gateways, tables
  <2>8. OnlyConfirmedCredited' /\ FlagMeansCredited'
    BY <1>4, <2>7, NothingCredited DEF ReadWallet, tables, books
  <2> QED BY <1>4, <2>3, <2>4, <2>6, <2>7, <2>8, SessionFrame DEF ReadWallet, gateways
<1>5. CASE LockWallet(p)
  <2>1. o \in Orders
    BY <1>0, <1>5 DEF LockWallet, SessionInv, OnOrder
  <2>2. Payer[o] \in Users
    BY <2>1, OrdersAssumption
  <2>3. /\ sess' \in [Procs -> SessionState]
        /\ sess'[p].pc = "commit" /\ sess'[p].order = o /\ sess'[p].status = st
        /\ sess'[p].seen = sess[p].seen
        /\ \A q \in Procs : q # p => sess'[q] = sess[q]
    BY <1>0, <1>1, <1>5 DEF LockWallet, TypeOK, SessionState
  <2>4. TypeOK'
    BY <1>0, <1>5, <2>2, <2>3 DEF LockWallet, TypeOK, gateways, tables, books
  <2>5. SessionInv(p)'
    <3>1. sess[p].pc = "credit"
      BY <1>5 DEF LockWallet
    <3>2. UNCHANGED <<np, bank>>
      BY <1>5 DEF LockWallet, gateways
    <3> QED BY <1>0, <2>1, <2>3, <3>1, <3>2
            DEF SessionInv, OnOrder, Confirmed, ReadBeforeCredit
  <2>6. Forward /\ Unopened'
    BY <1>0, <1>5 DEF LockWallet, Forward, Unopened, gateways, tables
  <2>7. OnlyConfirmedCredited' /\ FlagMeansCredited'
    BY <1>5, <2>6, NothingCredited DEF LockWallet, tables, books
  <2> QED BY <1>5, <2>3, <2>4, <2>5, <2>6, <2>7, SessionFrame DEF LockWallet, gateways
<1>6. CASE CommitInvoice(p)
  <2>1. o \in Crypto /\ o \in Orders /\ np[o] = "finished"
    BY <1>0, <1>2, <1>6 DEF CommitInvoice, SessionInv, Confirmed
  <2>2. /\ invoice' \in [Crypto -> [status : Statuses, activated : BOOLEAN]]
        /\ invoice'[o].activated
        /\ \A c \in Crypto : c # o => invoice'[c] = invoice[c]
    BY <1>1, <1>6, <2>1 DEF CommitInvoice, Activated, Statuses, Reports
  <2>3. TypeOK'
    BY <1>0, <1>6, <2>1, <2>2, BookTypes, CloseTypes DEF CommitInvoice, TypeOK, gateways
  <2>4. SessionInv(p)' /\ \A q \in Procs : q # p => sess'[q] = sess[q]
    BY <1>0, <1>6, CloseTypes, IdleIsHarmless DEF CommitInvoice
  <2>5. Forward /\ Unopened'
    BY <1>0, <1>6 DEF CommitInvoice, Forward, Unopened, gateways
  <2>6. OnlyConfirmedCredited'
    BY <1>0, <1>2, <1>6, <2>1, <2>5, BookTypes
    DEF CommitInvoice, IInv, OnlyConfirmedCredited, Forward, gateways
  <2>7. FlagMeansCredited'
    BY <1>0, <1>2, <1>6, <2>1, <2>2, BookTypes DEF CommitInvoice, IInv, FlagMeansCredited
  <2> QED BY <1>6, <2>3, <2>4, <2>5, <2>6, <2>7, SessionFrame DEF CommitInvoice, gateways
<1>7. CASE VerifyAccepted(p)
  <2>1. o \in Zarin /\ o \in Orders /\ o \notin Crypto
    BY <1>0, <1>2, <1>7 DEF VerifyAccepted, SessionInv, OnOrder
  <2>2. balance[Payer[o]] \in Nat
    BY <1>0, <2>1, OrdersAssumption DEF TypeOK
  <2> DEFINE s == [sess[p] EXCEPT !.pc = "credit", !.saw = balance[Payer[o]]]
  <2>3. s \in SessionState /\ s.pc = "credit" /\ s.order = o
    BY <1>1, <2>2 DEF SessionState
  <2>4. Go(p, s)
    BY <1>7 DEF VerifyAccepted
  <2>5. sess'[p] = s
    BY <1>0, <2>3, <2>4, GoTypes
  <2>6. /\ bank'[o] = "verified"
        /\ bank' \in [Zarin -> {"none", "open", "paid", "verified", "reversed"}]
        /\ \A z \in Zarin : bank[z] \in {"none", "verified"} => bank'[z] = bank[z]
    BY <1>1, <1>7, <2>1 DEF VerifyAccepted
  <2>7. SessionInv(p)'
    <3> HIDE DEF s
    <3> QED BY <2>1, <2>3, <2>5, <2>6 DEF SessionInv, OnOrder, Confirmed, ReadBeforeCredit
  <2>8. UNCHANGED <<np, due, inTime, sent, tables, books>> /\ UNCHANGED <<todo, late, crashes>>
    BY <1>7 DEF VerifyAccepted
  <2> HIDE DEF s
  <2> QED BY <1>1, <2>3, <2>4, <2>6, <2>7, <2>8, GoStep
<1>8. CASE VerifyRefused(p)
  <2> DEFINE s == [sess[p] EXCEPT !.pc = "fail"]
  <2>1. o \in Zarin /\ o \in Orders /\ o \notin Crypto
    BY <1>0, <1>2, <1>8 DEF VerifyRefused, SessionInv, OnOrder
  <2>2. s \in SessionState /\ s.pc = "fail" /\ s.order = o
    BY <1>1 DEF SessionState
  <2>3. Go(p, s)
    BY <1>8 DEF VerifyRefused
  <2>4. sess'[p] = s
    BY <1>0, <2>2, <2>3, GoTypes
  <2>5. SessionInv(p)'
    <3> HIDE DEF s
    <3> QED BY <2>1, <2>2, <2>4 DEF SessionInv, OnOrder, Confirmed, ReadBeforeCredit
  <2>6. UNCHANGED <<np, due, inTime, sent, bank, tables, books>> /\ UNCHANGED <<todo, late, crashes>>
    BY <1>8 DEF VerifyRefused, gateways
  <2> HIDE DEF s
  <2> QED BY <1>1, <2>2, <2>3, <2>5, <2>6, GoStep
<1>9. CASE VerifyError(p)
  <2>1. /\ bank' \in [Zarin -> {"none", "open", "paid", "verified", "reversed"}]
        /\ \A z \in Zarin : bank[z] \in {"none", "verified"} => bank'[z] = bank[z]
    BY <1>1, <1>9 DEF VerifyError
  <2> QED BY <1>1, <1>9, <2>1, CloseStep DEF VerifyError, tables
<1>10. CASE FailOrder(p)
  <2>1. /\ order' \in [Zarin -> {"absent", "pending", "paid", "failed"}]
        /\ \A z \in Zarin : order'[z] = "absent" => order[z] = "absent"
    BY <1>1, <1>10 DEF FailOrder
  <2> QED BY <1>1, <1>10, <2>1, CloseStep DEF FailOrder, gateways
<1>11. CASE CommitOrder(p)
  <2>1. o \in Zarin /\ o \in Orders /\ o \notin Crypto /\ bank[o] = "verified"
    BY <1>0, <1>2, <1>11 DEF CommitOrder, SessionInv, Confirmed
  <2>2. /\ order' \in [Zarin -> {"absent", "pending", "paid", "failed"}]
        /\ \A z \in Zarin : order'[z] = "absent" => order[z] = "absent"
    BY <1>1, <1>11 DEF CommitOrder
  <2>3. TypeOK'
    BY <1>0, <1>11, <2>1, <2>2, BookTypes, CloseTypes DEF CommitOrder, TypeOK, gateways
  <2>4. SessionInv(p)' /\ \A q \in Procs : q # p => sess'[q] = sess[q]
    BY <1>0, <1>11, CloseTypes, IdleIsHarmless DEF CommitOrder
  <2>5. Forward /\ Unopened'
    BY <1>0, <1>11, <2>2 DEF CommitOrder, Forward, Unopened, gateways
  <2>6. OnlyConfirmedCredited'
    BY <1>0, <1>2, <1>11, <2>1, BookTypes
    DEF CommitOrder, IInv, OnlyConfirmedCredited, gateways
  <2>7. FlagMeansCredited'
    BY <1>0, <1>2, <1>11, <2>1, BookTypes DEF CommitOrder, IInv, FlagMeansCredited
  <2> QED BY <1>11, <2>3, <2>4, <2>5, <2>6, <2>7, SessionFrame DEF CommitOrder, gateways
<1> QED BY <1>3, <1>4, <1>5, <1>6, <1>7, <1>8, <1>9, <1>10, <1>11 DEF Proceed

LEMMA CrashStep == ASSUME NEW p \in Procs PROVE IInv /\ Crash(p) => IInv'
<1> SUFFICES ASSUME IInv, Crash(p) PROVE IInv'
  OBVIOUS
<1>1. TypeOK
  BY DEF IInv
<1>2. todo' \subseteq Crypto /\ late' \subseteq Crypto /\ crashes' \in Nat
  BY <1>1 DEF Crash, TypeOK
<1>3. UNCHANGED <<np, due, inTime, sent, bank, order, invoice, balance, books>>
  BY DEF Crash, gateways, tables
<1> QED BY <1>1, <1>2, <1>3, CloseStep DEF Crash, TypeOK

(***************************************************************************)
(* The theorems.                                                           *)
(***************************************************************************)
LEMMA InitInv == Init => IInv
<1> SUFFICES ASSUME Init PROVE IInv
  OBVIOUS
<1>1. TypeOK
  BY IdleType, AmountsAssumption DEF Init, TypeOK, Reports, Statuses
<1>2. Reported /\ Unopened /\ OnlyConfirmedCredited /\ FlagMeansCredited
  BY DEF Init, Reported, Unopened, OnlyConfirmedCredited, FlagMeansCredited, Orders
<1>3. \A p \in Procs : SessionInv(p)
  <2>1. NoOrder \notin Crypto /\ NoOrder \notin Zarin
    BY OrdersAssumption DEF Orders
  <2> QED BY <2>1 DEF Init, SessionInv, OnOrder, Confirmed, ReadBeforeCredit, Idle
<1> QED BY <1>1, <1>2, <1>3 DEF IInv

LEMMA StutterInv == IInv /\ UNCHANGED vars => IInv'
<1> SUFFICES ASSUME IInv, UNCHANGED vars PROVE IInv'
  OBVIOUS
<1>1. UNCHANGED <<np, due, inTime, invoice, bank, order, sent, balance, sess, todo, late,
                  oLock, uLock, crashes, credits, net>>
  BY DEF vars, gateways, tables, locks, books
<1> QED BY <1>1 DEF IInv, TypeOK, Reported, Unopened, SessionInv, OnOrder, Confirmed,
                    ReadBeforeCredit, OnlyConfirmedCredited, FlagMeansCredited

\* The invariant holds in every reachable state, for any number of invoices, orders and sessions.
THEOREM InductiveInvariant == Spec => []IInv
<1>1. IInv /\ [Next]_vars => IInv'
  <2> SUFFICES ASSUME IInv, [Next]_vars PROVE IInv'
    OBVIOUS
  <2>1. CASE Next
    <3>1. Sessions \subseteq Procs
      BY DEF Procs
    <3> QED BY <2>1, <3>1, EnvironmentStep, PollStep, NotifyStep, ProceedStep, CrashStep DEF Next
  <2>2. CASE UNCHANGED vars
    BY <2>2, StutterInv
  <2> QED BY <2>1, <2>2
<1> QED BY <1>1, InitInv, PTL DEF Spec

\* Every variable keeps its type; in particular no wallet holds less than nothing.
THEOREM TypeCorrect == Spec => []TypeOK
<1>1. IInv => TypeOK
  BY DEF IInv
<1> QED BY <1>1, InductiveInvariant, PTL

\* No payment is credited that its gateway has not confirmed, whatever becomes of the messages.
THEOREM ConfirmedOnly == Spec => []OnlyConfirmedCredited
<1>1. IInv => OnlyConfirmedCredited
  BY DEF IInv
<1> QED BY <1>1, InductiveInvariant, PTL

\* An invoice is activated if and only if it has been credited, also after crashes.
THEOREM FlagTellsTruth == Spec => []FlagMeansCredited
<1>1. IInv => FlagMeansCredited
  BY DEF IInv
<1> QED BY <1>1, InductiveInvariant, PTL

\* Only a committing session credits an invoice.
LEMMA CreditOnCommit ==
  ASSUME Next, NEW c \in Crypto, credits'[c] # credits[c], TypeOK
  PROVE  \E p \in Procs : sess[p].pc = "commit" /\ sess[p].order = c
<1>1. ~Environment
  BY DEF Environment, CreateInvoice, SaveInvoice, PayInvoice, FinishInvoice, FailInvoice,
         NpReports, TenMinutesPass, Checkout, PayOrder, TurnBack, Reverse, BankMoves, Debit, books
<1>2. ~Poll
  BY DEF Poll, PollList, PollRead, PollExpire, PollAsk, PollError, books
<1>3. ASSUME NEW p \in Sessions, Notify(p) PROVE FALSE
  BY <1>3 DEF Notify, Cancel, ReceiveIpn, ReceiveCallback, books
<1>4. ASSUME NEW p \in Procs, Crash(p) PROVE FALSE
  BY <1>4 DEF Crash, books
<1>5. ASSUME NEW p \in Procs, Proceed(p) PROVE sess[p].pc = "commit" /\ sess[p].order = c
  <2>1. CommitInvoice(p) \/ CommitOrder(p)
    BY <1>5 DEF Proceed, StoreStatus, ReadWallet, LockWallet, VerifyAccepted, VerifyRefused,
                VerifyError, FailOrder, books
  <2>2. sess[p].pc = "commit" /\ Book(p)
    BY <2>1 DEF CommitInvoice, CommitOrder
  <2> QED BY <2>2 DEF Book, TypeOK
<1> QED BY <1>1, <1>2, <1>3, <1>4, <1>5 DEF Next

\* A session that reads an invoice after its credit never credits it again.
THEOREM ReplaysAreSafe == Spec => ReplayCreditsNothing
<1> DEFINE Safe == \A c \in Crypto : credits'[c] > credits[c] =>
              \E p \in Procs : sess[p].pc = "commit" /\ sess[p].order = c /\ ~sess[p].seen
<1>1. IInv /\ [Next]_vars => [Safe]_vars
  <2> SUFFICES ASSUME IInv, Next, NEW c \in Crypto, credits'[c] > credits[c]
               PROVE  \E p \in Procs : sess[p].pc = "commit" /\ sess[p].order = c
                                                            /\ ~sess[p].seen
    OBVIOUS
  <2>1. credits[c] \in Nat /\ TypeOK
    BY DEF IInv, TypeOK, Orders
  <2>2. credits'[c] # credits[c]
    BY <2>1
  <2>3. PICK p \in Procs : sess[p].pc = "commit" /\ sess[p].order = c
    BY <2>1, <2>2, CreditOnCommit
  <2>4. ~sess[p].seen
    BY <2>3 DEF IInv, SessionInv, ReadBeforeCredit
  <2> QED BY <2>3, <2>4
<1> QED BY <1>1, InductiveInvariant, PTL DEF Spec, ReplayCreditsNothing
=============================================================================
