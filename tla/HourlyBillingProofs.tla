------------------------- MODULE HourlyBillingProofs -------------------------
(***************************************************************************)
(* Theorems about HourlyBilling for every set of servers, users, workers   *)
(* and handlers and every value of the constants.                          *)
(***************************************************************************)
EXTENDS HourlyBilling, FiniteSetTheorems, TLAPS

(***************************************************************************)
(* The inductive invariant.  A session never writes a row it has not       *)
(* locked, and while it holds the lock nobody else changes the row.        *)
(***************************************************************************)
BillingOpen(w) == run[w].pc \in {"listed", "paying"}

\* what a worker's transaction knows about the server rows
ServerHold(w) ==
  /\ run[w].pc \in {"idle", "purging"} => run[w].charged = {}
  /\ run[w].pc = "paying" => /\ run[w].at \in Servers
                             /\ sLock[run[w].at] = w
                             /\ run[w].at \notin run[w].charged
                             /\ srv[run[w].at].cycle = "hourly"
  /\ run[w].todo \cap run[w].charged \subseteq {}
  /\ \A s \in run[w].charged : /\ sLock[s] = w
                               /\ srv[s].cycle = "hourly"
                               /\ mem[w].anchor[s] = srv[s].anchor + Hour

\* what it knows about the user rows
UserHold(w) ==
  /\ run[w].pc \in {"idle", "purging"} => run[w].ok = {}
  /\ \A u \in Users :
       /\ u \in run[w].ok => uLock[u] = w
       /\ uLock[u] = w => run[w].pc # "idle"
       /\ u \notin run[w].ok => mem[w].spent[u] = 0
       /\ uLock[u] = w /\ BillingOpen(w) =>
            /\ mem[w].balance[u] = balance[u] - mem[w].spent[u]
            /\ mem[w].balance[u] >= 0

ConvertHold == \A h \in Handlers : conv[h] # NoServer => sLock[conv[h]] = h

AnchorAfterCreation == \A s \in Servers : srv[s].anchor >= Created[s]

QuoteReal == \A u \in Users : till[u].seen >= 0

IInv ==
  /\ TypeOK
  /\ \A w \in Workers : ServerHold(w) /\ UserHold(w)
  /\ ConvertHold
  /\ AnchorAfterCreation
  /\ Ledger /\ NoOverdraft /\ HoursMatchDebits
  /\ QuoteReal

(***************************************************************************)
(* Lemmas about the operators.                                             *)
(***************************************************************************)
LEMMA GridIsReal ==
  ASSUME NEW s \in Servers, NEW n \in Nat
  PROVE  /\ Created[s] + ((n - Created[s]) \div Hour) * Hour \in Int
         /\ Created[s] + ((n - Created[s]) \div Hour) * Hour >= Created[s]
<1> DEFINE q == (n - Created[s]) \div Hour
<1>1. n - Created[s] \in Nat /\ Hour \in Nat \ {0} /\ Created[s] \in Int
  BY ServersAssumption, AmountsAssumption
<1>2. q \in Nat
  BY <1>1
<1>3. q * Hour \in Nat
  <2> HIDE DEF q
  <2> QED BY <1>1, <1>2
<1> HIDE DEF q
<1>4. Created[s] + q * Hour \in Int /\ Created[s] + q * Hour >= Created[s]
  BY <1>1, <1>3
<1> QED BY <1>4 DEF q

LEMMA OneMoreHour == \A n \in Nat : Hour * (n + 1) = Hour * n + Hour
  BY AmountsAssumption

\* What each change of a worker's progress record does to its fields.
LEMMA PayingMove ==
  ASSUME NEW r \in RunState, NEW s \in Servers
  PROVE  /\ Paying(r, s) \in RunState
         /\ Paying(r, s).pc = "paying" /\ Paying(r, s).at = s
         /\ Paying(r, s).todo = r.todo /\ Paying(r, s).charged = r.charged
         /\ Paying(r, s).ok = r.ok
  BY DEF Paying, RunState

LEMMA SkippedMove ==
  ASSUME NEW r \in RunState, NEW s \in Servers
  PROVE  /\ Skipped(r, s) \in RunState
         /\ Skipped(r, s).pc = r.pc /\ Skipped(r, s).at = r.at
         /\ Skipped(r, s).todo = r.todo \ {s} /\ Skipped(r, s).charged = r.charged
         /\ Skipped(r, s).ok = r.ok
  BY DEF Skipped, RunState

LEMMA PaidMove ==
  ASSUME NEW r \in RunState, NEW s \in Servers
  PROVE  /\ Paid(r, s) \in RunState
         /\ Paid(r, s).pc = "listed" /\ Paid(r, s).todo = r.todo \ {s}
         /\ Paid(r, s).charged = r.charged \cup {s}
         /\ Paid(r, s).ok = r.ok \cup {Owner[s]}
  BY ServersAssumption DEF Paid, Done, RunState

LEMMA RefusedMove ==
  ASSUME NEW r \in RunState, NEW s \in Servers
  PROVE  /\ Refused(r, s) \in RunState
         /\ Refused(r, s).pc = "listed" /\ Refused(r, s).todo = r.todo \ {s}
         /\ Refused(r, s).charged = r.charged /\ Refused(r, s).ok = r.ok
  BY ServersAssumption DEF Refused, Done, RunState

LEMMA RunStarts ==
  ASSUME NEW S \in SUBSET Servers
  PROVE  /\ IdleRun \in RunState /\ IdleRun.pc = "idle" /\ IdleRun.todo = {}
         /\ IdleRun.charged = {} /\ IdleRun.ok = {}
         /\ Listed(S) \in RunState /\ Listed(S).pc = "listed" /\ Listed(S).todo = S
         /\ Listed(S).charged = {} /\ Listed(S).ok = {}
         /\ Purging(S) \in RunState /\ Purging(S).pc = "purging" /\ Purging(S).todo = S
         /\ Purging(S).charged = {} /\ Purging(S).ok = {}
  BY DEF IdleRun, Listed, Purging, RunState

LEMMA BlankSession == Blank \in SessionMap /\ \A u \in Users : Blank.spent[u] = 0
  BY DEF Blank, SessionMap

LEMMA LoadedWrite ==
  ASSUME NEW m \in SessionMap, NEW u \in Users, NEW b \in Int
  PROVE  /\ Loaded(m, u, b) \in SessionMap
         /\ Loaded(m, u, b).anchor = m.anchor /\ Loaded(m, u, b).spent = m.spent
         /\ Loaded(m, u, b).balance = [m.balance EXCEPT ![u] = b]
  BY DEF Loaded, SessionMap

LEMMA DebitedWrite ==
  ASSUME NEW m \in SessionMap, NEW u \in Users, NEW s \in Servers,
         NEW b \in Int, NEW a \in Int
  PROVE  /\ Debited(m, u, b, s, a) \in SessionMap
         /\ Debited(m, u, b, s, a).anchor = [m.anchor EXCEPT ![s] = a]
         /\ Debited(m, u, b, s, a).balance = [m.balance EXCEPT ![u] = b - Price]
         /\ Debited(m, u, b, s, a).spent = [m.spent EXCEPT ![u] = @ + Price]
  BY AmountsAssumption DEF Debited, SessionMap

(***************************************************************************)
(* Types.                                                                  *)
(***************************************************************************)
LEMMA InitTypes == Init => TypeOK
<1> SUFFICES ASSUME Init PROVE TypeOK
  OBVIOUS
<1>1. IdleRun \in RunState /\ Blank \in SessionMap /\ TillClosed \in Till
  BY RunStarts, BlankSession DEF TillClosed, Till
<1>2. NoGrace \in GraceKeys
  BY DEF NoGrace, GraceKeys
<1> QED
  BY <1>1, <1>2, ServersAssumption, ProcsAssumption, AmountsAssumption
  DEF Init, TypeOK, ServerRow, Procs

LEMMA CloseTypes ==
  ASSUME TypeOK, NEW w \in Workers, CloseSession(w)
  PROVE  /\ run' \in [Workers -> RunState]
         /\ mem' \in [Workers -> SessionMap]
         /\ sLock' \in [Servers -> Procs \cup {Nobody}]
         /\ uLock' \in [Users -> Procs \cup {Nobody}]
  BY RunStarts, BlankSession DEF TypeOK, CloseSession, Release

LEMMA FreshTypes ==
  ASSUME TypeOK, NEW w \in Workers, NEW u \in Users, NEW s \in Servers
  PROVE  FreshBalance(w, u) \in Int /\ NextAnchor(s) \in Int
  BY ServersAssumption, AmountsAssumption
  DEF TypeOK, FreshBalance, NextAnchor, SessionMap, ServerRow

\* Only a payment gateway writes what it has read and what it has recorded ...
LEMMA GateStays ==
  ASSUME [Next]_vars, ~\E u \in Users : GatewayStep(u)
  PROVE  UNCHANGED gate
<1>1. ASSUME NEW w \in Workers, BillingStep(w) PROVE UNCHANGED gate
  BY <1>1 DEF BillingStep, ListDue, LockServer, DebitHour, RefuseHour, CommitRun, BeginPurge,
              CommitPurge
<1>2. ASSUME NEW u \in Users, GraceStep(u) \/ Credit(u) PROVE UNCHANGED gate
  BY <1>2 DEF GraceStep, ClearGrace, StampGrace, WarnAgain, NothingDue, SetGrace, Credit
<1>3. ASSUME NEW h \in Handlers, ConvertStep(h) PROVE UNCHANGED gate
  BY <1>3 DEF ConvertStep, BeginConvert, PayConvert, RefuseConvert
<1>4. ASSUME \/ \E s \in Servers : ServerStep(s)
             \/ \E p \in Procs : Rollback(p)
             \/ RateChanges \/ Tick \/ Rest \/ UNCHANGED vars
      PROVE  UNCHANGED gate
  BY <1>4 DEF ServerStep, Suspend, Unsuspend, Delete, WriteServer, Rollback, RateChanges, Tick,
              Rest, vars
<1> QED BY <1>1, <1>2, <1>3, <1>4 DEF Next

\* ... and it writes nothing else than these and the balance of a user nobody has locked.
LEMMA GatewayWrites ==
  ASSUME TypeOK, NEW u \in Users, GatewayStep(u)
  PROVE  /\ UNCHANGED <<now, srv, grace, rate, run, mem, conv, sLock, uLock, queue>>
         /\ UNCHANGED <<paid, base, funded>>
         /\ uLock[u] = Nobody \/ balance' = balance
         /\ \A v \in Users \ {u} : balance'[v] = balance[v]
<1>1. CASE GatewayRead(u) \/ GatewayDrop(u)
  BY <1>1 DEF GatewayRead, GatewayDrop, rows, locks, books
<1>2. CASE GatewayWrite(u)
  BY <1>2 DEF GatewayWrite, locks, TypeOK
<1> QED BY <1>1, <1>2 DEF GatewayStep

LEMMA GatewayTypes ==
  ASSUME TypeOK, NEW u \in Users, GatewayStep(u)
  PROVE  /\ balance' \in [Users -> Int] /\ net' \in [Users -> Int]
         /\ till' \in [Users -> Till] /\ slip' \in [Users -> Int]
         /\ topUps' \in Nat /\ crashes' \in Nat
<1>1. TillClosed \in Till /\ till[u] \in Till /\ till[u].seen \in Int
  BY DEF TypeOK, Till, TillClosed
<1>2. TopUp \in Nat /\ balance[u] \in Int
  BY AmountsAssumption DEF TypeOK
<1>3. CASE GatewayRead(u)
  <2>1. [open |-> TRUE, seen |-> balance[u]] \in Till
    BY <1>2 DEF Till
  <2> QED BY <1>3, <2>1 DEF GatewayRead, TypeOK, rows, books
<1>4. CASE GatewayWrite(u)
  BY <1>1, <1>2, <1>4 DEF GatewayWrite, TypeOK
<1>5. CASE GatewayDrop(u)
  BY <1>1, <1>5 DEF GatewayDrop, TypeOK, rows, books
<1> QED BY <1>3, <1>4, <1>5 DEF GatewayStep

LEMMA StepTypes == IInv /\ [Next]_vars => TypeOK'
<1> SUFFICES ASSUME IInv, [Next]_vars PROVE TypeOK'
  OBVIOUS
<1>19. ASSUME NEW u \in Users, GatewayStep(u) PROVE TypeOK'
  BY <1>19, GatewayWrites, GatewayTypes DEF gate, IInv, TypeOK
<1>0. TypeOK /\ \A w \in Workers : run[w] \in RunState /\ mem[w] \in SessionMap
  BY DEF gate, IInv, TypeOK
<1>1. ASSUME NEW w \in Workers, ListDue(w) PROVE TypeOK'
  <2>1. Listed({s \in Servers : Due(s)}) \in RunState
    BY RunStarts
  <2> QED BY <1>0, <1>1, <2>1 DEF gate, ListDue, TypeOK, rows, locks, books
<1>2. ASSUME NEW w \in Workers, NEW s \in Servers, LockServer(w, s) PROVE TypeOK'
  <2>1. Paying(run[w], s) \in RunState /\ Skipped(run[w], s) \in RunState
    BY <1>0, PayingMove, SkippedMove
  <2> QED BY <1>0, <1>2, <2>1 DEF gate, LockServer, TypeOK, rows, locks, books, Procs
<1>3. ASSUME NEW w \in Workers, DebitHour(w) PROVE TypeOK'
  <2> DEFINE s == run[w].at
             u == Owner[s]
  <2>1. s \in Servers /\ u \in Users
    BY <1>3, ServersAssumption DEF DebitHour, IInv, ServerHold
  <2>2. FreshBalance(w, u) \in Int /\ NextAnchor(s) \in Int
    BY <1>0, <2>1, FreshTypes
  <2>3. Paid(run[w], s) \in RunState
    BY <1>0, <2>1, PaidMove
  <2>4. Debited(mem[w], u, FreshBalance(w, u), s, NextAnchor(s)) \in SessionMap
    BY <1>0, <2>1, <2>2, DebitedWrite
  <2> QED BY <1>0, <1>3, <2>3, <2>4 DEF gate, DebitHour, TypeOK, rows, books, Procs
<1>4. ASSUME NEW w \in Workers, RefuseHour(w) PROVE TypeOK'
  <2> DEFINE s == run[w].at
             u == Owner[s]
  <2>1. s \in Servers /\ u \in Users
    BY <1>4, ServersAssumption DEF RefuseHour, IInv, ServerHold
  <2>2. Refused(run[w], s) \in RunState /\ Loaded(mem[w], u, FreshBalance(w, u)) \in SessionMap
    BY <1>0, <2>1, FreshTypes, RefusedMove, LoadedWrite
  <2> QED BY <1>0, <1>4, <2>2 DEF gate, RefuseHour, TypeOK, rows, books, Procs
<1>5. ASSUME NEW w \in Workers, CommitRun(w) PROVE TypeOK'
  <2>1. \A s \in Servers : mem[w].anchor[s] \in Int
    BY <1>0 DEF SessionMap
  <2>2. \A u \in Users : mem[w].balance[u] \in Int /\ mem[w].spent[u] \in Nat
    BY <1>0 DEF SessionMap
  <2>3. srv' \in [Servers -> ServerRow]
    BY <1>0, <1>5, <2>1 DEF gate, CommitRun, TypeOK, ServerRow
  <2>4. grace' \in [Users -> GraceKeys]
    BY <1>0, <1>5 DEF gate, CommitRun, GraceAfterRun, NoGrace, TypeOK, GraceKeys
  <2>5. /\ balance' \in [Users -> Int] /\ net' \in [Users -> Int]
        /\ paid' \in [Servers -> Nat]
    BY <1>0, <1>5, <2>2 DEF gate, CommitRun, TypeOK
  <2>6. queue' \subseteq Users
    BY <1>0, <1>5 DEF gate, CommitRun, TypeOK, RunState
  <2> QED BY <1>0, <1>5, <2>3, <2>4, <2>5, <2>6, CloseTypes DEF gate, CommitRun, TypeOK
<1>6. ASSUME NEW u \in Users, NEW g \in GraceKeys, SetGrace(u, g) PROVE TypeOK'
  BY <1>0, <1>6 DEF gate, SetGrace, Receive, TypeOK, locks, books
<1>7. ASSUME NEW u \in Users, GraceStep(u) PROVE TypeOK'
  <2>1. grace[u] \in GraceKeys /\ now \in Nat
    BY <1>0 DEF gate, TypeOK
  <2>2. CASE ClearGrace(u)
    <3>1. NoGrace \in GraceKeys BY DEF NoGrace, GraceKeys
    <3> QED BY <1>6, <2>2, <3>1 DEF ClearGrace
  <2>3. CASE StampGrace(u)
    <3>1. [stamped |-> TRUE, since |-> now, warn |-> 0] \in GraceKeys
      BY <2>1 DEF GraceKeys
    <3> QED BY <1>6, <2>3, <3>1 DEF StampGrace
  <2>4. CASE WarnAgain(u)
    <3>1. PICK k \in 1..2 : SetGrace(u, [grace[u] EXCEPT !.warn = k])
      BY <2>4 DEF WarnAgain
    <3>2. [grace[u] EXCEPT !.warn = k] \in GraceKeys
      BY <2>1 DEF GraceKeys
    <3> QED BY <1>6, <3>1, <3>2
  <2>5. CASE NothingDue(u)
    BY <1>6, <2>1, <2>5 DEF NothingDue
  <2> QED BY <1>7, <2>2, <2>3, <2>4, <2>5 DEF GraceStep
<1>8. ASSUME NEW w \in Workers, NEW u \in Users, BeginPurge(w, u) PROVE TypeOK'
  <2>1. Purging({s \in HourlyOf(u) : srv[s].status # "deleted"}) \in RunState
    <3>1. {s \in HourlyOf(u) : srv[s].status # "deleted"} \in SUBSET Servers
      BY DEF HourlyOf
    <3> QED BY <3>1, RunStarts
  <2> QED BY <1>0, <1>8, <2>1 DEF gate, BeginPurge, Receive, TypeOK, rows, books, Procs
<1>9. ASSUME NEW w \in Workers, NEW u \in Users, CommitPurge(w, u) PROVE TypeOK'
  <2>1. srv' \in [Servers -> ServerRow]
    BY <1>0, <1>9 DEF gate, CommitPurge, TypeOK, ServerRow
  <2>2. grace' \in [Users -> GraceKeys]
    BY <1>0, <1>9 DEF gate, CommitPurge, TypeOK, GraceKeys
  <2> QED BY <1>0, <1>9, <2>1, <2>2, CloseTypes DEF gate, CommitPurge, TypeOK, books
<1>10. ASSUME NEW h \in Handlers, NEW s \in Servers, BeginConvert(h, s) PROVE TypeOK'
  BY <1>0, <1>10 DEF gate, BeginConvert, TypeOK, rows, books, Procs
<1>11. ASSUME NEW h \in Handlers, PayConvert(h) PROVE TypeOK'
  <2> DEFINE s == conv[h]
             u == Owner[s]
  <2>1. s \in Servers /\ u \in Users
    BY <1>0, <1>11, ServersAssumption DEF gate, PayConvert, TypeOK
  <2>2. srv' \in [Servers -> ServerRow]
    <3>1. srv[s] \in ServerRow /\ now \in Int
      BY <1>0, <2>1 DEF gate, TypeOK
    <3>2. [srv[s] EXCEPT !.cycle = "monthly", !.anchor = now] \in ServerRow
      BY <3>1 DEF ServerRow
    <3> QED BY <1>0, <1>11, <3>2 DEF gate, PayConvert, TypeOK
  <2>3. /\ balance' \in [Users -> Int] /\ net' \in [Users -> Int]
        /\ base' \in [Servers -> Int]
    BY <1>0, <1>11, <2>1, AmountsAssumption DEF gate, PayConvert, TypeOK
  <2>4. grace' \in [Users -> GraceKeys]
    <3>1. NoGrace \in GraceKeys
      BY DEF NoGrace, GraceKeys
    <3> QED BY <1>0, <1>11, <3>1 DEF gate, PayConvert, TypeOK
  <2>5. /\ sLock' \in [Servers -> Procs \cup {Nobody}]
        /\ uLock' \in [Users -> Procs \cup {Nobody}]
        /\ conv' \in [Handlers -> Servers \cup {NoServer}]
    BY <1>0, <1>11 DEF gate, PayConvert, Release, TypeOK
  <2> QED
    BY <1>0, <1>11, <2>2, <2>3, <2>4, <2>5 DEF gate, PayConvert, TypeOK
<1>12. ASSUME NEW h \in Handlers, RefuseConvert(h) PROVE TypeOK'
  BY <1>0, <1>12 DEF gate, RefuseConvert, Release, TypeOK, rows, books, Procs
<1>13. ASSUME NEW u \in Users, Credit(u) PROVE TypeOK'
  BY <1>0, <1>13, AmountsAssumption
  DEF gate, Credit, GraceAfterCredit, NoGrace, TypeOK, GraceKeys, locks
<1>14. ASSUME NEW s \in Servers, ServerStep(s) PROVE TypeOK'
  <2>1. GridNow(s) \in Int
    BY <1>0, GridIsReal DEF gate, TypeOK, GridNow
  <2>2. srv' \in [Servers -> ServerRow]
    <3>1. srv[s] \in ServerRow
      BY <1>0 DEF gate, TypeOK
    <3>2. ASSUME NEW row \in ServerRow, WriteServer(s, row) PROVE srv' \in [Servers -> ServerRow]
      BY <1>0, <3>2 DEF gate, WriteServer, TypeOK
    <3>3. CASE Suspend(s)
      <4>1. [srv[s] EXCEPT !.status = "suspended"] \in ServerRow
        BY <3>1 DEF ServerRow
      <4> QED BY <3>2, <3>3, <4>1 DEF Suspend
    <3>4. CASE Delete(s)
      <4>1. [srv[s] EXCEPT !.status = "deleted"] \in ServerRow
        BY <3>1 DEF ServerRow
      <4> QED BY <3>2, <3>4, <4>1 DEF Delete
    <3>5. CASE Unsuspend(s)
      <4> DEFINE a == IF srv[s].cycle = "hourly" THEN GridNow(s) ELSE srv[s].anchor
      <4>1. a \in Int
        BY <2>1, <3>1 DEF ServerRow
      <4>2. [srv[s] EXCEPT !.status = "active", !.anchor = a] \in ServerRow
        BY <3>1, <4>1 DEF ServerRow
      <4> QED BY <3>2, <3>5, <4>2 DEF Unsuspend
    <3> QED BY <1>14, <3>3, <3>4, <3>5 DEF ServerStep
  <2>3. base' \in [Servers -> Int]
    BY <1>0, <1>14, <2>1, AmountsAssumption
    DEF gate, ServerStep, Suspend, Unsuspend, Delete, TypeOK, ServerRow
  <2> QED
    BY <1>0, <1>14, <2>2, <2>3
    DEF gate, ServerStep, Suspend, Unsuspend, Delete, WriteServer, TypeOK, locks
<1>15. ASSUME NEW p \in Procs, Rollback(p) PROVE TypeOK'
  <2>1. crashes' \in Nat
    BY <1>0, <1>15 DEF gate, Rollback, TypeOK
  <2>2. CASE p \in Workers
    BY <1>0, <1>15, <2>1, <2>2, CloseTypes DEF gate, Rollback, TypeOK, rows, books
  <2>3. CASE p \notin Workers
    BY <1>0, <1>15, <2>1, <2>3 DEF gate, Rollback, Release, TypeOK, rows, books, Procs
  <2> QED BY <2>2, <2>3
<1>16. CASE RateChanges \/ Tick \/ Rest \/ UNCHANGED vars
  <2>1. CASE RateChanges
    <3>1. rate' \in BOOLEAN
      BY <2>1, Zenon DEF RateChanges
    <3> QED BY <1>0, <2>1, <3>1 DEF gate, RateChanges, TypeOK, rows, locks, books
  <2>2. CASE Tick \/ Rest \/ UNCHANGED vars
    BY <1>0, <2>2 DEF gate, Tick, Rest, vars, TypeOK, rows, locks, books
  <2> QED BY <1>16, <2>1, <2>2
<1>17. CASE \E w \in Workers : BillingStep(w)
  BY <1>1, <1>2, <1>3, <1>4, <1>5, <1>8, <1>9, <1>17 DEF BillingStep
<1>18. CASE \E h \in Handlers : ConvertStep(h)
  BY <1>10, <1>11, <1>12, <1>18 DEF ConvertStep
<1> QED
  BY <1>7, <1>13, <1>14, <1>15, <1>16, <1>17, <1>18, <1>19 DEF Next

(***************************************************************************)
(* What a transaction holds.  A step of another process keeps it, because  *)
(* it neither takes nor writes a row locked by somebody else.              *)
(***************************************************************************)
LEMMA HoldsStay ==
  ASSUME NEW v \in Workers, ServerHold(v), UserHold(v),
         run'[v] = run[v], mem'[v] = mem[v],
         \A s \in Servers : sLock[s] = v =>
           sLock'[s] = v /\ srv'[s].cycle = srv[s].cycle /\ srv'[s].anchor = srv[s].anchor,
         \A u \in Users : (uLock'[u] = v <=> uLock[u] = v)
                          /\ (uLock[u] = v => balance'[u] = balance[u]),
         run[v] \in RunState
  PROVE  ServerHold(v)' /\ UserHold(v)'
<1>1. run[v].charged \subseteq Servers
  BY DEF RunState
<1>2. ServerHold(v)'
  BY <1>1 DEF ServerHold
<1>3. UserHold(v)'
  BY DEF UserHold, BillingOpen
<1> QED BY <1>2, <1>3

LEMMA HoldsClosed ==
  ASSUME NEW w \in Workers, run'[w] = IdleRun, mem'[w] = Blank,
         \A u \in Users : uLock'[u] # w
  PROVE  ServerHold(w)' /\ UserHold(w)'
  BY RunStarts, BlankSession DEF ServerHold, UserHold, BillingOpen

LEMMA CloseHolds ==
  ASSUME TypeOK, NEW w \in Workers, CloseSession(w)
  PROVE  /\ run'[w] = IdleRun /\ mem'[w] = Blank
         /\ \A u \in Users : uLock'[u] # w
         /\ \A v \in Workers \ {w} :
              /\ run'[v] = run[v] /\ mem'[v] = mem[v]
              /\ \A s \in Servers : sLock'[s] = v <=> sLock[s] = v
              /\ \A u \in Users : uLock'[u] = v <=> uLock[u] = v
         /\ \A h \in Handlers, s \in Servers : sLock'[s] = h <=> sLock[s] = h
  BY ProcsAssumption DEF TypeOK, CloseSession, Release

LEMMA StepHolds ==
  IInv /\ [Next]_vars => \A v \in Workers : ServerHold(v)' /\ UserHold(v)'
<1> SUFFICES ASSUME IInv, [Next]_vars, NEW v \in Workers
             PROVE  ServerHold(v)' /\ UserHold(v)'
  OBVIOUS
<1>0. /\ TypeOK
      /\ run[v] \in RunState /\ mem[v] \in SessionMap
      /\ ServerHold(v) /\ UserHold(v)
      /\ v # Nobody /\ v \notin Handlers
  BY ProcsAssumption DEF IInv, TypeOK
<1>1. ASSUME NEW w \in Workers, ListDue(w) PROVE ServerHold(v)' /\ UserHold(v)'
  <2>1. CASE v # w
    BY <1>0, <1>1, <2>1, HoldsStay DEF ListDue, TypeOK, rows, locks
  <2>2. CASE v = w
    <3> DEFINE S == {s \in Servers : Due(s)}
    <3>1. run'[v] = Listed(S) /\ mem'[v] = mem[v] /\ uLock' = uLock
      BY <1>0, <1>1, <2>2 DEF ListDue, TypeOK, locks
    <3>2. \A u \in Users : uLock[u] # v /\ mem[v].spent[u] = 0
      BY <1>0, <1>1, <2>2 DEF ListDue, UserHold
    <3> QED
      BY <3>1, <3>2, RunStarts DEF ServerHold, UserHold, BillingOpen
  <2> QED BY <2>1, <2>2
<1>2. ASSUME NEW w \in Workers, NEW s \in Servers, LockServer(w, s)
      PROVE  ServerHold(v)' /\ UserHold(v)'
  <2>1. CASE v # w
    BY <1>0, <1>2, <2>1, HoldsStay DEF LockServer, ServerFree, TypeOK, rows
  <2>2. CASE v = w
    <3>1. /\ run'[v] = IF Chargeable(s) THEN Paying(run[v], s) ELSE Skipped(run[v], s)
          /\ mem'[v] = mem[v] /\ uLock' = uLock /\ srv' = srv /\ balance' = balance
          /\ sLock' = [sLock EXCEPT ![s] = v]
          /\ run[v].pc = "listed" /\ s \in run[v].todo
      BY <1>0, <1>2, <2>2 DEF LockServer, TypeOK, rows
    <3>2. /\ run'[v].charged = run[v].charged /\ run'[v].ok = run[v].ok
          /\ run'[v].todo \subseteq run[v].todo
          /\ run'[v].pc \in {"listed", "paying"}
          /\ run'[v].pc = "paying" => run'[v].at = s /\ srv[s].cycle = "hourly"
      <4>1. /\ Paying(run[v], s).pc = "paying" /\ Paying(run[v], s).at = s
            /\ Paying(run[v], s).todo = run[v].todo
            /\ Paying(run[v], s).charged = run[v].charged /\ Paying(run[v], s).ok = run[v].ok
        BY <1>0, PayingMove
      <4>2. /\ Skipped(run[v], s).pc = run[v].pc
            /\ Skipped(run[v], s).todo = run[v].todo \ {s}
            /\ Skipped(run[v], s).charged = run[v].charged /\ Skipped(run[v], s).ok = run[v].ok
        BY <1>0, SkippedMove
      <4> QED BY <3>1, <4>1, <4>2 DEF Chargeable
    <3>3. s \notin run[v].charged
      BY <1>0, <3>1 DEF ServerHold
    <3>4. sLock'[s] = v /\ \A r \in Servers : sLock[r] = v => sLock'[r] = v
      BY <1>0, <3>1 DEF TypeOK
    <3>5. ServerHold(v)'
      BY <1>0, <3>1, <3>2, <3>3, <3>4 DEF ServerHold, RunState
    <3>6. UserHold(v)'
      BY <1>0, <3>1, <3>2 DEF UserHold, BillingOpen
    <3> QED BY <3>5, <3>6
  <2> QED BY <2>1, <2>2
<1>3. ASSUME NEW w \in Workers, DebitHour(w) PROVE ServerHold(v)' /\ UserHold(v)'
  <2>1. CASE v # w
    BY <1>0, <1>3, <2>1, HoldsStay DEF DebitHour, UserFree, TypeOK, rows
  <2>2. CASE v = w
    <3> DEFINE s == run[v].at
               u == Owner[s]
               b == FreshBalance(v, u)
    <3>1. s \in Servers /\ u \in Users /\ b \in Int /\ NextAnchor(s) \in Int
      BY <1>0, <1>3, <2>2, ServersAssumption, FreshTypes DEF DebitHour, ServerHold
    <3>2. /\ run'[v] = Paid(run[v], s)
          /\ mem'[v] = Debited(mem[v], u, b, s, NextAnchor(s))
          /\ uLock' = [uLock EXCEPT ![u] = v]
          /\ srv' = srv /\ balance' = balance /\ sLock' = sLock
          /\ run[v].pc = "paying" /\ b >= Price
      BY <1>0, <1>3, <2>2 DEF DebitHour, Affords, TypeOK, rows
    <3>3. NextAnchor(s) = srv[s].anchor + Hour
      <4>1. srv[s].anchor \in Int /\ Created[s] \in Int /\ srv[s].anchor >= Created[s]
        BY <1>0, <3>1, ServersAssumption DEF IInv, AnchorAfterCreation, TypeOK, ServerRow
      <4> QED BY <4>1, AmountsAssumption DEF NextAnchor
    <3>4. b = balance[u] - mem[v].spent[u]
      <4>1. CASE uLock[u] = v
        BY <1>0, <3>1, <3>2, <4>1 DEF FreshBalance, UserHold, BillingOpen
      <4>2. CASE uLock[u] # v
        BY <1>0, <3>1, <4>2 DEF FreshBalance, UserHold, TypeOK
      <4> QED BY <4>1, <4>2
    <3> HIDE DEF s, u, b
    <3>5. /\ run'[v].pc = "listed" /\ run'[v].todo = run[v].todo \ {s}
          /\ run'[v].charged = run[v].charged \cup {s}
          /\ run'[v].ok = run[v].ok \cup {u}
      BY <1>0, <3>1, <3>2, PaidMove DEF u
    <3>6. /\ mem'[v].anchor = [mem[v].anchor EXCEPT ![s] = NextAnchor(s)]
          /\ mem'[v].balance = [mem[v].balance EXCEPT ![u] = b - Price]
          /\ mem'[v].spent = [mem[v].spent EXCEPT ![u] = @ + Price]
      <4>1. ASSUME NEW m \in SessionMap, NEW x \in Users, NEW r \in Servers,
                   NEW y \in Int, NEW z \in Int, mem'[v] = Debited(m, x, y, r, z)
            PROVE  /\ mem'[v].anchor = [m.anchor EXCEPT ![r] = z]
                   /\ mem'[v].balance = [m.balance EXCEPT ![x] = y - Price]
                   /\ mem'[v].spent = [m.spent EXCEPT ![x] = @ + Price]
        BY <4>1, DebitedWrite
      <4> QED BY <1>0, <3>1, <3>2, <4>1
    <3>7. /\ sLock[s] = v /\ srv[s].cycle = "hourly"
      BY <1>0, <3>2 DEF ServerHold, s
    <3>8. ServerHold(v)'
      BY <1>0, <3>1, <3>2, <3>3, <3>5, <3>6, <3>7 DEF ServerHold, RunState, SessionMap
    <3>9. UserHold(v)'
      <4>1. \A x \in Users : uLock'[x] = IF x = u THEN v ELSE uLock[x]
        BY <1>0, <3>2 DEF TypeOK
      <4>2. \A x \in Users :
              /\ mem'[v].balance[x] = IF x = u THEN b - Price ELSE mem[v].balance[x]
              /\ mem'[v].spent[x] = IF x = u THEN mem[v].spent[u] + Price ELSE mem[v].spent[x]
        BY <1>0, <3>6 DEF SessionMap
      <4>3. balance[u] \in Int /\ mem[v].spent[u] \in Int /\ Price \in Int
        BY <1>0, <3>1, AmountsAssumption DEF TypeOK, SessionMap
      <4>4. BillingOpen(v)
        BY <3>2 DEF BillingOpen
      <4> QED
        BY <1>0, <3>1, <3>2, <3>4, <3>5, <4>1, <4>2, <4>3, <4>4 DEF UserHold, BillingOpen
    <3> QED BY <3>8, <3>9
  <2> QED BY <2>1, <2>2
<1>4. ASSUME NEW w \in Workers, RefuseHour(w) PROVE ServerHold(v)' /\ UserHold(v)'
  <2>1. CASE v # w
    BY <1>0, <1>4, <2>1, HoldsStay DEF RefuseHour, UserFree, TypeOK, rows, books
  <2>2. CASE v = w
    <3> DEFINE s == run[v].at
               u == Owner[s]
               b == FreshBalance(v, u)
    <3>1. s \in Servers /\ u \in Users /\ b \in Int
      BY <1>0, <1>4, <2>2, ServersAssumption, FreshTypes DEF RefuseHour, ServerHold
    <3>2. /\ run'[v] = Refused(run[v], s)
          /\ mem'[v] = Loaded(mem[v], u, b)
          /\ uLock' = [uLock EXCEPT ![u] = v]
          /\ srv' = srv /\ balance' = balance /\ sLock' = sLock
          /\ run[v].pc = "paying"
      BY <1>0, <1>4, <2>2 DEF RefuseHour, TypeOK, rows
    <3>3. b = balance[u] - mem[v].spent[u] /\ b >= 0
      <4>1. CASE uLock[u] = v
        BY <1>0, <3>1, <3>2, <4>1 DEF FreshBalance, UserHold, BillingOpen
      <4>2. CASE uLock[u] # v
        BY <1>0, <3>1, <4>2 DEF FreshBalance, UserHold, TypeOK, IInv, NoOverdraft
      <4> QED BY <4>1, <4>2
    <3> HIDE DEF s, u, b
    <3>4. /\ run'[v].pc = "listed" /\ run'[v].todo = run[v].todo \ {s}
          /\ run'[v].charged = run[v].charged /\ run'[v].ok = run[v].ok
      BY <1>0, <3>1, <3>2, RefusedMove
    <3>5. /\ mem'[v].anchor = mem[v].anchor /\ mem'[v].spent = mem[v].spent
          /\ \A x \in Users : mem'[v].balance[x] = IF x = u THEN b ELSE mem[v].balance[x]
      <4>1. /\ Loaded(mem[v], u, b).anchor = mem[v].anchor
            /\ Loaded(mem[v], u, b).spent = mem[v].spent
            /\ Loaded(mem[v], u, b).balance = [mem[v].balance EXCEPT ![u] = b]
        BY <1>0, <3>1, LoadedWrite
      <4> QED BY <1>0, <3>1, <3>2, <4>1 DEF SessionMap
    <3>6. ServerHold(v)'
      BY <1>0, <3>2, <3>4, <3>5 DEF ServerHold
    <3>7. UserHold(v)'
      <4>1. \A x \in Users : uLock'[x] = IF x = u THEN v ELSE uLock[x]
        BY <1>0, <3>2 DEF TypeOK
      <4>2. BillingOpen(v)
        BY <3>2 DEF BillingOpen
      <4> QED BY <1>0, <3>1, <3>2, <3>3, <3>4, <3>5, <4>1, <4>2 DEF UserHold, BillingOpen
    <3> QED BY <3>6, <3>7
  <2> QED BY <2>1, <2>2
<1>5. ASSUME NEW w \in Workers, CommitRun(w) PROVE ServerHold(v)' /\ UserHold(v)'
  <2>1. CASE v = w
    BY <1>0, <1>5, <2>1, CloseHolds, HoldsClosed DEF CommitRun
  <2>2. CASE v # w
    <3>1. \A s \in run[w].charged : sLock[s] # v
      BY <2>2 DEF IInv, ServerHold
    <3>2. \A u \in Users : u \in run[w].ok => uLock[u] # v
      BY <2>2 DEF IInv, UserHold
    <3>3. /\ run'[v] = run[v] /\ mem'[v] = mem[v]
          /\ \A s \in Servers : sLock'[s] = v <=> sLock[s] = v
          /\ \A u \in Users : uLock'[u] = v <=> uLock[u] = v
      BY <1>0, <1>5, <2>2, CloseHolds DEF CommitRun
    <3>4. \A s \in Servers : sLock[s] = v => srv'[s] = srv[s]
      BY <1>5, <3>1 DEF CommitRun
    <3>5. \A u \in Users : uLock[u] = v => balance'[u] = balance[u]
      BY <1>5, <3>2 DEF CommitRun
    <3> QED BY <1>0, <3>3, <3>4, <3>5, HoldsStay
  <2> QED BY <2>1, <2>2
<1>6. ASSUME NEW u \in Users, GraceStep(u) PROVE ServerHold(v)' /\ UserHold(v)'
  <2>1. srv' = srv /\ balance' = balance /\ run' = run /\ mem' = mem
        /\ sLock' = sLock /\ uLock' = uLock
    BY <1>6 DEF GraceStep, ClearGrace, StampGrace, WarnAgain, NothingDue, SetGrace, locks
  <2> QED BY <1>0, <2>1, HoldsStay
<1>7. ASSUME NEW w \in Workers, NEW u \in Users, BeginPurge(w, u)
      PROVE  ServerHold(v)' /\ UserHold(v)'
  <2>1. CASE v # w
    BY <1>0, <1>7, <2>1, HoldsStay DEF BeginPurge, Receive, TypeOK, rows
  <2>2. CASE v = w
    <3> DEFINE S == {s \in HourlyOf(u) : srv[s].status # "deleted"}
    <3>1. /\ run'[v] = Purging(S) /\ mem'[v] = mem[v]
          /\ S \in SUBSET Servers
      BY <1>0, <1>7, <2>2 DEF BeginPurge, TypeOK, HourlyOf
    <3>2. \A x \in Users : mem[v].spent[x] = 0
      BY <1>0, <1>7, <2>2 DEF BeginPurge, UserHold
    <3> QED
      BY <3>1, <3>2, RunStarts DEF ServerHold, UserHold, BillingOpen
  <2> QED BY <2>1, <2>2
<1>8. ASSUME NEW w \in Workers, NEW u \in Users, CommitPurge(w, u)
      PROVE  ServerHold(v)' /\ UserHold(v)'
  <2>1. CASE v = w
    BY <1>0, <1>8, <2>1, CloseHolds, HoldsClosed DEF CommitPurge
  <2>2. CASE v # w
    <3>1. \A s \in Servers : srv'[s].cycle = srv[s].cycle /\ srv'[s].anchor = srv[s].anchor
      BY <1>0, <1>8 DEF CommitPurge, TypeOK, ServerRow
    <3>2. balance' = balance
      BY <1>8 DEF CommitPurge
    <3> QED BY <1>0, <1>8, <2>2, <3>1, <3>2, CloseHolds, HoldsStay DEF CommitPurge
  <2> QED BY <2>1, <2>2
<1>9. ASSUME NEW h \in Handlers, NEW s \in Servers, BeginConvert(h, s)
      PROVE  ServerHold(v)' /\ UserHold(v)'
  BY <1>0, <1>9, HoldsStay DEF BeginConvert, ServerFree, TypeOK, rows
<1>10. ASSUME NEW h \in Handlers, PayConvert(h) PROVE ServerHold(v)' /\ UserHold(v)'
  <2>1. /\ sLock[conv[h]] = h /\ conv[h] \in Servers
        /\ uLock[Owner[conv[h]]] \in {Nobody, h}
    BY <1>0, <1>10 DEF PayConvert, UserFree, IInv, ConvertHold, TypeOK
  <2>2. \A s \in Servers : sLock[s] = v => sLock'[s] = v /\ srv'[s] = srv[s]
    BY <1>0, <1>10, <2>1 DEF PayConvert, Release, TypeOK
  <2>3. \A u \in Users : (uLock'[u] = v <=> uLock[u] = v)
                         /\ (uLock[u] = v => balance'[u] = balance[u])
    BY <1>0, <1>10, <2>1 DEF PayConvert, Release, TypeOK
  <2> QED BY <1>0, <1>10, <2>2, <2>3, HoldsStay DEF PayConvert
<1>11. ASSUME NEW h \in Handlers, RefuseConvert(h) PROVE ServerHold(v)' /\ UserHold(v)'
  BY <1>0, <1>11, HoldsStay DEF RefuseConvert, Release, TypeOK, rows
<1>12. ASSUME NEW u \in Users, Credit(u) PROVE ServerHold(v)' /\ UserHold(v)'
  BY <1>0, <1>12, HoldsStay DEF Credit, TypeOK, locks
<1>18. ASSUME NEW u \in Users, GatewayStep(u) PROVE ServerHold(v)' /\ UserHold(v)'
  BY <1>0, <1>18, GatewayWrites, HoldsStay
<1>13. ASSUME NEW s \in Servers, ServerStep(s) PROVE ServerHold(v)' /\ UserHold(v)'
  <2>1. \A r \in Servers : sLock[r] = v => srv'[r] = srv[r]
    BY <1>0, <1>13 DEF ServerStep, Suspend, Unsuspend, Delete, WriteServer, TypeOK
  <2>2. /\ balance' = balance /\ run' = run /\ mem' = mem
        /\ sLock' = sLock /\ uLock' = uLock
    BY <1>13 DEF ServerStep, Suspend, Unsuspend, Delete, WriteServer, locks
  <2> QED BY <1>0, <2>1, <2>2, HoldsStay
<1>14. ASSUME NEW p \in Procs, Rollback(p) PROVE ServerHold(v)' /\ UserHold(v)'
  <2>1. srv' = srv /\ balance' = balance
    BY <1>14 DEF Rollback, rows
  <2>2. CASE p \in Workers /\ p = v
    BY <1>0, <1>14, <2>2, CloseHolds, HoldsClosed DEF Rollback
  <2>3. CASE p \in Workers /\ p # v
    BY <1>0, <1>14, <2>1, <2>3, CloseHolds, HoldsStay DEF Rollback
  <2>4. CASE p \notin Workers
    BY <1>0, <1>14, <2>1, <2>4, HoldsStay DEF Rollback, Release, TypeOK
  <2> QED BY <2>2, <2>3, <2>4
<1>15. CASE RateChanges \/ Tick \/ Rest \/ UNCHANGED vars
  <2>1. /\ srv' = srv /\ balance' = balance /\ run' = run /\ mem' = mem
        /\ sLock' = sLock /\ uLock' = uLock
    BY <1>15 DEF RateChanges, Tick, Rest, vars, rows, locks
  <2> QED BY <1>0, <2>1, HoldsStay
<1>16. CASE \E w \in Workers : BillingStep(w)
  BY <1>1, <1>2, <1>3, <1>4, <1>5, <1>7, <1>8, <1>16 DEF BillingStep
<1>17. CASE \E h \in Handlers : ConvertStep(h)
  BY <1>9, <1>10, <1>11, <1>17 DEF ConvertStep
<1> QED
  BY <1>6, <1>12, <1>13, <1>14, <1>15, <1>16, <1>17, <1>18 DEF Next

(***************************************************************************)
(* The locks of the conversions, and the books.                            *)
(***************************************************************************)
LEMMA StepConverts == IInv /\ [Next]_vars => ConvertHold'
<1> SUFFICES ASSUME IInv, [Next]_vars, NEW g \in Handlers, conv'[g] # NoServer
             PROVE  sLock'[conv'[g]] = g
  BY DEF ConvertHold
<1>0. /\ TypeOK
      /\ conv[g] # NoServer => sLock[conv[g]] = g /\ conv[g] \in Servers
      /\ g # Nobody /\ g \notin Workers
  BY ProcsAssumption DEF IInv, TypeOK, ConvertHold
<1>1. CASE conv' = conv /\ \A s \in Servers : sLock[s] = g => sLock'[s] = g
  BY <1>0, <1>1
<1>2. ASSUME NEW w \in Workers, BillingStep(w)
      PROVE  conv' = conv /\ \A s \in Servers : sLock[s] = g => sLock'[s] = g
  <2>1. conv' = conv
    BY <1>2 DEF BillingStep, ListDue, LockServer, DebitHour, RefuseHour, CommitRun,
                BeginPurge, CommitPurge
  <2>2. ASSUME NEW s \in Servers, sLock[s] = g PROVE sLock'[s] = g
    <3>1. CASE CloseSession(w)
      BY <1>0, <2>2, <3>1, CloseHolds
    <3>2. CASE sLock' = sLock
      BY <2>2, <3>2
    <3>3. CASE \E r \in Servers : LockServer(w, r)
      BY <1>0, <2>2, <3>3 DEF LockServer, ServerFree, TypeOK
    <3> QED
      BY <1>2, <3>1, <3>2, <3>3
      DEF BillingStep, ListDue, DebitHour, RefuseHour, CommitRun, BeginPurge, CommitPurge,
          locks
  <2> QED BY <2>1, <2>2
<1>3. ASSUME NEW h \in Handlers, ConvertStep(h) PROVE sLock'[conv'[g]] = g
  <2>1. CASE \E s \in Servers : BeginConvert(h, s)
    BY <1>0, <2>1 DEF BeginConvert, ServerFree, TypeOK
  <2>2. CASE PayConvert(h) \/ RefuseConvert(h)
    BY <1>0, <2>2 DEF PayConvert, RefuseConvert, Release, TypeOK
  <2> QED BY <1>3, <2>1, <2>2 DEF ConvertStep
<1>4. ASSUME NEW p \in Procs, Rollback(p) PROVE sLock'[conv'[g]] = g
  <2>1. CASE p \in Workers
    BY <1>0, <1>4, <2>1, CloseHolds DEF Rollback
  <2>2. CASE p \notin Workers
    BY <1>0, <1>4, <2>2 DEF Rollback, Release, TypeOK, Procs
  <2> QED BY <2>1, <2>2
<1>5. ASSUME \/ \E u \in Users : GraceStep(u) \/ Credit(u) \/ GatewayStep(u)
             \/ \E s \in Servers : ServerStep(s)
             \/ RateChanges \/ Tick \/ Rest \/ UNCHANGED vars
      PROVE  conv' = conv /\ sLock' = sLock
  BY <1>5
  DEF GraceStep, ClearGrace, StampGrace, WarnAgain, NothingDue, SetGrace, Credit,
      GatewayStep, GatewayRead, GatewayWrite, GatewayDrop, ServerStep,
      Suspend, Unsuspend, Delete, WriteServer, RateChanges, Tick, Rest, vars, locks
<1> QED
  BY <1>1, <1>2, <1>3, <1>4, <1>5 DEF Next

LEMMA StepWallets == IInv /\ [Next]_vars => Ledger' /\ NoOverdraft' /\ QuoteReal'
<1> SUFFICES ASSUME IInv, [Next]_vars PROVE Ledger' /\ NoOverdraft' /\ QuoteReal'
  OBVIOUS
<1>0. /\ TypeOK /\ Ledger /\ NoOverdraft /\ QuoteReal
      /\ FirstBalance \in Int /\ MonthPrice \in Nat /\ TopUp \in Nat
  BY AmountsAssumption DEF IInv
<1>8. ASSUME ~\E u \in Users : GatewayStep(u) PROVE till' = till /\ slip' = slip
  BY <1>8, GateStays DEF gate
<1>9. ASSUME ~\E u \in Users : GatewayStep(u), Ledger' /\ NoOverdraft'
      PROVE  Ledger' /\ NoOverdraft' /\ QuoteReal'
  BY <1>0, <1>8, <1>9 DEF QuoteReal
<1>1. CASE UNCHANGED <<balance, net>> /\ ~\E u \in Users : GatewayStep(u)
  BY <1>0, <1>1, <1>8 DEF Ledger, NoOverdraft, QuoteReal
<1>10. ASSUME NEW u \in Users, GatewayStep(u) PROVE Ledger' /\ NoOverdraft' /\ QuoteReal'
  <2>1. /\ till[u].seen \in Int /\ till[u].seen >= 0 /\ TopUp \in Nat
        /\ \A v \in Users : balance[v] \in Int /\ net[v] \in Int /\ slip[v] \in Int
    BY <1>0 DEF TypeOK, Till, QuoteReal
  <2>2. CASE GatewayRead(u)
    BY <1>0, <2>1, <2>2 DEF GatewayRead, Ledger, NoOverdraft, QuoteReal, TypeOK, rows, books
  <2>3. CASE GatewayWrite(u)
    <3>1. /\ balance'[u] = till[u].seen + TopUp /\ net'[u] = net[u] + TopUp
          /\ slip'[u] = slip[u] + till[u].seen - balance[u] /\ till'[u].seen = 0
      BY <1>0, <2>1, <2>3 DEF GatewayWrite, TypeOK, TillClosed
    <3>2. \A v \in Users \ {u} : /\ balance'[v] = balance[v] /\ net'[v] = net[v]
                                 /\ slip'[v] = slip[v] /\ till'[v] = till[v]
      BY <1>0, <2>3 DEF GatewayWrite, TypeOK
    <3> QED BY <1>0, <2>1, <3>1, <3>2 DEF Ledger, NoOverdraft, QuoteReal
  <2>4. CASE GatewayDrop(u)
    BY <1>0, <2>1, <2>4
    DEF GatewayDrop, TillClosed, Ledger, NoOverdraft, QuoteReal, TypeOK, rows, books
  <2> QED BY <1>10, <2>2, <2>3, <2>4 DEF GatewayStep
<1> SUFFICES ASSUME ~\E u \in Users : GatewayStep(u) PROVE Ledger' /\ NoOverdraft' /\ QuoteReal'
  BY <1>10
<1>11. slip' = slip /\ slip \in [Users -> Int]
  BY <1>0, <1>8 DEF TypeOK
<1>2. ASSUME NEW w \in Workers, CommitRun(w) PROVE Ledger' /\ NoOverdraft'
  <2>1. ASSUME NEW u \in Users
        PROVE  /\ balance'[u] = balance[u] - mem[w].spent[u]
               /\ balance'[u] >= 0
               /\ mem[w].spent[u] \in Int
    <3>1. mem[w].spent[u] \in Int /\ balance[u] \in Int
      BY <1>0 DEF TypeOK, SessionMap
    <3>2. UserHold(w) /\ BillingOpen(w)
      BY <1>2 DEF IInv, CommitRun, BillingOpen
    <3>3. CASE u \in run[w].ok
      BY <1>0, <1>2, <3>1, <3>2, <3>3 DEF CommitRun, UserHold
    <3>4. CASE u \notin run[w].ok
      BY <1>0, <1>2, <3>1, <3>2, <3>4 DEF CommitRun, UserHold, NoOverdraft
    <3> QED BY <3>1, <3>3, <3>4
  <2>2. \A u \in Users : net'[u] = net[u] - mem[w].spent[u]
    BY <1>2 DEF CommitRun
  <2> QED BY <1>0, <1>11, <2>1, <2>2 DEF Ledger, NoOverdraft, TypeOK
<1>3. ASSUME NEW h \in Handlers, PayConvert(h) PROVE Ledger' /\ NoOverdraft'
  <2>1. conv[h] \in Servers /\ Owner[conv[h]] \in Users
    BY <1>0, <1>3, ServersAssumption DEF PayConvert, TypeOK
  <2>2. \A u \in Users :
          /\ balance'[u] = IF u = Owner[conv[h]] THEN balance[u] - MonthPrice ELSE balance[u]
          /\ net'[u] = IF u = Owner[conv[h]] THEN net[u] - MonthPrice ELSE net[u]
    BY <1>0, <1>3, <2>1 DEF PayConvert, TypeOK
  <2>3. balance[Owner[conv[h]]] >= MonthPrice
    BY <1>3 DEF PayConvert
  <2> QED BY <1>0, <1>11, <2>1, <2>2, <2>3 DEF Ledger, NoOverdraft, TypeOK
<1>4. ASSUME NEW u \in Users, Credit(u) PROVE Ledger' /\ NoOverdraft'
  BY <1>0, <1>4, <1>11 DEF Credit, Ledger, NoOverdraft, TypeOK
<1>5. ASSUME NEW w \in Workers, BillingStep(w), ~CommitRun(w) PROVE UNCHANGED <<balance, net>>
  BY <1>5 DEF BillingStep, ListDue, LockServer, DebitHour, RefuseHour, BeginPurge,
              CommitPurge, rows, books
<1>6. ASSUME NEW h \in Handlers, ConvertStep(h), ~PayConvert(h)
      PROVE  UNCHANGED <<balance, net>>
  BY <1>6 DEF ConvertStep, BeginConvert, RefuseConvert, rows, books
<1>7. ASSUME \/ \E u \in Users : GraceStep(u)
             \/ \E s \in Servers : ServerStep(s)
             \/ \E p \in Procs : Rollback(p)
             \/ RateChanges \/ Tick \/ Rest \/ UNCHANGED vars
      PROVE  UNCHANGED <<balance, net>>
  BY <1>7
  DEF GraceStep, ClearGrace, StampGrace, WarnAgain, NothingDue, SetGrace, ServerStep, Suspend,
      Unsuspend, Delete, WriteServer, Rollback, RateChanges, Tick, Rest, vars, rows, books
<1> QED
  BY <1>1, <1>2, <1>3, <1>4, <1>5, <1>6, <1>7, <1>9 DEF Next

LEMMA StepAnchors == IInv /\ [Next]_vars => AnchorAfterCreation' /\ HoursMatchDebits'
<1> SUFFICES ASSUME IInv, [Next]_vars, NEW s \in Servers
             PROVE  /\ srv'[s].anchor >= Created[s]
                    /\ srv'[s].anchor = base'[s] + Hour * paid'[s]
  BY DEF AnchorAfterCreation, HoursMatchDebits
<1>0. /\ TypeOK
      /\ srv[s].anchor >= Created[s] /\ srv[s].anchor = base[s] + Hour * paid[s]
      /\ srv[s] \in ServerRow /\ srv[s].anchor \in Int /\ base[s] \in Int /\ paid[s] \in Nat
      /\ now \in Nat /\ Hour \in Nat /\ Created[s] \in Int /\ Created[s] <= 0
  BY ServersAssumption, AmountsAssumption
  DEF IInv, TypeOK, AnchorAfterCreation, HoursMatchDebits, ServerRow
<1>1. CASE srv'[s].anchor = srv[s].anchor /\ base'[s] = base[s] /\ paid'[s] = paid[s]
  BY <1>0, <1>1
<1>2. ASSUME NEW a \in Int, a >= Created[s],
             srv'[s].anchor = a, base'[s] = a - Hour * paid[s], paid'[s] = paid[s]
      PROVE  /\ srv'[s].anchor >= Created[s]
             /\ srv'[s].anchor = base'[s] + Hour * paid'[s]
  <2> DEFINE k == Hour * paid[s]
  <2>1. k \in Int
    BY <1>0
  <2>2. srv'[s].anchor = a /\ base'[s] = a - k /\ Hour * paid'[s] = k
    BY <1>2
  <2> HIDE DEF k
  <2> QED BY <1>2, <2>1, <2>2
<1>3. ASSUME NEW w \in Workers, CommitRun(w)
      PROVE  /\ srv'[s].anchor >= Created[s]
             /\ srv'[s].anchor = base'[s] + Hour * paid'[s]
  <2>1. CASE s \notin run[w].charged
    BY <1>1, <1>3, <2>1 DEF CommitRun
  <2>2. CASE s \in run[w].charged
    <3>1. srv'[s].anchor = srv[s].anchor + Hour
      <4>1. mem[w].anchor[s] = srv[s].anchor + Hour
        BY <2>2 DEF IInv, ServerHold
      <4>2. srv'[s] = [srv[s] EXCEPT !.anchor = mem[w].anchor[s]]
        BY <1>3, <2>2 DEF CommitRun
      <4> QED BY <1>0, <4>1, <4>2 DEF ServerRow
    <3>2. paid'[s] = paid[s] + 1 /\ base'[s] = base[s]
      BY <1>3, <2>2 DEF CommitRun
    <3>3. Hour * paid'[s] = Hour * paid[s] + Hour
      BY <1>0, <3>2, OneMoreHour
    <3> DEFINE k == Hour * paid[s]
    <3>4. k \in Int /\ srv[s].anchor = base[s] + k /\ Hour * paid'[s] = k + Hour
      BY <1>0, <3>3
    <3> HIDE DEF k
    <3> QED BY <1>0, <3>1, <3>2, <3>4
  <2> QED BY <2>1, <2>2
<1>4. ASSUME NEW w \in Workers, BillingStep(w), ~CommitRun(w)
      PROVE  srv'[s].anchor = srv[s].anchor /\ base'[s] = base[s] /\ paid'[s] = paid[s]
  <2>1. base' = base /\ paid' = paid
    BY <1>4 DEF BillingStep, ListDue, LockServer, DebitHour, RefuseHour, BeginPurge,
                CommitPurge, books
  <2>2. CASE srv' = srv
    BY <2>1, <2>2
  <2>3. CASE \E u \in Users : CommitPurge(w, u)
    BY <1>0, <2>1, <2>3 DEF CommitPurge, ServerRow
  <2> QED
    BY <1>4, <2>2, <2>3
    DEF BillingStep, ListDue, LockServer, DebitHour, RefuseHour, BeginPurge, rows
<1>5. ASSUME NEW h \in Handlers, ConvertStep(h)
      PROVE  /\ srv'[s].anchor >= Created[s]
             /\ srv'[s].anchor = base'[s] + Hour * paid'[s]
  <2>1. CASE PayConvert(h) /\ conv[h] = s
    <3>1. srv'[s] = [srv[s] EXCEPT !.cycle = "monthly", !.anchor = now]
      BY <1>0, <2>1 DEF PayConvert, TypeOK
    <3>2. srv'[s].anchor = now
      BY <1>0, <3>1 DEF ServerRow
    <3>3. base'[s] = now - Hour * paid[s] /\ paid'[s] = paid[s]
      BY <1>0, <2>1 DEF PayConvert, TypeOK
    <3> QED BY <1>0, <1>2, <3>2, <3>3
  <2>2. CASE PayConvert(h) /\ conv[h] # s
    <3>1. srv'[s] = srv[s] /\ base'[s] = base[s] /\ paid'[s] = paid[s]
      BY <1>0, <2>2 DEF PayConvert, TypeOK
    <3> QED BY <1>1, <3>1
  <2>3. CASE ~PayConvert(h)
    BY <1>1, <1>5, <2>3 DEF ConvertStep, BeginConvert, RefuseConvert, rows, books
  <2> QED BY <2>1, <2>2, <2>3
<1>6. ASSUME NEW r \in Servers, ServerStep(r)
      PROVE  /\ srv'[s].anchor >= Created[s]
             /\ srv'[s].anchor = base'[s] + Hour * paid'[s]
  <2>1. CASE r # s
    <3>1. srv'[s] = srv[s] /\ base'[s] = base[s] /\ paid' = paid
      BY <1>0, <1>6, <2>1
      DEF ServerStep, Suspend, Unsuspend, Delete, WriteServer, TypeOK
    <3> QED BY <1>1, <3>1
  <2>2. CASE r = s /\ (Suspend(r) \/ Delete(r))
    <3>1. srv'[s].anchor = srv[s].anchor /\ base' = base /\ paid' = paid
      BY <1>0, <2>2 DEF Suspend, Delete, WriteServer, TypeOK, ServerRow
    <3> QED BY <1>1, <3>1
  <2>3. CASE r = s /\ Unsuspend(r)
    <3> DEFINE a == IF srv[s].cycle = "hourly" THEN GridNow(s) ELSE srv[s].anchor
    <3>1. a \in Int /\ a >= Created[s]
      BY <1>0, GridIsReal DEF GridNow
    <3>2. srv'[s] = [srv[s] EXCEPT !.status = "active", !.anchor = a]
      BY <1>0, <2>3 DEF Unsuspend, WriteServer, TypeOK
    <3>3. base'[s] = a - Hour * paid[s] /\ paid'[s] = paid[s]
      BY <1>0, <2>3 DEF Unsuspend, WriteServer, TypeOK
    <3> HIDE DEF a
    <3>4. srv'[s].anchor = a
      BY <1>0, <3>2 DEF ServerRow
    <3> QED BY <1>2, <3>1, <3>3, <3>4
  <2> QED BY <1>6, <2>1, <2>2, <2>3 DEF ServerStep
<1>7. ASSUME \/ \E u \in Users : GraceStep(u) \/ Credit(u) \/ GatewayStep(u)
             \/ \E p \in Procs : Rollback(p)
             \/ RateChanges \/ Tick \/ Rest \/ UNCHANGED vars
      PROVE  srv' = srv /\ base' = base /\ paid' = paid
  BY <1>7
  DEF GraceStep, ClearGrace, StampGrace, WarnAgain, NothingDue, SetGrace, Credit,
      GatewayStep, GatewayRead, GatewayWrite, GatewayDrop, Rollback,
      RateChanges, Tick, Rest, vars, rows, books
<1> QED
  BY <1>1, <1>3, <1>4, <1>5, <1>6, <1>7 DEF Next

(***************************************************************************)
(* The induction.                                                          *)
(***************************************************************************)
LEMMA InitInvariant == Init => IInv
<1> SUFFICES ASSUME Init PROVE IInv
  OBVIOUS
<1>1. TypeOK
  BY InitTypes
<1>2. ASSUME NEW w \in Workers PROVE ServerHold(w) /\ UserHold(w)
  <2>1. run[w] = IdleRun /\ mem[w] = Blank /\ \A u \in Users : uLock[u] # w
    BY ProcsAssumption DEF Init
  <2> QED BY <2>1, RunStarts, BlankSession DEF ServerHold, UserHold, BillingOpen
<1>3. ConvertHold
  BY DEF Init, ConvertHold
<1>4. AnchorAfterCreation /\ HoursMatchDebits
  <2>1. ASSUME NEW s \in Servers
        PROVE  srv[s].anchor = Created[s] /\ base[s] = Created[s] /\ paid[s] = 0
               /\ Created[s] \in Int
    BY ServersAssumption DEF Init
  <2> QED BY <2>1, AmountsAssumption DEF AnchorAfterCreation, HoursMatchDebits
<1>5. Ledger /\ NoOverdraft /\ QuoteReal
  BY AmountsAssumption DEF Init, Ledger, NoOverdraft, QuoteReal, TillClosed
<1> QED BY <1>1, <1>2, <1>3, <1>4, <1>5 DEF IInv

\* The invariant of the billing transactions: everything below follows from it.
THEOREM InductiveInvariant == Spec => []IInv
<1>1. IInv /\ [Next]_vars => IInv'
  <2>1. ASSUME IInv, [Next]_vars PROVE IInv'
    <3>1. TypeOK' /\ ConvertHold' /\ AnchorAfterCreation' /\ HoursMatchDebits' /\ Ledger'
          /\ NoOverdraft' /\ QuoteReal' /\ \A w \in Workers : ServerHold(w)' /\ UserHold(w)'
      BY <2>1, StepTypes, StepHolds, StepConverts, StepWallets, StepAnchors
    <3> QED BY <3>1 DEF IInv
  <2> QED BY <2>1
<1> QED BY InitInvariant, <1>1, PTL DEF Spec

\* Every reachable state is well typed, whatever the servers, the users and the processes are.
THEOREM TypeCorrect == Spec => []TypeOK
<1>1. IInv => TypeOK
  BY DEF IInv
<1> QED BY InductiveInvariant, <1>1, PTL

\* No change of a wallet is ever lost: the balance is the first balance plus what the
\* transactions say, although credit, debit and the conversions compute it in memory.
THEOREM LedgerKept == Spec => []Ledger
<1>1. IInv => Ledger
  BY DEF IInv
<1> QED BY InductiveInvariant, <1>1, PTL

\* No wallet is overdrawn.
THEOREM NeverOverdrawn == Spec => []NoOverdraft
<1>1. IInv => NoOverdraft
  BY DEF IInv
<1> QED BY InductiveInvariant, <1>1, PTL

\* The anchor moves by one hour with every hourly debit, and by nothing else.
THEOREM HoursAreDebits == Spec => []HoursMatchDebits
<1>1. IInv => HoursMatchDebits
  BY DEF IInv
<1> QED BY InductiveInvariant, <1>1, PTL

\* A server converted to monthly is never debited an hour, although the run that listed it
\* before does not look at the list again: the row lock and the re-read are enough.
THEOREM ConvertedNeverDebited == Spec => MonthlyNeverDebitedHourly
<1>1. IInv /\ [Next]_vars =>
        [\A s \in Servers : paid'[s] # paid[s] => srv[s].cycle = "hourly"]_vars
  <2> SUFFICES ASSUME IInv, [Next]_vars, NEW s \in Servers, paid'[s] # paid[s]
               PROVE  srv[s].cycle = "hourly"
    OBVIOUS
  <2>1. CASE \E w \in Workers : CommitRun(w)
    BY <2>1 DEF CommitRun, IInv, ServerHold
  <2>2. ASSUME NEW w \in Workers, BillingStep(w), ~CommitRun(w) PROVE paid' = paid
    BY <2>2 DEF BillingStep, ListDue, LockServer, DebitHour, RefuseHour, BeginPurge,
                CommitPurge, books
  <2>3. ASSUME NEW h \in Handlers, ConvertStep(h) PROVE paid' = paid
    BY <2>3 DEF ConvertStep, BeginConvert, PayConvert, RefuseConvert, books
  <2>4. ASSUME NEW r \in Servers, ServerStep(r) PROVE paid' = paid
    BY <2>4 DEF ServerStep, Suspend, Unsuspend, Delete, WriteServer
  <2>5. ASSUME \/ \E u \in Users : GraceStep(u) \/ Credit(u) \/ GatewayStep(u)
               \/ \E p \in Procs : Rollback(p)
               \/ RateChanges \/ Tick \/ Rest \/ UNCHANGED vars
        PROVE  paid' = paid
    BY <2>5
    DEF GraceStep, ClearGrace, StampGrace, WarnAgain, NothingDue, SetGrace, Credit,
      GatewayStep, GatewayRead, GatewayWrite, GatewayDrop, Rollback,
        RateChanges, Tick, Rest, vars, books
  <2> QED
    BY <2>1, <2>2, <2>3, <2>4, <2>5 DEF Next
<1> QED BY InductiveInvariant, <1>1, PTL DEF Spec, MonthlyNeverDebitedHourly

(***************************************************************************)
(* How far ahead overlapping runs can charge.  Every open run that still   *)
(* has the server on its list may add one hour.                            *)
(***************************************************************************)
Pending(s) ==
  {w \in Workers : BillingOpen(w) /\ s \in run[w].todo \cup run[w].charged \cup {run[w].at}}

Ahead == \A s \in Servers :
  srv[s].anchor + Hour * Cardinality(Pending(s)) <= now + Hour * Cardinality(Workers)

LEMMA HoursAddUp ==
  \A m, n \in Nat : /\ Hour * m \in Nat
                    /\ m <= n => Hour * m <= Hour * n
  BY AmountsAssumption

LEMMA FewPending ==
  ASSUME NEW S \in SUBSET Workers, NEW T \in SUBSET S
  PROVE  /\ Cardinality(S) \in Nat /\ Cardinality(T) \in Nat
         /\ Cardinality(T) <= Cardinality(S)
         /\ Hour * Cardinality(T) <= Hour * Cardinality(S)
         /\ Hour * Cardinality(S) \in Nat /\ Hour * Cardinality(T) \in Nat
<1>1. IsFiniteSet(S) /\ IsFiniteSet(T)
  BY ProcsAssumption, FS_Subset
<1>2. /\ Cardinality(S) \in Nat /\ Cardinality(T) \in Nat
      /\ Cardinality(T) <= Cardinality(S)
  BY <1>1, FS_Subset, FS_CardinalityType
<1> QED BY <1>2, HoursAddUp

LEMMA StepAhead == IInv /\ Ahead /\ [Next]_vars => Ahead'
<1> SUFFICES ASSUME IInv, Ahead, [Next]_vars, NEW s \in Servers
             PROVE  srv'[s].anchor + Hour * Cardinality(Pending(s)')
                      <= now' + Hour * Cardinality(Workers)
  BY DEF Ahead
<1> DEFINE before == Hour * Cardinality(Pending(s))
           after  == Hour * Cardinality(Pending(s)')
           all    == Hour * Cardinality(Workers)
<1>0. /\ TypeOK
      /\ srv[s] \in ServerRow /\ srv[s].anchor \in Int /\ now \in Nat /\ now' \in Nat
      /\ Hour \in Nat
      /\ Pending(s) \in SUBSET Workers /\ Pending(s)' \in SUBSET Workers
  BY StepTypes, AmountsAssumption DEF IInv, TypeOK, ServerRow, Pending
<1>a. srv[s].anchor + before <= now + all
  BY DEF Ahead
<1>b. before \in Nat /\ after \in Nat /\ all \in Nat /\ after <= all
  BY <1>0, FewPending
<1>c. Pending(s)' \subseteq Pending(s) => after <= before
  BY <1>0, FewPending
<1> HIDE DEF before, after, all
\* a step that neither lists the server nor moves its anchor
<1>1. CASE srv'[s].anchor = srv[s].anchor /\ now' >= now /\ Pending(s)' \subseteq Pending(s)
  <2>1. srv'[s].anchor + after <= now' + all
    BY <1>0, <1>1, <1>a, <1>b, <1>c
  <2> QED BY <2>1 DEF after, all
\* a step after which the anchor is not in the future
<1>2. CASE srv'[s].anchor \in Int /\ srv'[s].anchor <= now'
  <2>1. srv'[s].anchor + after <= now' + all
    BY <1>0, <1>2, <1>b
  <2> QED BY <2>1 DEF after, all
<1>3. ASSUME NEW w \in Workers, ListDue(w)
      PROVE  srv'[s].anchor + Hour * Cardinality(Pending(s)')
               <= now' + Hour * Cardinality(Workers)
  <2>1. srv' = srv /\ now' = now
    BY <1>3 DEF ListDue, rows
  <2>2. CASE Due(s)
    BY <1>0, <1>2, <2>1, <2>2 DEF Due
  <2>3. CASE ~Due(s)
    <3>1. run' = [run EXCEPT ![w] = Listed({r \in Servers : Due(r)})]
          /\ run \in [Workers -> RunState]
      BY <1>0, <1>3 DEF ListDue, TypeOK
    <3>2. s \notin Listed({r \in Servers : Due(r)}).todo
                   \cup Listed({r \in Servers : Due(r)}).charged
                   \cup {Listed({r \in Servers : Due(r)}).at}
      BY <2>3, ServersAssumption DEF Listed, IdleRun
    <3>3. Pending(s)' \subseteq Pending(s)
      BY <3>1, <3>2 DEF Pending, BillingOpen
    <3> QED BY <1>0, <1>1, <2>1, <3>3
  <2> QED BY <2>2, <2>3
<1>4. ASSUME NEW w \in Workers, NEW r \in Servers, LockServer(w, r)
      PROVE  srv' = srv /\ now' = now /\ Pending(s)' \subseteq Pending(s)
  <2>1. srv' = srv /\ now' = now /\ run[w].pc = "listed" /\ r \in run[w].todo
    BY <1>4 DEF LockServer, rows
  <2>2. /\ run \in [Workers -> RunState] /\ run[w] \in RunState
        /\ run' = [run EXCEPT ![w] = IF Chargeable(r) THEN Paying(@, r) ELSE Skipped(@, r)]
    BY <1>0, <1>4 DEF LockServer, TypeOK
  <2>3. /\ run'[w].todo \subseteq run[w].todo /\ run'[w].charged = run[w].charged
        /\ run'[w].at \in {run[w].at, r}
    BY <2>2, PayingMove, SkippedMove
  <2>4. \A v \in Workers \ {w} : run'[v] = run[v]
    BY <2>2
  <2> QED BY <2>1, <2>3, <2>4 DEF Pending, BillingOpen
<1>5. ASSUME NEW w \in Workers, DebitHour(w) \/ RefuseHour(w)
      PROVE  srv' = srv /\ now' = now /\ Pending(s)' \subseteq Pending(s)
  <2>1. srv' = srv /\ now' = now /\ run[w].pc = "paying"
    BY <1>5 DEF DebitHour, RefuseHour, rows
  <2>2. /\ run \in [Workers -> RunState] /\ run[w] \in RunState /\ run[w].at \in Servers
        /\ run' = [run EXCEPT ![w] = Paid(@, run[w].at)]
             \/ run' = [run EXCEPT ![w] = Refused(@, run[w].at)]
    BY <1>0, <1>5 DEF DebitHour, RefuseHour, TypeOK, IInv, ServerHold
  <2>3. /\ Paid(run[w], run[w].at).at = NoServer /\ Refused(run[w], run[w].at).at = NoServer
    BY <2>2 DEF Paid, Refused, Done, RunState
  <2>4. /\ run'[w].todo \subseteq run[w].todo
        /\ run'[w].charged \subseteq run[w].charged \cup {run[w].at}
        /\ run'[w].at = NoServer
    <3> DEFINE r == run[w].at
    <3>1. /\ Paid(run[w], r).todo = run[w].todo \ {r}
          /\ Paid(run[w], r).charged = run[w].charged \cup {r}
          /\ Refused(run[w], r).todo = run[w].todo \ {r}
          /\ Refused(run[w], r).charged = run[w].charged
      BY <2>2, PaidMove, RefusedMove
    <3>2. run'[w] = Paid(run[w], r) \/ run'[w] = Refused(run[w], r)
      BY <2>2
    <3> QED BY <2>3, <3>1, <3>2
  <2>5. \A v \in Workers \ {w} : run'[v] = run[v]
    BY <2>2
  <2> QED BY <2>1, <2>4, <2>5, ServersAssumption DEF Pending, BillingOpen
\* a session that ends drops out of Pending, and no other session joins it
<1>6. ASSUME NEW w \in Workers, CloseSession(w)
      PROVE  Pending(s)' \subseteq Pending(s) \ {w}
  <2>1. run'[w].pc = "idle" /\ \A v \in Workers \ {w} : run'[v] = run[v]
    BY <1>0, <1>6, CloseHolds, RunStarts
  <2> QED BY <2>1 DEF Pending, BillingOpen
<1>7. ASSUME NEW w \in Workers, CommitRun(w)
      PROVE  srv'[s].anchor + Hour * Cardinality(Pending(s)')
               <= now' + Hour * Cardinality(Workers)
  <2>1. now' = now /\ Pending(s)' \subseteq Pending(s) \ {w}
    BY <1>6, <1>7 DEF CommitRun
  <2>2. CASE s \notin run[w].charged
    BY <1>0, <1>1, <1>7, <2>1, <2>2 DEF CommitRun
  <2>3. CASE s \in run[w].charged
    <3>1. srv'[s].anchor = srv[s].anchor + Hour
      <4>1. mem[w].anchor[s] = srv[s].anchor + Hour
        BY <2>3 DEF IInv, ServerHold
      <4>2. srv'[s] = [srv[s] EXCEPT !.anchor = mem[w].anchor[s]]
        BY <1>7, <2>3 DEF CommitRun
      <4> QED BY <1>0, <4>1, <4>2 DEF ServerRow
    <3>2. w \in Pending(s)
      BY <1>7, <2>3 DEF CommitRun, Pending, BillingOpen
    <3>3. IsFiniteSet(Pending(s))
      BY <1>0, ProcsAssumption, FS_Subset
    <3>4. /\ Cardinality(Pending(s) \ {w}) = Cardinality(Pending(s)) - 1
          /\ Cardinality(Pending(s)) \in Nat /\ Cardinality(Pending(s) \ {w}) \in Nat
      BY <3>2, <3>3, FS_RemoveElement, FS_CardinalityType, FS_Subset
    <3>5. after <= Hour * Cardinality(Pending(s) \ {w})
      BY <1>0, <2>1, FewPending DEF after
    <3>6. before = Hour * Cardinality(Pending(s) \ {w}) + Hour
      <4>1. Cardinality(Pending(s)) = Cardinality(Pending(s) \ {w}) + 1
        BY <3>4
      <4> QED BY <3>4, <4>1, OneMoreHour DEF before
    <3>7. Hour * Cardinality(Pending(s) \ {w}) \in Nat
      BY <3>4, HoursAddUp
    <3>8. srv'[s].anchor + after <= now' + all
      <4> DEFINE rest == Hour * Cardinality(Pending(s) \ {w})
      <4>1. after <= rest /\ before = rest + Hour /\ rest \in Nat
        BY <3>5, <3>6, <3>7
      <4> HIDE DEF rest
      <4> QED BY <1>0, <1>a, <1>b, <2>1, <3>1, <4>1
    <3> QED BY <3>8 DEF after, all
  <2> QED BY <2>2, <2>3
<1>8. ASSUME NEW w \in Workers, NEW u \in Users, BeginPurge(w, u)
      PROVE  srv' = srv /\ now' = now /\ Pending(s)' \subseteq Pending(s)
  <2> DEFINE S == {r \in HourlyOf(u) : srv[r].status # "deleted"}
  <2>1. srv' = srv /\ now' = now /\ run' = [run EXCEPT ![w] = Purging(S)]
    BY <1>8 DEF BeginPurge, rows
  <2>2. Purging(S).pc = "purging"
    BY RunStarts DEF HourlyOf
  <2> QED BY <1>0, <2>1, <2>2 DEF Pending, BillingOpen, TypeOK
<1>9. ASSUME NEW w \in Workers, NEW u \in Users, CommitPurge(w, u)
      PROVE  srv'[s].anchor = srv[s].anchor /\ now' = now /\ Pending(s)' \subseteq Pending(s)
  BY <1>0, <1>6, <1>9 DEF CommitPurge, ServerRow
<1>10. ASSUME NEW h \in Handlers, ConvertStep(h)
       PROVE  /\ now' = now /\ Pending(s)' = Pending(s)
              /\ srv'[s].anchor \in {srv[s].anchor, now}
  <2>1. now' = now /\ run' = run
    BY <1>10 DEF ConvertStep, BeginConvert, PayConvert, RefuseConvert
  <2>2. srv'[s].anchor \in {srv[s].anchor, now}
    <3>1. CASE PayConvert(h) /\ conv[h] = s
      <4>1. srv'[s] = [srv[s] EXCEPT !.cycle = "monthly", !.anchor = now]
        BY <1>0, <3>1 DEF PayConvert, TypeOK
      <4>2. srv'[s].anchor = now
        BY <1>0, <4>1 DEF ServerRow
      <4> QED BY <4>2
    <3>2. CASE PayConvert(h) /\ conv[h] # s
      BY <1>0, <3>2 DEF PayConvert, TypeOK
    <3>3. CASE ~PayConvert(h)
      BY <1>10, <3>3 DEF ConvertStep, BeginConvert, RefuseConvert, rows
    <3> QED BY <3>1, <3>2, <3>3
  <2> QED BY <2>1, <2>2 DEF Pending, BillingOpen
<1>11. ASSUME NEW r \in Servers, ServerStep(r)
       PROVE  /\ now' = now /\ Pending(s)' = Pending(s)
              /\ srv'[s].anchor \in {srv[s].anchor, GridNow(s)}
  <2>1. now' = now /\ run' = run
    BY <1>11 DEF ServerStep, Suspend, Unsuspend, Delete, WriteServer
  <2>2. srv'[s].anchor \in {srv[s].anchor, GridNow(s)}
    <3>1. CASE Suspend(r) \/ Delete(r)
      <4>1. CASE r = s
        <5>1. srv'[s].anchor = srv[s].anchor
          BY <1>0, <3>1, <4>1 DEF Suspend, Delete, WriteServer, TypeOK, ServerRow
        <5> QED BY <5>1
      <4>2. CASE r # s
        <5>1. srv'[s] = srv[s]
          BY <1>0, <3>1, <4>2 DEF Suspend, Delete, WriteServer, TypeOK
        <5> QED BY <5>1
      <4> QED BY <4>1, <4>2
    <3>2. CASE Unsuspend(r)
      BY <1>0, <3>2 DEF Unsuspend, WriteServer, TypeOK, ServerRow
    <3> QED BY <1>11, <3>1, <3>2 DEF ServerStep
  <2> QED BY <2>1, <2>2 DEF Pending, BillingOpen
<1>12. GridNow(s) \in Int /\ GridNow(s) <= now
  <2> DEFINE d == now - Created[s]
  <2>1. d \in Nat /\ Created[s] \in Int /\ Hour \in Nat \ {0}
    BY <1>0, ServersAssumption, AmountsAssumption
  <2>2. (d \div Hour) * Hour \in Int /\ (d \div Hour) * Hour <= d
    <3> HIDE DEF d
    <3> QED BY <2>1
  <2> QED BY <1>0, <2>1, <2>2 DEF GridNow
<1>13. ASSUME NEW p \in Procs, Rollback(p)
       PROVE  srv' = srv /\ now' = now /\ Pending(s)' \subseteq Pending(s)
  <2>1. srv' = srv /\ now' = now
    BY <1>13 DEF Rollback, rows
  <2>2. CASE p \in Workers
    BY <1>6, <1>13, <2>1, <2>2 DEF Rollback
  <2>3. CASE p \notin Workers
    BY <1>13, <2>1, <2>3 DEF Rollback, Pending, BillingOpen
  <2> QED BY <2>2, <2>3
<1>14. ASSUME \/ \E u \in Users : GraceStep(u) \/ Credit(u) \/ GatewayStep(u)
              \/ RateChanges \/ Tick \/ Rest \/ UNCHANGED vars
       PROVE  srv' = srv /\ now' >= now /\ Pending(s)' = Pending(s)
  <2>1. srv' = srv /\ run' = run /\ now' >= now
    BY <1>0, <1>14
    DEF GraceStep, ClearGrace, StampGrace, WarnAgain, NothingDue, SetGrace, Credit,
      GatewayStep, GatewayRead, GatewayWrite, GatewayDrop,
        RateChanges, Tick, Rest, vars, rows
  <2> QED BY <2>1 DEF Pending, BillingOpen
<1>15. ASSUME NEW w \in Workers, BillingStep(w)
       PROVE  srv'[s].anchor + Hour * Cardinality(Pending(s)')
                <= now' + Hour * Cardinality(Workers)
  BY <1>0, <1>1, <1>3, <1>4, <1>5, <1>7, <1>8, <1>9, <1>15 DEF BillingStep
<1>16. CASE \E h \in Handlers : ConvertStep(h)
  BY <1>0, <1>1, <1>2, <1>10, <1>16
<1>17. CASE \E r \in Servers : ServerStep(r)
  BY <1>0, <1>1, <1>2, <1>11, <1>12, <1>17
<1>18. CASE \E p \in Procs : Rollback(p)
  BY <1>0, <1>1, <1>13, <1>18
<1>19. CASE \/ \E u \in Users : GraceStep(u) \/ Credit(u) \/ GatewayStep(u)
            \/ RateChanges \/ Tick \/ Rest \/ UNCHANGED vars
  BY <1>0, <1>1, <1>14, <1>19
<1> QED
  BY <1>15, <1>16, <1>17, <1>18, <1>19 DEF Next

\* Overlapping runs charge a server at most one hour per worker process ahead of the clock.
THEOREM PrepaymentBounded == Spec => []BoundedPrepayment
<1>1. Init => Ahead
  <2> SUFFICES ASSUME Init, NEW s \in Servers
               PROVE  srv[s].anchor + Hour * Cardinality(Pending(s))
                        <= now + Hour * Cardinality(Workers)
    BY DEF Ahead
  <2>1. srv[s].anchor \in Int /\ srv[s].anchor <= 0 /\ now = 0
    BY ServersAssumption DEF Init
  <2>2. Pending(s) \in SUBSET Workers
    BY DEF Pending
  <2> DEFINE k == Hour * Cardinality(Pending(s))
             n == Hour * Cardinality(Workers)
  <2>3. k <= n /\ k \in Nat /\ n \in Nat
    BY <2>2, FewPending
  <2> HIDE DEF k, n
  <2>4. srv[s].anchor + k <= now + n
    BY <2>1, <2>3
  <2> QED BY <2>4 DEF k, n
<1>2. IInv /\ Ahead => BoundedPrepayment
  <2> SUFFICES ASSUME IInv, Ahead, NEW s \in Servers
               PROVE  srv[s].anchor <= now + Hour * Cardinality(Workers)
    BY DEF BoundedPrepayment
  <2>1. Pending(s) \in SUBSET Workers /\ srv[s].anchor \in Int
    BY DEF Pending, IInv, TypeOK, ServerRow
  <2> DEFINE k == Hour * Cardinality(Pending(s))
             n == Hour * Cardinality(Workers)
  <2>2. k \in Nat /\ n \in Nat /\ now \in Nat /\ srv[s].anchor + k <= now + n
    BY <2>1, FewPending DEF IInv, TypeOK, Ahead
  <2> HIDE DEF k, n
  <2>3. srv[s].anchor <= now + n
    BY <2>1, <2>2
  <2> QED BY <2>3 DEF n
<1> QED BY <1>1, <1>2, StepAhead, InductiveInvariant, PTL DEF Spec

(***************************************************************************)
(* What the deletion of a broke user's servers rests on: while the task    *)
(* that deletes them holds the user row, nobody credits the user, drops    *)
(* the grace mark or converts one of the servers.                          *)
(***************************************************************************)
StampAfterCredit ==
  \A u \in Users : /\ funded[u] <= now
                   /\ grace[u].stamped => funded[u] <= grace[u].since

PurgeHold(w) ==
  run[w].pc = "purging" =>
    \A u \in Users : uLock[u] = w =>
      /\ grace[u].stamped /\ now >= grace[u].since + 3 * Hour
      /\ \A s \in run[w].todo : /\ Owner[s] = u /\ s \notin Reseller
                                /\ srv[s].cycle = "hourly"

PurgeInv == StampAfterCredit /\ \A w \in Workers : PurgeHold(w)

LEMMA StepStamps == IInv /\ PurgeInv /\ [Next]_vars => StampAfterCredit'
<1> SUFFICES ASSUME IInv, PurgeInv, [Next]_vars, NEW u \in Users
             PROVE  /\ funded'[u] <= now'
                    /\ grace'[u].stamped => funded'[u] <= grace'[u].since
  BY DEF StampAfterCredit
<1>0. /\ TypeOK
      /\ grace[u] \in GraceKeys /\ grace[u].since \in Nat /\ funded[u] \in Nat /\ now \in Nat
      /\ funded[u] <= now /\ (grace[u].stamped => funded[u] <= grace[u].since)
  BY DEF IInv, TypeOK, GraceKeys, PurgeInv, StampAfterCredit
<1>1. CASE funded'[u] = funded[u] /\ now' >= now /\ now' \in Nat /\ grace'[u] = grace[u]
  BY <1>0, <1>1
<1>2. CASE /\ funded'[u] \in {funded[u], now} /\ now' = now /\ ~grace'[u].stamped
  BY <1>0, <1>2
<1>3. ~NoGrace.stamped
  BY DEF NoGrace
<1>4. ASSUME NEW w \in Workers, CommitRun(w)
      PROVE  funded' = funded /\ now' = now /\ grace'[u] \in {grace[u], NoGrace}
  BY <1>4 DEF CommitRun, GraceAfterRun
<1>5. ASSUME NEW x \in Users, GraceStep(x)
      PROVE  /\ funded' = funded /\ now' = now
             /\ \/ grace'[u] = grace[u] \/ grace'[u] = NoGrace
                \/ grace'[u].since = now
                \/ grace'[u].since = grace[u].since /\ grace'[u].stamped = grace[u].stamped
  <2>1. funded' = funded /\ now' = now
    BY <1>5 DEF GraceStep, ClearGrace, StampGrace, WarnAgain, NothingDue, SetGrace, books
  <2>2. CASE x # u
    BY <1>0, <1>5, <2>1, <2>2
    DEF GraceStep, ClearGrace, StampGrace, WarnAgain, NothingDue, SetGrace, TypeOK
  <2>3. CASE x = u /\ ClearGrace(x)
    BY <1>0, <2>1, <2>3 DEF ClearGrace, SetGrace, TypeOK
  <2>4. CASE x = u /\ StampGrace(x)
    <3>1. grace'[u] = [stamped |-> TRUE, since |-> now, warn |-> 0]
      BY <1>0, <2>4 DEF StampGrace, SetGrace, TypeOK
    <3> QED BY <2>1, <3>1
  <2>5. CASE x = u /\ WarnAgain(x)
    <3>1. PICK k \in 1..2 : grace'[u] = [grace[u] EXCEPT !.warn = k]
      BY <1>0, <2>5 DEF WarnAgain, SetGrace, TypeOK
    <3>2. grace'[u].since = grace[u].since /\ grace'[u].stamped = grace[u].stamped
      BY <1>0, <3>1 DEF GraceKeys
    <3> QED BY <2>1, <3>2
  <2>6. CASE x = u /\ NothingDue(x)
    BY <1>0, <2>1, <2>6 DEF NothingDue, SetGrace, TypeOK
  <2> QED BY <1>5, <2>2, <2>3, <2>4, <2>5, <2>6 DEF GraceStep
<1>6. ASSUME NEW w \in Workers, NEW x \in Users, CommitPurge(w, x)
      PROVE  funded' = funded /\ now' = now /\ (grace'[u] = grace[u] \/ ~grace'[u].stamped)
  <2>1. funded' = funded /\ now' = now
    BY <1>6 DEF CommitPurge, books
  <2>2. CASE x = u
    <3>1. grace'[u] = [stamped |-> FALSE, since |-> 0, warn |-> 3]
      BY <1>0, <1>6, <2>2 DEF CommitPurge, TypeOK
    <3> QED BY <2>1, <3>1
  <2>3. CASE x # u
    BY <1>0, <1>6, <2>1, <2>3 DEF CommitPurge, TypeOK
  <2> QED BY <2>2, <2>3
<1>7. ASSUME NEW w \in Workers, BillingStep(w), ~CommitRun(w),
             ~\E x \in Users : CommitPurge(w, x)
      PROVE  funded' = funded /\ now' = now /\ grace' = grace
  BY <1>7 DEF BillingStep, ListDue, LockServer, DebitHour, RefuseHour, BeginPurge, rows, books
<1>8. ASSUME NEW h \in Handlers, ConvertStep(h)
      PROVE  funded' = funded /\ now' = now /\ grace'[u] \in {grace[u], NoGrace}
  <2>1. funded' = funded /\ now' = now
    BY <1>8 DEF ConvertStep, BeginConvert, PayConvert, RefuseConvert, books
  <2>2. CASE PayConvert(h)
    BY <1>0, <2>1, <2>2 DEF PayConvert, TypeOK
  <2>3. CASE ~PayConvert(h)
    BY <1>8, <2>1, <2>3 DEF ConvertStep, BeginConvert, RefuseConvert, rows
  <2> QED BY <2>2, <2>3
<1>9. ASSUME NEW x \in Users, Credit(x)
      PROVE  /\ now' = now
             /\ \/ funded'[u] = funded[u] /\ grace'[u] = grace[u]
                \/ funded'[u] = now /\ grace'[u] = NoGrace
  BY <1>0, <1>9 DEF Credit, GraceAfterCredit, TypeOK
<1>16. CASE \E x \in Users : GatewayStep(x)
  BY <1>0, <1>1, <1>16, GatewayWrites DEF StampAfterCredit, PurgeInv
<1>10. ASSUME \/ \E s \in Servers : ServerStep(s)
              \/ \E p \in Procs : Rollback(p)
              \/ RateChanges \/ Tick \/ Rest \/ UNCHANGED vars
       PROVE  funded' = funded /\ now' >= now /\ now' \in Nat /\ grace' = grace
  <2>1. funded' = funded /\ grace' = grace
    BY <1>10
    DEF ServerStep, Suspend, Unsuspend, Delete, WriteServer, Rollback, RateChanges, Tick,
        Rest, vars, rows, books
  <2>2. now' = now \/ now' = now + 1
    BY <1>10
    DEF ServerStep, Suspend, Unsuspend, Delete, WriteServer, Rollback, RateChanges, Tick,
        Rest, vars
  <2> QED BY <1>0, <2>1, <2>2
<1>11. CASE \E w \in Workers : BillingStep(w)
  BY <1>0, <1>1, <1>2, <1>3, <1>4, <1>6, <1>7, <1>11
<1>12. CASE \E x \in Users : GraceStep(x)
  BY <1>0, <1>1, <1>2, <1>3, <1>5, <1>12
<1>13. CASE \E h \in Handlers : ConvertStep(h)
  BY <1>0, <1>1, <1>2, <1>3, <1>8, <1>13
<1>14. CASE \E x \in Users : Credit(x)
  BY <1>0, <1>1, <1>2, <1>3, <1>9, <1>14
<1>15. CASE \/ \E s \in Servers : ServerStep(s)
            \/ \E p \in Procs : Rollback(p)
            \/ RateChanges \/ Tick \/ Rest \/ UNCHANGED vars
  BY <1>1, <1>10, <1>15
<1> QED
  BY <1>11, <1>12, <1>13, <1>14, <1>15, <1>16 DEF Next

\* A step that leaves the purging session, its user row and its servers alone keeps PurgeHold.
LEMMA PurgeStays ==
  ASSUME NEW w \in Workers, PurgeHold(w), run'[w] = run[w], run[w] \in RunState,
         now \in Nat, now' \in Nat, now' >= now, grace \in [Users -> GraceKeys], Hour \in Nat,
         \A u \in Users : uLock'[u] = w => uLock[u] = w,
         run[w].pc = "purging" =>
           \A u \in Users : uLock[u] = w =>
             /\ grace'[u] = grace[u]
             /\ \A s \in Servers : Owner[s] = u => srv'[s].cycle = srv[s].cycle
  PROVE  PurgeHold(w)'
<1> SUFFICES ASSUME run'[w].pc = "purging", NEW u \in Users, uLock'[u] = w
             PROVE  /\ grace'[u].stamped /\ now' >= grace'[u].since + 3 * Hour
                    /\ \A s \in run'[w].todo : /\ Owner[s] = u /\ s \notin Reseller
                                               /\ srv'[s].cycle = "hourly"
  BY DEF PurgeHold
<1>1. run[w].pc = "purging" /\ uLock[u] = w /\ grace'[u] = grace[u]
  OBVIOUS
<1>2. /\ grace[u].stamped /\ now >= grace[u].since + 3 * Hour
      /\ \A s \in run[w].todo : /\ Owner[s] = u /\ s \notin Reseller
                                /\ srv[s].cycle = "hourly"
  BY <1>1 DEF PurgeHold
<1>3. grace[u].since \in Nat
  BY DEF GraceKeys
<1>4. run[w].todo \subseteq Servers
  BY DEF RunState
<1> QED BY <1>1, <1>2, <1>3, <1>4

LEMMA StepPurges ==
  IInv /\ PurgeInv /\ [Next]_vars => \A v \in Workers : PurgeHold(v)'
<1> SUFFICES ASSUME IInv, PurgeInv, [Next]_vars, NEW v \in Workers PROVE PurgeHold(v)'
  OBVIOUS
<1>0. /\ TypeOK /\ PurgeHold(v) /\ run[v] \in RunState
      /\ now \in Nat /\ Hour \in Nat /\ grace \in [Users -> GraceKeys]
      /\ \A u \in Users : uLock[u] = v => run[v].pc # "idle"
      /\ v # Nobody /\ v \notin Handlers
  BY ProcsAssumption, AmountsAssumption DEF IInv, TypeOK, PurgeInv, UserHold
<1>1. CASE run'[v].pc # "purging"
  BY <1>1 DEF PurgeHold
<1>2. ASSUME NEW w \in Workers, CloseSession(w), w = v PROVE PurgeHold(v)'
  BY <1>0, <1>1, <1>2, CloseHolds, RunStarts
<1>3. ASSUME NEW w \in Workers, ListDue(w) \/ \E s \in Servers : LockServer(w, s)
      PROVE PurgeHold(v)'
  <2>1. /\ now' = now /\ grace' = grace /\ srv' = srv /\ uLock' = uLock
    BY <1>3 DEF ListDue, LockServer, rows, locks
  <2>2. CASE v # w
    <3>1. run'[v] = run[v]
      BY <1>0, <1>3, <2>2 DEF ListDue, LockServer, TypeOK
    <3> QED BY <1>0, <2>1, <3>1, PurgeStays
  <2>3. CASE v = w /\ ListDue(w)
    <3>1. run'[v] = Listed({s \in Servers : Due(s)})
      BY <1>0, <2>3 DEF ListDue, TypeOK
    <3> QED BY <1>1, <3>1, RunStarts
  <2>4. CASE v = w /\ \E s \in Servers : LockServer(w, s)
    <3>1. PICK s \in Servers : LockServer(w, s)
      BY <2>4
    <3>2. Paying(run[v], s).pc = "paying" /\ Skipped(run[v], s).pc = run[v].pc
      BY <1>0, PayingMove, SkippedMove
    <3>3. run'[v].pc \in {"paying", run[v].pc} /\ run[v].pc = "listed"
      BY <1>0, <2>4, <3>1, <3>2 DEF LockServer, TypeOK
    <3> QED BY <1>1, <3>3
  <2> QED BY <1>3, <2>2, <2>3, <2>4
<1>4. ASSUME NEW w \in Workers, DebitHour(w) \/ RefuseHour(w) PROVE PurgeHold(v)'
  <2>1. now' = now /\ grace' = grace /\ srv' = srv
    BY <1>4 DEF DebitHour, RefuseHour, rows
  <2>2. CASE v # w
    <3>1. run'[v] = run[v]
      BY <1>0, <1>4, <2>2 DEF DebitHour, RefuseHour, TypeOK
    <3>2. \A u \in Users : uLock'[u] = v => uLock[u] = v
      BY <1>0, <1>4, <2>2 DEF DebitHour, RefuseHour, TypeOK
    <3> QED BY <1>0, <2>1, <3>1, <3>2, PurgeStays
  <2>3. CASE v = w
    <3> DEFINE s == run[v].at
    <3>1. s \in Servers
      BY <1>4, <2>3 DEF DebitHour, RefuseHour, IInv, ServerHold
    <3>2. Paid(run[v], s).pc = "listed" /\ Refused(run[v], s).pc = "listed"
      BY <1>0, <3>1, PaidMove, RefusedMove
    <3>3. run'[v] = Paid(run[v], s) \/ run'[v] = Refused(run[v], s)
      BY <1>0, <1>4, <2>3 DEF DebitHour, RefuseHour, TypeOK
    <3> QED BY <1>1, <3>2, <3>3
  <2> QED BY <2>2, <2>3
<1>5. ASSUME NEW w \in Workers, CommitRun(w) PROVE PurgeHold(v)'
  <2>1. CASE v # w
    <3>1. /\ run'[v] = run[v] /\ \A u \in Users : uLock'[u] = v <=> uLock[u] = v
      BY <1>0, <1>5, <2>1, CloseHolds DEF CommitRun
    <3>2. \A u \in Users : uLock[u] = v => grace'[u] = grace[u]
      <4>1. \A u \in Users : u \in run[w].ok => uLock[u] = w
        BY DEF IInv, UserHold
      <4> QED BY <1>5, <2>1, <4>1 DEF CommitRun, GraceAfterRun
    <3>3. \A s \in Servers : srv'[s].cycle = srv[s].cycle
      BY <1>0, <1>5 DEF CommitRun, TypeOK, ServerRow
    <3>4. now' = now
      BY <1>5 DEF CommitRun
    <3> QED BY <1>0, <3>1, <3>2, <3>3, <3>4, PurgeStays
  <2> QED BY <1>2, <1>5, <2>1 DEF CommitRun
<1>6. ASSUME NEW w \in Workers, NEW x \in Users, BeginPurge(w, x) PROVE PurgeHold(v)'
  <2>1. now' = now /\ grace' = grace /\ srv' = srv
    BY <1>6 DEF BeginPurge, rows
  <2>2. CASE v # w
    <3>1. run'[v] = run[v] /\ \A u \in Users : uLock'[u] = v => uLock[u] = v
      BY <1>0, <1>6, <2>2 DEF BeginPurge, Receive, TypeOK
    <3> QED BY <1>0, <2>1, <3>1, PurgeStays
  <2>3. CASE v = w
    <3> DEFINE S == {s \in HourlyOf(x) : srv[s].status # "deleted"}
    <3>1. run'[v] = Purging(S)
      BY <1>0, <1>6, <2>3 DEF BeginPurge, TypeOK
    <3>2. Purging(S).todo = S
      BY RunStarts DEF HourlyOf
    <3>3. \A u \in Users : uLock'[u] = v => u = x
      BY <1>0, <1>6, <2>3 DEF BeginPurge, TypeOK
    <3>4. grace[x].stamped /\ now >= grace[x].since + 3 * Hour
      <4>1. grace[x].since \in Nat
        BY <1>0 DEF GraceKeys
      <4> QED BY <1>0, <1>6, <4>1 DEF BeginPurge, InGrace, GraceOver, Elapsed
    <3>5. \A s \in S : Owner[s] = x /\ s \notin Reseller /\ srv[s].cycle = "hourly"
      BY DEF HourlyOf
    <3> HIDE DEF S
    <3> QED BY <2>1, <3>1, <3>2, <3>3, <3>4, <3>5 DEF PurgeHold
  <2> QED BY <2>2, <2>3
<1>7. ASSUME NEW w \in Workers, NEW x \in Users, CommitPurge(w, x) PROVE PurgeHold(v)'
  <2>1. CASE v # w
    <3>1. /\ run'[v] = run[v] /\ \A u \in Users : uLock'[u] = v <=> uLock[u] = v
      BY <1>0, <1>7, <2>1, CloseHolds DEF CommitPurge
    <3>2. \A u \in Users : uLock[u] = v => grace'[u] = grace[u]
      BY <1>0, <1>7, <2>1 DEF CommitPurge
    <3>3. \A s \in Servers : srv'[s].cycle = srv[s].cycle
      BY <1>0, <1>7 DEF CommitPurge, TypeOK, ServerRow
    <3>4. now' = now
      BY <1>7 DEF CommitPurge
    <3> QED BY <1>0, <3>1, <3>2, <3>3, <3>4, PurgeStays
  <2> QED BY <1>2, <1>7, <2>1 DEF CommitPurge
<1>8. ASSUME NEW x \in Users, GraceStep(x) PROVE PurgeHold(v)'
  <2>1. /\ now' = now /\ srv' = srv /\ run' = run /\ uLock' = uLock
        /\ uLock[x] = Nobody /\ \A u \in Users \ {x} : grace'[u] = grace[u]
    BY <1>0, <1>8
    DEF GraceStep, ClearGrace, StampGrace, WarnAgain, NothingDue, SetGrace, Receive, locks
  <2> QED BY <1>0, <2>1, PurgeStays
<1>9. ASSUME NEW x \in Users, Credit(x) PROVE PurgeHold(v)'
  <2>1. /\ now' = now /\ srv' = srv /\ run' = run /\ uLock' = uLock
        /\ uLock[x] = Nobody /\ \A u \in Users \ {x} : grace'[u] = grace[u]
    BY <1>0, <1>9 DEF Credit, locks
  <2> QED BY <1>0, <2>1, PurgeStays
<1>15. ASSUME NEW x \in Users, GatewayStep(x) PROVE PurgeHold(v)'
  BY <1>0, <1>15, GatewayWrites, PurgeStays
<1>10. ASSUME NEW h \in Handlers, ConvertStep(h) PROVE PurgeHold(v)'
  <2>1. now' = now /\ run' = run
    BY <1>10 DEF ConvertStep, BeginConvert, PayConvert, RefuseConvert
  <2>2. CASE PayConvert(h)
    <3>1. /\ conv[h] \in Servers /\ uLock[Owner[conv[h]]] # v
      BY <1>0, <2>2 DEF PayConvert, UserFree, TypeOK
    <3>2. \A u \in Users : uLock'[u] = v => uLock[u] = v
      BY <1>0, <2>2 DEF PayConvert, Release
    <3>3. \A u \in Users : uLock[u] = v =>
            /\ grace'[u] = grace[u]
            /\ \A s \in Servers : Owner[s] = u => srv'[s] = srv[s]
      BY <1>0, <2>2, <3>1 DEF PayConvert, TypeOK
    <3> QED BY <1>0, <2>1, <3>2, <3>3, PurgeStays
  <2>3. CASE ~PayConvert(h)
    <3>1. srv' = srv /\ grace' = grace /\ \A u \in Users : uLock'[u] = v => uLock[u] = v
      BY <1>0, <1>10, <2>3 DEF ConvertStep, BeginConvert, RefuseConvert, Release, rows
    <3> QED BY <1>0, <2>1, <3>1, PurgeStays
  <2> QED BY <2>2, <2>3
<1>11. ASSUME NEW r \in Servers, ServerStep(r) PROVE PurgeHold(v)'
  <2>1. now' = now /\ run' = run /\ grace' = grace /\ uLock' = uLock
    BY <1>11 DEF ServerStep, Suspend, Unsuspend, Delete, WriteServer, locks
  <2>2. \A s \in Servers : srv'[s].cycle = srv[s].cycle
    <3>1. \A s \in Servers \ {r} : srv'[s] = srv[s]
      BY <1>0, <1>11 DEF ServerStep, Suspend, Unsuspend, Delete, WriteServer, TypeOK
    <3>2. srv'[r].cycle = srv[r].cycle
      <4>1. CASE Suspend(r)
        BY <1>0, <4>1 DEF Suspend, WriteServer, TypeOK, ServerRow
      <4>2. CASE Delete(r)
        BY <1>0, <4>2 DEF Delete, WriteServer, TypeOK, ServerRow
      <4>3. CASE Unsuspend(r)
        BY <1>0, <4>3 DEF Unsuspend, WriteServer, TypeOK, ServerRow
      <4> QED BY <1>11, <4>1, <4>2, <4>3 DEF ServerStep
    <3> QED BY <3>1, <3>2
  <2> QED BY <1>0, <2>1, <2>2, PurgeStays
<1>12. ASSUME NEW p \in Procs, Rollback(p) PROVE PurgeHold(v)'
  <2>1. now' = now /\ srv' = srv /\ grace' = grace
    BY <1>12 DEF Rollback, rows
  <2>2. CASE p \in Workers /\ p # v
    <3>1. run'[v] = run[v] /\ \A u \in Users : uLock'[u] = v <=> uLock[u] = v
      BY <1>0, <1>12, <2>2, CloseHolds DEF Rollback
    <3> QED BY <1>0, <2>1, <3>1, PurgeStays
  <2>3. CASE p \notin Workers
    <3>1. run' = run /\ \A u \in Users : uLock'[u] = v => uLock[u] = v
      BY <1>0, <1>12, <2>3 DEF Rollback, Release
    <3> QED BY <1>0, <2>1, <3>1, PurgeStays
  <2> QED BY <1>2, <1>12, <2>2, <2>3 DEF Rollback
<1>13. CASE RateChanges \/ Tick \/ Rest \/ UNCHANGED vars
  <2>1. /\ now' >= now /\ now' \in Nat /\ run' = run /\ srv' = srv /\ grace' = grace
        /\ uLock' = uLock
    BY <1>0, <1>13 DEF RateChanges, Tick, Rest, vars, rows, locks
  <2> QED BY <1>0, <2>1, PurgeStays
<1>14. CASE \E w \in Workers : BillingStep(w)
  BY <1>3, <1>4, <1>5, <1>6, <1>7, <1>14 DEF BillingStep
<1> QED
  BY <1>8, <1>9, <1>10, <1>11, <1>12, <1>13, <1>14, <1>15 DEF Next

\* The deletion of a broke user's servers works under the user row's lock in every state.
LEMMA PurgeInvariant == Spec => []PurgeInv
<1>1. Init => PurgeInv
  <2> SUFFICES ASSUME Init PROVE PurgeInv
    OBVIOUS
  <2>1. \A w \in Workers : run[w].pc = "idle"
    BY RunStarts DEF Init
  <2>2. StampAfterCredit
    BY DEF Init, NoGrace, StampAfterCredit
  <2> QED BY <2>1, <2>2 DEF PurgeInv, PurgeHold
<1>2. IInv /\ PurgeInv /\ [Next]_vars => PurgeInv'
  <2>1. ASSUME IInv, PurgeInv, [Next]_vars PROVE PurgeInv'
    <3>1. StampAfterCredit' /\ \A v \in Workers : PurgeHold(v)'
      BY <2>1, StepStamps, StepPurges
    <3> QED BY <3>1 DEF PurgeInv
  <2> QED BY <2>1
<1> QED BY <1>1, <1>2, InductiveInvariant, PTL DEF Spec

\* Nobody loses a server to an empty wallet within three hours of a credit, nor a reseller's
\* server or one whose month has been paid: the deletion holds the user row from the check of
\* the grace mark to its commit.
THEOREM PurgeIsFair == Spec => PurgeSparesFunded
<1>1. IInv /\ PurgeInv /\ [Next]_vars =>
        [\A s \in Servers : Purged(s) =>
           /\ now >= funded[Owner[s]] + 3 * Hour
           /\ srv[s].cycle = "hourly" /\ s \notin Reseller]_vars
  <2> SUFFICES ASSUME IInv, PurgeInv, [Next]_vars, NEW s \in Servers, Purged(s)
               PROVE  /\ now >= funded[Owner[s]] + 3 * Hour
                      /\ srv[s].cycle = "hourly" /\ s \notin Reseller
    OBVIOUS
  <2>0. TypeOK /\ srv'[s].status # srv[s].status /\ srv' # srv /\ run' # run
    BY DEF IInv, Purged
  <2>1. ASSUME NEW w \in Workers, NEW u \in Users, CommitPurge(w, u)
        PROVE  /\ now >= funded[Owner[s]] + 3 * Hour
               /\ srv[s].cycle = "hourly" /\ s \notin Reseller
    <3>1. s \in run[w].todo /\ uLock[u] = w /\ run[w].pc = "purging"
      BY <2>0, <2>1 DEF CommitPurge
    <3>2. PurgeHold(w) /\ StampAfterCredit
      BY DEF PurgeInv
    <3>3. /\ grace[u].stamped /\ now >= grace[u].since + 3 * Hour
          /\ Owner[s] = u /\ s \notin Reseller /\ srv[s].cycle = "hourly"
      BY <3>1, <3>2 DEF PurgeHold
    <3>4. funded[u] <= grace[u].since
      BY <3>2, <3>3 DEF StampAfterCredit
    <3>5. funded[u] \in Nat /\ grace[u].since \in Nat /\ now \in Nat /\ Hour \in Nat
      BY <2>0, AmountsAssumption DEF TypeOK, GraceKeys
    <3> QED BY <3>3, <3>4, <3>5
  <2>2. ASSUME NEW w \in Workers, CommitRun(w) PROVE srv'[s].status = srv[s].status
    BY <2>0, <2>2 DEF CommitRun, TypeOK, ServerRow
  <2>3. ASSUME NEW w \in Workers, BillingStep(w), ~CommitRun(w),
               ~\E u \in Users : CommitPurge(w, u)
        PROVE  srv' = srv
    BY <2>3 DEF BillingStep, ListDue, LockServer, DebitHour, RefuseHour, BeginPurge, rows
  <2>4. ASSUME \/ \E u \in Users : GraceStep(u) \/ Credit(u) \/ GatewayStep(u)
               \/ \E h \in Handlers : ConvertStep(h)
               \/ \E r \in Servers : ServerStep(r)
               \/ RateChanges \/ Tick \/ Rest \/ UNCHANGED vars
        PROVE  run' = run
    BY <2>4
    DEF GraceStep, ClearGrace, StampGrace, WarnAgain, NothingDue, SetGrace, Credit,
      GatewayStep, GatewayRead, GatewayWrite, GatewayDrop,
        ConvertStep, BeginConvert, PayConvert, RefuseConvert, ServerStep, Suspend, Unsuspend,
        Delete, WriteServer, RateChanges, Tick, Rest, vars
  <2>5. ASSUME NEW p \in Procs, Rollback(p) PROVE srv' = srv
    BY <2>5 DEF Rollback, rows
  <2> QED
    BY <2>0, <2>1, <2>2, <2>3, <2>4, <2>5 DEF Next
<1> QED BY <1>1, InductiveInvariant, PurgeInvariant, PTL DEF Spec, PurgeSparesFunded

-----------------------------------------------------------------------------
(***************************************************************************)
(* The refinement: HourlyBilling implements MeteredWallet, for every value *)
(* of the constants.  What its processes commit is what a wallet charged   *)
(* in single steps could have done.                                        *)
(***************************************************************************)

(***************************************************************************)
(* What the mapping needs beyond IInv: that a run has spent one hour for   *)
(* each server it has charged, and that a server cannot be suspended while *)
(* a handler converts it.                                                  *)
(***************************************************************************)
SpentHold(w) ==
  /\ IsFiniteSet(run[w].charged)
  /\ \A u \in Users :
       mem[w].spent[u] = Price * Cardinality(Wallet!Owned(run[w].charged, u))

ConvertReady ==
  \A h \in Handlers : conv[h] # NoServer =>
    srv[conv[h]].status = "active" /\ srv[conv[h]].cycle = "hourly"

RefinementInv == ConvertReady /\ \A w \in Workers : SpentHold(w)

LEMMA Products ==
  \A n \in Nat : /\ Price * n \in Nat
                 /\ Price * (n + 1) = Price * n + Price
  BY AmountsAssumption

LEMMA NothingCharged ==
  ASSUME NEW w \in Workers, run[w].charged = {}, \A u \in Users : mem[w].spent[u] = 0
  PROVE  SpentHold(w)
<1>1. \A u \in Users : Wallet!Owned({}, u) = {}
  BY DEF Wallet!Owned
<1>2. IsFiniteSet({}) /\ Cardinality({}) = 0
  BY FS_EmptySet
<1>3. Price * 0 = 0
  BY AmountsAssumption
<1> QED BY <1>1, <1>2, <1>3 DEF SpentHold

\* One more server adds an hour to what its owner has spent, and to nobody else's.
LEMMA OneMoreCharged ==
  ASSUME NEW S \in SUBSET Servers, IsFiniteSet(S), NEW s \in Servers, s \notin S,
         NEW u \in Users
  PROVE  /\ IsFiniteSet(S \cup {s})
         /\ Price * Cardinality(Wallet!Owned(S \cup {s}, u)) =
              IF u = Owner[s] THEN Price * Cardinality(Wallet!Owned(S, u)) + Price
                              ELSE Price * Cardinality(Wallet!Owned(S, u))
<1> DEFINE T == Wallet!Owned(S, u)
<1>1. IsFiniteSet(S \cup {s})
  BY FS_AddElement
<1>2. T \subseteq S /\ s \notin T
  BY DEF Wallet!Owned
<1>3. IsFiniteSet(T) /\ Cardinality(T) \in Nat
  BY <1>2, FS_Subset, FS_CardinalityType
<1>4. CASE u = Owner[s]
  <2>1. Wallet!Owned(S \cup {s}, u) = T \cup {s}
    BY <1>4 DEF Wallet!Owned
  <2>2. Cardinality(T \cup {s}) = Cardinality(T) + 1
    BY <1>2, <1>3, FS_AddElement
  <2> HIDE DEF T
  <2>3. Price * (Cardinality(T) + 1) = Price * Cardinality(T) + Price
    BY <1>3, Products
  <2> QED BY <1>1, <1>4, <2>1, <2>2, <2>3 DEF T
<1>5. CASE u # Owner[s]
  <2>1. Wallet!Owned(S \cup {s}, u) = T
    BY <1>5 DEF Wallet!Owned
  <2> QED BY <1>1, <1>5, <2>1
<1> QED BY <1>4, <1>5

\* What a debit does to the amounts its session has spent.
LEMMA SpentWrite ==
  ASSUME NEW m \in SessionMap, NEW x \in Users, NEW u \in Users,
         NEW b, NEW s, NEW a
  PROVE  Debited(m, x, b, s, a).spent[u] = IF u = x THEN m.spent[u] + Price ELSE m.spent[u]
<1>1. m.spent \in [Users -> Nat]
  BY DEF SessionMap
<1>2. Debited(m, x, b, s, a).spent = [m.spent EXCEPT ![x] = @ + Price]
  BY DEF Debited
<1> QED BY <1>1, <1>2

(***************************************************************************)
(* The extra invariant is preserved.                                       *)
(***************************************************************************)
LEMMA SpentStays ==
  ASSUME NEW v \in Workers, SpentHold(v), run'[v].charged = run[v].charged,
         mem'[v].spent = mem[v].spent
  PROVE  SpentHold(v)'
  BY DEF SpentHold, Wallet!Owned

LEMMA SpentClosed ==
  ASSUME NEW w \in Workers, NEW v \in Workers, SpentHold(v), TypeOK, CloseSession(w)
  PROVE  SpentHold(v)'
<1>1. CASE v = w
  <2>1. run'[v] = IdleRun /\ mem'[v] = Blank
    BY <1>1 DEF CloseSession, TypeOK
  <2>2. run'[v].charged = {} /\ \A u \in Users : mem'[v].spent[u] = 0
    BY <2>1, RunStarts, BlankSession
  <2>3. \A u \in Users : Wallet!Owned({}, u) = {}
    BY DEF Wallet!Owned
  <2>4. IsFiniteSet({}) /\ Cardinality({}) = 0 /\ Price * 0 = 0
    BY FS_EmptySet, AmountsAssumption
  <2> QED BY <2>2, <2>3, <2>4 DEF SpentHold, Wallet!Owned
<1>2. CASE v # w
  <2>1. run'[v] = run[v] /\ mem'[v] = mem[v]
    BY <1>2 DEF CloseSession, TypeOK
  <2> QED BY <2>1, SpentStays
<1> QED BY <1>1, <1>2

LEMMA StepSpent ==
  ASSUME IInv, [Next]_vars, NEW v \in Workers, SpentHold(v)
  PROVE  SpentHold(v)'
<1>0. TypeOK /\ run[v] \in RunState /\ mem[v] \in SessionMap
  BY DEF IInv, TypeOK
<1>1. ASSUME NEW w \in Workers, ListDue(w) PROVE SpentHold(v)'
  <2> DEFINE S == {s \in Servers : Due(s)}
  <2>1. mem' = mem /\ (v # w => run'[v] = run[v])
    BY <1>0, <1>1 DEF ListDue, TypeOK
  <2>2. CASE v = w
    <3>1. run'[v] = Listed(S) /\ run[v].charged = {}
      BY <1>0, <1>1, <2>2 DEF ListDue, TypeOK, IInv, ServerHold
    <3>2. run'[v].charged = run[v].charged
      BY <3>1, RunStarts
    <3> QED BY <2>1, <3>2, SpentStays
  <2> QED BY <2>1, <2>2, SpentStays
<1>2. ASSUME NEW w \in Workers, NEW s \in Servers, LockServer(w, s) PROVE SpentHold(v)'
  <2>1. mem' = mem /\ (v # w => run'[v] = run[v])
    BY <1>0, <1>2 DEF LockServer, TypeOK
  <2>2. CASE v = w
    <3>1. run'[v] = IF Chargeable(s) THEN Paying(run[v], s) ELSE Skipped(run[v], s)
      BY <1>0, <1>2, <2>2 DEF LockServer, TypeOK
    <3>2. run'[v].charged = run[v].charged
      BY <1>0, <3>1, PayingMove, SkippedMove
    <3> QED BY <2>1, <3>2, SpentStays
  <2> QED BY <2>1, <2>2, SpentStays
<1>3. ASSUME NEW w \in Workers, DebitHour(w) PROVE SpentHold(v)'
  <2>1. v # w => run'[v] = run[v] /\ mem'[v] = mem[v]
    BY <1>0, <1>3 DEF DebitHour, TypeOK
  <2>2. CASE v = w
    <3> DEFINE s == run[v].at
               x == Owner[s]
               b == FreshBalance(v, x)
               a == NextAnchor(s)
    <3>1. /\ s \in Servers /\ s \notin run[v].charged /\ x \in Users
          /\ run[v].charged \in SUBSET Servers
      BY <1>0, <1>3, <2>2, ServersAssumption DEF DebitHour, IInv, ServerHold, RunState
    <3>2. b \in Int /\ a \in Int
      BY <1>0, <3>1, ServersAssumption, AmountsAssumption
      DEF FreshBalance, NextAnchor, TypeOK, SessionMap, ServerRow
    <3>3. run'[v] = Paid(run[v], s) /\ mem'[v] = Debited(mem[v], x, b, s, a)
      BY <1>0, <1>3, <2>2 DEF DebitHour, TypeOK
    <3> HIDE DEF s, x, b, a
    <3>4. run'[v].charged = run[v].charged \cup {s}
      <4>1. Paid(run[v], s).charged = run[v].charged \cup {s}
        BY <1>0, <3>1, PaidMove
      <4> QED BY <3>3, <4>1
    <3>5. ASSUME NEW u \in Users
          PROVE  mem'[v].spent[u] = IF u = x THEN mem[v].spent[u] + Price
                                             ELSE mem[v].spent[u]
      <4>1. mem[v] \in SessionMap /\ mem'[v] = Debited(mem[v], x, b, s, a)
        BY <1>0, <3>3
      <4> QED BY <4>1, <3>1, SpentWrite
    <3>6. IsFiniteSet(run[v].charged \cup {s})
      BY <3>1, FS_AddElement DEF SpentHold
    <3>7. ASSUME NEW u \in Users
          PROVE  mem'[v].spent[u] =
                   Price * Cardinality(Wallet!Owned(run[v].charged \cup {s}, u))
      <4>1. /\ IsFiniteSet(run[v].charged)
            /\ mem[v].spent[u] = Price * Cardinality(Wallet!Owned(run[v].charged, u))
        BY DEF SpentHold
      <4>2. Price * Cardinality(Wallet!Owned(run[v].charged \cup {s}, u)) =
              IF u = x THEN mem[v].spent[u] + Price ELSE mem[v].spent[u]
        BY <3>1, <4>1, OneMoreCharged DEF x
      <4> QED BY <3>5, <4>2
    <3> QED BY <3>4, <3>6, <3>7 DEF SpentHold, Wallet!Owned
  <2> QED BY <2>1, <2>2, SpentStays
<1>4. ASSUME NEW w \in Workers, RefuseHour(w) PROVE SpentHold(v)'
  <2>1. v # w => run'[v] = run[v] /\ mem'[v] = mem[v]
    BY <1>0, <1>4 DEF RefuseHour, TypeOK
  <2>2. CASE v = w
    <3> DEFINE s == run[v].at
               b == FreshBalance(v, Owner[s])
    <3>1. s \in Servers /\ Owner[s] \in Users
      BY <1>0, <1>4, <2>2, ServersAssumption DEF RefuseHour, IInv, ServerHold
    <3>2. b \in Int
      BY <1>0, <3>1 DEF FreshBalance, TypeOK, SessionMap
    <3>3. run'[v] = Refused(run[v], s) /\ mem'[v] = Loaded(mem[v], Owner[s], b)
      BY <1>0, <1>4, <2>2 DEF RefuseHour, TypeOK
    <3> HIDE DEF s, b
    <3>4. run'[v].charged = run[v].charged /\ mem'[v].spent = mem[v].spent
      <4>1. Refused(run[v], s).charged = run[v].charged
        BY <1>0, <3>1, RefusedMove
      <4>2. Loaded(mem[v], Owner[s], b).spent = mem[v].spent
        BY <1>0, <3>1, <3>2, LoadedWrite
      <4> QED BY <3>3, <4>1, <4>2
    <3> QED BY <3>4, SpentStays
  <2> QED BY <2>1, <2>2, SpentStays
<1>5. ASSUME NEW w \in Workers, NEW u \in Users, BeginPurge(w, u) PROVE SpentHold(v)'
  <2> DEFINE S == {s \in HourlyOf(u) : srv[s].status # "deleted"}
  <2>1. mem' = mem /\ (v # w => run'[v] = run[v])
    BY <1>0, <1>5 DEF BeginPurge, TypeOK
  <2>2. CASE v = w
    <3>1. run'[v] = Purging(S) /\ run[v].charged = {} /\ S \in SUBSET Servers
      BY <1>0, <1>5, <2>2 DEF BeginPurge, TypeOK, IInv, ServerHold, HourlyOf
    <3>2. run'[v].charged = run[v].charged
      BY <3>1, RunStarts
    <3> QED BY <2>1, <3>2, SpentStays
  <2> QED BY <2>1, <2>2, SpentStays
<1>6. ASSUME NEW w \in Workers, CloseSession(w) PROVE SpentHold(v)'
  BY <1>0, <1>6, SpentClosed
<1>7. ASSUME NEW w \in Workers, BillingStep(w) PROVE SpentHold(v)'
  BY <1>1, <1>2, <1>3, <1>4, <1>5, <1>6, <1>7 DEF BillingStep, CommitRun, CommitPurge
<1>8. ASSUME NEW p \in Procs, Rollback(p) PROVE SpentHold(v)'
  <2>1. CASE p \in Workers
    BY <1>6, <1>8, <2>1 DEF Rollback
  <2>2. CASE p \notin Workers
    <3>1. run' = run /\ mem' = mem
      BY <1>8, <2>2 DEF Rollback
    <3> QED BY <3>1, SpentStays
  <2> QED BY <2>1, <2>2
<1>9. ASSUME \/ \E u \in Users : GraceStep(u) \/ Credit(u) \/ GatewayStep(u)
             \/ \E h \in Handlers : ConvertStep(h)
             \/ \E s \in Servers : ServerStep(s)
             \/ RateChanges \/ Tick \/ Rest \/ UNCHANGED vars
      PROVE  SpentHold(v)'
  <2>1. run' = run /\ mem' = mem
    BY <1>9
    DEF GraceStep, ClearGrace, StampGrace, WarnAgain, NothingDue, SetGrace, Credit,
      GatewayStep, GatewayRead, GatewayWrite, GatewayDrop,
        ConvertStep, BeginConvert, PayConvert, RefuseConvert, ServerStep, Suspend, Unsuspend,
        Delete, WriteServer, RateChanges, Tick, Rest, vars
  <2> QED BY <2>1, SpentStays
<1> QED BY <1>7, <1>8, <1>9 DEF Next

LEMMA StepReady == IInv /\ ConvertReady /\ [Next]_vars => ConvertReady'
<1> SUFFICES ASSUME IInv, ConvertReady, [Next]_vars, NEW g \in Handlers, conv'[g] # NoServer
             PROVE  srv'[conv'[g]].status = "active" /\ srv'[conv'[g]].cycle = "hourly"
  BY DEF ConvertReady
<1>0. /\ TypeOK /\ g # Nobody /\ g \notin Workers
      /\ conv[g] # NoServer => /\ conv[g] \in Servers /\ sLock[conv[g]] = g
                               /\ srv[conv[g]].status = "active"
                               /\ srv[conv[g]].cycle = "hourly"
  BY ProcsAssumption DEF IInv, TypeOK, ConvertHold, ConvertReady
<1>1. CASE conv'[g] = conv[g] /\ \A s \in Servers : sLock[s] = g =>
             srv'[s].status = srv[s].status /\ srv'[s].cycle = srv[s].cycle
  BY <1>0, <1>1
<1>2. ASSUME NEW w \in Workers, CommitRun(w)
      PROVE  conv' = conv /\ \A s \in Servers : srv'[s].status = srv[s].status
                                              /\ srv'[s].cycle = srv[s].cycle
  BY <1>0, <1>2 DEF CommitRun, TypeOK, ServerRow
<1>3. ASSUME NEW w \in Workers, NEW u \in Users, CommitPurge(w, u)
      PROVE  conv' = conv /\ \A s \in Servers : sLock[s] = g => srv'[s] = srv[s]
  <2>1. \A s \in Servers : sLock[s] = g => s \notin run[w].todo
    BY <1>0, <1>3 DEF CommitPurge, ServerFree
  <2> QED BY <1>3, <2>1 DEF CommitPurge
<1>4. ASSUME NEW w \in Workers, BillingStep(w), ~CommitRun(w),
             ~\E u \in Users : CommitPurge(w, u)
      PROVE  conv' = conv /\ srv' = srv
  BY <1>4 DEF BillingStep, ListDue, LockServer, DebitHour, RefuseHour, BeginPurge, rows
<1>5. ASSUME NEW h \in Handlers, NEW s \in Servers, BeginConvert(h, s)
      PROVE  srv'[conv'[g]].status = "active" /\ srv'[conv'[g]].cycle = "hourly"
  BY <1>0, <1>5 DEF BeginConvert, rows, TypeOK
<1>6. ASSUME NEW h \in Handlers, PayConvert(h) PROVE conv'[g] = conv[g] /\ g # h
  BY <1>0, <1>6 DEF PayConvert, TypeOK
<1>7. ASSUME NEW h \in Handlers, PayConvert(h), NEW s \in Servers, sLock[s] = g
      PROVE  srv'[s] = srv[s]
  <2>1. conv[h] # s
    BY <1>0, <1>6, <1>7 DEF PayConvert, IInv, ConvertHold
  <2> QED BY <1>0, <1>7, <2>1 DEF PayConvert, TypeOK
<1>8. ASSUME NEW h \in Handlers, RefuseConvert(h) PROVE conv'[g] = conv[g] /\ srv' = srv
  BY <1>0, <1>8 DEF RefuseConvert, TypeOK, rows
<1>9. ASSUME NEW r \in Servers, ServerStep(r)
      PROVE  conv' = conv /\ \A s \in Servers : sLock[s] = g => srv'[s] = srv[s]
  <2>1. conv' = conv /\ sLock[r] = Nobody /\ \E row : srv' = [srv EXCEPT ![r] = row]
    BY <1>9 DEF ServerStep, Suspend, Unsuspend, Delete, WriteServer
  <2> QED BY <1>0, <2>1 DEF TypeOK
<1>10. ASSUME NEW p \in Procs, Rollback(p) PROVE conv'[g] = conv[g] /\ srv' = srv
  BY <1>0, <1>10 DEF Rollback, TypeOK, rows
<1>11. ASSUME \/ \E u \in Users : GraceStep(u) \/ Credit(u) \/ GatewayStep(u)
              \/ RateChanges \/ Tick \/ Rest \/ UNCHANGED vars
       PROVE  conv' = conv /\ srv' = srv
  BY <1>11
  DEF GraceStep, ClearGrace, StampGrace, WarnAgain, NothingDue, SetGrace, Credit,
      GatewayStep, GatewayRead, GatewayWrite, GatewayDrop, RateChanges,
      Tick, Rest, vars, rows
<1>12. CASE \E w \in Workers : BillingStep(w)
  BY <1>1, <1>2, <1>3, <1>4, <1>12
<1>13. CASE \E h \in Handlers : ConvertStep(h)
  BY <1>1, <1>5, <1>6, <1>7, <1>8, <1>13 DEF ConvertStep
<1> QED
  BY <1>1, <1>9, <1>10, <1>11, <1>12, <1>13 DEF Next

LEMMA RefinementInvariant == Spec => []RefinementInv
<1>1. Init => RefinementInv
  <2> SUFFICES ASSUME Init PROVE RefinementInv
    OBVIOUS
  <2>1. ConvertReady
    BY DEF Init, ConvertReady
  <2>2. ASSUME NEW w \in Workers PROVE SpentHold(w)
    <3>1. run[w] = IdleRun /\ mem[w] = Blank
      BY DEF Init
    <3>2. run[w].charged = {} /\ \A u \in Users : mem[w].spent[u] = 0
      BY <3>1, RunStarts, BlankSession
    <3> QED BY <3>2, NothingCharged
  <2> QED BY <2>1, <2>2 DEF RefinementInv
<1>2. IInv /\ RefinementInv /\ [Next]_vars => RefinementInv'
  <2> SUFFICES ASSUME IInv, RefinementInv, [Next]_vars PROVE RefinementInv'
    OBVIOUS
  <2>1. ConvertReady'
    BY StepReady DEF RefinementInv
  <2>2. \A w \in Workers : SpentHold(w)'
    BY StepSpent DEF RefinementInv
  <2> QED BY <2>1, <2>2 DEF RefinementInv
<1> QED BY <1>1, <1>2, InductiveInvariant, PTL DEF Spec

(***************************************************************************)
(* The mapping.  Each variable of the abstract wallet is a column of the   *)
(* committed rows.                                                         *)
(***************************************************************************)
Meters == [s \in Servers |-> srv[s].anchor]
Plans  == [s \in Servers |-> srv[s].cycle]
States == [s \in Servers |-> srv[s].status]

\* The instance of the abstract specification counts as FiniteSets does.
LEMMA SameCount == \A S : Wallet!Cardinality(S) = Cardinality(S)
  BY ZenonT(30) DEF Cardinality, Wallet!Cardinality, IsFiniteSet, Wallet!IsFiniteSet

LEMMA Columns ==
  /\ \A s \in Servers : /\ Meters[s] = srv[s].anchor
                        /\ Plans[s] = srv[s].cycle
                        /\ States[s] = srv[s].status
  /\ Meters = [s \in Servers |-> Meters[s]]
  /\ Plans = [s \in Servers |-> Plans[s]]
  /\ States = [s \in Servers |-> States[s]]
  BY DEF Meters, Plans, States

LEMMA NextColumns ==
  /\ \A s \in Servers : /\ Meters'[s] = srv'[s].anchor
                        /\ Plans'[s] = srv'[s].cycle
                        /\ States'[s] = srv'[s].status
  /\ Meters' = [s \in Servers |-> Meters'[s]]
  /\ Plans' = [s \in Servers |-> Plans'[s]]
  /\ States' = [s \in Servers |-> States'[s]]
  BY DEF Meters, Plans, States

LEMMA MapInit == Init => Wallet!Init
  BY ServersAssumption, AmountsAssumption DEF Init, Wallet!Init, Wallet!Closed, TillClosed

LEMMA Stutters ==
  balance' = balance /\ srv' = srv /\ till' = till => UNCHANGED Wallet!vars
  BY DEF Wallet!vars

\* A gateway's session is the quote of the abstract wallet.
LEMMA GatewayQuotes ==
  ASSUME IInv, NEW u \in Users, GatewayStep(u) PROVE Wallet!Next
<1>0. TypeOK /\ TopUp \in Nat \ {0} /\ till[u].seen \in Int
  BY AmountsAssumption DEF IInv, TypeOK, Till
<1>1. CASE GatewayRead(u)
  <2>1. Wallet!Quote(u)
    BY <1>1 DEF GatewayRead, Wallet!Quote, rows
  <2> QED BY <2>1 DEF Wallet!Next
<1>2. CASE GatewayWrite(u)
  <2>1. /\ balance'[u] = till[u].seen + TopUp
        /\ balance' = [balance EXCEPT ![u] = till[u].seen + TopUp]
    BY <1>0, <1>2 DEF GatewayWrite, TypeOK
  <2>2. Wallet!CloseQuote(u)
    BY <1>2 DEF GatewayWrite, Wallet!CloseQuote, Wallet!Closed, TillClosed
  <2>3. balance'[u] > till[u].seen /\ balance' = [balance EXCEPT ![u] = balance'[u]]
    BY <1>0, <2>1
  <2>4. srv' = srv
    BY <1>2 DEF GatewayWrite
  <2>5. Wallet!Settle(u)
    BY <2>2, <2>3, <2>4 DEF Wallet!Settle
  <2> QED BY <2>5 DEF Wallet!Next
<1>3. CASE GatewayDrop(u)
  <2>1. Wallet!Withdraw(u)
    BY <1>3 DEF GatewayDrop, Wallet!Withdraw, Wallet!CloseQuote, Wallet!Closed, TillClosed, rows
  <2> QED BY <2>1 DEF Wallet!Next
<1> QED BY <1>1, <1>2, <1>3 DEF GatewayStep

\* A run is committed as one charge of all the servers it has debited.
LEMMA CommitCharges ==
  ASSUME IInv, RefinementInv, NEW w \in Workers, CommitRun(w),
         NEW S \in SUBSET Servers, S = run[w].charged
  PROVE  Wallet!Charge(S)
<1>0. TypeOK
  BY DEF IInv
<1>1. \A s \in S : srv[s].cycle = "hourly" /\ mem[w].anchor[s] = srv[s].anchor + Hour
  BY DEF IInv, ServerHold
<1>2. ASSUME NEW u \in Users
      PROVE  balance'[u] = balance[u] - Price * Cardinality(Wallet!Owned(S, u))
             /\ balance'[u] >= 0
  <2>1. mem[w].spent[u] = Price * Cardinality(Wallet!Owned(S, u))
    BY DEF RefinementInv, SpentHold
  <2>2. /\ u \in run[w].ok => balance'[u] = mem[w].balance[u]
        /\ u \notin run[w].ok => balance'[u] = balance[u]
    BY DEF CommitRun
  <2>3. balance[u] \in Int /\ mem[w].spent[u] \in Int
    BY <1>0 DEF TypeOK, SessionMap
  <2>4. UserHold(w) /\ BillingOpen(w) /\ balance[u] >= 0
    BY DEF IInv, CommitRun, BillingOpen, NoOverdraft
  <2>5. balance'[u] = balance[u] - mem[w].spent[u] /\ balance'[u] >= 0
    BY <2>2, <2>3, <2>4 DEF UserHold
  <2> QED BY <2>1, <2>5
<1>3. balance' = [u \in Users |-> balance[u] - Price * Wallet!Cardinality(Wallet!Owned(S, u))]
  <2>1. balance' = [u \in Users |-> balance'[u]]
    BY DEF CommitRun
  <2>2. \A u \in Users :
          balance'[u] = balance[u] - Price * Wallet!Cardinality(Wallet!Owned(S, u))
    BY <1>2, SameCount
  <2> QED BY <2>1, <2>2
<1>4. ASSUME NEW s \in Servers
      PROVE  /\ srv'[s].status = srv[s].status /\ srv'[s].cycle = srv[s].cycle
             /\ srv'[s].anchor = IF s \in S THEN srv[s].anchor + Hour ELSE srv[s].anchor
  BY <1>0, <1>1 DEF CommitRun, TypeOK, ServerRow
<1>5. Meters' = [s \in Servers |-> IF s \in S THEN Meters[s] + Hour ELSE Meters[s]]
  <2>1. \A s \in Servers : Meters'[s] = IF s \in S THEN Meters[s] + Hour ELSE Meters[s]
    BY <1>4, Columns, NextColumns
  <2> QED BY <2>1, NextColumns
<1>6. Plans' = Plans /\ States' = States
  BY <1>4 DEF Plans, States
<1>7. \A s \in S : Plans[s] = "hourly"
  BY <1>1, Columns
<1>8. \A u \in Users : balance'[u] >= 0
  BY <1>2
<1>9. till' = till
  BY DEF CommitRun, gate
<1> QED BY <1>3, <1>5, <1>6, <1>7, <1>8, <1>9 DEF Wallet!Charge, Meters, Plans, States

LEMMA CreditFunds ==
  ASSUME IInv, NEW u \in Users, Credit(u) PROVE Wallet!Fund(u)
<1>1. /\ balance[u] \in Int /\ TopUp \in Nat \ {0} /\ balance \in [Users -> Int]
      /\ balance' = [balance EXCEPT ![u] = balance[u] + TopUp] /\ srv' = srv
      /\ till' = till
  BY AmountsAssumption DEF IInv, TypeOK, Credit, gate
<1>2. balance'[u] = balance[u] + TopUp /\ balance'[u] > balance[u]
  BY <1>1
<1>3. balance' = [balance EXCEPT ![u] = balance'[u]]
  BY <1>1, <1>2
<1> QED BY <1>1, <1>2, <1>3 DEF Wallet!Fund

\* Writing one server row writes one entry of each column.
LEMMA Written ==
  ASSUME NEW f, NEW g, f = [r \in Servers |-> f[r]], g = [r \in Servers |-> g[r]],
         NEW s \in Servers, \A r \in Servers : r # s => g[r] = f[r]
  PROVE  g = [f EXCEPT ![s] = g[s]]
  OBVIOUS

LEMMA RowWritten ==
  ASSUME NEW s \in Servers, \A r \in Servers : r # s => srv'[r] = srv[r]
  PROVE  /\ States' = [States EXCEPT ![s] = States'[s]]
         /\ Plans' = [Plans EXCEPT ![s] = Plans'[s]]
         /\ Meters' = [Meters EXCEPT ![s] = Meters'[s]]
         /\ States'[s] = States[s] => States' = States
         /\ Plans'[s] = Plans[s] => Plans' = Plans
         /\ Meters'[s] = Meters[s] => Meters' = Meters
<1>1. \A r \in Servers : r # s => /\ States'[r] = States[r] /\ Plans'[r] = Plans[r]
                                 /\ Meters'[r] = Meters[r]
  BY Columns, NextColumns
<1>2. States' = [States EXCEPT ![s] = States'[s]]
  BY <1>1, Columns, NextColumns, Written
<1>3. Plans' = [Plans EXCEPT ![s] = Plans'[s]]
  BY <1>1, Columns, NextColumns, Written
<1>4. Meters' = [Meters EXCEPT ![s] = Meters'[s]]
  BY <1>1, Columns, NextColumns, Written
<1>5. ASSUME States'[s] = States[s] PROVE States' = States
  BY <1>1, <1>5, Columns, NextColumns
<1>6. ASSUME Plans'[s] = Plans[s] PROVE Plans' = Plans
  BY <1>1, <1>6, Columns, NextColumns
<1>7. ASSUME Meters'[s] = Meters[s] PROVE Meters' = Meters
  BY <1>1, <1>7, Columns, NextColumns
<1> QED BY <1>2, <1>3, <1>4, <1>5, <1>6, <1>7

LEMMA ConvertConverts ==
  ASSUME IInv, RefinementInv, NEW h \in Handlers, PayConvert(h),
         NEW s \in Servers, s = conv[h]
  PROVE  Wallet!Convert(s)
<1>0. TypeOK /\ now \in Int
  BY DEF IInv, TypeOK
<1>1. srv[s].status = "active" /\ srv[s].cycle = "hourly"
  BY ServersAssumption DEF RefinementInv, ConvertReady
<1>2. /\ \A r \in Servers : r # s => srv'[r] = srv[r]
      /\ srv'[s].status = "active" /\ srv'[s].cycle = "monthly" /\ srv'[s].anchor = now
  BY <1>0, <1>1 DEF PayConvert, TypeOK, ServerRow
<1>3. /\ balance[Owner[s]] >= MonthPrice
      /\ balance' = [balance EXCEPT ![Owner[s]] = @ - MonthPrice] /\ till' = till
  BY DEF PayConvert, gate
<1>4. /\ States' = States
      /\ Meters' = [Meters EXCEPT ![s] = Meters'[s]] /\ Meters'[s] \in Int
  BY <1>0, <1>1, <1>2, RowWritten, Columns, NextColumns
<1>5. Plans' = [Plans EXCEPT ![s] = "monthly"]
  <2>1. Plans'[s] = "monthly"
    BY <1>2, NextColumns
  <2>2. Plans' = [Plans EXCEPT ![s] = Plans'[s]]
    BY <1>2, RowWritten
  <2> QED BY <2>1, <2>2
<1>6. Plans[s] = "hourly" /\ States[s] = "active"
  BY <1>1, Columns
<1> QED
  BY <1>3, <1>4, <1>5, <1>6 DEF Wallet!Convert, Wallet!MeterSet, Meters, Plans, States

LEMMA ServerSteps ==
  ASSUME IInv, NEW s \in Servers, ServerStep(s)
  PROVE  Wallet!Suspend(s) \/ Wallet!Resume(s) \/ Wallet!Remove({s})
<1>0. TypeOK /\ srv[s] \in ServerRow
  BY DEF IInv, TypeOK
<1>1. CASE Suspend(s)
  <2>1. /\ \A r \in Servers : r # s => srv'[r] = srv[r]
        /\ srv[s].status = "active" /\ srv'[s].status = "suspended"
        /\ srv'[s].cycle = srv[s].cycle /\ srv'[s].anchor = srv[s].anchor
        /\ balance' = balance /\ till' = till
    BY <1>0, <1>1 DEF gate, Suspend, WriteServer, TypeOK, ServerRow
  <2>2. Plans' = Plans /\ Meters' = Meters /\ States[s] = "active"
    BY <2>1, RowWritten, Columns, NextColumns
  <2>3. States' = [States EXCEPT ![s] = "suspended"]
    <3>1. States'[s] = "suspended" /\ States' = [States EXCEPT ![s] = States'[s]]
      BY <2>1, RowWritten, NextColumns
    <3> QED BY <3>1
  <2> QED BY <2>1, <2>2, <2>3 DEF Wallet!Suspend, Meters, Plans, States
<1>2. CASE Unsuspend(s)
  <2> DEFINE a == IF srv[s].cycle = "hourly" THEN GridNow(s) ELSE srv[s].anchor
  <2>1. a \in Int
    BY <1>0, GridIsReal DEF GridNow, TypeOK, ServerRow
  <2>2. /\ \A r \in Servers : r # s => srv'[r] = srv[r]
        /\ srv[s].status = "suspended" /\ srv'[s].status = "active"
        /\ srv'[s].cycle = srv[s].cycle /\ srv'[s].anchor = a
        /\ balance' = balance /\ till' = till
    BY <1>0, <1>2 DEF gate, Unsuspend, WriteServer, TypeOK, ServerRow
  <2>3. srv[s].cycle = "monthly" => srv'[s].anchor = srv[s].anchor
    BY <2>2
  <2> HIDE DEF a
  <2>4. Plans' = Plans /\ States[s] = "suspended"
    BY <2>2, RowWritten, Columns, NextColumns
  <2>5. Meters' = [Meters EXCEPT ![s] = Meters'[s]] /\ Meters'[s] \in Int
    BY <2>1, <2>2, RowWritten, NextColumns
  <2>6. Plans[s] = "monthly" => Meters' = Meters
    BY <2>2, <2>3, RowWritten, Columns, NextColumns
  <2>7. States' = [States EXCEPT ![s] = "active"]
    <3>1. States'[s] = "active" /\ States' = [States EXCEPT ![s] = States'[s]]
      BY <2>2, RowWritten, NextColumns
    <3> QED BY <3>1
  <2> QED
    BY <2>2, <2>4, <2>5, <2>6, <2>7
    DEF Wallet!Resume, Wallet!MeterSet, Meters, Plans, States
<1>3. CASE Delete(s)
  <2>1. /\ \A r \in Servers : r # s => srv'[r] = srv[r]
        /\ srv[s].cycle = "hourly" /\ srv'[s].status = "deleted"
        /\ srv'[s].cycle = srv[s].cycle /\ srv'[s].anchor = srv[s].anchor
        /\ balance' = balance /\ till' = till
    BY <1>0, <1>3 DEF gate, Delete, WriteServer, TypeOK, ServerRow
  <2>2. Plans' = Plans /\ Meters' = Meters /\ Plans[s] = "hourly"
    BY <2>1, RowWritten, Columns, NextColumns
  <2>3. States' = [r \in Servers |-> IF r \in {s} THEN "deleted" ELSE States[r]]
    <3>1. \A r \in Servers : States'[r] = IF r \in {s} THEN "deleted" ELSE States[r]
      BY <2>1, Columns, NextColumns
    <3> QED BY <3>1, NextColumns
  <2>4. \A r \in {s} : Plans[r] = "hourly"
    BY <2>2
  <2> QED BY <2>1, <2>2, <2>3, <2>4 DEF Wallet!Remove, Meters, Plans, States
<1> QED BY <1>1, <1>2, <1>3 DEF ServerStep

\* The purge removes hourly servers, and nothing else of theirs or of the wallet changes.
LEMMA PurgeRemoves ==
  ASSUME IInv, PurgeInv, NEW w \in Workers, NEW u \in Users, CommitPurge(w, u),
         NEW S \in SUBSET Servers, S = run[w].todo
  PROVE  Wallet!Remove(S)
<1>0. TypeOK /\ run[w].pc = "purging" /\ uLock[u] = w
  BY DEF IInv, CommitPurge
<1>1. \A s \in S : srv[s].cycle = "hourly"
  BY <1>0 DEF PurgeInv, PurgeHold
<1>2. ASSUME NEW s \in Servers
      PROVE  /\ srv'[s].status = IF s \in S THEN "deleted" ELSE srv[s].status
             /\ srv'[s].cycle = srv[s].cycle /\ srv'[s].anchor = srv[s].anchor
  BY <1>0 DEF CommitPurge, TypeOK, ServerRow
<1>3. balance' = balance /\ till' = till
  BY DEF CommitPurge, gate
<1>4. States' = [s \in Servers |-> IF s \in S THEN "deleted" ELSE States[s]]
  <2>1. \A s \in Servers : States'[s] = IF s \in S THEN "deleted" ELSE States[s]
    BY <1>2, Columns, NextColumns
  <2> QED BY <2>1, NextColumns
<1>5. Plans' = Plans /\ Meters' = Meters
  BY <1>2 DEF Plans, Meters
<1>6. \A s \in S : Plans[s] = "hourly"
  BY <1>1, Columns
<1> QED BY <1>3, <1>4, <1>5, <1>6 DEF Wallet!Remove, Meters, Plans, States

LEMMA MapStep ==
  IInv /\ PurgeInv /\ RefinementInv /\ [Next]_vars => [Wallet!Next]_(Wallet!vars)
<1> SUFFICES ASSUME IInv, PurgeInv, RefinementInv, [Next]_vars
             PROVE  Wallet!Next \/ UNCHANGED Wallet!vars
  OBVIOUS
<1>0. TypeOK
  BY DEF IInv
<1>1. ASSUME NEW w \in Workers, CommitRun(w) PROVE Wallet!Next
  <2>1. PICK S \in SUBSET Servers : S = run[w].charged
    BY <1>0 DEF TypeOK, RunState
  <2> QED BY <1>1, <2>1, CommitCharges DEF Wallet!Next
<1>2. ASSUME NEW w \in Workers, NEW u \in Users, CommitPurge(w, u) PROVE Wallet!Next
  <2>1. PICK S \in SUBSET Servers : S = run[w].todo
    BY <1>0 DEF TypeOK, RunState
  <2> QED BY <1>2, <2>1, PurgeRemoves DEF Wallet!Next
<1>3. ASSUME NEW w \in Workers, BillingStep(w), ~CommitRun(w),
             ~\E u \in Users : CommitPurge(w, u)
      PROVE  balance' = balance /\ srv' = srv /\ till' = till
  BY <1>3 DEF BillingStep, ListDue, LockServer, DebitHour, RefuseHour, BeginPurge,
              gate, rows
<1>4. ASSUME NEW u \in Users, Credit(u) PROVE Wallet!Next
  BY <1>4, CreditFunds DEF Wallet!Next
<1>9. ASSUME NEW u \in Users, GatewayStep(u) PROVE Wallet!Next
  BY <1>9, GatewayQuotes
<1>5. ASSUME NEW h \in Handlers, PayConvert(h) PROVE Wallet!Next
  <2>1. PICK s \in Servers : s = conv[h]
    BY <1>0, <1>5 DEF PayConvert, TypeOK
  <2> QED BY <1>5, <2>1, ConvertConverts DEF Wallet!Next
<1>6. ASSUME NEW h \in Handlers, ConvertStep(h), ~PayConvert(h)
      PROVE  balance' = balance /\ srv' = srv /\ till' = till
  BY <1>6 DEF ConvertStep, BeginConvert, RefuseConvert, gate, rows
<1>7. ASSUME NEW s \in Servers, ServerStep(s) PROVE Wallet!Next
  BY <1>7, ServerSteps DEF Wallet!Next
<1>8. ASSUME \/ \E u \in Users : GraceStep(u)
             \/ \E p \in Procs : Rollback(p)
             \/ RateChanges \/ Tick \/ Rest \/ UNCHANGED vars
      PROVE  balance' = balance /\ srv' = srv /\ till' = till
  BY <1>8
  DEF GraceStep, ClearGrace, StampGrace, WarnAgain, NothingDue, SetGrace, Rollback,
      RateChanges, Tick, Rest, vars, gate, rows
<1> QED
  BY <1>1, <1>2, <1>3, <1>4, <1>5, <1>6, <1>7, <1>8, <1>9, Stutters DEF Next

\* What the worker processes and the bot commit, whatever they interleave and wherever they
\* crash, is a behaviour of the abstract wallet: one that is charged by the hour in single
\* steps, never in part and never below zero, with no hour charged after a conversion.
THEOREM ImplementsMeteredWallet == Spec => ImplementsWallet
<1> QED
  BY MapInit, MapStep, InductiveInvariant, PurgeInvariant, RefinementInvariant, PTL
  DEF Spec, ImplementsWallet, Wallet!Spec
=============================================================================
