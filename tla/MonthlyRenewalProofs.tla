------------------------- MODULE MonthlyRenewalProofs -------------------------
(***************************************************************************)
(* Theorems about MonthlyRenewal for every set of servers, users, workers  *)
(* and bot sessions and every value of the constants.                      *)
(***************************************************************************)
EXTENDS MonthlyRenewal, TLAPS

(***************************************************************************)
(* The inductive invariant: what a run may commit is right when it is      *)
(* committed, because of the locks it holds and of what it has seen.       *)
(***************************************************************************)
Night == {"remind", "renew", "purge"}

\* a user row that a run has locked is, in its session, the committed one less what it spent
UserHold(w) ==
  \A u \in Users :
    IF uLock[u] = w
      THEN /\ mem[w].balance[u] = balance[u] - Price * mem[w].spent[u]
           /\ mem[w].balance[u] >= 0
      ELSE mem[w].spent[u] = 0

\* a server row that a run has written is locked by it
ServerHold(w) == \A s \in Servers : mem[w].cols[s] # {} => sLock[s] = w

\* the run works on a server of its list, and has charged it if it is about to renew it
AtWork(w) ==
  /\ run[w].at <= now
  /\ run[w].task = "idle" => run[w].step = "pick" /\ run[w].todo = {}
  /\ run[w].step # "pick" => run[w].cur \in run[w].todo
  /\ run[w].step = "debited" => run[w].cur \in run[w].charged

\* a new term was paid for in the same run
Terms(w) ==
  \A s \in Servers : "expires" \in mem[w].cols[s] =>
    s \in run[w].charged /\ mem[w].row[s].expires <= now + Month

\* only a nightly check suspends, and it removes only what was suspended a day before it began
Standings(w) ==
  \A s \in Servers :
    /\ SuspendedBy(w, s) => /\ run[w].task \in {"renew", "purge"}
                            /\ mem[w].row[s].since >= run[w].at
    /\ RemovedBy(w, s) => run[w].task = "purge" /\ told[s] + Day <= run[w].at

ListedOverdue(w) ==
  run[w].task = "purge" => \A s \in run[w].todo : told[s] + Day <= run[w].at

RunInv(w) ==
  /\ UserHold(w) /\ ServerHold(w) /\ AtWork(w)
  /\ Terms(w) /\ Standings(w) /\ ListedOverdue(w)

\* one nightly check at a time
NightAlone ==
  \A v, w \in Workers : run[v].task \in Night /\ run[w].task \in Night => v = w

HandlerInv(h) ==
  LET s == sess[h].at
  IN /\ sess[h].pc # "idle" => s \in Servers
     /\ sess[h].pc = "renewing" => sLock[s] = h /\ row[s].mark + Month <= now
     /\ sess[h].pc = "paid" => uLock[Owner[s]] = h /\ balance[Owner[s]] >= Price

\* the mark in the row is that of the last renewal by hand, unless an older extra_data was
\* written over it
Marked == \A s \in Servers \ erased : row[s].mark = manual[s].last

\* the owner was told of a suspension when it began
Told == \A s \in Servers : row[s].standing = "expired" => told[s] = row[s].since

IInv ==
  /\ TypeOK
  /\ Ledger
  /\ \A w \in Workers : RunInv(w)
  /\ NightAlone
  /\ \A h \in Handlers : HandlerInv(h)
  /\ Marked /\ Told

(***************************************************************************)
(* Rows, sessions and runs.                                                *)
(***************************************************************************)
LEMMA BlankRowType == BlankRow \in ServerRow
  BY AmountsAssumption DEF BlankRow, ServerRow, Never

LEMMA MergeType ==
  ASSUME NEW r \in ServerRow, NEW n \in ServerRow, NEW cols
  PROVE  /\ Merge(r, n, cols) \in ServerRow
         /\ Merge(r, n, cols).since = IF "standing" \in cols THEN n.since ELSE r.since
         /\ Merge(r, n, cols).expires = IF "expires" \in cols THEN n.expires ELSE r.expires
         /\ Merge(r, n, cols).mark = IF "extra" \in cols THEN n.mark ELSE r.mark
         /\ Merge(r, n, cols).notice = IF "extra" \in cols THEN n.notice ELSE r.notice
  BY DEF Merge, ServerRow, Deleted

LEMMA MergeStanding ==
  ASSUME NEW r \in ServerRow, NEW n \in ServerRow, NEW cols
  PROVE  /\ "standing" \notin cols => Merge(r, n, cols).standing = r.standing
         /\ "standing" \in cols /\ n.standing # "deleted" =>
              Merge(r, n, cols).standing = n.standing
         /\ "standing" \in cols /\ n.standing = "deleted" =>
              Merge(r, n, cols).standing \in {"deleted", "gone"}
  BY DEF Merge, ServerRow, Deleted

LEMMA MergeNothing ==
  ASSUME NEW r \in ServerRow, NEW n
  PROVE  Merge(r, n, {}) = r
  BY DEF Merge, ServerRow

LEMMA ViewType ==
  ASSUME TypeOK, NEW w \in Workers, NEW s \in Servers
  PROVE  /\ View(w, s) \in ServerRow
         /\ View(w, s) = Merge(row[s], mem[w].row[s], mem[w].cols[s])
<1>1. row[s] \in ServerRow /\ mem[w].row[s] \in ServerRow
  BY DEF TypeOK, SessionMap
<1> QED BY <1>1, MergeType DEF View

LEMMA StandingWrite ==
  ASSUME NEW r \in ServerRow, NEW st \in {"active", "expired", "held", "deleted", "gone"}, NEW t \in Nat
  PROVE  LET n == Standing(r, st, t)
         IN /\ n \in ServerRow /\ n.standing = st /\ n.since = t
            /\ n.expires = r.expires /\ n.mark = r.mark
  BY DEF Standing, ServerRow

LEMMA TermWrite ==
  ASSUME NEW r \in ServerRow, NEW t \in Int
  PROVE  LET n == Term(r, t)
         IN /\ n \in ServerRow /\ n.expires = t
            /\ n.standing = r.standing /\ n.since = r.since /\ n.mark = r.mark
  BY DEF Term, ServerRow

LEMMA ExtraWrite ==
  ASSUME NEW r \in ServerRow, NEW m \in Int, NEW n \in Int
  PROVE  LET x == Extra(r, m, n)
         IN /\ x \in ServerRow /\ x.mark = m
            /\ x.standing = r.standing /\ x.since = r.since /\ x.expires = r.expires
  BY DEF Extra, ServerRow

LEMMA BlankType ==
  /\ Blank \in SessionMap
  /\ \A s \in Servers : Blank.cols[s] = {}
  /\ \A u \in Users : Blank.spent[u] = 0
  BY BlankRowType DEF Blank, SessionMap, Columns

LEMMA IdleRunType ==
  /\ IdleRun \in RunState
  /\ IdleRun.task = "idle" /\ IdleRun.at = 0 /\ IdleRun.step = "pick" /\ IdleRun.todo = {}
  BY BlankRowType DEF IdleRun, RunState

\* What a session knows after a write.
LEMMA WrittenType ==
  ASSUME NEW m \in SessionMap, NEW s \in Servers, NEW r \in ServerRow, NEW cols \in SUBSET Columns
  PROVE  LET n == Written(m, s, r, cols)
         IN /\ n \in SessionMap
            /\ n.balance = m.balance /\ n.spent = m.spent
            /\ n.cols[s] = m.cols[s] \cup cols
            /\ n.row[s] = Merge(m.row[s], r, cols)
            /\ \A q \in Servers : q # s => n.cols[q] = m.cols[q] /\ n.row[q] = m.row[q]
<1>1. Merge(m.row[s], r, cols) \in ServerRow
  BY MergeType DEF SessionMap
<1> DEFINE R == [m.row EXCEPT ![s] = Merge(@, r, cols)]
           C == [m.cols EXCEPT ![s] = @ \cup cols]
<1>2. /\ R \in [Servers -> ServerRow] /\ R[s] = Merge(m.row[s], r, cols)
      /\ \A q \in Servers : q # s => R[q] = m.row[q]
  BY <1>1 DEF SessionMap
<1>3. /\ C \in [Servers -> SUBSET Columns] /\ C[s] = m.cols[s] \cup cols
      /\ \A q \in Servers : q # s => C[q] = m.cols[q]
  BY DEF SessionMap
<1>4. Written(m, s, r, cols) = [m EXCEPT !.row = R, !.cols = C]
  BY Zenon DEF Written
<1>5. ASSUME NEW a \in [Servers -> ServerRow], NEW c \in [Servers -> SUBSET Columns]
      PROVE  /\ [m EXCEPT !.row = a, !.cols = c] \in SessionMap
             /\ [m EXCEPT !.row = a, !.cols = c].row = a
             /\ [m EXCEPT !.row = a, !.cols = c].cols = c
             /\ [m EXCEPT !.row = a, !.cols = c].balance = m.balance
             /\ [m EXCEPT !.row = a, !.cols = c].spent = m.spent
  BY DEF SessionMap
<1> HIDE DEF R, C
<1>6. LET n == [m EXCEPT !.row = R, !.cols = C]
      IN n \in SessionMap /\ n.row = R /\ n.cols = C /\ n.balance = m.balance /\ n.spent = m.spent
  BY <1>2, <1>3, <1>5
<1> QED BY <1>2, <1>3, <1>4, <1>6

LEMMA LoadedWrites ==
  ASSUME NEW m \in SessionMap, NEW u \in Users, NEW b \in Int
  PROVE  LET n == Loaded(m, u, b)
         IN /\ n \in SessionMap /\ n.row = m.row /\ n.cols = m.cols /\ n.spent = m.spent
            /\ n.balance[u] = b
            /\ \A v \in Users : v # u => n.balance[v] = m.balance[v]
<1> DEFINE B == [m.balance EXCEPT ![u] = b]
<1>1. /\ B \in [Users -> Int] /\ B[u] = b
      /\ \A v \in Users : v # u => B[v] = m.balance[v]
  BY DEF SessionMap
<1>2. Loaded(m, u, b) = [m EXCEPT !.balance = B]
  BY Zenon DEF Loaded
<1> HIDE DEF B
<1>3. LET n == [m EXCEPT !.balance = B]
      IN n \in SessionMap /\ n.row = m.row /\ n.cols = m.cols /\ n.balance = B
         /\ n.spent = m.spent
  BY <1>1 DEF SessionMap
<1> QED BY <1>1, <1>2, <1>3

LEMMA DebitedWrites ==
  ASSUME NEW m \in SessionMap, NEW u \in Users, NEW b \in Int
  PROVE  LET n == Debited(m, u, b)
         IN /\ n \in SessionMap /\ n.row = m.row /\ n.cols = m.cols
            /\ n.balance[u] = b - Price /\ n.spent[u] = m.spent[u] + 1
            /\ \A v \in Users : v # u => n.balance[v] = m.balance[v] /\ n.spent[v] = m.spent[v]
<1> DEFINE B == [m.balance EXCEPT ![u] = b - Price]
           P == [m.spent EXCEPT ![u] = @ + 1]
<1>1. /\ B \in [Users -> Int] /\ B[u] = b - Price
      /\ \A v \in Users : v # u => B[v] = m.balance[v]
  BY AmountsAssumption DEF SessionMap
<1>2. /\ P \in [Users -> Nat] /\ P[u] = m.spent[u] + 1
      /\ \A v \in Users : v # u => P[v] = m.spent[v]
  BY DEF SessionMap
<1>3. Debited(m, u, b) = [m EXCEPT !.balance = B, !.spent = P]
  BY Zenon DEF Debited
<1> HIDE DEF B, P
<1>4. LET n == [m EXCEPT !.balance = B, !.spent = P]
      IN n \in SessionMap /\ n.row = m.row /\ n.cols = m.cols /\ n.balance = B /\ n.spent = P
  BY <1>1, <1>2 DEF SessionMap
<1> QED BY <1>1, <1>2, <1>3, <1>4

LEMMA PhaseType ==
  ASSUME TypeOK, NEW w \in Workers, NEW r \in RunState, NEW S \in SUBSET Servers,
         NEW task \in {"remind", "renew", "purge", "retry"}
  PROVE  LET q == Phase(r, w, task, S)
         IN /\ q \in RunState
            /\ q.task = task /\ q.todo = S /\ q.at = r.at /\ q.step = r.step
            /\ q.cur = r.cur /\ q.charged = r.charged
<1>1. [s \in Servers |-> IF s \in S THEN View(w, s) ELSE BlankRow] \in [Servers -> ServerRow]
  BY ViewType, BlankRowType
<1> QED BY <1>1, Zenon, SMT DEF Phase, RunState

LEMMA TakeMoves ==
  ASSUME NEW r \in RunState, NEW s \in Servers, NEW step \in {"pick", "debited", "refused"}
  PROVE  /\ Take(r, s, step) \in RunState
         /\ Take(r, s, step).cur = s /\ Take(r, s, step).step = step
         /\ Take(r, s, step).task = r.task /\ Take(r, s, step).at = r.at
         /\ Take(r, s, step).todo = r.todo /\ Take(r, s, step).charged = r.charged
  BY DEF Take, RunState

LEMMA ChargingMoves ==
  ASSUME NEW r \in RunState, NEW s \in Servers
  PROVE  /\ Charging(r, s) \in RunState
         /\ Charging(r, s).cur = s /\ Charging(r, s).step = "debited"
         /\ Charging(r, s).task = r.task /\ Charging(r, s).at = r.at
         /\ Charging(r, s).todo = r.todo /\ Charging(r, s).charged = r.charged \cup {s}
  BY DEF Charging, RunState

LEMMA DropMoves ==
  ASSUME NEW r \in RunState, NEW s \in Servers
  PROVE  /\ Drop(r, s) \in RunState
         /\ Drop(r, s).cur = NoServer /\ Drop(r, s).step = "pick"
         /\ Drop(r, s).task = r.task /\ Drop(r, s).at = r.at
         /\ Drop(r, s).todo = r.todo \ {s} /\ Drop(r, s).charged = r.charged
  BY BlankRowType DEF Drop, RunState

LEMMA ReleaseLocks ==
  ASSUME TypeOK, NEW p \in Procs, Release(p)
  PROVE  /\ sLock' \in [Servers -> Procs \cup {Nobody}]
         /\ uLock' \in [Users -> Procs \cup {Nobody}]
         /\ \A s \in Servers, q \in Procs : q # p => (sLock'[s] = q <=> sLock[s] = q)
         /\ \A u \in Users, q \in Procs : q # p => (uLock'[u] = q <=> uLock[u] = q)
         /\ \A s \in Servers : sLock'[s] # p
         /\ \A u \in Users : uLock'[u] # p
  BY ProcsAssumption DEF TypeOK, Release, Procs

LEMMA Multiples ==
  ASSUME NEW n \in Int, NEW k \in Int
  PROVE  /\ Price * n \in Int /\ Price * k \in Int
         /\ Price * (n + k) = Price * n + Price * k /\ Price * (n + 1) = Price * n + Price
  BY AmountsAssumption

(***************************************************************************)
(* Frames: what one process does to the rest.                              *)
(***************************************************************************)
\* A run that takes free locks and writes in its session disturbs nobody.
LEMMA WorkerFrame ==
  ASSUME IInv, TypeOK', NEW w \in Workers,
         \A v \in Workers : v # w => run'[v] = run[v] /\ mem'[v] = mem[v],
         UNCHANGED <<now, rows, sess, books>>,
         \A s \in Servers : sLock'[s] = sLock[s]
                            \/ (sLock[s] \in {Nobody, w} /\ sLock'[s] = w),
         \A u \in Users : uLock'[u] = uLock[u]
                          \/ (uLock[u] \in {Nobody, w} /\ uLock'[u] = w),
         RunInv(w)',
         run'[w].task \in Night =>
           run[w].task \in Night \/ \A v \in Workers : run[v].task \notin Night
  PROVE  IInv'
<1>0. TypeOK /\ Ledger /\ NightAlone /\ Marked /\ Told
  BY DEF IInv
<1>1. ASSUME NEW v \in Workers PROVE RunInv(v)'
  <2> SUFFICES ASSUME v # w PROVE RunInv(v)'
    OBVIOUS
  <2>1. RunInv(v) /\ run'[v] = run[v] /\ mem'[v] = mem[v]
    BY DEF IInv
  <2>2. v # Nobody /\ w # Nobody
    BY ProcsAssumption
  <2>3. UserHold(v)'
    BY <2>1, <2>2 DEF RunInv, UserHold, rows
  <2>4. ServerHold(v)'
    BY <2>1, <2>2 DEF RunInv, ServerHold
  <2>5. AtWork(v)' /\ Terms(v)'
    BY <2>1 DEF RunInv, AtWork, Terms
  <2>6. Standings(v)' /\ ListedOverdue(v)'
    BY <2>1 DEF RunInv, Standings, ListedOverdue, SuspendedBy, RemovedBy, books
  <2> QED BY <2>3, <2>4, <2>5, <2>6 DEF RunInv
<1>2. NightAlone'
  BY <1>0 DEF NightAlone
<1>3. ASSUME NEW h \in Handlers PROVE HandlerInv(h)'
  <2>1. HandlerInv(h) /\ h # Nobody /\ h # w
    BY ProcsAssumption DEF IInv
  <2>2. sess[h].at \in Servers => Owner[sess[h].at] \in Users
    BY ServersAssumption
  <2> QED BY <2>1, <2>2 DEF HandlerInv, rows
<1>4. Ledger' /\ Marked' /\ Told'
  BY <1>0 DEF Ledger, Marked, Told, rows, books
<1> QED BY <1>1, <1>2, <1>3, <1>4 DEF IInv

\* A step outside the runs disturbs a run only through the rows and locks it holds.
LEMMA RunsUntouched ==
  ASSUME IInv, UNCHANGED <<run, mem, told>>, now' >= now, now' \in Nat,
         \A w \in Workers, s \in Servers : sLock[s] = w => sLock'[s] = w,
         \A w \in Workers, u \in Users :
           (uLock'[u] = w <=> uLock[u] = w) /\ (uLock[u] = w => balance'[u] = balance[u])
  PROVE  /\ \A w \in Workers : RunInv(w)'
         /\ NightAlone'
<1>0. TypeOK /\ NightAlone
  BY DEF IInv
<1>1. ASSUME NEW w \in Workers PROVE RunInv(w)'
  <2>1. RunInv(w) /\ run[w] \in RunState /\ mem[w] \in SessionMap
    BY <1>0 DEF IInv, TypeOK
  <2>2. UserHold(w)' /\ ServerHold(w)'
    BY <2>1 DEF RunInv, UserHold, ServerHold
  <2>3. now \in Nat /\ run[w].at \in Nat /\ Month \in Nat
        /\ \A s \in Servers : mem[w].row[s].expires \in Int
    BY <1>0, <2>1, AmountsAssumption DEF TypeOK, RunState, SessionMap, ServerRow
  <2>4. AtWork(w)' /\ Terms(w)'
    BY <2>1, <2>3 DEF RunInv, AtWork, Terms
  <2>5. Standings(w)' /\ ListedOverdue(w)'
    BY <2>1 DEF RunInv, Standings, ListedOverdue, SuspendedBy, RemovedBy
  <2> QED BY <2>2, <2>4, <2>5 DEF RunInv
<1> QED BY <1>0, <1>1 DEF NightAlone

\* The values a run's step leaves are of their types.
LEMMA WorkerTypes ==
  ASSUME TypeOK, run' \in [Workers -> RunState], mem' \in [Workers -> SessionMap],
         UNCHANGED <<now, rows, rate, draft, sess, crashes, books>>, night' \in Int,
         sLock' \in [Servers -> Procs \cup {Nobody}],
         uLock' \in [Users -> Procs \cup {Nobody}]
  PROVE  TypeOK'
  BY DEF TypeOK, rows, books

\* A step that moves the run on and writes nothing.
LEMMA RunOnly ==
  ASSUME IInv, NEW w \in Workers, NEW r \in RunState,
         run' = [run EXCEPT ![w] = r],
         UNCHANGED <<now, rows, rate, draft, mem, sess, locks, crashes, books>>, night' \in Int,
         r.at <= now, r.task # "idle",
         r.step # "pick" => r.cur \in r.todo,
         r.step = "debited" => r.cur \in r.charged,
         run[w].charged \subseteq r.charged,
         \A s \in Servers : SuspendedBy(w, s) =>
           r.task \in {"renew", "purge"} /\ mem[w].row[s].since >= r.at,
         \A s \in Servers : RemovedBy(w, s) => r.task = "purge" /\ told[s] + Day <= r.at,
         r.task = "purge" => \A s \in r.todo : told[s] + Day <= r.at,
         r.task \in Night => run[w].task \in Night \/ \A v \in Workers : run[v].task \notin Night
  PROVE  IInv'
<1>1. TypeOK /\ RunInv(w) /\ mem[w] \in SessionMap
  BY DEF IInv, TypeOK
<1>2. mem' = [mem EXCEPT ![w] = mem[w]] /\ UNCHANGED <<sLock, uLock>>
  BY <1>1 DEF TypeOK, locks
<1>3. /\ TypeOK' /\ run'[w] = r /\ mem'[w] = mem[w]
      /\ \A v \in Workers : v # w => run'[v] = run[v] /\ mem'[v] = mem[v]
  <2>1. sLock' \in [Servers -> Procs \cup {Nobody}] /\ uLock' \in [Users -> Procs \cup {Nobody}]
    BY <1>1, <1>2 DEF TypeOK
  <2>2. UNCHANGED <<now, rows, rate, draft, sess, crashes, books>>
    OBVIOUS
  <2>3. run' \in [Workers -> RunState] /\ mem' \in [Workers -> SessionMap]
    BY <1>1, <1>2 DEF TypeOK
  <2>4. /\ run'[w] = r /\ mem'[w] = mem[w]
        /\ \A v \in Workers : v # w => run'[v] = run[v] /\ mem'[v] = mem[v]
    BY <1>1, <1>2 DEF TypeOK
  <2> QED BY <1>1, <2>1, <2>2, <2>3, <2>4, WorkerTypes
<1>4. RunInv(w)'
  <2>1. UserHold(w)' /\ ServerHold(w)'
    BY <1>1, <1>2, <1>3 DEF RunInv, UserHold, ServerHold, rows
  <2>2. AtWork(w)' /\ Terms(w)'
    BY <1>1, <1>3 DEF RunInv, AtWork, Terms
  <2>3. Standings(w)' /\ ListedOverdue(w)'
    BY <1>3 DEF Standings, ListedOverdue, SuspendedBy, RemovedBy, books
  <2> QED BY <2>1, <2>2, <2>3 DEF RunInv
<1> QED BY <1>2, <1>3, <1>4, WorkerFrame

\* An UPDATE that waits for the row's lock and ends the work on a server.
LEMMA Flushes ==
  ASSUME IInv, NEW w \in Workers, NEW s \in Servers, NEW r \in ServerRow,
         NEW cols \in SUBSET Columns,
         run[w].task # "idle",
         ServerFree(w, s), sLock' = [sLock EXCEPT ![s] = w],
         mem' = [mem EXCEPT ![w] = Written(mem[w], s, r, cols)],
         run' = [run EXCEPT ![w] = Drop(run[w], s)],
         UNCHANGED <<now, rows, rate, draft, sess, uLock, night, crashes, books>>,
         "expires" \in cols => s \in run[w].charged /\ r.expires <= now + Month,
         "standing" \in cols /\ r.standing = "expired" =>
           run[w].task \in {"renew", "purge"} /\ r.since >= run[w].at,
         "standing" \in cols /\ r.standing \in {"deleted", "gone"} =>
           run[w].task = "purge" /\ told[s] + Day <= run[w].at
  PROVE  IInv'
<1>1. /\ TypeOK /\ RunInv(w) /\ run[w] \in RunState /\ mem[w] \in SessionMap
      /\ mem[w].row[s] \in ServerRow /\ w \in Procs /\ night \in Int
  BY DEF IInv, TypeOK, SessionMap, Procs
<1> DEFINE q == Drop(run[w], s)
           n == Written(mem[w], s, r, cols)
<1>2. /\ q \in RunState /\ q.cur = NoServer /\ q.step = "pick" /\ q.task = run[w].task
      /\ q.at = run[w].at /\ q.todo = run[w].todo \ {s} /\ q.charged = run[w].charged
  BY <1>1, DropMoves
<1>3. /\ n \in SessionMap /\ n.balance = mem[w].balance /\ n.spent = mem[w].spent
      /\ n.cols[s] = mem[w].cols[s] \cup cols /\ n.row[s] = Merge(mem[w].row[s], r, cols)
      /\ \A x \in Servers : x # s => n.cols[x] = mem[w].cols[x] /\ n.row[x] = mem[w].row[x]
  BY <1>1, WrittenType
<1>4. /\ "standing" \notin cols => n.row[s].standing = mem[w].row[s].standing
      /\ "standing" \in cols /\ r.standing # "deleted" => n.row[s].standing = r.standing
      /\ "standing" \in cols /\ r.standing = "deleted" =>
           n.row[s].standing \in {"deleted", "gone"}
      /\ n.row[s].since = IF "standing" \in cols THEN r.since ELSE mem[w].row[s].since
      /\ n.row[s].expires = IF "expires" \in cols THEN r.expires ELSE mem[w].row[s].expires
  <2> DEFINE a == mem[w].row[s]
  <2>1. a \in ServerRow /\ n.row[s] = Merge(a, r, cols)
    BY <1>1, <1>3
  <2> HIDE DEF a, n
  <2>4. /\ "standing" \notin cols => Merge(a, r, cols).standing = a.standing
        /\ "standing" \in cols /\ r.standing # "deleted" =>
             Merge(a, r, cols).standing = r.standing
        /\ "standing" \in cols /\ r.standing = "deleted" =>
             Merge(a, r, cols).standing \in {"deleted", "gone"}
    BY <2>1, MergeStanding
  <2>2. /\ Merge(a, r, cols).since = IF "standing" \in cols THEN r.since ELSE a.since
        /\ Merge(a, r, cols).expires = IF "expires" \in cols THEN r.expires ELSE a.expires
    BY <2>1, MergeType
  <2>3. a.standing = mem[w].row[s].standing /\ a.since = mem[w].row[s].since
        /\ a.expires = mem[w].row[s].expires
    BY DEF a
  <2> QED BY <2>1, <2>2, <2>3, <2>4
<1> HIDE DEF q, n
<1>5. /\ sLock' \in [Servers -> Procs \cup {Nobody}] /\ sLock'[s] = w
      /\ \A x \in Servers : x # s => sLock'[x] = sLock[x]
      /\ uLock' \in [Users -> Procs \cup {Nobody}]
  BY <1>1 DEF TypeOK
<1>6. run' = [run EXCEPT ![w] = q] /\ mem' = [mem EXCEPT ![w] = n] /\ night' \in Int
  BY <1>1 DEF q, n
<1>7. /\ TypeOK' /\ run'[w] = q /\ mem'[w] = n
      /\ \A v \in Workers : v # w => run'[v] = run[v] /\ mem'[v] = mem[v]
  <2>1. UNCHANGED <<now, rows, rate, draft, sess, crashes, books>>
    OBVIOUS
  <2>2. run' \in [Workers -> RunState] /\ mem' \in [Workers -> SessionMap]
    BY <1>1, <1>2, <1>3, <1>6 DEF TypeOK
  <2>3. /\ run'[w] = q /\ mem'[w] = n
        /\ \A v \in Workers : v # w => run'[v] = run[v] /\ mem'[v] = mem[v]
    BY <1>1, <1>6 DEF TypeOK
  <2> QED BY <1>1, <1>5, <1>6, <2>1, <2>2, <2>3, WorkerTypes
<1>8. RunInv(w)'
  <2>1. UserHold(w)'
    BY <1>1, <1>3, <1>7 DEF RunInv, UserHold, rows
  <2>2. ServerHold(w)'
    BY <1>1, <1>3, <1>5, <1>7 DEF RunInv, ServerHold
  <2>3. AtWork(w)'
    BY <1>1, <1>2, <1>7 DEF RunInv, AtWork
  <2>4. Terms(w)'
    <3> SUFFICES ASSUME NEW x \in Servers, "expires" \in mem'[w].cols[x]
                 PROVE  x \in run'[w].charged /\ mem'[w].row[x].expires <= now' + Month
      BY DEF Terms
    <3>1. CASE x = s
      BY <3>1, <1>1, <1>2, <1>3, <1>4, <1>7 DEF RunInv, Terms
    <3>2. CASE x # s
      BY <3>2, <1>1, <1>2, <1>3, <1>7 DEF RunInv, Terms
    <3> QED BY <3>1, <3>2
  <2>5. Standings(w)'
    <3> SUFFICES ASSUME NEW x \in Servers, "standing" \in mem'[w].cols[x]
                 PROVE  /\ mem'[w].row[x].standing = "expired" =>
                             run'[w].task \in {"renew", "purge"}
                             /\ mem'[w].row[x].since >= run'[w].at
                        /\ mem'[w].row[x].standing \in {"deleted", "gone"} =>
                             run'[w].task = "purge" /\ told'[x] + Day <= run'[w].at
      BY DEF Standings, SuspendedBy, RemovedBy
    <3>1. CASE x = s
      BY <3>1, <1>1, <1>2, <1>3, <1>4, <1>7
         DEF RunInv, Standings, SuspendedBy, RemovedBy, books
    <3>2. CASE x # s
      BY <3>2, <1>1, <1>2, <1>3, <1>7
         DEF RunInv, Standings, SuspendedBy, RemovedBy, books
    <3> QED BY <3>1, <3>2
  <2>6. ListedOverdue(w)'
    BY <1>1, <1>2, <1>7 DEF RunInv, ListedOverdue, books
  <2> QED BY <2>1, <2>2, <2>3, <2>4, <2>5, <2>6 DEF RunInv
<1>9. run'[w].task \in Night => run[w].task \in Night
  BY <1>2, <1>7
<1> QED BY <1>5, <1>7, <1>8, <1>9, WorkerFrame DEF ServerFree

(***************************************************************************)
(* The lists.                                                              *)
(***************************************************************************)
LEMMA ListsAreServers ==
  ASSUME NEW w \in Workers, NEW t
  PROVE  /\ ExpiresSoon(w, t) \in SUBSET Servers /\ Expired(w, t) \in SUBSET Servers
         /\ Overdue(w, t) \in SUBSET Servers /\ SuspendedExpired(w) \in SUBSET Servers
  BY DEF ExpiresSoon, Expired, Overdue, SuspendedExpired

LEMMA StartedRun ==
  ASSUME TypeOK, NEW w \in Workers
  PROVE  LET r == [run[w] EXCEPT !.at = now]
         IN /\ r \in RunState /\ r.at = now /\ r.step = run[w].step
            /\ r.cur = run[w].cur /\ r.charged = run[w].charged
<1>1. run[w] \in RunState /\ now \in Nat
  BY DEF TypeOK
<1> QED BY <1>1 DEF RunState

\* Nothing is suspended or removed in the session of an idle process.
LEMMA IdleWrites ==
  ASSUME IInv, NEW w \in Workers, run[w].task = "idle"
  PROVE  /\ run[w].step = "pick"
         /\ \A s \in Servers : ~SuspendedBy(w, s) /\ ~RemovedBy(w, s)
<1>1. RunInv(w)
  BY DEF IInv
<1> QED BY <1>1 DEF RunInv, AtWork, Standings

LEMMA BeginNightSafe ==
  ASSUME IInv, NEW w \in Workers, BeginNight(w)
  PROVE  IInv'
<1>1. TypeOK /\ run[w].task = "idle" /\ now \in Nat
  BY DEF IInv, TypeOK, BeginNight
<1> DEFINE r == [run[w] EXCEPT !.at = now]
           q == Phase(r, w, "remind", ExpiresSoon(w, now))
<1>2. /\ r \in RunState /\ r.at = now /\ r.step = "pick" /\ r.charged = run[w].charged
      /\ \A s \in Servers : ~SuspendedBy(w, s) /\ ~RemovedBy(w, s)
  BY <1>1, StartedRun, IdleWrites
<1>3. run' = [run EXCEPT ![w] = q] /\ night' \in Int
  BY <1>1 DEF BeginNight
<1> HIDE DEF r
<1>4. /\ q \in RunState /\ q.at = now /\ q.step = "pick" /\ q.charged = run[w].charged
      /\ q.task = "remind"
  BY <1>1, <1>2, PhaseType, ListsAreServers
<1> HIDE DEF q
<1>5. /\ UNCHANGED <<now, rows, rate, draft, mem, sess, locks, crashes, books>>
      /\ \A v \in Workers : run[v].task \notin Night
  BY DEF BeginNight, Night
<1>6. /\ q.at <= now /\ q.task # "idle" /\ q.task # "purge" /\ q.step # "debited"
      /\ run[w].charged \subseteq q.charged
  BY <1>1, <1>2, <1>4
<1>7. \A s \in Servers : ~SuspendedBy(w, s) /\ ~RemovedBy(w, s)
  BY <1>2
<1> QED BY <1>3, <1>4, <1>5, <1>6, <1>7, RunOnly

LEMMA BeginRetrySafe ==
  ASSUME IInv, NEW w \in Workers, BeginRetry(w)
  PROVE  IInv'
<1>1. TypeOK /\ run[w].task = "idle" /\ now \in Nat
  BY DEF IInv, TypeOK, BeginRetry
<1> DEFINE r == [run[w] EXCEPT !.at = now]
           q == Phase(r, w, "retry", SuspendedExpired(w))
<1>2. /\ r \in RunState /\ r.at = now /\ r.step = "pick" /\ r.charged = run[w].charged
      /\ \A s \in Servers : ~SuspendedBy(w, s) /\ ~RemovedBy(w, s)
  BY <1>1, StartedRun, IdleWrites
<1>3. run' = [run EXCEPT ![w] = q] /\ night' \in Int
  BY <1>1 DEF BeginRetry, IInv, TypeOK
<1> HIDE DEF r
<1>4. /\ q \in RunState /\ q.at = now /\ q.step = "pick" /\ q.charged = run[w].charged
      /\ q.task = "retry"
  BY <1>1, <1>2, PhaseType, ListsAreServers
<1> HIDE DEF q
<1>5. UNCHANGED <<now, rows, rate, draft, mem, sess, locks, crashes, books>>
  BY DEF BeginRetry
<1>6. /\ q.at <= now /\ q.task # "idle" /\ q.task # "purge" /\ q.step # "debited"
      /\ run[w].charged \subseteq q.charged
  BY <1>1, <1>2, <1>4
<1>7. \A s \in Servers : ~SuspendedBy(w, s) /\ ~RemovedBy(w, s)
  BY <1>2
<1> QED BY <1>3, <1>4, <1>5, <1>6, <1>7, RunOnly DEF Night

LEMMA ListExpiredSafe ==
  ASSUME IInv, NEW w \in Workers, ListExpired(w)
  PROVE  IInv'
<1>1. /\ TypeOK /\ run[w].task = "remind" /\ run[w].todo = {} /\ RunInv(w) /\ night \in Int
      /\ run[w] \in RunState
  BY DEF IInv, TypeOK, ListExpired
<1> DEFINE q == Phase(run[w], w, "renew", Expired(w, run[w].at))
<1>2. run' = [run EXCEPT ![w] = q] /\ night' \in Int
  BY <1>1 DEF ListExpired
<1>3. run[w].step = "pick" /\ run[w].at <= now
  BY <1>1 DEF RunInv, AtWork
<1>4. /\ q \in RunState /\ q.at = run[w].at /\ q.step = "pick" /\ q.charged = run[w].charged
      /\ q.task = "renew"
  BY <1>1, <1>3, PhaseType, ListsAreServers
<1>5. \A s \in Servers : ~SuspendedBy(w, s) /\ ~RemovedBy(w, s)
  BY <1>1 DEF RunInv, Standings
<1> HIDE DEF q
<1>6. UNCHANGED <<now, rows, rate, draft, mem, sess, locks, crashes, books>>
  BY DEF ListExpired
<1> QED BY <1>1, <1>2, <1>3, <1>4, <1>5, <1>6, RunOnly DEF Night

\* What is listed as overdue was suspended by an earlier transaction, a day before the run began.
LEMMA OverdueTold ==
  ASSUME IInv, NEW w \in Workers, run[w].task = "renew", NEW s \in Overdue(w, run[w].at)
  PROVE  told[s] + Day <= run[w].at
<1>1. /\ TypeOK /\ Told /\ s \in Servers /\ Standings(w)
      /\ View(w, s).standing = "expired" /\ View(w, s).since <= run[w].at - Day
  BY DEF IInv, RunInv, Overdue, SuspendedExpired
<1>2. /\ row[s] \in ServerRow /\ mem[w].row[s] \in ServerRow
      /\ run[w].at \in Nat /\ Day \in Nat \ {0} /\ told[s] \in Nat
  BY <1>1, AmountsAssumption DEF TypeOK, SessionMap, RunState
<1>3. /\ "standing" \in mem[w].cols[s] => mem[w].row[s].standing = "expired"
      /\ "standing" \notin mem[w].cols[s] => row[s].standing = "expired"
      /\ View(w, s).since = IF "standing" \in mem[w].cols[s]
                              THEN mem[w].row[s].since ELSE row[s].since
  <2> DEFINE a == row[s]
             b == mem[w].row[s]
             c == mem[w].cols[s]
  <2>1. /\ a \in ServerRow /\ b \in ServerRow /\ View(w, s) = Merge(a, b, c)
        /\ Merge(a, b, c).standing = "expired"
    BY <1>1, <1>2 DEF View
  <2> HIDE DEF a, b, c
  <2>2. /\ "standing" \in c => b.standing = "expired"
        /\ "standing" \notin c => a.standing = "expired"
    BY <2>1, MergeStanding
  <2>3. /\ Merge(a, b, c).since = IF "standing" \in c THEN b.since ELSE a.since
    BY <2>1, MergeType
  <2> QED BY <2>1, <2>2, <2>3 DEF a, b, c
<1>4. CASE "standing" \in mem[w].cols[s]
  <2>1. SuspendedBy(w, s) /\ mem[w].row[s].since <= run[w].at - Day
    BY <1>1, <1>3, <1>4 DEF SuspendedBy
  <2>2. mem[w].row[s].since >= run[w].at /\ mem[w].row[s].since \in Nat
    BY <1>1, <1>2, <2>1 DEF Standings, ServerRow
  <2> QED BY <1>2, <2>1, <2>2
<1>5. CASE "standing" \notin mem[w].cols[s]
  <2>1. row[s].standing = "expired" /\ row[s].since <= run[w].at - Day
    BY <1>1, <1>3, <1>5
  <2> QED BY <1>1, <1>2, <2>1 DEF Told
<1> QED BY <1>4, <1>5

LEMMA ListOverdueSafe ==
  ASSUME IInv, NEW w \in Workers, ListOverdue(w)
  PROVE  IInv'
<1>1. /\ TypeOK /\ run[w].task = "renew" /\ run[w].todo = {} /\ RunInv(w) /\ night \in Int
      /\ run[w] \in RunState
  BY DEF IInv, TypeOK, ListOverdue
<1> DEFINE q == Phase(run[w], w, "purge", Overdue(w, run[w].at))
<1>2. run' = [run EXCEPT ![w] = q] /\ night' \in Int
  BY <1>1 DEF ListOverdue
<1>3. run[w].step = "pick" /\ run[w].at <= now
  BY <1>1 DEF RunInv, AtWork
<1>4. /\ q \in RunState /\ q.at = run[w].at /\ q.step = "pick" /\ q.charged = run[w].charged
      /\ q.task = "purge" /\ q.todo = Overdue(w, run[w].at)
  BY <1>1, <1>3, PhaseType, ListsAreServers
<1>5. /\ \A s \in Servers : ~RemovedBy(w, s)
      /\ \A s \in Servers : SuspendedBy(w, s) => mem[w].row[s].since >= run[w].at
  BY <1>1 DEF RunInv, Standings
<1>6. \A s \in q.todo : told[s] + Day <= q.at
  BY <1>1, <1>4, OverdueTold
<1> HIDE DEF q
<1>7. UNCHANGED <<now, rows, rate, draft, mem, sess, locks, crashes, books>>
  BY DEF ListOverdue
<1> QED BY <1>1, <1>2, <1>3, <1>4, <1>5, <1>6, <1>7, RunOnly DEF Night

(***************************************************************************)
(* The steps of a run that write in its session.                           *)
(***************************************************************************)
LEMMA RemindSafe ==
  ASSUME IInv, NEW w \in Workers, NEW s \in Servers, Remind(w, s)
  PROVE  IInv'
<1>1. /\ TypeOK /\ RunInv(w) /\ run[w] \in RunState /\ night \in Int
      /\ run[w].task = "remind"
  BY DEF IInv, TypeOK, Remind
<1>2. CASE Reminded(w, s)
  <2> DEFINE q == Drop(run[w], s)
  <2>1. /\ q \in RunState /\ q.at = run[w].at /\ q.step = "pick" /\ q.task = "remind"
        /\ q.charged = run[w].charged
    BY <1>1, DropMoves
  <2>2. run' = [run EXCEPT ![w] = q]
        /\ UNCHANGED <<now, rows, rate, draft, mem, sess, locks, crashes, books>> /\ night' \in Int
    BY <1>1, <1>2 DEF Remind, locks
  <2> HIDE DEF q
  <2>3. q.at <= now /\ \A x \in Servers : ~SuspendedBy(w, x) /\ ~RemovedBy(w, x)
    BY <1>1, <2>1 DEF RunInv, AtWork, Standings
  <2> QED BY <1>1, <2>1, <2>2, <2>3, RunOnly
<1>3. CASE ~Reminded(w, s)
  <2> DEFINE r == Extra(row[s], run[w].seen[s].mark, DaysLeft(run[w].seen[s], run[w].at))
  <2>1. row[s] \in ServerRow /\ run[w].seen[s] \in ServerRow /\ run[w].at \in Nat
    BY <1>1 DEF TypeOK, RunState
  <2>2. run[w].seen[s].mark \in Int /\ DaysLeft(run[w].seen[s], run[w].at) \in Int
    BY <2>1, AmountsAssumption DEF ServerRow, DaysLeft
  <2>3. r \in ServerRow
    BY <2>1, <2>2, ExtraWrite
  <2>4. /\ ServerFree(w, s) /\ sLock' = [sLock EXCEPT ![s] = w]
        /\ mem' = [mem EXCEPT ![w] = Written(mem[w], s, r, {"extra"})]
        /\ run' = [run EXCEPT ![w] = Drop(run[w], s)]
        /\ UNCHANGED <<now, rows, rate, draft, sess, uLock, night, crashes, books>>
    BY <1>3 DEF Remind
  <2> HIDE DEF r
  <2>5. {"extra"} \in SUBSET Columns /\ "expires" \notin {"extra"} /\ "standing" \notin {"extra"}
    BY DEF Columns
  <2> QED BY <1>1, <2>3, <2>4, <2>5, Flushes
<1> QED BY <1>2, <1>3

LEMMA PostponeSafe ==
  ASSUME IInv, NEW w \in Workers, NEW s \in Servers, Postpone(w, s)
  PROVE  IInv'
<1>1. /\ TypeOK /\ RunInv(w) /\ run[w] \in RunState /\ night \in Int
      /\ run[w].task \in {"renew", "retry"}
  BY DEF IInv, TypeOK, Postpone
<1> DEFINE q == Drop(run[w], s)
<1>2. /\ q \in RunState /\ q.at = run[w].at /\ q.step = "pick" /\ q.task = run[w].task
      /\ q.charged = run[w].charged
  BY <1>1, DropMoves
<1>3. run' = [run EXCEPT ![w] = q] /\ night' \in Int
      /\ UNCHANGED <<now, rows, rate, draft, mem, sess, locks, crashes, books>>
  BY <1>1 DEF Postpone
<1> HIDE DEF q
<1>4. q.at <= now /\ q.task # "purge"
  BY <1>1, <1>2 DEF RunInv, AtWork
<1>5. \A x \in Servers : /\ ~RemovedBy(w, x)
                         /\ SuspendedBy(w, x) => /\ q.task \in {"renew", "purge"}
                                                 /\ mem[w].row[x].since >= q.at
  BY <1>1, <1>2 DEF RunInv, Standings
<1>6. q.task \in Night => run[w].task \in Night
  BY <1>2
<1> QED BY <1>1, <1>2, <1>3, <1>4, <1>5, <1>6, RunOnly

LEMMA PostponeOverdueSafe ==
  ASSUME IInv, NEW w \in Workers, NEW s \in Servers, PostponeOverdue(w, s)
  PROVE  IInv'
<1>1. /\ TypeOK /\ RunInv(w) /\ run[w] \in RunState /\ night \in Int
      /\ run[w].task = "purge" /\ s \in run[w].todo
  BY DEF IInv, TypeOK, PostponeOverdue, AtHand
<1> DEFINE q == Take(run[w], s, "refused")
<1>2. /\ q \in RunState /\ q.at = run[w].at /\ q.step = "refused" /\ q.task = "purge"
      /\ q.charged = run[w].charged /\ q.cur = s /\ q.todo = run[w].todo
  BY <1>1, TakeMoves
<1>3. run' = [run EXCEPT ![w] = q] /\ night' \in Int
      /\ UNCHANGED <<now, rows, rate, draft, mem, sess, locks, crashes, books>>
  BY <1>1 DEF PostponeOverdue
<1> HIDE DEF q
<1>4. q.at <= now /\ \A x \in q.todo : told[x] + Day <= q.at
  BY <1>1, <1>2 DEF RunInv, AtWork, ListedOverdue
<1>5. \A x \in Servers : /\ RemovedBy(w, x) => told[x] + Day <= q.at
                         /\ SuspendedBy(w, x) => mem[w].row[x].since >= q.at
  BY <1>1, <1>2 DEF RunInv, Standings
<1>6. run[w].task \in Night
  BY <1>1 DEF Night
<1> QED BY <1>1, <1>2, <1>3, <1>4, <1>5, <1>6, RunOnly

LEMMA RenewedRow ==
  ASSUME NEW seen \in ServerRow, NEW term \in Int
  PROVE  LET r == Extra(Term(Standing(seen, "active", 0), term), seen.mark, 0)
         IN r \in ServerRow /\ r.expires = term /\ r.standing = "active"
<1> DEFINE a == Standing(seen, "active", 0)
<1>1. a \in ServerRow /\ a.standing = "active" /\ seen.mark \in Int
  BY DEF Standing, ServerRow
<1> HIDE DEF a
<1> DEFINE b == Term(a, term)
<1>2. b \in ServerRow /\ b.standing = "active" /\ b.expires = term
  BY <1>1 DEF Term, ServerRow
<1> HIDE DEF b
<1>3. /\ Extra(b, seen.mark, 0) \in ServerRow
      /\ Extra(b, seen.mark, 0).standing = b.standing
      /\ Extra(b, seen.mark, 0).expires = b.expires
  BY <1>1, <1>2, ExtraWrite
<1> QED BY <1>2, <1>3 DEF a, b

LEMMA RenewSafe ==
  ASSUME IInv, NEW w \in Workers, Renew(w)
  PROVE  IInv'
<1> DEFINE s == run[w].cur
           seen == run[w].seen[s]
           term == IF run[w].task = "renew" THEN run[w].at + Month ELSE now + Month
           up == IF run[w].task = "renew" THEN {} ELSE {"standing"}
           r == Extra(Term(Standing(seen, "active", 0), term), seen.mark, 0)
           cols == {"expires"} \cup up \cup NoticeColumns(seen)
<1>1. /\ TypeOK /\ RunInv(w) /\ run[w] \in RunState
      /\ run[w].step = "debited" /\ Flush(w, r, cols)
  BY DEF IInv, TypeOK, Renew
<1>2. s \in Servers /\ s \in run[w].charged /\ run[w].at <= now
  BY <1>1 DEF RunInv, AtWork, RunState
<1>3. seen \in ServerRow /\ seen.mark \in Int /\ term \in Int /\ term <= now + Month
  BY <1>1, <1>2, AmountsAssumption DEF TypeOK, RunState, ServerRow
<1>4. cols \in SUBSET Columns
  BY DEF NoticeColumns, Columns
<1> HIDE DEF term, seen, cols
<1>5. r \in ServerRow /\ r.expires = term /\ r.standing = "active"
  BY <1>3, RenewedRow
<1> HIDE DEF r
<1>6. /\ run[w].task # "idle" /\ ServerFree(w, s) /\ sLock' = [sLock EXCEPT ![s] = w]
      /\ mem' = [mem EXCEPT ![w] = Written(mem[w], s, r, cols)]
      /\ run' = [run EXCEPT ![w] = Drop(run[w], s)]
      /\ UNCHANGED <<now, rows, rate, draft, sess, uLock, night, crashes, books>>
  BY <1>1 DEF Flush, RunInv, AtWork
<1> HIDE DEF s
<1> QED BY <1>2, <1>3, <1>4, <1>5, <1>6, Flushes

LEMMA SuspendSafe ==
  ASSUME IInv, NEW w \in Workers, Suspend(w)
  PROVE  IInv'
<1> DEFINE s == run[w].cur
           r == Standing(BlankRow, "expired", now)
<1>1. /\ TypeOK /\ RunInv(w) /\ run[w] \in RunState /\ now \in Nat
      /\ run[w].task = "renew" /\ run[w].step = "refused" /\ Flush(w, r, {"standing"})
  BY DEF IInv, TypeOK, Suspend
<1>2. s \in Servers /\ run[w].at <= now
  BY <1>1 DEF RunInv, AtWork, RunState
<1>3. r \in ServerRow /\ r.standing = "expired" /\ r.since = now
  BY <1>1, BlankRowType DEF Standing, ServerRow
<1>4. {"standing"} \in SUBSET Columns /\ "expires" \notin {"standing"}
  BY DEF Columns
<1> HIDE DEF r
<1>5. /\ ServerFree(w, s) /\ sLock' = [sLock EXCEPT ![s] = w]
      /\ mem' = [mem EXCEPT ![w] = Written(mem[w], s, r, {"standing"})]
      /\ run' = [run EXCEPT ![w] = Drop(run[w], s)]
      /\ UNCHANGED <<now, rows, rate, draft, sess, uLock, night, crashes, books>>
  BY <1>1 DEF Flush
<1> HIDE DEF s
<1>6. run[w].at \in Nat
  BY <1>1 DEF RunState
<1> QED BY <1>1, <1>2, <1>3, <1>4, <1>5, <1>6, Flushes

LEMMA RemoveSafe ==
  ASSUME IInv, NEW w \in Workers, Remove(w)
  PROVE  IInv'
<1> DEFINE s == run[w].cur
           r == Standing(BlankRow, "deleted", 0)
<1>1. /\ TypeOK /\ RunInv(w) /\ run[w] \in RunState
      /\ run[w].task = "purge" /\ run[w].step = "refused" /\ Flush(w, r, {"standing"})
  BY DEF IInv, TypeOK, Remove
<1>2. s \in Servers /\ told[s] + Day <= run[w].at
  BY <1>1 DEF RunInv, AtWork, ListedOverdue, RunState
<1>3. r \in ServerRow /\ r.standing = "deleted"
  BY <1>1, BlankRowType, StandingWrite
<1>4. {"standing"} \in SUBSET Columns /\ "expires" \notin {"standing"}
  BY DEF Columns
<1> HIDE DEF r
<1>5. /\ ServerFree(w, s) /\ sLock' = [sLock EXCEPT ![s] = w]
      /\ mem' = [mem EXCEPT ![w] = Written(mem[w], s, r, {"standing"})]
      /\ run' = [run EXCEPT ![w] = Drop(run[w], s)]
      /\ UNCHANGED <<now, rows, rate, draft, sess, uLock, night, crashes, books>>
  BY <1>1 DEF Flush
<1> HIDE DEF s
<1> QED BY <1>1, <1>2, <1>3, <1>4, <1>5, Flushes

(***************************************************************************)
(* charge_monthly: the debit or the refusal leaves the user's row locked.  *)
(***************************************************************************)
LEMMA FreshlyRead ==
  ASSUME IInv, NEW w \in Workers, NEW u \in Users
  PROVE  /\ FreshBalance(w, u) \in Int
         /\ FreshBalance(w, u) = balance[u] - Price * mem[w].spent[u]
         /\ balance[u] \in Int /\ mem[w].spent[u] \in Nat
         /\ FreshBalance(w, u) >= 0
<1>1. /\ TypeOK /\ UserHold(w) /\ Ledger
      /\ mem[w].balance[u] \in Int /\ balance[u] \in Int /\ mem[w].spent[u] \in Nat
  BY DEF IInv, RunInv, TypeOK, SessionMap
<1>2. CASE uLock[u] = w
  BY <1>1, <1>2 DEF FreshBalance, UserHold
<1>3. CASE uLock[u] # w
  <2>1. mem[w].spent[u] = 0 /\ balance[u] >= 0
    BY <1>1, <1>3 DEF UserHold, Ledger
  <2>2. FreshBalance(w, u) = balance[u]
    BY <1>3 DEF FreshBalance
  <2>3. Price * 0 = 0
    BY AmountsAssumption
  <2> QED BY <1>1, <2>1, <2>2, <2>3
<1> QED BY <1>2, <1>3

\* A step that locks the user's row and notes what was read of it, less what is debited.
LEMMA Wallets ==
  ASSUME IInv, NEW w \in Workers, NEW u \in Users, NEW r \in RunState, NEW m \in SessionMap,
         UserFree(w, u), uLock' = [uLock EXCEPT ![u] = w],
         run' = [run EXCEPT ![w] = r], mem' = [mem EXCEPT ![w] = m],
         UNCHANGED <<now, rows, rate, draft, sess, sLock, night, crashes, books>>,
         m.row = mem[w].row, m.cols = mem[w].cols,
         m.balance[u] = balance[u] - Price * m.spent[u], m.balance[u] >= 0,
         \A v \in Users : v # u => m.balance[v] = mem[w].balance[v] /\ m.spent[v] = mem[w].spent[v],
         r.at = run[w].at, r.task = run[w].task, r.task # "idle",
         r.todo \subseteq run[w].todo, run[w].charged \subseteq r.charged,
         r.step # "pick" => r.cur \in r.todo,
         r.step = "debited" => r.cur \in r.charged
  PROVE  IInv'
<1>1. /\ TypeOK /\ RunInv(w) /\ run[w] \in RunState /\ mem[w] \in SessionMap
      /\ w \in Procs /\ night \in Int
  BY DEF IInv, TypeOK, Procs
<1>2. /\ uLock' \in [Users -> Procs \cup {Nobody}] /\ uLock'[u] = w
      /\ \A x \in Users : x # u => uLock'[x] = uLock[x]
      /\ sLock' \in [Servers -> Procs \cup {Nobody}] /\ sLock' = sLock
  BY <1>1 DEF TypeOK
<1>3. /\ run' \in [Workers -> RunState] /\ mem' \in [Workers -> SessionMap]
      /\ run'[w] = r /\ mem'[w] = m
      /\ \A v \in Workers : v # w => run'[v] = run[v] /\ mem'[v] = mem[v]
  BY <1>1 DEF TypeOK
<1>4. UNCHANGED <<now, rows, rate, draft, sess, crashes, books>> /\ night' \in Int
  BY <1>1
<1>5. TypeOK'
  BY <1>1, <1>2, <1>3, <1>4, WorkerTypes
<1>6. RunInv(w)'
  <2>1. UserHold(w)'
    <3> SUFFICES ASSUME NEW x \in Users
                 PROVE  IF uLock'[x] = w
                          THEN /\ m.balance[x] = balance[x] - Price * m.spent[x]
                               /\ m.balance[x] >= 0
                          ELSE m.spent[x] = 0
      BY <1>3 DEF UserHold, rows
    <3>1. CASE x = u
      BY <3>1, <1>2
    <3>2. CASE x # u
      BY <3>2, <1>1, <1>2 DEF RunInv, UserHold
    <3> QED BY <3>1, <3>2
  <2>2. ServerHold(w)'
    BY <1>1, <1>2, <1>3 DEF RunInv, ServerHold
  <2>3. AtWork(w)'
    BY <1>1, <1>3 DEF RunInv, AtWork
  <2>4. Terms(w)'
    BY <1>1, <1>3 DEF RunInv, Terms
  <2>5. Standings(w)' /\ ListedOverdue(w)'
    BY <1>1, <1>3 DEF RunInv, Standings, ListedOverdue, SuspendedBy, RemovedBy, books
  <2> QED BY <2>1, <2>2, <2>3, <2>4, <2>5 DEF RunInv
<1>7. UserFree(w, u) => uLock[u] \in {Nobody, w}
  BY DEF UserFree
<1> QED BY <1>2, <1>3, <1>5, <1>6, <1>7, WorkerFrame

LEMMA DebitMonthSafe ==
  ASSUME IInv, NEW w \in Workers, NEW s \in Servers, DebitMonth(w, s)
  PROVE  IInv'
<1> DEFINE u == Owner[s]
           b == FreshBalance(w, u)
           r == Charging(run[w], s)
           m == Debited(mem[w], u, b)
<1>1. /\ TypeOK /\ run[w] \in RunState /\ mem[w] \in SessionMap /\ u \in Users
      /\ s \in run[w].todo /\ run[w].step = "pick" /\ RunInv(w)
  BY ServersAssumption DEF IInv, TypeOK, DebitMonth, AtHand
<1>2. /\ run' = [run EXCEPT ![w] = r] /\ mem' = [mem EXCEPT ![w] = m] /\ b >= Price
      /\ UserFree(w, u) /\ uLock' = [uLock EXCEPT ![u] = w]
      /\ UNCHANGED <<now, rows, rate, draft, sess, sLock, night, crashes, books>>
  BY DEF DebitMonth
<1>3. run[w].task # "idle"
  BY <1>1, BlankRowType DEF DebitMonth, AtHand, RunInv, AtWork
<1>4. /\ r \in RunState /\ r.at = run[w].at /\ r.task = run[w].task /\ r.todo = run[w].todo
      /\ r.charged = run[w].charged \cup {s} /\ r.cur = s
  BY <1>1, ChargingMoves
<1>5. /\ b \in Int /\ b = balance[u] - Price * mem[w].spent[u]
      /\ balance[u] \in Int /\ mem[w].spent[u] \in Nat
  BY <1>1, FreshlyRead
<1> HIDE DEF u, b, r
<1>6. /\ m \in SessionMap /\ m.row = mem[w].row /\ m.cols = mem[w].cols
      /\ m.spent[u] = mem[w].spent[u] + 1 /\ m.balance[u] = b - Price
      /\ \A v \in Users : v # u => m.balance[v] = mem[w].balance[v] /\ m.spent[v] = mem[w].spent[v]
  <2> DEFINE k == mem[w]
  <2>1. k \in SessionMap /\ b \in Int /\ u \in Users
    BY <1>1, <1>5
  <2> HIDE DEF k
  <2>2. LET n == Debited(k, u, b)
        IN /\ n \in SessionMap /\ n.row = k.row /\ n.cols = k.cols
           /\ n.balance[u] = b - Price /\ n.spent[u] = k.spent[u] + 1
           /\ \A v \in Users : v # u => n.balance[v] = k.balance[v] /\ n.spent[v] = k.spent[v]
    BY <2>1, DebitedWrites
  <2> QED BY <2>2 DEF k
<1> HIDE DEF m
<1>7. m.balance[u] = balance[u] - Price * m.spent[u] /\ m.balance[u] >= 0
  <2> DEFINE k == mem[w].spent[u]
  <2>1. k \in Int
    BY <1>5
  <2> HIDE DEF k
  <2>2. Price * (k + 1) = Price * k + Price /\ Price * k \in Int /\ Price \in Int
    BY <2>1, Multiples, AmountsAssumption
  <2> QED BY <1>2, <1>5, <1>6, <2>2 DEF k
<1> QED BY <1>1, <1>2, <1>3, <1>4, <1>6, <1>7, Wallets

LEMMA RefuseMonthSafe ==
  ASSUME IInv, NEW w \in Workers, NEW s \in Servers, RefuseMonth(w, s)
  PROVE  IInv'
<1> DEFINE u == Owner[s]
           b == FreshBalance(w, u)
           r == IF run[w].task = "retry" THEN Drop(run[w], s) ELSE Take(run[w], s, "refused")
           m == Loaded(mem[w], u, b)
<1>1. /\ TypeOK /\ run[w] \in RunState /\ mem[w] \in SessionMap /\ u \in Users
      /\ s \in run[w].todo /\ run[w].step = "pick" /\ RunInv(w)
  BY ServersAssumption DEF IInv, TypeOK, RefuseMonth, AtHand
<1>2. /\ run' = [run EXCEPT ![w] = r] /\ mem' = [mem EXCEPT ![w] = m]
      /\ UserFree(w, u) /\ uLock' = [uLock EXCEPT ![u] = w]
      /\ UNCHANGED <<now, rows, rate, draft, sess, sLock, night, crashes, books>>
  BY DEF RefuseMonth
<1>3. run[w].task # "idle"
  BY <1>1 DEF RefuseMonth, AtHand, RunInv, AtWork
<1>4. /\ r \in RunState /\ r.at = run[w].at /\ r.task = run[w].task
      /\ r.todo \subseteq run[w].todo /\ r.charged = run[w].charged
      /\ r.step # "pick" => r.cur \in r.todo
      /\ r.step # "debited"
  <2>1. CASE run[w].task = "retry"
    BY <1>1, <2>1, DropMoves
  <2>2. CASE run[w].task # "retry"
    BY <1>1, <2>2, TakeMoves
  <2> QED BY <2>1, <2>2
<1>5. /\ b \in Int /\ b = balance[u] - Price * mem[w].spent[u] /\ b >= 0
      /\ balance[u] \in Int /\ mem[w].spent[u] \in Nat
  BY <1>1, FreshlyRead
<1> HIDE DEF u, b, r
<1>6. /\ m \in SessionMap /\ m.row = mem[w].row /\ m.cols = mem[w].cols
      /\ m.spent = mem[w].spent /\ m.balance[u] = b
      /\ \A v \in Users : v # u => m.balance[v] = mem[w].balance[v]
  <2> DEFINE k == mem[w]
  <2>1. k \in SessionMap /\ b \in Int /\ u \in Users
    BY <1>1, <1>5
  <2> HIDE DEF k
  <2>2. LET n == Loaded(k, u, b)
        IN /\ n \in SessionMap /\ n.row = k.row /\ n.cols = k.cols
           /\ n.spent = k.spent /\ n.balance[u] = b
           /\ \A v \in Users : v # u => n.balance[v] = k.balance[v]
    BY <2>1, LoadedWrites
  <2> QED BY <2>2 DEF k
<1> HIDE DEF m
<1>7. m.balance[u] = balance[u] - Price * m.spent[u] /\ m.balance[u] >= 0
      /\ \A v \in Users : v # u => m.balance[v] = mem[w].balance[v] /\ m.spent[v] = mem[w].spent[v]
  BY <1>5, <1>6
<1> QED BY <1>1, <1>2, <1>3, <1>4, <1>6, <1>7, Wallets

(***************************************************************************)
(* The end of a run.                                                       *)
(***************************************************************************)
LEMMA SessionClosed ==
  ASSUME IInv, NEW w \in Workers, CloseSession(w), now' = now
  PROVE  /\ run' \in [Workers -> RunState] /\ mem' \in [Workers -> SessionMap]
         /\ sLock' \in [Servers -> Procs \cup {Nobody}]
         /\ uLock' \in [Users -> Procs \cup {Nobody}]
         /\ RunInv(w)' /\ NightAlone'
         /\ \A v \in Workers : v # w => run'[v] = run[v] /\ mem'[v] = mem[v]
         /\ \A s \in Servers, q \in Procs : q # w => (sLock'[s] = q <=> sLock[s] = q)
         /\ \A u \in Users, q \in Procs : q # w => (uLock'[u] = q <=> uLock[u] = q)
<1>1. TypeOK /\ w \in Procs /\ NightAlone /\ now \in Nat
  BY DEF IInv, TypeOK, Procs
<1>2. /\ run' = [run EXCEPT ![w] = IdleRun] /\ mem' = [mem EXCEPT ![w] = Blank] /\ Release(w)
  BY DEF CloseSession
<1>3. /\ run' \in [Workers -> RunState] /\ mem' \in [Workers -> SessionMap]
      /\ run'[w] = IdleRun /\ mem'[w] = Blank
      /\ \A v \in Workers : v # w => run'[v] = run[v] /\ mem'[v] = mem[v]
  BY <1>1, <1>2, IdleRunType, BlankType DEF TypeOK
<1>4. /\ sLock' \in [Servers -> Procs \cup {Nobody}]
      /\ uLock' \in [Users -> Procs \cup {Nobody}]
      /\ \A s \in Servers, q \in Procs : q # w => (sLock'[s] = q <=> sLock[s] = q)
      /\ \A u \in Users, q \in Procs : q # w => (uLock'[u] = q <=> uLock[u] = q)
      /\ \A u \in Users : uLock'[u] # w
  BY <1>1, <1>2, ReleaseLocks
<1>5. RunInv(w)'
  <2>1. UserHold(w)' /\ ServerHold(w)'
    BY <1>3, <1>4, BlankType DEF UserHold, ServerHold
  <2>2. AtWork(w)'
    BY <1>1, <1>3, IdleRunType DEF AtWork
  <2>3. Terms(w)' /\ Standings(w)' /\ ListedOverdue(w)'
    BY <1>3, BlankType, IdleRunType DEF Terms, Standings, ListedOverdue, SuspendedBy, RemovedBy
  <2> QED BY <2>1, <2>2, <2>3 DEF RunInv
<1>6. NightAlone'
  BY <1>1, <1>3, IdleRunType DEF NightAlone, Night
<1> QED BY <1>3, <1>4, <1>5, <1>6

LEMMA RollbackRunSafe ==
  ASSUME IInv, NEW w \in Workers, RollbackRun(w)
  PROVE  IInv'
<1>1. /\ TypeOK /\ CloseSession(w) /\ w \in Procs /\ Ledger /\ Marked /\ Told
      /\ UNCHANGED <<now, row, balance, rate, draft, sess, books>> /\ night' \in Int /\ crashes' \in Nat
  BY DEF IInv, TypeOK, RollbackRun, Procs, rows
<1>2. /\ run' \in [Workers -> RunState] /\ mem' \in [Workers -> SessionMap]
      /\ sLock' \in [Servers -> Procs \cup {Nobody}]
      /\ uLock' \in [Users -> Procs \cup {Nobody}]
      /\ RunInv(w)' /\ NightAlone'
      /\ \A v \in Workers : v # w => run'[v] = run[v] /\ mem'[v] = mem[v]
      /\ \A s \in Servers, q \in Procs : q # w => (sLock'[s] = q <=> sLock[s] = q)
      /\ \A u \in Users, q \in Procs : q # w => (uLock'[u] = q <=> uLock[u] = q)
  BY <1>1, SessionClosed
<1>3. TypeOK'
  BY <1>1, <1>2 DEF TypeOK, books
<1>4. ASSUME NEW v \in Workers PROVE RunInv(v)'
  <2> SUFFICES ASSUME v # w PROVE RunInv(v)'
    BY <1>2
  <2>1. RunInv(v) /\ run'[v] = run[v] /\ mem'[v] = mem[v] /\ v \in Procs
    BY <1>2 DEF IInv, Procs
  <2>2. UserHold(v)' /\ ServerHold(v)'
    BY <1>1, <1>2, <2>1 DEF RunInv, UserHold, ServerHold
  <2>3. AtWork(v)' /\ Terms(v)'
    BY <1>1, <2>1 DEF RunInv, AtWork, Terms
  <2>4. Standings(v)' /\ ListedOverdue(v)'
    BY <1>1, <2>1 DEF RunInv, Standings, ListedOverdue, SuspendedBy, RemovedBy, books
  <2> QED BY <2>2, <2>3, <2>4 DEF RunInv
<1>5. ASSUME NEW h \in Handlers PROVE HandlerInv(h)'
  <2>1. HandlerInv(h) /\ h \in Procs /\ h # w
    BY ProcsAssumption DEF IInv, Procs
  <2>2. sess[h].at \in Servers => Owner[sess[h].at] \in Users
    BY ServersAssumption
  <2> QED BY <1>1, <1>2, <2>1, <2>2 DEF HandlerInv
<1>6. Ledger' /\ Marked' /\ Told'
  BY <1>1 DEF Ledger, Marked, Told, books
<1> QED BY <1>2, <1>3, <1>4, <1>5, <1>6 DEF IInv

\* What a commit makes of the rows.
LEMMA CommittedRows ==
  ASSUME IInv, NEW w \in Workers, CommitRun(w), NEW s \in Servers
  PROVE  /\ row'[s] \in ServerRow
         /\ "standing" \notin mem[w].cols[s] => row'[s].standing = row[s].standing
         /\ "standing" \in mem[w].cols[s] /\ row'[s].standing = "expired" =>
              mem[w].row[s].standing = "expired"
         /\ row'[s].since = IF "standing" \in mem[w].cols[s]
                              THEN mem[w].row[s].since ELSE row[s].since
         /\ row'[s].expires = IF "expires" \in mem[w].cols[s]
                                THEN mem[w].row[s].expires ELSE row[s].expires
         /\ row'[s].mark = IF "extra" \in mem[w].cols[s]
                             THEN mem[w].row[s].mark ELSE row[s].mark
         /\ sLock[s] # w => row'[s] = row[s]
<1> DEFINE a == row[s]
           b == mem[w].row[s]
           c == mem[w].cols[s]
<1>1. a \in ServerRow /\ b \in ServerRow /\ row'[s] = Merge(a, b, c)
  BY DEF IInv, TypeOK, SessionMap, CommitRun, View
<1>2. sLock[s] # w => c = {}
  BY DEF IInv, RunInv, ServerHold
<1> HIDE DEF a, b, c
<1>3. /\ Merge(a, b, c) \in ServerRow
      /\ Merge(a, b, c).since = IF "standing" \in c THEN b.since ELSE a.since
      /\ Merge(a, b, c).expires = IF "expires" \in c THEN b.expires ELSE a.expires
      /\ Merge(a, b, c).mark = IF "extra" \in c THEN b.mark ELSE a.mark
      /\ Merge(a, b, {}) = a
  BY <1>1, MergeType, MergeNothing
<1>4. /\ "standing" \notin c => Merge(a, b, c).standing = a.standing
      /\ "standing" \in c /\ Merge(a, b, c).standing = "expired" => b.standing = "expired"
  BY <1>1, MergeStanding
<1> QED BY <1>1, <1>2, <1>3, <1>4 DEF a, b, c

\* What a commit makes of the wallets.
LEMMA CommittedWallets ==
  ASSUME IInv, NEW w \in Workers, CommitRun(w), NEW u \in Users
  PROVE  /\ balance'[u] \in Int /\ months'[u] \in Nat
         /\ balance'[u] = FirstBalance + funded[u] - Price * months'[u]
         /\ balance'[u] >= 0
         /\ uLock[u] # w => balance'[u] = balance[u]
<1>1. /\ UserHold(w) /\ Ledger
      /\ mem[w].balance[u] \in Int /\ mem[w].spent[u] \in Nat
      /\ balance[u] \in Int /\ months[u] \in Nat /\ funded[u] \in Nat
  BY DEF IInv, RunInv, TypeOK, SessionMap
<1>2. /\ balance'[u] = IF mem[w].spent[u] > 0 THEN mem[w].balance[u] ELSE balance[u]
      /\ months'[u] = months[u] + mem[w].spent[u]
  BY DEF CommitRun
<1>3. CASE mem[w].spent[u] = 0
  BY <1>1, <1>2, <1>3 DEF Ledger
<1>4. CASE mem[w].spent[u] > 0
  <2>1. uLock[u] = w /\ mem[w].balance[u] = balance[u] - Price * mem[w].spent[u]
        /\ mem[w].balance[u] >= 0
    BY <1>1, <1>4 DEF UserHold
  <2> DEFINE n == months[u]
             k == mem[w].spent[u]
  <2>2. n \in Int /\ k \in Int
    BY <1>1
  <2> HIDE DEF n, k
  <2>3. Price * (n + k) = Price * n + Price * k /\ Price * n \in Int /\ Price * k \in Int
    BY <2>2, Multiples
  <2>4. balance[u] = FirstBalance + funded[u] - Price * n
    BY <1>1 DEF Ledger, n
  <2>5. balance'[u] = FirstBalance + funded[u] - Price * (n + k)
    BY <1>1, <1>2, <1>4, <2>1, <2>3, <2>4, AmountsAssumption DEF k
  <2> QED BY <1>1, <1>2, <1>4, <2>1, <2>5 DEF n, k
<1> QED BY <1>1, <1>3, <1>4

LEMMA CommitRunSafe ==
  ASSUME IInv, NEW w \in Workers, CommitRun(w)
  PROVE  IInv'
<1>1. /\ TypeOK /\ CloseSession(w) /\ w \in Procs /\ Marked /\ Told /\ RunInv(w) /\ NightAlone
      /\ UNCHANGED <<now, rate, draft, sess, night, crashes, funded, manual>>
  BY DEF IInv, CommitRun, Procs
<1>2. /\ run' \in [Workers -> RunState] /\ mem' \in [Workers -> SessionMap]
      /\ sLock' \in [Servers -> Procs \cup {Nobody}]
      /\ uLock' \in [Users -> Procs \cup {Nobody}]
      /\ RunInv(w)' /\ NightAlone'
      /\ \A v \in Workers : v # w => run'[v] = run[v] /\ mem'[v] = mem[v]
      /\ \A s \in Servers, q \in Procs : q # w => (sLock'[s] = q <=> sLock[s] = q)
      /\ \A u \in Users, q \in Procs : q # w => (uLock'[u] = q <=> uLock[u] = q)
  BY <1>1, SessionClosed
<1>3. /\ told' = [s \in Servers |-> IF SuspendedBy(w, s) THEN mem[w].row[s].since ELSE told[s]]
      /\ erased' = erased \cup Overwritten(w)
      /\ charges' = [s \in Servers |-> IF s \in run[w].charged THEN charges[s] + 1 ELSE charges[s]]
  BY DEF CommitRun
<1>4. TypeOK'
  <2>1. row' \in [Servers -> ServerRow]
    <3>1. row' = [s \in Servers |-> row'[s]]
      BY DEF CommitRun
    <3> QED BY <3>1, CommittedRows
  <2>2. balance' \in [Users -> Int] /\ months' \in [Users -> Nat]
    <3>1. balance' = [u \in Users |-> balance'[u]] /\ months' = [u \in Users |-> months'[u]]
      BY DEF CommitRun
    <3> QED BY <3>1, CommittedWallets
  <2>3. charges' \in [Servers -> Nat]
    BY <1>1, <1>3 DEF TypeOK
  <2>4. told' \in [Servers -> Nat]
    <3>1. \A s \in Servers : mem[w].row[s].since \in Nat /\ told[s] \in Nat
      BY <1>1 DEF TypeOK, SessionMap, ServerRow
    <3> QED BY <1>3, <3>1
  <2>5. erased' \subseteq Servers
    BY <1>1, <1>3 DEF TypeOK, Overwritten
  <2> QED BY <1>1, <1>2, <2>1, <2>2, <2>3, <2>4, <2>5 DEF TypeOK
<1>5. ASSUME NEW v \in Workers PROVE RunInv(v)'
  <2> SUFFICES ASSUME v # w PROVE RunInv(v)'
    BY <1>2
  <2>1. RunInv(v) /\ run'[v] = run[v] /\ mem'[v] = mem[v] /\ v \in Procs
    BY <1>2 DEF IInv, Procs
  <2>2. UserHold(v)' /\ ServerHold(v)'
    <3>1. \A u \in Users : uLock[u] = v => balance'[u] = balance[u]
      BY CommittedWallets
    <3> QED BY <1>2, <2>1, <3>1 DEF RunInv, UserHold, ServerHold
  <2>3. AtWork(v)' /\ Terms(v)'
    BY <1>1, <2>1 DEF RunInv, AtWork, Terms
  <2>4. run[v].task = "purge" => told' = told
    <3>1. run[v].task = "purge" => run[w].task \notin Night
      BY <1>1 DEF NightAlone, Night
    <3>2. run[v].task = "purge" => \A s \in Servers : ~SuspendedBy(w, s)
      BY <1>1, <3>1 DEF RunInv, Standings, Night
    <3> QED BY <1>1, <1>3, <3>2 DEF TypeOK
  <2>5. Standings(v)' /\ ListedOverdue(v)'
    BY <2>1, <2>4 DEF RunInv, Standings, ListedOverdue, SuspendedBy, RemovedBy
  <2> QED BY <2>2, <2>3, <2>5 DEF RunInv
<1>6. ASSUME NEW h \in Handlers PROVE HandlerInv(h)'
  <2>1. HandlerInv(h) /\ h \in Procs /\ h # w
    BY ProcsAssumption DEF IInv, Procs
  <2>2. sess[h].at \in Servers => Owner[sess[h].at] \in Users
    BY ServersAssumption
  <2>3. \A s \in Servers : sLock[s] = h => row'[s] = row[s]
    BY <2>1, CommittedRows
  <2>4. \A u \in Users : uLock[u] = h => balance'[u] = balance[u]
    BY <2>1, CommittedWallets
  <2> QED BY <1>1, <1>2, <2>1, <2>2, <2>3, <2>4 DEF HandlerInv
<1>7. Ledger'
  BY <1>1, CommittedWallets DEF Ledger
<1>8. Marked'
  <2> SUFFICES ASSUME NEW s \in Servers \ erased' PROVE row'[s].mark = manual'[s].last
    BY DEF Marked
  <2>1. s \notin erased /\ s \notin Overwritten(w)
    BY <1>3
  <2>2. row'[s].mark = row[s].mark
    BY <2>1, CommittedRows DEF Overwritten
  <2> QED BY <1>1, <2>1, <2>2 DEF Marked
<1>9. Told'
  <2> SUFFICES ASSUME NEW s \in Servers, row'[s].standing = "expired"
               PROVE  told'[s] = row'[s].since
    BY DEF Told
  <2>1. CASE "standing" \in mem[w].cols[s]
    BY <1>3, <2>1, CommittedRows DEF SuspendedBy
  <2>2. CASE "standing" \notin mem[w].cols[s]
    <3>1. row[s].standing = "expired" /\ row'[s].since = row[s].since
      BY <2>2, CommittedRows
    <3> QED BY <1>1, <1>3, <2>2, <3>1 DEF Told, SuspendedBy
  <2> QED BY <2>1, <2>2
<1> QED BY <1>2, <1>4, <1>5, <1>6, <1>7, <1>8, <1>9 DEF IInv

(***************************************************************************)
(* The bot's sessions, the administrators and the environment.             *)
(***************************************************************************)
\* A step outside the runs, of the session p or (p = Nobody) of an administrator or a payment:
\* it respects the locks of the others.
LEMMA OutsideFrame ==
  ASSUME IInv, TypeOK', NEW p \in Handlers \cup {Nobody},
         UNCHANGED <<run, mem, told, now>>,
         \A s \in Servers : sLock[s] \notin {Nobody, p} =>
                              sLock'[s] = sLock[s] /\ row'[s] = row[s],
         \A u \in Users : uLock[u] \notin {Nobody, p} =>
                            uLock'[u] = uLock[u] /\ balance'[u] = balance[u],
         \A u \in Users : uLock'[u] = uLock[u] \/ uLock'[u] \in {Nobody, p},
         \A g \in Handlers : g # p => sess'[g] = sess[g],
         p \in Handlers => HandlerInv(p)',
         Ledger', Marked', Told'
  PROVE  IInv'
<1>1. TypeOK /\ now \in Nat
  BY DEF IInv, TypeOK
<1>2. \A w \in Workers : w # p /\ w # Nobody
  BY ProcsAssumption
<1>3. /\ \A w \in Workers, s \in Servers : sLock[s] = w => sLock'[s] = w
      /\ \A w \in Workers, u \in Users :
           (uLock'[u] = w <=> uLock[u] = w) /\ (uLock[u] = w => balance'[u] = balance[u])
  BY <1>2
<1>4. (\A w \in Workers : RunInv(w)') /\ NightAlone'
  <2>1. UNCHANGED <<run, mem, told>> /\ now' >= now /\ now' \in Nat
    BY <1>1
  <2> QED BY <1>3, <2>1, RunsUntouched
<1>5. ASSUME NEW g \in Handlers PROVE HandlerInv(g)'
  <2> SUFFICES ASSUME g # p PROVE HandlerInv(g)'
    OBVIOUS
  <2>1. HandlerInv(g) /\ g # Nobody /\ sess'[g] = sess[g]
    BY ProcsAssumption DEF IInv
  <2>2. sess[g].at \in Servers => Owner[sess[g].at] \in Users
    BY ServersAssumption
  <2> QED BY <2>1, <2>2 DEF HandlerInv
<1> QED BY <1>4, <1>5 DEF IInv

LEMMA IdleHandler ==
  ASSUME TypeOK, NEW h \in Handlers, sess' = [sess EXCEPT ![h] = IdleSession]
  PROVE  /\ sess' \in [Handlers -> HandlerState] /\ HandlerInv(h)'
         /\ \A g \in Handlers : g # h => sess'[g] = sess[g]
<1>1. IdleSession \in HandlerState /\ IdleSession.pc = "idle"
  BY DEF IdleSession, HandlerState
<1>2. /\ sess' \in [Handlers -> HandlerState] /\ sess'[h] = IdleSession
      /\ \A g \in Handlers : g # h => sess'[g] = sess[g]
  BY <1>1 DEF TypeOK
<1> QED BY <1>1, <1>2 DEF HandlerInv

\* Every lock of h is given back, and no other lock is touched.
LEMMA HandlerLocks ==
  ASSUME TypeOK, NEW h \in Handlers, Release(h)
  PROVE  /\ sLock' \in [Servers -> Procs \cup {Nobody}]
         /\ uLock' \in [Users -> Procs \cup {Nobody}]
         /\ \A s \in Servers : sLock[s] \notin {Nobody, h} => sLock'[s] = sLock[s]
         /\ \A u \in Users : uLock[u] \notin {Nobody, h} => uLock'[u] = uLock[u]
         /\ \A u \in Users : uLock'[u] = uLock[u] \/ uLock'[u] \in {Nobody, h}
  BY DEF TypeOK, Release, Procs

LEMMA LockForRenewalSafe ==
  ASSUME IInv, NEW h \in Handlers, NEW s \in Servers, LockForRenewal(h, s)
  PROVE  IInv'
<1>1. /\ TypeOK /\ h \in Procs /\ Ledger /\ Marked /\ Told
      /\ row[s] \in ServerRow /\ now \in Nat
  BY DEF IInv, TypeOK, Procs
<1>2. /\ sLock[s] \in {Nobody, h} /\ sLock' = [sLock EXCEPT ![s] = h]
      /\ sess' = [sess EXCEPT ![h] = [at |-> s, pc |-> "renewing"]]
      /\ UNCHANGED <<now, row, balance, rate, draft, run, mem, uLock, night, crashes>>
      /\ UNCHANGED <<funded, months, charges, manual, told, erased>>
      /\ row[s].mark + Month <= now
  BY <1>1, AmountsAssumption DEF LockForRenewal, ServerFree, Blocked, rows, books, ServerRow
<1>3. /\ sess' \in [Handlers -> HandlerState]
      /\ sess'[h] = [at |-> s, pc |-> "renewing"]
      /\ \A g \in Handlers : g # h => sess'[g] = sess[g]
  BY <1>1, <1>2 DEF TypeOK, HandlerState
<1>4. /\ sLock' \in [Servers -> Procs \cup {Nobody}] /\ sLock'[s] = h
      /\ \A x \in Servers : x # s => sLock'[x] = sLock[x]
  BY <1>1, <1>2 DEF TypeOK
<1>5. TypeOK'
  BY <1>1, <1>2, <1>3, <1>4 DEF TypeOK
<1>6. HandlerInv(h)'
  BY <1>2, <1>3, <1>4 DEF HandlerInv
<1>7. Ledger' /\ Marked' /\ Told'
  BY <1>1, <1>2 DEF Ledger, Marked, Told
<1>8. \A x \in Servers : sLock[x] \notin {Nobody, h} =>
                           sLock'[x] = sLock[x] /\ row'[x] = row[x]
  BY <1>2, <1>4
<1> QED BY <1>2, <1>3, <1>5, <1>6, <1>7, <1>8, OutsideFrame

LEMMA AskActivationSafe ==
  ASSUME IInv, NEW h \in Handlers, NEW s \in Servers, AskActivation(h, s)
  PROVE  IInv'
<1>1. TypeOK /\ Ledger /\ Marked /\ Told
  BY DEF IInv
<1>2. /\ sess' = [sess EXCEPT ![h] = [at |-> s, pc |-> "asking"]]
      /\ UNCHANGED <<now, row, balance, rate, draft, run, mem, sLock, uLock, night, crashes>>
      /\ UNCHANGED <<funded, months, charges, manual, told, erased>>
  BY DEF AskActivation, rows, locks, books
<1>3. /\ sess' \in [Handlers -> HandlerState]
      /\ sess'[h] = [at |-> s, pc |-> "asking"]
      /\ \A g \in Handlers : g # h => sess'[g] = sess[g]
  BY <1>1, <1>2 DEF TypeOK, HandlerState
<1>4. TypeOK'
  BY <1>1, <1>2, <1>3 DEF TypeOK
<1>5. HandlerInv(h)'
  BY <1>3 DEF HandlerInv
<1>6. Ledger' /\ Marked' /\ Told'
  BY <1>1, <1>2 DEF Ledger, Marked, Told
<1> QED BY <1>2, <1>3, <1>4, <1>5, <1>6, OutsideFrame

LEMMA PayActivationSafe ==
  ASSUME IInv, NEW h \in Handlers, PayActivation(h)
  PROVE  IInv'
<1> DEFINE s == sess[h].at
           u == Owner[s]
<1>1. /\ TypeOK /\ h \in Procs /\ Ledger /\ Marked /\ Told
      /\ sess[h] \in HandlerState /\ HandlerInv(h)
  BY DEF IInv, TypeOK, Procs
<1>2. /\ sess[h].pc = "asking" /\ uLock[u] \in {Nobody, h} /\ balance[u] >= Price
      /\ uLock' = [uLock EXCEPT ![u] = h]
      /\ sess' = [sess EXCEPT ![h].pc = "paid"]
      /\ UNCHANGED <<now, row, balance, rate, draft, run, mem, sLock, night, crashes>>
      /\ UNCHANGED <<funded, months, charges, manual, told, erased>>
  BY DEF PayActivation, UserFree, rows, books
<1>3. s \in Servers /\ u \in Users
  BY <1>1, <1>2, ServersAssumption DEF HandlerInv
<1>4. /\ sess' \in [Handlers -> HandlerState]
      /\ sess'[h].pc = "paid" /\ sess'[h].at = s
      /\ \A g \in Handlers : g # h => sess'[g] = sess[g]
  BY <1>1, <1>2 DEF TypeOK, HandlerState
<1>5. /\ uLock' \in [Users -> Procs \cup {Nobody}] /\ uLock'[u] = h
      /\ \A x \in Users : x # u => uLock'[x] = uLock[x]
  BY <1>1, <1>2, <1>3 DEF TypeOK
<1>6. TypeOK'
  BY <1>1, <1>2, <1>4, <1>5 DEF TypeOK
<1>7. HandlerInv(h)'
  BY <1>2, <1>3, <1>4, <1>5 DEF HandlerInv
<1>8. Ledger' /\ Marked' /\ Told'
  BY <1>1, <1>2 DEF Ledger, Marked, Told
<1>9. /\ \A x \in Users : uLock[x] \notin {Nobody, h} =>
                            uLock'[x] = uLock[x] /\ balance'[x] = balance[x]
      /\ \A x \in Users : uLock'[x] = uLock[x] \/ uLock'[x] \in {Nobody, h}
  BY <1>2, <1>5
<1> HIDE DEF s, u
<1> QED BY <1>2, <1>4, <1>6, <1>7, <1>8, <1>9, OutsideFrame

LEMMA RefuseHandlerSafe ==
  ASSUME IInv, NEW h \in Handlers, RefuseHandler(h) \/ RollbackHandler(h)
  PROVE  IInv'
<1>1. TypeOK /\ h \in Procs /\ Ledger /\ Marked /\ Told
  BY DEF IInv, Procs
<1>2. /\ sess' = [sess EXCEPT ![h] = IdleSession] /\ Release(h)
      /\ UNCHANGED <<now, row, balance, rate, draft, run, mem, night>> /\ crashes' \in Nat
      /\ UNCHANGED <<funded, months, charges, manual, told, erased>>
  BY <1>1 DEF RefuseHandler, RollbackHandler, CloseHandler, rows, books, TypeOK
<1>3. /\ sess' \in [Handlers -> HandlerState] /\ HandlerInv(h)'
      /\ \A g \in Handlers : g # h => sess'[g] = sess[g]
  BY <1>1, <1>2, IdleHandler
<1>4. /\ sLock' \in [Servers -> Procs \cup {Nobody}]
      /\ uLock' \in [Users -> Procs \cup {Nobody}]
      /\ \A s \in Servers : sLock[s] \notin {Nobody, h} => sLock'[s] = sLock[s]
      /\ \A u \in Users : uLock[u] \notin {Nobody, h} => uLock'[u] = uLock[u]
      /\ \A u \in Users : uLock'[u] = uLock[u] \/ uLock'[u] \in {Nobody, h}
  BY <1>1, <1>2, HandlerLocks
<1>5. TypeOK'
  BY <1>1, <1>2, <1>3, <1>4 DEF TypeOK
<1>6. Ledger' /\ Marked' /\ Told'
  BY <1>1, <1>2 DEF Ledger, Marked, Told
<1> QED BY <1>2, <1>3, <1>4, <1>5, <1>6, OutsideFrame

\* A month debited from an owner who can pay, recorded for the server.
LEMMA MonthRecorded ==
  ASSUME IInv, NEW s \in Servers, RecordMonth(s), balance[Owner[s]] >= Price, funded' = funded
  PROVE  /\ balance' \in [Users -> Int] /\ months' \in [Users -> Nat]
         /\ charges' \in [Servers -> Nat]
         /\ charges'[s] = charges[s] + 1
         /\ \A u \in Users : u # Owner[s] => balance'[u] = balance[u]
         /\ Ledger'
<1> DEFINE o == Owner[s]
<1>1. /\ o \in Users /\ balance \in [Users -> Int] /\ months \in [Users -> Nat]
      /\ charges \in [Servers -> Nat] /\ funded \in [Users -> Nat] /\ Ledger
  BY ServersAssumption DEF IInv, TypeOK
<1>2. /\ balance' = [balance EXCEPT ![o] = @ - Price]
      /\ months' = [months EXCEPT ![o] = @ + 1]
      /\ charges' = [charges EXCEPT ![s] = @ + 1]
      /\ balance[o] >= Price
  BY DEF RecordMonth
<1> HIDE DEF o
<1>3. /\ balance' \in [Users -> Int] /\ months' \in [Users -> Nat]
      /\ charges' \in [Servers -> Nat] /\ charges'[s] = charges[s] + 1
      /\ balance'[o] = balance[o] - Price /\ months'[o] = months[o] + 1
      /\ \A u \in Users : u # o => balance'[u] = balance[u] /\ months'[u] = months[u]
  BY <1>1, <1>2, AmountsAssumption
<1>4. Ledger'
  <2> SUFFICES ASSUME NEW u \in Users
               PROVE  /\ balance'[u] = FirstBalance + funded[u] - Price * months'[u]
                      /\ balance'[u] >= 0
    BY DEF Ledger
  <2>1. balance[u] = FirstBalance + funded[u] - Price * months[u] /\ balance[u] >= 0
    BY <1>1 DEF Ledger
  <2>2. CASE u # o
    BY <1>3, <2>1, <2>2
  <2>3. CASE u = o
    <3> DEFINE n == months[o]
    <3>1. n \in Int
      BY <1>1
    <3> HIDE DEF n
    <3>2. Price * (n + 1) = Price * n + Price /\ Price * n \in Int
      BY <3>1, Multiples
    <3>3. months'[o] = n + 1 /\ balance[o] = FirstBalance + funded[o] - Price * n
      BY <1>3, <2>1, <2>3 DEF n
    <3>4. balance[o] \in Int /\ funded[o] \in Nat /\ Price \in Nat /\ FirstBalance \in Nat
      BY <1>1, AmountsAssumption
    <3> QED BY <1>2, <1>3, <2>3, <3>2, <3>3, <3>4
  <2> QED BY <2>2, <2>3
<1> QED BY <1>3, <1>4 DEF o

\* The row after a renewal by hand.
LEMMA RenewedByHand ==
  ASSUME NEW r \in ServerRow, NEW term \in Int, NEW t \in Nat
  PROVE  LET n == Extra(Term(r, term), t, 0)
         IN /\ n \in ServerRow /\ n.standing = r.standing /\ n.since = r.since
            /\ n.expires = term /\ n.mark = t
<1> DEFINE a == Term(r, term)
<1>1. a \in ServerRow /\ a.standing = r.standing /\ a.since = r.since /\ a.expires = term
  BY TermWrite
<1> HIDE DEF a
<1>2. t \in Int /\ 0 \in Int
  OBVIOUS
<1>3. /\ Extra(a, t, 0) \in ServerRow /\ Extra(a, t, 0).standing = a.standing
      /\ Extra(a, t, 0).since = a.since /\ Extra(a, t, 0).expires = a.expires
      /\ Extra(a, t, 0).mark = t
  BY <1>1, <1>2, ExtraWrite
<1> QED BY <1>1, <1>3 DEF a

\* What a renewal by hand writes, and why it is allowed.
LEMMA PaidRenewal ==
  ASSUME IInv, NEW h \in Handlers, PayRenewal(h)
  PROVE  LET s == sess[h].at
             base == IF row[s].expires < now THEN now ELSE row[s].expires
         IN /\ s \in Servers /\ Owner[s] \in Users
            /\ sLock[s] = h /\ row[s].mark + Month <= now
            /\ row'[s] \in ServerRow
            /\ row'[s].standing = row[s].standing /\ row'[s].since = row[s].since
            /\ row'[s].expires = base + Month /\ row'[s].mark = now
            /\ \A x \in Servers : x # s => row'[x] = row[x]
            /\ row' \in [Servers -> ServerRow]
<1> DEFINE s == sess[h].at
           base == IF row[s].expires < now THEN now ELSE row[s].expires
           n == Extra(Term(row[s], base + Month), now, 0)
<1>1. /\ row \in [Servers -> ServerRow] /\ now \in Nat /\ HandlerInv(h)
      /\ sess[h].pc = "renewing" /\ row' = [row EXCEPT ![s] = n]
  BY DEF IInv, TypeOK, PayRenewal
<1>2. s \in Servers /\ Owner[s] \in Users /\ sLock[s] = h /\ row[s].mark + Month <= now
  BY <1>1, ServersAssumption DEF HandlerInv
<1>3. row[s] \in ServerRow /\ base + Month \in Int
  BY <1>1, <1>2, AmountsAssumption DEF ServerRow
<1> HIDE DEF base
<1>4. /\ n \in ServerRow /\ n.standing = row[s].standing /\ n.since = row[s].since
      /\ n.expires = base + Month /\ n.mark = now
  BY <1>1, <1>3, RenewedByHand
<1> HIDE DEF n, s
<1>5. /\ row'[s] = n /\ row' \in [Servers -> ServerRow]
      /\ \A x \in Servers : x # s => row'[x] = row[x]
  BY <1>1, <1>2, <1>4
<1> QED BY <1>2, <1>4, <1>5 DEF s, base

LEMMA PayRenewalSafe ==
  ASSUME IInv, NEW h \in Handlers, PayRenewal(h)
  PROVE  IInv'
<1> DEFINE s == sess[h].at
           o == Owner[s]
<1>1. /\ TypeOK /\ h \in Procs /\ Marked /\ Told
  BY DEF IInv, Procs
<1>2. /\ uLock[o] \in {Nobody, h} /\ balance[o] >= Price /\ RecordMonth(s)
      /\ manual' = [manual EXCEPT ![s] = [times |-> @.times + 1, last |-> now]]
      /\ erased' = erased \ {s} /\ CloseHandler(h)
      /\ UNCHANGED <<now, rate, draft, run, mem, night, crashes, funded, told>>
  BY DEF PayRenewal, UserFree
<1>3. /\ s \in Servers /\ o \in Users /\ sLock[s] = h
      /\ row'[s].standing = row[s].standing /\ row'[s].since = row[s].since
      /\ row'[s].mark = now
      /\ \A x \in Servers : x # s => row'[x] = row[x]
      /\ row' \in [Servers -> ServerRow]
  BY PaidRenewal
<1>4. /\ balance' \in [Users -> Int] /\ months' \in [Users -> Nat]
      /\ charges' \in [Servers -> Nat]
      /\ \A u \in Users : u # o => balance'[u] = balance[u]
      /\ Ledger'
  BY <1>2, <1>3, MonthRecorded
<1>5. /\ sess' = [sess EXCEPT ![h] = IdleSession] /\ Release(h)
  BY <1>2 DEF CloseHandler
<1>6. /\ sess' \in [Handlers -> HandlerState] /\ HandlerInv(h)'
      /\ \A g \in Handlers : g # h => sess'[g] = sess[g]
  BY <1>1, <1>5, IdleHandler
<1>7. /\ sLock' \in [Servers -> Procs \cup {Nobody}]
      /\ uLock' \in [Users -> Procs \cup {Nobody}]
      /\ \A x \in Servers : sLock[x] \notin {Nobody, h} => sLock'[x] = sLock[x]
      /\ \A u \in Users : uLock[u] \notin {Nobody, h} => uLock'[u] = uLock[u]
      /\ \A u \in Users : uLock'[u] = uLock[u] \/ uLock'[u] \in {Nobody, h}
  BY <1>1, <1>5, HandlerLocks
<1> HIDE DEF s, o
<1>8. /\ manual' \in [Servers -> [times : Nat, last : Int]]
      /\ manual'[s].last = now /\ \A x \in Servers : x # s => manual'[x] = manual[x]
  BY <1>1, <1>2, <1>3 DEF TypeOK
<1>9. TypeOK'
  BY <1>1, <1>2, <1>3, <1>4, <1>6, <1>7, <1>8 DEF TypeOK
<1>10. Marked'
  BY <1>1, <1>2, <1>3, <1>8 DEF Marked
<1>11. Told'
  BY <1>1, <1>2, <1>3 DEF Told
<1>12. /\ \A x \in Servers : sLock[x] \notin {Nobody, h} =>
                               sLock'[x] = sLock[x] /\ row'[x] = row[x]
       /\ \A u \in Users : uLock[u] \notin {Nobody, h} =>
                             uLock'[u] = uLock[u] /\ balance'[u] = balance[u]
  BY <1>2, <1>3, <1>4, <1>7
<1> QED BY <1>2, <1>4, <1>6, <1>7, <1>9, <1>10, <1>11, <1>12, OutsideFrame

\* What an activation writes.
LEMMA PaidActivation ==
  ASSUME IInv, NEW h \in Handlers, NEW lifted \in BOOLEAN, Activate(h, lifted)
  PROVE  LET s == sess[h].at
         IN /\ s \in Servers /\ Owner[s] \in Users
            /\ uLock[Owner[s]] = h /\ balance[Owner[s]] >= Price
            /\ row'[s].expires = now + Month /\ row'[s].mark = row[s].mark
            /\ row'[s].standing = "expired" =>
                 row[s].standing = "expired" /\ row'[s].since = row[s].since
            /\ \A x \in Servers : x # s => row'[x] = row[x]
            /\ row' \in [Servers -> ServerRow]
<1> DEFINE s == sess[h].at
           a == Term(row[s], now + Month)
           n == IF lifted THEN Standing(a, "active", 0) ELSE a
<1>1. /\ row \in [Servers -> ServerRow] /\ now \in Nat /\ HandlerInv(h)
      /\ sess[h].pc = "paid" /\ row' = [row EXCEPT ![s] = n]
  BY DEF IInv, TypeOK, Activate
<1>2. /\ s \in Servers /\ Owner[s] \in Users
      /\ uLock[Owner[s]] = h /\ balance[Owner[s]] >= Price
  BY <1>1, ServersAssumption DEF HandlerInv
<1>3. row[s] \in ServerRow /\ now + Month \in Int
  BY <1>1, <1>2, AmountsAssumption
<1>4. /\ a \in ServerRow /\ a.expires = now + Month /\ a.standing = row[s].standing
      /\ a.since = row[s].since /\ a.mark = row[s].mark
  BY <1>3, TermWrite
<1> HIDE DEF a
<1>5. /\ Standing(a, "active", 0) \in ServerRow /\ Standing(a, "active", 0).standing = "active"
      /\ Standing(a, "active", 0).expires = a.expires
      /\ Standing(a, "active", 0).mark = a.mark
  BY <1>4, StandingWrite
<1>6. /\ n \in ServerRow /\ n.expires = now + Month /\ n.mark = row[s].mark
      /\ n.standing = "expired" => row[s].standing = "expired" /\ n.since = row[s].since
  <2>1. CASE lifted
    <3>1. n = Standing(a, "active", 0)
      BY <2>1
    <3> HIDE DEF n
    <3> QED BY <1>4, <1>5, <3>1
  <2>2. CASE ~lifted
    <3>1. n = a
      BY <2>2
    <3> HIDE DEF n
    <3> QED BY <1>4, <3>1
  <2> QED BY <2>1, <2>2
<1> HIDE DEF n, s
<1>7. /\ row'[s] = n /\ row' \in [Servers -> ServerRow]
      /\ \A x \in Servers : x # s => row'[x] = row[x]
  BY <1>1, <1>2, <1>6
<1> QED BY <1>2, <1>6, <1>7 DEF s

LEMMA ActivateSafe ==
  ASSUME IInv, NEW h \in Handlers, NEW lifted \in BOOLEAN, Activate(h, lifted)
  PROVE  IInv'
<1> DEFINE s == sess[h].at
           o == Owner[s]
<1>1. /\ TypeOK /\ h \in Procs /\ Marked /\ Told
  BY DEF IInv, Procs
<1>2. /\ sLock[s] \in {Nobody, h} /\ RecordMonth(s) /\ CloseHandler(h)
      /\ UNCHANGED <<now, rate, draft, run, mem, night, crashes, funded, manual, told, erased>>
  BY DEF Activate, ServerFree
<1>3. /\ s \in Servers /\ o \in Users /\ uLock[o] = h /\ balance[o] >= Price
      /\ row'[s].mark = row[s].mark
      /\ row'[s].standing = "expired" =>
           row[s].standing = "expired" /\ row'[s].since = row[s].since
      /\ \A x \in Servers : x # s => row'[x] = row[x]
      /\ row' \in [Servers -> ServerRow]
  BY PaidActivation
<1>4. /\ balance' \in [Users -> Int] /\ months' \in [Users -> Nat]
      /\ charges' \in [Servers -> Nat]
      /\ \A u \in Users : u # o => balance'[u] = balance[u]
      /\ Ledger'
  BY <1>2, <1>3, MonthRecorded
<1>5. /\ sess' = [sess EXCEPT ![h] = IdleSession] /\ Release(h)
  BY <1>2 DEF CloseHandler
<1>6. /\ sess' \in [Handlers -> HandlerState] /\ HandlerInv(h)'
      /\ \A g \in Handlers : g # h => sess'[g] = sess[g]
  BY <1>1, <1>5, IdleHandler
<1>7. /\ sLock' \in [Servers -> Procs \cup {Nobody}]
      /\ uLock' \in [Users -> Procs \cup {Nobody}]
      /\ \A x \in Servers : sLock[x] \notin {Nobody, h} => sLock'[x] = sLock[x]
      /\ \A u \in Users : uLock[u] \notin {Nobody, h} => uLock'[u] = uLock[u]
      /\ \A u \in Users : uLock'[u] = uLock[u] \/ uLock'[u] \in {Nobody, h}
  BY <1>1, <1>5, HandlerLocks
<1> HIDE DEF s, o
<1>8. TypeOK'
  BY <1>1, <1>2, <1>3, <1>4, <1>6, <1>7 DEF TypeOK
<1>9. Marked' /\ Told'
  BY <1>1, <1>2, <1>3 DEF Marked, Told
<1>10. /\ \A x \in Servers : sLock[x] \notin {Nobody, h} =>
                               sLock'[x] = sLock[x] /\ row'[x] = row[x]
       /\ \A u \in Users : uLock[u] \notin {Nobody, h} =>
                             uLock'[u] = uLock[u] /\ balance'[u] = balance[u]
  BY <1>2, <1>3, <1>4, <1>7
<1> QED BY <1>2, <1>4, <1>6, <1>7, <1>8, <1>9, <1>10, OutsideFrame

LEMMA ServerStepSafe ==
  ASSUME IInv, NEW s \in Servers, ServerStep(s)
  PROVE  IInv'
<1>0. Deleted(row[s].standing) \in {"deleted", "gone"}
  BY DEF Deleted
<1>1. PICK st \in {"active", "held", "deleted", "gone"} : SetStanding(s, st)
  BY <1>0, SMT DEF ServerStep, Hold, Lift, Delete
<1> DEFINE n == Standing(row[s], st, 0)
<1>2. /\ TypeOK /\ Ledger /\ Marked /\ Told /\ row[s] \in ServerRow
  BY DEF IInv, TypeOK
<1>3. /\ sLock[s] = Nobody /\ row' = [row EXCEPT ![s] = n]
      /\ UNCHANGED <<now, balance, rate, draft, run, mem, sess, sLock, uLock, night, crashes>>
      /\ UNCHANGED <<funded, months, charges, manual, told, erased>>
  BY <1>1 DEF SetStanding, locks, books
<1>4. n \in ServerRow /\ n.standing = st /\ n.mark = row[s].mark
  <2> DEFINE a == row[s]
  <2>1. a \in ServerRow /\ st \in {"active", "expired", "held", "deleted", "gone"} /\ 0 \in Nat
    BY <1>2
  <2> HIDE DEF a
  <2>2. /\ Standing(a, st, 0) \in ServerRow /\ Standing(a, st, 0).standing = st
        /\ Standing(a, st, 0).mark = a.mark
    BY <2>1 DEF Standing, ServerRow
  <2> QED BY <2>2 DEF a
<1> HIDE DEF n
<1>5. /\ row'[s] = n /\ row' \in [Servers -> ServerRow]
      /\ \A x \in Servers : x # s => row'[x] = row[x]
  BY <1>2, <1>3, <1>4 DEF TypeOK
<1>6. TypeOK'
  BY <1>2, <1>3, <1>5 DEF TypeOK
<1>7. Ledger' /\ Marked' /\ Told'
  BY <1>2, <1>3, <1>4, <1>5 DEF Ledger, Marked, Told
<1>8. /\ \A x \in Servers : sLock[x] \notin {Nobody} =>
                              sLock'[x] = sLock[x] /\ row'[x] = row[x]
      /\ Nobody \notin Handlers
  BY <1>3, <1>5, ProcsAssumption
<1> QED BY <1>3, <1>6, <1>7, <1>8, OutsideFrame

\* A session that writes extra_data back changes one row nobody holds, and in it the two keys.
LEMMA EditorWrites ==
  ASSUME IInv, NEW e \in Editors, EditorStep(e)
  PROVE  /\ UNCHANGED <<now, balance, rate, run, mem, sess, sLock, uLock, night, crashes>>
         /\ UNCHANGED <<funded, months, charges, manual, told>>
         /\ draft' \in [Editors -> Draft] /\ erased \subseteq erased' /\ erased' \subseteq Servers
         /\ row' \in [Servers -> ServerRow]
         /\ \A s \in Servers : /\ row'[s].standing = row[s].standing
                               /\ row'[s].since = row[s].since
                               /\ row'[s].expires = row[s].expires
                               /\ sLock[s] # Nobody => row'[s] = row[s]
                               /\ s \notin erased' => row'[s].mark = row[s].mark
<1>1. /\ row \in [Servers -> ServerRow] /\ draft \in [Editors -> Draft] /\ erased \subseteq Servers
      /\ NoDraft \in Draft
  BY AmountsAssumption DEF IInv, TypeOK, NoDraft, Draft, Never
<1>2. CASE DropExtra(e)
  <2>1. /\ UNCHANGED <<now, balance, rate, run, mem, sess, sLock, uLock, night, crashes>>
        /\ UNCHANGED <<funded, months, charges, manual, told, erased, row>>
        /\ draft' = [draft EXCEPT ![e] = NoDraft]
    BY <1>2 DEF DropExtra, rows, locks, books
  <2>2. draft' \in [Editors -> Draft]
    BY <1>1, <2>1
  <2> QED BY <1>1, <2>1, <2>2
<1>3. ASSUME NEW x \in Servers, ReadExtra(e, x)
      PROVE  /\ UNCHANGED <<now, balance, rate, run, mem, sess, sLock, uLock, night, crashes>>
             /\ UNCHANGED <<funded, months, charges, manual, told, erased, row>>
             /\ draft' \in [Editors -> Draft]
  <2> DEFINE d == [at |-> x, mark |-> row[x].mark, notice |-> row[x].notice]
  <2>1. row[x].mark \in Int /\ row[x].notice \in Int
    BY <1>1 DEF ServerRow
  <2>2. d \in Draft
    BY <2>1 DEF Draft
  <2>3. draft' = [draft EXCEPT ![e] = d]
    BY <1>3 DEF ReadExtra
  <2> HIDE DEF d
  <2>4. draft' \in [Editors -> Draft]
    BY <1>1, <2>2, <2>3
  <2> QED BY <1>3, <2>4 DEF ReadExtra, rows, locks, books
<1>4. ASSUME NEW x \in Servers, WriteExtra(e, x)
      PROVE  /\ UNCHANGED <<now, balance, rate, run, mem, sess, sLock, uLock, night, crashes>>
             /\ UNCHANGED <<funded, months, charges, manual, told>>
             /\ draft' \in [Editors -> Draft] /\ erased \subseteq erased'
             /\ erased' \subseteq Servers /\ row' \in [Servers -> ServerRow]
             /\ \A s \in Servers : /\ row'[s].standing = row[s].standing
                                   /\ row'[s].since = row[s].since
                                   /\ row'[s].expires = row[s].expires
                                   /\ sLock[s] # Nobody => row'[s] = row[s]
                                   /\ s \notin erased' => row'[s].mark = row[s].mark
  <2> DEFINE m == draft[e].mark
             n == draft[e].notice
             r == row[x]
  <2>1. r \in ServerRow /\ m \in Int /\ n \in Int
    BY <1>1 DEF Draft
  <2>2. /\ row' = [row EXCEPT ![x] = Extra(r, m, n)] /\ sLock[x] = Nobody
        /\ erased' = IF m # r.mark THEN erased \cup {x} ELSE erased
        /\ draft' = [draft EXCEPT ![e] = NoDraft]
    BY <1>4 DEF WriteExtra
  <2>3. UNCHANGED <<now, balance, rate, run, mem, sess, sLock, uLock, night, crashes>>
        /\ UNCHANGED <<funded, months, charges, manual, told>>
    BY <1>4 DEF WriteExtra, locks
  <2> HIDE DEF m, n, r
  <2>4. /\ Extra(r, m, n) \in ServerRow /\ Extra(r, m, n).mark = m
        /\ Extra(r, m, n).standing = r.standing /\ Extra(r, m, n).since = r.since
        /\ Extra(r, m, n).expires = r.expires
    BY <2>1, ExtraWrite
  <2> DEFINE z == Extra(r, m, n)
  <2> HIDE DEF z
  <2>5. /\ row' \in [Servers -> ServerRow] /\ row'[x] = z
        /\ \A s \in Servers : s # x => row'[s] = row[s]
    BY <1>1, <2>2, <2>4 DEF z
  <2>6. erased \subseteq erased' /\ erased' \subseteq Servers /\ (x \notin erased' => m = r.mark)
    BY <1>1, <2>2
  <2>7. draft' \in [Editors -> Draft]
    BY <1>1, <2>2
  <2>8. /\ z.mark = m /\ z.standing = r.standing /\ z.since = r.since /\ z.expires = r.expires
        /\ r = row[x]
    BY <2>4 DEF z, r
  <2> QED BY <2>2, <2>3, <2>5, <2>6, <2>7, <2>8
<1> QED BY <1>1, <1>2, <1>3, <1>4 DEF EditorStep

LEMMA EditorSafe ==
  ASSUME IInv, NEW e \in Editors, EditorStep(e)
  PROVE  IInv'
<1>1. /\ TypeOK /\ Ledger /\ Marked /\ Told
      /\ UNCHANGED <<now, balance, rate, run, mem, sess, sLock, uLock, night, crashes>>
      /\ UNCHANGED <<funded, months, charges, manual, told>>
      /\ draft' \in [Editors -> Draft] /\ erased \subseteq erased' /\ erased' \subseteq Servers
      /\ row' \in [Servers -> ServerRow]
      /\ \A s \in Servers : /\ row'[s].standing = row[s].standing
                            /\ row'[s].since = row[s].since
                            /\ sLock[s] # Nobody => row'[s] = row[s]
                            /\ s \notin erased' => row'[s].mark = row[s].mark
  BY EditorWrites DEF IInv
<1>2. TypeOK'
  BY <1>1 DEF TypeOK
<1>3. Ledger' /\ Marked' /\ Told'
  BY <1>1 DEF Ledger, Marked, Told
<1>4. /\ Nobody \notin Handlers /\ Nobody \in Handlers \cup {Nobody}
      /\ \A x \in Servers : sLock[x] \notin {Nobody, Nobody} =>
                              sLock'[x] = sLock[x] /\ row'[x] = row[x]
      /\ \A u \in Users : uLock[u] \notin {Nobody, Nobody} =>
                            uLock'[u] = uLock[u] /\ balance'[u] = balance[u]
      /\ \A u \in Users : uLock'[u] = uLock[u] \/ uLock'[u] \in {Nobody, Nobody}
      /\ \A g \in Handlers : g # Nobody => sess'[g] = sess[g]
      /\ UNCHANGED <<run, mem, told, now>>
  BY <1>1, ProcsAssumption
<1> QED BY <1>2, <1>3, <1>4, OutsideFrame

LEMMA CreditSafe ==
  ASSUME IInv, NEW u \in Users, Credit(u)
  PROVE  IInv'
<1>1. TypeOK /\ Ledger /\ Marked /\ Told
  BY DEF IInv
<1>2. /\ uLock[u] = Nobody
      /\ balance' = [balance EXCEPT ![u] = @ + TopUp]
      /\ funded' = [funded EXCEPT ![u] = @ + TopUp]
      /\ UNCHANGED <<now, row, rate, draft, run, mem, sess, sLock, uLock, night, crashes>>
      /\ UNCHANGED <<months, charges, manual, told, erased>>
  BY DEF Credit, locks
<1>3. /\ balance' \in [Users -> Int] /\ funded' \in [Users -> Nat]
      /\ balance'[u] = balance[u] + TopUp /\ funded'[u] = funded[u] + TopUp
      /\ \A x \in Users : x # u => balance'[x] = balance[x] /\ funded'[x] = funded[x]
  BY <1>1, <1>2, AmountsAssumption DEF TypeOK
<1>4. TypeOK'
  BY <1>1, <1>2, <1>3 DEF TypeOK
<1>5. Ledger'
  <2> SUFFICES ASSUME NEW x \in Users
               PROVE  /\ balance'[x] = FirstBalance + funded'[x] - Price * months[x]
                      /\ balance'[x] >= 0
    BY <1>2 DEF Ledger
  <2> DEFINE k == months[x]
  <2>1. /\ k \in Int /\ balance[x] = FirstBalance + funded[x] - Price * k /\ balance[x] >= 0
        /\ balance[x] \in Int /\ funded[x] \in Nat
    BY <1>1 DEF Ledger, TypeOK
  <2> HIDE DEF k
  <2>2. Price * k \in Int
    BY <2>1, Multiples
  <2>3. /\ balance'[x] = FirstBalance + funded'[x] - Price * k /\ balance'[x] >= 0
    BY <1>3, <2>1, <2>2, AmountsAssumption
  <2> QED BY <2>3 DEF k
<1>6. Marked' /\ Told'
  BY <1>1, <1>2 DEF Marked, Told
<1>7. /\ \A x \in Users : uLock[x] \notin {Nobody} =>
                            uLock'[x] = uLock[x] /\ balance'[x] = balance[x]
      /\ Nobody \notin Handlers
  BY <1>2, <1>3, ProcsAssumption
<1> QED BY <1>2, <1>4, <1>5, <1>6, <1>7, OutsideFrame

\* The rate, the clock and stuttering.
LEMMA WorldSafe ==
  ASSUME IInv, RateChanges \/ Tick \/ UNCHANGED vars
  PROVE  IInv'
<1>1. /\ TypeOK /\ Ledger /\ Marked /\ Told
  BY DEF IInv
<1>2. /\ now' >= now /\ now' \in Nat /\ rate' \in BOOLEAN
      /\ UNCHANGED <<row, balance, draft, run, mem, sess, sLock, uLock, night, crashes>>
      /\ UNCHANGED <<funded, months, charges, manual, told, erased>>
  <2>1. UNCHANGED <<row, balance, draft, run, mem, sess, sLock, uLock, night, crashes>>
        /\ UNCHANGED <<funded, months, charges, manual, told, erased>>
    BY DEF RateChanges, Tick, vars, rows, locks, books
  <2>2. now \in Nat /\ (now' = now \/ now' = now + 1)
    BY <1>1 DEF TypeOK, RateChanges, Tick, vars
  <2>3. rate' \in BOOLEAN
    <3>1. rate' = rate \/ rate' = ~rate
      BY Zenon DEF RateChanges, Tick, vars
    <3>2. rate \in BOOLEAN
      BY <1>1 DEF TypeOK
    <3> QED BY <3>1, <3>2, Zenon
  <2> QED BY <2>1, <2>2, <2>3
<1>3. TypeOK'
  BY <1>1, <1>2 DEF TypeOK
<1>4. (\A w \in Workers : RunInv(w)') /\ NightAlone'
  <2>1. UNCHANGED <<run, mem, told>> /\ now' >= now /\ now' \in Nat
    BY <1>2
  <2>2. /\ \A w \in Workers, s \in Servers : sLock[s] = w => sLock'[s] = w
        /\ \A w \in Workers, u \in Users :
             (uLock'[u] = w <=> uLock[u] = w) /\ (uLock[u] = w => balance'[u] = balance[u])
    BY <1>2
  <2> QED BY <2>1, <2>2, RunsUntouched
<1>5. ASSUME NEW h \in Handlers PROVE HandlerInv(h)'
  <2>1. /\ HandlerInv(h) /\ now \in Nat /\ Month \in Nat
        /\ \A s \in Servers : row[s].mark \in Int
    BY AmountsAssumption DEF IInv, TypeOK, ServerRow
  <2> QED BY <1>2, <2>1 DEF HandlerInv
<1>6. Ledger' /\ Marked' /\ Told'
  BY <1>1, <1>2 DEF Ledger, Marked, Told
<1> QED BY <1>3, <1>4, <1>5, <1>6 DEF IInv

(***************************************************************************)
(* The theorems.                                                           *)
(***************************************************************************)
LEMMA InitInv == Init => IInv
<1> SUFFICES ASSUME Init PROVE IInv
  OBVIOUS
<1>1. TypeOK
  <2>1. \A s \in Servers : Term(BlankRow, FirstTerm[s]) \in ServerRow
    BY BlankRowType, TermWrite, AmountsAssumption
  <2>2. /\ row \in [Servers -> ServerRow] /\ run \in [Workers -> RunState]
        /\ mem \in [Workers -> SessionMap]
    BY <2>1, IdleRunType, BlankType DEF Init
  <2>3. sess \in [Handlers -> HandlerState]
    BY DEF Init, IdleSession, HandlerState
  <2>4. /\ now \in Nat /\ balance \in [Users -> Int] /\ rate \in BOOLEAN
        /\ sLock \in [Servers -> Procs \cup {Nobody}]
        /\ uLock \in [Users -> Procs \cup {Nobody}]
        /\ night \in Int /\ crashes \in Nat
    BY AmountsAssumption DEF Init
  <2>5. /\ funded \in [Users -> Nat] /\ months \in [Users -> Nat]
        /\ charges \in [Servers -> Nat] /\ told \in [Servers -> Nat] /\ erased \subseteq Servers
    BY AmountsAssumption DEF Init
  <2>6. manual \in [Servers -> [times : Nat, last : Int]]
    BY AmountsAssumption DEF Init, Never
  <2>7. draft \in [Editors -> Draft]
    BY AmountsAssumption DEF Init, NoDraft, Draft, Never
  <2> QED BY <2>2, <2>3, <2>4, <2>5, <2>6, <2>7 DEF TypeOK
<1>2. Ledger
  <2>1. Price * 0 = 0
    BY AmountsAssumption
  <2> QED BY <2>1, AmountsAssumption DEF Init, Ledger
<1>3. ASSUME NEW w \in Workers PROVE RunInv(w)
  <2>1. run[w] = IdleRun /\ mem[w] = Blank /\ now = 0
    BY <1>1 DEF Init
  <2>2. \A u \in Users : uLock[u] # w
    BY ProcsAssumption DEF Init
  <2>3. UserHold(w) /\ ServerHold(w)
    BY <2>1, <2>2, BlankType DEF UserHold, ServerHold
  <2>4. AtWork(w)
    BY <2>1, IdleRunType DEF AtWork
  <2>5. Terms(w) /\ Standings(w) /\ ListedOverdue(w)
    BY <2>1, BlankType, IdleRunType DEF Terms, Standings, ListedOverdue, SuspendedBy, RemovedBy
  <2> QED BY <2>3, <2>4, <2>5 DEF RunInv
<1>4. NightAlone
  BY IdleRunType DEF Init, NightAlone, Night
<1>5. \A h \in Handlers : HandlerInv(h)
  BY DEF Init, IdleSession, HandlerInv
<1>6. Marked /\ Told
  BY DEF Init, Marked, Told, Term, BlankRow
<1> QED BY <1>1, <1>2, <1>3, <1>4, <1>5, <1>6 DEF IInv

LEMMA NextInv == IInv /\ [Next]_vars => IInv'
<1> SUFFICES ASSUME IInv, [Next]_vars PROVE IInv'
  OBVIOUS
<1>1. ASSUME NEW w \in Workers, BeginNight(w) \/ BeginRetry(w) PROVE IInv'
  BY <1>1, BeginNightSafe, BeginRetrySafe
<1>2. ASSUME NEW w \in Workers, RunStep(w) PROVE IInv'
  <2>1. ASSUME NEW s \in Servers, Remind(w, s) PROVE IInv'
    BY <2>1, RemindSafe
  <2>2. ASSUME NEW s \in Servers, Postpone(w, s) \/ PostponeOverdue(w, s) PROVE IInv'
    BY <2>2, PostponeSafe, PostponeOverdueSafe
  <2>3. ASSUME NEW s \in Servers, DebitMonth(w, s) \/ RefuseMonth(w, s) PROVE IInv'
    BY <2>3, DebitMonthSafe, RefuseMonthSafe
  <2>4. CASE ListExpired(w) \/ ListOverdue(w)
    BY <2>4, ListExpiredSafe, ListOverdueSafe
  <2>5. CASE Renew(w) \/ Suspend(w) \/ Remove(w)
    BY <2>5, RenewSafe, SuspendSafe, RemoveSafe
  <2>6. CASE CommitRun(w)
    BY <2>6, CommitRunSafe
  <2> QED BY <1>2, <2>1, <2>2, <2>3, <2>4, <2>5, <2>6 DEF RunStep
<1>3. ASSUME NEW w \in Workers, RollbackRun(w) PROVE IInv'
  BY <1>3, RollbackRunSafe
<1>4. ASSUME NEW h \in Handlers, HandlerStep(h) PROVE IInv'
  <2>1. ASSUME NEW s \in Servers, LockForRenewal(h, s) \/ AskActivation(h, s) PROVE IInv'
    BY <2>1, LockForRenewalSafe, AskActivationSafe
  <2>2. CASE PayRenewal(h) \/ PayActivation(h)
    BY <2>2, PayRenewalSafe, PayActivationSafe
  <2>3. CASE RefuseHandler(h)
    BY <2>3, RefuseHandlerSafe
  <2>4. ASSUME NEW lifted \in BOOLEAN, Activate(h, lifted) PROVE IInv'
    BY <2>4, ActivateSafe
  <2> QED BY <1>4, <2>1, <2>2, <2>3, <2>4 DEF HandlerStep
<1>5. ASSUME NEW h \in Handlers, RollbackHandler(h) PROVE IInv'
  BY <1>5, RefuseHandlerSafe
<1>6. ASSUME NEW s \in Servers, ServerStep(s) PROVE IInv'
  BY <1>6, ServerStepSafe
<1>7. ASSUME NEW u \in Users, Credit(u) PROVE IInv'
  BY <1>7, CreditSafe
<1>8. CASE RateChanges \/ Tick \/ UNCHANGED vars
  BY <1>8, WorldSafe
<1>9. ASSUME NEW e \in Editors, EditorStep(e) PROVE IInv'
  BY <1>9, EditorSafe
<1> QED BY <1>1, <1>2, <1>3, <1>4, <1>5, <1>6, <1>7, <1>8, <1>9 DEF Next

\* The invariant of every reachable state: what an open run holds in its session may be
\* committed, whatever the bot, the administrators and the other task have done since it read.
THEOREM InductiveInvariant == Spec => []IInv
<1>1. Init => IInv
  BY InitInv
<1>2. IInv /\ [Next]_vars => IInv'
  BY NextInv
<1> QED BY <1>1, <1>2, PTL DEF Spec

\* Every variable keeps its type, for every number of servers, users, workers and sessions.
THEOREM TypeCorrect == Spec => []TypeOK
<1>1. IInv => TypeOK
  BY DEF IInv
<1> QED BY <1>1, InductiveInvariant, PTL

\* Wallets equal what was paid in less the months debited, and are never overdrawn, although two
\* tasks and the bot compute new balances in sessions of their own.
THEOREM LedgerKept == Spec => []Ledger
<1>1. IInv => Ledger
  BY DEF IInv
<1> QED BY <1>1, InductiveInvariant, PTL

\* A step that changes rows, by what it changes in them.
LEMMA RowChanges ==
  ASSUME IInv, Next, NEW s \in Servers
  PROVE  \/ row'[s] = row[s]
         \/ \E w \in Workers : CommitRun(w)
         \/ \E h \in Handlers : PayRenewal(h) /\ sess[h].at = s
         \/ \E h \in Handlers, lifted \in BOOLEAN : Activate(h, lifted) /\ sess[h].at = s
         \/ \E st \in {"active", "held", "deleted", "gone"} : SetStanding(s, st)
         \/ row'[s].expires = row[s].expires
<1>1. ASSUME NEW w \in Workers, BeginNight(w) \/ BeginRetry(w) \/ RollbackRun(w)
      PROVE  row'[s] = row[s]
  BY <1>1 DEF BeginNight, BeginRetry, RollbackRun, rows
<1>2. ASSUME NEW w \in Workers, RunStep(w)
      PROVE  row'[s] = row[s] \/ CommitRun(w)
  BY <1>2 DEF RunStep, ListExpired, ListOverdue, Renew, Suspend, Remove, Flush, Remind, Postpone,
              PostponeOverdue, DebitMonth, RefuseMonth, rows
<1>3. ASSUME NEW h \in Handlers, HandlerStep(h) \/ RollbackHandler(h)
      PROVE  \/ row'[s] = row[s]
             \/ PayRenewal(h) /\ sess[h].at = s
             \/ \E lifted \in BOOLEAN : Activate(h, lifted) /\ sess[h].at = s
  <2>1. CASE PayRenewal(h)
    BY <2>1, PaidRenewal
  <2>2. ASSUME NEW lifted \in BOOLEAN, Activate(h, lifted)
        PROVE  row'[s] = row[s] \/ sess[h].at = s
    BY <2>2, PaidActivation
  <2>3. CASE \/ RefuseHandler(h) \/ RollbackHandler(h) \/ PayActivation(h)
             \/ \E x \in Servers : LockForRenewal(h, x) \/ AskActivation(h, x)
    BY <2>3 DEF RefuseHandler, RollbackHandler, PayActivation, LockForRenewal, AskActivation, rows
  <2> QED BY <1>3, <2>1, <2>2, <2>3, Zenon DEF HandlerStep
<1>4. ASSUME NEW x \in Servers, ServerStep(x)
      PROVE  row'[s] = row[s] \/ \E st \in {"active", "held", "deleted", "gone"} : SetStanding(s, st)
  <2>0. Deleted(row[x].standing) \in {"deleted", "gone"}
    BY DEF Deleted
  <2>1. PICK st \in {"active", "held", "deleted", "gone"} : SetStanding(x, st)
    BY <1>4, <2>0, SMT DEF ServerStep, Hold, Lift, Delete
  <2>2. CASE x = s
    BY <2>1, <2>2
  <2>3. CASE x # s
    BY <2>1, <2>3 DEF SetStanding, IInv, TypeOK
  <2> QED BY <2>2, <2>3
<1>5. ASSUME (\E u \in Users : Credit(u)) \/ RateChanges \/ Tick
      PROVE  row'[s] = row[s]
  BY <1>5 DEF Credit, RateChanges, Tick, rows
<1>6. ASSUME NEW e \in Editors, EditorStep(e)
      PROVE  row'[s].expires = row[s].expires
  BY <1>6, EditorWrites
<1> QED BY <1>1, <1>2, <1>3, <1>4, <1>5, <1>6 DEF Next

\* No free month: a term is extended only by a transaction that debits a month for the server,
\* and by one month at most.
THEOREM ExtensionsArePaid == Spec => ExtensionsPaid
<1> DEFINE Step(s) == row'[s].expires > row[s].expires =>
             /\ charges'[s] = charges[s] + 1
             /\ row'[s].expires <= (IF row[s].expires > now THEN row[s].expires ELSE now) + Month
<1>1. ASSUME IInv, Next, NEW s \in Servers PROVE Step(s)
  <2> USE <1>1
  <2>1. /\ row[s] \in ServerRow /\ row[s].expires \in Int /\ now \in Nat /\ Month \in Nat
        /\ charges \in [Servers -> Nat]
    BY AmountsAssumption DEF IInv, TypeOK, ServerRow
  <2>2. CASE row'[s] = row[s]
    BY <2>1, <2>2
  <2>3. ASSUME NEW w \in Workers, CommitRun(w) PROVE Step(s)
    <3>1. CASE "expires" \notin mem[w].cols[s]
      <4>1. row'[s].expires = row[s].expires
        BY <2>3, <3>1, CommittedRows
      <4> QED BY <2>1, <4>1
    <3>2. CASE "expires" \in mem[w].cols[s]
      <4>1. s \in run[w].charged /\ mem[w].row[s].expires <= now + Month
        BY <3>2 DEF IInv, RunInv, Terms
      <4>2. row'[s].expires = mem[w].row[s].expires /\ mem[w].row[s].expires \in Int
        BY <2>3, <3>2, CommittedRows DEF IInv, TypeOK, SessionMap, ServerRow
      <4>3. charges'[s] = charges[s] + 1
        BY <2>3, <4>1 DEF CommitRun
      <4> QED BY <2>1, <4>1, <4>2, <4>3
    <3> QED BY <3>1, <3>2
  <2>4. ASSUME NEW h \in Handlers, PayRenewal(h), sess[h].at = s PROVE Step(s)
    <3>1. row'[s].expires = (IF row[s].expires < now THEN now ELSE row[s].expires) + Month
      BY <2>4, PaidRenewal
    <3>2. charges'[s] = charges[s] + 1
      BY <2>1, <2>4 DEF PayRenewal, RecordMonth
    <3> QED BY <2>1, <3>1, <3>2
  <2>5. ASSUME NEW h \in Handlers, NEW lifted \in BOOLEAN, Activate(h, lifted), sess[h].at = s
        PROVE  Step(s)
    <3>1. row'[s].expires = now + Month
      BY <2>5, PaidActivation
    <3>2. charges'[s] = charges[s] + 1
      BY <2>1, <2>5 DEF Activate, RecordMonth
    <3> QED BY <2>1, <3>1, <3>2
  <2>6. ASSUME NEW st \in {"active", "held", "deleted", "gone"}, SetStanding(s, st) PROVE Step(s)
    <3>1. row'[s].expires = row[s].expires
      BY <2>1, <2>6 DEF SetStanding, IInv, TypeOK, Standing, ServerRow
    <3> QED BY <2>1, <3>1
  <2>7. CASE row'[s].expires = row[s].expires
    BY <2>1, <2>7
  <2> QED BY <2>2, <2>3, <2>4, <2>5, <2>6, <2>7, RowChanges
<1>2. ASSUME IInv, UNCHANGED vars, NEW s \in Servers PROVE Step(s)
  <2>1. row[s].expires \in Int
    BY <1>2 DEF IInv, TypeOK, ServerRow
  <2> QED BY <1>2, <2>1 DEF vars, rows
<1>3. IInv /\ [Next]_vars => [\A s \in Servers : Step(s)]_vars
  BY <1>1, <1>2
<1> QED BY <1>3, InductiveInvariant, PTL DEF Spec, ExtensionsPaid

\* Two renewals by hand are a month apart, unless a reminder or a handler that does not lock the
\* row has written an older extra_data over the mark of the first: the check and the debit are in one transaction that holds the server's row.
THEOREM ManualRenewalsApart == Spec => OneManualRenewalAMonth
<1> DEFINE Step(s) == manual'[s].times > manual[s].times =>
                        now >= manual[s].last + Month \/ s \in erased
<1>1. ASSUME IInv, Next, NEW s \in Servers PROVE Step(s)
  <2> USE <1>1
  <2>1. /\ manual[s].times \in Nat /\ manual \in [Servers -> [times : Nat, last : Int]] /\ Marked
        /\ now \in Nat
    BY DEF IInv, TypeOK
  <2>2. CASE manual' = manual
    BY <2>1, <2>2
  <2>3. ASSUME NEW h \in Handlers, PayRenewal(h) PROVE Step(s)
    <3>1. sess[h].at \in Servers /\ row[sess[h].at].mark + Month <= now
      BY <2>3, PaidRenewal
    <3>2. CASE sess[h].at = s
      BY <2>1, <3>1, <3>2 DEF Marked
    <3>3. CASE sess[h].at # s
      <4>1. manual'[s] = manual[s]
        BY <2>1, <2>3, <3>3 DEF PayRenewal
      <4> QED BY <2>1, <4>1
    <3> QED BY <3>2, <3>3
  <2>4. manual' = manual \/ \E h \in Handlers : PayRenewal(h)
    <3>1. ASSUME NEW w \in Workers, BeginNight(w) \/ BeginRetry(w) \/ RollbackRun(w)
          PROVE  manual' = manual
      BY <3>1 DEF BeginNight, BeginRetry, RollbackRun, books
    <3>2. ASSUME NEW w \in Workers, RunStep(w) PROVE manual' = manual
      BY <3>2 DEF RunStep, ListExpired, ListOverdue, CommitRun, Renew, Suspend, Remove, Flush,
                  Remind, Postpone, PostponeOverdue, DebitMonth, RefuseMonth, books
    <3>3. ASSUME NEW h \in Handlers, HandlerStep(h) \/ RollbackHandler(h)
          PROVE  manual' = manual \/ PayRenewal(h)
      BY <3>3 DEF HandlerStep, RefuseHandler, RollbackHandler, PayActivation, LockForRenewal,
                  AskActivation, Activate, books
    <3>4. ASSUME \/ \E x \in Servers : ServerStep(x)
                 \/ \E u \in Users : Credit(u)
                 \/ RateChanges \/ Tick
          PROVE  manual' = manual
      BY <3>4 DEF ServerStep, Hold, Lift, Delete, SetStanding, Credit, RateChanges, Tick, books
    <3>5. ASSUME NEW e \in Editors, EditorStep(e) PROVE manual' = manual
      BY <3>5 DEF EditorStep, ReadExtra, WriteExtra, DropExtra, books
    <3> QED BY <3>1, <3>2, <3>3, <3>4, <3>5 DEF Next
  <2> QED BY <2>2, <2>3, <2>4
<1>2. ASSUME IInv, UNCHANGED vars, NEW s \in Servers PROVE Step(s)
  <2>1. manual[s].times \in Nat
    BY <1>2 DEF IInv, TypeOK
  <2> QED BY <1>2, <2>1 DEF vars, books
<1>3. IInv /\ [Next]_vars => [\A s \in Servers : Step(s)]_vars
  BY <1>1, <1>2
<1> QED BY <1>3, InductiveInvariant, PTL DEF Spec, OneManualRenewalAMonth

\* A nightly check removes a server only a day or more after its owner was told of the
\* suspension, whatever happened to the server since the check read it.
THEOREM RemovedAfterADay == Spec => DayBeforeRemoval
<1> DEFINE Step == \A w \in Workers, s \in Servers :
                     CommitRun(w) /\ RemovedBy(w, s) => now >= told[s] + Day
<1>1. ASSUME IInv PROVE Step
  <2> SUFFICES ASSUME NEW w \in Workers, NEW s \in Servers, RemovedBy(w, s)
               PROVE  now >= told[s] + Day
    OBVIOUS
  <2>1. /\ told[s] + Day <= run[w].at /\ run[w].at <= now
        /\ told[s] \in Nat /\ Day \in Nat /\ run[w].at \in Nat /\ now \in Nat
    BY <1>1, AmountsAssumption DEF IInv, RunInv, AtWork, Standings, TypeOK, RunState
  <2> QED BY <2>1
<1>2. IInv => [Step]_vars
  BY <1>1
<1> QED BY <1>2, InductiveInvariant, PTL DEF DayBeforeRemoval

=============================================================================
