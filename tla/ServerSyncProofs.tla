-------------------------- MODULE ServerSyncProofs --------------------------
(***************************************************************************)
(* What is safe about one server in use, for any number of sessions that   *)
(* work on it at the same time and anything each of them may be.  A        *)
(* session carries a copy of the row through a provider call of any length; *)
(* the invariant says of every session by itself what that copy and its    *)
(* money are worth at each place (Local), and of the order of traffic that *)
(* the lock it took when it loaded the row keeps the stamp away from        *)
(* everybody else (Locked).                                                *)
(***************************************************************************)
EXTENDS ServerSync, TLAPS

Statuses == {"BUILDING", "ACTIVE", "SUSPENDED", "DELETED", "REBOOTING", "REBUILDING",
             "PENDING"}
Reasons  == {"none", "LOW", "TRAFFIC", "ADMIN"}
Places   == {"idle", "pay", "mark", "call", "refund", "limit", "cutoff", "render", "write"}

ExtraType == [fresh : BOOLEAN, plan : Nat]
RowType   == [status : Statuses, reason : Reasons, extra : ExtraType]
VmType    == [state : {"building", "on", "off", "suspended", "gone"}, over : BOOLEAN,
              plan : Nat, disk : Nat, short : BOOLEAN]
SessType  == [pc : Places, op : AllOps \cup {"none"}, saw : BOOLEAN, new : RowType,
              cols : SUBSET Columns, did : BOOLEAN, paid : BOOLEAN]

Types ==
    /\ row \in RowType /\ vm \in VmType /\ balance \in Int
    /\ sess \in [Sessions -> SessType]
    /\ sLock \in Sessions \cup {Nobody} /\ terms \in {"HOURLY", "MONTHLY"}
    /\ recent \in BOOLEAN /\ clobbered \in BOOLEAN

(* The machine has what the plan promises that a session will write.       *)
Sized(x) == Holds(vm, x.new.extra.plan)

(* Who has paid either has what he paid for, or is on his way to it or to  *)
(* his money.                                                              *)
Settled(x) ==
    /\ x.paid => x.op = "hourly" \/ x.did \/ x.pc \in {"mark", "call", "refund"}
    /\ x.pc = "pay" => ~x.paid

(* A synchronisation that has seen a suspension writes no other status.    *)
Verdict(x) ==
    /\ x.pc = "limit" => x.op = "traffic"
    /\ x.op \in Reads /\ x.saw
         => x.new.status = "SUSPENDED" \/ (x.pc = "write" /\ "status" \notin x.cols)

(* An order of traffic has the row for itself, and there was no stamp on   *)
(* it; what it stamps itself, it writes.                                   *)
Locked(s) ==
    sess[s].op = "traffic" =>
      /\ sLock = s /\ ~row.extra.fresh
      /\ sess[s].pc = "write" /\ sess[s].new.extra.fresh => "extra" \in sess[s].cols

Local(s) == Sized(sess[s]) /\ Settled(sess[s]) /\ Verdict(sess[s]) /\ Locked(s)

(* The stamp of a recent order is there, or an old copy was written over it.*)
Stamped == recent => clobbered \/ row.extra.fresh

IInv == Types /\ BilledPlanIsThere /\ Stamped /\ \A s \in Sessions : Local(s)

-----------------------------------------------------------------------------
(* The values the operations write are rows.                               *)
LEMMA NobodyIsNoSession == Nobody \notin Sessions
BY SyncAssumption

(* Rows are records of their three columns, and so is the mixture of two.  *)
LEMMA WrittenRow ==
  ASSUME NEW r \in RowType, NEW old \in RowType, NEW cols
  PROVE  /\ Written(r, cols, old) \in RowType
         /\ "status" \in cols => Written(r, cols, old).status = r.status
         /\ "extra" \in cols => Written(r, cols, old).extra = r.extra
         /\ "status" \notin cols => Written(r, cols, old).status = old.status
         /\ "extra" \notin cols => Written(r, cols, old).extra = old.extra
BY DEF Written, RowType

LEMMA BlankRow == Blank \in RowType /\ ~Blank.extra.fresh /\ Blank.extra.plan = 0
BY DEF Blank, RowType, ExtraType, Statuses, Reasons

(* What an operation that ends hands to its UPDATE is a row of columns it  *)
(* has changed; its plan is no bigger and its stamp is there only if the   *)
(* column is.                                                              *)
LEMMA KeptRow ==
  ASSUME NEW r \in RowType, NEW cols
  PROVE  /\ Kept(r, cols) \in RowType
         /\ Kept(r, cols).extra.plan <= r.extra.plan
         /\ Kept(r, cols).extra.fresh => "extra" \in cols
         /\ "status" \in cols => Kept(r, cols).status = r.status
<1>1. Written(r, cols, Blank) \in RowType
      /\ ("status" \in cols => Written(r, cols, Blank).status = r.status)
      /\ ("extra" \in cols => Written(r, cols, Blank).extra = r.extra)
      /\ ("extra" \notin cols => Written(r, cols, Blank).extra = Blank.extra)
  BY WrittenRow, BlankRow
<1>2. r.extra.plan \in Nat
  BY DEF RowType, ExtraType
<1>3. Written(r, cols, Blank).extra.plan <= r.extra.plan
  BY <1>1, <1>2, BlankRow
<1>4. Written(r, cols, Blank).extra.fresh => "extra" \in cols
  BY <1>1, BlankRow
<1>. QED BY <1>1, <1>3, <1>4 DEF Kept

LEMMA StatusRow ==
  ASSUME NEW r \in RowType, NEW v \in Statuses
  PROVE  /\ [r EXCEPT !.status = v] \in RowType
         /\ [r EXCEPT !.status = v].status = v
         /\ [r EXCEPT !.status = v].extra = r.extra
BY DEF RowType

LEMMA SuspendedRow ==
  ASSUME NEW r \in RowType, NEW why \in Reasons
  PROVE  /\ Suspended(r, why) \in RowType /\ Suspended(r, why).status = "SUSPENDED"
         /\ Suspended(r, why).extra = r.extra
BY DEF Suspended, RowType, Statuses

LEMMA UnsuspendedRow ==
  ASSUME NEW r \in RowType
  PROVE  Unsuspended(r) \in RowType /\ Unsuspended(r).extra = r.extra
BY DEF Unsuspended, RowType, Statuses, Reasons

LEMMA StampedRow ==
  ASSUME NEW r \in RowType, NEW b \in BOOLEAN
  PROVE  /\ [r EXCEPT !.extra.fresh = b] \in RowType
         /\ [r EXCEPT !.extra.fresh = b].status = r.status
         /\ [r EXCEPT !.extra.fresh = b].extra.plan = r.extra.plan
         /\ [r EXCEPT !.extra.fresh = b].extra.fresh = b
<1>1. r.extra \in ExtraType
  BY DEF RowType
<1>2. [r.extra EXCEPT !.fresh = b] \in ExtraType
      /\ [r.extra EXCEPT !.fresh = b].plan = r.extra.plan
      /\ [r.extra EXCEPT !.fresh = b].fresh = b
  BY <1>1 DEF ExtraType
<1>3. [r EXCEPT !.extra.fresh = b] = [r EXCEPT !.extra = [r.extra EXCEPT !.fresh = b]]
  OBVIOUS
<1>4. PICK e \in ExtraType : e = [r.extra EXCEPT !.fresh = b]
  BY <1>2
<1>5. [r EXCEPT !.extra = e] \in RowType /\ [r EXCEPT !.extra = e].extra = e
      /\ [r EXCEPT !.extra = e].status = r.status
  BY DEF RowType
<1>6. [r EXCEPT !.extra.fresh = b] = [r EXCEPT !.extra = e]
  BY <1>3, <1>4
<1>7. e.plan = r.extra.plan /\ e.fresh = b
  BY <1>2, <1>4
<1>. QED BY <1>5, <1>6, <1>7

LEMMA BiggerRow ==
  ASSUME NEW r \in RowType
  PROVE  /\ [r EXCEPT !.extra.plan = @ + 1] \in RowType
         /\ [r EXCEPT !.extra.plan = @ + 1].status = r.status
         /\ [r EXCEPT !.extra.plan = @ + 1].extra.plan = r.extra.plan + 1
<1>1. r.extra \in ExtraType
  BY DEF RowType
<1>2. [r.extra EXCEPT !.plan = @ + 1] \in ExtraType
      /\ [r.extra EXCEPT !.plan = @ + 1].plan = r.extra.plan + 1
  BY <1>1 DEF ExtraType
<1>3. [r EXCEPT !.extra.plan = @ + 1] = [r EXCEPT !.extra = [r.extra EXCEPT !.plan = @ + 1]]
  OBVIOUS
<1>4. PICK e \in ExtraType : e = [r.extra EXCEPT !.plan = @ + 1]
  BY <1>2
<1>5. [r EXCEPT !.extra = e] \in RowType /\ [r EXCEPT !.extra = e].extra = e
      /\ [r EXCEPT !.extra = e].status = r.status
  BY DEF RowType
<1>6. [r EXCEPT !.extra.plan = @ + 1] = [r EXCEPT !.extra = e]
  BY <1>3, <1>4
<1>7. e.plan = r.extra.plan + 1
  BY <1>2, <1>4
<1>. QED BY <1>5, <1>6, <1>7

LEMMA SyncedRow ==
  ASSUME NEW r \in RowType
  PROVE  /\ [r EXCEPT !.status = SyncStatus(r)] \in RowType
         /\ r.status = "SUSPENDED" => [r EXCEPT !.status = SyncStatus(r)].status = "SUSPENDED"
         /\ [r EXCEPT !.status = SyncStatus(r)].extra = r.extra
<1>1. SyncStatus(r) \in Statuses
  BY DEF SyncStatus, Statuses, RowType
<1>2. r.status = "SUSPENDED" => SyncStatus(r) = "SUSPENDED"
  BY DEF SyncStatus
<1>3. PICK v \in Statuses : v = SyncStatus(r)
  BY <1>1
<1>. QED BY <1>2, <1>3, StatusRow

LEMMA MarkedRow ==
  ASSUME NEW r \in RowType, NEW op
  PROVE  /\ Marked(op, r) \in RowType
         /\ Marked(op, r).extra.plan = r.extra.plan
         /\ op \in Reads => Marked(op, r) = r
<1>1. "REBOOTING" \in Statuses /\ "REBUILDING" \in Statuses
  BY DEF Statuses
<1>2. op \in Reads => op \notin {"restart", "reboot", "rebuild", "traffic"}
  BY DEF Reads
<1>3. CASE op \in {"restart", "reboot"}
  <2>1. Marked(op, r) = [r EXCEPT !.status = "REBOOTING"]
    BY <1>3 DEF Marked
  <2>. QED BY <1>1, <1>2, <1>3, <2>1, StatusRow
<1>4. CASE op = "rebuild"
  <2>1. Marked(op, r) = [r EXCEPT !.status = "REBUILDING"]
    BY <1>4 DEF Marked
  <2>2. PICK v \in Statuses : v = "REBUILDING"
    BY <1>1
  <2>3. Marked(op, r) = [r EXCEPT !.status = v]
    BY <2>1, <2>2
  <2>4. [r EXCEPT !.status = v] \in RowType /\ [r EXCEPT !.status = v].extra = r.extra
    BY StatusRow
  <2>. QED BY <1>2, <1>4, <2>3, <2>4
<1>5. CASE op = "traffic"
  <2>1. Marked(op, r) = [r EXCEPT !.extra.fresh = TRUE]
    BY <1>5 DEF Marked
  <2>2. PICK b \in BOOLEAN : b = TRUE
    OBVIOUS
  <2>3. Marked(op, r) = [r EXCEPT !.extra.fresh = b]
    BY <2>1, <2>2
  <2>4. /\ [r EXCEPT !.extra.fresh = b] \in RowType
        /\ [r EXCEPT !.extra.fresh = b].extra.plan = r.extra.plan
    BY StampedRow
  <2>. QED BY <1>2, <1>5, <2>3, <2>4
<1>6. CASE op \notin {"restart", "reboot", "rebuild", "traffic"}
  BY <1>6 DEF Marked
<1>. QED BY <1>3, <1>4, <1>5, <1>6

(* The row after the provider's yes is bigger for an upgrade only, and no  *)
(* reading takes a suspension away.                                        *)
LEMMA AfterRow ==
  ASSUME NEW r \in RowType, NEW op
  PROVE  /\ After(op, r) \in RowType
         /\ op # "upgrade" => After(op, r).extra.plan = r.extra.plan
         /\ op = "upgrade" => After(op, r).extra.plan = r.extra.plan + 1
         /\ op \in Reads /\ r.status = "SUSPENDED" => After(op, r).status = "SUSPENDED"
<1>1. "REBUILDING" \in Statuses /\ "TRAFFIC" \in Reasons /\ "ADMIN" \in Reasons
  BY DEF Statuses, Reasons
<1>2. op \in Reads => op \notin {"restore", "suspend", "unsuspend", "pardon", "upgrade"}
  BY DEF Reads
<1>3. CASE op \in {"refresh", "building"}
  <2>1. After(op, r) = [r EXCEPT !.status = SyncStatus(r)]
    BY <1>3 DEF After
  <2>. QED BY <1>3, <2>1, SyncedRow
<1>4. CASE op = "alltraffic"
  <2>1. After(op, r) = Suspended(r, "TRAFFIC") \/ After(op, r) = r
    BY <1>4 DEF After
  <2>. QED BY <1>1, <1>4, <2>1, SuspendedRow
<1>5. CASE op = "restore"
  <2>1. After(op, r) = [r EXCEPT !.status = "REBUILDING"]
    BY <1>5 DEF After
  <2>2. PICK v \in Statuses : v = "REBUILDING"
    BY <1>1
  <2>3. After(op, r) = [r EXCEPT !.status = v]
    BY <2>1, <2>2
  <2>4. [r EXCEPT !.status = v] \in RowType /\ [r EXCEPT !.status = v].extra = r.extra
    BY StatusRow
  <2>. QED BY <1>2, <1>5, <2>3, <2>4
<1>6. CASE op = "suspend"
  <2>1. After(op, r) = Suspended(r, "ADMIN")
    BY <1>6 DEF After
  <2>. QED BY <1>1, <1>2, <1>6, <2>1, SuspendedRow
<1>7. CASE op \in {"unsuspend", "pardon"}
  <2>1. After(op, r) = Unsuspended(r)
    BY <1>7 DEF After
  <2>. QED BY <1>2, <1>7, <2>1, UnsuspendedRow
<1>8. CASE op = "upgrade"
  <2>1. After(op, r) = [r EXCEPT !.extra.plan = @ + 1]
    BY <1>8 DEF After
  <2>. QED BY <1>2, <1>8, <2>1, BiggerRow
<1>9. CASE op \notin {"refresh", "building", "alltraffic", "restore", "suspend",
                      "unsuspend", "pardon", "upgrade"}
  <2>1. After(op, r) = r
    BY <1>9 DEF After
  <2>. QED BY <1>9, <2>1
<1>. QED BY <1>3, <1>4, <1>5, <1>6, <1>7, <1>8, <1>9

LEMMA NewRowRow ==
  ASSUME NEW s \in Sessions, sess[s].new \in RowType, NEW said \in BOOLEAN
  PROVE  /\ NewRow(s, said) \in RowType
         /\ ~(said /\ sess[s].op = "upgrade")
              => NewRow(s, said).extra.plan = sess[s].new.extra.plan
         /\ said /\ sess[s].op = "upgrade"
              => NewRow(s, said).extra.plan = sess[s].new.extra.plan + 1
         /\ sess[s].op \in Reads /\ sess[s].new.status = "SUSPENDED"
              => NewRow(s, said).status = "SUSPENDED"
<1>. DEFINE x == sess[s].new
            op == sess[s].op
<1>1. "DELETED" \in Statuses
  BY DEF Statuses
<1>2. op \in Reads => op \notin {"delete", "remove", "traffic", "upgrade"}
  BY DEF Reads
<1>3. CASE op \in {"delete", "remove"}
  <2>1. NewRow(s, said) = [x EXCEPT !.status = "DELETED"]
    BY <1>3 DEF NewRow
  <2>. QED BY <1>1, <1>2, <1>3, <2>1, StatusRow
<1>4. CASE op \notin {"delete", "remove"} /\ said
  <2>1. NewRow(s, said) = After(op, x)
    BY <1>4 DEF NewRow
  <2>2. /\ After(op, x) \in RowType
        /\ op # "upgrade" => After(op, x).extra.plan = x.extra.plan
        /\ op = "upgrade" => After(op, x).extra.plan = x.extra.plan + 1
        /\ op \in Reads /\ x.status = "SUSPENDED" => After(op, x).status = "SUSPENDED"
    BY AfterRow
  <2>. QED BY <1>4, <2>1, <2>2
<1>5. CASE ~said /\ op = "traffic"
  <2>1. NewRow(s, said) = [x EXCEPT !.extra.fresh = FALSE]
    BY <1>5 DEF NewRow
  <2>2. PICK b \in BOOLEAN : b = FALSE
    OBVIOUS
  <2>3. NewRow(s, said) = [x EXCEPT !.extra.fresh = b]
    BY <2>1, <2>2
  <2>4. /\ [x EXCEPT !.extra.fresh = b] \in RowType
        /\ [x EXCEPT !.extra.fresh = b].extra.plan = x.extra.plan
    BY StampedRow
  <2>. QED BY <1>2, <1>5, <2>3, <2>4
<1>6. CASE ~said /\ op \notin {"delete", "remove", "traffic"}
  <2>1. NewRow(s, said) = x
    BY <1>6 DEF NewRow
  <2>. QED BY <1>6, <2>1
<1>. QED BY <1>3, <1>4, <1>5, <1>6

-----------------------------------------------------------------------------
(* Becomes changes its session alone; what is written is what is kept.     *)
LEMMA BecomesIs ==
  ASSUME sess \in [Sessions -> SessType], NEW s \in Sessions, NEW pc \in Places,
         NEW r \in RowType, NEW also \in SUBSET Columns
  PROVE  \E x \in SessType :
           /\ Becomes(s, pc, r, also) = [sess EXCEPT ![s] = x]
           /\ x.pc = pc /\ x.op = sess[s].op
           /\ x.saw = sess[s].saw /\ x.did = sess[s].did /\ x.paid = sess[s].paid
           /\ x.new = IF pc = "write" THEN Kept(r, x.cols) ELSE r
<1>. DEFINE cols == sess[s].cols \cup Diff(sess[s].new, r) \cup also
            e == IF pc = "write" THEN Kept(r, cols) ELSE r
<1>1. sess[s] \in SessType
  OBVIOUS
<1>2. cols \in SUBSET Columns
  BY <1>1 DEF SessType, Diff
<1>3. e \in RowType
  BY KeptRow
<1>4. Becomes(s, pc, r, also)
        = [sess EXCEPT ![s] = [sess[s] EXCEPT !.pc = pc, !.cols = cols, !.new = e]]
  BY DEF Becomes
<1>. HIDE DEF cols, e
<1>a. PICK d \in SessType : d = sess[s]
  BY <1>1
<1>b. PICK c \in SUBSET Columns : c = cols
  BY <1>2
<1>c. PICK v \in RowType : v = e
  BY <1>3
<1>d. PICK x : x = [d EXCEPT !.pc = pc, !.cols = c, !.new = v]
  OBVIOUS
<1>5. /\ x \in SessType
      /\ x.pc = pc /\ x.cols = c /\ x.new = v
      /\ x.op = d.op /\ x.saw = d.saw /\ x.did = d.did /\ x.paid = d.paid
  <2>1. x \in SessType
    BY <1>d DEF SessType
  <2>2. /\ x.pc = pc /\ x.cols = c /\ x.new = v
        /\ x.op = d.op /\ x.saw = d.saw /\ x.did = d.did /\ x.paid = d.paid
    BY <1>d DEF SessType
  <2>. QED BY <2>1, <2>2
<1>6. x.new = IF pc = "write" THEN Kept(r, x.cols) ELSE r
  BY <1>b, <1>c, <1>5 DEF e
<1>7. Becomes(s, pc, r, also) = [sess EXCEPT ![s] = x]
  BY <1>4, <1>a, <1>b, <1>c, <1>d
<1>8. /\ x.pc = pc /\ x.op = sess[s].op
      /\ x.saw = sess[s].saw /\ x.did = sess[s].did /\ x.paid = sess[s].paid
  BY <1>5, <1>a
<1>. QED BY <1>5, <1>6, <1>7, <1>8, Zenon

(* A machine never loses memory, cores or disk, and holds what it held.    *)
Grew(v, w) == v.plan <= w.plan /\ v.disk <= w.disk /\ (v.short => w.short)

LEMMA HoldsMore ==
  ASSUME NEW v \in VmType, NEW w \in VmType, Grew(v, w), NEW n \in Nat, NEW m \in Nat,
         m <= n, Holds(v, n)
  PROVE  Holds(w, m)
BY DEF Grew, Holds, VmType

LEMMA GrewAtLeast ==
  ASSUME NEW v \in VmType, NEW w \in VmType, v.plan = w.plan, v.disk = w.disk,
         v.short <=> w.short
  PROVE  Grew(v, w) /\ \A n : Holds(v, n) => Holds(w, n)
BY DEF Grew, Holds, VmType

(* What is asked of a session that goes on: its plan fits the machine, its *)
(* money is accounted for, and a buyer of traffic holds the row.           *)
Fits(x, s) ==
    /\ Holds(vm', x.new.extra.plan) /\ Settled(x) /\ Verdict(x)
    /\ x.op = "traffic" =>
         /\ sLock' = s /\ ~row.extra.fresh
         /\ x.pc = "write" /\ x.new.extra.fresh => "extra" \in x.cols

(* Nothing but the session and the machine has changed; the machine has    *)
(* not shrunk and the lock of the row was not taken from anybody.          *)
Aside(s) ==
    /\ UNCHANGED <<row, terms, recent, clobbered>>
    /\ vm' \in VmType /\ Grew(vm, vm') /\ balance' \in Int
    /\ sLock' = sLock \/ (sLock \in {Nobody, s} /\ sLock' = s)

LEMMA OneMoves ==
  ASSUME IInv, NEW s \in Sessions, NEW x \in SessType, Fits(x, s), Aside(s),
         sess' = [sess EXCEPT ![s] = x]
  PROVE  IInv'
<1>1. Types'
  BY DEF IInv, Types, Aside
<1>2. vm \in VmType /\ vm' \in VmType /\ Grew(vm, vm')
      /\ row.extra.plan \in Nat /\ row.extra.plan <= row.extra.plan
  BY DEF IInv, Types, Aside, RowType, ExtraType
<1>3. BilledPlanIsThere'
  <2>1. Holds(vm', row.extra.plan)
    BY <1>2, HoldsMore DEF IInv, BilledPlanIsThere
  <2>. QED BY <2>1 DEF BilledPlanIsThere, Aside
<1>4. Stamped'
  BY DEF IInv, Stamped, Aside
<1>5. ASSUME NEW t \in Sessions
      PROVE  Local(t)'
  <2>1. CASE t = s
    <3>1. sess'[t] = x
      BY <2>1 DEF IInv, Types
    <3>. QED BY <2>1, <3>1 DEF Local, Sized, Locked, Fits, Aside
  <2>2. CASE t # s
    <3>1. sess'[t] = sess[t]
      BY <2>2 DEF IInv, Types
    <3>2. Local(t) /\ sess[t] \in SessType
      BY DEF IInv, Types
    <3>3. Sized(sess[t])'
      <4>1. sess[t].new.extra.plan \in Nat
            /\ sess[t].new.extra.plan <= sess[t].new.extra.plan
        BY <3>2 DEF SessType, RowType, ExtraType
      <4>2. Holds(vm', sess[t].new.extra.plan)
        BY <1>2, <3>2, <4>1, HoldsMore DEF Local, Sized
      <4>. QED BY <3>1, <4>2 DEF Sized
    <3>4. Settled(sess[t])' /\ Verdict(sess[t])'
      BY <3>1, <3>2 DEF Local, Settled, Verdict
    <3>5. Locked(t)'
      BY <2>2, <3>1, <3>2, NobodyIsNoSession DEF Local, Locked, Aside
    <3>. QED BY <3>3, <3>4, <3>5 DEF Local
  <2>. QED BY <2>1, <2>2
<1>. QED BY <1>1, <1>3, <1>4, <1>5 DEF IInv

(* A session that loads the row has a copy of it and has changed nothing;  *)
(* the buyer of traffic has the lock and saw no stamp.                     *)
LEMMA LoadsKeeps ==
  ASSUME IInv, NEW s \in Sessions, NEW op \in AllOps, NEW pc \in {"call", "mark", "write"},
         Loads(s, op, pc), op \in Reads => pc = "call",
         UNCHANGED sLock \/ (sLock = Nobody /\ sLock' = s),
         op = "traffic" => TrafficGuard(row) /\ sLock' = s /\ pc = "mark"
  PROVE  IInv'
<1>. DEFINE where == IF Costs(op) THEN "pay" ELSE pc
            cols == IF op = "mute" THEN {"extra"} ELSE {}
<1>1. row \in RowType /\ where \in Places /\ cols \in SUBSET Columns
  BY DEF IInv, Types, Places, Columns
<1>2. PICK b \in BOOLEAN : b = (op \in Reads /\ row.status = "SUSPENDED")
  OBVIOUS
<1>3. b => row.status = "SUSPENDED"
  BY <1>2
<1>4. PICK x : x = [Idle EXCEPT !.pc = where, !.op = op, !.new = row, !.cols = cols,
                                !.saw = b]
  OBVIOUS
<1>5. sess' = [sess EXCEPT ![s] = x]
  BY <1>2, <1>4 DEF Loads
<1>. HIDE DEF where, cols
<1>6. x = [pc |-> where, op |-> op, saw |-> b, new |-> row, cols |-> cols, did |-> FALSE,
           paid |-> FALSE]
  BY <1>4 DEF Idle
<1>7. x \in SessType
  BY <1>1, <1>6 DEF SessType
<1>8. /\ x.pc = where /\ x.op = op /\ x.new = row /\ ~x.paid
      /\ x.saw => row.status = "SUSPENDED"
  BY <1>3, <1>6
<1>9. where # "limit" /\ (op = "traffic" => where # "write")
  BY DEF where
<1>10. Aside(s)
  BY DEF IInv, Types, Loads, Aside, Grew, VmType, books
<1>11. Fits(x, s)
  <2>1. Holds(vm', x.new.extra.plan)
    BY <1>8 DEF IInv, BilledPlanIsThere, Loads
  <2>2. Settled(x)
    BY <1>8 DEF Settled
  <2>3. Verdict(x)
    BY <1>8, <1>9 DEF Verdict
  <2>4. x.op = "traffic" => sLock' = s /\ ~row.extra.fresh /\ x.pc # "write"
    BY <1>8, <1>9 DEF TrafficGuard
  <2>. QED BY <2>1, <2>2, <2>3, <2>4 DEF Fits
<1>. QED BY <1>5, <1>7, <1>10, <1>11, OneMoves

LEMMA BeginKeeps ==
  ASSUME IInv, NEW s \in Sessions, Begin(s)
  PROVE  IInv'
<1>. DEFINE Does(op, pc) ==
       /\ op \in AllOps /\ pc \in {"call", "mark", "write"} /\ Loads(s, op, pc)
       /\ op \in Reads => pc = "call"
       /\ UNCHANGED sLock \/ (sLock = Nobody /\ sLock' = s)
       /\ op = "traffic" => TrafficGuard(row) /\ sLock' = s /\ pc = "mark"
<1>1. ASSUME NEW op, NEW pc, Does(op, pc)
      PROVE  IInv'
  BY <1>1, LoadsKeeps
<1>. DEFINE Plain == {"refresh", "usage", "start", "stop", "unsuspend", "delete", "restore",
                      "chpass", "changeip", "addip", "suspend", "pardon", "freeip", "gift",
                      "remove", "webip", "building", "alltraffic"}
<1>2. ASSUME NEW op \in Plain, Loads(s, op, "call"), UNCHANGED sLock
      PROVE  IInv'
  <2>1. op \in AllOps /\ op # "traffic"
    BY DEF AllOps, Sold, Reads, Power, Staff
  <2>. QED BY <1>1, <1>2, <2>1
<1>3. ASSUME NEW op \in {"restart", "rebuild", "reboot"}, Loads(s, op, "mark"),
             UNCHANGED sLock
      PROVE  IInv'
  <2>1. op \in AllOps /\ op \notin Reads /\ op # "traffic"
    BY DEF AllOps, Sold, Reads, Power, Staff
  <2>. QED BY <1>1, <1>3, <2>1
<1>4. Press(s) => IInv'
  BY <1>2, <1>3 DEF Press, Plainly
<1>5. RebuildDo(s) \/ AdminRebuildDo(s) => IInv'
  BY <1>3 DEF RebuildDo, AdminRebuildDo, Plainly
<1>6. SnapRestoreDo(s) \/ ChangePassword(s) \/ ChangeIp(s) \/ AddIp(s) \/ WebAction(s)
        \/ BuildingTask(s) \/ TrafficTask(s) => IInv'
  BY <1>2 DEF SnapRestoreDo, ChangePassword, ChangeIp, AddIp, WebAction, BuildingTask,
              TrafficTask, Plainly
<1>7. AdminAction(s) => IInv'
  BY <1>2, <1>3 DEF AdminAction, Plainly
<1>8. MuteHourly(s) => IInv'
  <2>1. "mute" \in AllOps /\ "mute" \notin Reads
    BY DEF AllOps, Reads
  <2>. QED BY <1>1, <2>1 DEF MuteHourly, Plainly
<1>9. HourlyCharge(s) => IInv'
  <2>1. "hourly" \in AllOps /\ "hourly" \notin Reads
    BY DEF AllOps, Reads
  <2>. QED BY <1>1, <2>1 DEF HourlyCharge, ForUpdate
<1>10. BuyTraffic(s) => IInv'
  <2>1. "traffic" \in AllOps /\ "traffic" \notin Reads
    BY DEF AllOps, Sold, Reads
  <2>. QED BY <1>1, <2>1 DEF BuyTraffic, ForUpdate
<1>11. Upgrade(s) => IInv'
  <2>1. "upgrade" \in AllOps
    BY DEF AllOps, Sold
  <2>. QED BY <1>1, <2>1 DEF Upgrade, ForUpdate
<1>. QED BY <1>4, <1>5, <1>6, <1>7, <1>8, <1>9, <1>10, <1>11 DEF Begin

-----------------------------------------------------------------------------
(* What a step owes that takes a session on to pc with the object r: its   *)
(* plan fits, the limit is for traffic only, a suspension that was seen is *)
(* kept, and who has paid is served or on his way.                         *)
Owes(s, pc, r, did, paid) ==
    /\ sess[s].pc # "write" /\ pc \in Places \ {"pay"} /\ r \in RowType
    /\ Holds(vm', r.extra.plan)
    /\ pc = "limit" => sess[s].op = "traffic"
    /\ sess[s].op \in Reads /\ sess[s].new.status = "SUSPENDED" => r.status = "SUSPENDED"
    /\ paid => sess[s].op = "hourly" \/ did \/ pc \in {"mark", "call", "refund"}

LEMMA OwesFits ==
  ASSUME IInv, NEW s \in Sessions, NEW pc, NEW r, NEW y \in SessType, Aside(s),
         Owes(s, pc, r, y.did, y.paid),
         y.pc = pc, y.op = sess[s].op, y.saw => sess[s].saw,
         y.new = IF pc = "write" THEN Kept(r, y.cols) ELSE r
  PROVE  Fits(y, s)
<1>1. r \in RowType /\ Holds(vm', r.extra.plan)
  BY DEF Owes
<1>2. /\ Kept(r, y.cols) \in RowType /\ Kept(r, y.cols).extra.plan <= r.extra.plan
      /\ Kept(r, y.cols).extra.fresh => "extra" \in y.cols
      /\ "status" \in y.cols => Kept(r, y.cols).status = r.status
  BY <1>1, KeptRow
<1>3. Holds(vm', y.new.extra.plan)
  <2>1. r.extra.plan \in Nat /\ Kept(r, y.cols).extra.plan \in Nat
    BY <1>1, <1>2 DEF RowType, ExtraType
  <2>2. vm' \in VmType /\ Grew(vm', vm')
    BY DEF Aside, Grew, VmType
  <2>3. Holds(vm', Kept(r, y.cols).extra.plan)
    BY <1>1, <1>2, <2>1, <2>2, HoldsMore
  <2>. QED BY <1>1, <2>3
<1>4. Settled(y)
  BY DEF Settled, Owes
<1>5. Verdict(y)
  <2>1. Verdict(sess[s])
    BY DEF IInv, Local
  <2>2. y.op \in Reads /\ y.saw => r.status = "SUSPENDED"
    BY <2>1 DEF Verdict, Owes
  <2>3. CASE pc = "write"
    BY <1>2, <2>2, <2>3 DEF Verdict
  <2>4. CASE pc # "write"
    BY <2>2, <2>4 DEF Verdict, Owes
  <2>. QED BY <2>3, <2>4
<1>6. y.op = "traffic" => sLock' = s /\ ~row.extra.fresh
  BY DEF IInv, Local, Locked, Aside
<1>7. y.pc = "write" /\ y.new.extra.fresh => "extra" \in y.cols
  BY <1>2
<1>. QED BY <1>3, <1>4, <1>5, <1>6, <1>7 DEF Fits

LEMMA BecomesKeeps ==
  ASSUME IInv, NEW s \in Sessions, NEW pc, NEW r, NEW also \in SUBSET Columns, Aside(s),
         Owes(s, pc, r, sess[s].did, sess[s].paid), sess' = Becomes(s, pc, r, also)
  PROVE  IInv'
<1>1. sess \in [Sessions -> SessType] /\ pc \in Places /\ r \in RowType
  BY DEF IInv, Types, Owes
<1>2. PICK x \in SessType :
           /\ Becomes(s, pc, r, also) = [sess EXCEPT ![s] = x]
           /\ x.pc = pc /\ x.op = sess[s].op
           /\ x.saw = sess[s].saw /\ x.did = sess[s].did /\ x.paid = sess[s].paid
           /\ x.new = IF pc = "write" THEN Kept(r, x.cols) ELSE r
  BY <1>1, BecomesIs
<1>3. Owes(s, pc, r, x.did, x.paid)
  BY <1>2
<1>4. Fits(x, s)
  BY <1>2, <1>3, OwesFits
<1>. QED BY <1>2, <1>4, OneMoves

(* The same when the session learns in that step whether the provider did  *)
(* it, or has got its money back.                                          *)
LEMMA LearnsKeeps ==
  ASSUME IInv, NEW s \in Sessions, NEW pc, NEW r, NEW also \in SUBSET Columns, Aside(s),
         NEW did \in BOOLEAN, Owes(s, pc, r, did, sess[s].paid),
         sess' = [Becomes(s, pc, r, also) EXCEPT ![s].did = did]
  PROVE  IInv'
<1>1. sess \in [Sessions -> SessType] /\ pc \in Places /\ r \in RowType
  BY DEF IInv, Types, Owes
<1>2. PICK x \in SessType :
           /\ Becomes(s, pc, r, also) = [sess EXCEPT ![s] = x]
           /\ x.pc = pc /\ x.op = sess[s].op
           /\ x.saw = sess[s].saw /\ x.did = sess[s].did /\ x.paid = sess[s].paid
           /\ x.new = IF pc = "write" THEN Kept(r, x.cols) ELSE r
  BY <1>1, BecomesIs
<1>3. PICK y : y = [x EXCEPT !.did = did]
  OBVIOUS
<1>4. y \in SessType
  BY <1>3 DEF SessType
<1>5. /\ y.pc = x.pc /\ y.op = x.op /\ y.saw = x.saw /\ y.did = did /\ y.paid = x.paid
      /\ y.new = x.new /\ y.cols = x.cols
  BY <1>3 DEF SessType
<1>6. sess' = [sess EXCEPT ![s] = y]
  BY <1>1, <1>2, <1>3
<1>7. Owes(s, pc, r, y.did, y.paid)
  BY <1>2, <1>5
<1>8. y.pc = pc /\ y.op = sess[s].op /\ (y.saw => sess[s].saw)
  BY <1>2, <1>5
<1>9. y.new = IF pc = "write" THEN Kept(r, y.cols) ELSE r
  BY <1>2, <1>5
<1>10. Fits(y, s)
  BY <1>4, <1>7, <1>8, <1>9, OwesFits
<1>. QED BY <1>4, <1>6, <1>10, OneMoves

LEMMA RefundedKeeps ==
  ASSUME IInv, NEW s \in Sessions, Aside(s), sess[s].pc = "refund",
         sess' = [Becomes(s, "write", sess[s].new, {})
                    EXCEPT ![s].paid = FALSE, ![s].did = FALSE]
  PROVE  IInv'
<1>1. sess \in [Sessions -> SessType] /\ sess[s].new \in RowType /\ "write" \in Places
  BY DEF IInv, Types, Places, SessType
<1>2. PICK r \in RowType : r = sess[s].new
  BY <1>1
<1>a. PICK also \in SUBSET Columns : also = {}
  OBVIOUS
<1>b. PICK pc \in Places : pc = "write"
  BY <1>1
<1>3. PICK x \in SessType :
           /\ Becomes(s, pc, r, also) = [sess EXCEPT ![s] = x]
           /\ x.pc = pc /\ x.op = sess[s].op
           /\ x.saw = sess[s].saw /\ x.did = sess[s].did /\ x.paid = sess[s].paid
           /\ x.new = IF pc = "write" THEN Kept(r, x.cols) ELSE r
  BY <1>1, BecomesIs
<1>4. PICK y : y = [x EXCEPT !.paid = FALSE, !.did = FALSE]
  OBVIOUS
<1>5. y \in SessType
  BY <1>4 DEF SessType
<1>6. /\ y.pc = x.pc /\ y.op = x.op /\ y.saw = x.saw /\ ~y.did /\ ~y.paid
      /\ y.new = x.new /\ y.cols = x.cols
  BY <1>4 DEF SessType
<1>7. sess' = [sess EXCEPT ![s] = y]
  BY <1>1, <1>2, <1>3, <1>4, <1>a, <1>b
<1>8. Owes(s, pc, r, y.did, y.paid)
  <2>1. Holds(vm', r.extra.plan)
    <3>1. /\ Sized(sess[s]) /\ r.extra.plan \in Nat /\ r.extra.plan <= r.extra.plan
          /\ vm \in VmType /\ vm' \in VmType /\ Grew(vm, vm')
      BY <1>2 DEF IInv, Types, Local, Aside, RowType, ExtraType
    <3>. QED BY <1>2, <3>1, HoldsMore DEF Sized
  <2>2. pc # "pay" /\ pc # "limit"
    BY <1>b
  <2>. QED BY <1>2, <1>6, <2>1, <2>2 DEF Owes
<1>9. y.pc = pc /\ y.op = sess[s].op /\ (y.saw => sess[s].saw)
  BY <1>3, <1>6
<1>10. y.new = IF pc = "write" THEN Kept(r, y.cols) ELSE r
  BY <1>3, <1>6
<1>11. Fits(y, s)
  BY <1>5, <1>8, <1>9, <1>10, OwesFits
<1>. QED BY <1>5, <1>7, <1>11, OneMoves

(* A plan that fitted before fits a machine that has not shrunk.           *)
LEMMA StillSized ==
  ASSUME IInv, NEW s \in Sessions, Aside(s)
  PROVE  /\ sess[s].new \in RowType /\ Holds(vm', sess[s].new.extra.plan)
         /\ sess[s].did \in BOOLEAN /\ sess[s].paid \in BOOLEAN
<1>1. sess[s] \in SessType /\ Sized(sess[s]) /\ vm \in VmType /\ vm' \in VmType
  BY DEF IInv, Types, Local, Aside
<1>2. sess[s].new \in RowType /\ sess[s].did \in BOOLEAN /\ sess[s].paid \in BOOLEAN
  BY <1>1 DEF SessType
<1>3. sess[s].new.extra.plan \in Nat /\ sess[s].new.extra.plan <= sess[s].new.extra.plan
  BY <1>2 DEF RowType, ExtraType
<1>4. Holds(vm', sess[s].new.extra.plan)
  BY <1>1, <1>3, HoldsMore DEF Sized, Aside
<1>. QED BY <1>2, <1>4

-----------------------------------------------------------------------------
(* One lemma for each step of a session.                                   *)
LEMMA PayKeeps ==
  ASSUME IInv, NEW s \in Sessions, Pay(s)
  PROVE  IInv'
<1>1. Aside(s)
  <2>1. balance' \in Int
    BY DEF IInv, Types, Pay
  <2>. QED BY <2>1 DEF IInv, Types, Pay, Aside, Grew, VmType, books
<1>2. sess[s] \in SessType /\ sess[s].pc = "pay" /\ Local(s)
  BY DEF IInv, Types, Pay
<1>3. CASE balance >= 1
  <2>1. PICK x : x = [sess[s] EXCEPT !.pc = Onward(sess[s].op), !.paid = TRUE]
    OBVIOUS
  <2>2. sess' = [sess EXCEPT ![s] = x]
    BY <1>3, <2>1 DEF Pay
  <2>3. Onward(sess[s].op) \in Places \ {"pay", "limit"}
    BY DEF Onward, Places
  <2>4. x \in SessType
    BY <1>2, <2>1, <2>3 DEF SessType
  <2>5. /\ x.pc = Onward(sess[s].op) /\ x.op = sess[s].op /\ x.saw = sess[s].saw
        /\ x.new = sess[s].new /\ x.paid /\ x.cols = sess[s].cols
    BY <1>2, <2>1 DEF SessType
  <2>6. /\ x.op = "traffic" => x.pc = "mark"
        /\ x.op = "hourly" \/ x.pc \in {"mark", "call"}
    BY <2>5 DEF Onward
  <2>7. Settled(x)
    BY <2>3, <2>5, <2>6 DEF Settled
  <2>8. Verdict(x)
    BY <1>2, <2>3, <2>5 DEF Verdict, Local
  <2>9. Fits(x, s)
    BY <1>1, <1>2, <2>5, <2>6, <2>7, <2>8, StillSized DEF Fits, Local, Locked, Aside
  <2>. QED BY <1>1, <2>2, <2>4, <2>9, OneMoves
<1>4. CASE ~(balance >= 1)
  <2>1. PICK r : r = IF sess[s].op = "hourly" THEN Suspended(sess[s].new, "LOW")
                                              ELSE sess[s].new
    OBVIOUS
  <2>2. sess' = Becomes(s, "write", r, {})
    BY <1>4, <2>1 DEF Pay
  <2>3. sess[s].new \in RowType /\ Holds(vm', sess[s].new.extra.plan)
    BY <1>1, StillSized
  <2>4. "LOW" \in Reasons
    BY DEF Reasons
  <2>5. /\ Suspended(sess[s].new, "LOW") \in RowType
        /\ Suspended(sess[s].new, "LOW").status = "SUSPENDED"
        /\ Suspended(sess[s].new, "LOW").extra = sess[s].new.extra
    BY <2>3, <2>4, SuspendedRow
  <2>6. /\ r \in RowType /\ Holds(vm', r.extra.plan)
        /\ sess[s].new.status = "SUSPENDED" => r.status = "SUSPENDED"
    BY <2>1, <2>3, <2>5
  <2>7. ~sess[s].paid
    BY <1>2 DEF Local, Settled
  <2>8. Owes(s, "write", r, sess[s].did, sess[s].paid)
    BY <1>2, <2>6, <2>7 DEF Owes, Places
  <2>. QED BY <1>1, <2>2, <2>8, BecomesKeeps
<1>. QED BY <1>3, <1>4

LEMMA MarkKeeps ==
  ASSUME IInv, NEW s \in Sessions, Mark(s)
  PROVE  IInv'
<1>1. Aside(s)
  BY DEF IInv, Types, Mark, MayWrite, Aside, Grew, VmType, books
<1>2. sess[s].pc = "mark"
  BY DEF Mark
<1>3. sess[s].new \in RowType /\ Holds(vm', sess[s].new.extra.plan)
  BY <1>1, StillSized
<1>4. PICK r : r = Marked(sess[s].op, sess[s].new)
  OBVIOUS
<1>5. /\ r \in RowType /\ r.extra.plan = sess[s].new.extra.plan
      /\ sess[s].op \in Reads => r = sess[s].new
  BY <1>3, <1>4, MarkedRow
<1>6. Owes(s, "call", r, sess[s].did, sess[s].paid)
  BY <1>2, <1>3, <1>5 DEF Owes, Places
<1>7. sess' = Becomes(s, "call", r, {})
  BY <1>4 DEF Mark
<1>. QED BY <1>1, <1>6, <1>7, BecomesKeeps

(* Steps that write next and change at most the status on the way.         *)
LEMMA WriteNextKeeps ==
  ASSUME IInv, NEW s \in Sessions, sess[s].pc \in {"limit", "render", "cutoff"}, Aside(s),
         NEW r \in RowType, r.extra = sess[s].new.extra,
         sess[s].op \in Reads /\ sess[s].new.status = "SUSPENDED" => r.status = "SUSPENDED",
         NEW also \in SUBSET Columns, sess' = Becomes(s, "write", r, also)
  PROVE  IInv'
<1>1. Settled(sess[s])
  BY DEF IInv, Local
<1>2. Holds(vm', sess[s].new.extra.plan)
  BY StillSized
<1>3. Owes(s, "write", r, sess[s].did, sess[s].paid)
  BY <1>1, <1>2 DEF Owes, Places, Settled
<1>. QED BY <1>3, BecomesKeeps

LEMMA RestoreKeeps ==
  ASSUME IInv, NEW s \in Sessions, Restore(s)
  PROVE  IInv'
<1>1. Aside(s)
  BY DEF IInv, Types, Restore, Aside, Grew, VmType, books, locks
<1>2. sess[s].pc = "limit" /\ sess[s].op \notin Reads
  BY DEF IInv, Local, Verdict, Restore, Reads
<1>3. sess[s].new \in RowType
  BY <1>1, StillSized
<1>4. CASE sess' = Becomes(s, "write", Unsuspended(sess[s].new), {})
  <2>1. Unsuspended(sess[s].new) \in RowType
        /\ Unsuspended(sess[s].new).extra = sess[s].new.extra
    BY <1>3, UnsuspendedRow
  <2>. QED BY <1>1, <1>2, <1>4, <2>1, WriteNextKeeps
<1>5. CASE sess' = Becomes(s, "write", sess[s].new, {})
  BY <1>1, <1>2, <1>3, <1>5, WriteNextKeeps
<1>. QED BY <1>4, <1>5 DEF Restore

LEMMA RenderKeeps ==
  ASSUME IInv, NEW s \in Sessions, Render(s)
  PROVE  IInv'
<1>1. Aside(s)
  BY DEF IInv, Types, Render, Aside, Grew, VmType, books, locks
<1>2. sess[s].pc = "render"
  BY DEF Render
<1>3. sess[s].new \in RowType
  BY <1>1, StillSized
<1>4. PICK d \in RowType : d = sess[s].new
  BY <1>3
<1>5. PICK r : r = [d EXCEPT !.status = SyncStatus(d)]
  OBVIOUS
<1>6. /\ r \in RowType /\ r.extra = sess[s].new.extra
      /\ sess[s].new.status = "SUSPENDED" => r.status = "SUSPENDED"
  BY <1>4, <1>5, SyncedRow
<1>7. CASE sess' = Becomes(s, "write",
                           [sess[s].new EXCEPT !.status = SyncStatus(sess[s].new)], {"extra"})
  <2>1. sess' = Becomes(s, "write", r, {"extra"}) /\ {"extra"} \in SUBSET Columns
    BY <1>4, <1>5, <1>7 DEF Columns
  <2>. QED BY <1>1, <1>2, <1>6, <2>1, WriteNextKeeps
<1>8. CASE sess' = Becomes(s, "write", sess[s].new, {})
  BY <1>1, <1>2, <1>3, <1>8, WriteNextKeeps
<1>. QED BY <1>7, <1>8 DEF Render

LEMMA CutOffKeeps ==
  ASSUME IInv, NEW s \in Sessions, CutOff(s) \/ CutOffRefused(s)
  PROVE  IInv'
<1>1. Aside(s)
  <2>1. vm \in VmType /\ balance \in Int
    BY DEF IInv, Types
  <2>2. vm' \in VmType /\ vm'.plan = vm.plan /\ vm'.disk = vm.disk /\ vm'.short = vm.short
    BY <2>1 DEF CutOff, CutOffRefused, VmType
  <2>3. Grew(vm, vm')
    BY <2>1, <2>2, GrewAtLeast
  <2>. QED BY <2>1, <2>2, <2>3 DEF CutOff, CutOffRefused, MayWrite, Aside, books
<1>2. sess[s].new \in RowType
  BY <1>1, StillSized
<1>3. sess[s].pc = "cutoff" /\ sess' = Becomes(s, "write", sess[s].new, {})
  BY DEF CutOff, CutOffRefused
<1>. QED BY <1>1, <1>2, <1>3, WriteNextKeeps

LEMMA RefundKeeps ==
  ASSUME IInv, NEW s \in Sessions, Refund(s)
  PROVE  IInv'
<1>1. Aside(s)
  BY DEF IInv, Types, Refund, Aside, Grew, VmType, books, locks
<1>. QED BY <1>1, RefundedKeeps DEF Refund

(* What the provider does for any other operation leaves the machine its   *)
(* size.                                                                   *)
SameSize(v, w) == v.plan = w.plan /\ v.disk = w.disk /\ (v.short <=> w.short)

LEMMA EffectFits ==
  ASSUME vm \in VmType, NEW op
  PROVE  Effect(op) \in VmType /\ SameSize(vm, Effect(op))
<1>1. CASE op \in {"start", "restart", "reboot", "unsuspend", "pardon"}
  <2>1. Effect(op) = [vm EXCEPT !.state = "on"]
    BY <1>1 DEF Effect, PoweredOn
  <2>. QED BY <1>1, <2>1 DEF VmType, SameSize
<1>2. CASE op = "stop"
  <2>1. Effect(op) = [vm EXCEPT !.state = "off"]
    BY <1>2 DEF Effect, PoweredOff
  <2>. QED BY <1>2, <2>1 DEF VmType, SameSize
<1>3. CASE op \in {"rebuild", "restore"}
  <2>1. Effect(op) = [vm EXCEPT !.state = "building"]
    BY <1>3 DEF Effect, Reinstalled
  <2>. QED BY <1>3, <2>1 DEF VmType, SameSize
<1>4. CASE op = "suspend"
  <2>1. Effect(op) = [vm EXCEPT !.state = "suspended"]
    BY <1>4 DEF Effect, Halted
  <2>. QED BY <1>4, <2>1 DEF VmType, SameSize
<1>5. CASE op \in {"delete", "remove"}
  <2>1. Effect(op) = [vm EXCEPT !.state = "gone"]
    BY <1>5 DEF Effect, Destroyed
  <2>. QED BY <1>5, <2>1 DEF VmType, SameSize
<1>6. CASE op = "traffic"
  <2>1. PICK b \in BOOLEAN : b = FALSE
    OBVIOUS
  <2>2. Effect(op) = [vm EXCEPT !.over = b]
    BY <1>6, <2>1 DEF Effect, MoreTraffic
  <2>3. [vm EXCEPT !.over = b] \in VmType /\ SameSize(vm, [vm EXCEPT !.over = b])
    BY DEF VmType, SameSize
  <2>. QED BY <2>2, <2>3
<1>7. CASE op \notin {"start", "restart", "reboot", "unsuspend", "pardon", "stop", "rebuild",
                      "restore", "suspend", "delete", "remove", "traffic"}
  <2>1. Effect(op) = vm
    BY <1>7 DEF Effect
  <2>. QED BY <2>1 DEF SameSize
<1>. QED BY <1>1, <1>2, <1>3, <1>4, <1>5, <1>6, <1>7

(* An upgrade that is accepted holds what it promises.                     *)
LEMMA EnlargeFits ==
  ASSUME vm \in VmType, NEW n \in Nat, NEW said \in BOOLEAN, NEW did \in BOOLEAN,
         Enlarge(n, said, did)
  PROVE  vm' \in VmType /\ Grew(vm, vm') /\ (said => did /\ Holds(vm', n))
<1>1. PICK disk \in BOOLEAN :
        vm' = [vm EXCEPT !.plan = IF did /\ @ < n THEN n ELSE @,
                         !.disk = IF disk /\ @ < n THEN n ELSE @,
                         !.short = @ \/ (said /\ ~disk /\ vm.disk < n)]
  BY DEF Enlarge
<1>2. vm.plan \in Nat /\ vm.disk \in Nat /\ vm.short \in BOOLEAN
  BY DEF VmType
<1>3. PICK p \in Nat : p = IF did /\ vm.plan < n THEN n ELSE vm.plan
  BY <1>2
<1>4. PICK d \in Nat : d = IF disk /\ vm.disk < n THEN n ELSE vm.disk
  BY <1>2
<1>5. PICK h \in BOOLEAN : h = (vm.short \/ (said /\ ~disk /\ vm.disk < n))
  BY <1>2
<1>6. vm' = [vm EXCEPT !.plan = p, !.disk = d, !.short = h]
  BY <1>1, <1>3, <1>4, <1>5
<1>7. vm' \in VmType /\ vm'.plan = p /\ vm'.disk = d /\ vm'.short = h
  BY <1>6 DEF VmType
<1>8. h <=> vm.short \/ (said /\ ~disk /\ vm.disk < n)
  BY <1>5
<1>9. Grew(vm, vm')
  BY <1>2, <1>3, <1>4, <1>7, <1>8 DEF Grew
<1>10. said => did
  BY DEF Enlarge
<1>11. said => n <= p
  BY <1>2, <1>3, <1>10
<1>12. said => n <= d \/ h
  BY <1>2, <1>4, <1>8
<1>. QED BY <1>7, <1>9, <1>10, <1>11, <1>12 DEF Holds

(* The provider never says yes without having done it.                     *)
LEMMA AskFits ==
  ASSUME vm \in VmType, NEW s \in Sessions, sess[s].new.extra.plan \in Nat,
         NEW said \in BOOLEAN, NEW did \in BOOLEAN, Ask(s, said, did)
  PROVE  /\ vm' \in VmType /\ Grew(vm, vm')
         /\ said /\ sess[s].op = "upgrade" => Holds(vm', sess[s].new.extra.plan + 1)
         /\ said => did
<1>1. CASE sess[s].op = "upgrade"
  <2>1. PICK n \in Nat : n = sess[s].new.extra.plan + 1
    OBVIOUS
  <2>2. Enlarge(n, said, did)
    BY <1>1, <2>1 DEF Ask
  <2>. QED BY <2>1, <2>2, EnlargeFits
<1>2. CASE sess[s].op # "upgrade"
  <2>1. PICK op : op = sess[s].op
    OBVIOUS
  <2>2. Perform(op, said, did)
    BY <1>2, <2>1 DEF Ask
  <2>3. vm' \in VmType /\ SameSize(vm, vm') /\ (said => did)
    BY <2>2, EffectFits DEF Perform, SameSize
  <2>. QED BY <1>2, <2>3, GrewAtLeast DEF SameSize
<1>. QED BY <1>1, <1>2

(* Where to the handler goes then.                                         *)
LEMMA NextPcFits ==
  ASSUME NEW s \in Sessions, NEW r, NEW said \in BOOLEAN
  PROVE  /\ NextPc(s, r, said) \in Places \ {"pay"}
         /\ NextPc(s, r, said) = "limit" => sess[s].op = "traffic"
         /\ ~said /\ sess[s].paid => NextPc(s, r, said) = "refund"
BY DEF NextPc, Places

LEMMA AnswerKeeps ==
  ASSUME IInv, NEW s \in Sessions, NEW said \in BOOLEAN, NEW did \in BOOLEAN,
         Answer(s, said, did)
  PROVE  IInv'
<1>. DEFINE op == sess[s].op
<1>1. vm \in VmType /\ sess[s] \in SessType /\ balance \in Int
  BY DEF IInv, Types
<1>2. /\ vm' \in VmType /\ Grew(vm, vm')
      /\ said /\ op = "upgrade" => Holds(vm', sess[s].new.extra.plan + 1)
      /\ said => did
  <2>1. Ask(s, said, did)
    BY DEF Answer
  <2>2. sess[s].new.extra.plan \in Nat
    BY <1>1 DEF SessType, RowType, ExtraType
  <2>. QED BY <1>1, <2>1, <2>2, AskFits
<1>3. Aside(s)
  BY <1>1, <1>2 DEF Answer, Aside, books, locks
<1>4. PICK r : r = NewRow(s, said)
  OBVIOUS
<1>5. sess[s].new \in RowType /\ Holds(vm', sess[s].new.extra.plan)
  BY <1>3, StillSized
<1>6. /\ r \in RowType
      /\ ~(said /\ op = "upgrade") => r.extra.plan = sess[s].new.extra.plan
      /\ said /\ op = "upgrade" => r.extra.plan = sess[s].new.extra.plan + 1
      /\ op \in Reads /\ sess[s].new.status = "SUSPENDED" => r.status = "SUSPENDED"
  BY <1>4, <1>5, NewRowRow
<1>7. Holds(vm', r.extra.plan)
  BY <1>2, <1>5, <1>6
<1>8. PICK pc : pc = NextPc(s, r, said)
  OBVIOUS
<1>9. /\ pc \in Places \ {"pay"} /\ (pc = "limit" => op = "traffic")
      /\ ~said /\ sess[s].paid => pc = "refund"
  BY <1>8, NextPcFits
<1>10. PICK also : also = IF said THEN Touches(op) ELSE {}
  OBVIOUS
<1>11. also \in SUBSET Columns
  BY <1>10 DEF Touches, Columns
<1>12. PICK b \in BOOLEAN : b = (did /\ sess[s].paid)
  OBVIOUS
<1>13. sess' = [Becomes(s, pc, r, also) EXCEPT ![s].did = b]
  BY <1>4, <1>8, <1>10, <1>12 DEF Answer
<1>14. sess[s].paid => b \/ pc = "refund"
  BY <1>2, <1>9, <1>12
<1>15. sess[s].pc # "write"
  BY DEF Answer
<1>16. Owes(s, pc, r, b, sess[s].paid)
  BY <1>6, <1>7, <1>9, <1>14, <1>15 DEF Owes
<1>. QED BY <1>3, <1>11, <1>13, <1>16, LearnsKeeps

-----------------------------------------------------------------------------
LEMMA IdleFits ==
  /\ Idle \in SessType /\ Idle.op = "none" /\ Idle.new = Blank /\ ~Idle.paid
  /\ Idle.pc = "idle" /\ ~Idle.saw
<1>1. Idle \in SessType
  BY BlankRow DEF Idle, SessType, Places, Columns
<1>. QED BY <1>1 DEF Idle

(* The end of a session frees its locks and nobody else's.                 *)
LEMMA FreedFits ==
  ASSUME sLock \in Sessions \cup {Nobody}, NEW s \in Sessions, Freed(s)
  PROVE  /\ sLock' \in Sessions \cup {Nobody}
         /\ \A t \in Sessions \ {s} : sLock = t => sLock' = t
BY DEF Freed

(* A session that ends leaves the others what they hold, whatever it has   *)
(* written to the row, as long as no stamp appears under a buyer's lock.   *)
LEMMA EndsKeeps ==
  ASSUME IInv, NEW s \in Sessions, sess' = [sess EXCEPT ![s] = Idle], Freed(s),
         UNCHANGED <<vm, terms>>, balance' \in Int, recent' \in BOOLEAN, clobbered' \in BOOLEAN,
         row' \in RowType, Holds(vm, row'.extra.plan), Stamped',
         \A t \in Sessions \ {s} : sess[t].op = "traffic" => row' = row
  PROVE  IInv'
<1>1. Types'
  BY IdleFits, FreedFits DEF IInv, Types
<1>2. BilledPlanIsThere'
  BY DEF BilledPlanIsThere
<1>3. ASSUME NEW t \in Sessions
      PROVE  Local(t)'
  <2>1. CASE t = s
    <3>1. sess'[t] = Idle
      BY <2>1 DEF IInv, Types
    <3>2. Sized(sess[t])'
      BY <3>1, IdleFits, BlankRow DEF IInv, Types, VmType, Sized, Holds
    <3>3. Settled(sess[t])' /\ Verdict(sess[t])'
      BY <3>1, IdleFits DEF Settled, Verdict
    <3>4. Locked(t)'
      BY <3>1, IdleFits DEF Locked
    <3>. QED BY <3>2, <3>3, <3>4 DEF Local
  <2>2. CASE t # s
    <3>1. sess'[t] = sess[t]
      BY <2>2 DEF IInv, Types
    <3>2. Local(t)
      BY DEF IInv
    <3>3. Sized(sess[t])' /\ Settled(sess[t])' /\ Verdict(sess[t])'
      BY <3>1, <3>2 DEF Local, Sized, Settled, Verdict
    <3>4. Locked(t)'
      <4>1. sess[t].op = "traffic" => sLock' = t /\ row' = row
        BY <2>2, <3>2, FreedFits DEF IInv, Types, Local, Locked
      <4>. QED BY <3>1, <3>2, <4>1 DEF Local, Locked
    <3>. QED BY <3>3, <3>4 DEF Local
  <2>. QED BY <2>1, <2>2
<1>. QED BY <1>1, <1>2, <1>3 DEF IInv

LEMMA UndoneKeeps ==
  ASSUME IInv, NEW s \in Sessions, Undone(s)
  PROVE  IInv'
<1>1. balance' \in Int
  BY DEF IInv, Types, Undone
<1>2. row' \in RowType /\ Holds(vm, row'.extra.plan)
  BY DEF IInv, Types, BilledPlanIsThere, Undone
<1>3. Stamped'
  BY DEF IInv, Stamped, Undone
<1>. QED BY <1>1, <1>2, <1>3, EndsKeeps DEF IInv, Types, Undone

(* The UPDATE writes the columns that were changed: the plan is the        *)
(* session's or the row's, and who changes nothing leaves the row.         *)
LEMMA MergedRow ==
  ASSUME IInv, NEW s \in Sessions
  PROVE  /\ Merged(s) \in RowType /\ Holds(vm, Merged(s).extra.plan)
         /\ sess[s].cols = {} => Merged(s) = row
         /\ "status" \in sess[s].cols => Merged(s).status = sess[s].new.status
         /\ "status" \notin sess[s].cols => Merged(s).status = row.status
         /\ "extra" \in sess[s].cols => Merged(s).extra = sess[s].new.extra
<1>1. row \in RowType /\ sess[s] \in SessType /\ Sized(sess[s])
  BY DEF IInv, Types, Local
<1>2. sess[s].new \in RowType
  BY <1>1 DEF SessType
<1>3. PICK r \in RowType : r = sess[s].new
  BY <1>2
<1>4. PICK c : c = sess[s].cols
  OBVIOUS
<1>5. PICK d \in RowType : d = row
  BY <1>1
<1>6. /\ Written(r, c, d) \in RowType
      /\ "status" \in c => Written(r, c, d).status = r.status
      /\ "extra" \in c => Written(r, c, d).extra = r.extra
      /\ "status" \notin c => Written(r, c, d).status = d.status
      /\ "extra" \notin c => Written(r, c, d).extra = d.extra
  BY WrittenRow
<1>7. Merged(s) = Written(r, c, d)
  BY <1>3, <1>4, <1>5 DEF Merged
<1>8. c = {} => Written(r, c, d) = d
  <2>1. c = {} => Written(r, c, d) = [status |-> d.status, reason |-> d.reason,
                                      extra |-> d.extra]
    BY DEF Written
  <2>2. d = [status |-> d.status, reason |-> d.reason, extra |-> d.extra]
    BY DEF RowType
  <2>. QED BY <2>1, <2>2
<1>9. Holds(vm, Written(r, c, d).extra.plan)
  BY <1>1, <1>3, <1>5, <1>6 DEF Sized, IInv, BilledPlanIsThere
<1>. QED BY <1>3, <1>4, <1>5, <1>6, <1>7, <1>8, <1>9

LEMMA CommitKeeps ==
  ASSUME IInv, NEW s \in Sessions, Commit(s)
  PROVE  IInv'
<1>1. /\ Merged(s) \in RowType /\ Holds(vm, Merged(s).extra.plan)
      /\ sess[s].cols = {} => Merged(s) = row
      /\ "extra" \in sess[s].cols => Merged(s).extra = sess[s].new.extra
  BY MergedRow
<1>2. row' = Merged(s) /\ sess[s].pc = "write"
  BY DEF Commit
<1>3. balance' \in Int
  BY DEF IInv, Types, Commit
<1>4. /\ recent' = (recent \/ (Bought(s) /\ sess[s].new.extra.fresh))
      /\ clobbered' = (clobbered \/ (/\ sess[s].op # "traffic" /\ row.extra.fresh
                                     /\ ~Merged(s).extra.fresh))
  BY DEF Commit
<1>5. recent' \in BOOLEAN /\ clobbered' \in BOOLEAN
  BY <1>4
<1>6. Stamped'
  <2>1. CASE sess[s].op = "traffic" /\ sess[s].new.extra.fresh
    <3>1. "extra" \in sess[s].cols
      BY <1>2, <2>1 DEF IInv, Local, Locked
    <3>2. row'.extra.fresh
      BY <1>1, <1>2, <2>1, <3>1
    <3>. QED BY <3>2 DEF Stamped
  <2>2. CASE sess[s].op = "traffic" /\ ~sess[s].new.extra.fresh
    <3>1. recent' => recent
      BY <1>4, <2>2
    <3>2. recent => clobbered
      BY <2>2 DEF IInv, Local, Locked, Stamped
    <3>3. clobbered => clobbered'
      BY <1>4
    <3>. QED BY <3>1, <3>2, <3>3 DEF Stamped
  <2>3. CASE sess[s].op # "traffic"
    <3>1. recent' => recent
      BY <1>4, <2>3 DEF Bought
    <3>2. recent => clobbered \/ row.extra.fresh
      BY DEF IInv, Stamped
    <3>3. clobbered => clobbered'
      BY <1>4
    <3>4. row.extra.fresh => clobbered' \/ row'.extra.fresh
      BY <1>2, <1>4, <2>3
    <3>. QED BY <3>1, <3>2, <3>3, <3>4 DEF Stamped
  <2>. QED BY <2>1, <2>2, <2>3
<1>7. ASSUME NEW t \in Sessions \ {s}, sess[t].op = "traffic"
      PROVE  row' = row
  <2>1. sLock = t
    BY <1>7 DEF IInv, Local, Locked
  <2>2. ~MayWrite(s)
    BY <1>7, <2>1, NobodyIsNoSession DEF MayWrite
  <2>3. sess[s].cols = {}
    BY <2>2 DEF Commit
  <2>. QED BY <1>1, <1>2, <2>3
<1>8. sess' = [sess EXCEPT ![s] = Idle] /\ Freed(s) /\ UNCHANGED <<vm, terms>>
  BY DEF Commit
<1>. QED BY <1>1, <1>2, <1>3, <1>5, <1>6, <1>7, <1>8, EndsKeeps

-----------------------------------------------------------------------------
(* The surroundings.                                                       *)
LEMMA MachineKeeps ==
  ASSUME IInv, MachineUp \/ UseTraffic
  PROVE  IInv'
<1>0. vm \in VmType
  BY DEF IInv, Types
<1>a. vm' \in VmType /\ SameSize(vm, vm')
  <2>1. CASE MachineUp
    BY <1>0, <2>1 DEF MachineUp, VmType, SameSize
  <2>2. CASE UseTraffic
    <3>1. PICK b \in BOOLEAN : b = TRUE
      OBVIOUS
    <3>2. vm' = [vm EXCEPT !.over = b]
      BY <2>2, <3>1 DEF UseTraffic
    <3>3. vm \in VmType
      BY DEF IInv, Types
    <3>4. [vm EXCEPT !.over = b] \in VmType
      BY <3>3 DEF VmType
    <3>5. SameSize(vm, [vm EXCEPT !.over = b])
      BY <3>3 DEF VmType, SameSize
    <3>. QED BY <3>2, <3>4, <3>5
  <2>. QED BY <2>1, <2>2
<1>1. vm' \in VmType /\ \A n : Holds(vm, n) => Holds(vm', n)
  BY <1>0, <1>a, GrewAtLeast DEF SameSize
<1>2. UNCHANGED <<row, balance, sess, sLock, terms, recent, clobbered>>
  BY DEF MachineUp, UseTraffic, locks, books
<1>3. Types' /\ BilledPlanIsThere' /\ Stamped'
  BY <1>1, <1>2 DEF IInv, Types, BilledPlanIsThere, Stamped
<1>4. ASSUME NEW t \in Sessions
      PROVE  Local(t)'
  <2>1. Local(t) /\ sess'[t] = sess[t]
    BY <1>2 DEF IInv
  <2>. QED BY <1>1, <1>2, <2>1 DEF Local, Sized, Settled, Verdict, Locked
<1>. QED BY <1>3, <1>4 DEF IInv

LEMMA AgedRow ==
  ASSUME NEW r \in RowType
  PROVE  /\ Aged(r) \in RowType /\ Aged(r).status = r.status
         /\ Aged(r).extra.plan = r.extra.plan /\ ~Aged(r).extra.fresh
<1>1. PICK b \in BOOLEAN : b = FALSE
  OBVIOUS
<1>2. Aged(r) = [r EXCEPT !.extra.fresh = b]
  BY <1>1 DEF Aged
<1>3. /\ [r EXCEPT !.extra.fresh = b] \in RowType
      /\ [r EXCEPT !.extra.fresh = b].status = r.status
      /\ [r EXCEPT !.extra.fresh = b].extra.plan = r.extra.plan
  BY StampedRow
<1>4. ~[r EXCEPT !.extra.fresh = FALSE].extra.fresh
  BY DEF RowType, ExtraType
<1>. QED BY <1>2, <1>3, <1>4 DEF Aged

(* After ninety seconds a stamp counts nowhere any more.                   *)
LEMMA NinetyKeeps ==
  ASSUME IInv, Ninety
  PROVE  IInv'
<1>1. row \in RowType /\ row' = Aged(row)
  BY DEF IInv, Types, Ninety
<1>2. row' \in RowType /\ row'.extra.plan = row.extra.plan /\ ~row'.extra.fresh
  BY <1>1, AgedRow
<1>3. UNCHANGED <<vm, balance, sLock, terms>> /\ recent' = FALSE /\ clobbered' = FALSE
  BY DEF Ninety, locks
<1>4. ASSUME NEW t \in Sessions
      PROVE  /\ sess'[t] \in SessType
             /\ sess'[t].pc = sess[t].pc /\ sess'[t].op = sess[t].op
             /\ sess'[t].saw = sess[t].saw /\ sess'[t].did = sess[t].did
             /\ sess'[t].paid = sess[t].paid /\ sess'[t].cols = sess[t].cols
             /\ sess'[t].new = Aged(sess[t].new)
  <2>1. sess[t] \in SessType /\ sess[t].new \in RowType
    BY DEF IInv, Types, SessType
  <2>2. PICK d \in SessType : d = sess[t]
    BY <2>1
  <2>3. PICK r \in RowType : r = Aged(d.new)
    BY <2>1, <2>2, AgedRow
  <2>4. PICK x : x = [d EXCEPT !.new = r]
    OBVIOUS
  <2>5. sess'[t] = x
    BY <2>2, <2>3, <2>4 DEF Ninety
  <2>6. x \in SessType
    BY <2>4 DEF SessType
  <2>7. /\ x.pc = d.pc /\ x.op = d.op /\ x.saw = d.saw /\ x.did = d.did /\ x.paid = d.paid
        /\ x.cols = d.cols /\ x.new = r
    BY <2>4 DEF SessType
  <2>. QED BY <2>2, <2>3, <2>5, <2>6, <2>7
<1>5. Types'
  <2>1. sess' = [t \in Sessions |-> sess'[t]]
    BY DEF Ninety
  <2>. QED BY <1>2, <1>3, <1>4, <2>1 DEF IInv, Types
<1>6. BilledPlanIsThere' /\ Stamped'
  BY <1>2, <1>3 DEF IInv, BilledPlanIsThere, Stamped
<1>7. ASSUME NEW t \in Sessions
      PROVE  Local(t)'
  <2>1. Local(t) /\ sess[t].new \in RowType
    BY DEF IInv, Types, SessType
  <2>2. /\ Aged(sess[t].new).status = sess[t].new.status
        /\ Aged(sess[t].new).extra.plan = sess[t].new.extra.plan
        /\ ~Aged(sess[t].new).extra.fresh
    BY <2>1, AgedRow
  <2>3. Sized(sess[t])'
    BY <1>3, <1>4, <2>1, <2>2 DEF Local, Sized
  <2>4. Settled(sess[t])'
    BY <1>4, <2>1 DEF Local, Settled
  <2>5. Verdict(sess[t])'
    BY <1>4, <2>1, <2>2 DEF Local, Verdict
  <2>6. Locked(t)'
    BY <1>2, <1>3, <1>4, <2>1, <2>2 DEF Local, Locked
  <2>. QED BY <2>3, <2>4, <2>5, <2>6 DEF Local
<1>. QED BY <1>5, <1>6, <1>7 DEF IInv

LEMMA InitHolds == Init => IInv
<1>. SUFFICES ASSUME Init PROVE IInv
  OBVIOUS
<1>1. Types
  <2>1. [state |-> "building", over |-> FALSE, plan |-> 0, disk |-> 0, short |-> FALSE]
          \in VmType
    BY DEF VmType
  <2>2. vm \in VmType /\ row \in RowType /\ balance \in Int
    BY <2>1, BlankRow, SyncAssumption DEF Init
  <2>3. sess \in [Sessions -> SessType]
    BY IdleFits DEF Init
  <2>4. /\ sLock \in Sessions \cup {Nobody} /\ terms \in {"HOURLY", "MONTHLY"}
        /\ recent \in BOOLEAN /\ clobbered \in BOOLEAN
    BY DEF Init
  <2>. QED BY <2>2, <2>3, <2>4 DEF Types
<1>2. BilledPlanIsThere /\ Stamped
  BY BlankRow DEF Init, BilledPlanIsThere, Stamped, Holds
<1>3. ASSUME NEW t \in Sessions
      PROVE  Local(t)
  <2>1. sess[t] = Idle /\ vm.plan = 0 /\ vm.disk = 0
    BY DEF Init
  <2>. QED BY <2>1, IdleFits, BlankRow DEF Local, Sized, Holds, Settled, Verdict, Locked
<1>. QED BY <1>1, <1>2, <1>3 DEF IInv

LEMMA StepKeeps ==
  ASSUME IInv, NEW s \in Sessions, Step(s)
  PROVE  IInv'
<1>1. ASSUME \E said, did \in BOOLEAN : Answer(s, said, did)
      PROVE  IInv'
  BY <1>1, AnswerKeeps
<1>2. ASSUME DeadlockVictim(s)
      PROVE  IInv'
  BY <1>2, UndoneKeeps DEF DeadlockVictim
<1>. QED BY <1>1, <1>2, PayKeeps, MarkKeeps, RefundKeeps, RestoreKeeps, RenderKeeps, CutOffKeeps,
            CommitKeeps DEF Step

LEMMA NextKeeps == IInv /\ [Next]_vars => IInv'
<1>. SUFFICES ASSUME IInv, [Next]_vars PROVE IInv'
  OBVIOUS
<1>1. ASSUME NEW s \in Sessions, Begin(s) \/ Step(s) \/ Rollback(s)
      PROVE  IInv'
  BY <1>1, BeginKeeps, StepKeeps, UndoneKeeps DEF Rollback
<1>2. CASE UNCHANGED vars
  BY <1>2 DEF vars, books, IInv, Types, BilledPlanIsThere, Stamped, Local, Sized, Settled,
              Verdict, Locked
<1>. QED BY <1>1, <1>2, MachineKeeps, NinetyKeeps DEF Next

(* The invariant on which the results below rest: rows and sessions are    *)
(* what they are declared to be, no plan that is or will be written is     *)
(* bigger than the machine, paying sessions are on their way to what they  *)
(* paid for, and the lock of a buyer of traffic protects his stamp.        *)
THEOREM InductiveInvariant == Spec => []IInv
<1>1. Init => IInv
  BY InitHolds
<1>2. IInv /\ [Next]_vars => IInv'
  BY NextKeeps
<1>. QED BY <1>1, <1>2, PTL DEF Spec

(* Type correctness of the row, the machine and the sessions.              *)
THEOREM TypeCorrect == Spec => []Types
<1>1. IInv => Types
  BY DEF IInv
<1>. QED BY <1>1, InductiveInvariant, PTL

(* The plan that is billed has no more memory or cores than the machine at *)
(* the provider, nor more disk unless an accepted upgrade left the disk    *)
(* alone, whatever happens between the answer and the COMMIT               *)
(* (cb_srv_upgrade_do in handlers/servers.py, apply_resources).            *)
THEOREM BilledPlanTheorem == Spec => []BilledPlanIsThere
<1>1. IInv => BilledPlanIsThere
  BY DEF IInv
<1>. QED BY <1>1, InductiveInvariant, PTL

(* A handler commits a debit only when the provider has done what was      *)
(* paid for, of a bigger plan the memory and the cores: refusals pay back  *)
(* and everything else rolls back.                                         *)
THEOREM PaidIsDoneTheorem == Spec => PaidIsDone
<1>. DEFINE P == \A s \in Sessions : Commit(s) /\ sess[s].paid
                    => sess[s].op = "hourly" \/ sess[s].did
<1>1. IInv /\ [Next]_vars => [P]_vars
  BY DEF IInv, Local, Settled, Commit
<1>. QED BY <1>1, InductiveInvariant, PTL DEF Spec, PaidIsDone

(* sync_server_status and the tasks that use it never lift a suspension    *)
(* they have seen, however many sessions write the row meanwhile.          *)
THEOREM SyncKeepsVerdictTheorem == Spec => SyncKeepsVerdict
<1>. DEFINE P == \A s \in Sessions :
                    Commit(s) /\ row.status = "SUSPENDED" /\ row'.status # "SUSPENDED"
                      => sess[s].op \notin Reads \/ ~sess[s].saw
<1>1. IInv => P
  <2>. SUFFICES ASSUME IInv, NEW s \in Sessions, Commit(s), row.status = "SUSPENDED",
                       row'.status # "SUSPENDED"
                PROVE  sess[s].op \notin Reads \/ ~sess[s].saw
    OBVIOUS
  <2>1. /\ row' = Merged(s)
        /\ "status" \in sess[s].cols => Merged(s).status = sess[s].new.status
        /\ "status" \notin sess[s].cols => Merged(s).status = row.status
    BY MergedRow DEF Commit
  <2>2. "status" \in sess[s].cols /\ sess[s].new.status # "SUSPENDED"
    BY <2>1
  <2>. QED BY <2>2 DEF IInv, Local, Verdict
<1>2. IInv /\ [Next]_vars => [P]_vars
  BY <1>1
<1>. QED BY <1>2, InductiveInvariant, PTL DEF Spec, SyncKeepsVerdict

(* Two orders of traffic are ninety seconds apart unless an old copy of    *)
(* extra_data was written over the stamp: SELECT ... FOR UPDATE and the    *)
(* stamp suffice for any number of presses at the same time.               *)
THEOREM OrdersApartTheorem == Spec => OrdersApart
<1>. DEFINE P == \A s \in Sessions : Mark(s) /\ sess[s].op = "traffic"
                    => ~recent \/ clobbered
<1>1. IInv /\ [Next]_vars => [P]_vars
  BY DEF IInv, Local, Locked, Stamped
<1>. QED BY <1>1, InductiveInvariant, PTL DEF Spec, OrdersApart

=============================================================================
