----------------------- MODULE SnapshotBillingProofs -----------------------
(***************************************************************************)
(* The safety of snapshot billing, for any finite set of snapshots and any *)
(* number of overlapping runs.  The inductive invariant adds to the two    *)
(* properties what a run and a handler may rely on although they lock no   *)
(* snapshots row: a run has only ever read anchors an hour old of rows     *)
(* that had been created, and a snapshot that is being recorded has its    *)
(* image and no row, so that neither a deletion nor a run can touch it.    *)
(***************************************************************************)
EXTENDS SnapshotBilling, FiniteSetTheorems, TLAPS

Recorded(s) == desk[s] \in {"record", "paid", "free"}

BeingRecorded ==
    \A s \in Snapshots : Recorded(s) => row[s].state = "none" /\ s \in image

RunsHaveRead ==
    \A r \in Runs : \A s \in Snapshots :
      /\ s \in run[r].todo \cup run[r].paid \cup run[r].cut
            => row[s].state # "none"
      /\ s \in run[r].todo \cup run[r].paid => run[r].seen[s] + 1 <= now

IdleRuns == \A r \in Runs : run[r].pc = "idle" => run[r].cut = {}

(* The debits of a snapshot and the part of the clock that its anchor has  *)
(* covered, for a snapshot that has a row and for one that has none.       *)
Books == /\ \A s \in Snapshots : row[s].state = "none" => charges[s] = 0
         /\ HoursDebited

IInv == /\ TypeOK /\ BeingRecorded /\ RunsHaveRead /\ IdleRuns
        /\ Books /\ PaidImageExists

-----------------------------------------------------------------------------
(* What a run had read is finite, so that a rollback gives back a number.  *)
LEMMA PaidIsFinite ==
    ASSUME SnapshotAssumption, TypeOK, NEW r \in Runs
    PROVE  Cardinality(run[r].paid) \in Nat
<1>1. IsFiniteSet(Snapshots)  BY DEF SnapshotAssumption
<1>2. run[r].paid \subseteq Snapshots  BY DEF TypeOK
<1>3. IsFiniteSet(run[r].paid)  BY <1>1, <1>2, FS_Subset
<1> QED  BY <1>3, FS_CardinalityType

LEMMA InitIsFine == SnapshotAssumption /\ Init => IInv
<1> SUFFICES ASSUME SnapshotAssumption, Init PROVE IInv  OBVIOUS
<1>1. TypeOK  BY DEF Init, TypeOK, NoRow, NoRun, SnapshotAssumption
<1>2. BeingRecorded  BY DEF Init, BeingRecorded, Recorded
<1>3. RunsHaveRead  BY DEF Init, RunsHaveRead, NoRun
<1>4. Books  BY DEF Init, Books, HoursDebited, NoRow
<1>5. PaidImageExists  BY DEF Init, PaidImageExists, Active, NoRow
<1>6. IdleRuns  BY DEF Init, IdleRuns, NoRun
<1> QED  BY <1>1, <1>2, <1>3, <1>4, <1>5, <1>6 DEF IInv

-----------------------------------------------------------------------------
(* The types.                                                              *)
LEMMA DeskTypes ==
    ASSUME SnapshotAssumption, TypeOK, NEW s \in Snapshots,
           Shoot(s) \/ DeleteImage(s) \/ Desk(s) \/ CreateLost(s) \/ DeleteLost(s)
    PROVE  TypeOK'
<1> USE DEF SnapshotAssumption, TypeOK
<1>1. CASE Shoot(s)  BY <1>1 DEF Shoot, bounds, ledger
<1>2. CASE DeleteImage(s)  BY <1>2 DEF DeleteImage, bounds, ledger
<1>3. CASE Record(s)  BY <1>3 DEF Record, bounds, ledger
<1>4. CASE Created(s)  BY <1>4 DEF Created, bounds
<1>5. CASE Close(s)  BY <1>5 DEF Close, bounds, ledger
<1>6. CASE CreateLost(s)  BY <1>6 DEF CreateLost, ledger
<1>7. CASE DeleteLost(s)  BY <1>7 DEF DeleteLost, ledger
<1> QED  BY <1>1, <1>2, <1>3, <1>4, <1>5, <1>6, <1>7 DEF Desk

RunType == [pc : {"idle", "visit"}, todo : SUBSET Snapshots,
            seen : [Snapshots -> 0..MaxHours],
            paid : SUBSET Snapshots, cut : SUBSET Snapshots]

LEMMA RunTyped == TypeOK => run \in [Runs -> RunType]
BY DEF TypeOK, RunType

LEMMA RunReplaced ==
    ASSUME TypeOK, NEW r \in Runs, NEW x \in RunType,
           run' = [run EXCEPT ![r] = x]
    PROVE  run' \in [Runs -> RunType]
BY RunTyped

LEMMA NoRunTyped == SnapshotAssumption => NoRun \in RunType
BY DEF NoRun, RunType, SnapshotAssumption

(* A step of a run replaces its own state by one of the right type.        *)
LEMMA VisitTyped ==
    ASSUME SnapshotAssumption, TypeOK, NEW r \in Runs, NEW s \in Snapshots,
           Debit(r, s) \/ Cut(r, s) \/ Skip(r, s)
    PROVE  run' \in [Runs -> RunType]
<1>1. run \in [Runs -> RunType]  BY RunTyped
<1>2. run[r] \in RunType  BY <1>1
<1>3. CASE Debit(r, s)
  <2>1. [run[r] EXCEPT !.todo = run[r].todo \ {s},
                       !.paid = run[r].paid \cup {s}] \in RunType
    BY <1>2 DEF RunType
  <2> QED  BY <1>1, <1>3, <2>1 DEF Debit
<1>4. CASE Cut(r, s)
  <2>1. [run[r] EXCEPT !.todo = run[r].todo \ {s},
                       !.cut = run[r].cut \cup {s}] \in RunType
    BY <1>2 DEF RunType
  <2> QED  BY <1>1, <1>4, <2>1 DEF Cut
<1>5. CASE Skip(r, s)
  <2>1. [run[r] EXCEPT !.todo = run[r].todo \ {s}] \in RunType
    BY <1>2 DEF RunType
  <2> QED  BY <1>1, <1>5, <2>1 DEF Skip
<1> QED  BY <1>3, <1>4, <1>5

LEMMA CommitTypes ==
    ASSUME SnapshotAssumption, TypeOK, RunsHaveRead, NEW r \in Runs, Commit(r)
    PROVE  TypeOK'
<1>1. ASSUME NEW s \in Snapshots
      PROVE  row'[s] \in [state : {"none", "active", "ended"},
                          born : 0..MaxHours, last : 0..MaxHours]
  <2>1. /\ row[s] \in [state : {"none", "active", "ended"},
                       born : 0..MaxHours, last : 0..MaxHours]
        /\ run[r].seen[s] \in 0..MaxHours /\ now \in 0..MaxHours
    BY DEF TypeOK
  <2>2. s \in run[r].paid => run[r].seen[s] + 1 \in 0..MaxHours
    BY <2>1 DEF RunsHaveRead, SnapshotAssumption
  <2>3. StateAfter(s, r) \in {"none", "active", "ended"}
    BY <2>1 DEF StateAfter
  <2>4. row'[s] = [row[s] EXCEPT !.state = StateAfter(s, r),
                     !.last = IF s \in run[r].paid
                                THEN NextAnchor(run[r].seen[s]) ELSE @]
    BY DEF Commit
  <2> QED  BY <2>1, <2>2, <2>3, <2>4 DEF NextAnchor
<1>2. row' \in [Snapshots -> [state : {"none", "active", "ended"},
                              born : 0..MaxHours, last : 0..MaxHours]]
  BY <1>1 DEF Commit
<1>3. charges' \in [Snapshots -> Nat]
  <2>1. \A s \in Snapshots :
           charges[s] + (IF s \in run[r].paid THEN 1 ELSE 0) \in Nat
    BY DEF TypeOK
  <2> QED  BY <2>1 DEF Commit
<1>4. overlaps' \subseteq Snapshots  BY DEF Commit, TypeOK
<1>5. run' \in [Runs -> RunType]
  BY RunReplaced, NoRunTyped DEF Commit
<1>6. uLock' \in Runs \cup Snapshots \cup {Nobody}  BY DEF Commit, TypeOK
<1>7. UNCHANGED <<image, balance, desk, now, topUps, crashes>>
  BY DEF Commit, bounds
<1> QED  BY <1>2, <1>3, <1>4, <1>5, <1>6, <1>7 DEF TypeOK, RunType

LEMMA RunTypes ==
    ASSUME SnapshotAssumption, TypeOK, RunsHaveRead, NEW r \in Runs,
           \/ Work(r) \/ RunLost(r)
           \/ \E s \in Snapshots : Skip(r, s)
    PROVE  TypeOK'
<1> USE DEF bounds, ledger
<1>1. CASE Start(r)
  <2>1. [NoRun EXCEPT !.pc = "visit",
           !.todo = {s \in Snapshots : Due(s)},
           !.seen = [s \in Snapshots |-> IF Due(s) THEN row[s].last ELSE 0]]
        \in RunType
    <3>1. \A s \in Snapshots : row[s].last \in 0..MaxHours  BY DEF TypeOK
    <3>2. [s \in Snapshots |-> IF Due(s) THEN row[s].last ELSE 0]
          \in [Snapshots -> 0..MaxHours]
      BY <3>1 DEF SnapshotAssumption
    <3> QED  BY <3>2 DEF NoRun, RunType
  <2>2. run' \in [Runs -> RunType]  BY <1>1, <2>1, RunReplaced DEF Start
  <2> QED  BY <1>1, <2>2 DEF Start, TypeOK, RunType
<1>2. CASE Commit(r)  BY <1>2, CommitTypes
<1>3. ASSUME NEW s \in Snapshots, Debit(r, s) PROVE TypeOK'
  <2>1. run' \in [Runs -> RunType]  BY <1>3, VisitTyped
  <2> QED  BY <1>3, <2>1 DEF Debit, TypeOK, RunType
<1>4. ASSUME NEW s \in Snapshots, Cut(r, s) PROVE TypeOK'
  <2>1. run' \in [Runs -> RunType]  BY <1>4, VisitTyped
  <2> QED  BY <1>4, <2>1 DEF Cut, TypeOK, RunType
<1>5. ASSUME NEW s \in Snapshots, Skip(r, s) PROVE TypeOK'
  <2>1. run' \in [Runs -> RunType]  BY <1>5, VisitTyped
  <2>2. crashes' \in 0..MaxCrashes
    BY <1>5 DEF Skip, TypeOK, SnapshotAssumption
  <2> QED  BY <1>5, <2>1, <2>2 DEF Skip, TypeOK, RunType
<1>6. CASE RunLost(r)
  <2>1. balance' \in Nat  BY <1>6, PaidIsFinite DEF RunLost, TypeOK
  <2>2. run' \in [Runs -> RunType]
    BY <1>6, RunReplaced, NoRunTyped DEF RunLost
  <2>3. crashes' \in 0..MaxCrashes
    BY <1>6 DEF RunLost, TypeOK, SnapshotAssumption
  <2>4. uLock' \in Runs \cup Snapshots \cup {Nobody}
    BY <1>6 DEF RunLost, TypeOK
  <2> QED  BY <1>6, <2>1, <2>2, <2>3, <2>4 DEF RunLost, TypeOK, RunType
<1> QED  BY <1>1, <1>2, <1>3, <1>4, <1>5, <1>6 DEF Work

LEMMA TypeStep ==
    SnapshotAssumption /\ TypeOK /\ RunsHaveRead /\ [Next]_vars => TypeOK'
<1> SUFFICES ASSUME SnapshotAssumption, TypeOK, RunsHaveRead, [Next]_vars
             PROVE  TypeOK'
  OBVIOUS
<1>1. CASE Hour  BY <1>1 DEF Hour, TypeOK, ledger, SnapshotAssumption
<1>2. CASE TopUp  BY <1>2 DEF TopUp, TypeOK, ledger, SnapshotAssumption
<1>3. CASE UNCHANGED vars  BY <1>3 DEF vars, TypeOK
<1> QED  BY <1>1, <1>2, <1>3, DeskTypes, RunTypes DEF Next

-----------------------------------------------------------------------------
RowType == [state : {"none", "active", "ended"},
            born : 0..MaxHours, last : 0..MaxHours]

LEMMA RowTyped == TypeOK => row \in [Snapshots -> RowType]
BY DEF TypeOK, RowType

(* What the COMMIT of a run does to a row.                                 *)
LEMMA CommitRow ==
    ASSUME TypeOK, NEW r \in Runs, NEW s \in Snapshots, Commit(r)
    PROVE  /\ row'[s].state = StateAfter(s, r) /\ row'[s].born = row[s].born
           /\ row'[s].last = IF s \in run[r].paid
                               THEN NextAnchor(run[r].seen[s]) ELSE row[s].last
<1>1. row[s] \in RowType  BY RowTyped
<1>2. row'[s] = [row[s] EXCEPT !.state = StateAfter(s, r),
                   !.last = IF s \in run[r].paid
                              THEN NextAnchor(run[r].seen[s]) ELSE row[s].last]
  BY DEF Commit
<1> HIDE DEF StateAfter, NextAnchor
<1> QED  BY <1>1, <1>2 DEF RowType

(* A snapshot that is being recorded is not seen by anybody else.          *)
LEMMA RecordedStep ==
    SnapshotAssumption /\ IInv /\ [Next]_vars => BeingRecorded'
<1> SUFFICES ASSUME SnapshotAssumption, IInv, [Next]_vars, NEW s \in Snapshots,
                    Recorded(s)'
             PROVE  row'[s].state = "none" /\ s \in image'
  BY DEF BeingRecorded
<1>0. Recorded(s) => row[s].state = "none" /\ s \in image
  BY DEF IInv, BeingRecorded
<1> USE DEF IInv, TypeOK
<1>1. ASSUME NEW t \in Snapshots, Shoot(t)
      PROVE  row'[s].state = "none" /\ s \in image'
  BY <1>0, <1>1 DEF Shoot, Recorded
<1>2. ASSUME NEW t \in Snapshots, DeleteImage(t)
      PROVE  row'[s].state = "none" /\ s \in image'
  BY <1>0, <1>2 DEF DeleteImage, Recorded, Active
<1>3. ASSUME NEW t \in Snapshots, Desk(t)
      PROVE  row'[s].state = "none" /\ s \in image'
  BY <1>0, <1>3 DEF Desk, Record, Created, Close, Recorded
<1>4. ASSUME NEW t \in Snapshots, CreateLost(t) \/ DeleteLost(t)
      PROVE  row'[s].state = "none" /\ s \in image'
  BY <1>0, <1>4 DEF CreateLost, DeleteLost, Recorded
<1>5. ASSUME NEW r \in Runs, Commit(r)
      PROVE  row'[s].state = "none" /\ s \in image'
  <2>1. Recorded(s) /\ image' = image  BY <1>5 DEF Commit, Recorded
  <2>2. s \notin run[r].cut  BY <1>0, <2>1 DEF RunsHaveRead
  <2>3. row'[s].state = StateAfter(s, r)  BY <1>5, CommitRow DEF IInv
  <2> QED  BY <1>0, <2>1, <2>2, <2>3 DEF StateAfter
<1>6. ASSUME NEW r \in Runs, NEW t \in Snapshots, Cut(r, t)
      PROVE  row'[s].state = "none" /\ s \in image'
  <2>1. row[t].state # "none"  BY <1>6 DEF Cut, RunsHaveRead
  <2> QED  BY <1>0, <1>6, <2>1 DEF Cut, Recorded
<1>7. ASSUME NEW r \in Runs,
             Start(r) \/ RunLost(r)
                \/ \E t \in Snapshots : Debit(r, t) \/ Skip(r, t)
      PROVE  row'[s].state = "none" /\ s \in image'
  BY <1>0, <1>7 DEF Start, RunLost, Debit, Skip, Recorded
<1>8. CASE Hour \/ TopUp  BY <1>0, <1>8 DEF Hour, TopUp, Recorded
<1>9. CASE UNCHANGED vars  BY <1>0, <1>9 DEF vars, Recorded
<1> QED
  BY <1>1, <1>2, <1>3, <1>4, <1>5, <1>6, <1>7, <1>8, <1>9 DEF Next, Work

(* Rows are never taken back, so what a run has read of them stays true.   *)
LEMMA RowsStay ==
    SnapshotAssumption /\ IInv /\ [Next]_vars =>
        /\ now' \in Nat /\ now' >= now
        /\ \A s \in Snapshots : row[s].state # "none" => row'[s].state # "none"
<1> SUFFICES ASSUME SnapshotAssumption, IInv, [Next]_vars
             PROVE  /\ now' \in Nat /\ now' >= now
                    /\ \A s \in Snapshots :
                          row[s].state # "none" => row'[s].state # "none"
  OBVIOUS
<1>1. now' \in Nat /\ now' >= now
  <2>1. now \in Nat  BY DEF IInv, TypeOK, SnapshotAssumption
  <2>2. now' = now \/ now' = now + 1
    BY DEF Next, vars, Shoot, DeleteImage, Desk, Record, Created, Close,
           CreateLost, DeleteLost, Work, Start, Debit, Cut, Commit, Skip,
           RunLost, Hour, TopUp, bounds
  <2> QED  BY <2>1, <2>2
<1>2. ASSUME NEW s \in Snapshots, row[s].state # "none"
      PROVE  row'[s].state # "none"
  <2>1. ASSUME NEW t \in Snapshots, Created(t) \/ Close(t)
        PROVE  row'[s].state # "none"
    BY <1>2, <2>1 DEF Created, Close, IInv, TypeOK
  <2>2. ASSUME NEW r \in Runs, Commit(r) PROVE row'[s].state # "none"
    BY <1>2, <2>2, CommitRow DEF StateAfter, IInv
  <2>3. \/ row' = row
        \/ \E t \in Snapshots : Created(t) \/ Close(t)
        \/ \E r \in Runs : Commit(r)
    BY DEF Next, vars, Shoot, DeleteImage, Desk, Record, CreateLost, DeleteLost,
           Work, Start, Debit, Cut, Skip, RunLost, Hour, TopUp
  <2> QED  BY <1>2, <2>1, <2>2, <2>3
<1> QED  BY <1>1, <1>2

LEMMA ReadStep ==
    SnapshotAssumption /\ IInv /\ [Next]_vars => RunsHaveRead'
<1> SUFFICES ASSUME SnapshotAssumption, IInv, [Next]_vars,
                    NEW r \in Runs, NEW s \in Snapshots
             PROVE  /\ s \in run'[r].todo \cup run'[r].paid \cup run'[r].cut
                          => row'[s].state # "none"
                    /\ s \in run'[r].todo \cup run'[r].paid
                          => run'[r].seen[s] + 1 <= now'
  BY DEF RunsHaveRead
<1>1. /\ now' \in Nat /\ now \in Nat /\ now' >= now
      /\ row[s].state # "none" => row'[s].state # "none"
  BY RowsStay DEF IInv, TypeOK
<1>2. /\ run \in [Runs -> RunType] /\ run[r].seen[s] \in Nat
  <2>1. run \in [Runs -> RunType]  BY RunTyped DEF IInv
  <2> QED  BY <2>1 DEF RunType
<1>3. /\ s \in run[r].todo \cup run[r].paid \cup run[r].cut
             => row'[s].state # "none"
      /\ s \in run[r].todo \cup run[r].paid => run[r].seen[s] + 1 <= now'
  BY <1>1, <1>2 DEF IInv, RunsHaveRead
<1>4. CASE run'[r] = run[r]  BY <1>3, <1>4
<1>5. CASE Start(r)
  <2>1. /\ run'[r].todo = {t \in Snapshots : Due(t)}
        /\ run'[r].paid = {} /\ run'[r].cut = {}
        /\ run'[r].seen[s] = IF Due(s) THEN row[s].last ELSE 0
    BY <1>2, <1>5 DEF Start, NoRun, RunType
  <2>2. row[s].last \in Nat  BY RowTyped DEF IInv, RowType, SnapshotAssumption
  <2>3. Due(s) => row[s].state # "none" /\ row[s].last + 1 <= now'
    BY <1>1, <2>2 DEF Due, Active
  <2> QED  BY <1>1, <2>1, <2>3
<1>6. ASSUME NEW t \in Snapshots, Debit(r, t) \/ Cut(r, t) \/ Skip(r, t)
      PROVE  /\ s \in run'[r].todo \cup run'[r].paid \cup run'[r].cut
                   => row'[s].state # "none"
             /\ s \in run'[r].todo \cup run'[r].paid
                   => run'[r].seen[s] + 1 <= now'
  <2>1. /\ run'[r].todo \cup run'[r].paid \subseteq run[r].todo \cup run[r].paid
        /\ run'[r].cut \subseteq run[r].todo \cup run[r].cut
        /\ run'[r].seen = run[r].seen
    BY <1>2, <1>6 DEF Debit, Cut, Skip, RunType
  <2> QED  BY <1>3, <2>1
<1>7. CASE Commit(r) \/ RunLost(r)
  <2>1. run'[r] = NoRun  BY <1>2, <1>7 DEF Commit, RunLost
  <2> QED  BY <2>1 DEF NoRun
<1>8. \/ run'[r] = run[r] \/ Start(r) \/ Commit(r) \/ RunLost(r)
      \/ \E t \in Snapshots : Debit(r, t) \/ Cut(r, t) \/ Skip(r, t)
  <2>1. \/ UNCHANGED run
        \/ \E q \in Runs : Work(q) \/ RunLost(q)
                \/ \E t \in Snapshots : Skip(q, t)
    BY DEF Next, vars, Shoot, DeleteImage, Desk, Record, Created, Close,
           CreateLost, DeleteLost, Hour, TopUp
  <2>2. ASSUME NEW q \in Runs, q # r,
               Work(q) \/ RunLost(q) \/ \E t \in Snapshots : Skip(q, t)
        PROVE  run'[r] = run[r]
    BY <1>2, <2>2 DEF Work, Start, Debit, Cut, Commit, Skip, RunLost
  <2> QED  BY <2>1, <2>2 DEF Work
<1> QED  BY <1>4, <1>5, <1>6, <1>7, <1>8

-----------------------------------------------------------------------------
(* The only steps that move an anchor or count a debit.                    *)
LEMMA WhoWritesRows ==
    SnapshotAssumption /\ IInv /\ [Next]_vars =>
        \/ UNCHANGED <<row, charges, overlaps>>
        \/ \E s \in Snapshots : Created(s) \/ Close(s)
        \/ \E r \in Runs : Commit(r)
BY DEF Next, vars, Shoot, DeleteImage, Desk, Record, CreateLost, DeleteLost,
       Work, Start, Debit, Cut, Skip, RunLost, Hour, TopUp, ledger

LEMMA BooksStep ==
    SnapshotAssumption /\ IInv /\ [Next]_vars => Books'
<1> DEFINE Good(s) ==
      /\ row[s].state = "none" => charges[s] = 0
      /\ row[s].last <= now
      /\ s \notin overlaps => charges[s] - (row[s].last - row[s].born) \in {0, 1}
<1> SUFFICES ASSUME SnapshotAssumption, IInv, [Next]_vars, NEW s \in Snapshots
             PROVE  Good(s)'
  BY DEF Books, HoursDebited
<1>1. Good(s)  BY DEF IInv, Books, HoursDebited
<1>2. /\ now \in Nat /\ now' \in Nat /\ now' >= now
  BY RowsStay DEF IInv, TypeOK, SnapshotAssumption
<1>3. /\ row \in [Snapshots -> RowType] /\ row[s].last \in Nat
      /\ row[s].born \in Nat /\ charges[s] \in Nat
  <2>1. row \in [Snapshots -> RowType]  BY RowTyped DEF IInv
  <2> QED  BY <2>1 DEF RowType, IInv, TypeOK, SnapshotAssumption
<1>4. CASE UNCHANGED <<row, charges, overlaps>>  BY <1>1, <1>2, <1>3, <1>4
<1>5. ASSUME NEW t \in Snapshots, Created(t) PROVE Good(s)'
  <2>1. CASE t = s
    <3>1. /\ row'[s].state = "active" /\ row'[s].last = now
          /\ row'[s].born = now /\ now' = now /\ charges'[s] \in {0, 1}
      BY <1>3, <1>5, <2>1 DEF Created, IInv, TypeOK, bounds
    <3> QED  BY <1>2, <3>1
  <2>2. CASE t # s
    <3>1. row'[s] = row[s] /\ charges'[s] = charges[s] /\ overlaps' = overlaps
      BY <1>3, <1>5, <2>2 DEF Created, IInv, TypeOK
    <3> QED  BY <1>1, <1>2, <1>3, <3>1
  <2> QED  BY <2>1, <2>2
<1>6. ASSUME NEW t \in Snapshots, Close(t) PROVE Good(s)'
  <2>1. /\ row'[s].last = row[s].last /\ row'[s].born = row[s].born
        /\ row'[s].state \in {"ended", row[s].state}
        /\ UNCHANGED <<charges, overlaps>>
    BY <1>3, <1>6 DEF Close, ledger, RowType
  <2> QED  BY <1>1, <1>2, <1>3, <2>1
<1>7. ASSUME NEW r \in Runs, Commit(r) PROVE Good(s)'
  <2>1. /\ row'[s].state = StateAfter(s, r) /\ row'[s].born = row[s].born
        /\ row'[s].last = IF s \in run[r].paid
                            THEN NextAnchor(run[r].seen[s]) ELSE row[s].last
    BY <1>7, CommitRow DEF IInv
  <2>2. charges'[s] = charges[s] + (IF s \in run[r].paid THEN 1 ELSE 0)
    BY <1>7 DEF Commit
  <2>3. overlaps' = overlaps \cup {t \in run[r].paid : row[t].last # run[r].seen[t]}
    BY <1>7 DEF Commit
  <2>4. run[r].seen[s] \in Nat
    BY RunTyped DEF IInv, RunType, SnapshotAssumption
  <2>5. CASE s \notin run[r].paid
    <3>1. /\ charges'[s] = charges[s] /\ row'[s].last = row[s].last
          /\ s \notin overlaps' => s \notin overlaps
      BY <1>3, <2>1, <2>2, <2>3, <2>5
    <3>2. row'[s].state = "none" => row[s].state = "none"  BY RowsStay
    <3> QED  BY <1>1, <1>2, <1>3, <2>1, <3>1, <3>2
  <2>6. CASE s \in run[r].paid
    <3>1. row[s].state # "none" /\ run[r].seen[s] + 1 <= now
      BY <2>6 DEF IInv, RunsHaveRead
    <3>2. row'[s].state # "none"  BY <3>1, RowsStay
    <3>3. /\ row'[s].last = run[r].seen[s] + 1 /\ charges'[s] = charges[s] + 1
      BY <2>1, <2>2, <2>6 DEF NextAnchor
    <3>4. s \notin overlaps' => s \notin overlaps /\ row[s].last = run[r].seen[s]
      BY <2>3, <2>6
    <3> QED  BY <1>1, <1>2, <1>3, <2>1, <2>4, <3>1, <3>2, <3>3, <3>4
  <2> QED  BY <2>5, <2>6
<1> QED  BY <1>4, <1>5, <1>6, <1>7, WhoWritesRows

-----------------------------------------------------------------------------
LEMMA ImageStep ==
    SnapshotAssumption /\ IInv /\ [Next]_vars => PaidImageExists'
<1> DEFINE Excused(s) == \/ desk[s] = "close" \/ crashes > 0
                         \/ \E r \in Runs : s \in run[r].cut
<1> SUFFICES ASSUME SnapshotAssumption, IInv, [Next]_vars, NEW s \in Snapshots,
                    Active(s)', s \notin image'
             PROVE  Excused(s)'
  BY DEF PaidImageExists
<1>1. Active(s) /\ s \notin image => Excused(s)
  BY DEF IInv, PaidImageExists
<1>2. crashes \in Nat /\ run \in [Runs -> RunType] /\ row \in [Snapshots -> RowType]
  BY RunTyped, RowTyped DEF IInv, TypeOK, SnapshotAssumption
<1>3. ASSUME NEW t \in Snapshots, Shoot(t) PROVE Excused(s)'
  BY <1>1, <1>2, <1>3 DEF Shoot, Active, IInv, TypeOK, bounds
<1>4. ASSUME NEW t \in Snapshots, DeleteImage(t) PROVE Excused(s)'
  BY <1>1, <1>2, <1>4 DEF DeleteImage, Active, IInv, TypeOK, bounds
<1>5. ASSUME NEW t \in Snapshots, Record(t) PROVE Excused(s)'
  BY <1>1, <1>2, <1>5 DEF Record, Active, IInv, TypeOK, bounds
<1>6. ASSUME NEW t \in Snapshots, Created(t) PROVE Excused(s)'
  <2>1. s # t
    BY <1>6 DEF Created, IInv, BeingRecorded, Recorded
  <2> QED  BY <1>1, <1>2, <1>6, <2>1 DEF Created, Active, IInv, TypeOK, bounds
<1>7. ASSUME NEW t \in Snapshots, Close(t) PROVE Excused(s)'
  <2>1. s # t
    BY <1>2, <1>7 DEF Close, Active, RowType
  <2> QED  BY <1>1, <1>2, <1>7, <2>1 DEF Close, Active, IInv, TypeOK, bounds
<1>8. ASSUME NEW t \in Snapshots, CreateLost(t) \/ DeleteLost(t) PROVE Excused(s)'
  BY <1>2, <1>8 DEF CreateLost, DeleteLost
<1>9. ASSUME NEW r \in Runs, Commit(r) PROVE Excused(s)'
  <2>1. row'[s].state = StateAfter(s, r)  BY <1>9, CommitRow DEF IInv
  <2>2. Active(s) /\ s \notin run[r].cut  BY <2>1 DEF StateAfter, Active
  <2>3. Excused(s)  BY <1>1, <1>9, <2>2 DEF Commit
  <2>4. UNCHANGED <<desk, crashes>>  BY <1>9 DEF Commit, bounds
  <2>5. ASSUME NEW q \in Runs, s \in run[q].cut PROVE s \in run'[q].cut
    BY <1>2, <1>9, <2>2, <2>5 DEF Commit
  <2> QED  BY <2>3, <2>4, <2>5
<1>10. ASSUME NEW r \in Runs, RunLost(r) \/ \E t \in Snapshots : Skip(r, t)
       PROVE  Excused(s)'
  BY <1>2, <1>10 DEF RunLost, Skip
<1>11. ASSUME NEW r \in Runs, Start(r) PROVE Excused(s)'
  <2>1. UNCHANGED <<image, row, desk, crashes>>  BY <1>11 DEF Start, bounds
  <2>2. ASSUME NEW q \in Runs, s \in run[q].cut PROVE s \in run'[q].cut
    <3>1. CASE q # r  BY <1>2, <1>11, <2>2, <3>1 DEF Start
    <3>2. CASE q = r  BY <1>11, <2>2, <3>2 DEF Start, IInv, IdleRuns
    <3> QED  BY <3>1, <3>2
  <2> QED  BY <1>1, <2>1, <2>2 DEF Active
<1>12. ASSUME NEW r \in Runs, NEW t \in Snapshots, Debit(r, t) \/ Cut(r, t)
       PROVE  Excused(s)'
  <2>1. UNCHANGED <<row, desk, crashes>>  BY <1>12 DEF Debit, Cut, bounds
  <2>2. ASSUME NEW q \in Runs, s \in run[q].cut PROVE s \in run'[q].cut
    <3>1. CASE q # r  BY <1>2, <1>12, <2>2, <3>1 DEF Debit, Cut
    <3>2. run[r] \in RunType  BY <1>2
    <3>3. run[r].cut \subseteq run'[r].cut
      BY <1>2, <1>12, <3>2 DEF Debit, Cut, RunType
    <3> QED  BY <2>2, <3>1, <3>3
  <2>3. s \in image => s \in run'[r].cut
    <3>1. CASE Debit(r, t)  BY <1>12, <3>1 DEF Debit
    <3>2. CASE Cut(r, t)
      <4>1. s \in image => s = t  BY <3>2 DEF Cut
      <4>2. t \in run'[r].cut  BY <1>2, <3>2 DEF Cut, RunType
      <4> QED  BY <4>1, <4>2
    <3> QED  BY <1>12, <3>1, <3>2
  <2> QED  BY <1>1, <2>1, <2>2, <2>3 DEF Active
<1>13. CASE Hour \/ TopUp \/ UNCHANGED vars
  BY <1>1, <1>13 DEF Hour, TopUp, vars, Active
<1> QED
  BY <1>3, <1>4, <1>5, <1>6, <1>7, <1>8, <1>9, <1>10, <1>11, <1>12, <1>13
  DEF Next, Desk, Work

(* A run that has ended remembers nothing.                                 *)
LEMMA IdleStep ==
    SnapshotAssumption /\ IInv /\ [Next]_vars => IdleRuns'
<1> SUFFICES ASSUME SnapshotAssumption, IInv, [Next]_vars, NEW r \in Runs,
                    run'[r].pc = "idle"
             PROVE  run'[r].cut = {}
  BY DEF IdleRuns
<1>1. run \in [Runs -> RunType] /\ (run[r].pc = "idle" => run[r].cut = {})
  BY RunTyped DEF IInv, IdleRuns
<1>2. ASSUME NEW q \in Runs, Commit(q) \/ RunLost(q) PROVE run'[r].cut = {}
  <2>1. run'[r] = NoRun \/ run'[r] = run[r]  BY <1>1, <1>2 DEF Commit, RunLost
  <2> QED  BY <1>1, <2>1 DEF NoRun
<1>3. ASSUME NEW q \in Runs, Start(q) PROVE run'[r].cut = {}
  <2>1. q # r  BY <1>1, <1>3 DEF Start, RunType
  <2> QED  BY <1>1, <1>3, <2>1 DEF Start
<1>4. ASSUME NEW q \in Runs, NEW t \in Snapshots,
             Debit(q, t) \/ Cut(q, t) \/ Skip(q, t)
      PROVE  run'[r].cut = {}
  <2>1. q # r
    <3>1. run[q].pc = "visit" /\ run[q] \in RunType
      BY <1>1, <1>4 DEF Debit, Cut, Skip
    <3>2. run'[q].pc = "visit"
      BY <1>1, <1>4, <3>1 DEF Debit, Cut, Skip, RunType
    <3> QED  BY <3>2
  <2> QED  BY <1>1, <1>4, <2>1 DEF Debit, Cut, Skip
<1>5. CASE UNCHANGED run  BY <1>1, <1>5
<1> QED
  BY <1>2, <1>3, <1>4, <1>5
  DEF Next, vars, Shoot, DeleteImage, Desk, Record, Created, Close, CreateLost,
      DeleteLost, Work, Hour, TopUp

-----------------------------------------------------------------------------
(* The invariant is inductive, for any finite set of snapshots, any number *)
(* of runs and any bounds.                                                 *)
THEOREM InductiveInvariant == Spec => []IInv
<1>1. Init => IInv  BY SnapshotAssumption, InitIsFine
<1>2. IInv /\ [Next]_vars => IInv'
  BY SnapshotAssumption, TypeStep, RecordedStep, ReadStep, IdleStep, BooksStep,
     ImageStep
  DEF IInv
<1> QED  BY <1>1, <1>2, PTL DEF Spec

(* Every variable of the snapshot code keeps its type, and no overlap of   *)
(* runs, handlers and rollbacks overdraws the wallet (debit).              *)
THEOREM TypeCorrect == Spec => []TypeOK
<1>1. IInv => TypeOK  BY DEF IInv
<1> QED  BY <1>1, InductiveInvariant, PTL

(* The anchor of a snapshot moves by the hours that were debited           *)
(* (run_snapshot_billing), unless two runs had read the same anchor.       *)
THEOREM AnchorsAreDebits == Spec => []HoursDebited
<1>1. IInv => HoursDebited  BY DEF IInv, Books
<1> QED  BY <1>1, InductiveInvariant, PTL

(* No snapshot is debited for an image that is gone, except one that is    *)
(* being closed (cb_snap_del, run_snapshot_billing).                       *)
THEOREM ImagesExist == Spec => []PaidImageExists
<1>1. IInv => PaidImageExists  BY DEF IInv
<1> QED  BY <1>1, InductiveInvariant, PTL
=============================================================================
