--------------------------- MODULE ResellerProofs ---------------------------
(***************************************************************************)
(* The safety of reseller billing, for any resellers, machines, uids and   *)
(* synchronisations.  What a synchronisation decides was read in parts at  *)
(* three moments (the panel without a lock, the configuration and the      *)
(* rows under the lock of one user); the invariant says why it may be      *)
(* applied: under the lock the configuration does not change, two resellers*)
(* who are active have different uids unless the unlocked check was raced, *)
(* and a machine belongs to one uid for good.                              *)
(***************************************************************************)
EXTENDS Reseller, FiniteSetTheorems, TLAPS

CfgType   == [active : BOOLEAN, uid : Uids \cup {NoUid}, debt : Int]
RowType   == [live : BOOLEAN, plan : BOOLEAN, since : Nat, anchor : Nat,
              missing : Nat, filled : BOOLEAN, until : Nat]
PanelType == [uid : Uids \cup {NoUid}, here : BOOLEAN, born : Nat]
SyncType  == [pc : {"idle", "listed", "apply"}, for : Users \cup {Nobody},
              seen : SUBSET Vms, uid : Uids \cup {NoUid}, known : SUBSET Vms]
FormType  == [pc : {"idle", "checked"}, uid : Uids \cup {NoUid}]

Types ==
    /\ now \in 0..MaxHours
    /\ panel \in [Vms -> PanelType] /\ cfg \in [Users -> CfgType]
    /\ balance \in [Users -> Int] /\ row \in [Users -> [Vms -> RowType]]
    /\ uLock \in [Users -> Workers \cup {Nobody}]
    /\ sync \in [Workers -> SyncType] /\ form \in [Users -> FormType]
    /\ copy \in [Users -> CfgType]
    /\ billed \in [Users -> [Vms -> Int]] /\ owing \in [Users -> Int]
    /\ raced \in BOOLEAN

(* Whoever is active has a uid of the panel.                               *)
KnownUids ==
    \A u \in Users : /\ cfg[u].active => cfg[u].uid \in Uids
                     /\ copy[u].active => copy[u].uid \in Uids
                     /\ form[u].pc = "checked" => form[u].uid \in Uids

Apart == raced \/ \A a, b \in Users :
            cfg[a].active /\ cfg[b].active /\ cfg[a].uid = cfg[b].uid => a = b

(* What a synchronisation has seen is of the uid it has asked for, and     *)
(* under the lock of its user that is his uid.                             *)
Seen ==
    \A w \in Workers : sync[w].pc # "idle" =>
      /\ sync[w].for \in Users /\ sync[w].uid \in Uids
      /\ \A v \in sync[w].seen : panel[v].uid = sync[w].uid
      /\ sync[w].pc = "apply" => /\ uLock[sync[w].for] = w
                                 /\ cfg[sync[w].for].active
                                 /\ cfg[sync[w].for].uid = sync[w].uid

(* A machine it is about to register has no live row with its user, and,   *)
(* unless the check was raced, none with anybody.                          *)
Unregistered ==
    \A w \in Workers : sync[w].pc = "apply" =>
      \A v \in sync[w].seen \ sync[w].known :
        /\ ~row[sync[w].for][v].live
        /\ raced \/ \A u \in Users : ~row[u][v].live

OneRow == raced \/ \A v \in Vms : \A a, b \in Users :
             row[a][v].live /\ row[b][v].live => a = b

(* What was charged for a machine born at b, at the time t: the hours until*)
(* its rows were closed, when it has no live row; otherwise the hours up to*)
(* the anchor, as soon as the hours before the row have been filled.       *)
Before(r, b) == IF r.until > b THEN r.until - b ELSE 0
Paid(r, n, b, t) ==
    IF ~r.live THEN r.until <= t /\ n <= Before(r, b)
    ELSE /\ b < r.since /\ r.until <= r.since /\ r.since <= r.anchor
         /\ r.anchor <= t
         /\ n <= IF r.filled THEN r.anchor - b ELSE Before(r, b) + (r.anchor - r.since)

Hours == /\ \A v \in Vms : panel[v].born = Never \/ panel[v].born <= now
         /\ \A u \in Users, v \in Vms :
               Paid(row[u][v], billed[u][v], panel[v].born, now)

IInv == /\ Types /\ KnownUids /\ Apart /\ Seen /\ Unregistered /\ OneRow
        /\ Hours /\ DebtCollectedOnce

-----------------------------------------------------------------------------
(* The rows that a synchronisation, a debit and a backfill write.          *)
LEMMA RegisteredTyped ==
    ASSUME now \in Nat, Never \in Nat, NEW r \in RowType, NEW p \in BOOLEAN
    PROVE  Registered(r, p) \in RowType
BY DEF Registered, Dead, RowType

LEMMA MissedTyped ==
    ASSUME now \in Nat, Never \in Nat, NEW r \in RowType
    PROVE  /\ Closed(r) \in RowType /\ [r EXCEPT !.missing = now] \in RowType
           /\ Missed(r) \in RowType
<1>1. Closed(r) \in RowType  BY DEF Closed, Dead, RowType
<1>2. [r EXCEPT !.missing = now] \in RowType  BY DEF RowType
<1> QED  BY <1>1, <1>2 DEF Missed

LEMMA KeptTyped ==
    ASSUME now \in Nat, Never \in Nat, NEW r \in RowType
    PROVE  /\ [r EXCEPT !.missing = Never] \in RowType
           /\ [Matched(r) EXCEPT !.missing = Never] \in RowType
<1>1. [r EXCEPT !.missing = Never] \in RowType  BY DEF RowType
<1>2. [Matched(r) EXCEPT !.missing = Never] \in RowType  BY DEF RowType, Matched
<1> QED  BY <1>1, <1>2

LEMMA ChargedTyped ==
    ASSUME NEW r \in RowType
    PROVE  /\ [r EXCEPT !.anchor = r.anchor + 1] \in RowType
           /\ [r EXCEPT !.filled = TRUE] \in RowType
<1>1. [r EXCEPT !.anchor = r.anchor + 1] \in RowType  BY DEF RowType
<1>2. [r EXCEPT !.filled = TRUE] \in RowType  BY DEF RowType
<1> QED  BY <1>1, <1>2

LEMMA Clocks ==
    ResellerAssumption /\ IInv => now \in Nat /\ Never \in Nat /\ now < Never
BY DEF ResellerAssumption, IInv, Types, Never

LEMMA ReconciledTyped ==
    ASSUME ResellerAssumption, IInv, NEW w \in Workers, sync[w].pc = "apply",
           NEW v \in Vms, NEW p \in BOOLEAN
    PROVE  Reconciled(w, v, p) \in RowType
<1> DEFINE r == row[sync[w].for][v]
<1>1. r \in RowType  BY DEF IInv, Seen, Types
<1> HIDE DEF r
<1>2. /\ Registered(r, p) \in RowType /\ Missed(r) \in RowType
  BY <1>1, Clocks, RegisteredTyped, MissedTyped
<1>3. /\ [r EXCEPT !.missing = Never] \in RowType
      /\ [Matched(r) EXCEPT !.missing = Never] \in RowType
  BY <1>1, Clocks, KeptTyped
<1>4. \/ Reconciled(w, v, p) \in {Registered(r, p), r, Missed(r)}
      \/ Reconciled(w, v, p) = [Matched(r) EXCEPT !.missing = Never]
      \/ Reconciled(w, v, p) = [r EXCEPT !.missing = Never]
  <2>1. CASE p /\ ~r.plan  BY <2>1 DEF Reconciled, r
  <2>2. CASE ~(p /\ ~r.plan)  BY <2>2 DEF Reconciled, r
  <2> QED  BY <2>1, <2>2
<1> QED  BY <1>1, <1>2, <1>3, <1>4

(* The actions that write rows; all others leave them and the bills alone. *)
LEMMA WhoWritesRows ==
    [Next]_vars =>
        \/ UNCHANGED <<row, billed>>
        \/ \E w \in Workers : Apply(w)
        \/ \E u \in Users : SwitchOff(u)
        \/ \E u \in Users, v \in Vms : Bill(u, v) \/ Backfill(u, v)
BY DEF Next, vars, PanelCreate, PanelDrop, Fetch, Begin, SyncFails, Check,
       Configure, Load, WriteBack, TopUp, Hour

LEMMA RowsTyped ==
    ResellerAssumption /\ IInv /\ [Next]_vars
      => /\ row' \in [Users -> [Vms -> RowType]]
         /\ billed' \in [Users -> [Vms -> Int]]
<1> SUFFICES ASSUME ResellerAssumption, IInv, [Next]_vars
             PROVE  /\ row' \in [Users -> [Vms -> RowType]]
                    /\ billed' \in [Users -> [Vms -> Int]]
  OBVIOUS
<1>0. /\ row \in [Users -> [Vms -> RowType]] /\ billed \in [Users -> [Vms -> Int]]
      /\ now \in Nat /\ panel \in [Vms -> PanelType]
  BY DEF IInv, Types, ResellerAssumption
<1>1. CASE UNCHANGED <<row, billed>>  BY <1>0, <1>1
<1>2. ASSUME NEW w \in Workers, Apply(w)
      PROVE  /\ row' \in [Users -> [Vms -> RowType]]
             /\ billed' \in [Users -> [Vms -> Int]]
  <2>1. PICK plan \in [Vms -> BOOLEAN] :
           row' = [row EXCEPT ![sync[w].for] =
                     [v \in Vms |-> Reconciled(w, v, plan[v])]]
    BY <1>2 DEF Apply
  <2>2. \A v \in Vms : Reconciled(w, v, plan[v]) \in RowType
    BY <1>2, ReconciledTyped DEF Apply
  <2>3. [v \in Vms |-> Reconciled(w, v, plan[v])] \in [Vms -> RowType]
    BY <2>2
  <2> QED  BY <1>0, <1>2, <2>1, <2>3 DEF Apply
<1>3. ASSUME NEW u \in Users, SwitchOff(u)
      PROVE  /\ row' \in [Users -> [Vms -> RowType]]
             /\ billed' \in [Users -> [Vms -> Int]]
  <2>1. ASSUME NEW v \in Vms PROVE Closed(row[u][v]) \in RowType
    <3>1. row[u][v] \in RowType  BY <1>0
    <3> QED  BY <3>1, Clocks, MissedTyped
  <2>2. [v \in Vms |-> IF row[u][v].live THEN Closed(row[u][v]) ELSE row[u][v]]
        \in [Vms -> RowType]
    BY <1>0, <2>1
  <2>3. row' = [row EXCEPT ![u] = [v \in Vms |->
                  IF row[u][v].live THEN Closed(row[u][v]) ELSE row[u][v]]]
    BY <1>3 DEF SwitchOff
  <2> QED  BY <1>0, <1>3, <2>2, <2>3 DEF SwitchOff
<1>4. ASSUME NEW u \in Users, NEW v \in Vms, Bill(u, v)
      PROVE  /\ row' \in [Users -> [Vms -> RowType]]
             /\ billed' \in [Users -> [Vms -> Int]]
  <2>0. row[u][v] \in RowType  BY <1>0
  <2>1. [row[u][v] EXCEPT !.anchor = row[u][v].anchor + 1] \in RowType
    BY <2>0, ChargedTyped
  <2>2. /\ row' = [row EXCEPT ![u] = [row[u] EXCEPT ![v] =
                     [row[u][v] EXCEPT !.anchor = row[u][v].anchor + 1]]]
        /\ billed' = [billed EXCEPT ![u] = [billed[u] EXCEPT ![v] = billed[u][v] + 1]]
    BY <1>0, <1>4 DEF Bill
  <2> QED  BY <1>0, <2>1, <2>2
<1>5. ASSUME NEW u \in Users, NEW v \in Vms, Backfill(u, v)
      PROVE  /\ row' \in [Users -> [Vms -> RowType]]
             /\ billed' \in [Users -> [Vms -> Int]]
  <2>0. row[u][v] \in RowType  BY <1>0
  <2>1. [row[u][v] EXCEPT !.filled = TRUE] \in RowType  BY <2>0, ChargedTyped
  <2>2. BackfillHours(u, v) \in Int  BY <1>0 DEF BackfillHours, RowType, PanelType
  <2>3. /\ row' = [row EXCEPT ![u] = [row[u] EXCEPT ![v] =
                     [row[u][v] EXCEPT !.filled = TRUE]]]
        /\ billed' = [billed EXCEPT ![u] =
                        [billed[u] EXCEPT ![v] = billed[u][v] + BackfillHours(u, v)]]
    BY <1>0, <1>5 DEF Backfill
  <2> QED  BY <1>0, <2>1, <2>2, <2>3
<1> QED  BY <1>1, <1>2, <1>3, <1>4, <1>5, WhoWritesRows

(* The records of the other variables.                                     *)
LEMMA CfgTyped ==
    ASSUME NEW c \in CfgType, NEW x \in Uids \cup {NoUid}, NEW d \in Int
    PROVE  /\ [c EXCEPT !.active = TRUE, !.uid = x] \in CfgType
           /\ [c EXCEPT !.active = FALSE, !.debt = 0] \in CfgType
           /\ [c EXCEPT !.debt = d] \in CfgType /\ NoCfg \in CfgType
<1>1. [c EXCEPT !.active = TRUE, !.uid = x] \in CfgType  BY DEF CfgType
<1>2. [c EXCEPT !.active = FALSE, !.debt = 0] \in CfgType
  <2>1. [c EXCEPT !.active = FALSE] \in CfgType  BY DEF CfgType
  <2>2. \A e \in CfgType : [e EXCEPT !.debt = 0] \in CfgType  BY DEF CfgType
  <2>3. [[c EXCEPT !.active = FALSE] EXCEPT !.debt = 0]
          = [c EXCEPT !.active = FALSE, !.debt = 0]
    BY DEF CfgType
  <2> QED  BY <2>1, <2>2, <2>3
<1>3. [c EXCEPT !.debt = d] \in CfgType  BY DEF CfgType
<1>4. NoCfg \in CfgType  BY DEF CfgType, NoCfg
<1> QED  BY <1>1, <1>2, <1>3, <1>4

LEMMA SyncTyped ==
    ASSUME NEW s \in SyncType, NEW u \in Users, NEW x \in Uids \cup {NoUid},
           NEW V \in SUBSET Vms
    PROVE  /\ [NoSync EXCEPT !.pc = "listed", !.for = u, !.uid = x, !.seen = V]
                 \in SyncType
           /\ [s EXCEPT !.pc = "apply", !.known = V] \in SyncType
           /\ NoSync \in SyncType
<1>1. [NoSync EXCEPT !.pc = "listed", !.for = u, !.uid = x, !.seen = V] \in SyncType
  BY DEF SyncType, NoSync
<1>2. [s EXCEPT !.pc = "apply", !.known = V] \in SyncType  BY DEF SyncType
<1>3. NoSync \in SyncType  BY DEF SyncType, NoSync
<1> QED  BY <1>1, <1>2, <1>3

LEMMA PanelTyped ==
    ASSUME now \in Nat, NEW q \in PanelType, NEW x \in Uids
    PROVE  /\ [uid |-> x, here |-> TRUE, born |-> Lesser(q.born, now)] \in PanelType
           /\ [q EXCEPT !.here = FALSE] \in PanelType
<1>1. [uid |-> x, here |-> TRUE, born |-> Lesser(q.born, now)] \in PanelType
  BY DEF PanelType, Lesser
<1>2. [q EXCEPT !.here = FALSE] \in PanelType  BY DEF PanelType
<1> QED  BY <1>1, <1>2

(* What each action that changes configurations makes of them.             *)
LEMMA CfgWritten ==
    ASSUME ResellerAssumption, IInv, [Next]_vars
    PROVE  \/ cfg' = cfg
           \/ \E w \in Workers : Apply(w) /\ sync[w].for \in Users
                /\ cfg' = [cfg EXCEPT ![sync[w].for] = [cfg[sync[w].for] EXCEPT !.debt =
                      cfg[sync[w].for].debt - Lesser(cfg[sync[w].for].debt, balance[sync[w].for])]]
           \/ \E u \in Users, v \in Vms : Backfill(u, v)
                /\ cfg' = [cfg EXCEPT ![u] = [cfg[u] EXCEPT !.debt =
                      cfg[u].debt + BackfillHours(u, v) - Lesser(BackfillHours(u, v), balance[u])]]
           \/ \E u \in Users : Configure(u)
                /\ cfg' = [cfg EXCEPT ![u] = [cfg[u] EXCEPT !.active = TRUE, !.uid = form[u].uid]]
           \/ \E u \in Users : SwitchOff(u)
                /\ cfg' = [cfg EXCEPT ![u] = [cfg[u] EXCEPT !.active = FALSE, !.debt = 0]]
           \/ \E u \in Users : WriteBack(u) /\ cfg' = [cfg EXCEPT ![u] = copy[u]]
<1>1. \/ cfg' = cfg
      \/ \E w \in Workers : Apply(w)
      \/ \E u \in Users, v \in Vms : Backfill(u, v)
      \/ \E u \in Users : Configure(u) \/ SwitchOff(u) \/ WriteBack(u)
  BY DEF Next, vars, PanelCreate, PanelDrop, Fetch, Begin, SyncFails, Check, Load,
         TopUp, Hour, Bill
<1>2. cfg \in [Users -> CfgType]  BY DEF IInv, Types
<1>3. ASSUME NEW w \in Workers, Apply(w)
      PROVE  /\ sync[w].for \in Users
             /\ cfg' = [cfg EXCEPT ![sync[w].for] = [cfg[sync[w].for] EXCEPT !.debt =
                  cfg[sync[w].for].debt - Lesser(cfg[sync[w].for].debt, balance[sync[w].for])]]
  BY <1>2, <1>3 DEF Apply, DebtLess, IInv, Seen
<1>4. ASSUME NEW u \in Users, NEW v \in Vms, Backfill(u, v)
      PROVE  cfg' = [cfg EXCEPT ![u] = [cfg[u] EXCEPT !.debt =
                cfg[u].debt + BackfillHours(u, v) - Lesser(BackfillHours(u, v), balance[u])]]
  BY <1>2, <1>4 DEF Backfill
<1>5. ASSUME NEW u \in Users, Configure(u)
      PROVE  cfg' = [cfg EXCEPT ![u] = [cfg[u] EXCEPT !.active = TRUE, !.uid = form[u].uid]]
  BY <1>2, <1>5 DEF Configure
<1>6. ASSUME NEW u \in Users, SwitchOff(u)
      PROVE  cfg' = [cfg EXCEPT ![u] = [cfg[u] EXCEPT !.active = FALSE, !.debt = 0]]
  BY <1>2, <1>6 DEF SwitchOff
<1>7. ASSUME NEW u \in Users, WriteBack(u)
      PROVE  cfg' = [cfg EXCEPT ![u] = copy[u]]
  BY <1>2, <1>7 DEF WriteBack
<1> QED  BY <1>1, <1>3, <1>4, <1>5, <1>6, <1>7

LEMMA CfgStaysTyped ==
    ASSUME ResellerAssumption, IInv, [Next]_vars
    PROVE  cfg' \in [Users -> CfgType]
<1>0. /\ cfg \in [Users -> CfgType] /\ copy \in [Users -> CfgType]
      /\ balance \in [Users -> Int] /\ form \in [Users -> FormType]
      /\ row \in [Users -> [Vms -> RowType]] /\ panel \in [Vms -> PanelType]
  BY DEF IInv, Types
<1>1. ASSUME NEW u \in Users PROVE cfg[u].debt \in Int /\ cfg[u] \in CfgType
                                  /\ form[u].uid \in Uids \cup {NoUid}
  BY <1>0 DEF CfgType, FormType
<1>2. ASSUME NEW u \in Users, NEW d \in Int, cfg' = [cfg EXCEPT ![u] = [cfg[u] EXCEPT !.debt = d]]
      PROVE  cfg' \in [Users -> CfgType]
  <2>1. [cfg[u] EXCEPT !.debt = d] \in CfgType  BY <1>1, CfgTyped
  <2> QED  BY <1>0, <1>2, <2>1
<1>3. ASSUME NEW u \in Users, NEW v \in Vms
      PROVE  BackfillHours(u, v) \in Int
  BY <1>0 DEF BackfillHours, RowType, PanelType
<1>4. ASSUME NEW u \in Users, cfg' = [cfg EXCEPT ![u] = [cfg[u] EXCEPT !.active = TRUE, !.uid = form[u].uid]]
      PROVE  cfg' \in [Users -> CfgType]
  <2>1. [cfg[u] EXCEPT !.active = TRUE, !.uid = form[u].uid] \in CfgType
    BY <1>1, CfgTyped
  <2> QED  BY <1>0, <1>4, <2>1
<1>5. ASSUME NEW u \in Users, cfg' = [cfg EXCEPT ![u] = [cfg[u] EXCEPT !.active = FALSE, !.debt = 0]]
      PROVE  cfg' \in [Users -> CfgType]
  <2>1. [cfg[u] EXCEPT !.active = FALSE, !.debt = 0] \in CfgType  BY <1>1, CfgTyped
  <2> QED  BY <1>0, <1>5, <2>1
<1>6. CASE cfg' = cfg  BY <1>0, <1>6
<1>7. ASSUME NEW u \in Users, cfg' = [cfg EXCEPT ![u] = copy[u]]
      PROVE  cfg' \in [Users -> CfgType]
  BY <1>0, <1>7
<1>8. ASSUME NEW w \in Workers, sync[w].for \in Users,
             cfg' = [cfg EXCEPT ![sync[w].for] = [cfg[sync[w].for] EXCEPT !.debt =
                  cfg[sync[w].for].debt - Lesser(cfg[sync[w].for].debt, balance[sync[w].for])]]
      PROVE  cfg' \in [Users -> CfgType]
  <2>1. cfg[sync[w].for].debt - Lesser(cfg[sync[w].for].debt, balance[sync[w].for]) \in Int
    BY <1>0, <1>1, <1>8 DEF Lesser
  <2> QED  BY <1>2, <1>8, <2>1
<1>9. ASSUME NEW u \in Users, NEW v \in Vms,
             cfg' = [cfg EXCEPT ![u] = [cfg[u] EXCEPT !.debt =
                cfg[u].debt + BackfillHours(u, v) - Lesser(BackfillHours(u, v), balance[u])]]
      PROVE  cfg' \in [Users -> CfgType]
  <2>1. cfg[u].debt + BackfillHours(u, v) - Lesser(BackfillHours(u, v), balance[u]) \in Int
    BY <1>0, <1>1, <1>3 DEF Lesser
  <2> QED  BY <1>2, <1>9, <2>1
<1> QED  BY <1>4, <1>5, <1>6, <1>7, <1>8, <1>9, CfgWritten

LEMMA PanelStaysTyped ==
    ASSUME ResellerAssumption, IInv, [Next]_vars
    PROVE  panel' \in [Vms -> PanelType] /\ now' \in 0..MaxHours
<1>0. panel \in [Vms -> PanelType] /\ now \in 0..MaxHours /\ now \in Nat
  BY DEF IInv, Types, ResellerAssumption
<1>1. ASSUME NEW v \in Vms, NEW x \in Uids, PanelCreate(v, x)
      PROVE  panel' \in [Vms -> PanelType] /\ now' = now
  <2>1. [uid |-> x, here |-> TRUE, born |-> Lesser(panel[v].born, now)] \in PanelType
    <3>1. panel[v] \in PanelType  BY <1>0
    <3> QED  BY <1>0, <3>1, PanelTyped
  <2> QED  BY <1>0, <1>1, <2>1 DEF PanelCreate
<1>2. ASSUME NEW v \in Vms, PanelDrop(v)
      PROVE  panel' \in [Vms -> PanelType] /\ now' = now
  <2>1. [panel[v] EXCEPT !.here = FALSE] \in PanelType
    <3>1. panel[v] \in PanelType  BY <1>0
    <3> QED  BY <3>1 DEF PanelType
  <2>2. panel' = [panel EXCEPT ![v] = [panel[v] EXCEPT !.here = FALSE]]
    BY <1>0, <1>2 DEF PanelDrop
  <2> QED  BY <1>0, <1>2, <2>1, <2>2 DEF PanelDrop
<1>3. CASE Hour  BY <1>0, <1>3 DEF Hour, ResellerAssumption
<1>4. CASE UNCHANGED <<panel, now>>  BY <1>0, <1>4
<1>5. \/ UNCHANGED <<panel, now>> \/ Hour
      \/ \E v \in Vms : PanelDrop(v) \/ \E x \in Uids : PanelCreate(v, x)
  BY DEF Next, vars, Fetch, Begin, Apply, SyncFails, Check, Configure, SwitchOff, Load,
         WriteBack, TopUp, Bill, Backfill
<1> QED  BY <1>0, <1>1, <1>2, <1>3, <1>4, <1>5

LEMMA SyncStaysTyped ==
    ASSUME ResellerAssumption, IInv, [Next]_vars
    PROVE  sync' \in [Workers -> SyncType] /\ uLock' \in [Users -> Workers \cup {Nobody}]
<1>0. /\ sync \in [Workers -> SyncType] /\ cfg \in [Users -> CfgType]
      /\ uLock \in [Users -> Workers \cup {Nobody}]
  BY DEF IInv, Types
<1>1. ASSUME NEW w \in Workers, NEW u \in Users, Fetch(w, u)
      PROVE  sync' \in [Workers -> SyncType] /\ uLock' = uLock
  <2> DEFINE s == [NoSync EXCEPT !.pc = "listed", !.for = u,
                     !.uid = cfg[u].uid, !.seen = Listed(cfg[u].uid)]
  <2>1. s \in SyncType
    <3>1. cfg[u].uid \in Uids \cup {NoUid}  BY <1>0 DEF CfgType
    <3>2. Listed(cfg[u].uid) \in SUBSET Vms  BY DEF Listed
    <3> QED  BY <3>1, <3>2 DEF SyncType, NoSync
  <2>2. sync' = [sync EXCEPT ![w] = s] /\ uLock' = uLock  BY <1>1 DEF Fetch
  <2> HIDE DEF s
  <2> QED  BY <1>0, <2>1, <2>2
<1>2. NoSync \in SyncType  BY DEF NoSync, SyncType
<1>3. ASSUME NEW w \in Workers, Begin(w)
      PROVE  sync' \in [Workers -> SyncType] /\ uLock' \in [Users -> Workers \cup {Nobody}]
  <2>1. CASE sync' = [sync EXCEPT ![w] = NoSync] /\ uLock' = uLock
    BY <1>0, <1>2, <2>1
  <2>2. CASE /\ uLock' = [uLock EXCEPT ![sync[w].for] = w]
             /\ sync' = [sync EXCEPT ![w].pc = "apply", ![w].known = LiveVms]
    <3>1. [sync[w] EXCEPT !.pc = "apply", !.known = LiveVms] \in SyncType
      <4>1. LiveVms \in SUBSET Vms  BY DEF LiveVms
      <4>2. sync[w] \in SyncType  BY <1>0
      <4> QED  BY <4>1, <4>2 DEF SyncType
    <3>2. sync' = [sync EXCEPT ![w] = [sync[w] EXCEPT !.pc = "apply", !.known = LiveVms]]
      BY <1>0, <2>2
    <3>3. uLock' \in [Users -> Workers \cup {Nobody}]  BY <1>0, <2>2
    <3> QED  BY <1>0, <3>1, <3>2, <3>3
  <2> QED  BY <1>3, <2>1, <2>2 DEF Begin
<1>4. ASSUME NEW w \in Workers, Apply(w) \/ SyncFails(w)
      PROVE  sync' \in [Workers -> SyncType] /\ uLock' \in [Users -> Workers \cup {Nobody}]
  <2>1. sync' = [sync EXCEPT ![w] = NoSync]  BY <1>4 DEF Apply, SyncFails
  <2>2. uLock' \in [Users -> Workers \cup {Nobody}]  BY <1>0, <1>4 DEF Apply, SyncFails
  <2> QED  BY <1>0, <1>2, <2>1, <2>2
<1>5. \/ UNCHANGED <<sync, uLock>>
      \/ \E w \in Workers : \/ Begin(w) \/ Apply(w) \/ SyncFails(w)
                            \/ \E u \in Users : Fetch(w, u)
  BY DEF Next, vars, PanelCreate, PanelDrop, Check, Configure, SwitchOff, Load,
         WriteBack, TopUp, Hour, Bill, Backfill
<1> QED  BY <1>0, <1>1, <1>3, <1>4, <1>5

LEMMA FormsStayTyped ==
    ASSUME ResellerAssumption, IInv, [Next]_vars
    PROVE  /\ form' \in [Users -> FormType] /\ copy' \in [Users -> CfgType]
           /\ raced' \in BOOLEAN
<1>0. /\ form \in [Users -> FormType] /\ copy \in [Users -> CfgType]
      /\ cfg \in [Users -> CfgType] /\ raced \in BOOLEAN
  BY DEF IInv, Types
<1>1. /\ NoForm \in FormType /\ NoCfg \in CfgType
      /\ \A x \in Uids : [pc |-> "checked", uid |-> x] \in FormType
  BY DEF NoForm, FormType, NoCfg, CfgType
<1>2. ASSUME NEW u \in Users, NEW x \in Uids, Check(u, x)
      PROVE  /\ form' \in [Users -> FormType] /\ copy' = copy /\ raced' = raced
  BY <1>0, <1>1, <1>2 DEF Check
<1>3. ASSUME NEW u \in Users, Configure(u)
      PROVE  /\ form' \in [Users -> FormType] /\ copy' = copy /\ raced' \in BOOLEAN
  BY <1>0, <1>1, <1>3 DEF Configure
<1>4. ASSUME NEW u \in Users, Load(u)
      PROVE  /\ form' = form /\ copy' \in [Users -> CfgType] /\ raced' = raced
  BY <1>0, <1>4 DEF Load
<1>5. ASSUME NEW u \in Users, WriteBack(u)
      PROVE  /\ form' = form /\ copy' \in [Users -> CfgType] /\ raced' \in BOOLEAN
  BY <1>0, <1>1, <1>5 DEF WriteBack
<1>6. \/ UNCHANGED <<form, copy, raced>>
      \/ \E u \in Users : \/ Configure(u) \/ Load(u) \/ WriteBack(u)
                          \/ \E x \in Uids : Check(u, x)
  BY DEF Next, vars, PanelCreate, PanelDrop, Fetch, Begin, Apply, SyncFails, SwitchOff,
         TopUp, Hour, Bill, Backfill
<1> QED  BY <1>0, <1>2, <1>3, <1>4, <1>5, <1>6

LEMMA MoneyStaysTyped ==
    ASSUME ResellerAssumption, IInv, [Next]_vars
    PROVE  balance' \in [Users -> Int] /\ owing' \in [Users -> Int]
<1>0. /\ balance \in [Users -> Int] /\ owing \in [Users -> Int]
      /\ row \in [Users -> [Vms -> RowType]] /\ panel \in [Vms -> PanelType]
  BY DEF IInv, Types
<1>1. ASSUME NEW w \in Workers, Apply(w)
      PROVE  balance' \in [Users -> Int] /\ owing' \in [Users -> Int]
  <2>1. cfg[sync[w].for].debt \in Int /\ sync[w].for \in Users
    BY <1>1 DEF Apply, IInv, Types, Seen, CfgType
  <2>2. Lesser(cfg[sync[w].for].debt, balance[sync[w].for]) \in Int
    BY <1>0, <2>1 DEF Lesser
  <2> QED  BY <1>0, <1>1, <2>1, <2>2 DEF Apply
<1>2. ASSUME NEW u \in Users, NEW v \in Vms, Backfill(u, v)
      PROVE  balance' \in [Users -> Int] /\ owing' \in [Users -> Int]
  <2>1. BackfillHours(u, v) \in Int  BY <1>0 DEF BackfillHours, RowType, PanelType
  <2>2. Lesser(BackfillHours(u, v), balance[u]) \in Int  BY <1>0, <2>1 DEF Lesser
  <2> QED  BY <1>0, <1>2, <2>1, <2>2 DEF Backfill
<1>3. ASSUME NEW u \in Users, NEW v \in Vms, Bill(u, v)
      PROVE  balance' \in [Users -> Int] /\ owing' = owing
  BY <1>0, <1>3 DEF Bill
<1>4. ASSUME NEW u \in Users, SwitchOff(u)
      PROVE  balance' = balance /\ owing' \in [Users -> Int]
  BY <1>0, <1>4 DEF SwitchOff
<1>5. ASSUME NEW u \in Users, TopUp(u)
      PROVE  balance' \in [Users -> Int] /\ owing' = owing
  BY <1>0, <1>5 DEF TopUp
<1>6. \/ UNCHANGED <<balance, owing>>
      \/ \E w \in Workers : Apply(w)
      \/ \E u \in Users : \/ SwitchOff(u) \/ TopUp(u)
                          \/ \E v \in Vms : Bill(u, v) \/ Backfill(u, v)
  BY DEF Next, vars, PanelCreate, PanelDrop, Fetch, Begin, SyncFails, Check, Configure,
         Load, WriteBack, Hour
<1> QED  BY <1>0, <1>1, <1>2, <1>3, <1>4, <1>5, <1>6

LEMMA TypesStay ==
    ASSUME ResellerAssumption, IInv, [Next]_vars
    PROVE  Types'
BY RowsTyped, CfgStaysTyped, PanelStaysTyped, SyncStaysTyped, FormsStayTyped,
   MoneyStaysTyped DEF Types

-----------------------------------------------------------------------------
(* The protocol.  Whether a reseller is active and with which uid changes  *)
(* only while his row is not locked.                                       *)
Steady(a) == cfg'[a].active = cfg[a].active /\ cfg'[a].uid = cfg[a].uid

LEMMA CfgMoves ==
    ASSUME ResellerAssumption, IInv, [Next]_vars, NEW a \in Users
    PROVE  \/ Steady(a)
           \/ Configure(a) /\ cfg'[a].active /\ cfg'[a].uid = form[a].uid
           \/ SwitchOff(a) /\ ~cfg'[a].active
           \/ WriteBack(a) /\ cfg'[a] = copy[a]
<1>0. cfg \in [Users -> CfgType]  BY DEF IInv, Types
<1>1. ASSUME NEW u \in Users, NEW d, cfg' = [cfg EXCEPT ![u] = [cfg[u] EXCEPT !.debt = d]]
      PROVE  Steady(a)
  BY <1>0, <1>1 DEF Steady, CfgType
<1>2. ASSUME NEW u \in Users, Configure(u),
             cfg' = [cfg EXCEPT ![u] = [cfg[u] EXCEPT !.active = TRUE, !.uid = form[u].uid]]
      PROVE  Steady(a) \/ (a = u /\ cfg'[a].active /\ cfg'[a].uid = form[a].uid)
  BY <1>0, <1>2 DEF Steady, CfgType
<1>3. ASSUME NEW u \in Users,
             cfg' = [cfg EXCEPT ![u] = [cfg[u] EXCEPT !.active = FALSE, !.debt = 0]]
      PROVE  Steady(a) \/ (a = u /\ ~cfg'[a].active)
  BY <1>0, <1>3 DEF Steady, CfgType
<1>4. ASSUME NEW u \in Users, cfg' = [cfg EXCEPT ![u] = copy[u]]
      PROVE  Steady(a) \/ (a = u /\ cfg'[a] = copy[a])
  BY <1>0, <1>4 DEF Steady
<1>5. CASE cfg' = cfg  BY <1>5 DEF Steady
<1> QED  BY <1>1, <1>2, <1>3, <1>4, <1>5, CfgWritten

LEMMA KnownUidsStay ==
    ASSUME ResellerAssumption, IInv, [Next]_vars
    PROVE  KnownUids'
<1>0. /\ form \in [Users -> FormType] /\ copy \in [Users -> CfgType]
      /\ KnownUids
  BY DEF IInv, Types
<1> SUFFICES ASSUME NEW a \in Users
             PROVE  /\ cfg'[a].active => cfg'[a].uid \in Uids
                    /\ copy'[a].active => copy'[a].uid \in Uids
                    /\ form'[a].pc = "checked" => form'[a].uid \in Uids
  BY DEF KnownUids
<1>1. cfg'[a].active => cfg'[a].uid \in Uids
  BY <1>0, CfgMoves DEF KnownUids, Steady, Configure
<1>2. copy'[a].active => copy'[a].uid \in Uids
  <2>1. \/ copy' = copy
        \/ \E u \in Users : copy' = [copy EXCEPT ![u] = cfg[u]]
        \/ \E u \in Users : copy' = [copy EXCEPT ![u] = NoCfg]
    BY DEF Next, vars, PanelCreate, PanelDrop, Fetch, Begin, Apply, SyncFails, Check,
           Configure, SwitchOff, TopUp, Hour, Bill, Backfill, Load, WriteBack
  <2>2. ~NoCfg.active  BY DEF NoCfg
  <2>3. \/ copy'[a] = copy[a] \/ copy'[a] = cfg[a] \/ copy'[a] = NoCfg
    BY <1>0, <2>1
  <2> QED  BY <1>0, <2>2, <2>3 DEF KnownUids
<1>3. form'[a].pc = "checked" => form'[a].uid \in Uids
  <2>1. \/ form' = form
        \/ \E u \in Users : form' = [form EXCEPT ![u] = NoForm]
        \/ \E u \in Users, x \in Uids :
              form' = [form EXCEPT ![u] = [pc |-> "checked", uid |-> x]]
    BY DEF Next, vars, PanelCreate, PanelDrop, Fetch, Begin, Apply, SyncFails, Check,
           Configure, SwitchOff, TopUp, Hour, Bill, Backfill, Load, WriteBack
  <2>2. NoForm.pc # "checked"  BY DEF NoForm
  <2>3. \/ form'[a] = form[a] \/ form'[a] = NoForm
        \/ \E x \in Uids : form'[a] = [pc |-> "checked", uid |-> x]
    BY <1>0, <2>1
  <2>4. CASE form'[a] = form[a]  BY <1>0, <2>4 DEF KnownUids
  <2>5. CASE form'[a] = NoForm  BY <2>2, <2>5
  <2>6. CASE \E x \in Uids : form'[a] = [pc |-> "checked", uid |-> x]  BY <2>6
  <2> QED  BY <2>3, <2>4, <2>5, <2>6
<1> QED  BY <1>1, <1>2, <1>3

LEMMA ApartStays ==
    ASSUME ResellerAssumption, IInv, [Next]_vars
    PROVE  Apart'
<1>0. raced => raced'
  BY DEF Next, vars, PanelCreate, PanelDrop, Fetch, Begin, Apply, SyncFails, Check,
         Configure, SwitchOff, TopUp, Hour, Bill, Backfill, Load, WriteBack
<1> SUFFICES ASSUME ~raced', NEW a \in Users, NEW b \in Users,
                    cfg'[a].active, cfg'[b].active, cfg'[a].uid = cfg'[b].uid
             PROVE  a = b
  BY DEF Apart
<1>1. ~raced /\ \A c, d \in Users :
         cfg[c].active /\ cfg[d].active /\ cfg[c].uid = cfg[d].uid => c = d
  BY <1>0 DEF IInv, Apart
<1>2. ASSUME NEW u \in Users, Configure(u) \/ WriteBack(u)
      PROVE  \A c \in Users \ {u} : cfg'[c] = cfg[c]
  BY <1>2 DEF Configure, WriteBack, IInv, Types
<1>3. ASSUME NEW u \in Users, Configure(u)
      PROVE  ~Clash(u, form[u].uid)
  BY <1>3 DEF Configure
<1>4. ASSUME NEW u \in Users, WriteBack(u), copy[u].active
      PROVE  ~Clash(u, copy[u].uid)
  BY <1>4 DEF WriteBack
<1>5. ASSUME NEW c \in Users, NEW d \in Users, c # d, ~Steady(c),
             cfg'[c].active, cfg'[d].active, cfg'[c].uid = cfg'[d].uid
      PROVE  FALSE
  <2>1. cfg'[d] = cfg[d] /\ ~Clash(c, cfg'[c].uid)
    BY <1>2, <1>3, <1>4, <1>5, CfgMoves
  <2> QED  BY <1>5, <2>1 DEF Clash
<1> QED  BY <1>1, <1>5 DEF Steady

LEMMA SyncMoves ==
    ASSUME ResellerAssumption, IInv, [Next]_vars, NEW w \in Workers
    PROVE  \/ sync'[w] = sync[w]
           \/ Fetch(w, sync'[w].for) /\ sync'[w].for \in Users
                /\ sync'[w].pc = "listed" /\ sync'[w].uid = cfg[sync'[w].for].uid
                /\ sync'[w].seen = Listed(sync'[w].uid)
           \/ /\ Begin(w) /\ SameReseller(w) /\ sync'[w].pc = "apply"
              /\ sync'[w].for = sync[w].for /\ sync'[w].uid = sync[w].uid
              /\ sync'[w].seen = sync[w].seen /\ sync'[w].known = LiveVms
              /\ uLock' = [uLock EXCEPT ![sync[w].for] = w]
           \/ sync'[w].pc = "idle"
<1>0. sync \in [Workers -> SyncType]  BY DEF IInv, Types
<1>1. ASSUME NEW x \in Workers, NEW u \in Users, Fetch(x, u)
      PROVE  \/ sync'[w] = sync[w]
             \/ Fetch(w, sync'[w].for) /\ sync'[w].for \in Users
                  /\ sync'[w].pc = "listed" /\ sync'[w].uid = cfg[sync'[w].for].uid
                  /\ sync'[w].seen = Listed(sync'[w].uid)
  <2>1. sync' = [sync EXCEPT ![x] = [NoSync EXCEPT !.pc = "listed", !.for = u,
                  !.uid = cfg[u].uid, !.seen = Listed(cfg[u].uid)]]
    BY <1>1 DEF Fetch
  <2>2. CASE x # w  BY <1>0, <2>1, <2>2
  <2>3. CASE x = w
    <3>1. sync'[w] = [pc |-> "listed", for |-> u, seen |-> Listed(cfg[u].uid),
                      uid |-> cfg[u].uid, known |-> {}]
      BY <1>0, <2>1, <2>3 DEF NoSync
    <3> QED  BY <1>1, <2>3, <3>1
  <2> QED  BY <2>2, <2>3
<1>2. ASSUME NEW x \in Workers, Begin(x), x = w, sync'[w].pc # "idle"
      PROVE  /\ SameReseller(w) /\ sync'[w].pc = "apply"
             /\ sync'[w].for = sync[w].for /\ sync'[w].uid = sync[w].uid
             /\ sync'[w].seen = sync[w].seen /\ sync'[w].known = LiveVms
             /\ uLock' = [uLock EXCEPT ![sync[w].for] = w]
  <2>1. SameReseller(w)  BY <1>0, <1>2 DEF Begin, NoSync
  <2>2. /\ sync' = [sync EXCEPT ![w].pc = "apply", ![w].known = LiveVms]
        /\ uLock' = [uLock EXCEPT ![sync[w].for] = w]
    BY <1>2, <2>1 DEF Begin
  <2>3. sync'[w] = [sync[w] EXCEPT !.pc = "apply", !.known = LiveVms]
    BY <1>0, <2>2
  <2> QED  BY <1>0, <2>1, <2>2, <2>3 DEF SyncType
<1>3. ASSUME NEW x \in Workers, Begin(x), x # w
      PROVE  sync'[w] = sync[w]
  BY <1>0, <1>3 DEF Begin
<1>4. ASSUME NEW x \in Workers, Apply(x) \/ SyncFails(x)
      PROVE  sync'[w] = sync[w] \/ sync'[w].pc = "idle"
  <2>1. sync' = [sync EXCEPT ![x] = NoSync]  BY <1>4 DEF Apply, SyncFails
  <2> QED  BY <1>0, <2>1 DEF NoSync
<1>5. \/ UNCHANGED sync
      \/ \E x \in Workers : \/ Begin(x) \/ Apply(x) \/ SyncFails(x)
                            \/ \E u \in Users : Fetch(x, u)
  BY DEF Next, vars, PanelCreate, PanelDrop, Check, Configure, SwitchOff, Load,
         WriteBack, TopUp, Hour, Bill, Backfill
<1> QED  BY <1>1, <1>2, <1>3, <1>4, <1>5

LEMMA LocksKept ==
    ASSUME ResellerAssumption, IInv, [Next]_vars, NEW w \in Workers,
           sync[w].pc = "apply", sync'[w] = sync[w]
    PROVE  uLock'[sync[w].for] = w /\ Steady(sync[w].for)
<1>0. /\ sync \in [Workers -> SyncType] /\ uLock \in [Users -> Workers \cup {Nobody}]
      /\ sync[w].for \in Users /\ uLock[sync[w].for] = w /\ w # Nobody
      /\ ~Free(sync[w].for)
  BY DEF IInv, Types, Seen, ResellerAssumption, Free
<1>1. Steady(sync[w].for)
  BY <1>0, CfgMoves DEF Configure, SwitchOff, WriteBack
<1>2. ASSUME NEW x \in Workers, Begin(x)
      PROVE  uLock'[sync[w].for] = w
  BY <1>0, <1>2 DEF Begin
<1>3. ASSUME NEW x \in Workers, Apply(x)
      PROVE  uLock'[sync[w].for] = w
  <2>1. x # w
    <3>1. sync' = [sync EXCEPT ![x] = NoSync] /\ NoSync.pc = "idle"
      BY <1>3 DEF Apply, NoSync
    <3> QED  BY <1>0, <3>1
  <2>2. uLock[sync[x].for] = x  BY <1>3 DEF Apply, IInv, Seen
  <2> QED  BY <1>0, <1>3, <2>1, <2>2 DEF Apply
<1>4. ASSUME NEW x \in Workers, SyncFails(x)
      PROVE  uLock'[sync[w].for] = w
  <2>1. x # w
    <3>1. sync' = [sync EXCEPT ![x] = NoSync] /\ NoSync.pc = "idle"
      BY <1>4 DEF SyncFails, NoSync
    <3> QED  BY <1>0, <3>1
  <2> QED  BY <1>0, <1>4, <2>1 DEF SyncFails
<1>5. uLock' = uLock \/ \E x \in Workers : Begin(x) \/ Apply(x) \/ SyncFails(x)
  BY DEF Next, vars, PanelCreate, PanelDrop, Fetch, Check, Configure, SwitchOff, Load,
         WriteBack, TopUp, Hour, Bill, Backfill
<1> QED  BY <1>0, <1>1, <1>2, <1>3, <1>4, <1>5

(* A machine keeps its owner.                                              *)
LEMMA OwnersKept ==
    ASSUME ResellerAssumption, IInv, [Next]_vars, NEW v \in Vms, panel[v].uid \in Uids
    PROVE  panel'[v].uid = panel[v].uid
<1>0. panel \in [Vms -> PanelType] /\ NoUid \notin Uids
  BY DEF IInv, Types, ResellerAssumption
<1>1. ASSUME NEW m \in Vms, NEW x \in Uids, PanelCreate(m, x)
      PROVE  panel'[v].uid = panel[v].uid
  BY <1>0, <1>1 DEF PanelCreate
<1>2. ASSUME NEW m \in Vms, PanelDrop(m)
      PROVE  panel'[v].uid = panel[v].uid
  BY <1>0, <1>2 DEF PanelDrop, PanelType
<1>3. UNCHANGED panel \/ \E m \in Vms : PanelDrop(m) \/ \E x \in Uids : PanelCreate(m, x)
  BY DEF Next, vars, Fetch, Begin, Apply, SyncFails, Check, Configure, SwitchOff, Load,
         WriteBack, TopUp, Hour, Bill, Backfill
<1> QED  BY <1>1, <1>2, <1>3

LEMMA SeenStays ==
    ASSUME ResellerAssumption, IInv, [Next]_vars
    PROVE  Seen'
<1> SUFFICES ASSUME NEW w \in Workers, sync'[w].pc # "idle"
             PROVE  /\ sync'[w].for \in Users /\ sync'[w].uid \in Uids
                    /\ \A v \in sync'[w].seen : panel'[v].uid = sync'[w].uid
                    /\ sync'[w].pc = "apply" => /\ uLock'[sync'[w].for] = w
                                                /\ cfg'[sync'[w].for].active
                                                /\ cfg'[sync'[w].for].uid = sync'[w].uid
  BY DEF Seen
<1>0. /\ sync \in [Workers -> SyncType] /\ Seen /\ KnownUids
      /\ uLock \in [Users -> Workers \cup {Nobody}]
  BY DEF IInv, Types
<1>1. CASE sync'[w] = sync[w]
  <2>1. \A v \in sync[w].seen : v \in Vms  BY <1>0 DEF SyncType
  <2> QED  BY <1>0, <1>1, <2>1, OwnersKept, LocksKept DEF Seen, Steady
<1>2. CASE /\ Fetch(w, sync'[w].for) /\ sync'[w].for \in Users
           /\ sync'[w].pc = "listed" /\ sync'[w].uid = cfg[sync'[w].for].uid
           /\ sync'[w].seen = Listed(sync'[w].uid)
  <2>1. sync'[w].uid \in Uids  BY <1>0, <1>2 DEF Fetch, KnownUids
  <2>2. panel' = panel  BY <1>2 DEF Fetch
  <2> QED  BY <1>2, <2>1, <2>2 DEF Listed
<1>3. CASE /\ Begin(w) /\ SameReseller(w) /\ sync'[w].pc = "apply"
           /\ sync'[w].for = sync[w].for /\ sync'[w].uid = sync[w].uid
           /\ sync'[w].seen = sync[w].seen /\ sync'[w].known = LiveVms
           /\ uLock' = [uLock EXCEPT ![sync[w].for] = w]
  <2>1. panel' = panel /\ cfg' = cfg /\ sync[w].pc # "idle"  BY <1>3 DEF Begin
  <2> QED  BY <1>0, <1>3, <2>1 DEF Seen, SameReseller
<1> QED  BY <1>1, <1>2, <1>3, SyncMoves

-----------------------------------------------------------------------------
(* The rows.  Only a synchronisation makes a row live.                     *)
LEMMA DeadStaysDead ==
    ASSUME NEW r \in RowType
    PROVE  /\ ~Closed(r).live /\ Missed(r).live => r.live
           /\ [r EXCEPT !.missing = Never].live = r.live
           /\ [Matched(r) EXCEPT !.missing = Never].live = r.live
<1>1. ~Closed(r).live  BY DEF Closed, Dead
<1>2. [r EXCEPT !.missing = now].live = r.live  BY DEF RowType
<1>3. [r EXCEPT !.missing = Never].live = r.live  BY DEF RowType
<1>4. [Matched(r) EXCEPT !.missing = Never].live = r.live  BY DEF RowType, Matched
<1> QED  BY <1>1, <1>2, <1>3, <1>4 DEF Missed

LEMMA RowsAlive ==
    ASSUME ResellerAssumption, IInv, [Next]_vars
    PROVE  \/ \A a \in Users, v \in Vms : row'[a][v].live => row[a][v].live
           \/ \E w \in Workers : Apply(w) /\
                \A a \in Users, v \in Vms : row'[a][v].live =>
                   row[a][v].live \/ (a = sync[w].for /\ New(w, v))
<1>0. row \in [Users -> [Vms -> RowType]]  BY DEF IInv, Types
<1>1. ASSUME NEW w \in Workers, Apply(w), NEW a \in Users, NEW v \in Vms, row'[a][v].live
      PROVE  row[a][v].live \/ (a = sync[w].for /\ New(w, v))
  <2>1. PICK plan \in [Vms -> BOOLEAN] :
           row' = [row EXCEPT ![sync[w].for] =
                     [m \in Vms |-> Reconciled(w, m, plan[m])]]
    BY <1>1 DEF Apply
  <2>2. CASE a # sync[w].for  BY <1>0, <1>1, <2>1, <2>2
  <2>3. CASE a = sync[w].for
    <3>1. row'[a][v] = Reconciled(w, v, plan[v])  BY <1>0, <2>1, <2>3
    <3>2. row[a][v] \in RowType  BY <1>0
    <3>3. SUFFICES ASSUME ~New(w, v), ~row[a][v].live PROVE FALSE
      BY <2>3
    <3>4. Reconciled(w, v, plan[v]) = row[a][v]  BY <2>3, <3>3 DEF Reconciled
    <3> QED  BY <1>1, <3>1, <3>3, <3>4
  <2> QED  BY <2>2, <2>3
<1>2. ASSUME NEW u \in Users, SwitchOff(u), NEW a \in Users, NEW v \in Vms, row'[a][v].live
      PROVE  row[a][v].live
  <2>1. row' = [row EXCEPT ![u] = [m \in Vms |->
                  IF row[u][m].live THEN Closed(row[u][m]) ELSE row[u][m]]]
    BY <1>2 DEF SwitchOff
  <2>2. row'[a][v] = row[a][v] \/ (a = u /\ row[a][v].live)  BY <1>0, <2>1
  <2> QED  BY <1>2, <2>2
<1>3. ASSUME NEW u \in Users, NEW m \in Vms, Bill(u, m) \/ Backfill(u, m),
             NEW a \in Users, NEW v \in Vms, row'[a][v].live
      PROVE  row[a][v].live
  <2>1. a # u \/ v # m => row'[a][v] = row[a][v]
    BY <1>0, <1>3 DEF Bill, Backfill
  <2>2. row[u][m].live  BY <1>3 DEF Bill, Due, Backfill, Selectable
  <2> QED  BY <1>3, <2>1, <2>2
<1> QED  BY <1>1, <1>2, <1>3, WhoWritesRows

LEMMA RacedStays ==
    ASSUME [Next]_vars, raced
    PROVE  raced'
BY DEF Next, vars, PanelCreate, PanelDrop, Fetch, Begin, Apply, SyncFails, Check,
       Configure, SwitchOff, TopUp, Hour, Bill, Backfill, Load, WriteBack

LEMMA OneRowStays ==
    ASSUME ResellerAssumption, IInv, [Next]_vars
    PROVE  OneRow'
<1> SUFFICES ASSUME ~raced', NEW v \in Vms, NEW a \in Users, NEW b \in Users,
                    row'[a][v].live, row'[b][v].live
             PROVE  a = b
  BY DEF OneRow
<1>1. ~raced  BY RacedStays
<1>2. CASE row[a][v].live /\ row[b][v].live
  BY <1>1, <1>2 DEF IInv, OneRow
<1>3. ASSUME NEW w \in Workers, Apply(w), New(w, v)
      PROVE  \A u \in Users : ~row[u][v].live
  BY <1>1, <1>3 DEF Apply, New, IInv, Unregistered
<1> QED  BY <1>2, <1>3, RowsAlive

LEMMA UnregisteredStays ==
    ASSUME ResellerAssumption, IInv, [Next]_vars
    PROVE  Unregistered'
<1> SUFFICES ASSUME NEW w \in Workers, sync'[w].pc = "apply",
                    NEW v \in sync'[w].seen \ sync'[w].known
             PROVE  /\ ~row'[sync'[w].for][v].live
                    /\ raced' \/ \A u \in Users : ~row'[u][v].live
  BY DEF Unregistered
<1>0. sync \in [Workers -> SyncType] /\ Seen /\ Unregistered /\ Apart
  BY DEF IInv, Types
<1>1. CASE sync'[w] = sync[w]
  <2>1. /\ sync[w].pc = "apply" /\ v \in sync[w].seen \ sync[w].known /\ v \in Vms
        /\ sync[w].for \in Users /\ panel[v].uid = sync[w].uid /\ uLock[sync[w].for] = w
    BY <1>0, <1>1 DEF Seen, SyncType
  <2>2. /\ ~row[sync[w].for][v].live
        /\ raced \/ \A u \in Users : ~row[u][v].live
    BY <1>0, <2>1 DEF Unregistered
  <2>3. ASSUME NEW x \in Workers, Apply(x)
        PROVE  x # w
    <3>1. sync' = [sync EXCEPT ![x] = NoSync] /\ NoSync.pc = "idle"
      BY <2>3 DEF Apply, NoSync
    <3> QED  BY <1>0, <1>1, <2>1, <3>1
  <2>4. ASSUME NEW x \in Workers, Apply(x), New(x, v)
        PROVE  sync[x].for # sync[w].for /\ raced
    <3>1. sync[x].pc = "apply" /\ v \in sync[x].seen  BY <2>4 DEF Apply, New
    <3>2. /\ sync[x].for \in Users /\ panel[v].uid = sync[x].uid
          /\ uLock[sync[x].for] = x
          /\ cfg[sync[x].for].active /\ cfg[sync[x].for].uid = sync[x].uid
      BY <1>0, <3>1 DEF Seen
    <3>3. cfg[sync[w].for].active /\ cfg[sync[w].for].uid = sync[w].uid
      BY <1>0, <2>1 DEF Seen
    <3>4. sync[x].for # sync[w].for  BY <2>1, <2>3, <2>4, <3>2
    <3> QED  BY <1>0, <2>1, <3>2, <3>3, <3>4 DEF Apart
  <2> QED  BY <1>1, <2>1, <2>2, <2>4, RowsAlive, RacedStays
<1>2. CASE Begin(w) /\ sync'[w].known = LiveVms /\ sync'[w].seen = sync[w].seen
           /\ sync'[w].for = sync[w].for
  <2>1. row' = row /\ v \notin LiveVms /\ v \in Vms /\ sync[w].for \in Users
    BY <1>0, <1>2 DEF Begin, SyncType, Seen
  <2>2. \A u \in Users : ~row[u][v].live  BY <2>1 DEF LiveVms
  <2> QED  BY <1>2, <2>1, <2>2
<1> QED  BY <1>1, <1>2, SyncMoves

-----------------------------------------------------------------------------
(* The hours.  Each way a row is written keeps its bill within its hours.  *)
LEMMA PaidWhenRegistered ==
    ASSUME now \in Nat, NEW r \in RowType, NEW n \in Int, NEW b \in Nat, NEW p \in BOOLEAN,
           ~r.live, Paid(r, n, b, now), b < now
    PROVE  Paid(Registered(r, p), n, b, now)
<1>1. /\ Registered(r, p).live /\ Registered(r, p).since = now
      /\ Registered(r, p).anchor = now /\ Registered(r, p).until = r.until
      /\ ~Registered(r, p).filled
  BY DEF Registered, Dead
<1>2. r.until \in Nat  BY DEF RowType
<1> QED  BY <1>1, <1>2 DEF Paid, Before

LEMMA PaidWhenClosed ==
    ASSUME now \in Nat, NEW r \in RowType, NEW n \in Int, NEW b \in Nat,
           r.live, Paid(r, n, b, now)
    PROVE  Paid(Closed(r), n, b, now)
<1>1. /\ ~Closed(r).live
      /\ Closed(r).until = IF r.anchor > r.until THEN r.anchor ELSE r.until
  BY DEF Closed, Dead
<1>2. r.until \in Nat /\ r.anchor \in Nat /\ r.since \in Nat  BY DEF RowType
<1> QED  BY <1>1, <1>2 DEF Paid, Before

LEMMA PaidWhenMarked ==
    ASSUME now \in Nat, NEW r \in RowType, NEW n \in Int, NEW b \in Nat, NEW m,
           Paid(r, n, b, now)
    PROVE  Paid([r EXCEPT !.missing = m], n, b, now)
<1> DEFINE q == [r EXCEPT !.missing = m]
<1>1. /\ q.live = r.live /\ q.since = r.since /\ q.anchor = r.anchor
      /\ q.until = r.until /\ q.filled = r.filled
  BY DEF RowType
<1> HIDE DEF q
<1>2. Paid(q, n, b, now)  BY <1>1 DEF Paid, Before
<1> QED  BY <1>2 DEF q

LEMMA PaidWhenMatched ==
    ASSUME now \in Nat, NEW r \in RowType, NEW n \in Int, NEW b \in Nat, NEW m,
           r.live, Paid(r, n, b, now)
    PROVE  Paid([Matched(r) EXCEPT !.missing = m], n, b, now)
<1> DEFINE q == [Matched(r) EXCEPT !.missing = m]
<1>1. /\ q.live = r.live /\ q.since = r.since /\ q.anchor = now
      /\ q.until = r.until /\ q.filled = r.filled
  BY DEF RowType, Matched
<1>2. r.until \in Nat /\ r.anchor \in Nat /\ r.since \in Nat  BY DEF RowType
<1> HIDE DEF q
<1>3. Paid(q, n, b, now)  BY <1>1, <1>2 DEF Paid, Before
<1> QED  BY <1>3 DEF q

LEMMA PaidWhenBilled ==
    ASSUME now \in Nat, NEW r \in RowType, NEW n \in Int, NEW b \in Nat,
           r.live, r.anchor < now, Paid(r, n, b, now)
    PROVE  Paid([r EXCEPT !.anchor = r.anchor + 1], n + 1, b, now)
<1> DEFINE q == [r EXCEPT !.anchor = r.anchor + 1]
<1>1. /\ q.live = r.live /\ q.since = r.since /\ q.anchor = r.anchor + 1
      /\ q.until = r.until /\ q.filled = r.filled
  BY DEF RowType
<1>2. r.until \in Nat /\ r.anchor \in Nat /\ r.since \in Nat  BY DEF RowType
<1> HIDE DEF q
<1>3. Paid(q, n + 1, b, now)  BY <1>1, <1>2 DEF Paid, Before
<1> QED  BY <1>3 DEF q

LEMMA PaidWhenFilled ==
    ASSUME now \in Nat, NEW r \in RowType, NEW n \in Int, NEW b \in Nat,
           r.live, ~r.filled, Paid(r, n, b, now)
    PROVE  Paid([r EXCEPT !.filled = TRUE],
                n + (r.since - (IF r.until > b THEN r.until ELSE b)), b, now)
<1> DEFINE q == [r EXCEPT !.filled = TRUE]
           k == n + (r.since - (IF r.until > b THEN r.until ELSE b))
<1>1. /\ q.live = r.live /\ q.since = r.since /\ q.anchor = r.anchor
      /\ q.until = r.until /\ q.filled = TRUE
  BY DEF RowType
<1>2. r.until \in Nat /\ r.anchor \in Nat /\ r.since \in Nat  BY DEF RowType
<1>3. k <= r.anchor - b  BY <1>2 DEF Paid, Before
<1> HIDE DEF q, k
<1>4. Paid(q, k, b, now)  BY <1>1, <1>2, <1>3 DEF Paid
<1> QED  BY <1>4 DEF q, k

LEMMA PaidLater ==
    ASSUME now \in Nat, NEW r \in RowType, NEW n \in Int, NEW b \in Nat, Paid(r, n, b, now)
    PROVE  Paid(r, n, b, now + 1)
<1>1. r.until \in Nat /\ r.anchor \in Nat  BY DEF RowType
<1> QED  BY <1>1 DEF Paid

LEMMA PaidOnceBorn ==
    ASSUME now \in Nat, NEW r \in RowType, NEW n \in Int, NEW b \in Nat, Paid(r, n, b, now)
    PROVE  Paid(r, n, Lesser(b, now), now)
<1>1. r.until \in Nat /\ r.anchor \in Nat /\ r.since \in Nat  BY DEF RowType
<1> QED  BY <1>1 DEF Paid, Before, Lesser

LEMMA PaidWhenReconciled ==
    ASSUME ResellerAssumption, IInv, NEW w \in Workers, sync[w].pc = "apply",
           NEW v \in Vms, NEW p \in BOOLEAN, NEW u \in Users, u = sync[w].for
    PROVE  Paid(Reconciled(w, v, p), billed[u][v], panel[v].born, now)
<1> DEFINE r == row[u][v]
           n == billed[u][v]
           b == panel[v].born
<1>0. /\ r \in RowType /\ n \in Int /\ b \in Nat /\ Paid(r, n, b, now)
      /\ b = Never \/ b <= now
  BY DEF IInv, Types, Hours, PanelType
<1>1. now \in Nat /\ Never \in Nat /\ now < Never  BY Clocks
<1>2. CASE New(w, v)
  <2>1. ~r.live  BY <1>2 DEF New, IInv, Unregistered
  <2>2. b < now  BY <1>0, <1>1, <1>2 DEF New, Young
  <2>3. Reconciled(w, v, p) = Registered(r, p)  BY <1>2 DEF Reconciled
  <2> HIDE DEF r, n, b
  <2>4. Paid(Registered(r, p), n, b, now)  BY <1>0, <1>1, <2>1, <2>2, PaidWhenRegistered
  <2> QED  BY <2>3, <2>4 DEF r, n, b
<1>3. CASE ~New(w, v) /\ ~r.live
  BY <1>0, <1>3 DEF Reconciled
<1>4. CASE ~New(w, v) /\ r.live /\ v \notin sync[w].seen
  <2>1. Reconciled(w, v, p) = Missed(r)  BY <1>4 DEF Reconciled
  <2> HIDE DEF r, n, b
  <2>2. Paid(Closed(r), n, b, now)  BY <1>0, <1>1, <1>4, PaidWhenClosed
  <2>3. Paid([r EXCEPT !.missing = now], n, b, now)  BY <1>0, <1>1, PaidWhenMarked
  <2>4. Paid(Missed(r), n, b, now)  BY <1>0, <2>2, <2>3 DEF Missed
  <2> QED  BY <2>1, <2>4 DEF r, n, b
<1>5. CASE ~New(w, v) /\ r.live /\ v \in sync[w].seen /\ p /\ ~r.plan
  <2>1. Reconciled(w, v, p) = [Matched(r) EXCEPT !.missing = Never]
    BY <1>5 DEF Reconciled
  <2> HIDE DEF r, n, b
  <2>2. Paid([Matched(r) EXCEPT !.missing = Never], n, b, now)
    BY <1>0, <1>1, <1>5, PaidWhenMatched
  <2> QED  BY <2>1, <2>2 DEF r, n, b
<1>6. CASE ~New(w, v) /\ r.live /\ v \in sync[w].seen /\ ~(p /\ ~r.plan)
  <2>1. Reconciled(w, v, p) = [r EXCEPT !.missing = Never]
    BY <1>6 DEF Reconciled
  <2> HIDE DEF r, n, b
  <2>2. Paid([r EXCEPT !.missing = Never], n, b, now)  BY <1>0, <1>1, PaidWhenMarked
  <2> QED  BY <2>1, <2>2 DEF r, n, b
<1> QED  BY <1>2, <1>3, <1>4, <1>5, <1>6

(* The panel and the clock.                                                *)
LEMMA BirthsStay ==
    ASSUME ResellerAssumption, IInv, [Next]_vars
    PROVE  \/ /\ now' = now + 1 /\ UNCHANGED <<panel, row, billed>>
           \/ /\ now' = now /\ UNCHANGED <<row, billed>>
              /\ \A v \in Vms : \/ panel'[v].born = panel[v].born
                                \/ panel'[v].born = Lesser(panel[v].born, now)
           \/ UNCHANGED <<now, panel>>
<1>0. panel \in [Vms -> PanelType]  BY DEF IInv, Types
<1>1. ASSUME NEW v \in Vms, NEW x \in Uids, PanelCreate(v, x)
      PROVE  /\ now' = now /\ UNCHANGED <<row, billed>>
             /\ \A m \in Vms : \/ panel'[m].born = panel[m].born
                               \/ panel'[m].born = Lesser(panel[m].born, now)
  BY <1>0, <1>1 DEF PanelCreate
<1>2. ASSUME NEW v \in Vms, PanelDrop(v)
      PROVE  /\ now' = now /\ UNCHANGED <<row, billed>>
             /\ \A m \in Vms : panel'[m].born = panel[m].born
  BY <1>0, <1>2 DEF PanelDrop, PanelType
<1>3. CASE Hour  BY <1>3 DEF Hour
<1>4. \/ UNCHANGED <<now, panel>> \/ Hour
      \/ \E v \in Vms : PanelDrop(v) \/ \E x \in Uids : PanelCreate(v, x)
  BY DEF Next, vars, Fetch, Begin, Apply, SyncFails, Check, Configure, SwitchOff, Load,
         WriteBack, TopUp, Bill, Backfill
<1> QED  BY <1>1, <1>2, <1>3, <1>4

LEMMA HoursStay ==
    ASSUME ResellerAssumption, IInv, [Next]_vars
    PROVE  Hours'
<1>0. /\ row \in [Users -> [Vms -> RowType]] /\ billed \in [Users -> [Vms -> Int]]
      /\ panel \in [Vms -> PanelType] /\ now \in Nat /\ Hours
  BY Clocks DEF IInv, Types
<1>1. ASSUME NEW a \in Users, NEW m \in Vms
      PROVE  /\ row[a][m] \in RowType /\ billed[a][m] \in Int /\ panel[m].born \in Nat
             /\ Paid(row[a][m], billed[a][m], panel[m].born, now)
  BY <1>0 DEF Hours, PanelType
<1>2. CASE now' = now + 1 /\ UNCHANGED <<panel, row, billed>>
  <2>1. \A v \in Vms : panel'[v].born = Never \/ panel'[v].born <= now'
    BY <1>0, <1>2 DEF Hours, PanelType, Never
  <2>2. ASSUME NEW a \in Users, NEW m \in Vms
        PROVE  Paid(row[a][m], billed[a][m], panel[m].born, now + 1)
    BY <1>0, <1>1, PaidLater
  <2> QED  BY <1>2, <2>1, <2>2 DEF Hours, Never
<1>3. CASE /\ now' = now /\ UNCHANGED <<row, billed>>
           /\ \A v \in Vms : \/ panel'[v].born = panel[v].born
                             \/ panel'[v].born = Lesser(panel[v].born, now)
  <2>1. \A v \in Vms : panel'[v].born = Never \/ panel'[v].born <= now'
    BY <1>0, <1>3 DEF Hours, PanelType, Lesser
  <2>2. ASSUME NEW a \in Users, NEW m \in Vms
        PROVE  Paid(row[a][m], billed[a][m], panel'[m].born, now)
    BY <1>0, <1>1, <1>3, PaidOnceBorn
  <2> QED  BY <1>3, <2>1, <2>2 DEF Hours, Never
<1>4. CASE UNCHANGED <<now, panel>>
  <2> SUFFICES ASSUME NEW a \in Users, NEW m \in Vms
               PROVE  Paid(row'[a][m], billed'[a][m], panel[m].born, now)
    BY <1>0, <1>4 DEF Hours, Never
  <2>1. CASE UNCHANGED <<row, billed>>  BY <1>1, <2>1
  <2>2. ASSUME NEW w \in Workers, Apply(w)
        PROVE  Paid(row'[a][m], billed'[a][m], panel[m].born, now)
    <3>1. PICK plan \in [Vms -> BOOLEAN] :
             row' = [row EXCEPT ![sync[w].for] =
                       [v \in Vms |-> Reconciled(w, v, plan[v])]]
      BY <2>2 DEF Apply
    <3>2. billed' = billed /\ sync[w].pc = "apply"  BY <2>2 DEF Apply
    <3>3. CASE a # sync[w].for  BY <1>0, <1>1, <3>1, <3>2, <3>3
    <3>4. CASE a = sync[w].for
      <4>1. row'[a][m] = Reconciled(w, m, plan[m])  BY <1>0, <3>1, <3>4
      <4>2. plan[m] \in BOOLEAN  OBVIOUS
      <4>3. Paid(Reconciled(w, m, plan[m]), billed[a][m], panel[m].born, now)
        BY <3>2, <3>4, <4>2, PaidWhenReconciled
      <4> QED  BY <3>2, <4>1, <4>3
    <3> QED  BY <3>3, <3>4
  <2>3. ASSUME NEW u \in Users, SwitchOff(u)
        PROVE  Paid(row'[a][m], billed'[a][m], panel[m].born, now)
    <3>1. /\ row' = [row EXCEPT ![u] = [v \in Vms |->
                       IF row[u][v].live THEN Closed(row[u][v]) ELSE row[u][v]]]
          /\ billed' = billed
      BY <2>3 DEF SwitchOff
    <3>2. \/ row'[a][m] = row[a][m]
          \/ row[a][m].live /\ row'[a][m] = Closed(row[a][m])
      BY <1>0, <3>1
    <3> QED  BY <1>0, <1>1, <3>1, <3>2, PaidWhenClosed
  <2>4. ASSUME NEW u \in Users, NEW v \in Vms, Bill(u, v)
        PROVE  Paid(row'[a][m], billed'[a][m], panel[m].born, now)
    <3>1. CASE a # u \/ m # v
      <4>1. row'[a][m] = row[a][m] /\ billed'[a][m] = billed[a][m]
        BY <1>0, <2>4, <3>1 DEF Bill
      <4> QED  BY <1>1, <4>1
    <3>2. CASE a = u /\ m = v
      <4>1. /\ row'[a][m] = [row[a][m] EXCEPT !.anchor = row[a][m].anchor + 1]
            /\ billed'[a][m] = billed[a][m] + 1
            /\ row[a][m].live /\ row[a][m].anchor < now
        BY <1>0, <2>4, <3>2 DEF Bill, Due
      <4> QED  BY <1>0, <1>1, <4>1, PaidWhenBilled
    <3> QED  BY <3>1, <3>2
  <2>5. ASSUME NEW u \in Users, NEW v \in Vms, Backfill(u, v)
        PROVE  Paid(row'[a][m], billed'[a][m], panel[m].born, now)
    <3>1. CASE a # u \/ m # v
      <4>1. row'[a][m] = row[a][m] /\ billed'[a][m] = billed[a][m]
        BY <1>0, <2>5, <3>1 DEF Backfill
      <4> QED  BY <1>1, <4>1
    <3>2. CASE a = u /\ m = v
      <4>1. /\ row'[a][m] = [row[a][m] EXCEPT !.filled = TRUE]
            /\ billed'[a][m] = billed[a][m] + BackfillHours(a, m)
            /\ row[a][m].live /\ ~row[a][m].filled
        BY <1>0, <2>5, <3>2 DEF Backfill, Selectable
      <4> QED  BY <1>0, <1>1, <4>1, PaidWhenFilled DEF BackfillHours
    <3> QED  BY <3>1, <3>2
  <2> QED  BY <2>1, <2>2, <2>3, <2>4, <2>5, WhoWritesRows
<1> QED  BY <1>2, <1>3, <1>4, BirthsStay

-----------------------------------------------------------------------------
(* The debts.                                                              *)
LEMMA DebtsStay ==
    ASSUME ResellerAssumption, IInv, [Next]_vars
    PROVE  DebtCollectedOnce'
<1>0. /\ cfg \in [Users -> CfgType] /\ owing \in [Users -> Int] /\ DebtCollectedOnce
      /\ copy \in [Users -> CfgType]
  BY DEF IInv, Types
<1>1. ASSUME NEW a \in Users, a \notin stale
      PROVE  cfg[a].debt = owing[a] /\ cfg[a].debt \in Int
  BY <1>0, <1>1 DEF DebtCollectedOnce, CfgType
<1> SUFFICES ASSUME NEW a \in Users, a \notin stale'
             PROVE  cfg'[a].debt = owing'[a]
  BY DEF DebtCollectedOnce
<1>2. \/ UNCHANGED <<owing, stale>>
      \/ \E w \in Workers : Apply(w)
      \/ \E u \in Users : WriteBack(u) \/ SwitchOff(u) \/ \E v \in Vms : Backfill(u, v)
  BY DEF Next, vars, PanelCreate, PanelDrop, Fetch, Begin, SyncFails, Check, Configure,
         Load, TopUp, Hour, Bill
<1>3. ASSUME NEW w \in Workers, Apply(w)
      PROVE  cfg'[a].debt = owing'[a]
  <2> DEFINE u == sync[w].for
             pay == Lesser(cfg[u].debt, balance[u])
  <2>1. u \in Users /\ stale' = stale  BY <1>3 DEF Apply, IInv, Seen
  <2>2. /\ cfg' = [cfg EXCEPT ![u].debt = cfg[u].debt - pay]
        /\ owing' = [owing EXCEPT ![u] = owing[u] - pay]
    BY <1>3 DEF Apply, DebtLess
  <2> HIDE DEF pay, u
  <2>3. CASE a # u  BY <1>0, <1>1, <2>1, <2>2, <2>3
  <2>4. CASE a = u
    <3>1. cfg'[a] = [cfg[a] EXCEPT !.debt = cfg[a].debt - pay]  BY <1>0, <2>2, <2>4
    <3>2. cfg'[a].debt = cfg[a].debt - pay  BY <1>0, <3>1 DEF CfgType
    <3> QED  BY <1>0, <1>1, <2>1, <2>2, <2>4, <3>2
  <2> QED  BY <2>3, <2>4
<1>4. ASSUME NEW u \in Users, NEW v \in Vms, Backfill(u, v)
      PROVE  cfg'[a].debt = owing'[a]
  <2> DEFINE h == BackfillHours(u, v)
             pay == Lesser(h, balance[u])
  <2>1. /\ cfg' = [cfg EXCEPT ![u].debt = cfg[u].debt + h - pay]
        /\ owing' = [owing EXCEPT ![u] = owing[u] + h - pay]
        /\ stale' = stale
    BY <1>4 DEF Backfill
  <2> HIDE DEF h, pay
  <2>2. CASE a # u  BY <1>0, <1>1, <2>1, <2>2
  <2>3. CASE a = u
    <3>1. cfg'[a] = [cfg[a] EXCEPT !.debt = cfg[a].debt + h - pay]  BY <1>0, <2>1, <2>3
    <3>2. cfg'[a].debt = cfg[a].debt + h - pay  BY <1>0, <3>1 DEF CfgType
    <3> QED  BY <1>0, <1>1, <2>1, <2>3, <3>2
  <2> QED  BY <2>2, <2>3
<1>5. ASSUME NEW u \in Users, SwitchOff(u)
      PROVE  cfg'[a].debt = owing'[a]
  <2>1. /\ cfg' = [cfg EXCEPT ![u].active = FALSE, ![u].debt = 0]
        /\ owing' = [owing EXCEPT ![u] = 0] /\ stale' = stale
    BY <1>5 DEF SwitchOff
  <2>2. CASE a # u  BY <1>0, <1>1, <2>1, <2>2
  <2>3. CASE a = u
    <3>1. cfg'[a].debt = 0  BY <1>0, <2>1, <2>3 DEF CfgType
    <3> QED  BY <1>0, <2>1, <2>3, <3>1
  <2> QED  BY <2>2, <2>3
<1>6. ASSUME NEW u \in Users, WriteBack(u)
      PROVE  cfg'[a].debt = owing'[a]
  <2>1. /\ cfg' = [cfg EXCEPT ![u] = copy[u]] /\ owing' = owing
        /\ a \notin stale /\ (a = u => cfg[u] = copy[u])
    BY <1>6 DEF WriteBack
  <2>2. cfg'[a] = cfg[a]  BY <1>0, <2>1
  <2> QED  BY <1>1, <2>1, <2>2
<1>7. CASE UNCHANGED <<owing, stale>>
  <2>1. CASE \E w \in Workers : Apply(w)  BY <1>3, <2>1
  <2>2. CASE \E u \in Users, v \in Vms : Backfill(u, v)  BY <1>4, <2>2
  <2>3. CASE \E u \in Users : SwitchOff(u)  BY <1>5, <2>3
  <2>4. CASE \E u \in Users : WriteBack(u)  BY <1>6, <2>4
  <2>5. CASE cfg' = cfg  BY <1>1, <1>7, <2>5
  <2>6. ASSUME NEW u \in Users,
               cfg' = [cfg EXCEPT ![u] = [cfg[u] EXCEPT !.active = TRUE, !.uid = form[u].uid]]
        PROVE  cfg'[a].debt = owing'[a]
    <3>1. cfg'[a].debt = cfg[a].debt  BY <1>0, <2>6 DEF CfgType
    <3> QED  BY <1>1, <1>7, <3>1
  <2> QED  BY <2>1, <2>2, <2>3, <2>4, <2>5, <2>6, CfgWritten
<1> QED  BY <1>2, <1>3, <1>4, <1>5, <1>6, <1>7

-----------------------------------------------------------------------------
LEMMA StartsRight == ResellerAssumption /\ Init => IInv
<1> SUFFICES ASSUME ResellerAssumption, Init PROVE IInv
  OBVIOUS
<1>1. /\ NoCfg \in CfgType /\ NoForm \in FormType /\ NoSync \in SyncType
      /\ [uid |-> NoUid, here |-> FALSE, born |-> Never] \in PanelType
  BY DEF NoCfg, CfgType, NoForm, FormType, NoSync, SyncType, PanelType, Never,
         ResellerAssumption
<1>2. Dead \in RowType  BY DEF Dead, RowType, Never, ResellerAssumption
<1>3. Types
  <2>0. raced \in BOOLEAN  BY DEF Init
  <2>1. now \in 0..MaxHours  BY DEF Init, ResellerAssumption
  <2>2. balance \in [Users -> Int] /\ owing \in [Users -> Int]
    BY DEF Init, ResellerAssumption
  <2>3. billed \in [Users -> [Vms -> Int]]  BY DEF Init
  <2>4. row \in [Users -> [Vms -> RowType]]  BY <1>2 DEF Init
  <2>5. /\ cfg \in [Users -> CfgType] /\ copy \in [Users -> CfgType]
        /\ form \in [Users -> FormType] /\ sync \in [Workers -> SyncType]
        /\ panel \in [Vms -> PanelType] /\ uLock \in [Users -> Workers \cup {Nobody}]
    BY <1>1 DEF Init
  <2> QED  BY <2>0, <2>1, <2>2, <2>3, <2>4, <2>5 DEF Types
<1>4. KnownUids /\ Apart  BY DEF KnownUids, Apart, Init, NoCfg, NoForm
<1>5. Seen /\ Unregistered  BY DEF Seen, Unregistered, Init, NoSync
<1>6. OneRow  BY DEF OneRow, Init, Dead
<1>7. Hours  BY <1>2 DEF Hours, Paid, Before, Init, Dead, Never, ResellerAssumption
<1>8. DebtCollectedOnce  BY DEF DebtCollectedOnce, Init, NoCfg
<1> QED  BY <1>3, <1>4, <1>5, <1>6, <1>7, <1>8 DEF IInv

LEMMA StaysRight == ResellerAssumption /\ IInv /\ [Next]_vars => IInv'
BY TypesStay, KnownUidsStay, ApartStays, SeenStays, UnregisteredStays, OneRowStays,
   HoursStay, DebtsStay DEF IInv

(* The state of reseller billing always has the shape that the argument    *)
(* relies on.                                                              *)
THEOREM InductiveInvariant == Spec => []IInv
BY ResellerAssumption, StartsRight, StaysRight, PTL DEF Spec

(* However resellers are switched off and on, and machines come and go, no *)
(* hour of a machine is charged twice to the same reseller.                *)
THEOREM HoursOnce == Spec => []HoursBilledOnce
<1>1. ASSUME IInv PROVE HoursBilledOnce
  <2> SUFFICES ASSUME NEW u \in Users, NEW v \in Vms
               PROVE  billed[u][v] <= now - Lesser(panel[v].born, now)
    BY DEF HoursBilledOnce
  <2>1. /\ row[u][v] \in RowType /\ billed[u][v] \in Int /\ panel[v].born \in Nat
        /\ now \in Nat /\ Paid(row[u][v], billed[u][v], panel[v].born, now)
    BY <1>1, Clocks, ResellerAssumption DEF IInv, Types, Hours, PanelType
  <2>2. /\ row[u][v].until \in Nat /\ row[u][v].since \in Nat /\ row[u][v].anchor \in Nat
    BY <2>1 DEF RowType
  <2> QED  BY <2>1, <2>2 DEF Paid, Before, Lesser
<1> QED  BY <1>1, InductiveInvariant, PTL

(* A machine is in at most one live row, however synchronisations overlap  *)
(* with each other and with changes of the configuration, unless two       *)
(* resellers with one uid were activated at the same moment.               *)
THEOREM RowsUnique == Spec => []OneLiveRow
<1>1. ASSUME IInv PROVE OneLiveRow
  <2> SUFFICES ASSUME ~raced, NEW v \in Vms
               PROVE  Cardinality({u \in Users : row[u][v].live}) <= 1
    BY DEF OneLiveRow
  <2> DEFINE S == {u \in Users : row[u][v].live}
  <2>1. \A a, b \in S : a = b  BY <1>1 DEF IInv, OneRow
  <2> HIDE DEF S
  <2>2. Cardinality(S) <= 1
    <3>1. CASE S = {}  BY <3>1, FS_EmptySet
    <3>2. ASSUME NEW a \in S PROVE Cardinality(S) <= 1
      <4>1. S = {a}  BY <2>1, <3>2
      <4>2. Cardinality({a}) = 1  BY FS_Singleton
      <4> QED  BY <4>1, <4>2
    <3> QED  BY <3>1, <3>2
  <2> QED  BY <2>2 DEF S
<1> QED  BY <1>1, InductiveInvariant, PTL

(* What a reseller is remembered to owe is what was taken down and is      *)
(* neither collected nor forgiven, until an old copy of extra_data is      *)
(* written back.                                                           *)
THEOREM DebtOnce == Spec => []DebtCollectedOnce
<1>1. IInv => DebtCollectedOnce  BY DEF IInv
<1> QED  BY <1>1, InductiveInvariant, PTL
=============================================================================
