---------------------------- MODULE PurchaseProofs ----------------------------
(***************************************************************************)
(* What is safe about a purchase: in the first part from the order to the  *)
(* server, in the second from the first button to the order.               *)
(*                                                                         *)
(* Provisioning, for any number of orders, any prices, limits and          *)
(* restarts.  An action moves one order and leaves the others alone,       *)
(* except for the wallet they share, a tick of the clock and a restart; so *)
(* the invariant says of every order by itself what its place in the       *)
(* program tells of its money (Money) and of what the provider runs for it *)
(* (Things), and of the sweeper what it can have seen (Fresh, Marked).     *)
(* Raced relates them through the wallet: it is why a handler that finds   *)
(* too little money at the end lost it to another order or to the billing. *)
(*                                                                         *)
(* The storefront, for any plans, prices, number of handlers and of        *)
(* changes by administrators.  The data are a record that several handlers *)
(* write; the invariant says what they are good for in each state of the   *)
(* machine as long as no two choices have crossed (Shown, Priced, Whole),  *)
(* and what a handler that waits has kept of them (Waiting).  Of choices   *)
(* that have crossed nothing is claimed, and the order made from them      *)
(* carries the mark.                                                       *)
(***************************************************************************)
EXTENDS Provisioning, Storefront, TLAPS

Ended  == {"delivered", "failed", "lastditch", "unpaid", "closed", "lost"}
States == {"idle", "queued"} \cup Building \cup Ended
Early  == {"idle", "queued", "pick", "precheck", "reserve"}

OrderType == [pc : States, kind : Kinds \cup {"none"}, paid : BOOLEAN,
              back : BOOLEAN, sent : BOOLEAN, ticks : Nat]
SweepType == [pc : {"idle", "prices", "known", "listed"}, known : SUBSET Orders,
              todo : SUBSET Orders, ticks : {0, 1}]

Types ==
    /\ order \in [Orders -> OrderType]
    /\ row \in [Orders -> {"none", "live", "deleted"}]
    /\ vm \in [Orders -> {"none", "building", "on", "stuck"}]
    /\ disk \in [Orders -> BOOLEAN] /\ ip \in [Orders -> BOOLEAN]
    /\ age \in [Orders -> Nat] /\ left \in [Orders -> BOOLEAN]
    /\ balance \in Int /\ debits \in [Orders -> Nat] /\ refunds \in [Orders -> Nat]
    /\ sweep \in SweepType

Slow(o) == order[o].kind \in Background
One(b)  == IF b THEN 1 ELSE 0

(* The place of an order, and what it says of its money.  A background     *)
(* order has paid from the first request on; a purchase in the handler     *)
(* pays with its last step.                                                *)
Money(o) ==
    /\ order[o].pc = "idle" => /\ order[o] = NoOrder /\ debits[o] = 0
    /\ order[o].pc # "idle" => order[o].kind \in Kinds
    /\ order[o].pc = "queued" => Slow(o) /\ ~order[o].paid
    /\ row[o] # "none" => order[o].pc \in Ended
    /\ Slow(o) => /\ debits[o] = One(order[o].paid)
                  /\ refunds[o] = One(order[o].back)
                  /\ order[o].back => order[o].paid
                  /\ order[o].pc \in Building \cup {"delivered", "failed", "lastditch",
                                                    "unpaid"}
                       => order[o].paid /\ ~order[o].back
                  /\ order[o].pc = "delivered" \/ order[o].sent => row[o] # "none"
                  /\ row[o] # "none" => order[o].paid
                  /\ order[o].pc = "closed"
                       => row[o] # "none" \/ order[o].paid = order[o].back
    /\ ~Slow(o) => /\ refunds[o] = 0 /\ debits[o] \in {0, 1}
                   /\ order[o].pc \in {"idle", "closed", "lost"} \cup Building
                   /\ order[o].pc \in Building => debits[o] = 0

(* What the provider may run for an order in that place.                   *)
Nothing(o) == vm[o] = "none" /\ ~disk[o] /\ ~ip[o]
Things(o) ==
    /\ order[o].pc \in Early => Nothing(o)
    /\ order[o].pc = "install" => vm[o] = "none" /\ ~disk[o]
                                  /\ (ip[o] => order[o].kind = "scaleway")
    /\ order[o].pc \in {"reserve", "release"} => order[o].kind = "scaleway"
    /\ order[o].pc = "release" /\ ~left[o] => vm[o] = "none" /\ ~disk[o]
    /\ order[o].pc = "lost" => left[o]
    /\ order[o].pc \in {"delivered", "failed", "lastditch", "unpaid", "closed"}
         => row[o] = "live" \/ left[o] \/ Nothing(o)

(* How old a VM is while it is built.                                      *)
Ages(o) ==
    /\ order[o].pc \in {"idle", "queued"} => order[o].ticks = 0
    /\ order[o].pc \in Building /\ Slow(o) => order[o].ticks <= BuildLimit
    /\ order[o].pc \in Building /\ vm[o] # "none" /\ order[o].kind = "timeweb"
         => age[o] <= order[o].ticks

(* A row the sweeper does not know was written after it had read the rows, *)
(* at most a tick ago.                                                     *)
Fresh(o) ==
    row[o] = "live" /\ vm[o] # "none" /\ order[o].kind = "timeweb"
      => \/ sweep.pc \in {"idle", "prices"}
         \/ o \in sweep.known
         \/ age[o] <= BuildLimit + sweep.ticks

(* What it has marked is nobody's and nothing is built there.              *)
Marked(o) == o \in sweep.todo => row[o] # "live" /\ order[o].pc \in Ended

(* The wallet sufficed when a purchase in the handler began, and only a    *)
(* debit for something else takes from it until the purchase is over.      *)
Raced(o) ==
    /\ row[o] # "none" /\ debits[o] = 0 => raced[o]
    /\ order[o].pc \in Building /\ ~Slow(o) /\ ~raced[o] => balance >= Price

Local(o) == Money(o) /\ Things(o) /\ Ages(o) /\ Fresh(o) /\ Marked(o) /\ Raced(o)
IInv == Types /\ \A o \in Orders : Local(o)

-----------------------------------------------------------------------------
(* What moving an order to another place does, and to the other orders.    *)
Others(o) ==
    \A x \in Orders \ {o} :
      /\ order'[x] = order[x] /\ row'[x] = row[x] /\ vm'[x] = vm[x]
      /\ disk'[x] = disk[x] /\ ip'[x] = ip[x] /\ age'[x] = age[x]
      /\ left'[x] = left[x] /\ debits'[x] = debits[x] /\ refunds'[x] = refunds[x]

SameButPc(o, p) ==
    /\ order'[o].pc = p /\ order'[o].kind = order[o].kind
    /\ order'[o].paid = order[o].paid /\ order'[o].back = order[o].back
    /\ order'[o].sent = order[o].sent /\ order'[o].ticks = order[o].ticks

LEMMA Went ==
    ASSUME order \in [Orders -> OrderType], NEW o \in Orders, NEW p \in States, Go(o, p)
    PROVE  /\ order' \in [Orders -> OrderType] /\ SameButPc(o, p)
           /\ \A x \in Orders \ {o} : order'[x] = order[x]
<1>1. order[o] \in OrderType  OBVIOUS
<1>2. [order[o] EXCEPT !.pc = p] \in OrderType  BY <1>1 DEF OrderType
<1>3. order' = [order EXCEPT ![o] = [order[o] EXCEPT !.pc = p]]  BY DEF Go
<1>4. order'[o] = [order[o] EXCEPT !.pc = p]  BY <1>3
<1>5. SameButPc(o, p)  BY <1>1, <1>4 DEF SameButPc, OrderType
<1> QED  BY <1>2, <1>3, <1>5

RaiseTo(o) == IF order[o].kind \in Background THEN "failed" ELSE "closed"

(* A request that was accepted, or lost on its way back.                   *)
LEMMA CreatedMoves ==
    ASSUME Types, NEW o \in Orders, Created(o)
    PROVE  /\ vm' \in [Orders -> {"none", "building", "on", "stuck"}]
           /\ disk' \in [Orders -> BOOLEAN] /\ ip' \in [Orders -> BOOLEAN]
           /\ age' \in [Orders -> Nat]
           /\ vm'[o] = "building" /\ age'[o] = 0
           /\ \A x \in Orders \ {o} : /\ vm'[x] = vm[x] /\ disk'[x] = disk[x]
                                      /\ ip'[x] = ip[x] /\ age'[x] = age[x]
BY DEF Types, Created

LEMMA DeletedMoves ==
    ASSUME Types, NEW o \in Orders, order[o].kind \in Kinds, Delete(o)
    PROVE  \E d, i \in BOOLEAN : Gone(o, d, i)
BY DEF Kinds, Delete, TwDelete, ScwDelete, RvDelete, GcDelete, HzDelete, VirtDelete

LEMMA GoneMoves ==
    ASSUME Types, NEW o \in Orders, NEW d \in BOOLEAN, NEW i \in BOOLEAN, Gone(o, d, i)
    PROVE  /\ vm' \in [Orders -> {"none", "building", "on", "stuck"}]
           /\ disk' \in [Orders -> BOOLEAN] /\ ip' \in [Orders -> BOOLEAN]
           /\ age' = age /\ vm'[o] = "none"
           /\ disk'[o] => disk[o] /\ d
           /\ ip'[o] => ip[o] /\ i
           /\ \A x \in Orders \ {o} : /\ vm'[x] = vm[x] /\ disk'[x] = disk[x]
                                      /\ ip'[x] = ip[x]
BY DEF Types, Gone

LEMMA Excused ==
    ASSUME Types, NEW o \in Orders, Excuse(o)
    PROVE  /\ left' \in [Orders -> BOOLEAN] /\ left'[o]
           /\ \A x \in Orders \ {o} : left'[x] = left[x]
BY DEF Types, Excuse

-----------------------------------------------------------------------------
(* The steps of a build.                                                   *)
LEMMA BuildKeepsMoney ==
    ASSUME Types, NEW o \in Orders, Money(o), order[o].pc \in Building,
           UNCHANGED <<row, debits, refunds>>,
           NEW p \in Building \cup {RaiseTo(o)}, SameButPc(o, p)
    PROVE  Money(o)'
<1>1. /\ order'[o].pc = p /\ order'[o].kind = order[o].kind
      /\ order'[o].paid = order[o].paid /\ order'[o].back = order[o].back
      /\ order'[o].sent = order[o].sent
      /\ row'[o] = row[o] /\ debits'[o] = debits[o] /\ refunds'[o] = refunds[o]
  BY DEF SameButPc
<1>2. row[o] = "none"  BY DEF Money, Building, Ended, Types
<1>3. CASE Slow(o)
  <2>1. p \in Building \cup {"failed"}  BY <1>3 DEF RaiseTo, Slow
  <2> QED  BY <1>1, <1>2, <1>3, <2>1 DEF Money, Slow, Building, Ended, One
<1>4. CASE ~Slow(o)
  <2>1. p \in Building \cup {"closed"}  BY <1>4 DEF RaiseTo, Slow
  <2> QED  BY <1>1, <1>2, <1>4, <2>1 DEF Money, Slow, Building, Ended, One
<1> QED  BY <1>3, <1>4

(* All that building, waiting and clean-up have in common.                 *)
CloudMoves(o) ==
    /\ vm' \in [Orders -> {"none", "building", "on", "stuck"}]
    /\ disk' \in [Orders -> BOOLEAN] /\ ip' \in [Orders -> BOOLEAN]
    /\ age' \in [Orders -> Nat] /\ left' \in [Orders -> BOOLEAN]
    /\ \A x \in Orders \ {o} : /\ vm'[x] = vm[x] /\ disk'[x] = disk[x] /\ ip'[x] = ip[x]
                               /\ age'[x] = age[x] /\ left'[x] = left[x]
BuildMoves(o) ==
    /\ order[o].pc \in Building
    /\ UNCHANGED <<row, moneyVars, sweep>>
    /\ \E p \in Building \cup {RaiseTo(o)} : Go(o, p)
    /\ CloudMoves(o)

LEMMA CloudStands ==
    ASSUME Types, NEW o \in Orders, UNCHANGED cloudVars, left' = left
    PROVE  CloudMoves(o)
BY DEF Types, CloudMoves, cloudVars

LEMMA RaiseGoes ==
    ASSUME NEW o \in Orders, Raise(o)
    PROVE  Go(o, RaiseTo(o))
BY DEF Raise, RaiseTo

LEMMA PickMoves ==
    ASSUME Types, NEW o \in Orders, PickAccount(o) \/ Precheck(o)
    PROVE  BuildMoves(o) /\ UNCHANGED <<cloudVars, left>>
<1>1. /\ UNCHANGED <<row, moneyVars, sweep, cloudVars, left>>
      /\ order[o].pc \in {"pick", "precheck"}
      /\ Raise(o) \/ \E p \in {"precheck", "reserve", "install"} : Go(o, p)
  BY DEF PickAccount, Precheck, TwPick, RvPick, ScwPick, GcPick, HzPick, VirtPick, Pick
<1>2. CloudMoves(o)  BY <1>1, CloudStands
<1> QED  BY <1>1, <1>2, RaiseGoes DEF BuildMoves, Building

LEMMA WaitMoves ==
    ASSUME Types, NEW o \in Orders,
           \/ TwWait(o) \/ ScwWait(o) \/ RvWait(o) \/ GcWait(o) \/ HzWait(o)
           \/ ScwRescue(o) \/ RvRescue(o)
    PROVE  BuildMoves(o) /\ UNCHANGED <<cloudVars, left>>
<1>1. /\ UNCHANGED <<row, moneyVars, sweep, cloudVars, left>>
      /\ order[o].pc \in {"wait", "rescue"}
      /\ \E p \in {"ensure", "rescue", "record", "erase", "read"} : Go(o, p)
  BY DEF TwWait, ScwWait, RvWait, GcWait, HzWait, Wait, ScwRescue, RvRescue, Rescue
<1>2. CloudMoves(o)  BY <1>1, CloudStands
<1> QED  BY <1>1, <1>2 DEF BuildMoves, Building

LEMMA AddressMoves ==
    ASSUME Types, NEW o \in Orders,
           ScwCreateIp(o) \/ TwEarlyIp(o) \/ TwRescue(o) \/ TwEnsureIp(o)
    PROVE  BuildMoves(o) /\ UNCHANGED <<vm, disk, age, left>>
<1>1. /\ UNCHANGED <<row, moneyVars, sweep, vm, disk, age, left>>
      /\ order[o].pc \in {"reserve", "address", "rescue", "ensure"}
      /\ Raise(o) \/ \E p \in {"install", "wait", "record", "erase"} : Go(o, p)
      /\ ip' = ip \/ \E got \in BOOLEAN : ip' = [ip EXCEPT ![o] = got]
  BY DEF Types, ScwCreateIp, TwEarlyIp, TwRescue, TwEnsureIp
<1>2. CloudMoves(o)  BY <1>1 DEF Types, CloudMoves
<1> QED  BY <1>1, <1>2, RaiseGoes DEF BuildMoves, Building

LEMMA CreateMoves ==
    ASSUME Types, NEW o \in Orders,
           \/ TwCreate(o) \/ ScwCreate(o) \/ RvCreate(o)
           \/ GcCreate(o) \/ HzCreate(o) \/ VirtCreate(o)
    PROVE  /\ BuildMoves(o) /\ order[o].pc = "install"
           /\ \/ vm'[o] = "building" /\ age'[o] = 0
                 /\ \/ \E p \in {"address", "wait", "record"} : Go(o, p)
                    \/ left'[o]
              \/ UNCHANGED <<cloudVars, left>>
           /\ \/ \E p \in {"address", "wait", "record"} : Go(o, p)
              \/ Go(o, IF order[o].kind = "scaleway" THEN "release" ELSE RaiseTo(o))
<1>1. /\ UNCHANGED <<row, moneyVars, sweep>>
      /\ order[o].pc = "install"
      /\ \/ \E p \in {"address", "wait", "record"} : Go(o, p)
         \/ Go(o, IF order[o].kind = "scaleway" THEN "release" ELSE RaiseTo(o))
      /\ \/ Created(o) /\ left' = left /\ \E p \in {"address", "wait", "record"} : Go(o, p)
         \/ UNCHANGED <<cloudVars, left>>
         \/ Created(o) /\ Excuse(o)
  <2>1. CASE TwCreate(o)  BY <2>1, RaiseGoes DEF TwCreate, Install
  <2>2. CASE ScwCreate(o)  BY <2>2, RaiseGoes DEF ScwCreate, Install
  <2>3. CASE RvCreate(o)  BY <2>3, RaiseGoes DEF RvCreate, Install
  <2>4. CASE GcCreate(o)  BY <2>4, RaiseGoes DEF GcCreate, Install
  <2>5. CASE HzCreate(o)  BY <2>5, RaiseGoes DEF HzCreate, Install
  <2>6. CASE VirtCreate(o)  BY <2>6, RaiseGoes DEF VirtCreate, Install
  <2> QED  BY <2>1, <2>2, <2>3, <2>4, <2>5, <2>6
<1>2. CloudMoves(o)
  <2>1. CASE UNCHANGED <<cloudVars, left>>  BY <2>1, CloudStands
  <2>2. CASE Created(o) /\ left' = left  BY <2>2, CreatedMoves DEF CloudMoves, Types
  <2>3. CASE Created(o) /\ Excuse(o)
    BY <2>3, CreatedMoves, Excused DEF CloudMoves
  <2> QED  BY <1>1, <2>1, <2>2, <2>3
<1>3. \E p \in Building \cup {RaiseTo(o)} : Go(o, p)  BY <1>1 DEF Building
<1>4. BuildMoves(o)  BY <1>1, <1>2, <1>3 DEF BuildMoves, Building
<1>5. \/ vm'[o] = "building" /\ age'[o] = 0
         /\ \/ \E p \in {"address", "wait", "record"} : Go(o, p)
            \/ left'[o]
      \/ UNCHANGED <<cloudVars, left>>
  BY <1>1, CreatedMoves, Excused
<1> QED  BY <1>1, <1>4, <1>5

LEMMA EraseMoves ==
    ASSUME Types, NEW o \in Orders, order[o].kind \in Kinds, Erase(o)
    PROVE  /\ BuildMoves(o) /\ order[o].pc = "erase"
           /\ left'[o] \/ (vm'[o] = "none" /\ ~disk'[o] /\ ~ip'[o])
           /\ Go(o, IF order[o].kind = "scaleway" THEN "release" ELSE RaiseTo(o))
<1>1. /\ UNCHANGED <<row, moneyVars, sweep>> /\ order[o].pc = "erase"
      /\ Go(o, IF order[o].kind = "scaleway" THEN "release" ELSE RaiseTo(o))
  BY RaiseGoes DEF Erase
<1>2. /\ vm' \in [Orders -> {"none", "building", "on", "stuck"}]
      /\ disk' \in [Orders -> BOOLEAN] /\ ip' \in [Orders -> BOOLEAN]
      /\ age' = age
      /\ \A x \in Orders \ {o} : vm'[x] = vm[x] /\ disk'[x] = disk[x] /\ ip'[x] = ip[x]
  <2>1. CASE Delete(o)  BY <2>1, DeletedMoves, GoneMoves
  <2>2. CASE UNCHANGED cloudVars  BY <2>2 DEF Types, cloudVars
  <2> QED  BY <2>1, <2>2 DEF Erase
<1>3. CASE Remains(o)
  <2>1. Excuse(o)  BY <1>3 DEF Erase
  <2>2. /\ left' \in [Orders -> BOOLEAN] /\ left'[o]
        /\ \A x \in Orders \ {o} : left'[x] = left[x]
    BY <2>1, Excused
  <2>3. CloudMoves(o)  BY <1>2, <2>2 DEF Types, CloudMoves
  <2> QED  BY <1>1, <2>2, <2>3 DEF BuildMoves, Building
<1>4. CASE ~Remains(o)
  <2>1. left' = left  BY <1>4 DEF Erase
  <2>2. vm'[o] = "none" /\ ~disk'[o] /\ ~ip'[o]  BY <1>4 DEF Remains
  <2>3. CloudMoves(o)  BY <1>2, <2>1 DEF Types, CloudMoves
  <2> QED  BY <1>1, <2>2, <2>3 DEF BuildMoves, Building
<1> QED  BY <1>3, <1>4

LEMMA ReleaseMoves ==
    ASSUME Types, NEW o \in Orders, ScwReleaseIp(o)
    PROVE  /\ BuildMoves(o) /\ order[o].pc = "release" /\ Go(o, RaiseTo(o))
           /\ vm' = vm /\ disk' = disk
           /\ left'[o] \/ (left' = left /\ ~ip'[o])
<1>1. /\ UNCHANGED <<row, moneyVars, sweep, vm, disk, age>>
      /\ order[o].pc = "release" /\ Go(o, RaiseTo(o))
      /\ \/ ip' = [ip EXCEPT ![o] = FALSE] /\ left' = left
         \/ ip' = ip /\ Excuse(o)
  BY RaiseGoes DEF ScwReleaseIp
<1>2. CASE ip' = [ip EXCEPT ![o] = FALSE] /\ left' = left
  <2>1. CloudMoves(o)  BY <1>1, <1>2 DEF Types, CloudMoves
  <2> QED  BY <1>1, <1>2, <2>1 DEF BuildMoves, Building, Types
<1>3. CASE ip' = ip /\ Excuse(o)
  <2>1. CloudMoves(o)  BY <1>1, <1>3, Excused DEF Types, CloudMoves
  <2> QED  BY <1>1, <1>3, <2>1, Excused DEF BuildMoves, Building
<1> QED  BY <1>1, <1>2, <1>3

LEMMA StopMoves ==
    ASSUME Types, NEW o \in Orders, HzRead(o) \/ Cancel(o) \/ RecordFails(o)
    PROVE  /\ BuildMoves(o) /\ UNCHANGED cloudVars
           /\ \/ Go(o, "record") /\ order[o].pc = "read"
              \/ Go(o, RaiseTo(o)) /\ left'[o]
<1>1. /\ UNCHANGED <<row, moneyVars, sweep, cloudVars>>
      /\ order[o].pc \in Building
      /\ \/ Go(o, "record") /\ order[o].pc = "read" /\ left' = left
         \/ Go(o, RaiseTo(o)) /\ Excuse(o)
  BY RaiseGoes DEF HzRead, Cancel, RecordFails, Building
<1>2. CloudMoves(o)  BY <1>1, CloudStands, Excused DEF CloudMoves, Types, cloudVars
<1> QED  BY <1>1, <1>2, Excused DEF BuildMoves, Building

(* What an order has after each of these steps.                            *)
Spot(o) == Things(o) /\ Ages(o)

LEMMA PickSpot ==
    ASSUME Types, NEW o \in Orders, Money(o), Spot(o), PickAccount(o) \/ Precheck(o)
    PROVE  Spot(o)'
<1>1. /\ UNCHANGED <<cloudVars, left, row>> /\ order[o].pc \in {"pick", "precheck"}
      /\ order[o].kind \in Kinds
  BY PickMoves DEF PickAccount, Precheck, TwPick, RvPick, ScwPick, GcPick, HzPick, VirtPick,
                   Pick, BuildMoves, Money
<1>2. \E p \in {"precheck", "install", "reserve", RaiseTo(o)} :
         Go(o, p) /\ (p = "reserve" => order[o].kind = "scaleway")
  <2>1. \/ Raise(o) \/ Go(o, "precheck") \/ Go(o, "install")
        \/ Go(o, "reserve") /\ order[o].kind = "scaleway"
    BY DEF PickAccount, Precheck, TwPick, RvPick, ScwPick, GcPick, HzPick, VirtPick, Pick
  <2>2. CASE Raise(o)
    <3>1. Go(o, RaiseTo(o)) /\ RaiseTo(o) # "reserve"  BY <2>2, RaiseGoes DEF RaiseTo
    <3> QED  BY <3>1
  <2> QED  BY <2>1, <2>2
<1>3. PICK p \in {"precheck", "install", "reserve", RaiseTo(o)} :
         Go(o, p) /\ (p = "reserve" => order[o].kind = "scaleway")
  BY <1>2
<1>4. p \in States  BY DEF States, Building, Ended, RaiseTo
<1>5. SameButPc(o, p)  BY <1>3, <1>4, Went DEF Types
<1>6. p \in {"precheck", "install", "reserve", "failed", "closed"}  BY DEF RaiseTo
<1>7. Nothing(o)'  BY <1>1 DEF Spot, Things, Early, Nothing, cloudVars
<1>8. Things(o)'  BY <1>3, <1>5, <1>6, <1>7 DEF Things, Nothing, SameButPc
<1>9. Slow(o)' = Slow(o)  BY <1>5 DEF Slow, SameButPc
<1>10. Slow(o) => order[o].ticks <= BuildLimit
  BY <1>1 DEF Spot, Ages, Building
<1>11. Ages(o)'
  BY <1>5, <1>6, <1>7, <1>9, <1>10 DEF Ages, Nothing, SameButPc
<1> QED  BY <1>8, <1>11 DEF Spot

LEMMA WaitSpot ==
    ASSUME Types, NEW o \in Orders, Money(o), Spot(o),
           \/ TwWait(o) \/ ScwWait(o) \/ RvWait(o) \/ GcWait(o) \/ HzWait(o)
           \/ ScwRescue(o) \/ RvRescue(o)
    PROVE  Spot(o)'
<1>1. /\ UNCHANGED <<cloudVars, left, row>> /\ order[o].pc \in {"wait", "rescue"}
      /\ \E p \in {"ensure", "rescue", "record", "erase", "read"} : Go(o, p)
  BY DEF TwWait, ScwWait, RvWait, GcWait, HzWait, Wait, ScwRescue, RvRescue, Rescue
<1>2. PICK p \in {"ensure", "rescue", "record", "erase", "read"} : Go(o, p)  BY <1>1
<1>3. p \in States  BY DEF States, Building
<1>4. SameButPc(o, p)  BY <1>2, <1>3, Went DEF Types
<1> QED
  BY <1>1, <1>4 DEF Spot, Things, Ages, SameButPc, Early, Building, cloudVars, Slow

LEMMA AddressSpot ==
    ASSUME Types, NEW o \in Orders, Money(o), Spot(o),
           ScwCreateIp(o) \/ TwEarlyIp(o) \/ TwRescue(o) \/ TwEnsureIp(o)
    PROVE  Spot(o)'
<1>1. UNCHANGED <<vm, disk, age, left, row>>
  BY DEF ScwCreateIp, TwEarlyIp, TwRescue, TwEnsureIp
<1>2. CASE ScwCreateIp(o)
  <2>1. order[o].pc = "reserve" /\ order[o].kind = "scaleway" /\ Nothing(o)
    BY <1>2 DEF ScwCreateIp, Spot, Things, Early
  <2>2. Go(o, "install") \/ (Go(o, "failed") /\ ip' = ip)
    BY <1>2, <2>1 DEF ScwCreateIp, Raise, Background
  <2>3. CASE Go(o, "install")
    <3>1. SameButPc(o, "install")  BY <2>3, Went DEF Types, States, Building
    <3> QED  BY <1>1, <2>1, <3>1 DEF Spot, Things, Ages, SameButPc, Early, Building,
                                     Slow, Nothing
  <2>4. CASE Go(o, "failed") /\ ip' = ip
    <3>1. SameButPc(o, "failed")  BY <2>4, Went DEF Types, States, Ended
    <3> QED  BY <1>1, <2>1, <2>4, <3>1 DEF Spot, Things, Ages, SameButPc, Early, Building,
                                     Slow, Nothing
  <2> QED  BY <2>2, <2>3, <2>4
<1>3. CASE TwEarlyIp(o) \/ TwRescue(o) \/ TwEnsureIp(o)
  <2>1. /\ order[o].pc \in {"address", "rescue", "ensure"}
        /\ \E p \in {"wait", "record", "erase"} : Go(o, p)
    BY <1>3 DEF TwEarlyIp, TwRescue, TwEnsureIp
  <2>2. PICK p \in {"wait", "record", "erase"} : Go(o, p)  BY <2>1
  <2>3. SameButPc(o, p)  BY <2>2, Went DEF Types, States, Building
  <2> QED  BY <1>1, <2>1, <2>3 DEF Spot, Things, Ages, SameButPc, Early, Building, Slow
<1> QED  BY <1>2, <1>3

LEMMA CreateSpot ==
    ASSUME Types, NEW o \in Orders, Money(o), Spot(o),
           \/ TwCreate(o) \/ ScwCreate(o) \/ RvCreate(o)
           \/ GcCreate(o) \/ HzCreate(o) \/ VirtCreate(o)
    PROVE  Spot(o)'
<1>1. /\ BuildMoves(o) /\ order[o].pc = "install"
      /\ \/ vm'[o] = "building" /\ age'[o] = 0
            /\ \/ \E p \in {"address", "wait", "record"} : Go(o, p)
               \/ left'[o]
         \/ UNCHANGED <<cloudVars, left>>
      /\ \/ \E p \in {"address", "wait", "record"} : Go(o, p)
         \/ Go(o, IF order[o].kind = "scaleway" THEN "release" ELSE RaiseTo(o))
  BY CreateMoves
<1>2. /\ row' = row /\ vm[o] = "none" /\ ~disk[o]
      /\ ip[o] => order[o].kind = "scaleway"
      /\ order[o].ticks \in Nat /\ (Slow(o) => order[o].ticks <= BuildLimit)
  BY <1>1 DEF BuildMoves, Spot, Things, Ages, Types, OrderType, Building
<1>3. ASSUME NEW p \in {"address", "wait", "record"}, Go(o, p)
      PROVE  Spot(o)'
  <2>1. SameButPc(o, p)  BY <1>3, Went DEF Types, States, Building
  <2>2. (vm'[o] # "none" => age'[o] = 0) /\ Slow(o)' = Slow(o)
    BY <1>1, <1>2, <2>1 DEF cloudVars, SameButPc, Slow
  <2>3. Things(o)'  BY <2>1 DEF Things, SameButPc, Early
  <2>4. Ages(o)'  BY <1>2, <2>1, <2>2 DEF Ages, SameButPc
  <2> QED  BY <2>3, <2>4 DEF Spot
<1>4. CASE order[o].kind = "scaleway" /\ Go(o, "release")
  <2>1. SameButPc(o, "release")  BY <1>4, Went DEF Types, States, Building
  <2>2. ~\E p \in {"address", "wait", "record"} : Go(o, p)
    <3>1. ASSUME NEW p \in {"address", "wait", "record"}, Go(o, p) PROVE FALSE
      <4>1. SameButPc(o, p)  BY <3>1, Went DEF Types, States, Building
      <4> QED  BY <2>1, <4>1 DEF SameButPc
    <3> QED  BY <3>1
  <2>3. \/ vm'[o] = "building" /\ age'[o] = 0 /\ left'[o]
        \/ UNCHANGED <<cloudVars, left>>
    BY <1>1, <2>2
  <2>4. Things(o)'  BY <1>2, <1>4, <2>1, <2>3 DEF Things, SameButPc, Early, cloudVars
  <2>5. Ages(o)'  BY <1>2, <1>4, <2>1 DEF Ages, SameButPc, Slow
  <2> QED  BY <2>4, <2>5 DEF Spot
<1>5. CASE order[o].kind # "scaleway" /\ Go(o, RaiseTo(o))
  <2>0. RaiseTo(o) \in {"failed", "closed"}  BY DEF RaiseTo
  <2>1. SameButPc(o, RaiseTo(o))  BY <1>5, <2>0, Went DEF Types, States, Ended
  <2>2. ~\E p \in {"address", "wait", "record"} : Go(o, p)
    <3>1. ASSUME NEW p \in {"address", "wait", "record"}, Go(o, p) PROVE FALSE
      <4>1. SameButPc(o, p)  BY <3>1, Went DEF Types, States, Building
      <4> QED  BY <2>0, <2>1, <4>1 DEF SameButPc
    <3> QED  BY <3>1
  <2>3. \/ vm'[o] = "building" /\ age'[o] = 0 /\ left'[o]
        \/ UNCHANGED <<cloudVars, left>>
    BY <1>1, <2>2
  <2>4. Things(o)'
    BY <1>2, <1>5, <2>0, <2>1, <2>3 DEF Things, SameButPc, Early, Nothing, cloudVars
  <2>5. Ages(o)'  BY <2>0, <2>1 DEF Ages, SameButPc, Building
  <2> QED  BY <2>4, <2>5 DEF Spot
<1> QED  BY <1>1, <1>3, <1>4, <1>5

LEMMA StopSpot ==
    ASSUME Types, NEW o \in Orders, Money(o), Spot(o),
           Erase(o) \/ ScwReleaseIp(o) \/ HzRead(o) \/ Cancel(o) \/ RecordFails(o)
    PROVE  Spot(o)'
<1>1. CASE HzRead(o) \/ Cancel(o) \/ RecordFails(o)
  <2>1. CASE Go(o, "record") /\ order[o].pc = "read"
    <3>1. SameButPc(o, "record")  BY <2>1, Went DEF Types, States, Building
    <3> QED  BY <1>1, <2>1, <3>1, StopMoves DEF Spot, Things, Ages, SameButPc, Early,
                                                 Building, Slow, cloudVars
  <2>2. CASE Go(o, RaiseTo(o)) /\ left'[o]
    <3>1. RaiseTo(o) \in {"failed", "closed"}  BY DEF RaiseTo
    <3>2. SameButPc(o, RaiseTo(o))  BY <2>2, <3>1, Went DEF Types, States, Ended
    <3> QED  BY <2>2, <3>1, <3>2 DEF Spot, Things, Ages, SameButPc, Early, Building
  <2> QED  BY <1>1, <2>1, <2>2, StopMoves
<1>2. CASE ScwReleaseIp(o)
  <2>1. /\ RaiseTo(o) = "failed" /\ order[o].pc = "release"
        /\ left[o] \/ (vm[o] = "none" /\ ~disk[o])
    BY <1>2, ReleaseMoves DEF RaiseTo, Spot, Things, Background
  <2>2. SameButPc(o, "failed")  BY <1>2, <2>1, ReleaseMoves, Went DEF Types, States, Ended
  <2>3. left'[o] \/ (vm'[o] = "none" /\ ~disk'[o] /\ ~ip'[o])
    BY <1>2, <2>1, ReleaseMoves
  <2> QED  BY <2>2, <2>3 DEF Spot, Things, Ages, SameButPc, Early, Building, Nothing
<1>3. CASE Erase(o)
  <2>1. order[o].kind \in Kinds  BY <1>3 DEF Erase, Money
  <2>2. /\ left'[o] \/ (vm'[o] = "none" /\ ~disk'[o] /\ ~ip'[o])
        /\ Go(o, IF order[o].kind = "scaleway" THEN "release" ELSE RaiseTo(o))
        /\ order[o].pc = "erase"
    BY <1>3, <2>1, EraseMoves
  <2>3. CASE order[o].kind = "scaleway"
    <3>1. SameButPc(o, "release")  BY <2>2, <2>3, Went DEF Types, States, Building
    <3>2. Things(o)'  BY <2>2, <2>3, <3>1 DEF Things, SameButPc, Early
    <3>3. Ages(o)'  BY <2>2, <2>3, <3>1 DEF Spot, Ages, SameButPc, Slow, Building
    <3> QED  BY <3>2, <3>3 DEF Spot
  <2>4. CASE order[o].kind # "scaleway"
    <3>1. RaiseTo(o) \in {"failed", "closed"}  BY DEF RaiseTo
    <3>2. SameButPc(o, RaiseTo(o))  BY <2>2, <2>4, <3>1, Went DEF Types, States, Ended
    <3> QED  BY <2>2, <3>1, <3>2 DEF Spot, Things, Ages, SameButPc, Early, Building, Nothing
  <2> QED  BY <2>3, <2>4
<1> QED  BY <1>1, <1>2, <1>3

LEMMA NotEnded ==
    ASSUME Types, NEW o \in Orders, Money(o), Marked(o),
           order[o].pc \in {"idle", "queued"} \cup Building
    PROVE  row[o] = "none" /\ o \notin sweep.todo
BY DEF Types, Money, Marked, Ended, Building

LEMMA BuildKeeps ==
    ASSUME Types, NEW o \in Orders, Local(o), Create(o) \/ RecordFails(o)
    PROVE  /\ Types' /\ Others(o) /\ Local(o)'
           /\ UNCHANGED <<row, moneyVars, sweep>>
           /\ order[o].pc \in Building
<1>0. Money(o) /\ Things(o) /\ Ages(o) /\ Marked(o) /\ Raced(o) /\ Spot(o)
  BY DEF Local, Spot
<1>1. BuildMoves(o) /\ Spot(o)'
  <2>1. CASE PickAccount(o) \/ Precheck(o)  BY <1>0, <2>1, PickMoves, PickSpot
  <2>2. CASE \/ TwWait(o) \/ ScwWait(o) \/ RvWait(o) \/ GcWait(o) \/ HzWait(o)
             \/ ScwRescue(o) \/ RvRescue(o)
    BY <1>0, <2>2, WaitMoves, WaitSpot
  <2>3. CASE ScwCreateIp(o) \/ TwEarlyIp(o) \/ TwRescue(o) \/ TwEnsureIp(o)
    BY <1>0, <2>3, AddressMoves, AddressSpot
  <2>4. CASE \/ TwCreate(o) \/ ScwCreate(o) \/ RvCreate(o)
             \/ GcCreate(o) \/ HzCreate(o) \/ VirtCreate(o)
    BY <1>0, <2>4, CreateMoves, CreateSpot
  <2>5. CASE Erase(o)
    <3>1. order[o].kind \in Kinds  BY <1>0, <2>5 DEF Erase, Money
    <3> QED  BY <1>0, <2>5, <3>1, EraseMoves, StopSpot
  <2>6. CASE ScwReleaseIp(o)  BY <1>0, <2>6, ReleaseMoves, StopSpot
  <2>7. CASE HzRead(o) \/ Cancel(o) \/ RecordFails(o)
    BY <1>0, <2>7, StopMoves, StopSpot
  <2> QED  BY <2>1, <2>2, <2>3, <2>4, <2>5, <2>6, <2>7 DEF Create, WaitUntilOn
<1>2. PICK p \in Building \cup {RaiseTo(o)} : Go(o, p)  BY <1>1 DEF BuildMoves
<1>3. p \in States  BY DEF States, Ended, RaiseTo
<1>4. /\ order' \in [Orders -> OrderType] /\ SameButPc(o, p)
      /\ \A x \in Orders \ {o} : order'[x] = order[x]
  BY <1>2, <1>3, Went DEF Types
<1>5. UNCHANGED <<row, moneyVars, sweep>> /\ CloudMoves(o) /\ order[o].pc \in Building
  BY <1>1 DEF BuildMoves
<1>6. Types'  BY <1>4, <1>5 DEF Types, CloudMoves, moneyVars
<1>7. Others(o)  BY <1>4, <1>5 DEF Others, CloudMoves, moneyVars
<1>8. Money(o)'  BY <1>0, <1>4, <1>5, BuildKeepsMoney DEF moneyVars
<1>9. row[o] = "none" /\ o \notin sweep.todo  BY <1>0, <1>5, NotEnded
<1>10. Fresh(o)' /\ Marked(o)'  BY <1>5, <1>9 DEF Fresh, Marked
<1>11. Raced(o)'
  BY <1>0, <1>4, <1>5, <1>9 DEF Raced, Slow, SameButPc, moneyVars
<1> QED  BY <1>1, <1>5, <1>6, <1>7, <1>8, <1>10, <1>11 DEF Local, Spot

-----------------------------------------------------------------------------
(* Selling and delivering.                                                 *)
SellMoves(o) ==
    /\ Types' /\ Others(o) /\ Local(o)' /\ sweep' = sweep

(* What such a step does to the wallet: it takes nothing, or whoever else  *)
(* had compared the balance has lost a race.                               *)
Charges(o) ==
    /\ \A x \in Orders : raced[x] => raced'[x]
    /\ \/ balance' \in {balance, balance + Price}
       \/ \A x \in Orders \ {o} : order[x].pc # "idle" => raced'[x]

LEMMA ConfirmKeeps ==
    ASSUME Types, NEW o \in Orders, Local(o), Confirm(o), KindsAssumption
    PROVE  SellMoves(o) /\ UNCHANGED moneyVars /\ order[o].pc = "idle" /\ balance >= Price
<1>0. Money(o) /\ Things(o) /\ Ages(o) /\ Marked(o) /\ order[o].pc = "idle"
  BY DEF Local, Confirm
<1>1. PICK k \in KindsOf[o] :
         order' = [order EXCEPT ![o].kind = k,
                     ![o].pc = IF k \in Background THEN "queued" ELSE "pick"]
  BY DEF Confirm
<1>2. k \in Kinds  BY <1>1, KindsAssumption
<1>3. /\ UNCHANGED <<row, cloudVars, moneyVars, sweep, left>> /\ balance >= Price
  BY DEF Confirm
<1>4. order[o] = NoOrder /\ debits[o] = 0 /\ refunds[o] = 0
  BY <1>0 DEF Money, NoOrder, Slow, Background
<1>5. order'[o] = [pc |-> IF k \in Background THEN "queued" ELSE "pick", kind |-> k,
                   paid |-> FALSE, back |-> FALSE, sent |-> FALSE, ticks |-> 0]
  BY <1>1, <1>4 DEF Types, NoOrder
<1>6. order'[o] \in OrderType  BY <1>2, <1>5 DEF OrderType, States, Building
<1>7. /\ order' \in [Orders -> OrderType]
      /\ \A x \in Orders \ {o} : order'[x] = order[x]
  BY <1>1, <1>6 DEF Types
<1>8. Types' /\ Others(o)
  BY <1>3, <1>7 DEF Types, Others, cloudVars, moneyVars
<1>9. row[o] = "none" /\ o \notin sweep.todo  BY <1>0, NotEnded
<1>10. Money(o)'
  BY <1>2, <1>3, <1>4, <1>5, <1>9 DEF Money, Slow, One, Building, Ended, moneyVars
<1>11. Things(o)'
  BY <1>0, <1>3, <1>5 DEF Things, Early, Nothing, cloudVars
<1>12. Ages(o)'
  BY <1>0, <1>3, <1>5 DEF Ages, Things, Nothing, Early, Building, Background, Slow, cloudVars
<1>13. Fresh(o)' /\ Marked(o)' /\ Raced(o)'
  BY <1>3, <1>9 DEF Fresh, Marked, Raced, moneyVars
<1> QED  BY <1>0, <1>3, <1>8, <1>10, <1>11, <1>12, <1>13 DEF SellMoves, Local

LEMMA RefuseEarlyKeeps ==
    ASSUME Types, NEW o \in Orders, Local(o), RefuseEarly(o)
    PROVE  SellMoves(o) /\ Charges(o)
<1>0. /\ Money(o) /\ Things(o) /\ Ages(o) /\ Marked(o)
      /\ order[o].pc = "queued" /\ order[o].kind = "timeweb" /\ ~order[o].paid
  BY DEF Local, RefuseEarly
<1>1. Go(o, "closed") /\ UNCHANGED <<row, cloudVars, moneyVars, sweep, crashes, left>>
  BY DEF RefuseEarly
<1>2. /\ order' \in [Orders -> OrderType] /\ SameButPc(o, "closed")
      /\ \A x \in Orders \ {o} : order'[x] = order[x]
  BY <1>1, Went DEF Types, States, Ended
<1>3. Types' /\ Others(o)
  BY <1>1, <1>2 DEF Types, Others, cloudVars, moneyVars
<1>4. row[o] = "none" /\ o \notin sweep.todo  BY <1>0, NotEnded
<1>5. order[o].paid = FALSE /\ order[o].back = FALSE
  BY <1>0 DEF Money, Slow, Background, Types, OrderType
<1>6. Money(o)'
  BY <1>0, <1>1, <1>2, <1>4, <1>5 DEF Money, Slow, One, SameButPc, Building, Background,
                                      Ended, moneyVars
<1>7. Things(o)'
  BY <1>0, <1>1, <1>2 DEF Things, Early, Nothing, SameButPc, cloudVars
<1>8. Ages(o)'  BY <1>2 DEF Ages, SameButPc, Building
<1>9. Fresh(o)' /\ Marked(o)' /\ Raced(o)'
  BY <1>1, <1>2, <1>4 DEF Fresh, Marked, Raced, SameButPc, Building
<1> QED  BY <1>1, <1>3, <1>6, <1>7, <1>8, <1>9 DEF SellMoves, Local, Charges, moneyVars

LEMMA PayFirstKeeps ==
    ASSUME Types, NEW o \in Orders, Local(o), PayFirst(o), AmountsAssumption, AgesAssumption
    PROVE  SellMoves(o) /\ Charges(o)
<1>0. /\ Money(o) /\ Things(o) /\ Ages(o) /\ Marked(o)
      /\ order[o].pc = "queued" /\ Slow(o) /\ ~order[o].paid /\ ~order[o].back
      /\ debits[o] = 0 /\ refunds[o] = 0 /\ order[o].ticks = 0 /\ order[o] \in OrderType
  BY DEF Local, PayFirst, Money, Ages, One, Types
<1>1. UNCHANGED <<row, cloudVars, refunds, sweep, crashes, left>>
  BY DEF PayFirst
<1>2. row[o] = "none" /\ o \notin sweep.todo  BY <1>0, NotEnded
<1>3. Fresh(o)' /\ Marked(o)'  BY <1>1, <1>2 DEF Fresh, Marked
<1>4. CASE balance >= Price
  <2>1. /\ balance' = balance - Price /\ debits' = [debits EXCEPT ![o] = @ + 1]
        /\ order' = [order EXCEPT ![o].pc = "pick", ![o].paid = TRUE]
        /\ Race(Orders \ {o})
    BY <1>4 DEF PayFirst
  <2>2. /\ balance' \in Int /\ debits' \in [Orders -> Nat] /\ debits'[o] = 1
        /\ \A x \in Orders \ {o} : debits'[x] = debits[x]
    BY <1>0, <2>1, AmountsAssumption DEF Types
  <2>3. [order[o] EXCEPT !.pc = "pick", !.paid = TRUE] \in OrderType
    BY <1>0 DEF OrderType, States, Building
  <2>4. order' = [order EXCEPT ![o] = [order[o] EXCEPT !.pc = "pick", !.paid = TRUE]]
    BY <2>1
  <2>5. /\ order' \in [Orders -> OrderType]
        /\ order'[o] = [order[o] EXCEPT !.pc = "pick", !.paid = TRUE]
        /\ \A x \in Orders \ {o} : order'[x] = order[x]
    BY <2>3, <2>4 DEF Types
  <2>6. /\ order'[o].pc = "pick" /\ order'[o].paid /\ order'[o].kind = order[o].kind
        /\ order'[o].back = order[o].back /\ order'[o].sent = order[o].sent
        /\ order'[o].ticks = 0
    BY <1>0, <2>5 DEF OrderType
  <2>7. Types' /\ Others(o)  BY <1>1, <2>2, <2>5 DEF Types, Others, cloudVars
  <2>8. Money(o)'
    BY <1>0, <1>1, <1>2, <2>2, <2>6 DEF Money, Slow, One, Building, Ended
  <2>9. Things(o)'  BY <1>0, <1>1, <2>6 DEF Things, Early, Nothing, cloudVars
  <2>10. Ages(o)'
    <3>1. vm'[o] = "none"  BY <1>0, <1>1 DEF Things, Early, Nothing, cloudVars
    <3> QED  BY <2>6, <3>1, AgesAssumption DEF Ages
  <2>11. Raced(o)'  BY <1>0, <1>1, <1>2, <2>6 DEF Raced, Slow
  <2>12. Charges(o)  BY <2>1 DEF Race, Charges
  <2> QED  BY <1>1, <1>3, <2>7, <2>8, <2>9, <2>10, <2>11, <2>12 DEF SellMoves, Local
<1>5. CASE ~(balance >= Price)
  <2>1. Go(o, "closed") /\ UNCHANGED <<balance, debits, raced>>  BY <1>5 DEF PayFirst
  <2>2. /\ order' \in [Orders -> OrderType] /\ SameButPc(o, "closed")
        /\ \A x \in Orders \ {o} : order'[x] = order[x]
    BY <2>1, Went DEF Types, States, Ended
  <2>3. Types' /\ Others(o)  BY <1>1, <2>1, <2>2 DEF Types, Others, cloudVars
  <2>4. Money(o)'
    <3>1. order[o].paid = FALSE /\ order[o].back = FALSE  BY <1>0 DEF OrderType
    <3> QED  BY <1>0, <1>1, <1>2, <2>1, <2>2, <3>1 DEF Money, Slow, One, SameButPc,
                                                       Building, Ended
  <2>5. Things(o)'
    BY <1>0, <1>1, <2>2 DEF Things, Early, Nothing, SameButPc, cloudVars
  <2>6. Ages(o)' /\ Raced(o)'  BY <1>1, <1>2, <2>2 DEF Ages, Raced, SameButPc, Building
  <2> QED  BY <1>1, <1>3, <2>1, <2>3, <2>4, <2>5, <2>6 DEF SellMoves, Local, Charges
<1> QED  BY <1>4, <1>5

(* The row of a server: the handler that finds the wallet empty lost it to *)
(* another order or to the billing of what the buyer has.                  *)
LEMMA RecordKeeps ==
    ASSUME IInv, NEW o \in Orders, Record(o), AmountsAssumption, AgesAssumption
    PROVE  SellMoves(o) /\ Charges(o)
<1>0. /\ Types /\ Money(o) /\ Things(o) /\ Ages(o) /\ Marked(o) /\ Raced(o)
      /\ order[o].pc = "record" /\ order[o].pc \in Building /\ order[o] \in OrderType
  BY DEF IInv, Local, Record, Types, Building
<1>1. /\ row' = [row EXCEPT ![o] = "live"]
      /\ UNCHANGED <<cloudVars, refunds, sweep, crashes, left>>
  BY DEF Record
<1>2. row'[o] = "live" /\ row' \in [Orders -> {"none", "live", "deleted"}]
      /\ \A x \in Orders \ {o} : row'[x] = row[x]
  BY <1>0, <1>1 DEF Types
<1>3. o \notin sweep.todo /\ row[o] = "none"  BY <1>0, NotEnded
<1>4. Marked(o)'  BY <1>1, <1>3 DEF Marked
<1>5. CASE Slow(o)
  <2>1. /\ order' = [order EXCEPT ![o].pc = "delivered", ![o].sent = TRUE]
        /\ UNCHANGED <<balance, debits, raced>>
    BY <1>5 DEF Record, Slow
  <2>2. [order[o] EXCEPT !.pc = "delivered", !.sent = TRUE] \in OrderType
    BY <1>0 DEF OrderType, States, Ended
  <2>3. order' = [order EXCEPT ![o] = [order[o] EXCEPT !.pc = "delivered", !.sent = TRUE]]
    BY <2>1
  <2>4. /\ order' \in [Orders -> OrderType]
        /\ order'[o] = [order[o] EXCEPT !.pc = "delivered", !.sent = TRUE]
        /\ \A x \in Orders \ {o} : order'[x] = order[x]
    BY <1>0, <2>2, <2>3 DEF Types
  <2>5. /\ order'[o].pc = "delivered" /\ order'[o].paid = order[o].paid
        /\ order'[o].kind = order[o].kind /\ order'[o].back = order[o].back
        /\ order'[o].ticks = order[o].ticks
    BY <1>0, <2>4 DEF OrderType
  <2>6. Types' /\ Others(o)  BY <1>0, <1>1, <1>2, <2>1, <2>4 DEF Types, Others, cloudVars
  <2>7. debits[o] = 1 /\ order[o].paid /\ ~order[o].back /\ refunds[o] = 0
    BY <1>0, <1>5 DEF Money, One
  <2>8. Money(o)'
    BY <1>0, <1>1, <1>2, <1>5, <2>1, <2>5, <2>7 DEF Money, Slow, One, Building, Ended
  <2>9. Things(o)'  BY <1>2, <2>5 DEF Things, Early
  <2>10. Ages(o)'  BY <2>5 DEF Ages, Building
  <2>11. vm[o] # "none" /\ order[o].kind = "timeweb" => age[o] <= BuildLimit + sweep.ticks
    <3>1. /\ age[o] \in Nat /\ order[o].ticks \in Nat /\ sweep.ticks \in {0, 1}
          /\ BuildLimit \in Nat
      BY <1>0, AgesAssumption DEF Types, SweepType, OrderType
    <3> QED  BY <1>0, <1>5, <3>1 DEF Ages
  <2>12. Fresh(o)'  BY <1>1, <2>5, <2>11 DEF Fresh, cloudVars
  <2>13. Raced(o)'  BY <2>1, <2>5, <2>7 DEF Raced, Building
  <2> QED  BY <1>1, <1>4, <2>1, <2>6, <2>8, <2>9, <2>10, <2>12, <2>13
           DEF SellMoves, Local, Charges
<1>6. CASE ~Slow(o)
  <2>1. /\ Go(o, "closed")
        /\ balance' = IF balance >= Price THEN balance - Price ELSE balance
        /\ debits' = IF balance >= Price
                       THEN [debits EXCEPT ![o] = @ + 1] ELSE debits
        /\ IF balance >= Price THEN Race(Orders \ {o}) ELSE raced' = raced
    BY <1>6 DEF Record, Slow
  <2>2. /\ order' \in [Orders -> OrderType] /\ SameButPc(o, "closed")
        /\ \A x \in Orders \ {o} : order'[x] = order[x]
    BY <1>0, <2>1, Went DEF Types, States, Ended
  <2>3. debits[o] = 0 /\ refunds[o] = 0  BY <1>0, <1>6 DEF Money
  <2>4. /\ balance' \in Int /\ debits' \in [Orders -> Nat]
        /\ \A x \in Orders \ {o} : debits'[x] = debits[x]
        /\ debits'[o] = IF balance >= Price THEN 1 ELSE 0
    BY <1>0, <2>1, <2>3, AmountsAssumption DEF Types
  <2>5. Types' /\ Others(o)  BY <1>0, <1>1, <1>2, <2>2, <2>4 DEF Types, Others, cloudVars
  <2>6. Money(o)'
    BY <1>0, <1>1, <1>2, <1>6, <2>2, <2>3, <2>4 DEF Money, Slow, SameButPc, Building, Ended
  <2>7. Things(o)'  BY <1>2, <2>2 DEF Things, SameButPc, Early
  <2>8. Ages(o)'  BY <2>2 DEF Ages, SameButPc, Building
  <2>9. Fresh(o)'
    <3>1. order[o].kind # "timeweb"  BY <1>6 DEF Slow, Background
    <3> QED  BY <2>2, <3>1 DEF Fresh, SameButPc
  <2>10. Raced(o)'
    <3>1. order'[o].pc \notin Building  BY <2>2 DEF SameButPc, Building
    <3>2. CASE balance >= Price  BY <2>4, <3>1, <3>2 DEF Raced
    <3>3. CASE ~(balance >= Price)
      <4>1. raced[o] /\ raced' = raced  BY <1>0, <1>6, <2>1, <3>3 DEF Raced
      <4> QED  BY <3>1, <4>1 DEF Raced
    <3> QED  BY <3>2, <3>3
  <2>11. Charges(o)
    <3>1. CASE balance >= Price  BY <2>1, <3>1 DEF Race, Charges
    <3>2. CASE ~(balance >= Price)  BY <2>1, <3>2 DEF Charges
    <3> QED  BY <3>1, <3>2
  <2> QED  BY <1>1, <1>4, <2>5, <2>6, <2>7, <2>8, <2>9, <2>10, <2>11 DEF SellMoves, Local
<1> QED  BY <1>5, <1>6

LEMMA SendDeliveryKeeps ==
    ASSUME Types, NEW o \in Orders, Local(o), SendDelivery(o)
    PROVE  SellMoves(o) /\ Charges(o)
<1>0. /\ Money(o) /\ Things(o) /\ Ages(o) /\ Fresh(o) /\ Marked(o) /\ Raced(o)
      /\ order[o].pc = "delivered"
  BY DEF Local, SendDelivery
<1>1. PICK p \in {"closed", "failed"} : Go(o, p)  BY DEF SendDelivery
<1>2. UNCHANGED <<row, cloudVars, moneyVars, sweep, left>>  BY DEF SendDelivery
<1>3. /\ order' \in [Orders -> OrderType] /\ SameButPc(o, p)
      /\ \A x \in Orders \ {o} : order'[x] = order[x]
  BY <1>1, Went DEF Types, States, Ended
<1>4. Types' /\ Others(o)  BY <1>2, <1>3 DEF Types, Others, cloudVars, moneyVars
<1>5. Slow(o)  BY <1>0 DEF Money, Building
<1>6. Money(o)'
  BY <1>0, <1>2, <1>3, <1>5 DEF Money, Slow, One, SameButPc, Building, Ended, moneyVars
<1>7. Things(o)'
  BY <1>0, <1>2, <1>3 DEF Things, Early, Nothing, SameButPc, cloudVars
<1>8. Ages(o)'  BY <1>3 DEF Ages, SameButPc, Building
<1>9. Fresh(o)' /\ Marked(o)' /\ Raced(o)'
  BY <1>0, <1>2, <1>3 DEF Fresh, Marked, Raced, SameButPc, Ended, Building, cloudVars,
                          moneyVars
<1> QED  BY <1>2, <1>4, <1>6, <1>7, <1>8, <1>9 DEF SellMoves, Local, Charges, moneyVars

(* The refund of a build that failed: its money was taken, once.           *)
LEMMA RefundKeeps ==
    ASSUME Types, NEW o \in Orders, Local(o), Refund(o) \/ LastDitchRefund(o),
           AmountsAssumption
    PROVE  SellMoves(o) /\ Charges(o)
<1>0. /\ Money(o) /\ Things(o) /\ Ages(o) /\ Fresh(o) /\ Marked(o) /\ Raced(o)
      /\ order[o].pc \in {"failed", "lastditch"} /\ order[o] \in OrderType
  BY DEF Local, Refund, LastDitchRefund, Types
<1>1. /\ Slow(o) /\ order[o].paid = TRUE /\ order[o].back = FALSE
      /\ debits[o] = 1 /\ refunds[o] = 0
  BY <1>0 DEF Money, Building, One, OrderType
<1>2. /\ UNCHANGED <<row, cloudVars, sweep, left>>
      /\ \/ /\ balance' = balance + Price /\ refunds' = [refunds EXCEPT ![o] = @ + 1]
            /\ UNCHANGED <<debits, raced>>
            /\ order' = [order EXCEPT ![o].pc = "closed", ![o].back = TRUE]
         \/ /\ UNCHANGED moneyVars
            /\ \/ Go(o, "lastditch") \/ Go(o, "unpaid")
               \/ Go(o, "closed") /\ ~StillOwed(o)
  BY DEF Refund, LastDitchRefund, PaidBack
<1>3. CASE /\ balance' = balance + Price /\ refunds' = [refunds EXCEPT ![o] = @ + 1]
           /\ UNCHANGED <<debits, raced>>
           /\ order' = [order EXCEPT ![o].pc = "closed", ![o].back = TRUE]
  <2>1. /\ balance' \in Int /\ refunds' \in [Orders -> Nat] /\ refunds'[o] = 1
        /\ \A x \in Orders \ {o} : refunds'[x] = refunds[x]
    BY <1>1, <1>3, AmountsAssumption DEF Types
  <2>2. [order[o] EXCEPT !.pc = "closed", !.back = TRUE] \in OrderType
    BY <1>0 DEF OrderType, States, Ended
  <2>3. order' = [order EXCEPT ![o] = [order[o] EXCEPT !.pc = "closed", !.back = TRUE]]
    BY <1>3
  <2>4. /\ order' \in [Orders -> OrderType]
        /\ order'[o] = [order[o] EXCEPT !.pc = "closed", !.back = TRUE]
        /\ \A x \in Orders \ {o} : order'[x] = order[x]
    BY <2>2, <2>3 DEF Types
  <2>5. /\ order'[o].pc = "closed" /\ order'[o].back = TRUE
        /\ order'[o].kind = order[o].kind /\ order'[o].paid = TRUE
        /\ order'[o].sent = order[o].sent
    BY <1>0, <1>1, <2>4 DEF OrderType
  <2>6. Types' /\ Others(o)  BY <1>2, <1>3, <2>1, <2>4 DEF Types, Others, cloudVars
  <2>7. Money(o)'
    BY <1>0, <1>1, <1>2, <1>3, <2>1, <2>5 DEF Money, Slow, One, Building, Ended
  <2>8. Things(o)'  BY <1>0, <1>2, <2>5 DEF Things, Early, Nothing, cloudVars
  <2>9. Ages(o)'  BY <2>5 DEF Ages, Building
  <2>10. Fresh(o)' /\ Marked(o)' /\ Raced(o)'
    BY <1>0, <1>2, <1>3, <2>5 DEF Fresh, Marked, Raced, Ended, Building, cloudVars
  <2> QED  BY <1>1, <1>2, <1>3, <2>6, <2>7, <2>8, <2>9, <2>10 DEF SellMoves, Local, Charges
<1>4. ASSUME UNCHANGED moneyVars, NEW p \in {"lastditch", "unpaid", "closed"}, Go(o, p),
             p = "closed" => ~StillOwed(o)
      PROVE  SellMoves(o) /\ Charges(o)
  <2>1. /\ order' \in [Orders -> OrderType] /\ SameButPc(o, p)
        /\ \A x \in Orders \ {o} : order'[x] = order[x]
    BY <1>4, Went DEF Types, States, Ended
  <2>2. Types' /\ Others(o)
    BY <1>2, <1>4, <2>1 DEF Types, Others, cloudVars, moneyVars
  <2>3. p = "closed" => row[o] # "none"
    BY <1>0, <1>1, <1>4 DEF StillOwed, Money
  <2>4. Money(o)'
    BY <1>0, <1>1, <1>2, <1>4, <2>1, <2>3 DEF Money, Slow, One, SameButPc, Building,
                                              Ended, moneyVars
  <2>5. Things(o)'
    BY <1>0, <1>2, <2>1 DEF Things, Early, Nothing, SameButPc, cloudVars
  <2>6. Ages(o)'  BY <2>1 DEF Ages, SameButPc, Building
  <2>7. Fresh(o)' /\ Marked(o)' /\ Raced(o)'
    BY <1>0, <1>2, <1>4, <2>1 DEF Fresh, Marked, Raced, SameButPc, Ended, Building,
                                  cloudVars, moneyVars
  <2> QED  BY <1>2, <1>4, <2>2, <2>4, <2>5, <2>6, <2>7
           DEF SellMoves, Local, Charges, moneyVars
<1> QED  BY <1>2, <1>3, <1>4

(* A row is deleted, with the VM or without it.                            *)
LEMMA DeleteKeeps ==
    ASSUME Types, NEW o \in Orders, Local(o), DeleteServer(o)
    PROVE  SellMoves(o) /\ Charges(o) /\ order[o].pc # "idle"
<1>0. /\ Money(o) /\ Things(o) /\ Ages(o) /\ Fresh(o) /\ Marked(o) /\ Raced(o)
      /\ row[o] = "live" /\ order[o].pc \in {"unpaid", "closed", "lost"}
      /\ order[o].kind \in Kinds
  BY DEF Local, DeleteServer, Money, Ended, Open
<1>1. /\ row' = [row EXCEPT ![o] = "deleted"]
      /\ Delete(o) \/ UNCHANGED cloudVars
      /\ IF Remains(o) THEN Excuse(o) ELSE UNCHANGED left
      /\ UNCHANGED <<order, moneyVars, sweep>>
  BY DEF DeleteServer
<1>2. /\ row' \in [Orders -> {"none", "live", "deleted"}] /\ row'[o] = "deleted"
      /\ \A x \in Orders \ {o} : row'[x] = row[x]
  BY <1>1 DEF Types
<1>3. /\ left' \in [Orders -> BOOLEAN]
      /\ \A x \in Orders \ {o} : left'[x] = left[x]
      /\ left[o] => left'[o]
      /\ left'[o] \/ Nothing(o)'
  BY <1>1, Excused DEF Types, Remains, Nothing
<1>4. /\ vm' \in [Orders -> {"none", "building", "on", "stuck"}]
      /\ disk' \in [Orders -> BOOLEAN] /\ ip' \in [Orders -> BOOLEAN] /\ age' = age
      /\ \A x \in Orders \ {o} : vm'[x] = vm[x] /\ disk'[x] = disk[x] /\ ip'[x] = ip[x]
  <2>1. CASE Delete(o)  BY <1>0, <2>1, DeletedMoves, GoneMoves
  <2>2. CASE UNCHANGED cloudVars  BY <2>2 DEF cloudVars, Types
  <2> QED  BY <1>1, <2>1, <2>2
<1>5. Types' /\ Others(o)
  BY <1>1, <1>2, <1>3, <1>4 DEF Types, Others, moneyVars
<1>6. Money(o)'
  BY <1>0, <1>1, <1>2 DEF Money, Slow, One, Building, Ended, moneyVars
<1>7. Things(o)'
  BY <1>0, <1>1, <1>3 DEF Things, Early
<1>8. Ages(o)'  BY <1>0, <1>1 DEF Ages, Building
<1>9. Fresh(o)' /\ Marked(o)' /\ Raced(o)'
  BY <1>0, <1>1, <1>2 DEF Fresh, Marked, Raced, Ended, Building, moneyVars
<1> QED  BY <1>0, <1>1, <1>5, <1>6, <1>7, <1>8, <1>9 DEF SellMoves, Local, Charges, moneyVars

LEMMA ReadyKeeps ==
    ASSUME Types, NEW o \in Orders, Local(o), ProviderReady(o)
    PROVE  SellMoves(o) /\ Charges(o) /\ order[o].pc # "idle"
<1>0. /\ Money(o) /\ Things(o) /\ Ages(o) /\ Fresh(o) /\ Marked(o) /\ Raced(o)
      /\ vm[o] = "building" /\ ~Nothing(o)
  BY DEF Local, ProviderReady, Nothing
<1>1. /\ UNCHANGED <<order, row, disk, ip, age, moneyVars, sweep, left>>
      /\ \E s \in {"on", "stuck"} : vm' = [vm EXCEPT ![o] = s]
  BY DEF ProviderReady
<1>2. /\ vm' \in [Orders -> {"none", "building", "on", "stuck"}] /\ vm'[o] # "none"
      /\ \A x \in Orders \ {o} : vm'[x] = vm[x]
  BY <1>1 DEF Types
<1>3. Types' /\ Others(o)  BY <1>1, <1>2 DEF Types, Others, moneyVars
<1>4. Money(o)'  BY <1>0, <1>1 DEF Money, Slow, moneyVars
<1>5. Things(o)'  BY <1>0, <1>1, <1>2 DEF Things
<1>6. Ages(o)'  BY <1>0, <1>1, <1>2 DEF Ages, Slow
<1>7. Fresh(o)' /\ Marked(o)' /\ Raced(o)'
  BY <1>0, <1>1, <1>2 DEF Fresh, Marked, Raced, Slow, moneyVars
<1>8. order[o].pc # "idle"  BY <1>0 DEF Things, Early
<1> QED  BY <1>1, <1>3, <1>4, <1>5, <1>6, <1>7, <1>8
         DEF SellMoves, Local, Charges, moneyVars

-----------------------------------------------------------------------------
(* A step of one order leaves the invariant of the others: they see of it  *)
(* only the wallet, and are told when it pays for something else.          *)
SweepStands ==
    /\ sweep'.pc = sweep.pc /\ sweep'.known = sweep.known
    /\ sweep'.ticks = sweep.ticks /\ sweep'.todo \subseteq sweep.todo

LEMMA OthersKeep ==
    ASSUME IInv, NEW o \in Orders, Others(o), Local(o)', Charges(o), SweepStands,
           NEW x \in Orders \ {o}
    PROVE  Local(x)'
<1>0. /\ Money(x) /\ Things(x) /\ Ages(x) /\ Fresh(x) /\ Marked(x) /\ Raced(x)
      /\ order'[x] = order[x] /\ row'[x] = row[x] /\ vm'[x] = vm[x]
      /\ disk'[x] = disk[x] /\ ip'[x] = ip[x] /\ age'[x] = age[x]
      /\ left'[x] = left[x] /\ debits'[x] = debits[x] /\ refunds'[x] = refunds[x]
  BY DEF IInv, Local, Others
<1>1. Money(x)'  BY <1>0 DEF Money, Slow
<1>2. Things(x)'  BY <1>0 DEF Things, Nothing
<1>3. Ages(x)'  BY <1>0 DEF Ages, Slow
<1>4. Fresh(x)' /\ Marked(x)'  BY <1>0 DEF Fresh, Marked, SweepStands
<1>5. Raced(x)'
  <2>1. balance \in Int /\ (raced[x] => raced'[x])  BY DEF IInv, Types, Charges
  <2>2. order[x].pc \in Building => order[x].pc # "idle"  BY DEF Building
  <2>3. CASE balance' \in {balance, balance + Price}
    BY <1>0, <2>1, <2>3, AmountsAssumption DEF Raced, Slow
  <2>4. CASE order[x].pc # "idle" => raced'[x]
    BY <1>0, <2>1, <2>2, <2>4 DEF Raced, Slow
  <2> QED  BY <2>3, <2>4 DEF Charges
<1> QED  BY <1>1, <1>2, <1>3, <1>4, <1>5 DEF Local

LEMMA StepKeeps ==
    ASSUME IInv, NEW o \in Orders, Types', Others(o), Local(o)', Charges(o), SweepStands
    PROVE  IInv'
BY OthersKeep DEF IInv

LEMMA SoldKeeps ==
    ASSUME IInv, NEW o \in Orders, SellMoves(o), Charges(o)
    PROVE  IInv'
BY StepKeeps DEF SellMoves, SweepStands

(* The other billing of the buyer: whoever had compared the balance has    *)
(* lost a race.                                                            *)
LEMMA OtherBillingKeeps ==
    ASSUME IInv, OtherBilling
    PROVE  IInv'
<1>1. /\ UNCHANGED <<order, row, cloudVars, debits, refunds, sweep, left>>
      /\ Race(Orders) /\ Types
  BY DEF OtherBilling, IInv
<1>2. balance' \in Int
  <2>1. PICK amount \in 1..balance : balance' = balance - amount  BY DEF OtherBilling
  <2> QED  BY <1>1, <2>1 DEF Types
<1>3. Types'  BY <1>1, <1>2 DEF Types, cloudVars
<1>4. ASSUME NEW o \in Orders PROVE Local(o)'
  <2>0. Money(o) /\ Things(o) /\ Ages(o) /\ Fresh(o) /\ Marked(o) /\ Raced(o)
    BY <1>4 DEF IInv, Local
  <2>1. Money(o)'  BY <1>1, <2>0 DEF Money, Slow
  <2>2. Things(o)' /\ Ages(o)'  BY <1>1, <2>0 DEF Things, Nothing, Ages, Slow, cloudVars
  <2>3. Fresh(o)' /\ Marked(o)'  BY <1>1, <2>0 DEF Fresh, Marked, cloudVars
  <2>4. /\ raced[o] => raced'[o]
        /\ order[o].pc # "idle" => raced'[o]
    BY <1>1, <1>4 DEF Race
  <2>5. Raced(o)'  BY <1>1, <2>0, <2>4 DEF Raced, Building
  <2> QED  BY <2>1, <2>2, <2>3, <2>5 DEF Local
<1> QED  BY <1>3, <1>4 DEF IInv

-----------------------------------------------------------------------------
(* The sweeper.                                                            *)
LEMMA SweepOneKeeps ==
    ASSUME IInv, NEW o \in Orders, SweepOne(o) \/ SweepRefused(o)
    PROVE  IInv'
<1>0. /\ Types /\ Money(o) /\ Things(o) /\ Ages(o) /\ Fresh(o) /\ Marked(o) /\ Raced(o)
      /\ o \in sweep.todo /\ row[o] # "live" /\ order[o].pc \in Ended
  BY DEF IInv, Local, SweepOne, SweepRefused, Marked
<1>1. /\ UNCHANGED <<order, row, moneyVars, left>>
      /\ sweep' = [sweep EXCEPT !.todo = @ \ {o}]
      /\ TwDelete(o) \/ UNCHANGED cloudVars
  BY DEF SweepOne, SweepRefused
<1>2. sweep' \in SweepType /\ SweepStands
  BY <1>0, <1>1 DEF Types, SweepType, SweepStands
<1>3. /\ vm' \in [Orders -> {"none", "building", "on", "stuck"}]
      /\ disk' \in [Orders -> BOOLEAN] /\ ip' \in [Orders -> BOOLEAN] /\ age' = age
      /\ \A x \in Orders \ {o} : vm'[x] = vm[x] /\ disk'[x] = disk[x] /\ ip'[x] = ip[x]
      /\ Nothing(o) => Nothing(o)'
  <2>1. CASE TwDelete(o)
    <3>1. PICK kept \in BOOLEAN : Gone(o, FALSE, kept)  BY <2>1 DEF TwDelete
    <3> QED  BY <1>0, <3>1, GoneMoves DEF Nothing
  <2>2. CASE UNCHANGED cloudVars  BY <1>0, <2>2 DEF cloudVars, Types, Nothing
  <2> QED  BY <1>1, <2>1, <2>2
<1>4. Types'  BY <1>0, <1>1, <1>2, <1>3 DEF Types, moneyVars
<1>5. Others(o)  BY <1>1, <1>3 DEF Others, moneyVars
<1>6. Money(o)'  BY <1>0, <1>1 DEF Money, Slow, moneyVars
<1>7. Things(o)'  BY <1>0, <1>1, <1>3 DEF Things, Early, Ended
<1>8. Ages(o)'  BY <1>0, <1>1 DEF Ages, Ended, Building
<1>9. Fresh(o)' /\ Marked(o)' /\ Raced(o)'
  BY <1>0, <1>1 DEF Fresh, Marked, Raced, Slow, moneyVars
<1>10. Charges(o)  BY <1>1 DEF Charges, moneyVars
<1> QED  BY <1>2, <1>4, <1>5, <1>6, <1>7, <1>8, <1>9, <1>10, StepKeeps DEF Local

(* A sweep that touches no VM changes nothing but what the sweeper knows.  *)
LEMMA SweeperKeeps ==
    ASSUME IInv, UNCHANGED <<order, row, cloudVars, moneyVars, left>>,
           sweep' \in SweepType,
           \A o \in Orders : Fresh(o)' /\ Marked(o)'
    PROVE  IInv'
<1>1. Types'  BY DEF IInv, Types, cloudVars, moneyVars
<1>2. ASSUME NEW o \in Orders PROVE Local(o)'
  <2>1. Money(o) /\ Things(o) /\ Ages(o) /\ Raced(o)  BY <1>2 DEF IInv, Local
  <2>2. Money(o)' /\ Raced(o)'  BY <2>1 DEF Money, Slow, Raced, moneyVars
  <2>3. Things(o)' /\ Ages(o)'  BY <2>1 DEF Things, Nothing, Ages, Slow, cloudVars
  <2> QED  BY <1>2, <2>2, <2>3 DEF Local
<1> QED  BY <1>1, <1>2 DEF IInv

(* Before it has read the rows the sweeper knows nothing.                  *)
LEMMA SyncKeeps ==
    ASSUME IInv, BeginSync \/ SyncFails
    PROVE  IInv'
<1>1. UNCHANGED <<order, row, cloudVars, moneyVars, left>> /\ sweep \in SweepType
  BY DEF BeginSync, SyncFails, IInv, Types
<1>2. /\ sweep' \in SweepType /\ sweep'.pc \in {"idle", "prices"}
      /\ sweep'.todo \subseteq sweep.todo
  BY <1>1 DEF BeginSync, SyncFails, SweepType
<1>3. ASSUME NEW o \in Orders PROVE Fresh(o)' /\ Marked(o)'
  <2>1. Marked(o)  BY <1>3 DEF IInv, Local
  <2> QED  BY <1>1, <1>2, <2>1 DEF Fresh, Marked
<1> QED  BY <1>1, <1>2, <1>3, SweeperKeeps

LEMMA ReadKnownKeeps ==
    ASSUME IInv, ReadKnown
    PROVE  IInv'
<1>1. /\ sweep' = [pc |-> "known", known |-> Owned, todo |-> {}, ticks |-> 0]
      /\ UNCHANGED <<order, row, cloudVars, moneyVars, left>>
  BY DEF ReadKnown
<1>2. sweep' \in SweepType  BY <1>1 DEF SweepType, Owned
<1>3. ASSUME NEW o \in Orders PROVE Fresh(o)' /\ Marked(o)'
  <2>1. sweep'.known = Owned /\ sweep'.todo = {}  BY <1>1
  <2>2. row'[o] = "live" => o \in sweep'.known  BY <1>1, <2>1 DEF Owned
  <2> QED  BY <2>1, <2>2 DEF Fresh, Marked
<1> QED  BY <1>1, <1>2, <1>3, SweeperKeeps

(* The age that spares builds also spares rows written since the sweeper   *)
(* read the rows: a VM that is old enough has neither.                     *)
LEMMA ListOrphansKeeps ==
    ASSUME IInv, ListOrphans, AgesAssumption
    PROVE  IInv'
<1>0. PICK listed \in SUBSET Machines :
         sweep' = [sweep EXCEPT !.pc = "listed",
                                !.todo = {o \in listed \ sweep.known : Old(o)}]
  BY DEF ListOrphans
<1>1. /\ sweep.pc = "known" /\ sweep \in SweepType
      /\ UNCHANGED <<order, row, cloudVars, moneyVars, left>>
  BY DEF ListOrphans, IInv, Types
<1>2. /\ sweep' \in SweepType /\ sweep'.known = sweep.known /\ sweep'.ticks = sweep.ticks
      /\ sweep'.pc = "listed"
      /\ sweep'.todo \subseteq {o \in Machines \ sweep.known : Old(o)}
  BY <1>0, <1>1 DEF SweepType, Machines
<1>3. ASSUME NEW o \in Orders PROVE Fresh(o)' /\ Marked(o)'
  <2>0. Types /\ Money(o) /\ Things(o) /\ Ages(o) /\ Fresh(o)  BY <1>3 DEF IInv, Local
  <2>1. Fresh(o)'  BY <1>1, <1>2, <2>0 DEF Fresh, cloudVars
  <2>2. Marked(o)'
    <3>1. SUFFICES ASSUME o \in sweep'.todo
                   PROVE  row[o] # "live" /\ order[o].pc \in Ended
      BY <1>1 DEF Marked
    <3>2. /\ o \notin sweep.known /\ order[o].kind = "timeweb" /\ vm[o] # "none"
          /\ age[o] >= SweepAge /\ Slow(o) /\ order[o] \in OrderType
      BY <1>2, <2>0, <3>1 DEF Machines, Old, Slow, Background, Types
    <3>3. /\ age[o] \in Nat /\ sweep.ticks \in {0, 1} /\ order[o].ticks \in Nat
          /\ BuildLimit \in Nat /\ SweepAge \in Nat /\ BuildLimit + 1 < SweepAge
      BY <1>1, <2>0, <3>2, AgesAssumption DEF Types, SweepType, OrderType
    <3>4. age[o] > BuildLimit + sweep.ticks  BY <3>2, <3>3
    <3>5. row[o] # "live"
      <4>1. row[o] = "live" => age[o] <= BuildLimit + sweep.ticks
        BY <1>1, <2>0, <3>2 DEF Fresh
      <4> QED  BY <3>3, <3>4, <4>1
    <3>6. order[o].pc \notin Building
      <4>1. order[o].pc \in Building => /\ age[o] <= order[o].ticks
                                        /\ order[o].ticks <= BuildLimit
        BY <2>0, <3>2 DEF Ages
      <4> QED  BY <3>2, <3>3, <4>1
    <3>7. order[o].pc \notin Early  BY <2>0, <3>2 DEF Things, Nothing
    <3> QED  BY <3>2, <3>5, <3>6, <3>7 DEF OrderType, States, Early
  <2> QED  BY <2>1, <2>2
<1> QED  BY <1>1, <1>2, <1>3, SweeperKeeps

LEMMA SweepEndsKeeps ==
    ASSUME IInv, SweepEnds
    PROVE  IInv'
<1>1. /\ sweep.todo = {} /\ sweep \in SweepType
      /\ sweep' = [sweep EXCEPT !.pc = "idle", !.known = {}, !.ticks = 0]
      /\ UNCHANGED <<order, row, cloudVars, moneyVars, left>>
  BY DEF SweepEnds, IInv, Types
<1>2. sweep' \in SweepType /\ sweep'.pc = "idle" /\ sweep'.todo = {}
  BY <1>1 DEF SweepType
<1>3. ASSUME NEW o \in Orders PROVE Fresh(o)' /\ Marked(o)'
  BY <1>2 DEF Fresh, Marked
<1> QED  BY <1>1, <1>2, <1>3, SweeperKeeps

-----------------------------------------------------------------------------
(* A restart forgets every handler and task that was on its way.           *)
LEMMA RestartKeeps ==
    ASSUME IInv, Restart
    PROVE  IInv'
<1>1. /\ order' = [o \in Orders |-> IF order[o].pc \in Open
                                    THEN [order[o] EXCEPT !.pc = "lost"]
                                    ELSE order[o]]
      /\ left' = [o \in Orders |-> left[o] \/ order[o].pc \in Open]
      /\ UNCHANGED <<row, cloudVars, moneyVars, sweep>>
  BY DEF Restart
<1>2. \A o \in Orders : order[o] \in OrderType  BY DEF IInv, Types
<1>3. ASSUME NEW o \in Orders, order[o].pc \notin Open
      PROVE  /\ order'[o] = order[o] /\ left'[o] = left[o] /\ order'[o] \in OrderType
  BY <1>1, <1>2, <1>3 DEF IInv, Types
<1>4. ASSUME NEW o \in Orders, order[o].pc \in Open
      PROVE  SameButPc(o, "lost") /\ left'[o] /\ order'[o] \in OrderType
  <2>1. order'[o] = [order[o] EXCEPT !.pc = "lost"]  BY <1>1, <1>4
  <2>2. [order[o] EXCEPT !.pc = "lost"] \in OrderType
    BY <1>2, <1>4 DEF OrderType, States, Ended
  <2>3. SameButPc(o, "lost")  BY <1>2, <1>4, <2>1 DEF OrderType, SameButPc
  <2> QED  BY <1>1, <1>4, <2>1, <2>2, <2>3
<1>5. Types'
  <2>1. order' \in [Orders -> OrderType]
    <3>1. \A o \in Orders : order'[o] \in OrderType  BY <1>3, <1>4
    <3> QED  BY <1>1, <3>1
  <2>2. left' \in [Orders -> BOOLEAN]  BY <1>1 DEF IInv, Types
  <2> QED  BY <1>1, <2>1, <2>2 DEF IInv, Types, cloudVars, moneyVars
<1>6. ASSUME NEW o \in Orders PROVE Local(o)'
  <2>0. Money(o) /\ Things(o) /\ Ages(o) /\ Fresh(o) /\ Marked(o) /\ Raced(o)
    BY <1>6 DEF IInv, Local
  <2>1. CASE order[o].pc \notin Open
    <3>1. Money(o)'  BY <1>1, <1>3, <2>0, <2>1 DEF Money, Slow, moneyVars
    <3>2. Things(o)' /\ Ages(o)'
      BY <1>1, <1>3, <2>0, <2>1 DEF Things, Nothing, Ages, Slow, cloudVars
    <3>3. Fresh(o)' /\ Marked(o)' /\ Raced(o)'
      BY <1>1, <1>3, <2>0, <2>1 DEF Fresh, Marked, Raced, Slow, cloudVars, moneyVars
    <3> QED  BY <3>1, <3>2, <3>3 DEF Local
  <2>2. CASE order[o].pc \in Open
    <3>0. SameButPc(o, "lost") /\ left'[o]  BY <1>4, <2>2
    <3>1. Money(o)'
      BY <1>1, <2>0, <2>2, <3>0 DEF Money, Slow, One, SameButPc, Open, Building, Ended, moneyVars
    <3>2. Things(o)' /\ Ages(o)'  BY <3>0 DEF Things, Ages, SameButPc, Early, Building
    <3>3. Fresh(o)' /\ Marked(o)' /\ Raced(o)'
      BY <1>1, <2>0, <3>0 DEF Fresh, Marked, Raced, SameButPc, Ended, Building, cloudVars,
                              moneyVars
    <3> QED  BY <3>1, <3>2, <3>3 DEF Local
  <2> QED  BY <2>1, <2>2
<1> QED  BY <1>5, <1>6 DEF IInv

(* Time passes for the builds, for the VMs and between two reads of the    *)
(* sweeper.                                                                *)
LEMMA TickKeeps ==
    ASSUME IInv, Tick, AgesAssumption
    PROVE  IInv'
<1>1. /\ \A o \in Orders : Timed(o) => order[o].ticks < BuildLimit
      /\ sweep.ticks = 0
      /\ age' = [o \in Orders |-> IF Young(o) THEN age[o] + 1 ELSE age[o]]
      /\ order' = [o \in Orders |-> IF Timed(o) THEN [order[o] EXCEPT !.ticks = @ + 1]
                                                ELSE order[o]]
      /\ sweep' = [sweep EXCEPT !.ticks = IF sweep.pc \in {"idle", "prices"} THEN 0 ELSE 1]
      /\ UNCHANGED <<row, vm, disk, ip, moneyVars, left>>
      /\ sweep \in SweepType
  BY DEF Tick, IInv, Types
<1>2. /\ sweep' \in SweepType /\ sweep'.pc = sweep.pc /\ sweep'.known = sweep.known
      /\ sweep'.todo = sweep.todo
      /\ sweep'.ticks = IF sweep.pc \in {"idle", "prices"} THEN 0 ELSE 1
  BY <1>1 DEF SweepType
<1>3. ASSUME NEW o \in Orders
      PROVE  /\ order'[o] \in OrderType
             /\ order'[o].pc = order[o].pc /\ order'[o].kind = order[o].kind
             /\ order'[o].paid = order[o].paid /\ order'[o].back = order[o].back
             /\ order'[o].sent = order[o].sent
             /\ Timed(o) => order'[o].ticks = order[o].ticks + 1
             /\ ~Timed(o) => order'[o] = order[o]
             /\ age[o] \in Nat /\ age'[o] \in {age[o], age[o] + 1}
  <2>1. order[o] \in OrderType /\ age[o] \in Nat  BY <1>3 DEF IInv, Types
  <2>2. age'[o] \in {age[o], age[o] + 1}  BY <1>1, <1>3
  <2>3. CASE ~Timed(o)  BY <1>1, <1>3, <2>1, <2>2, <2>3
  <2>4. CASE Timed(o)
    <3>1. order'[o] = [order[o] EXCEPT !.ticks = @ + 1]  BY <1>1, <1>3, <2>4
    <3>2. order[o].ticks + 1 \in Nat  BY <2>1 DEF OrderType
    <3> QED  BY <2>1, <2>2, <2>4, <3>1, <3>2 DEF OrderType
  <2> QED  BY <2>3, <2>4
<1>4. Types'
  <2>1. order' \in [Orders -> OrderType]  BY <1>1, <1>3
  <2>2. age' \in [Orders -> Nat]
    <3>1. \A o \in Orders : age'[o] \in Nat  BY <1>3
    <3> QED  BY <1>1, <3>1
  <2> QED  BY <1>1, <1>2, <2>1, <2>2 DEF IInv, Types, moneyVars
<1>5. \A o \in Orders : order'[o].pc = order[o].pc /\ order'[o].kind = order[o].kind
  BY <1>3
<1>6. ASSUME NEW o \in Orders PROVE Local(o)'
  <2>0. /\ Money(o) /\ Things(o) /\ Ages(o) /\ Fresh(o) /\ Marked(o) /\ Raced(o)
        /\ Types /\ order[o] \in OrderType
    BY <1>6 DEF IInv, Local, Types
  <2>1. Money(o)'
    <3>1. order[o].pc = "idle" => order'[o] = order[o]
      BY <1>3, <1>6 DEF Timed, Building
    <3> QED  BY <1>1, <1>3, <1>6, <2>0, <3>1 DEF Money, Slow, moneyVars
  <2>2. Things(o)'  BY <1>1, <1>3, <1>6, <2>0 DEF Things, Nothing
  <2>3. Ages(o)'
    <3>1. /\ BuildLimit \in Nat /\ order[o].ticks \in Nat /\ order'[o].ticks \in Nat
          /\ Timed(o) => order[o].ticks < BuildLimit
      BY <1>1, <1>3, <1>6, <2>0, AgesAssumption DEF OrderType
    <3>2. CASE Timed(o)
      <4>1. /\ order'[o].ticks = order[o].ticks + 1 /\ order[o].ticks < BuildLimit
            /\ order[o].pc \in Building
            /\ vm[o] # "none" /\ order[o].kind = "timeweb" => age[o] <= order[o].ticks
        BY <1>3, <1>6, <2>0, <3>1, <3>2 DEF Timed, Ages
      <4>2. vm[o] # "none" /\ order[o].kind = "timeweb" => age'[o] <= order'[o].ticks
        BY <1>3, <1>6, <3>1, <4>1
      <4>3. order'[o].ticks <= BuildLimit  BY <3>1, <4>1
      <4> QED  BY <1>1, <1>3, <1>6, <4>1, <4>2, <4>3 DEF Ages, Building
    <3>3. CASE ~Timed(o)
      <4>1. order[o].pc \in Building => ~Slow(o)  BY <3>3 DEF Timed, Slow
      <4>2. order'[o] = order[o]  BY <1>3, <1>6, <3>3
      <4>3. order[o].kind = "timeweb" => Slow(o)  BY DEF Slow, Background
      <4> QED  BY <2>0, <4>1, <4>2, <4>3 DEF Ages, Slow
    <3> QED  BY <3>2, <3>3
  <2>4. Fresh(o)'
    <3>1. SUFFICES ASSUME row[o] = "live", vm[o] # "none", order[o].kind = "timeweb",
                          sweep.pc \notin {"idle", "prices"}, o \notin sweep.known
                   PROVE  age'[o] <= BuildLimit + sweep'.ticks
      BY <1>1, <1>2, <1>3, <1>6 DEF Fresh
    <3>2. age[o] <= BuildLimit + sweep.ticks  BY <2>0, <3>1 DEF Fresh
    <3>3. sweep.ticks = 0 /\ sweep'.ticks = 1  BY <1>1, <1>2, <3>1
    <3> QED  BY <1>3, <1>6, <3>2, <3>3, AgesAssumption
  <2>5. Marked(o)' /\ Raced(o)'
    BY <1>1, <1>2, <1>5, <1>6, <2>0 DEF Marked, Raced, Slow, moneyVars
  <2> QED  BY <2>1, <2>2, <2>3, <2>4, <2>5 DEF Local
<1> QED  BY <1>4, <1>6 DEF IInv

-----------------------------------------------------------------------------
(* The invariant holds in the beginning, and every step keeps it.          *)
LEMMA InitIInv ==
    ASSUME Init, AmountsAssumption, AgesAssumption
    PROVE  IInv
<1>1. Types
  <2>1. NoOrder \in OrderType  BY DEF NoOrder, OrderType, States
  <2> QED  BY <2>1, AmountsAssumption DEF Init, Types, SweepType
<1>2. ASSUME NEW o \in Orders PROVE Local(o)
  <2>1. /\ order[o] = NoOrder /\ row[o] = "none" /\ Nothing(o) /\ debits[o] = 0
        /\ refunds[o] = 0 /\ o \notin sweep.todo
    BY <1>2 DEF Init, Nothing
  <2> QED  BY <2>1 DEF Local, Money, Things, Ages, Fresh, Marked, Raced, NoOrder, Slow,
                       Background, Building, Early
<1> QED  BY <1>1, <1>2 DEF IInv

LEMMA OrderStep ==
    ASSUME IInv, NEW o \in Orders,
           Sell(o) \/ Create(o) \/ Deliver(o) \/ DeleteServer(o) \/ ProviderReady(o),
           AmountsAssumption, KindsAssumption, AgesAssumption
    PROVE  IInv'
<1>0. Types /\ Local(o)  BY DEF IInv
<1>1. CASE Confirm(o)
  BY <1>0, <1>1, KindsAssumption, ConfirmKeeps, SoldKeeps DEF Charges, moneyVars
<1>2. CASE RefuseEarly(o)
  BY <1>0, <1>2, RefuseEarlyKeeps, SoldKeeps DEF RefuseEarly
<1>3. CASE PayFirst(o)
  BY <1>0, <1>3, PayFirstKeeps, SoldKeeps, AmountsAssumption, AgesAssumption DEF PayFirst
<1>4. CASE Create(o) \/ RecordFails(o)
  <2>1. /\ Types' /\ Others(o) /\ Local(o)' /\ UNCHANGED <<row, moneyVars, sweep>>
        /\ order[o].pc \in Building
    BY <1>0, <1>4, BuildKeeps
  <2> QED  BY <2>1, SoldKeeps DEF SellMoves, Charges, moneyVars, Building
<1>5. CASE Record(o)
  BY <1>5, RecordKeeps, SoldKeeps, AmountsAssumption, AgesAssumption DEF Record
<1>6. CASE SendDelivery(o)
  BY <1>0, <1>6, SendDeliveryKeeps, SoldKeeps DEF SendDelivery
<1>7. CASE Refund(o) \/ LastDitchRefund(o)
  BY <1>0, <1>7, RefundKeeps, SoldKeeps, AmountsAssumption DEF Refund, LastDitchRefund
<1>8. CASE DeleteServer(o)  BY <1>0, <1>8, DeleteKeeps, SoldKeeps
<1>9. CASE ProviderReady(o)  BY <1>0, <1>9, ReadyKeeps, SoldKeeps
<1> QED  BY <1>1, <1>2, <1>3, <1>4, <1>5, <1>6, <1>7, <1>8, <1>9 DEF Sell, Deliver

LEMMA NextIInv ==
    ASSUME IInv, [Next]_vars, AmountsAssumption, KindsAssumption, AgesAssumption
    PROVE  IInv'
<1>1. CASE \E o \in Orders : Sell(o) \/ Create(o) \/ Deliver(o)
                             \/ DeleteServer(o) \/ ProviderReady(o)
  BY <1>1, OrderStep, AmountsAssumption, KindsAssumption, AgesAssumption
<1>2. CASE Sweep
  BY <1>2, SyncKeeps, ReadKnownKeeps, ListOrphansKeeps, SweepEndsKeeps, SweepOneKeeps,
     AgesAssumption DEF Sweep
<1>3. CASE Restart  BY <1>3, RestartKeeps
<1>4. CASE Tick  BY <1>4, TickKeeps, AgesAssumption
<1>5. CASE UNCHANGED vars
  <2>1. UNCHANGED <<order, row, cloudVars, moneyVars, left, sweep>>  BY <1>5 DEF vars
  <2>2. sweep' \in SweepType  BY <2>1 DEF IInv, Types
  <2>3. ASSUME NEW o \in Orders PROVE Fresh(o)' /\ Marked(o)'
    BY <2>1, <2>3 DEF IInv, Local, Fresh, Marked, cloudVars
  <2> QED  BY <2>1, <2>2, <2>3, SweeperKeeps
<1>6. CASE Configure
  <2>1. UNCHANGED <<order, row, cloudVars, moneyVars, left, sweep>>
    BY <1>6 DEF Configure
  <2>2. sweep' \in SweepType  BY <2>1 DEF IInv, Types
  <2>3. ASSUME NEW o \in Orders PROVE Fresh(o)' /\ Marked(o)'
    BY <2>1, <2>3 DEF IInv, Local, Fresh, Marked, cloudVars
  <2> QED  BY <2>1, <2>2, <2>3, SweeperKeeps
<1>7. CASE OtherBilling  BY <1>7, OtherBillingKeeps
<1> QED  BY <1>1, <1>2, <1>3, <1>4, <1>5, <1>6, <1>7 DEF Next

-----------------------------------------------------------------------------
(* In every reachable state the invariant holds.                           *)
THEOREM InductiveInvariant == Spec => []IInv
<1>1. Init => IInv  BY InitIInv, AmountsAssumption, AgesAssumption
<1>2. IInv /\ [Next]_vars => IInv'
  BY NextIInv, AmountsAssumption, KindsAssumption, AgesAssumption
<1> QED  BY <1>1, <1>2, PTL DEF Spec

(* A sale has the types its handlers and the provider clients give it: an  *)
(* order is at a place of its program, a row is none, live or deleted.     *)
THEOREM TypeCorrect == Spec => []Types
<1>1. IInv => Types  BY DEF IInv
<1> QED  BY <1>1, InductiveInvariant, PTL

(* No order is debited or refunded twice, none is refunded without a debit, *)
(* and a background order whose task has ended was delivered or has its    *)
(* money back (_bg_build_and_deliver).                                     *)
THEOREM SettledTheorem == Spec => []Settled
<1>1. IInv => Settled
  <2>1. SUFFICES ASSUME IInv, NEW o \in Orders
                 PROVE  /\ refunds[o] <= debits[o] /\ debits[o] <= 1
                        /\ order[o].pc = "closed" /\ order[o].kind \in Background
                             => row[o] # "none" \/ debits[o] = refunds[o]
    BY DEF Settled
  <2>2. Money(o) /\ order[o] \in OrderType  BY <2>1 DEF IInv, Local, Types
  <2>3. CASE Slow(o)  BY <2>2, <2>3 DEF Money, One, Slow, OrderType
  <2>4. CASE ~Slow(o)  BY <2>2, <2>4 DEF Money, Slow
  <2> QED  BY <2>3, <2>4
<1> QED  BY <1>1, InductiveInvariant, PTL

(* A server nobody paid for was sold in the handler, to one whose wallet   *)
(* paid for another order, or was billed for something else, between the   *)
(* check and the debit at the end (cb_confirm_purchase).                   *)
THEOREM UnpaidOnlyByRaceTheorem == Spec => []UnpaidOnlyByRace
<1>1. IInv => UnpaidOnlyByRace
  <2>1. SUFFICES ASSUME IInv, NEW o \in Orders, row[o] # "none", debits[o] = 0
                 PROVE  order[o].kind \notin Background /\ raced[o]
    BY DEF UnpaidOnlyByRace
  <2>2. Money(o) /\ Raced(o)  BY <2>1 DEF IInv, Local
  <2> QED  BY <2>1, <2>2 DEF Money, One, Slow, Raced
<1> QED  BY <1>1, InductiveInvariant, PTL

(* A purchase that ended without a server and without one of the failures  *)
(* the code swallows leaves no VM, volume or address (the clean-up of the  *)
(* provider clients).                                                      *)
THEOREM CleanRefusalTheorem == Spec => []CleanRefusal
<1>1. IInv => CleanRefusal
  BY DEF IInv, Local, Things, Nothing, CleanRefusal
<1> QED  BY <1>1, InductiveInvariant, PTL

(* The sweeper never deletes the VM of a customer or of a running build    *)
(* (sync_timeweb_catalog: the rows are read before the VMs are listed, and *)
(* the age exceeds what a build may take).                                 *)
THEOREM SparedTheorem == Spec => SweepSparesCustomers
<1>1. ASSUME IInv
      PROVE  \A o \in Orders : SweepOne(o) => row[o] # "live" /\ order[o].pc \notin Building
  BY <1>1 DEF IInv, Local, Marked, SweepOne, Ended, Building
<1>2. IInv /\ [Next]_vars
        => [\A o \in Orders : SweepOne(o) => row[o] # "live" /\ order[o].pc \notin Building]_vars
  BY <1>1
<1> QED  BY <1>2, InductiveInvariant, PTL DEF Spec, SweepSparesCustomers

-----------------------------------------------------------------------------
(* The storefront                                                          *)

Stations == {"none", "category", "plan", "billing", "hostname", "os", "discount",
             "email", "confirming"}
Billings == {"unset", "none", "hourly", "monthly"}

DataType == [plan : Plans \cup {NoPlan}, billing : Billings, late : BOOLEAN,
             dearListed : BOOLEAN, dear : BOOLEAN, off : BOOLEAN, crossed : BOOLEAN]
ScreenType == [plan : Plans \cup {NoPlan}, billing : Billings, price : Nat,
               sold : Nat, outdated : BOOLEAN, overlapped : BOOLEAN]
PlacedType == [there : BOOLEAN, plan : Plans \cup {NoPlan}, billing : Billings, price : Nat,
               off : BOOLEAN, crossed : BOOLEAN, withdrawn : BOOLEAN, asShown : BOOLEAN]
JobType == [pc : {"idle", "os", "show", "buy"}, data : DataType, price : Nat,
            withdrawn : BOOLEAN, asShown : BOOLEAN]

StorefrontTypes ==
    /\ st \in Stations /\ data \in DataType /\ job \in [Handlers -> JobType]
    /\ plan \in [Plans -> [there : BOOLEAN, hourly : Nat, monthly : Nat]]
    /\ rate \in BOOLEAN /\ screen \in ScreenType /\ placed \in PlacedType
    /\ withdrawn \in BOOLEAN

(* The plan has the price the choices d ask for.  At Timeweb the billing is *)
(* chosen last, and until then either price will do.                       *)
Priced(d) ==
    d.plan # NoPlan =>
      IF d.late /\ d.billing = "none" THEN plan[d.plan].hourly + plan[d.plan].monthly > 0
      ELSE IF d.billing = "hourly" THEN plan[d.plan].hourly > 0
      ELSE plan[d.plan].monthly > 0

(* What the choices are good for from the discount on.                     *)
Last == {"discount", "email", "confirming"}
Whole(d, s) ==
    /\ s \in Last => ~(d.late /\ d.billing = "none")
    /\ s = "discount" => d.billing # "hourly"
    /\ s \in {"email", "confirming"} /\ d.billing = "hourly" => ~d.off

(* The last confirmation screen says what an order would cost now.         *)
Shown(d) == st = "confirming" /\ ~screen.outdated
               => d.plan # NoPlan /\ Says(screen) = Said(d, Base(d))

Choices == data.crossed \/ (Whole(data, st) /\ Shown(data) /\ (withdrawn \/ Priced(data)))

(* A handler that shows the confirmation or buys.                          *)
Waiting(j) ==
    /\ j.pc = "show" => HourlyAtGcore(j.data) /\ (j.data.crossed \/ ~j.data.off)
    /\ j.pc = "buy" => /\ j.asShown
                       /\ j.price = 0 => j.withdrawn \/ j.data.crossed
                       /\ j.data.billing = "hourly" => ~j.data.off \/ j.data.crossed

Ordered == placed.asShown /\ NothingForFree /\ HourlyWithoutDiscount

StorefrontInv == /\ StorefrontTypes /\ Choices /\ Ordered /\ screen.sold = 0
                 /\ \A w \in Handlers : Waiting(job[w])

-----------------------------------------------------------------------------
(* Types of what the handlers compute.                                     *)
LEMMA BlankTypes ==
    /\ Blank \in DataType /\ NoScreen \in ScreenType /\ NothingPlaced \in PlacedType
    /\ NoJob \in JobType /\ Waiting(NoJob)
BY DEF Blank, NoScreen, NothingPlaced, NoJob, DataType, ScreenType, PlacedType, JobType,
       Billings, Waiting

LEMMA BaseType ==
    ASSUME StorefrontTypes, StorefrontAssumption, NEW d \in DataType, d.plan # NoPlan
    PROVE  Base(d) \in Nat
<1>1. d.plan \in Plans  BY DEF DataType
<1>2. /\ plan[d.plan] \in [there : BOOLEAN, hourly : Nat, monthly : Nat]
      /\ FirstPrice[d.plan] \in [hourly : Nat, monthly : Nat]
  BY <1>1, StorefrontAssumption DEF StorefrontTypes
<1> QED  BY <1>2 DEF Base, OsPrice

LEMMA SameScreen ==
    ASSUME NEW a \in ScreenType, NEW b \in ScreenType,
           a.plan = b.plan, a.billing = b.billing, a.price = b.price, a.sold = b.sold,
           a.outdated = b.outdated, a.overlapped = b.overlapped
    PROVE  a = b
BY DEF ScreenType

LEMMA SaidIs ==
    ASSUME NEW d \in DataType, NEW price \in Nat
    PROVE  /\ Said(d, price) \in ScreenType
           /\ Said(d, price).plan = d.plan /\ Said(d, price).billing = d.billing
           /\ Said(d, price).price = Discounted(price, d.off)
           /\ Said(d, price).sold = 0 /\ Said(d, price).outdated = FALSE
           /\ Said(d, price).overlapped = FALSE
<1>1. NoScreen \in ScreenType  BY BlankTypes
<1>2. Discounted(price, d.off) \in Nat  BY DEF Discounted
<1>3. d.plan \in Plans \cup {NoPlan} /\ d.billing \in Billings  BY DEF DataType
<1>4. Said(d, price) = [NoScreen EXCEPT !.plan = d.plan, !.billing = d.billing,
                                         !.price = Discounted(price, d.off)]
  BY DEF Said
<1>5. NoScreen.sold = 0 /\ NoScreen.outdated = FALSE /\ NoScreen.overlapped = FALSE
  BY DEF NoScreen
<1> QED  BY <1>1, <1>2, <1>3, <1>4, <1>5 DEF ScreenType

LEMMA SaysIs ==
    ASSUME NEW scr \in ScreenType
    PROVE  /\ Says(scr) \in ScreenType
           /\ Says(scr).plan = scr.plan /\ Says(scr).billing = scr.billing
           /\ Says(scr).price = scr.price
           /\ Says(scr).sold = 0 /\ Says(scr).outdated = FALSE
           /\ Says(scr).overlapped = FALSE
BY DEF Says, ScreenType

(* What holds of the handlers and of the screen, whatever the data are.    *)
Calm == /\ job \in [Handlers -> JobType] /\ screen \in ScreenType /\ screen.sold = 0
        /\ \A w \in Handlers : Waiting(job[w])

LEMMA JobSet ==
    ASSUME Calm, NEW w \in Handlers, NEW j \in JobType, Waiting(j),
           job' = [job EXCEPT ![w] = j]
    PROVE  job' \in [Handlers -> JobType] /\ \A v \in Handlers : Waiting(job'[v])
<1>1. job' \in [Handlers -> JobType]  BY DEF Calm
<1>2. ASSUME NEW v \in Handlers PROVE Waiting(job'[v])
  <2>1. CASE v = w  BY <2>1 DEF Calm
  <2>2. CASE v # w
    <3>1. job'[v] = job[v]  BY <1>2, <2>2 DEF Calm
    <3> QED  BY <1>2, <3>1 DEF Calm
  <2> QED  BY <2>1, <2>2
<1> QED  BY <1>1, <1>2

LEMMA KeptScreen ==
    ASSUME Calm, Kept(screen)
    PROVE  /\ screen' \in ScreenType /\ screen'.sold = 0
           /\ st' = "confirming" => screen' = screen
BY BlankTypes DEF Calm, Kept, NoScreen

LEMMA EndsCalm ==
    ASSUME Calm, NEW w \in Handlers, Ends(w)
    PROVE  Calm' /\ UNCHANGED World /\ (st' = "confirming" => screen' = screen)
<1>1. job' = [job EXCEPT ![w] = NoJob] /\ Kept(screen) /\ UNCHANGED World
  BY DEF Ends
<1> QED  BY <1>1, BlankTypes, JobSet, KeptScreen DEF Calm

(* The choices are d now.                                                  *)
LEMMA ChoicesNow ==
    ASSUME NEW d, data' = d, UNCHANGED World,
           d.crossed \/ (/\ Whole(d, st') /\ (withdrawn' \/ Priced(d))
                         /\ st' = "confirming" /\ ~screen'.outdated
                              => d.plan # NoPlan /\ Says(screen') = Said(d, Base(d)))
    PROVE  Choices'
<1>1. plan' = plan  BY DEF World
<1>2. Base(data)' = Base(d) /\ (Priced(d) => Priced(data)')
  BY <1>1 DEF Base, HourlyAtGcore, OsPrice, Priced
<1>3. Whole(data, st)' = Whole(d, st')  BY DEF Whole
<1>4. Shown(data)' = (st' = "confirming" /\ ~screen'.outdated
                        => d.plan # NoPlan /\ Says(screen') = Said(d, Base(d)))
  BY <1>2 DEF Shown, Says, Said, Discounted
<1> QED  BY <1>2, <1>3, <1>4 DEF Choices

-----------------------------------------------------------------------------
(* Where the handlers of the purchase lead, with the choices d, when these *)
(* are as good as the last ones were (Fit).                                *)
Moves == /\ Calm' /\ UNCHANGED World /\ st' \in Stations /\ data' \in DataType /\ Choices'
Fit(d) == d.crossed \/ (Whole(d, st) /\ Shown(d) /\ (withdrawn' \/ Priced(d)))

LEMMA Stays ==
    ASSUME StorefrontTypes, Calm, NEW d \in DataType, Fit(d), data' = d, st' = st, UNCHANGED World,
           Calm', st' = "confirming" => screen' = screen
    PROVE  Moves
<1>1. CASE d.crossed  BY <1>1, ChoicesNow DEF Moves, StorefrontTypes
<1>2. CASE ~d.crossed
  <2>1. Whole(d, st') /\ (withdrawn' \/ Priced(d)) /\ Shown(d)  BY <1>2 DEF Fit
  <2>2. st' = "confirming" /\ ~screen'.outdated => d.plan # NoPlan /\ Says(screen') = Said(d, Base(d))
    BY <2>1 DEF Shown
  <2> QED  BY <2>1, <2>2, ChoicesNow DEF Moves, StorefrontTypes
<1> QED  BY <1>1, <1>2

LEMMA Leaves ==
    ASSUME StorefrontTypes, NEW d \in DataType, d.crossed \/ (withdrawn' \/ Priced(d)), data' = d,
           NEW s \in Stations \ Last, st' = s, UNCHANGED World, Calm'
    PROVE  Moves
<1>1. Whole(d, st') /\ st' # "confirming"  BY DEF Whole, Last
<1> QED  BY <1>1, ChoicesNow DEF Moves

LEMMA GivenUp ==
    ASSUME StorefrontTypes, data' = Blank, st' = "none", UNCHANGED World, Calm'
    PROVE  Moves
<1>1. Priced(Blank)  BY DEF Priced, Blank
<1> QED  BY <1>1, BlankTypes, Leaves DEF Stations, Last

LEMMA ShowConfirmMoves ==
    ASSUME StorefrontTypes, Calm, StorefrontAssumption, NEW w \in Handlers, NEW d \in DataType,
           d.plan # NoPlan, NEW price \in Nat, ShowConfirm(w, d, price)
    PROVE  /\ Calm' /\ UNCHANGED World /\ st' = "confirming"
           /\ ~screen'.outdated => d.plan # NoPlan /\ Says(screen') = Said(d, Base(d))
<1>1. /\ st' = "confirming" /\ job' = [job EXCEPT ![w] = NoJob] /\ UNCHANGED World
      /\ \/ screen' = [Said(d, price) EXCEPT !.outdated = price # Base(d),
                                              !.overlapped = Overlap(w)]
         \/ screen' = [screen EXCEPT !.outdated = TRUE]
  BY DEF ShowConfirm
<1>2. screen' \in ScreenType /\ screen'.sold = 0
      /\ (~screen'.outdated => d.plan # NoPlan /\ Says(screen') = Said(d, Base(d)))
  <2>1. CASE screen' = [screen EXCEPT !.outdated = TRUE]
    BY <2>1 DEF Calm, ScreenType
  <2>2. CASE screen' = [Said(d, price) EXCEPT !.outdated = price # Base(d),
                                              !.overlapped = Overlap(w)]
    <3>0. Overlap(w) \in BOOLEAN  BY DEF Overlap
    <3>1. PICK a \in BOOLEAN, b \in BOOLEAN :
             /\ screen' = [Said(d, price) EXCEPT !.outdated = a, !.overlapped = b]
             /\ ~a => price = Base(d)
      <4>1. CASE price = Base(d)
        <5>1. (price # Base(d)) = FALSE  BY <4>1
        <5>2. screen' = [Said(d, price) EXCEPT !.outdated = FALSE,
                                               !.overlapped = Overlap(w)]
          BY <2>2, <5>1
        <5> QED  BY <3>0, <4>1, <5>2
      <4>2. CASE price # Base(d)
        <5>1. (price # Base(d)) = TRUE  BY <4>2
        <5>2. screen' = [Said(d, price) EXCEPT !.outdated = TRUE,
                                               !.overlapped = Overlap(w)]
          BY <2>2, <5>1
        <5> QED  BY <3>0, <5>2
      <4> QED  BY <4>1, <4>2
    <3>2. /\ screen' \in ScreenType
          /\ screen'.plan = d.plan /\ screen'.billing = d.billing
          /\ screen'.price = Discounted(price, d.off) /\ screen'.sold = 0
          /\ screen'.outdated = a
      <4>1. Said(d, price) \in ScreenType  BY SaidIs
      <4>2. /\ screen' \in ScreenType
            /\ screen'.plan = Said(d, price).plan
            /\ screen'.billing = Said(d, price).billing
            /\ screen'.price = Said(d, price).price
            /\ screen'.sold = Said(d, price).sold
            /\ screen'.outdated = a
        BY <3>1, <4>1 DEF ScreenType
      <4> QED  BY <4>2, SaidIs
    <3>3. Says(screen') = Said(d, price)
      <4>1. /\ Says(screen') \in ScreenType
            /\ Says(screen').plan = screen'.plan /\ Says(screen').billing = screen'.billing
            /\ Says(screen').price = screen'.price /\ Says(screen').sold = 0
            /\ Says(screen').outdated = FALSE /\ Says(screen').overlapped = FALSE
        BY <3>2, SaysIs
      <4>2. /\ Said(d, price) \in ScreenType
            /\ Said(d, price).plan = d.plan /\ Said(d, price).billing = d.billing
            /\ Said(d, price).price = Discounted(price, d.off)
            /\ Said(d, price).sold = 0 /\ Said(d, price).outdated = FALSE
            /\ Said(d, price).overlapped = FALSE
        BY SaidIs
      <4> QED  BY <3>2, <4>1, <4>2, SameScreen, Zenon
    <3> QED  BY <3>1, <3>2, <3>3
  <2> QED  BY <1>1, <2>1, <2>2
<1>3. Calm'  BY <1>1, <1>2, BlankTypes, JobSet DEF Calm
<1> QED  BY <1>1, <1>2, <1>3

LEMMA ShowMoves ==
    ASSUME StorefrontTypes, Calm, StorefrontAssumption, NEW w \in Handlers, NEW d \in DataType,
           Fit(d), d.crossed \/ Whole(d, "confirming"), Show(w, d)
    PROVE  Moves
<1>1. CASE d.plan = NoPlan \/ d.billing = "unset"
  <2>1. data' = d /\ st' = st /\ Ends(w)  BY <1>1 DEF Show, Done
  <2> QED  BY <2>1, EndsCalm, Stays
<1>2. CASE ~(d.plan = NoPlan \/ d.billing = "unset") /\ ~There(d.plan)
  <2>1. data' = Blank /\ st' = "none" /\ Ends(w)  BY <1>2 DEF Show, Done
  <2> QED  BY <2>1, EndsCalm, GivenUp
<1>3. CASE ~(d.plan = NoPlan \/ d.billing = "unset") /\ There(d.plan)
  <2>0. data' = d /\ Base(d) \in Nat  BY <1>3, BaseType DEF Show
  <2>1. CASE HourlyAtGcore(d)
    <3>1. /\ job' = [job EXCEPT ![w] = [NoJob EXCEPT !.pc = "show", !.data = d,
                                                      !.price = Base(d)]]
          /\ UNCHANGED <<st, World>> /\ Kept(screen)
      BY <1>3, <2>1 DEF Show
    <3>3. d.crossed \/ ~d.off  BY <2>1 DEF Whole, HourlyAtGcore
    <3>4. /\ [NoJob EXCEPT !.pc = "show", !.data = d, !.price = Base(d)] \in JobType
          /\ Waiting([NoJob EXCEPT !.pc = "show", !.data = d, !.price = Base(d)])
      BY <2>0, <2>1, <3>3, BlankTypes DEF JobType, Waiting
    <3>5. Calm' /\ (st' = "confirming" => screen' = screen)
      BY <3>1, <3>4, JobSet, KeptScreen DEF Calm
    <3> QED  BY <2>0, <3>1, <3>5, Stays
  <2>2. CASE ~HourlyAtGcore(d) /\ ~Known(d.plan) /\ Base(d) > 0
    <3>1. st' = st /\ Ends(w)  BY <1>3, <2>2 DEF Show, Done
    <3> QED  BY <2>0, <3>1, EndsCalm, Stays
  <2>3. CASE ~HourlyAtGcore(d) /\ ~(~Known(d.plan) /\ Base(d) > 0)
    <3>1. ShowConfirm(w, d, Base(d))  BY <1>3, <2>3 DEF Show
    <3>2. /\ Calm' /\ UNCHANGED World /\ st' = "confirming"
          /\ ~screen'.outdated => d.plan # NoPlan /\ Says(screen') = Said(d, Base(d))
      BY <1>3, <2>0, <3>1, ShowConfirmMoves
    <3>3. CASE d.crossed  BY <2>0, <3>2, <3>3, ChoicesNow DEF Moves, Stations
    <3>4. CASE ~d.crossed
      <4>1. Whole(d, st') /\ (withdrawn' \/ Priced(d))  BY <3>2, <3>4 DEF Fit
      <4> QED  BY <2>0, <3>2, <4>1, ChoicesNow DEF Moves, Stations
    <3> QED  BY <3>3, <3>4
  <2> QED  BY <2>1, <2>2, <2>3
<1> QED  BY <1>1, <1>2, <1>3

LEMMA AskDiscountMoves ==
    ASSUME StorefrontTypes, Calm, NEW w \in Handlers, NEW d \in DataType,
           d.crossed \/ (/\ Whole(d, "discount") /\ (withdrawn' \/ Priced(d))),
           AskDiscount(w, d)
    PROVE  Moves
<1>1. st' = "discount" /\ data' = d /\ Ends(w)  BY DEF AskDiscount, Done
<1>2. Calm' /\ UNCHANGED World  BY <1>1, EndsCalm
<1> QED  BY <1>1, <1>2, ChoicesNow DEF Moves, Stations

LEMMA AskBillingLateMoves ==
    ASSUME StorefrontTypes, Calm, NEW w \in Handlers, NEW d \in DataType, Fit(d), AskBillingLate(w, d)
    PROVE  Moves
<1>1. Ends(w)  BY DEF AskBillingLate, Done
<1>2. Calm' /\ UNCHANGED World /\ (st' = "confirming" => screen' = screen)
  BY <1>1, EndsCalm
<1>3. CASE ~There(d.plan)
  BY <1>2, <1>3, GivenUp DEF AskBillingLate
<1>4. CASE There(d.plan) /\ plan[d.plan].hourly = 0
  <2>0. d.plan # NoPlan /\ d.plan \in Plans  BY <1>4 DEF There, DataType
  <2>1. st' = "discount" /\ data' = [d EXCEPT !.billing = "monthly"]
    BY <1>4 DEF AskBillingLate
  <2>2. /\ data' \in DataType /\ data'.crossed = d.crossed /\ data'.billing = "monthly"
        /\ data'.plan = d.plan /\ data'.late = d.late
    BY <2>1 DEF DataType, Billings
  <2>3. Whole(data', st')  BY <2>1, <2>2 DEF Whole
  <2>4. plan[d.plan].hourly \in Nat /\ plan[d.plan].monthly \in Nat
    BY <2>0 DEF StorefrontTypes
  <2>5. Priced(d) => Priced(data)'
    BY <1>2, <1>4, <2>0, <2>2, <2>4 DEF Priced, World
  <2>6. data'.crossed \/ (withdrawn' \/ Priced(data)')
    BY <2>2, <2>5 DEF Fit
  <2>7. Choices'  BY <2>1, <2>3, <2>6 DEF Choices, Shown
  <2> QED  BY <1>2, <2>1, <2>2, <2>7 DEF Moves, Stations
<1>5. CASE There(d.plan) /\ plan[d.plan].hourly # 0
  <2>1. data' = d /\ st' \in {"billing", st}  BY <1>5 DEF AskBillingLate
  <2>2. CASE st' = st  BY <1>2, <2>1, <2>2, Stays
  <2>3. CASE st' = "billing"
    <3>1. d.crossed \/ (withdrawn' \/ Priced(d))  BY DEF Fit
    <3> QED  BY <1>2, <2>1, <2>3, <3>1, Leaves DEF Stations, Last
  <2> QED  BY <2>1, <2>2, <2>3
<1> QED  BY <1>3, <1>4, <1>5

LEMMA EmailOrConfirmMoves ==
    ASSUME StorefrontTypes, Calm, StorefrontAssumption, NEW w \in Handlers, NEW d \in DataType,
           Fit(d), d.crossed \/ Whole(d, "confirming"), EmailOrConfirm(w, d)
    PROVE  Moves
<1>1. CASE Show(w, d)  BY <1>1, ShowMoves
<1>2. CASE st' = "email" /\ data' = d /\ Ends(w)
  <2>1. Calm' /\ UNCHANGED World  BY <1>2, EndsCalm
  <2>2. d.crossed \/ (Whole(d, st') /\ (withdrawn' \/ Priced(d)))
    BY <1>2 DEF Fit, Whole, Last
  <2> QED  BY <1>2, <2>1, <2>2, ChoicesNow DEF Moves, Stations
<1> QED  BY <1>1, <1>2 DEF EmailOrConfirm, Done

(* A discount that is dropped because the server is billed by the hour.    *)
LEMMA Dropped ==
    ASSUME NEW d \in DataType, d.billing = "hourly", NEW x, x = [d EXCEPT !.off = FALSE],
           Fit(d)
    PROVE  x \in DataType /\ Fit(x) /\ Whole(x, "confirming")
<1>1. /\ x \in DataType /\ x.off = FALSE /\ x.crossed = d.crossed /\ x.plan = d.plan
      /\ x.billing = "hourly" /\ x.late = d.late
      /\ ~d.off => x = d
  BY DEF DataType
<1>2. Whole(d, st) => Whole(x, st)  BY <1>1 DEF Whole
<1>3. Priced(d) => Priced(x)  BY <1>1 DEF Priced
<1>4. Whole(d, st) /\ Shown(d) => Shown(x)
  <2>1. CASE st = "confirming"
    <3>1. Whole(d, st) => x = d  BY <1>1, <2>1 DEF Whole
    <3> QED  BY <3>1
  <2>2. CASE st # "confirming"  BY <2>2 DEF Shown
  <2> QED  BY <2>1, <2>2
<1> QED  BY <1>1, <1>2, <1>3, <1>4 DEF Fit, Whole

LEMMA AfterOsMoves ==
    ASSUME StorefrontTypes, Calm, StorefrontAssumption, NEW w \in Handlers, NEW d \in DataType,
           NEW how \in DataType, Fit(d),
           d.crossed \/ (how.late = d.late /\ how.billing = d.billing), AfterOs(w, d, how)
    PROVE  Moves
<1>1. CASE how.late  BY <1>1, AskBillingLateMoves DEF AfterOs
<1>2. CASE ~how.late /\ how.billing = "hourly"
  <2>0. PICK x : x = [d EXCEPT !.off = FALSE]  OBVIOUS
  <2>1. EmailOrConfirm(w, x)  BY <1>2, <2>0 DEF AfterOs
  <2>2. x \in DataType /\ Fit(x) /\ (x.crossed \/ Whole(x, "confirming"))
    <3>1. CASE d.crossed
      <4>1. x \in DataType /\ x.crossed  BY <2>0, <3>1 DEF DataType
      <4> QED  BY <4>1 DEF Fit
    <3>2. CASE ~d.crossed  BY <1>2, <2>0, <3>2, Dropped
    <3> QED  BY <3>1, <3>2
  <2> QED  BY <2>1, <2>2, EmailOrConfirmMoves
<1>3. CASE ~how.late /\ how.billing # "hourly"
  <2>1. AskDiscount(w, d)  BY <1>3 DEF AfterOs
  <2>2. d.crossed \/ (Whole(d, "discount") /\ (withdrawn' \/ Priced(d)))
    BY <1>3 DEF Fit, Whole
  <2> QED  BY <2>1, <2>2, AskDiscountMoves
<1> QED  BY <1>1, <1>2, <1>3

-----------------------------------------------------------------------------
(* The handlers.                                                           *)
LEMMA Crossing ==
    ASSUME StorefrontTypes, Choices, withdrawn' = withdrawn, NEW w \in Handlers
    PROVE  /\ Crossed(w) \in DataType /\ Fit(Crossed(w))
           /\ Crossed(w).crossed \/ (Crossed(w) = data /\ job[w].data = data)
<1>1. PICK x : x = Crossed(w)  OBVIOUS
<1>2. CASE data # job[w].data
  <2>1. x = [data EXCEPT !.crossed = TRUE]  BY <1>1, <1>2 DEF Crossed, StorefrontTypes, DataType
  <2>2. x \in DataType /\ x.crossed  BY <2>1 DEF StorefrontTypes, DataType
  <2> QED  BY <1>1, <2>2 DEF Fit
<1>3. CASE data = job[w].data
  <2>1. data \in DataType /\ data.crossed \in BOOLEAN  BY DEF StorefrontTypes, DataType
  <2>2. x = [data EXCEPT !.crossed = data.crossed]
    <3>1. (data.crossed \/ data # job[w].data) = data.crossed  BY <1>3, <2>1
    <3> QED  BY <1>1, <3>1 DEF Crossed
  <2>3. x = data  BY <2>1, <2>2 DEF DataType
  <2> QED  BY <1>1, <1>3, <2>1, <2>3 DEF Fit, Choices
<1> QED  BY <1>2, <1>3

LEMMA DataFits ==
    ASSUME StorefrontTypes, Choices, withdrawn' = withdrawn
    PROVE  data \in DataType /\ Fit(data)
BY DEF StorefrontTypes, Fit, Choices

LEMMA AskOsMoves ==
    ASSUME StorefrontTypes, Calm, Choices, withdrawn' = withdrawn, NEW w \in Handlers, AskOs(w, data)
    PROVE  Moves
<1>1. /\ data' = data /\ UNCHANGED <<st, World>> /\ Kept(screen)
      /\ job' = [job EXCEPT ![w] = [NoJob EXCEPT !.pc = "os", !.data = data]]
  BY DEF AskOs
<1>2. PICK j : j = [NoJob EXCEPT !.pc = "os", !.data = data]  OBVIOUS
<1>3. j \in JobType /\ Waiting(j)
  BY <1>2, BlankTypes DEF StorefrontTypes, JobType, Waiting
<1>4. job' = [job EXCEPT ![w] = j]  BY <1>1, <1>2
<1>5. Calm' /\ (st' = "confirming" => screen' = screen)
  BY <1>1, <1>3, <1>4, JobSet, KeptScreen DEF Calm
<1> QED  BY <1>1, <1>5, DataFits, Stays

LEMMA ListsMove ==
    ASSUME StorefrontTypes, Calm, Choices, withdrawn' = withdrawn, NEW w \in Handlers,
           \/ BuyServer(w) \/ SelectCategory(w) \/ BuyLocation(w) \/ TimewebType(w)
           \/ GcoreFamily(w) \/ CancelPurchase(w)
    PROVE  Moves
<1>1. CASE CancelPurchase(w)
  <2>1. data' = Blank /\ st' = "none" /\ Ends(w)  BY <1>1 DEF CancelPurchase, Cleared, Done
  <2> QED  BY <2>1, EndsCalm, GivenUp
<1>2. CASE ~CancelPurchase(w)
  <2>1. PICK s \in {"category", "plan"} : st' = s /\ data' = data /\ Ends(w)
    BY <1>2 DEF BuyServer, SelectCategory, BuyLocation, TimewebType, GcoreFamily,
                RenderPlanList, Done
  <2>2. Calm' /\ UNCHANGED World  BY <2>1, EndsCalm
  <2>3. data.crossed \/ (withdrawn' \/ Priced(data))  BY DEF Choices
  <2> QED  BY <2>1, <2>2, <2>3, Leaves DEF StorefrontTypes, Stations, Last
<1> QED  BY <1>1, <1>2

(* A plan is chosen: if it has a price at all, then the one of its billing.*)
LEMMA SelectPlanMoves ==
    ASSUME StorefrontTypes, Calm, NEW w \in Handlers, NEW p \in Plans, SelectPlan(w, p),
           NoPlan \notin Plans,
           withdrawn' = (st' = "plan" \/ plan[p].hourly + plan[p].monthly = 0)
    PROVE  Moves
<1>0. st' = "plan" \/ plan[p].hourly + plan[p].monthly = 0 => withdrawn'  OBVIOUS
<1>1. /\ st = "plan" /\ Ends(w)  BY DEF SelectPlan, Done
<1>2. Calm' /\ UNCHANGED World  BY <1>1, EndsCalm
<1>3. p # NoPlan /\ plan[p].hourly \in Nat /\ plan[p].monthly \in Nat  BY DEF StorefrontTypes
<1>4. PICK d : d = [data EXCEPT !.plan = p, !.late = FALSE]  OBVIOUS
<1>5. d \in DataType /\ d.plan = p /\ d.late = FALSE  BY <1>4 DEF StorefrontTypes, DataType
<1>6. \/ st' = "plan" /\ data' = d
      \/ st' = "hostname" /\ data' = [d EXCEPT !.billing = "none", !.late = TRUE]
      \/ st' = "billing" /\ data' = d /\ plan[p].hourly > 0 /\ plan[p].monthly > 0
      \/ st' = "hostname" /\ data' = [d EXCEPT !.billing = "hourly"] /\ plan[p].hourly > 0
      \/ st' = "hostname" /\ data' = [d EXCEPT !.billing = "monthly"] /\ ~(plan[p].hourly > 0)
  BY <1>1, <1>4 DEF SelectPlan
<1>7. \E s \in {"plan", "hostname", "billing"}, e \in DataType :
         st' = s /\ data' = e /\ (withdrawn' \/ Priced(e))
  <2>1. CASE st' = "plan" /\ data' = d  BY <1>5, <2>1
  <2>2. CASE st' = "hostname" /\ data' = [d EXCEPT !.billing = "none", !.late = TRUE]
    <3>1. /\ data' \in DataType /\ data'.plan = p /\ data'.late /\ data'.billing = "none"
      BY <1>5, <2>2 DEF DataType, Billings
    <3>2. withdrawn' \/ plan[p].hourly + plan[p].monthly > 0  BY <1>0, <1>3
    <3> QED  BY <2>2, <3>1, <3>2 DEF Priced
  <2>3. CASE st' = "billing" /\ data' = d /\ plan[p].hourly > 0 /\ plan[p].monthly > 0
    BY <1>5, <2>3 DEF Priced
  <2>4. CASE /\ st' = "hostname" /\ data' = [d EXCEPT !.billing = "hourly"]
             /\ plan[p].hourly > 0
    <3>1. /\ data' \in DataType /\ data'.plan = p /\ data'.late = FALSE
          /\ data'.billing = "hourly"
      BY <1>5, <2>4 DEF DataType, Billings
    <3> QED  BY <2>4, <3>1 DEF Priced
  <2>5. CASE /\ st' = "hostname" /\ data' = [d EXCEPT !.billing = "monthly"]
             /\ ~(plan[p].hourly > 0)
    <3>1. /\ data' \in DataType /\ data'.plan = p /\ data'.late = FALSE
          /\ data'.billing = "monthly"
      BY <1>5, <2>5 DEF DataType, Billings
    <3>2. withdrawn' \/ plan[p].monthly > 0  BY <1>0, <1>3, <2>5
    <3> QED  BY <2>5, <3>1, <3>2 DEF Priced
  <2> QED  BY <1>6, <2>1, <2>2, <2>3, <2>4, <2>5
<1> QED  BY <1>2, <1>7, Leaves DEF Stations, Last

LEMMA SelectBillingMoves ==
    ASSUME StorefrontTypes, Calm, Choices, StorefrontAssumption, NEW w \in Handlers,
           NEW b \in {"hourly", "monthly"}, SelectBilling(w, b)
    PROVE  Moves
<1>1. /\ st = "billing" /\ Offers(data.plan, b)  BY DEF SelectBilling
<1>2. PICK d : d = [data EXCEPT !.billing = b]  OBVIOUS
<1>3. /\ d \in DataType /\ d.billing = b /\ d.plan = data.plan
  BY <1>2 DEF StorefrontTypes, DataType, Billings
<1>4. Priced(d)  BY <1>1, <1>3 DEF Offers, Priced
<1>5. Fit(d)  BY <1>1, <1>4 DEF Fit, Whole, Last, Shown
<1>6. \/ ~data.late /\ st' = "hostname" /\ data' = d /\ Ends(w)
      \/ b = "hourly" /\ EmailOrConfirm(w, [d EXCEPT !.off = FALSE])
      \/ b # "hourly" /\ AskDiscount(w, d)
  BY <1>2 DEF SelectBilling, Done
<1>7. CASE st' = "hostname" /\ data' = d /\ Ends(w)
  <2>1. Calm' /\ UNCHANGED World  BY <1>7, EndsCalm
  <2> QED  BY <1>3, <1>4, <1>7, <2>1, Leaves DEF Stations, Last
<1>8. CASE b = "hourly" /\ EmailOrConfirm(w, [d EXCEPT !.off = FALSE])
  <2>0. PICK x : x = [d EXCEPT !.off = FALSE]  OBVIOUS
  <2>1. x \in DataType /\ Fit(x) /\ Whole(x, "confirming")
    BY <1>3, <1>5, <1>8, <2>0, Dropped
  <2>2. EmailOrConfirm(w, x)  BY <1>8, <2>0
  <2> QED  BY <2>1, <2>2, EmailOrConfirmMoves
<1>9. CASE b # "hourly" /\ AskDiscount(w, d)
  <2>1. Whole(d, "discount")  BY <1>3, <1>9 DEF Whole, Last
  <2> QED  BY <1>3, <1>4, <1>9, <2>1, AskDiscountMoves
<1> QED  BY <1>6, <1>7, <1>8, <1>9

LEMMA OsMoves ==
    ASSUME StorefrontTypes, Calm, Choices, StorefrontAssumption, withdrawn' = withdrawn,
           NEW w \in Handlers,
           OsListed(w) \/ NoOsList(w) \/ \E o \in {"cheap", "dear"} : SelectOs(w, o)
    PROVE  Moves
<1>1. CASE OsListed(w)
  <2>1. PICK dear \in BOOLEAN : data' = [Crossed(w) EXCEPT !.dearListed = dear]
    BY <1>1 DEF OsListed
  <2>2. PICK c \in DataType : c = Crossed(w) /\ Fit(c)  BY Crossing
  <2>3. data' = [c EXCEPT !.dearListed = dear]  BY <2>1, <2>2
  <2>4. /\ data' \in DataType /\ data'.crossed = c.crossed /\ data'.plan = c.plan
        /\ data'.billing = c.billing /\ data'.late = c.late
    BY <2>2, <2>3 DEF DataType
  <2>5. st' = "os" /\ Ends(w)  BY <1>1 DEF OsListed, Done
  <2>6. Calm' /\ UNCHANGED World  BY <2>5, EndsCalm
  <2>7. PICK e \in DataType : e = data'  BY <2>4
  <2>8. e.crossed \/ (withdrawn' \/ Priced(e))  BY <2>2, <2>4, <2>7 DEF Fit, Priced
  <2> QED  BY <2>5, <2>6, <2>7, <2>8, Leaves DEF Stations, Last
<1>2. CASE NoOsList(w)
  <2>1. AfterOs(w, Crossed(w), job[w].data)  BY <1>2 DEF NoOsList
  <2>2. job[w].data \in DataType  BY DEF StorefrontTypes, JobType
  <2>3. PICK c \in DataType : c = Crossed(w) /\ Fit(c) /\ (c.crossed \/ c = job[w].data)
    BY Crossing
  <2>4. AfterOs(w, c, job[w].data)  BY <2>1, <2>3
  <2> QED  BY <2>2, <2>3, <2>4, AfterOsMoves
<1>3. CASE \E o \in {"cheap", "dear"} : SelectOs(w, o)
  <2>1. PICK o \in {"cheap", "dear"} : SelectOs(w, o)  BY <1>3
  <2>2. PICK d : d = [data EXCEPT !.dear = o = "dear" /\ data.dearListed]  OBVIOUS
  <2>3. st = "os" /\ AfterOs(w, d, d)  BY <2>1, <2>2 DEF SelectOs
  <2>4. PICK dear \in BOOLEAN : d = [data EXCEPT !.dear = dear]
    <3>1. (o = "dear" /\ data.dearListed) \in BOOLEAN  OBVIOUS
    <3> QED  BY <2>2, <3>1
  <2>5. /\ d \in DataType /\ d.crossed = data.crossed /\ d.plan = data.plan
        /\ d.billing = data.billing /\ d.late = data.late
    BY <2>4 DEF StorefrontTypes, DataType
  <2>6. Priced(data) => Priced(d)  BY <2>5 DEF Priced
  <2>7. Fit(d)  BY <2>3, <2>5, <2>6 DEF Fit, Choices, Whole, Last, Shown
  <2> QED  BY <2>3, <2>5, <2>7, AfterOsMoves
<1> QED  BY <1>1, <1>2, <1>3

LEMMA ConfirmingMoves ==
    ASSUME StorefrontTypes, Calm, Choices, StorefrontAssumption, withdrawn' = withdrawn,
           NEW w \in Handlers, SkipDiscount(w) \/ DiscountCode(w) \/ EnterEmail(w)
    PROVE  Moves
<1>0. data \in DataType /\ Fit(data)  BY DataFits
<1>1. CASE EnterEmail(w)
  <2>1. st = "email" /\ Show(w, data)  BY <1>1 DEF EnterEmail
  <2>2. data.crossed \/ Whole(data, "confirming")  BY <2>1 DEF Choices, Whole, Last
  <2> QED  BY <1>0, <2>1, <2>2, ShowMoves
<1>2. CASE SkipDiscount(w) \/ DiscountCode(w)
  <2>1. PICK off \in BOOLEAN :
           st = "discount" /\ EmailOrConfirm(w, [data EXCEPT !.off = off])
    BY <1>2 DEF SkipDiscount, DiscountCode
  <2>2. PICK d : d = [data EXCEPT !.off = off]  OBVIOUS
  <2>3. /\ d \in DataType /\ d.crossed = data.crossed /\ d.plan = data.plan
        /\ d.billing = data.billing /\ d.late = data.late
    BY <1>0, <2>2 DEF DataType
  <2>4. Priced(data) => Priced(d)  BY <2>3 DEF Priced
  <2>5. Fit(d) /\ (d.crossed \/ Whole(d, "confirming"))
    BY <2>1, <2>3, <2>4 DEF Fit, Choices, Whole, Last, Shown
  <2>6. EmailOrConfirm(w, d)  BY <2>1, <2>2
  <2> QED  BY <2>3, <2>5, <2>6, EmailOrConfirmMoves
<1> QED  BY <1>1, <1>2

LEMMA ShowEndsMoves ==
    ASSUME StorefrontTypes, Calm, Choices, StorefrontAssumption, withdrawn' = withdrawn,
           NEW w \in Handlers, ShowEnds(w)
    PROVE  Moves
<1>1. /\ job[w].pc = "show" /\ data' = Crossed(w) /\ job[w] \in JobType
      /\ Waiting(job[w])
  BY DEF ShowEnds, StorefrontTypes, Calm
<1>2. PICK c \in DataType : c = Crossed(w) /\ Fit(c)
                            /\ (c.crossed \/ (c = data /\ c = job[w].data))
  BY Crossing
<1>3. CASE st' = st /\ Ends(w)
  <2>1. /\ Calm' /\ UNCHANGED World /\ (st' = "confirming" => screen' = screen)
    BY <1>3, EndsCalm
  <2> QED  BY <1>1, <1>2, <1>3, <2>1, Stays
<1>4. CASE ShowConfirm(w, job[w].data, job[w].price)
  <2>1. PICK d \in DataType, price \in Nat : d = job[w].data /\ price = job[w].price
    BY <1>1 DEF JobType
  <2>2. HourlyAtGcore(d) /\ (d.crossed \/ ~d.off) /\ ShowConfirm(w, d, price)
    BY <1>1, <1>4, <2>1 DEF Waiting
  <2>3. d.plan # NoPlan  BY <2>2 DEF HourlyAtGcore, Kind
  <2>4. /\ Calm' /\ UNCHANGED World /\ st' = "confirming"
        /\ ~screen'.outdated => d.plan # NoPlan /\ Says(screen') = Said(d, Base(d))
    BY <2>2, <2>3, ShowConfirmMoves
  <2>5. CASE c.crossed  BY <1>1, <1>2, <2>4, <2>5, ChoicesNow DEF Moves, Stations
  <2>6. CASE ~c.crossed
    <3>1. c = d /\ (withdrawn' \/ Priced(d))  BY <1>2, <2>1, <2>6 DEF Fit
    <3>2. Whole(d, st')  BY <2>2, <2>4, <2>6, <3>1 DEF Whole, HourlyAtGcore
    <3> QED  BY <1>1, <1>2, <2>4, <3>1, <3>2, ChoicesNow DEF Moves, Stations
  <2> QED  BY <2>5, <2>6
<1> QED  BY <1>3, <1>4 DEF ShowEnds, Done

(* A price the choices ask for is a price above nothing.                   *)
LEMMA PricedBase ==
    ASSUME StorefrontTypes, StorefrontAssumption, NEW d \in DataType, d.plan # NoPlan, Priced(d),
           ~(d.late /\ d.billing = "none")
    PROVE  Base(d) # 0
<1>1. d.plan \in Plans  BY DEF DataType
<1>2. FirstPrice[d.plan].hourly \in Nat /\ plan[d.plan].hourly \in Nat
      /\ plan[d.plan].monthly \in Nat
  BY <1>1, StorefrontAssumption DEF StorefrontTypes
<1>3. CASE d.billing = "hourly"  BY <1>2, <1>3 DEF Priced, Base, OsPrice, HourlyAtGcore
<1>4. CASE d.billing # "hourly"  BY <1>2, <1>4 DEF Priced, Base, HourlyAtGcore
<1> QED  BY <1>3, <1>4

LEMMA PressMoves ==
    ASSUME StorefrontTypes, Calm, Choices, StorefrontAssumption, withdrawn' = withdrawn,
           NEW w \in Handlers, Press(w)
    PROVE  Moves
<1>1. /\ st = "confirming" /\ There(data.plan)
      /\ job' = [job EXCEPT ![w] = [pc |-> "buy", data |-> data, price |-> Base(data),
                                    withdrawn |-> withdrawn,
                                    asShown |-> \/ screen.outdated \/ data.crossed
                                                \/ Says(screen) = Said(data, Base(data))]]
      /\ screen' = [screen EXCEPT !.overlapped = @ \/ Overlap(w)]
      /\ UNCHANGED <<st, data, World>>
  BY DEF Press
<1>2. data \in DataType /\ data.plan # NoPlan  BY <1>1 DEF There, StorefrontTypes
<1>3. Base(data) \in Nat  BY <1>2, BaseType
<1>4. screen.outdated \/ data.crossed \/ Says(screen) = Said(data, Base(data))
  BY <1>1 DEF Choices, Shown
<1>5. PICK j : j = [pc |-> "buy", data |-> data, price |-> Base(data),
                    withdrawn |-> withdrawn, asShown |-> TRUE]
  OBVIOUS
<1>6. job' = [job EXCEPT ![w] = j]
  <2>1. (\/ screen.outdated \/ data.crossed
         \/ Says(screen) = Said(data, Base(data))) = TRUE
    BY <1>4
  <2> QED  BY <1>1, <1>5, <2>1
<1>7. j \in JobType  BY <1>2, <1>3, <1>5 DEF JobType, StorefrontTypes
<1>8. Waiting(j)
  <2>1. Base(data) = 0 => withdrawn \/ data.crossed
    BY <1>1, <1>2, PricedBase DEF Choices, Whole, Last
  <2>2. data.billing = "hourly" => ~data.off \/ data.crossed
    BY <1>1 DEF Choices, Whole
  <2> QED  BY <1>5, <2>1, <2>2 DEF Waiting
<1>9. PICK b \in BOOLEAN : screen' = [screen EXCEPT !.overlapped = b]
  <2>1. (screen.overlapped \/ Overlap(w)) \in BOOLEAN  OBVIOUS
  <2> QED  BY <1>1, <2>1
<1>10. /\ screen' \in ScreenType /\ screen'.plan = screen.plan
       /\ screen'.billing = screen.billing /\ screen'.price = screen.price
       /\ screen'.sold = screen.sold /\ screen'.outdated = screen.outdated
  BY <1>9 DEF Calm, ScreenType
<1>11. Says(screen') = Says(screen)
  <2>1. /\ Says(screen) \in ScreenType
        /\ Says(screen).plan = screen.plan /\ Says(screen).billing = screen.billing
        /\ Says(screen).price = screen.price /\ Says(screen).sold = 0
        /\ Says(screen).outdated = FALSE /\ Says(screen).overlapped = FALSE
    BY SaysIs DEF Calm
  <2>2. /\ Says(screen') \in ScreenType
        /\ Says(screen').plan = screen'.plan /\ Says(screen').billing = screen'.billing
        /\ Says(screen').price = screen'.price /\ Says(screen').sold = 0
        /\ Says(screen').outdated = FALSE /\ Says(screen').overlapped = FALSE
    BY <1>10, SaysIs
  <2> QED  BY <1>10, <2>1, <2>2, SameScreen, Zenon
<1>12. Calm'  BY <1>6, <1>7, <1>8, <1>10, JobSet DEF Calm
<1>13. data.crossed \/ (/\ Whole(data, st') /\ (withdrawn' \/ Priced(data))
                        /\ st' = "confirming" /\ ~screen'.outdated
                             => data.plan # NoPlan /\ Says(screen') = Said(data, Base(data)))
  BY <1>1, <1>10, <1>11 DEF Choices, Shown
<1>14. PICK d \in DataType : d = data  BY <1>2
<1>15. Choices'  BY <1>1, <1>13, <1>14, ChoicesNow
<1> QED  BY <1>1, <1>12, <1>15 DEF Moves, StorefrontTypes

LEMMA RefusedMoves ==
    ASSUME StorefrontTypes, Calm, Choices, withdrawn' = withdrawn, NEW w \in Handlers, Refused(w)
    PROVE  Moves
<1>1. UNCHANGED <<st, data>> /\ Ends(w)  BY DEF Refused, Done
<1>2. Calm' /\ UNCHANGED World /\ (st' = "confirming" => screen' = screen)
  BY <1>1, EndsCalm
<1>3. PICK d \in DataType : d = data /\ Fit(d)  BY DataFits
<1> QED  BY <1>1, <1>2, <1>3, Stays

LEMMA GoesMoves ==
    ASSUME StorefrontTypes, Calm, Choices, StorefrontAssumption, withdrawn' = withdrawn,
           NEW w \in Handlers, Choose(w) \/ Goes(w)
    PROVE  Moves
<1>1. CASE Hostname(w) \/ OsBack(w) \/ PickApp(w)
  BY <1>1, AskOsMoves DEF Hostname, OsBack, PickApp
<1> QED  BY <1>1, ListsMove, OsMoves, ConfirmingMoves, PressMoves, RefusedMoves,
            ShowEndsMoves DEF Choose, Goes

-----------------------------------------------------------------------------
(* Every step keeps the invariant.                                         *)
LEMMA CalmNow ==
    ASSUME StorefrontInv
    PROVE  StorefrontTypes /\ Calm /\ Choices
BY DEF StorefrontInv, Calm, StorefrontTypes

LEMMA MovesKeep ==
    ASSUME StorefrontInv, Moves, placed' = NothingPlaced, withdrawn' \in BOOLEAN
    PROVE  StorefrontInv'
<1>1. Ordered'  BY DEF Ordered, NothingForFree, HourlyWithoutDiscount, NothingPlaced
<1>2. StorefrontTypes'  BY BlankTypes DEF StorefrontInv, StorefrontTypes, Moves, Calm, World
<1> QED  BY <1>1, <1>2 DEF StorefrontInv, Moves, Calm

LEMMA BoughtKeeps ==
    ASSUME StorefrontInv, NEW w \in Handlers, Bought(w), withdrawn' = withdrawn
    PROVE  StorefrontInv'
<1>0. StorefrontTypes /\ Calm /\ Choices  BY CalmNow
<1>1. PICK j \in JobType : j = job[w] /\ Waiting(j) /\ j.pc = "buy"
  BY <1>0 DEF Bought, StorefrontTypes, Calm
<1>2. /\ data' = Blank /\ st' = "none" /\ UNCHANGED World
      /\ job' = [job EXCEPT ![w] = NoJob]
      /\ screen' = NoScreen
      /\ \/ placed' = [there |-> TRUE, plan |-> j.data.plan, billing |-> j.data.billing,
                      price |-> Discounted(j.price, j.data.off), off |-> j.data.off,
                      crossed |-> j.data.crossed, withdrawn |-> j.withdrawn,
                      asShown |-> j.asShown]
         \/ placed' = NothingPlaced
  BY <1>1 DEF Bought, Cleared, World, Kept
<1>3. Calm'  BY <1>0, <1>2, BlankTypes, JobSet DEF Calm, NoScreen
<1>4. Moves  BY <1>0, <1>2, <1>3, GivenUp
<1>5. CASE placed' = NothingPlaced  BY <1>0, <1>4, <1>5, MovesKeep DEF StorefrontTypes
<1>6. CASE placed' = [there |-> TRUE, plan |-> j.data.plan, billing |-> j.data.billing,
                     price |-> Discounted(j.price, j.data.off), off |-> j.data.off,
                     crossed |-> j.data.crossed, withdrawn |-> j.withdrawn,
                     asShown |-> j.asShown]
  <2>1. /\ j.data \in DataType /\ j.price \in Nat /\ j.withdrawn \in BOOLEAN
        /\ j.asShown \in BOOLEAN
    BY DEF JobType
  <2>2. /\ Discounted(j.price, j.data.off) \in Nat
        /\ Discounted(j.price, j.data.off) = 0 => j.price = 0
    BY <2>1 DEF Discounted
  <2>3. placed' \in PlacedType  BY <1>6, <2>1, <2>2 DEF PlacedType, DataType
  <2>4. Ordered'
    BY <1>1, <1>6, <2>2 DEF Waiting, Ordered, NothingForFree, HourlyWithoutDiscount
  <2>5. StorefrontTypes'  BY <1>0, <1>2, <1>4, <2>3 DEF StorefrontTypes, Moves, Calm, World
  <2> QED  BY <1>4, <2>4, <2>5 DEF StorefrontInv, Moves, Calm
<1> QED  BY <1>2, <1>5, <1>6

LEMMA EditPriceKeeps ==
    ASSUME StorefrontInv, StorefrontAssumption, NEW p \in Plans, NEW b \in {"hourly", "monthly"},
           NEW n \in NewPrices, EditPrice(p, b, n), placed' = NothingPlaced
    PROVE  StorefrontInv'
<1>0. StorefrontTypes /\ Calm /\ Choices /\ n \in Nat  BY CalmNow, StorefrontAssumption
<1>1. /\ plan' = [plan EXCEPT ![p][b] = n] /\ UNCHANGED <<st, data, job, rate>>
      /\ withdrawn' = (withdrawn \/ n = 0)
      /\ screen' = IF st' = "confirming" THEN [screen EXCEPT !.outdated = TRUE]
                   ELSE NoScreen
  BY DEF EditPrice, Customer, Kept
<1>2. /\ plan' \in [Plans -> [there : BOOLEAN, hourly : Nat, monthly : Nat]]
      /\ \A x \in Plans : /\ plan'[x].hourly \in {n, plan[x].hourly}
                          /\ plan'[x].monthly \in {n, plan[x].monthly}
  <2>1. plan' = [plan EXCEPT ![p] = [plan[p] EXCEPT ![b] = n]]  BY <1>1
  <2>2. plan[p] \in [there : BOOLEAN, hourly : Nat, monthly : Nat]  BY <1>0 DEF StorefrontTypes
  <2>3. PICK q : q = [plan[p] EXCEPT ![b] = n]  OBVIOUS
  <2>4. /\ q \in [there : BOOLEAN, hourly : Nat, monthly : Nat]
        /\ q.hourly \in {n, plan[p].hourly} /\ q.monthly \in {n, plan[p].monthly}
    <3>1. CASE b = "hourly"  BY <1>0, <2>2, <2>3, <3>1
    <3>2. CASE b = "monthly"  BY <1>0, <2>2, <2>3, <3>2
    <3> QED  BY <3>1, <3>2
  <2>5. plan' = [plan EXCEPT ![p] = q]  BY <2>1, <2>3
  <2> QED  BY <1>0, <2>4, <2>5 DEF StorefrontTypes
<1>3. screen' \in ScreenType /\ screen'.sold = 0 /\ (st' = "confirming" => screen'.outdated)
  BY <1>0, <1>1, BlankTypes DEF Calm, ScreenType, NoScreen
<1>4. withdrawn' \in BOOLEAN /\ (withdrawn => withdrawn') /\ (n = 0 => withdrawn')
  BY <1>1
<1>5. StorefrontTypes'  BY <1>0, <1>1, <1>2, <1>3, <1>4, BlankTypes DEF StorefrontTypes
<1>6. withdrawn \/ Priced(data) => withdrawn' \/ Priced(data)'
  <2>1. SUFFICES ASSUME Priced(data), n # 0 PROVE Priced(data)'  BY <1>4
  <2>2. CASE data.plan = NoPlan  BY <1>1, <2>2 DEF Priced
  <2>3. CASE data.plan # NoPlan
    <3>1. data.plan \in Plans  BY <1>0, <2>3 DEF StorefrontTypes, DataType
    <3>2. PICK x \in Plans : x = data.plan  BY <3>1
    <3>3. /\ plan[x].hourly \in Nat /\ plan[x].monthly \in Nat
          /\ plan'[x].hourly \in {n, plan[x].hourly}
          /\ plan'[x].monthly \in {n, plan[x].monthly}
      BY <1>0, <1>2 DEF StorefrontTypes
    <3> QED  BY <1>0, <1>1, <2>1, <2>3, <3>2, <3>3 DEF Priced
  <2> QED  BY <2>2, <2>3
<1>7. Choices'
  BY <1>0, <1>1, <1>3, <1>6 DEF Choices, Shown, Whole
<1>8. Ordered'  BY DEF Ordered, NothingForFree, HourlyWithoutDiscount, NothingPlaced, EditPrice
<1> QED  BY <1>0, <1>1, <1>3, <1>5, <1>7, <1>8 DEF StorefrontInv, Calm

LEMMA WorldKeeps ==
    ASSUME StorefrontInv, placed' = NothingPlaced,
           RateChanges \/ \E p \in Plans : DeletePlan(p)
    PROVE  StorefrontInv'
<1>0. StorefrontTypes /\ Calm /\ Choices  BY CalmNow
<1>1. /\ UNCHANGED <<st, data, job, screen, withdrawn>> /\ rate' \in BOOLEAN
      /\ plan' \in [Plans -> [there : BOOLEAN, hourly : Nat, monthly : Nat]]
      /\ \A x \in Plans : plan'[x].hourly = plan[x].hourly
                          /\ plan'[x].monthly = plan[x].monthly
  <2>1. CASE RateChanges  BY <1>0, <2>1 DEF RateChanges, Customer, StorefrontTypes
  <2>2. ASSUME NEW p \in Plans, DeletePlan(p)
        PROVE  /\ UNCHANGED <<st, data, job, screen, withdrawn>> /\ rate' = rate
               /\ plan' \in [Plans -> [there : BOOLEAN, hourly : Nat, monthly : Nat]]
               /\ \A x \in Plans : plan'[x].hourly = plan[x].hourly
                                   /\ plan'[x].monthly = plan[x].monthly
    <3>1. plan' = [plan EXCEPT ![p] = [plan[p] EXCEPT !.there = FALSE]]
      BY <2>2 DEF DeletePlan
    <3>2. plan[p] \in [there : BOOLEAN, hourly : Nat, monthly : Nat]  BY <1>0 DEF StorefrontTypes
    <3>3. PICK q : q = [plan[p] EXCEPT !.there = FALSE]  OBVIOUS
    <3>4. /\ q \in [there : BOOLEAN, hourly : Nat, monthly : Nat]
          /\ q.hourly = plan[p].hourly /\ q.monthly = plan[p].monthly
      BY <3>2, <3>3
    <3>5. plan' = [plan EXCEPT ![p] = q]  BY <3>1, <3>3
    <3> QED  BY <1>0, <2>2, <3>4, <3>5 DEF StorefrontTypes, DeletePlan, Customer
  <2> QED  BY <1>0, <2>1, <2>2 DEF StorefrontTypes
<1>2. StorefrontTypes'  BY <1>0, <1>1, BlankTypes DEF StorefrontTypes
<1>3. data.plan # NoPlan => data.plan \in Plans  BY <1>0 DEF StorefrontTypes, DataType
<1>4. Priced(data) => Priced(data)'  BY <1>1, <1>3 DEF Priced
<1>5. data.plan # NoPlan => Base(data)' = Base(data)
  BY <1>1, <1>3 DEF Base, OsPrice, HourlyAtGcore
<1>6. Shown(data) => Shown(data)'
  BY <1>1, <1>5 DEF Shown, Says, Said, Discounted
<1>7. Choices'  BY <1>0, <1>1, <1>4, <1>6 DEF Choices, Whole
<1>8. Ordered'  BY DEF Ordered, NothingForFree, HourlyWithoutDiscount, NothingPlaced
<1> QED  BY <1>0, <1>1, <1>2, <1>7, <1>8 DEF StorefrontInv, Calm

LEMMA StorefrontStarts ==
    ASSUME StorefrontInit, StorefrontAssumption
    PROVE  StorefrontInv
<1>1. StorefrontTypes
  <2>1. ASSUME NEW p \in Plans
        PROVE  [there |-> TRUE, hourly |-> FirstPrice[p].hourly,
                monthly |-> FirstPrice[p].monthly]
                 \in [there : BOOLEAN, hourly : Nat, monthly : Nat]
    <3>1. FirstPrice[p] \in [hourly : Nat, monthly : Nat]
      BY <2>1, StorefrontAssumption
    <3> QED  BY <3>1
  <2> QED  BY <2>1, BlankTypes DEF StorefrontInit, StorefrontTypes, Stations
<1>2. Choices  BY DEF StorefrontInit, Choices, Whole, Last, Shown, Priced, Blank
<1>3. Ordered  BY DEF StorefrontInit, Ordered, NothingForFree, HourlyWithoutDiscount, NothingPlaced
<1>4. screen.sold = 0 /\ \A w \in Handlers : Waiting(job[w])
  BY BlankTypes DEF StorefrontInit, NoScreen
<1> QED  BY <1>1, <1>2, <1>3, <1>4 DEF StorefrontInv

LEMMA StorefrontStep ==
    ASSUME StorefrontInv, [StorefrontNext]_storefrontVars, StorefrontAssumption
    PROVE  StorefrontInv'
<1>0. StorefrontTypes /\ Calm /\ Choices  BY CalmNow
<1>1. ASSUME NEW w \in Handlers, Chosen(w), placed' = NothingPlaced PROVE StorefrontInv'
  <2>1. ASSUME NEW p \in Plans, SelectPlan(w, p),
               withdrawn' = (st' = "plan" \/ plan[p].hourly + plan[p].monthly = 0)
        PROVE  StorefrontInv'
    <3>1. Moves  BY <1>0, <1>1, <2>1, SelectPlanMoves, StorefrontAssumption
    <3>2. withdrawn' \in BOOLEAN  BY <2>1
    <3> QED  BY <1>1, <3>1, <3>2, MovesKeep
  <2>2. ASSUME NEW b \in {"hourly", "monthly"}, SelectBilling(w, b), withdrawn' = FALSE
        PROVE  StorefrontInv'
    <3>1. Moves  BY <1>0, <1>1, <2>2, SelectBillingMoves, StorefrontAssumption
    <3> QED  BY <1>1, <2>2, <3>1, MovesKeep
  <2> QED  BY <1>1, <2>1, <2>2 DEF Chosen
<1>2. ASSUME NEW w \in Handlers, Choose(w) \/ Goes(w), placed' = NothingPlaced,
             withdrawn' = withdrawn
      PROVE  StorefrontInv'
  <2>1. Moves  BY <1>0, <1>2, GoesMoves, StorefrontAssumption
  <2>2. withdrawn' \in BOOLEAN  BY <1>0, <1>2 DEF StorefrontTypes
  <2> QED  BY <1>2, <2>1, <2>2, MovesKeep
<1>3. ASSUME NEW w \in Handlers, Bought(w), withdrawn' = withdrawn PROVE StorefrontInv'
  BY <1>3, BoughtKeeps
<1>4. CASE Admin /\ placed' = NothingPlaced
  BY <1>4, EditPriceKeeps, WorldKeeps, StorefrontAssumption DEF Admin
<1>5. CASE UNCHANGED storefrontVars
  <2>1. UNCHANGED <<st, data, job, plan, rate, screen, placed, withdrawn>>
    BY <1>5 DEF storefrontVars
  <2>2. StorefrontTypes' /\ Ordered' /\ screen'.sold = 0 /\ \A w \in Handlers : Waiting(job'[w])
    BY <2>1 DEF StorefrontInv, StorefrontTypes, Ordered, NothingForFree, HourlyWithoutDiscount
  <2>3. Choices'
    BY <1>0, <2>1 DEF Choices, Shown, Whole, Priced, Base, OsPrice, HourlyAtGcore
  <2> QED  BY <2>2, <2>3 DEF StorefrontInv
<1> QED  BY <1>1, <1>2, <1>3, <1>4, <1>5 DEF StorefrontNext

-----------------------------------------------------------------------------
(* In every reachable state the invariant holds.                           *)
THEOREM StorefrontInvariant == StorefrontSpec => []StorefrontInv
<1>1. StorefrontInit => StorefrontInv  BY StorefrontStarts, StorefrontAssumption
<1>2. StorefrontInv /\ [StorefrontNext]_storefrontVars => StorefrontInv'  BY StorefrontStep, StorefrontAssumption
<1> QED  BY <1>1, <1>2, PTL DEF StorefrontSpec

(* The state machine, the choices in Redis, the screens and the handlers   *)
(* that wait have the types the storefront gives them.                     *)
THEOREM StorefrontTypeCorrect == StorefrontSpec => []StorefrontTypes
<1>1. StorefrontInv => StorefrontTypes  BY DEF StorefrontInv
<1> QED  BY <1>1, StorefrontInvariant, PTL

(* What is ordered is what the last confirmation screen said, and a screen *)
(* is good for one order (cb_confirm_purchase), but for the exceptions the *)
(* property names.                                                         *)
THEOREM ShownIsChargedTheorem == StorefrontSpec => []ShownIsCharged
<1>1. StorefrontInv => ShownIsCharged  BY DEF StorefrontInv, Ordered, ShownIsCharged
<1> QED  BY <1>1, StorefrontInvariant, PTL

(* No button, stale or of another screen, sells for nothing a plan that    *)
(* had a price when it was chosen (cb_select_billing, cb_confirm_purchase).*)
THEOREM NothingForFreeTheorem == StorefrontSpec => []NothingForFree
<1>1. StorefrontInv => NothingForFree  BY DEF StorefrontInv, Ordered
<1> QED  BY <1>1, StorefrontInvariant, PTL

(* A discount never reaches an hourly order, unless choices have crossed.  *)
THEOREM HourlyWithoutDiscountTheorem == StorefrontSpec => []HourlyWithoutDiscount
<1>1. StorefrontInv => HourlyWithoutDiscount  BY DEF StorefrontInv, Ordered
<1> QED  BY <1>1, StorefrontInvariant, PTL

===============================================================================
