------------------------------- MODULE Catalog -------------------------------
(***************************************************************************)
(* The catalogue of one provider (Hetzner, Gcore, Timeweb, RootVDS or      *)
(* Scaleway) and the provider's account.  The administrator imports plans, *)
(* switches them on and off, sets the margin and, for some providers, the  *)
(* rate of disks and addresses; every half hour a task compares the rows   *)
(* with what the provider offers: it hides a plan that is not offered, and *)
(* remembers whether it was on sale, brings it back as it was, and keeps   *)
(* costs and prices up to date.                                            *)
(*                                                                         *)
(* The task loads the rows, talks to the provider for seconds or minutes,  *)
(* and commits once, at the end; SQLAlchemy writes back only the columns    *)
(* that differ from what was loaded, and extra_data (the cost and the mark *)
(* "unavailable") is one column.  The task does not overlap with itself.   *)
(*                                                                         *)
(* One plan of the provider stands for all; Ids are the rows it may have.  *)
(* One price and one margin stand for the hourly and the monthly ones.     *)
(***************************************************************************)
EXTENDS Integers, FiniteSets

CONSTANTS
    Ids,          \* primary keys of the table server_plans
    Clicks,       \* clicks of administrators that are handled at one time
    Costs,        \* what the provider may ask for the plan
    Margins,      \* the margins an administrator may set
    Unset,        \* no margin has been set
    MaxEdits,     \* bound on changes by the provider and by administrators
    MaxFaults     \* bound on failures of requests and on lost transactions

ASSUME CatalogAssumption ==
    /\ Costs \subseteq Nat \ {0} /\ Margins \subseteq Nat /\ Unset \notin Margins
    /\ MaxEdits \in Nat /\ MaxFaults \in Nat

VARIABLES
    provider,  \* which provider
    barred,    \* the plan is of a family that is not sold
    offer,     \* what the provider offers now: the plan, in stock or not, its cost
    margin, rate, \* rows of the table bot_settings
    row,       \* rows of the table server_plans
    account,   \* the row of provider_accounts
    sync, job, click, \* the task and the handlers under way
    edits, faults,
    wish,      \* wish[i]: the administrator wants row i on sale
    mixed,     \* mixed[i]: the wish came while row i was hidden, out of stock or held by a
               \* task or a handler, or one of these has overwritten the mark of another
    own        \* own[i]: the price was typed by hand, or computed by a transaction that
               \* crossed another change of the price, the cost or the margin

catalogVars == <<provider, barred, offer, margin, rate, row, account, sync, job,
                        click, edits, faults, wish, mixed, own>>

Providers == {"hetzner", "gcore", "timeweb", "rootvds", "scaleway"}
NoPlan == [there |-> FALSE, active |-> FALSE, price |-> 0, raw |-> 0, cost |-> 0,
            gone |-> FALSE, was |-> FALSE, out |-> "no", used |-> FALSE]
NoOffer == [on |-> FALSE, short |-> FALSE, cost |-> 0]
NoJob  == [pc |-> "idle", rows |-> [i \in Ids |-> NoPlan], margin |-> Unset,
           charge |-> 0, seen |-> NoOffer]
NoClick == [pc |-> "idle", cost |-> 0]
NoAccount == [there |-> FALSE, on |-> FALSE]

Live == {i \in Ids : row[i].there}
Extra(r) == <<r.raw, r.cost, r.gone, r.was, r.out>>

Edited == edits < MaxEdits /\ edits' = edits + 1
Faulted  == faults < MaxFaults /\ faults' = faults + 1

-----------------------------------------------------------------------------
(* Costs and prices *)

\* What disk and address add to the cost: the provider's own price, one unit, unless a
\* rate has been set; 0 when asking for it fails, and the old cost stays.
Unknown == 0
GcoreCharge == IF rate > 0 THEN {rate}
               ELSE {1} \cup (IF faults < MaxFaults THEN {Unknown} ELSE {})
GcoreCost(old, raw, charge) == IF charge = Unknown THEN old ELSE raw + charge
TimewebCost(raw) == raw + 1
ScalewayCost(raw, r) == raw + r

Priced(r, m) == IF m = Unset \/ r.cost = 0 THEN r
                ELSE [r EXCEPT !.price = r.cost * (1 + m)]
Switched(r)  == IF r.gone THEN r ELSE [r EXCEPT !.active = TRUE]

\* apply_margins_to_catalog of every provider, for one row; a price makes it active
HetznerMargins(r, m)  == IF m = Unset THEN r ELSE Switched(Priced(r, m))
TimewebMargins(r, m)  == IF m = Unset THEN r ELSE Switched(Priced(r, m))
RootMargins(r, m)     == IF m = Unset THEN r ELSE Switched(Priced(r, m))
GcoreMargins(r, m)    == IF barred THEN [r EXCEPT !.active = FALSE]
                         ELSE IF m = Unset THEN r ELSE Switched(Priced(r, m))
ScalewayMargins(r, m) == IF m = Unset THEN r
                         ELSE IF barred THEN [r EXCEPT !.active = FALSE]
                         ELSE Switched(Priced(r, m))
ApplyMargins(r, m) ==
    IF ~r.there THEN r
    ELSE CASE provider = "hetzner"  -> HetznerMargins(r, m)
           [] provider = "timeweb"  -> TimewebMargins(r, m)
           [] provider = "rootvds"  -> RootMargins(r, m)
           [] provider = "gcore"    -> GcoreMargins(r, m)
           [] provider = "scaleway" -> ScalewayMargins(r, m)

-----------------------------------------------------------------------------
(* The synchronisation *)

\* Timeweb's plans may carry the mark out_of_stock of an earlier version, "yes", which
\* no code sets any more.  The two marks share was_active: when a plan comes back, the
\* key goes, "bare", and counts as TRUE when the plan is restocked.
\* mutant: hides a hidden plan once more, and forgets what it was
HideAgain(r) == [r EXCEPT !.gone = TRUE, !.was = r.active, !.active = FALSE]
Hide(r) == IF r.gone THEN r
           ELSE [r EXCEPT !.gone = TRUE, !.was = r.active, !.active = FALSE,
                          !.out = IF @ = "bare" THEN "yes" ELSE @]
Back(r) == IF r.gone THEN [r EXCEPT !.gone = FALSE, !.was = FALSE,
                                    !.active = r.was /\ r.out = "no",
                                    !.out = IF @ = "yes" THEN "bare" ELSE @]
           ELSE r
\* mark_plan_in_stock
InStock(r) == IF r.out = "no" THEN r
              ELSE [r EXCEPT !.out = "no", !.was = FALSE,
                             !.active = IF r.gone THEN @
                                        ELSE r.price # 0 /\ (r.out = "bare" \/ r.was)]

\* The price is computed anew only when the cost has changed or the plan has come back.
Differs(r, raw, cost) == r.raw # raw \/ r.cost # cost \/ r.gone
\* mutant: the price is computed before the new cost is stored
PricedFirst(r, raw, cost, m) ==
    IF Differs(r, raw, cost) THEN Back([Priced(r, m) EXCEPT !.raw = raw, !.cost = cost])
    ELSE r
Relist(r, raw, cost, m) ==
    IF Differs(r, raw, cost) THEN Priced(Back([r EXCEPT !.raw = raw, !.cost = cost]), m)
    ELSE r

\* What a synchronisation makes of a row, from the offer it has seen
HetznerSync(r, j) == IF j.seen.on THEN Relist(r, j.seen.cost, j.seen.cost, j.margin)
                     ELSE Hide(r)
RootSync(r, j)    == IF j.seen.on THEN Relist(r, j.seen.cost, j.seen.cost, j.margin)
                     ELSE Hide(r)
TimewebSync(r, j) == IF j.seen.on
                     THEN Relist(r, j.seen.cost, TimewebCost(j.seen.cost), j.margin)
                     ELSE Hide(r)
GcoreSync(r, j) ==
    IF barred THEN [r EXCEPT !.active = FALSE]
    ELSE IF ~j.seen.on THEN Hide(r)
    ELSE Relist(r, j.seen.cost, GcoreCost(r.cost, j.seen.cost, j.charge), j.margin)
ScalewaySync(r, j) ==
    IF barred THEN [r EXCEPT !.active = FALSE]
    ELSE IF ~j.seen.on \/ j.seen.short THEN Hide(r)
    ELSE Relist(r, j.seen.cost, ScalewayCost(j.seen.cost, j.charge), j.margin)
Synced(r, j) ==
    IF ~r.there THEN r
    ELSE CASE provider = "hetzner"  -> HetznerSync(r, j)
           [] provider = "rootvds"  -> RootSync(r, j)
           [] provider = "timeweb"  -> TimewebSync(r, j)
           [] provider = "gcore"    -> GcoreSync(r, j)
           [] provider = "scaleway" -> ScalewaySync(r, j)

\* The unit of work: columns that differ from the loaded ones are written, and a
\* changed row that is no longer there fails the transaction.
Stale(old, new) == \E i \in Ids : new[i] # old[i] /\ ~row[i].there
Merged(old, new) ==
    [i \in Ids |->
       IF new[i] = old[i] THEN row[i]
       ELSE [row[i] EXCEPT
               !.active = IF new[i].active # old[i].active THEN new[i].active ELSE @,
               !.price  = IF new[i].price # old[i].price THEN new[i].price ELSE @,
               !.raw    = IF Extra(new[i]) # Extra(old[i]) THEN new[i].raw ELSE @,
               !.cost   = IF Extra(new[i]) # Extra(old[i]) THEN new[i].cost ELSE @,
               !.gone   = IF Extra(new[i]) # Extra(old[i]) THEN new[i].gone ELSE @,
               !.was    = IF Extra(new[i]) # Extra(old[i]) THEN new[i].was ELSE @,
               !.out    = IF Extra(new[i]) # Extra(old[i]) THEN new[i].out ELSE @]]
Overwritten(old, new) == {i \in Live : /\ Extra(new[i]) # Extra(old[i])
                                       /\ Extra(row[i]) # Extra(old[i])}
\* own after a unit of work; fresh: it knew the margin that holds now
Repriced(old, new) == ~new.gone /\ <<new.raw, new.cost, new.gone, new.price>>
                                     # <<old.raw, old.cost, old.gone, old.price>>
OwnAfter(old, new, fresh) ==
    own' = [i \in Ids |->
       IF <<Extra(new[i]), new[i].price>> = <<Extra(old[i]), old[i].price>> THEN own[i]
       ELSE \/ <<Extra(row[i]), row[i].price>> # <<Extra(old[i]), old[i].price>>
            \/ ~fresh
            \/ own[i] /\ ~Repriced(old[i], new[i])]
\* own after apply_margins_to_catalog
OwnPriced(m) == own' = [i \in Ids |-> own[i] /\ m = Unset]

\* A wish of the administrator about row i, with the rows it results in
Busy == sync.pc # "idle" \/ job.pc # "idle"
Marked(r) == r.gone \/ r.out # "no"
Held(i) == Marked(row[i]) \/ Busy
Wishes(ids, v) ==
    /\ wish'  = [i \in Ids |-> IF i \in ids THEN v ELSE wish[i]]
    /\ mixed' = [i \in Ids |-> IF i \in ids THEN Held(i) ELSE mixed[i]]
Moved(new) == {i \in Live : new[i].active # row[i].active}
Follows(ids, new) ==
    /\ wish'  = [i \in Ids |-> IF i \in ids THEN new[i].active ELSE wish[i]]
    /\ mixed' = [i \in Ids |-> IF i \in ids THEN Held(i) ELSE mixed[i]]

StartSync == /\ sync.pc = "idle" /\ account.on /\ Live # {}
             /\ sync' = [NoJob EXCEPT !.pc = "listing", !.rows = row, !.margin = margin,
                                      !.charge = rate]
             /\ UNCHANGED <<provider, barred, offer, margin, rate, row, account, job,
                            click, edits, faults, wish, mixed, own>>

\* Timeweb first restocks the plans whose cooldown has passed, and keeps this in any case.
Cooling == {i \in Ids : sync.rows[i].there /\ sync.rows[i].out # "no"}
Cooled(out) == [i \in Ids |-> IF i \in out THEN InStock(sync.rows[i]) ELSE sync.rows[i]]
CommitRows(new) ==
    IF Stale(sync.rows, new) THEN UNCHANGED <<row, wish, mixed, own>>
    ELSE LET off == {i \in Live : barred /\ sync.rows[i].active /\ ~new[i].active}
         IN  /\ row' = Merged(sync.rows, new)
             /\ wish'  = [i \in Ids |-> wish[i] /\ i \notin off]
             /\ mixed' = [i \in Ids |-> mixed[i] \/ i \in Overwritten(sync.rows, new)]
             /\ OwnAfter(sync.rows, new, sync.margin = margin)

\* The provider's list; if asking for the stock fails, Scaleway's plans count as in
\* stock.  A failure ends the run (or its only location) without a change.
ListOffers ==
    /\ sync.pc = "listing"
    /\ \/ \E o \in {offer} \cup (IF offer.short /\ faults < MaxFaults
                                    THEN {[offer EXCEPT !.short = FALSE]} ELSE {}),
                c \in IF provider = "gcore" THEN GcoreCharge ELSE {sync.charge} :
               /\ sync' = [sync EXCEPT !.pc = "writing", !.seen = o, !.charge = c]
               /\ faults' = IF o = offer /\ (provider # "gcore" \/ c # Unknown)
                               THEN faults ELSE faults + 1
               /\ UNCHANGED <<row, wish, mixed, own>>
       \/ Faulted /\ sync' = NoJob /\ \E out \in SUBSET Cooling : CommitRows(Cooled(out))
    /\ UNCHANGED <<provider, barred, offer, margin, rate, account, job, click, edits>>

CommitSync ==
    /\ sync.pc = "writing" /\ sync' = NoJob
    /\ \E out \in SUBSET Cooling :
         CommitRows([i \in Ids |-> Synced(Cooled(out)[i], sync)])
    /\ UNCHANGED <<provider, barred, offer, margin, rate, account, job, click,
                   edits, faults>>

\* The worker is restarted before the commit.
SyncLost == /\ sync.pc # "idle" /\ Faulted /\ sync' = NoJob
            /\ UNCHANGED <<provider, barred, offer, margin, rate, row, account, job,
                            click, edits, wish, mixed, own>>

-----------------------------------------------------------------------------
(* What administrators do *)

Tasks == <<provider, barred, offer, sync>>

\* The margin is set and at once applied to every row.
SetMargin(m) ==
    /\ account.there /\ Edited /\ margin' = m
    /\ row' = [i \in Ids |-> ApplyMargins(row[i], m)]
    /\ Follows(Moved(row'), row') /\ OwnPriced(m)
    /\ UNCHANGED <<Tasks, rate, account, job, click, faults>>

\* The rate of disk and address: Scaleway's costs are computed in the database,
\* Gcore's need the provider's prices and so some time.
ScalewayRate(r) ==
    /\ provider = "scaleway" /\ account.there /\ Edited /\ rate' = r
    /\ row' = [i \in Ids |-> IF row[i].there
                 THEN ApplyMargins([row[i] EXCEPT !.cost = ScalewayCost(row[i].raw, r)], margin)
                 ELSE row[i]]
    /\ Follows(Moved(row'), row') /\ OwnPriced(margin)
    /\ UNCHANGED <<Tasks, margin, account, job, click, faults>>
GcoreRate(r) ==
    /\ provider = "gcore" /\ account.there /\ job.pc = "idle" /\ Edited
    /\ job' = [NoJob EXCEPT !.pc = "pricing", !.rows = row, !.charge = r]
    /\ UNCHANGED <<Tasks, margin, rate, row, account, click, faults, wish, mixed, own>>
GcoreRateEnds ==
    /\ job.pc = "pricing" /\ job' = NoJob
    /\ \E c \in IF job.charge > 0 THEN {job.charge} ELSE {1, Unknown} :
         LET new == [i \in Ids |->
               IF ~job.rows[i].there THEN job.rows[i]
               ELSE ApplyMargins([job.rows[i] EXCEPT !.cost =
                        GcoreCost(job.rows[i].cost, job.rows[i].raw, c)], margin)]
             woken == {i \in Live : new[i].active # job.rows[i].active}
         IN  IF Stale(job.rows, new) THEN UNCHANGED <<row, rate, wish, mixed, own>>
             ELSE /\ row' = Merged(job.rows, new) /\ rate' = job.charge
                  /\ wish'  = [i \in Ids |-> IF i \in woken THEN new[i].active ELSE wish[i]]
                  /\ mixed' = [i \in Ids |->
                        \/ i \in Overwritten(job.rows, new)
                        \/ IF i \in woken THEN Marked(row[i]) \/ sync.pc # "idle"
                           ELSE mixed[i]]
                  /\ OwnAfter(job.rows, new, TRUE)
    /\ UNCHANGED <<Tasks, margin, account, click, edits, faults>>

\* admin:plan_toggle, admin:plan_del_do and the price typed by hand: nothing is asked
TogglePlan(i) == /\ row[i].there /\ Edited
                 /\ row' = [row EXCEPT ![i].active = ~@]
                 /\ Wishes({i}, ~row[i].active)
                 /\ UNCHANGED <<Tasks, margin, rate, account, job, click, faults, own>>
DeletePlan(i) == /\ row[i].there /\ Edited
                 /\ row' = [row EXCEPT ![i] = NoPlan]
                 /\ Wishes({i}, FALSE)
                 /\ UNCHANGED <<Tasks, margin, rate, account, job, click, faults, own>>
EditPrice(i) == /\ row[i].there /\ Edited
                /\ \E p \in Costs \cup {0} : row' = [row EXCEPT ![i].price = p]
                /\ own' = [own EXCEPT ![i] = TRUE]
                /\ UNCHANGED <<Tasks, margin, rate, account, job, click, faults, wish,
                               mixed>>

\* _remove_plan: a plan that a server was sold from is only switched off
Removed(r) == IF r.used THEN [r EXCEPT !.active = FALSE] ELSE NoPlan
Remove(i) == row' = [row EXCEPT ![i] = Removed(@)] /\ Wishes({i}, FALSE) /\ own' = own

\* A click on an imported plan that is off puts it on sale (Timeweb, RootVDS,
\* Scaleway), even when it is hidden, if it has a price.
SwitchOn(i) ==
    LET new == [k \in Ids |-> ApplyMargins(IF k = i THEN InStock(row[k]) ELSE row[k],
                                           margin)]
        on  == new[i].active \/ new[i].price # 0
    IN  /\ row' = [new EXCEPT ![i].active = on]
        /\ Follows(Moved(row') \cup {i}, row') /\ OwnPriced(margin)

\* A click on a plan in the list of the provider's plans.  The lookup demands that
\* there is at most one row, except at Gcore.
Several == Cardinality(Live) > 1
HetznerPick(i)  == provider = "hetzner" /\ ~Several /\ Remove(i)
GcorePick(i)    == provider = "gcore" /\ Remove(i)
TimewebPick(i)  == /\ provider = "timeweb" /\ ~Several
                   /\ IF row[i].active THEN Remove(i) ELSE SwitchOn(i)
RootPick(i)     == /\ provider = "rootvds" /\ ~Several
                   /\ IF row[i].active THEN Remove(i) ELSE SwitchOn(i)
ScalewayPick(i) == /\ provider = "scaleway" /\ ~Several
                   /\ IF row[i].active THEN Remove(i) ELSE SwitchOn(i)
Pick(i) == /\ account.there /\ row[i].there /\ Edited
           /\ \/ HetznerPick(i) \/ GcorePick(i) \/ TimewebPick(i) \/ RootPick(i)
              \/ ScalewayPick(i)
           /\ UNCHANGED <<Tasks, margin, rate, account, job, click, faults>>

\* The new row: without a price and off
HetznerRow(c)  == {[NoPlan EXCEPT !.there = TRUE, !.raw = c, !.cost = c]}
RootRow(c)     == {[NoPlan EXCEPT !.there = TRUE, !.raw = c, !.cost = c]}
TimewebRow(c)  == {[NoPlan EXCEPT !.there = TRUE, !.raw = c, !.cost = TimewebCost(c)]}
GcoreRow(c)    == {[NoPlan EXCEPT !.there = TRUE, !.raw = c, !.cost = c + x] :
                     x \in IF rate > 0 THEN {rate} ELSE {Unknown, 1}}
ScalewayRow(c) == {[NoPlan EXCEPT !.there = TRUE, !.raw = c, !.cost = ScalewayCost(c, rate)]}
NewPlan(c) == CASE provider = "hetzner"  -> HetznerRow(c)
                [] provider = "rootvds"  -> RootRow(c)
                [] provider = "timeweb"  -> TimewebRow(c)
                [] provider = "gcore"    -> GcoreRow(c)
                [] provider = "scaleway" -> ScalewayRow(c)
\* A primary key is never used again.
FreshPlans == {i \in Ids : ~row[i].there /\ ~sync.rows[i].there /\ ~job.rows[i].there}
ImportPlan(c) ==
    \E i \in FreshPlans : \E r \in NewPlan(c) :
       LET new == [row EXCEPT ![i] = r]
           all == [k \in Ids |-> ApplyMargins(new[k], margin)]
       IN  /\ row' = all /\ OwnPriced(margin)
           /\ wish'  = [k \in Ids |-> IF k = i \/ k \in Moved(all) THEN all[k].active
                                      ELSE wish[k]]
           /\ mixed' = [k \in Ids |-> IF k = i THEN FALSE
                                      ELSE IF k \in Moved(all) THEN Held(k) ELSE mixed[k]]

\* A click on a plan that is not imported asks the provider after it has looked for
\* the row; "switch all on" looks after it has asked.
PickNew(c) == /\ click[c].pc = "idle" /\ account.there /\ Live = {} /\ ~barred
              /\ offer.on /\ Edited
              /\ click' = [click EXCEPT ![c] = [NoClick EXCEPT !.pc = "import",
                                                               !.cost = offer.cost]]
              /\ UNCHANGED <<Tasks, margin, rate, row, account, job, faults, wish, mixed, own>>
PickNewEnds(c) == /\ click[c].pc = "import" /\ account.there
                  /\ click' = [click EXCEPT ![c] = NoClick]
                  /\ ImportPlan(click[c].cost)
                  /\ UNCHANGED <<Tasks, margin, rate, account, job, edits, faults>>
AllOn == /\ account.there /\ Live = {} /\ ~barred /\ offer.on /\ Edited
         /\ ImportPlan(offer.cost)
         /\ UNCHANGED <<Tasks, margin, rate, account, job, click, faults>>
AllOff == /\ account.there /\ Several /\ Edited
          /\ row' = [i \in Ids |-> IF i \in Live THEN Removed(row[i]) ELSE row[i]]
          /\ Wishes(Live, FALSE)
          /\ UNCHANGED <<Tasks, margin, rate, account, job, click, faults, own>>

-----------------------------------------------------------------------------
(* The account *)

AddAccount == /\ ~account.there /\ Edited /\ account' = [there |-> TRUE, on |-> TRUE]
              /\ UNCHANGED <<Tasks, margin, rate, row, job, click, faults, wish, mixed, own>>
ToggleAccount == /\ account.there /\ Edited /\ account' = [account EXCEPT !.on = ~@]
                 /\ UNCHANGED <<Tasks, margin, rate, row, job, click, faults, wish, mixed, own>>
\* Refused while a server of the account lives; takes the plans with it.
DeleteAccount == /\ account.there /\ \A i \in Live : ~row[i].used
                 /\ Edited
                 /\ account' = NoAccount
                 /\ row' = [i \in Ids |-> NoPlan] /\ Wishes(Live, FALSE)
                 /\ UNCHANGED <<Tasks, margin, rate, job, click, faults, own>>

-----------------------------------------------------------------------------
\* admin:twrestock for one plan, and the bot's start for all of them
Restock(rows) == /\ \E i \in rows : row[i].out # "no"
                 /\ row' = [i \in Ids |-> IF i \in rows THEN InStock(row[i]) ELSE row[i]]
                 /\ UNCHANGED <<Tasks, margin, rate, account, job, click, edits, faults,
                                wish, mixed, own>>
\* Servers are sold from a plan (which is in stock then) and deleted; the provider
\* changes its offer.
Sell(i) == /\ row[i].active /\ ~row[i].used /\ Edited
           /\ row' = [row EXCEPT ![i] = [InStock(@) EXCEPT !.used = TRUE]]
           /\ UNCHANGED <<Tasks, margin, rate, account, job, click, faults, wish, mixed, own>>
LastServerGone(i) ==
    /\ row[i].used /\ row' = [row EXCEPT ![i].used = FALSE]
    /\ UNCHANGED <<Tasks, margin, rate, account, job, click, edits, faults, wish, mixed, own>>
Provider ==
    /\ Edited
    /\ \E o \in [on : BOOLEAN, short : BOOLEAN, cost : Costs] :
         o # offer /\ (o.short => provider = "scaleway") /\ offer' = o
    /\ UNCHANGED <<provider, barred, margin, rate, row, account, sync, job, click, faults,
                   wish, mixed, own>>

-----------------------------------------------------------------------------
\* The account is there; a plan may have been imported, and a row of a barred family is
\* left from before the family was barred, or an earlier version left a plan of Timeweb's
\* out of stock.  Only Gcore and Scaleway have a rate, 0 at first.
FirstRow == CHOOSE i \in Ids : TRUE
CatalogInit == /\ provider \in Providers
               /\ barred \in IF provider \in {"gcore", "scaleway"} THEN BOOLEAN ELSE {FALSE}
               /\ offer \in [on : {TRUE}, short : {FALSE}, cost : Costs]
               /\ margin \in Margins \cup {Unset} /\ rate = 0
               /\ \/ ~barred /\ row = [i \in Ids |-> NoPlan]
                  \/ \E r \in NewPlan(offer.cost) :
                       row = [i \in Ids |-> IF i # FirstRow THEN NoPlan
                                            ELSE IF barred THEN [r EXCEPT !.active = TRUE]
                                            ELSE ApplyMargins(r, margin)]
                  \/ /\ provider = "timeweb"
                     /\ \E r \in NewPlan(offer.cost), on \in BOOLEAN :
                          row = [i \in Ids |-> IF i # FirstRow THEN NoPlan
                                   ELSE [ApplyMargins(r, margin) EXCEPT
                                           !.active = FALSE, !.was = on, !.out = "yes"]]
               /\ account = [there |-> TRUE, on |-> TRUE]
               /\ sync = NoJob /\ job = NoJob
               /\ click = [c \in Clicks |-> NoClick]
               /\ edits = 0 /\ faults = 0
               /\ wish = [i \in Ids |-> row[i].active]
               /\ mixed = [i \in Ids |-> row[i].out # "no"]
               /\ own = [i \in Ids |-> FALSE]

Sync  == StartSync \/ ListOffers \/ CommitSync
OnRow(i) == TogglePlan(i) \/ DeletePlan(i) \/ EditPrice(i) \/ Pick(i)
CatalogAdmin == \/ \E m \in Margins : SetMargin(m)
                \/ \E r \in {0, 1} : ScalewayRate(r) \/ GcoreRate(r)
                \/ GcoreRateEnds \/ AllOn \/ AllOff
                \/ AddAccount \/ ToggleAccount \/ DeleteAccount
                \/ \E i \in Ids : OnRow(i) \/ (account.there /\ ~Several /\ Restock({i}))
                \/ Restock(Ids)
                \/ \E c \in Clicks : PickNew(c) \/ PickNewEnds(c)
CatalogNext == \/ Sync \/ SyncLost \/ CatalogAdmin \/ Provider
               \/ \E i \in Ids : Sell(i) \/ LastServerGone(i)

\* Celery's beat starts the task every half hour, and its requests have timeouts.
CatalogSpec == CatalogInit /\ [][CatalogNext]_catalogVars /\ WF_catalogVars(Sync)

-----------------------------------------------------------------------------
(* Properties *)

\* A plan is on sale exactly when the administrator wants it and the provider's
\* catalogue had it at the last synchronisation, and a hidden plan remembers the wish:
\* whatever sequence of outages, price changes and settings has passed, it comes back
\* as it was.  Excepted: wishes and marks that crossed another transaction, and wishes
\* about a plan that is out of stock.
KeepsWish ==
    \A i \in Live : ~mixed[i] =>
        /\ row[i].active = (wish[i] /\ ~row[i].gone)
        /\ row[i].gone => row[i].was = wish[i]

Offered == offer.on /\ ~(provider = "scaleway" /\ offer.short)
Cost(r) == CASE provider = "timeweb"  -> r.cost = TimewebCost(offer.cost)
             [] provider = "scaleway" -> r.cost = ScalewayCost(offer.cost, rate)
             [] provider = "gcore"    -> rate > 0 => r.cost = offer.cost + rate
             [] OTHER             -> r.cost = offer.cost
\* When the provider and the administrator leave the catalogue alone, it settles: plans
\* that are not offered are marked, offered ones are not, they carry the provider's cost
\* and, once there is a margin, the price that follows from it, whatever half-done
\* synchronisations, failures and stale copies came before.  The tasks compute a price only
\* when the cost changes or the plan comes back; so a price typed by hand, or computed by a
\* transaction that crossed another, is excepted until something computes it anew.
CatalogueSettles ==
    <>[](account.on /\ ~barred => \A i \in Live :
            IF ~Offered THEN row[i].gone
            ELSE /\ ~row[i].gone /\ Cost(row[i])
                 /\ margin # Unset /\ ~own[i] => row[i].price = row[i].cost * (1 + margin))

=============================================================================
