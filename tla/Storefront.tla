------------------------------ MODULE Storefront ------------------------------
(***************************************************************************)
(* How one customer chooses a server: group, location, plan, billing, name, *)
(* operating system, discount, e-mail, confirmation.  Every press of a      *)
(* button and every message is a handler of its own; what has been chosen  *)
(* so far is kept in Redis as the state (st) and the data of a state        *)
(* machine, and every keyboard that was ever sent can still be pressed:    *)
(* only the filter on st stands in the way.  Handlers of one customer       *)
(* overlap: those that ask a provider take up to half a minute between     *)
(* reading the data and writing them.                                      *)
(*                                                                         *)
(* Of several operating systems one is dear: at Gcore its licence and its   *)
(* larger disk are added to the price (os_min_disk, os_lic_h, os_is_win).   *)
(***************************************************************************)
EXTENDS Integers

CONSTANTS
    Plans,        \* rows of the table server_plans
    KindOf,       \* their provider
    FirstPrice,   \* their prices in the beginning, 0 for none
    NewPrices,    \* what administrators change a price to
    Handlers,     \* handlers of this customer that wait for a provider
    NoPlan,
    MaxEvents     \* bound on what administrators change, answers that do not come and
                  \* messages that are refused

ASSUME StorefrontAssumption ==
    /\ KindOf \in [Plans -> {"hetzner", "rootvds", "scaleway", "virtualizor", "gcore",
                             "timeweb"}]
    /\ FirstPrice \in [Plans -> [hourly : Nat, monthly : Nat]]
    /\ NewPrices \subseteq Nat      \* plan_edit_value keeps no price below 0
    /\ NoPlan \notin Plans /\ MaxEvents \in Nat

VARIABLES
    st, data,      \* the state machine of the customer
    job,           \* handlers that wait for a provider
    plan, rate,    \* plans; an exchange rate is known
    screen,        \* the last confirmation screen
    placed,        \* the order this step has placed
    events,
    withdrawn      \* the plan last chosen had no price or was refused for want of a rate, or
                   \* a price has been taken away since

storefrontVars == <<st, data, job, plan, rate, screen, placed, events,
                    withdrawn>>

Blank == [plan |-> NoPlan, billing |-> "unset", late |-> FALSE, dearListed |-> FALSE,
          dear |-> FALSE, off |-> FALSE, crossed |-> FALSE]
\* What the confirmation screen said; how many orders came from it; since its prices were
\* read one has changed, or a later screen could not be sent; two presses were handled at
\* one time.
NoScreen == [plan |-> NoPlan, billing |-> "unset", price |-> 0,
             sold |-> 0, outdated |-> FALSE, overlapped |-> FALSE]
NothingPlaced == [there |-> FALSE, plan |-> NoPlan, billing |-> "unset", price |-> 0,
                  off |-> FALSE, crossed |-> FALSE, withdrawn |-> FALSE, asShown |-> TRUE]
NoJob == [pc |-> "idle", data |-> Blank, price |-> 0, withdrawn |-> FALSE, asShown |-> TRUE]

World  == <<plan, rate>>
\* Only in one state can the confirmation be pressed, and each time it is entered a screen
\* is sent or the last one is outdated.
Kept(scr) == screen' = IF st' = "confirming" THEN scr ELSE NoScreen
There(p) == p # NoPlan /\ plan[p].there
Kind(p)  == IF p = NoPlan THEN "none" ELSE KindOf[p]
\* Something happens that does not happen often.
Event    == events < MaxEvents /\ events' = events + 1
\* Handlers overlap; once choices have crossed they do no more (a bound).
Free(w)  == /\ job[w].pc = "idle"
            /\ data.crossed => \A v \in Handlers : job[v].pc \in {"idle", "buy"}
\* The data, and whether they have changed while the handler w waited
Crossed(w) == [data EXCEPT !.crossed = @ \/ data # job[w].data]
\* The handler w ends here.
Ends(w)  == job' = [job EXCEPT ![w] = NoJob] /\ Kept(screen) /\ UNCHANGED World
Done(w)  == Ends(w) /\ UNCHANGED events

-----------------------------------------------------------------------------
(* Prices *)

\* Prices of Gcore and Timeweb are in a foreign currency.
Known(p) == rate \/ Kind(p) \notin {"gcore", "timeweb"}
\* Half price stands for any discount.
Discounted(n, off) == IF off THEN n ELSE 2 * n
\* _gcore_os_pricing: with a licence, the cost of everything counts
OsPrice(d) == IF d.dear THEN FirstPrice[d.plan].hourly + 1 ELSE plan[d.plan].hourly
HourlyAtGcore(d) == Kind(d.plan) = "gcore" /\ d.billing = "hourly"
\* base_price, 0 for none
Base(d) == IF HourlyAtGcore(d) THEN OsPrice(d)
           ELSE IF d.billing = "hourly" THEN plan[d.plan].hourly
           ELSE plan[d.plan].monthly

Overlap(w) == \E v \in Handlers \ {w} : job[v].pc = "buy"
\* What a confirmation screen says
Said(d, price) == [NoScreen EXCEPT !.plan = d.plan, !.billing = d.billing,
                                   !.price = Discounted(price, d.off)]
Says(scr) == [scr EXCEPT !.sold = 0, !.outdated = FALSE, !.overlapped = FALSE]
\* _show_confirm after its pricing.  The state is set before the message is composed and
\* sent; composing fails without a price (but Gcore's is a number), sending may fail.
ShowConfirm(w, d, price) ==
    /\ st' = "confirming"
    /\ \/ /\ price > 0 \/ HourlyAtGcore(d)
          /\ screen' = [Said(d, price) EXCEPT !.outdated = price # Base(d),
                                               !.overlapped = Overlap(w)]
          /\ UNCHANGED events
       \/ /\ IF price > 0 \/ HourlyAtGcore(d) THEN Event ELSE UNCHANGED events
          /\ screen' = [screen EXCEPT !.outdated = TRUE]
    /\ job' = [job EXCEPT ![w] = NoJob] /\ UNCHANGED World

\* _show_confirm with the data d.  At Gcore an hourly price takes a while.
Show(w, d) ==
    IF d.plan = NoPlan \/ d.billing = "unset" THEN data' = d /\ UNCHANGED st /\ Done(w)
    ELSE IF ~There(d.plan) THEN st' = "none" /\ data' = Blank /\ Done(w)
    ELSE /\ data' = d
         /\ IF HourlyAtGcore(d)
            THEN /\ job' = [job EXCEPT ![w] = [NoJob EXCEPT !.pc = "show", !.data = d,
                                                            !.price = Base(d)]]
                 /\ UNCHANGED <<st, World, events>> /\ Kept(screen)
            ELSE IF ~Known(d.plan) /\ Base(d) > 0 THEN UNCHANGED st /\ Done(w)
            ELSE ShowConfirm(w, d, Base(d))
ShowEnds(w) ==
    /\ job[w].pc = "show" /\ data' = Crossed(w)
    /\ \/ Event /\ UNCHANGED st /\ Ends(w)
       \/ ~rate /\ job[w].price > 0 /\ UNCHANGED st /\ Done(w)
       \/ (rate \/ job[w].price = 0) /\ ShowConfirm(w, job[w].data, job[w].price)

\* _ask_email_or_confirm, _ask_discount.  Whether the customer has given an e-mail address
\* before is left open; only panels need one.
EmailOrConfirm(w, d) ==
    \/ Show(w, d)
    \/ Kind(d.plan) \in {"none", "virtualizor"} /\ st' = "email" /\ data' = d /\ Done(w)
AskDiscount(w, d) == st' = "discount" /\ data' = d /\ Done(w)
\* _ask_billing_late
AskBillingLate(w, d) ==
    /\ IF ~There(d.plan) THEN st' = "none" /\ data' = Blank
       ELSE IF plan[d.plan].hourly = 0
       THEN st' = "discount" /\ data' = [d EXCEPT !.billing = "monthly"]
       ELSE data' = d /\ st' = IF Known(d.plan) THEN "billing" ELSE st
    /\ Done(w)

\* mutant: a discount entered for another order stays
KeepDiscount(w, d, how) ==
    IF how.late THEN AskBillingLate(w, d)
    ELSE IF how.billing = "hourly" THEN EmailOrConfirm(w, d)
    ELSE AskDiscount(w, d)
\* After the operating system, with the data d; how says which way
AfterOs(w, d, how) ==
    IF how.late THEN AskBillingLate(w, d)
    ELSE IF how.billing = "hourly" THEN EmailOrConfirm(w, [d EXCEPT !.off = FALSE])
    ELSE AskDiscount(w, d)

-----------------------------------------------------------------------------
(* From the groups to a plan *)

Nav == {"category", "plan", "billing"}
\* Old keyboards still offer plans that are not on sale any more.
Listed(kinds, p) == There(p) /\ Kind(p) \in kinds

BuyServer(w) == /\ \E p \in Plans : Listed({Kind(p)}, p)
                /\ st' = "category" /\ UNCHANGED data /\ Done(w)
\* A list of plans: of a group (panels have no locations), of a location, of a type of
\* processor, of a family of machines or a type of disk
RenderPlanList(w) == st \in Nav /\ st' = "plan" /\ UNCHANGED data /\ Done(w)
SelectCategory(w) == (\E p \in Plans : Listed({"virtualizor"}, p)) /\ RenderPlanList(w)
BuyLocation(w)    == /\ \E p \in Plans : Listed({"hetzner", "rootvds", "scaleway", "gcore",
                                                 "timeweb"}, p)
                     /\ RenderPlanList(w)
TimewebType(w)    == (\E p \in Plans : Listed({"timeweb"}, p)) /\ RenderPlanList(w)
GcoreFamily(w)    == (\E p \in Plans : Listed({"gcore"}, p)) /\ RenderPlanList(w)

SelectPlan(w, p) ==
    /\ st = "plan" /\ There(p)
    /\ LET d == [data EXCEPT !.plan = p, !.late = FALSE]
       IN  IF Kind(p) = "timeweb"
           THEN st' = "hostname" /\ data' = [d EXCEPT !.billing = "none", !.late = TRUE]
           ELSE IF ~Known(p) /\ plan[p].hourly + plan[p].monthly > 0
           THEN data' = d /\ UNCHANGED st
           ELSE IF plan[p].hourly > 0 /\ plan[p].monthly > 0
           THEN st' = "billing" /\ data' = d
           ELSE /\ st' = "hostname"
                /\ data' = [d EXCEPT !.billing = IF plan[p].hourly > 0 THEN "hourly"
                                                 ELSE "monthly"]
    /\ Done(w)

\* mutant: any button is believed
AnyBilling(p, b) == There(p)
Offers(p, b) == There(p) /\ IF b = "hourly" THEN plan[p].hourly > 0 ELSE plan[p].monthly > 0
SelectBilling(w, b) ==
    /\ st = "billing" /\ Offers(data.plan, b)
    /\ LET d == [data EXCEPT !.billing = b]
       IN  IF ~data.late THEN st' = "hostname" /\ data' = d /\ Done(w)
           ELSE IF b = "hourly" THEN EmailOrConfirm(w, [d EXCEPT !.off = FALSE])
           ELSE AskDiscount(w, d)

-----------------------------------------------------------------------------
(* Name and operating system *)

\* _ask_os: the list is asked for; the handler remembers the data it has read.
AskOs(w, d) == /\ data' = d
               /\ job' = [job EXCEPT ![w] = [NoJob EXCEPT !.pc = "os", !.data = d]]
               /\ UNCHANGED <<st, World, events>> /\ Kept(screen)
Hostname(w) == st = "hostname" /\ AskOs(w, data)
\* The way back of the screen with Timeweb's billing
OsBack(w)   == /\ st = "billing" /\ \E p \in Plans : Kind(p) = "timeweb"
               /\ AskOs(w, data)

\* _fetch_os_list: whether the dear system is in it
OsListed(w) == /\ job[w].pc = "os" /\ st' = "os"
               /\ \E dear \in BOOLEAN :
                     data' = [Crossed(w) EXCEPT !.dearListed = dear]
               /\ Done(w)
\* No list, or no answer: the default is taken, and what the last choice cost stays.  The
\* way on is that of the billing read before the list was asked for.
NoOsList(w) == /\ job[w].pc = "os"
               /\ AfterOs(w, Crossed(w), job[w].data)

\* The price of a system that is not in the list of this plan is not known.
SelectOs(w, o) ==
    /\ st = "os"
    /\ LET d == [data EXCEPT !.dear = o = "dear" /\ data.dearListed]
       IN  AfterOs(w, d, d)

\* Timeweb's programs: one is chosen or given up, and the systems are listed again.
PickApp(w) == /\ st = "os" /\ Kind(data.plan) = "timeweb" /\ There(data.plan)
              /\ AskOs(w, data)

-----------------------------------------------------------------------------
(* Discount, e-mail, confirmation *)

SkipDiscount(w) == st = "discount" /\ EmailOrConfirm(w, [data EXCEPT !.off = FALSE])
DiscountCode(w) == st = "discount" /\ EmailOrConfirm(w, [data EXCEPT !.off = TRUE])
EnterEmail(w) == st = "email" /\ Show(w, data)

\* cb_confirm_purchase reads data and plan first; prices, the balance and the number of
\* hourly servers take a while.
Press(w) ==
    /\ st = "confirming" /\ There(data.plan)
    /\ job' = [job EXCEPT ![w] = [pc |-> "buy", data |-> data, price |-> Base(data),
                                  withdrawn |-> withdrawn,
                                  asShown |-> \/ screen.outdated \/ data.crossed
                                              \/ Says(screen) = Said(data, Base(data))]]
    /\ screen' = [screen EXCEPT !.overlapped = @ \/ Overlap(w)]
    /\ UNCHANGED <<st, data, World, events>>
\* mutant: the state is left as it is while the server is built
LeftOpen == UNCHANGED <<st, data>>
Cleared == st' = "none" /\ data' = Blank
\* The state is cleared before the order is placed.
Bought(w) ==
    LET d == job[w].data  n == job[w].price
    IN  /\ job[w].pc = "buy"
        /\ Known(d.plan) \/ n = 0
        /\ n = 0 => HourlyAtGcore(d) \/ ~d.off
        /\ Cleared
        /\ \/ /\ placed' = [there |-> TRUE, plan |-> d.plan, billing |-> d.billing,
                           price |-> Discounted(n, d.off), off |-> d.off, crossed |-> d.crossed,
                           withdrawn |-> job[w].withdrawn, asShown |-> job[w].asShown]
              /\ Kept([screen EXCEPT !.sold = @ + 1])
           \/ Kind(d.plan) = "timeweb" /\ placed' = NothingPlaced /\ Kept(screen)
        /\ job' = [job EXCEPT ![w] = NoJob]
        /\ UNCHANGED <<plan, rate, events>>
\* No rate, no price, too little money or too many servers
Refused(w) == job[w].pc = "buy" /\ UNCHANGED <<st, data>> /\ Done(w)
CancelPurchase(w)  == Cleared /\ Done(w)

-----------------------------------------------------------------------------
(* Administrators *)

Customer == <<st, data, job>>
EditPrice(p, b, n) ==
    /\ There(p) /\ n # plan[p][b] /\ Event /\ plan' = [plan EXCEPT ![p][b] = n]
    /\ withdrawn' = (withdrawn \/ n = 0)
    /\ UNCHANGED <<Customer, rate>> /\ Kept([screen EXCEPT !.outdated = TRUE])
DeletePlan(p) == /\ There(p) /\ Event
                 /\ plan' = [plan EXCEPT ![p].there = FALSE]
                 /\ UNCHANGED <<Customer, screen, rate, withdrawn>>
RateChanges == /\ Event /\ rate' = ~rate
               /\ UNCHANGED <<Customer, screen, plan, withdrawn>>

-----------------------------------------------------------------------------
StorefrontInit == /\ st = "none" /\ data = Blank /\ job = [w \in Handlers |-> NoJob]
                  /\ plan = [p \in Plans |-> [there |-> TRUE, hourly |-> FirstPrice[p].hourly,
                                             monthly |-> FirstPrice[p].monthly]]
                  /\ rate = TRUE
                  /\ screen = NoScreen /\ placed = NothingPlaced
                  /\ events = 0
                  /\ withdrawn = FALSE

Chosen(w) == \/ \E p \in Plans :
                   /\ SelectPlan(w, p)
                   /\ withdrawn' = (st' = "plan" \/ plan[p].hourly + plan[p].monthly = 0)
             \/ \E b \in {"hourly", "monthly"} : SelectBilling(w, b) /\ withdrawn' = FALSE
Choose(w) == \/ BuyServer(w) \/ SelectCategory(w) \/ BuyLocation(w) \/ TimewebType(w)
             \/ GcoreFamily(w) \/ Hostname(w) \/ OsBack(w)
             \/ \E o \in {"cheap", "dear"} : SelectOs(w, o)
             \/ PickApp(w) \/ SkipDiscount(w) \/ DiscountCode(w) \/ EnterEmail(w)
             \/ Press(w) \/ CancelPurchase(w)
Goes(w) == OsListed(w) \/ NoOsList(w) \/ ShowEnds(w) \/ Refused(w)
Admin == \/ \E p \in Plans : \/ DeletePlan(p)
                             \/ \E b \in {"hourly", "monthly"}, n \in NewPrices : EditPrice(p, b, n)
         \/ RateChanges
StorefrontNext ==
    \/ \E w \in Handlers :
          \/ Free(w) /\ Chosen(w) /\ placed' = NothingPlaced
          \/ /\ (Free(w) /\ Choose(w)) \/ Goes(w)
             /\ placed' = NothingPlaced /\ UNCHANGED withdrawn
          \/ Bought(w) /\ UNCHANGED withdrawn
    \/ Admin /\ placed' = NothingPlaced

StorefrontSpec == StorefrontInit /\ [][StorefrontNext]_storefrontVars

-----------------------------------------------------------------------------
(* Properties *)

\* An order is for the plan, the billing and the price of the confirmation screen the
\* customer has seen, and a screen is good for one order: whatever old buttons he presses
\* and however late providers answer.  Excepted are prices that changed in between,
\* choices made while a handler still waited for a provider, screens Telegram refused or that
\* could not be composed (the state is set before they are sent), and presses handled at
\* one time.
ShownIsCharged ==
    /\ placed.asShown
    /\ screen.overlapped \/ screen.outdated \/ screen.sold <= 1

\* Nothing is sold for nothing: not with a button of another plan's screen, nor with one
\* that was sent before a price was taken away.  Excepted are prices taken away after the
\* billing was chosen, plans that had no price at all when they were chosen or were refused
\* for want of an exchange rate, and choices made while a handler still waited for a
\* provider.
NothingForFree ==
    placed.there /\ placed.price = 0 => placed.withdrawn \/ placed.crossed

\* A discount entered for a monthly order never reaches an hourly one, unless a choice
\* was made while a handler still waited for a provider.
HourlyWithoutDiscount == placed.billing = "hourly" => ~placed.off \/ placed.crossed

===============================================================================
