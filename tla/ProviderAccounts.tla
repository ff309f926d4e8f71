--------------------------- MODULE ProviderAccounts ---------------------------
(***************************************************************************)
(* The accounts of one kind of provider: what administrators do with them, *)
(* the half-hourly check that tells the log group when a provider stops    *)
(* answering and when it answers again, and the servers that refer to an   *)
(* account.                                                                *)
(*                                                                         *)
(* The number of servers an account may hold and the state of the check    *)
(* (health_ok, health_fail_streak) are keys of one JSON column,            *)
(* extra_config; whoever changes one of them writes the whole column, as   *)
(* it was when he loaded the row.  The check loads all accounts, talks to   *)
(* each provider for up to some minutes, sends its alerts at once and      *)
(* commits at the very end.                                                *)
(***************************************************************************)
EXTENDS Integers, FiniteSets

CONSTANTS
    Accounts,     \* primary keys of the table provider_accounts, numbers
    Servers,      \* rows of the table servers, with their machines
    Admins,       \* handlers of administrators that run at one time
    Limits,       \* what an administrator may set, 0 for no limit
    None,         \* no account
    MaxChanges,   \* bound on what administrators, customers and providers do
    MaxFailures   \* bound on failed requests and lost transactions

ASSUME AccountsAssumption ==
    /\ Accounts \subseteq Nat /\ None \notin Accounts /\ Limits \subseteq Nat /\ 0 \in Limits
    /\ MaxChanges \in Nat /\ MaxFailures \in Nat

VARIABLES
    kind,      \* which provider
    acc,       \* the accounts' rows
    home,      \* the account the rows of the catalogue refer to
    srv,       \* servers: row and machine
    up,        \* up[a]: the provider answers with the credentials of a
    check,     \* the health check under way
    form,      \* form[h]: the handler of an administrator under way
    changes, failures,
    alarms,    \* alarms[a]: "down" messages sent, less "up" messages
    asked,     \* asked[a]: the limit that was set last
    crossed,   \* crossed[a]: a write of the column has undone another one, or a check
               \* that had sent an alert was lost
    astray     \* astray[s]: the row came in between the check for servers and the
               \* deletion of its account, or the deletion was lost half-way

vars == <<kind, acc, home, srv, up, check, form, changes, failures, alarms, asked,
          crossed, astray>>

Kinds == {"hetzner", "virtualizor", "gcore", "timeweb", "rootvds", "scaleway"}
NoRow  == [there |-> FALSE, on |-> FALSE, ok |-> TRUE, streak |-> 0, limit |-> 0]
NoVm   == [row |-> "none", acc |-> None, vm |-> FALSE, reseller |-> FALSE]
Idle   == [pc |-> "idle", acc |-> None, copy |-> NoRow, value |-> 0,
           todo |-> {}, done |-> {}]
NoCheck == [pc |-> "idle", todo |-> {}, old |-> [a \in Accounts |-> NoRow],
            new |-> [a \in Accounts |-> NoRow], told |-> {}]

Rows == {a \in Accounts : acc[a].there}
Of(a) == {s \in Servers : srv[s].acc = a /\ srv[s].row = "live"}
Config(r) == <<r.ok, r.streak, r.limit>>
\* mutant: a key is lost when the column is written
ConfigNoLimit(r, c) == [r EXCEPT !.ok = c.ok, !.streak = c.streak, !.limit = 0]
WithConfig(r, c) == [r EXCEPT !.ok = c.ok, !.streak = c.streak, !.limit = c.limit]
Changed == changes < MaxChanges /\ changes' = changes + 1
Failed  == failures < MaxFailures /\ failures' = failures + 1

Machines == <<srv, astray>>
Ghosts   == <<alarms, asked, crossed>>

-----------------------------------------------------------------------------
(* The health check *)

\* mutant: accounts that are down are passed over
CheckedIfUp(a) == acc[a].on /\ acc[a].ok
Checked(a) == acc[a].on
StartCheck ==
    /\ check.pc = "idle"
    /\ LET todo == {a \in Rows : Checked(a)}
       IN  /\ todo # {}
           /\ check' = [pc |-> "asking", todo |-> todo, old |-> acc, new |-> acc,
                        told |-> {}]
    /\ UNCHANGED <<kind, acc, home, Machines, up, form, changes, failures, Ghosts>>

\* The verdict after three attempts.  Two rounds of silence in a row make an outage;
\* longer streaks count as two.
Verdict(c, answers) == IF answers THEN [c EXCEPT !.ok = TRUE, !.streak = 0]
                       ELSE IF c.streak = 0 THEN [c EXCEPT !.streak = 1]
                       ELSE [c EXCEPT !.streak = 2, !.ok = FALSE]
\* mutant: a silent provider is reported in every round
Nagging(c, answers) == IF answers THEN IF c.ok THEN 0 ELSE -1
                       ELSE IF c.streak > 0 THEN 1 ELSE 0
Alert(c, answers) == IF answers THEN IF c.ok THEN 0 ELSE -1
                     ELSE IF c.streak > 0 /\ c.ok THEN 1 ELSE 0
Ask(a) ==
    /\ a \in check.todo
    /\ \E answers \in BOOLEAN :
         /\ IF answers = up[a] THEN failures' = failures ELSE up[a] /\ Failed
         /\ LET c == check.old[a]  alert == Alert(c, answers)
            IN  /\ alarms' = [alarms EXCEPT ![a] = @ + alert]
                /\ check' = [check EXCEPT !.todo = @ \ {a}, !.new[a] = Verdict(c, answers),
                                          !.told = IF alert = 0 THEN @ ELSE @ \cup {a}]
    /\ UNCHANGED <<kind, acc, home, Machines, up, form, changes, asked, crossed>>

\* Only rows whose column has changed are written; if one of them is gone, none is.
Written == {a \in Accounts : Config(check.new[a]) # Config(check.old[a])}
CommitCheck ==
    /\ check.pc = "asking" /\ check.todo = {} /\ check' = NoCheck
    /\ IF Written \subseteq Rows
       THEN /\ acc' = [a \in Accounts |-> IF a \in Written
                                          THEN WithConfig(acc[a], check.new[a]) ELSE acc[a]]
            /\ crossed' = [a \in Accounts |->
                             \/ crossed[a]
                             \/ a \in Written /\ Config(acc[a]) # Config(check.old[a])]
       ELSE /\ crossed' = [a \in Accounts |-> crossed[a] \/ a \in check.told]
            /\ UNCHANGED acc
    /\ UNCHANGED <<kind, home, Machines, up, form, changes, failures, alarms, asked>>

\* The worker is restarted: no row is written, but alerts may be out.
CheckLost == /\ check.pc = "asking" /\ Failed /\ check' = NoCheck
             /\ crossed' = [a \in Accounts |-> crossed[a] \/ a \in check.told]
             /\ UNCHANGED <<kind, acc, home, Machines, up, form, changes, alarms, asked>>

-----------------------------------------------------------------------------
(* New accounts *)

Quiet == <<kind, up, check, failures>>

\* A key that nothing refers to any more
Fresh == {a \in Accounts \ Rows : /\ ~check.old[a].there
                                  /\ \A h \in Admins : form[h].acc # a}
NewRow(a) == /\ acc' = [acc EXCEPT ![a] = [NoRow EXCEPT !.there = TRUE, !.on = TRUE]]
             /\ alarms' = [alarms EXCEPT ![a] = 0] /\ asked' = [asked EXCEPT ![a] = 0]
             /\ crossed' = [crossed EXCEPT ![a] = FALSE]
Insert == \E a \in Fresh : NewRow(a)

\* Hetzner and Virtualizor may have many accounts.  A Virtualizor panel is tried out
\* after its row is written, whatever comes of it.
HetznerAdd     == kind = "hetzner" /\ Changed /\ Insert /\ UNCHANGED form
VirtualizorAdd == kind = "virtualizor" /\ Changed /\ Insert /\ UNCHANGED form
\* The others have one: "add" is refused when there is one, but the row comes after three
\* questions and a request to the provider.
AskedToAdd(h) == /\ form[h].pc = "idle" /\ Rows = {} /\ Changed
                 /\ form' = [form EXCEPT ![h] = [Idle EXCEPT !.pc = "adding"]]
                 /\ UNCHANGED <<acc, Ghosts>>
Added(h) == /\ form[h].pc = "adding" /\ form' = [form EXCEPT ![h] = Idle]
            /\ Insert /\ UNCHANGED changes
GcoreAdd(h)    == kind = "gcore"    /\ (AskedToAdd(h) \/ Added(h))
TimewebAdd(h)  == kind = "timeweb"  /\ (AskedToAdd(h) \/ Added(h))
RootAdd(h)     == kind = "rootvds"  /\ (AskedToAdd(h) \/ Added(h))
ScalewayAdd(h) == kind = "scaleway" /\ (AskedToAdd(h) \/ Added(h))
Add == /\ \/ HetznerAdd \/ VirtualizorAdd
          \/ \E h \in Admins : GcoreAdd(h) \/ TimewebAdd(h) \/ RootAdd(h) \/ ScalewayAdd(h)
       /\ UNCHANGED <<Quiet, Machines, home>>

-----------------------------------------------------------------------------
(* Settings.  One key of extra_config stands for all that is set there.               *)

\* The account of a handler: a given one, or the only one, which is the first there is.
Handled == IF kind \in {"hetzner", "virtualizor"} THEN Rows
           ELSE {a \in Rows : \A b \in Rows : a <= b}

\* The row is loaded, and written back with the new value.
Load(h, a, v) == /\ form[h].pc = "idle" /\ a \in Handled /\ Changed
                 /\ form' = [form EXCEPT ![h] = [Idle EXCEPT !.pc = "setting", !.acc = a,
                                                             !.copy = acc[a], !.value = v]]
HetznerLimit(h, a, v)   == kind = "hetzner"     /\ Load(h, a, v)
GcoreLimit(h, a, v)     == kind = "gcore"       /\ Load(h, a, v)
TimewebLimit(h, a, v)   == kind = "timeweb"     /\ Load(h, a, v)
RootLimit(h, a, v)      == kind = "rootvds"     /\ Load(h, a, v)
ScalewayLimit(h, a, v)  == kind = "scaleway"    /\ Load(h, a, v)
VirtualizorFee(h, a, v) == kind = "virtualizor" /\ Load(h, a, v)
\* The project is tried out first, for most of a minute.
GcoreProject(h, a, v)    == kind = "gcore"      /\ Load(h, a, v)
ScalewayProject(h, a, v) == kind = "scaleway"   /\ Load(h, a, v)
SetLimit ==
    /\ \E h \in Admins, a \in Accounts, v \in Limits :
         \/ HetznerLimit(h, a, v) \/ GcoreLimit(h, a, v) \/ TimewebLimit(h, a, v)
         \/ RootLimit(h, a, v) \/ ScalewayLimit(h, a, v) \/ VirtualizorFee(h, a, v)
         \/ GcoreProject(h, a, v) \/ ScalewayProject(h, a, v)
    /\ UNCHANGED <<Quiet, Machines, Ghosts, acc, home>>

Saved(h) ==
    LET a == form[h].acc  new == [form[h].copy EXCEPT !.limit = form[h].value]
    IN  /\ form[h].pc = "setting" /\ form' = [form EXCEPT ![h] = Idle]
        /\ IF a \notin Rows \/ Config(new) = Config(form[h].copy)
           THEN UNCHANGED <<acc, asked, crossed>>
           ELSE /\ acc' = [acc EXCEPT ![a] = WithConfig(@, new)]
                /\ asked' = [asked EXCEPT ![a] = new.limit]
                /\ crossed' = [crossed EXCEPT ![a] =
                                 @ \/ Config(acc[a]) # Config(form[h].copy)]
        /\ UNCHANGED <<Quiet, Machines, home, changes, alarms>>
Refused(h) == /\ form[h].pc = "setting" /\ kind \in {"gcore", "scaleway"} /\ Failed
              /\ form' = [form EXCEPT ![h] = Idle]
              /\ UNCHANGED <<kind, up, check, Machines, Ghosts, acc, home, changes>>

\* admin:*_toggle
Toggle(a) == /\ a \in Handled /\ Changed /\ acc' = [acc EXCEPT ![a].on = ~@]
             /\ UNCHANGED <<Quiet, Machines, Ghosts, home, form>>
\* Plans are imported; every one refers to an account.
Import == /\ home = None /\ Changed /\ home' \in Rows
          /\ UNCHANGED <<Quiet, Machines, Ghosts, acc, form>>

-----------------------------------------------------------------------------
(* The end of an account *)

\* mutant: only an account that is on sale is looked after
VacantOrOff(a) == Of(a) = {} \/ ~acc[a].on
\* No server that is not deleted (at Hetzner: and no snapshot)
Vacant(a) == Of(a) = {}
AskedToDelete(h, a) ==
    /\ form[h].pc = "idle" /\ a \in Handled /\ Vacant(a) /\ Changed
    /\ form' = [form EXCEPT ![h] = [Idle EXCEPT !.pc = "deleting", !.acc = a]]
    /\ UNCHANGED <<acc, home, srv, astray>>
\* After a message the row goes, and every server that still refers to it forgets it.
Forget(a) == [s \in Servers |-> IF srv[s].acc = a THEN [srv[s] EXCEPT !.acc = None]
                                ELSE srv[s]]
Deleted(h, a, plans) ==
    /\ form[h].pc = "deleting" /\ form[h].acc = a /\ form' = [form EXCEPT ![h] = Idle]
    /\ acc' = [acc EXCEPT ![a] = NoRow] /\ srv' = Forget(a)
    /\ home' = IF home = a THEN plans ELSE home
    /\ UNCHANGED <<astray, changes>>
\* Hetzner's plans pass to the first of the other accounts, the others' go.
Heir(a) == IF Rows \ {a} = {} THEN None
           ELSE CHOOSE b \in Rows \ {a} : \A c \in Rows \ {a} : b <= c
HetznerDelete(h, a)  == /\ kind = "hetzner"
                        /\ AskedToDelete(h, a) \/ Deleted(h, a, Heir(a))
GcoreDelete(h, a)    == /\ kind = "gcore"
                        /\ AskedToDelete(h, a) \/ Deleted(h, a, None)
TimewebDelete(h, a)  == /\ kind = "timeweb"
                        /\ AskedToDelete(h, a) \/ Deleted(h, a, None)
RootDelete(h, a)     == /\ kind = "rootvds"
                        /\ AskedToDelete(h, a) \/ Deleted(h, a, None)
ScalewayDelete(h, a) == /\ kind = "scaleway"
                        /\ AskedToDelete(h, a) \/ Deleted(h, a, None)
\* A lock is not had in time: the deletion is rolled back.
NotDeleted(h) == /\ form[h].pc = "deleting" /\ Failed
                 /\ form' = [form EXCEPT ![h] = Idle]
                 /\ UNCHANGED <<kind, up, check, Machines, Ghosts, acc, home, changes>>

\* A Virtualizor account goes with all its servers: machine by machine, whatever the
\* panel answers, and then the rows in one transaction.  Resellers keep their machines.
Purge(h, a) == /\ kind = "virtualizor" /\ form[h].pc = "idle" /\ a \in Handled /\ Changed
               /\ form' = [form EXCEPT ![h] = [Idle EXCEPT !.pc = "purging", !.acc = a,
                                                           !.todo = Of(a)]]
               /\ UNCHANGED <<acc, home, srv, astray>>
\* mutant: machines of resellers go too
DestroyAny(s) == [srv[s] EXCEPT !.vm = FALSE]
Destroyed(s) == IF srv[s].reseller THEN srv[s] ELSE [srv[s] EXCEPT !.vm = FALSE]
PurgeVm(h, s) ==
    /\ s \in form[h].todo
    /\ form' = [form EXCEPT ![h].todo = @ \ {s}, ![h].done = @ \cup {s}]
    /\ \/ srv' = [srv EXCEPT ![s] = Destroyed(s)] /\ UNCHANGED failures
       \/ Failed /\ UNCHANGED srv
    /\ UNCHANGED <<kind, up, check, astray, Ghosts, acc, home, changes>>
Purged(h) ==
    LET a == form[h].acc
    IN  /\ form[h].pc = "purging" /\ form[h].todo = {}
        /\ form' = [form EXCEPT ![h] = Idle]
        /\ acc' = [acc EXCEPT ![a] = NoRow] /\ home' = IF home = a THEN None ELSE home
        /\ srv' = [s \in Servers |-> IF s \in form[h].done
                                     THEN [Forget(a)[s] EXCEPT !.row = "deleted"]
                                     ELSE Forget(a)[s]]
        /\ UNCHANGED <<astray, changes>>
\* A crash, or Telegram refuses the last message: the rows stay, the machines are gone.
PurgeLost(h) ==
    /\ form[h].pc = "purging" /\ Failed /\ form' = [form EXCEPT ![h] = Idle]
    /\ astray' = [s \in Servers |-> astray[s] \/ s \in form[h].done]
    /\ UNCHANGED <<kind, up, check, srv, Ghosts, acc, home, changes>>
Delete == /\ \E h \in Admins :
               \/ \E a \in Accounts :
                     \/ HetznerDelete(h, a) \/ GcoreDelete(h, a) \/ TimewebDelete(h, a)
                     \/ RootDelete(h, a) \/ ScalewayDelete(h, a) \/ Purge(h, a)
               \/ Purged(h)
          /\ UNCHANGED <<Quiet, Ghosts>>

-----------------------------------------------------------------------------
(* Servers *)

\* pick_account: Hetzner counts its machines, the others' rows are counted, and
\* Virtualizor has no limit.
Holds(a) == CASE kind = "virtualizor" -> 0
              [] kind = "hetzner" -> Cardinality({s \in Servers : srv[s].acc = a /\ srv[s].vm})
              [] OTHER -> Cardinality(Of(a))
Buy(s) == /\ srv[s].row = "none" /\ Changed
          /\ \E a \in Handled :
               /\ acc[a].on /\ (acc[a].limit = 0 \/ Holds(a) < acc[a].limit)
               /\ srv' = [srv EXCEPT ![s] = [NoVm EXCEPT !.row = "building", !.acc = a,
                                                         !.vm = TRUE]]
          /\ UNCHANGED <<kind, acc, home, up, check, form, failures, Ghosts, astray>>
\* The row is written when the machine is there; without the account, it is refused.
Leaving(a) == \E h \in Admins : form[h].acc = a /\ form[h].pc \in {"deleting", "purging"}
Record(s) ==
    /\ srv[s].row = "building"
    /\ IF srv[s].acc \in Rows
       THEN /\ srv' = [srv EXCEPT ![s].row = "live"]
            /\ astray' = [astray EXCEPT ![s] = Leaving(srv[s].acc)]
       ELSE srv' = [srv EXCEPT ![s].row = "refused", ![s].acc = None] /\ UNCHANGED astray
    /\ UNCHANGED <<kind, acc, home, up, check, form, changes, failures, Ghosts>>
\* The synchronisation of a reseller finds a machine on the panel.
Found(s) == /\ kind = "virtualizor" /\ srv[s].row = "none" /\ Changed
            /\ \E a \in Rows :
                 /\ acc[a].on
                 /\ srv' = [srv EXCEPT ![s] = [row |-> "live", acc |-> a, vm |-> TRUE,
                                               reseller |-> TRUE]]
                 /\ astray' = [astray EXCEPT ![s] = Leaving(a)]
            /\ UNCHANGED <<kind, acc, home, up, check, form, failures, Ghosts>>
\* _delete_server: the machine goes if the account is there and on; the row always does.
Gone(s) == /\ srv[s].row = "live"
           /\ LET a == srv[s].acc
                  reached == a \in Rows /\ acc[a].on /\ ~srv[s].reseller
              IN  \/ /\ srv' = [srv EXCEPT ![s].row = "deleted",
                                           ![s].vm = @ /\ ~reached]
                     /\ UNCHANGED failures
                  \/ reached /\ Failed /\ srv' = [srv EXCEPT ![s].row = "deleted"]
           /\ UNCHANGED <<kind, acc, home, up, check, form, changes, Ghosts, astray>>

Outage(a) == /\ a \in Rows /\ Changed /\ up' = [up EXCEPT ![a] = ~@]
             /\ UNCHANGED <<kind, acc, home, Machines, check, form, failures, Ghosts>>

-----------------------------------------------------------------------------
First == CHOOSE a \in Accounts : \A b \in Accounts : a <= b
Init == /\ kind \in Kinds
        /\ acc = [a \in Accounts |-> IF a = First
                    THEN [NoRow EXCEPT !.there = TRUE, !.on = TRUE] ELSE NoRow]
        /\ home \in {None, First}
        /\ srv = [s \in Servers |-> NoVm]
        /\ up = [a \in Accounts |-> TRUE]
        /\ check = NoCheck /\ form = [h \in Admins |-> Idle]
        /\ changes = 0 /\ failures = 0
        /\ alarms = [a \in Accounts |-> 0] /\ asked = [a \in Accounts |-> 0]
        /\ crossed = [a \in Accounts |-> FALSE] /\ astray = [s \in Servers |-> FALSE]

HealthCheck == StartCheck \/ (\E a \in Accounts : Ask(a)) \/ CommitCheck
Admin == \/ Add \/ SetLimit \/ Delete \/ Import
         \/ \E a \in Accounts : Toggle(a)
         \/ \E h \in Admins : \/ Saved(h) \/ Refused(h) \/ NotDeleted(h) \/ PurgeLost(h)
                              \/ \E s \in Servers : PurgeVm(h, s)
Next == \/ HealthCheck \/ CheckLost \/ Admin
        \/ \E s \in Servers : Buy(s) \/ Record(s) \/ Found(s) \/ Gone(s)
        \/ \E a \in Accounts : Outage(a)

\* Beat starts the check every half hour, and every request to a provider ends.
Spec == Init /\ [][Next]_vars /\ WF_vars(HealthCheck)

-----------------------------------------------------------------------------
(* Properties *)

\* Between two checks, exactly the accounts marked as down have an outage that was
\* reported and not called off: nobody is told twice of one outage, and no outage stays
\* reported after the provider is back.  A limit that was set is the limit that holds.
\* Excepted are accounts whose column was written over, or whose check was lost after
\* the alert (check_providers_health).
AlarmsTellState ==
    \A a \in Rows : ~crossed[a] =>
        /\ check.pc = "idle" => alarms[a] = IF acc[a].ok THEN 0 ELSE 1
        /\ acc[a].limit = asked[a]

\* A server the customer has is on a machine and in an account that are there, even
\* though accounts and machines are deleted while servers are sold; and nothing deletes
\* a reseller's machine.  Excepted are rows that came in while their account was being
\* deleted, and rows of a deletion that failed half-way.
ServersHaveMachines ==
    \A s \in Servers :
        /\ srv[s].row = "live" /\ ~astray[s] =>
              /\ srv[s].acc \in Rows
              /\ srv[s].vm \/ \E h \in Admins : s \in form[h].done
        /\ srv[s].reseller => srv[s].vm

\* If providers and administrators leave it alone, an account ends up marked as the
\* provider is, whatever checks were lost and whatever stale columns were written.
AlarmSettles == <>[](\A a \in Rows : acc[a].on => acc[a].ok = up[a])

===============================================================================
