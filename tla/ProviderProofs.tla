---------------------------- MODULE ProviderProofs ----------------------------
(***************************************************************************)
(* What is safe about a provider's accounts and about its catalogue, for   *)
(* any accounts, servers, administrators, rows, costs and margins.         *)
(*                                                                         *)
(* Nobody locks an account's row: the health check and the handlers write  *)
(* back a column they loaded earlier, and a deletion looks for servers     *)
(* before it asks for a confirmation.  The invariant says of the check     *)
(* what its half-done work is worth for an account (Told), and of a        *)
(* deletion that the servers it has not seen are those that came in while  *)
(* it was under way (Cleared).                                             *)
(*                                                                         *)
(* The catalogue's task works on rows it loaded long before; its invariant *)
(* is about these copies (Copied) as much as about the rows (Listed).      *)
(***************************************************************************)
EXTENDS ProviderAccounts, Catalog, TLAPS

AccountType == [there : BOOLEAN, on : BOOLEAN, ok : BOOLEAN, streak : 0..2, limit : Limits]
ServerType  == [row : {"none", "building", "live", "refused", "deleted"},
                acc : Accounts \cup {None}, vm : BOOLEAN, reseller : BOOLEAN]
FormType    == [pc : {"idle", "adding", "setting", "deleting", "purging"},
                acc : Accounts \cup {None}, copy : AccountType, value : Limits,
                todo : SUBSET Servers, done : SUBSET Servers]
CheckType   == [pc : {"idle", "asking"}, todo : SUBSET Accounts,
                old : [Accounts -> AccountType], new : [Accounts -> AccountType],
                told : SUBSET Accounts]

Types ==
    /\ acc \in [Accounts -> AccountType] /\ check \in CheckType
    /\ srv \in [Servers -> ServerType] /\ form \in [Admins -> FormType]
    /\ alarms \in [Accounts -> Int] /\ asked \in [Accounts -> Limits]
    /\ crossed \in [Accounts -> BOOLEAN] /\ astray \in [Servers -> BOOLEAN]

(* An account that is marked as down counts one reported outage.           *)
Out(r) == IF r.ok THEN 0 ELSE 1

(* The check under way: an account is in its hands only if its row was     *)
(* there, it changes the verdict only of accounts it sends a message       *)
(* about, and it keeps the limit it has read.                              *)
Checking(a) ==
    /\ a \in check.todo => check.old[a].there
    /\ a \in check.todo \/ ~check.old[a].there => check.new[a] = check.old[a]
    /\ a \notin check.told => Out(check.new[a]) = Out(check.old[a])
    /\ check.new[a].limit = check.old[a].limit
    /\ check.pc = "idle" => a \notin check.told /\ ~check.old[a].there

(* The messages sent are those of the row and those of the check's verdict.*)
Told(a) ==
    acc[a].there /\ ~crossed[a] =>
      /\ alarms[a] = Out(acc[a]) + Out(check.new[a]) - Out(check.old[a])
      /\ acc[a].limit = asked[a]

(* A handler that deletes an account: the live servers in it came in       *)
(* meanwhile, or it will take them along.                                  *)
Cleared(h) ==
    /\ form[h].pc # "purging" => form[h].todo = {} /\ form[h].done = {}
    /\ form[h].pc \in {"deleting", "purging"} =>
         \A s \in Of(form[h].acc) : astray[s] \/ s \in form[h].todo \cup form[h].done
    /\ \A s \in form[h].todo \cup form[h].done : srv[s].row \in {"live", "deleted"}

(* A machine that is being built is there, and so is a live one, in its    *)
(* account, until somebody deletes it; a reseller's machine stays.         *)
Housed(s) ==
    /\ srv[s].row = "building" => srv[s].vm
    /\ srv[s].row = "live" /\ ~astray[s] =>
         /\ srv[s].acc \in Rows
         /\ srv[s].vm \/ \E h \in Admins : s \in form[h].done
    /\ srv[s].reseller => srv[s].vm

IInv == /\ Types
        /\ \A a \in Accounts : Checking(a) /\ Told(a)
        /\ \A h \in Admins : Cleared(h)
        /\ \A s \in Servers : Housed(s)

-----------------------------------------------------------------------------
(* The column that is written back.                                        *)
LEMMA SameConfig ==
  ASSUME NEW r \in AccountType, NEW c \in AccountType, Config(r) = Config(c)
  PROVE  Out(r) = Out(c) /\ r.limit = c.limit
<1>1. r.ok = c.ok /\ r.limit = c.limit
  BY DEF Config
<1>2. r.ok \in BOOLEAN /\ c.ok \in BOOLEAN
  BY DEF AccountType
<1>3. CASE r.ok
  <2>1. c.ok
    BY <1>1, <1>3
  <2>. QED BY <1>1, <1>3, <2>1 DEF Out
<1>4. CASE ~r.ok
  <2>1. ~c.ok
    BY <1>1, <1>4
  <2>. QED BY <1>1, <1>4, <2>1 DEF Out
<1>. QED BY <1>3, <1>4

LEMMA ConfigRow ==
  ASSUME NEW r \in AccountType, NEW c \in AccountType
  PROVE  /\ WithConfig(r, c) \in AccountType
         /\ WithConfig(r, c).there = r.there
         /\ Out(WithConfig(r, c)) = Out(c) /\ WithConfig(r, c).limit = c.limit
<1>1. PICK b \in BOOLEAN, i \in 0..2, l \in Limits : b = c.ok /\ i = c.streak /\ l = c.limit
  BY DEF AccountType
<1>2. PICK x : x = [r EXCEPT !.ok = b, !.streak = i, !.limit = l]
  OBVIOUS
<1>3. WithConfig(r, c) = x
  BY <1>1, <1>2 DEF WithConfig
<1>4. x \in AccountType
  BY <1>2 DEF AccountType
<1>5. x.there = r.there /\ x.limit = l /\ x.ok = b
  BY <1>2 DEF AccountType
<1>6. Out(x) = Out(c)
  <2>1. CASE c.ok
    <3>1. x.ok
      BY <1>1, <1>5, <2>1
    <3>. QED BY <2>1, <3>1 DEF Out
  <2>2. CASE ~c.ok
    <3>1. ~x.ok
      BY <1>1, <1>5, <2>2
    <3>. QED BY <2>2, <3>1 DEF Out
  <2>. QED BY <2>1, <2>2
<1>. QED BY <1>1, <1>3, <1>4, <1>5, <1>6

LEMMA OutIs == ASSUME NEW r PROVE Out(r) \in {0, 1}
BY DEF Out

(* A verdict changes no limit, and a message goes out for it exactly when  *)
(* it raises or takes back the mark.                                       *)
LEMMA AlertTellsVerdict ==
  ASSUME NEW c \in AccountType, NEW answers \in BOOLEAN
  PROVE  /\ Verdict(c, answers) \in AccountType
         /\ Verdict(c, answers).limit = c.limit
         /\ Alert(c, answers) = Out(Verdict(c, answers)) - Out(c)
<1>1. CASE answers
  <2>1. Verdict(c, answers) = [c EXCEPT !.ok = TRUE, !.streak = 0]
    BY <1>1 DEF Verdict
  <2>2. [c EXCEPT !.ok = TRUE, !.streak = 0] \in AccountType
    <3>1. 0 \in 0..2
      OBVIOUS
    <3>. QED BY <3>1 DEF AccountType
  <2>3. [c EXCEPT !.ok = TRUE, !.streak = 0].ok
        /\ [c EXCEPT !.ok = TRUE, !.streak = 0].limit = c.limit
    BY DEF AccountType
  <2>4. Out([c EXCEPT !.ok = TRUE, !.streak = 0]) = 0
    BY <2>3 DEF Out
  <2>5. Alert(c, answers) = 0 - Out(c)
    BY <1>1 DEF Alert, Out
  <2>. QED BY <2>1, <2>2, <2>3, <2>4, <2>5
<1>2. CASE ~answers /\ c.streak = 0
  <2>1. Verdict(c, answers) = [c EXCEPT !.streak = 1]
    BY <1>2 DEF Verdict
  <2>2. [c EXCEPT !.streak = 1] \in AccountType
    BY DEF AccountType
  <2>3. [c EXCEPT !.streak = 1].ok = c.ok /\ [c EXCEPT !.streak = 1].limit = c.limit
    BY DEF AccountType
  <2>4. Out([c EXCEPT !.streak = 1]) = Out(c)
    BY <2>3 DEF Out
  <2>5. Alert(c, answers) = 0
    BY <1>2 DEF Alert
  <2>6. Out(c) - Out(c) = 0
    BY OutIs
  <2>. QED BY <2>1, <2>2, <2>3, <2>4, <2>5, <2>6
<1>3. CASE ~answers /\ c.streak # 0
  <2>1. Verdict(c, answers) = [c EXCEPT !.streak = 2, !.ok = FALSE]
    BY <1>3 DEF Verdict
  <2>2. [c EXCEPT !.streak = 2, !.ok = FALSE] \in AccountType
    <3>1. 2 \in 0..2
      OBVIOUS
    <3>. QED BY <3>1 DEF AccountType
  <2>3. ~[c EXCEPT !.streak = 2, !.ok = FALSE].ok
        /\ [c EXCEPT !.streak = 2, !.ok = FALSE].limit = c.limit
    BY DEF AccountType
  <2>4. Out([c EXCEPT !.streak = 2, !.ok = FALSE]) = 1
    BY <2>3 DEF Out
  <2>5. c.streak > 0
    BY <1>3 DEF AccountType
  <2>6. Alert(c, answers) = 1 - Out(c)
    BY <1>3, <2>5 DEF Alert, Out
  <2>. QED BY <2>1, <2>2, <2>3, <2>4, <2>6
<1>. QED BY <1>1, <1>2, <1>3

LEMMA NoRowIs == NoRow \in AccountType /\ ~NoRow.there /\ NoRow.limit = 0 /\ Out(NoRow) = 0
<1>1. NoRow \in AccountType
  BY AccountsAssumption DEF NoRow, AccountType
<1>. QED BY <1>1 DEF NoRow, Out

LEMMA IdleForm == /\ Idle \in FormType /\ Idle.pc = "idle" /\ Idle.acc = None
                  /\ Idle.todo = {} /\ Idle.done = {}
BY NoRowIs, AccountsAssumption DEF Idle, FormType

-----------------------------------------------------------------------------
(* Two ways in which a step leaves the alarms alone, and two in which it   *)
(* leaves the servers alone.                                               *)
LEMMA AlarmsStay ==
  ASSUME IInv, UNCHANGED <<check, alarms, asked, crossed>>,
         \A a \in Accounts : acc'[a].there =>
             acc[a].there /\ Out(acc'[a]) = Out(acc[a]) /\ acc'[a].limit = acc[a].limit
  PROVE  \A a \in Accounts : Checking(a)' /\ Told(a)'
<1>. SUFFICES ASSUME NEW a \in Accounts PROVE Checking(a)' /\ Told(a)'
  OBVIOUS
<1>1. Checking(a) /\ Told(a)
  BY DEF IInv
<1>. QED BY <1>1 DEF Checking, Told, Out

LEMMA FormMoves ==
  ASSUME IInv, NEW h \in Admins, NEW x \in FormType, form[h].pc # "purging",
         form' = [form EXCEPT ![h] = x], UNCHANGED <<srv, astray>>,
         \A a \in Accounts : acc[a].there => acc'[a].there,
         x.pc # "purging" => x.todo = {} /\ x.done = {},
         x.pc \in {"deleting", "purging"} =>
            \A s \in Of(x.acc) : astray[s] \/ s \in x.todo \cup x.done,
         \A s \in x.todo \cup x.done : srv[s].row \in {"live", "deleted"}
  PROVE  /\ \A g \in Admins : Cleared(g)'
         /\ \A s \in Servers : Housed(s)'
<1>1. \A g \in Admins : form'[g] = IF g = h THEN x ELSE form[g]
  BY DEF IInv, Types
<1>2. ASSUME NEW g \in Admins
      PROVE  Cleared(g)'
  <2>1. Cleared(g)
    BY DEF IInv
  <2>. QED BY <1>1, <2>1 DEF Cleared, Of
<1>3. ASSUME NEW s \in Servers
      PROVE  Housed(s)'
  <2>1. Housed(s)
    BY DEF IInv
  <2>2. \A g \in Admins : s \in form[g].done => s \in form'[g].done
    BY <1>1 DEF IInv, Cleared
  <2>3. Rows \subseteq Rows'
    BY DEF Rows
  <2>. QED BY <2>1, <2>2, <2>3 DEF Housed
<1>. QED BY <1>2, <1>3

LEMMA ServersStay ==
  ASSUME IInv, UNCHANGED <<srv, form, astray>>,
         \A a \in Accounts : acc[a].there => acc'[a].there
  PROVE  /\ \A g \in Admins : Cleared(g)'
         /\ \A s \in Servers : Housed(s)'
<1>1. ASSUME NEW g \in Admins
      PROVE  Cleared(g)'
  BY DEF IInv, Cleared, Of
<1>2. ASSUME NEW s \in Servers
      PROVE  Housed(s)'
  <2>1. Rows \subseteq Rows' /\ Housed(s)
    BY DEF Rows, IInv
  <2>. QED BY <2>1 DEF Housed
<1>. QED BY <1>1, <1>2

-----------------------------------------------------------------------------
(* The health check.                                                       *)
LEMMA CheckTypes ==
  ASSUME IInv
  PROVE  /\ check.pc \in {"idle", "asking"} /\ check.todo \subseteq Accounts
         /\ check.told \subseteq Accounts
         /\ check.old \in [Accounts -> AccountType] /\ check.new \in [Accounts -> AccountType]
         /\ acc \in [Accounts -> AccountType]
         /\ \A a \in Accounts : /\ acc[a] \in AccountType /\ check.old[a] \in AccountType
                                /\ check.new[a] \in AccountType
BY DEF IInv, Types, CheckType

LEMMA StartCheckKeeps ==
  ASSUME IInv, StartCheck
  PROVE  IInv'
<1>1. UNCHANGED <<acc, alarms, asked, crossed, srv, form, astray>>
  BY DEF StartCheck, Machines, Ghosts
<1>2. PICK todo : /\ todo = {a \in Rows : Checked(a)}
                  /\ check' = [pc |-> "asking", todo |-> todo, old |-> acc, new |-> acc,
                               told |-> {}]
  BY DEF StartCheck
<1>3. todo \subseteq Accounts /\ \A a \in todo : acc[a].there
  BY <1>2 DEF Rows
<1>4. Types'
  <2>1. check' \in CheckType
    BY <1>2, <1>3 DEF CheckType, IInv, Types
  <2>. QED BY <1>1, <2>1 DEF IInv, Types
<1>5. ASSUME NEW a \in Accounts
      PROVE  Checking(a)' /\ Told(a)'
  <2>1. /\ check'.pc = "asking" /\ check'.old[a] = acc[a] /\ check'.new[a] = acc[a]
        /\ check'.told = {} /\ (a \in check'.todo => acc[a].there)
    BY <1>2, <1>3
  <2>2. Checking(a)'
    BY <2>1 DEF Checking, Out
  <2>3. Told(a)'
    <3>1. Told(a) /\ Checking(a) /\ check.pc = "idle"
      BY DEF IInv, StartCheck
    <3>2. Out(check.new[a]) = Out(check.old[a])
      BY <3>1 DEF Checking
    <3>3. acc[a].there /\ ~crossed[a] => alarms[a] = Out(acc[a])
      BY <3>1, <3>2, OutIs DEF Told
    <3>. QED BY <1>1, <2>1, <3>1, <3>3, OutIs DEF Told, Out
  <2>. QED BY <2>2, <2>3
<1>6. /\ \A g \in Admins : Cleared(g)'
      /\ \A s \in Servers : Housed(s)'
  BY <1>1, ServersStay
<1>. QED BY <1>4, <1>5, <1>6 DEF IInv

LEMMA AskKeeps ==
  ASSUME IInv, NEW a \in Accounts, Ask(a)
  PROVE  IInv'
<1>1. PICK answers \in BOOLEAN :
         LET c == check.old[a]  alert == Alert(c, answers)
         IN  /\ alarms' = [alarms EXCEPT ![a] = @ + alert]
             /\ check' = [check EXCEPT !.todo = @ \ {a}, !.new[a] = Verdict(c, answers),
                                       !.told = IF alert = 0 THEN @ ELSE @ \cup {a}]
  BY DEF Ask
<1>2. UNCHANGED <<acc, asked, crossed, srv, form, astray>> /\ a \in check.todo
  BY DEF Ask, Machines
<1>3. PICK c \in AccountType : c = check.old[a]
  BY CheckTypes
<1>4. PICK v : v = Verdict(c, answers)
  OBVIOUS
<1>5. v \in AccountType /\ v.limit = c.limit /\ Alert(c, answers) = Out(v) - Out(c)
  BY <1>4, AlertTellsVerdict
<1>6. PICK n : n = [check.new EXCEPT ![a] = v]
  OBVIOUS
<1>7. PICK todo : todo = check.todo \ {a}
  OBVIOUS
<1>8. PICK told : told = IF Alert(c, answers) = 0 THEN check.told ELSE check.told \cup {a}
  OBVIOUS
<1>9. check' = [check EXCEPT !.todo = todo, !.new = n, !.told = told]
  BY <1>1, <1>3, <1>4, <1>6, <1>7, <1>8
<1>10. n \in [Accounts -> AccountType] /\ todo \subseteq Accounts /\ told \subseteq Accounts
  BY <1>5, <1>6, <1>7, <1>8, CheckTypes
<1>11. /\ check' \in CheckType
       /\ check'.todo = todo /\ check'.new = n /\ check'.told = told
       /\ check'.old = check.old /\ check'.pc = check.pc
  BY <1>9, <1>10 DEF CheckType, IInv, Types
<1>12. alarms' = [alarms EXCEPT ![a] = @ + (Out(v) - Out(c))]
  BY <1>1, <1>3, <1>5
<1>13. Out(v) \in {0, 1} /\ Out(c) \in {0, 1}
  BY OutIs
<1>14. Types'
  <2>1. alarms' \in [Accounts -> Int]
    BY <1>12, <1>13 DEF IInv, Types
  <2>. QED BY <1>2, <1>11, <2>1 DEF IInv, Types
<1>15. ASSUME NEW b \in Accounts
       PROVE  Checking(b)' /\ Told(b)'
  <2>1. Checking(b) /\ Told(b)
    BY DEF IInv
  <2>2. CASE b = a
    <3>1. check.new[a] = check.old[a]
      BY <1>2, <2>1, <2>2 DEF Checking
    <3>2. n[a] = v /\ a \notin todo /\ check.old[a].there
      BY <1>2, <1>6, <1>7, <2>1, <2>2, CheckTypes DEF Checking
    <3>3. a \notin told => Out(v) = Out(c)
      BY <1>5, <1>8, <1>13
    <3>4. check.pc # "idle"
      BY <1>2, <2>1, <2>2 DEF Checking
    <3>5. Checking(b)'
      BY <1>3, <1>5, <1>11, <2>2, <3>2, <3>3, <3>4 DEF Checking, Out
    <3>6. alarms'[a] = alarms[a] + (Out(v) - Out(c))
      BY <1>12 DEF IInv, Types
    <3>7. Told(b)'
      <4>1. Out(check.new[a]) = Out(c) /\ Out(check.old[a]) = Out(c)
        BY <1>3, <3>1
      <4>2. acc[a].there /\ ~crossed[a] => alarms[a] = Out(acc[a])
        BY <2>1, <2>2, <4>1, OutIs DEF Told
      <4>3. Out(acc[a]) \in {0, 1}
        BY OutIs
      <4>4. acc[a].there /\ ~crossed[a] => alarms'[a] = Out(acc[a]) + Out(v) - Out(c)
        BY <1>13, <3>6, <4>2, <4>3
      <4>5. /\ Out(acc'[a]) = Out(acc[a]) /\ Out(check'.new[a]) = Out(v)
            /\ Out(check'.old[a]) = Out(c)
        BY <1>2, <1>3, <1>11, <3>2
      <4>. QED BY <1>2, <2>1, <2>2, <4>4, <4>5 DEF Told, Out
    <3>. QED BY <3>5, <3>7
  <2>3. CASE b # a
    <3>1. n[b] = check.new[b] /\ (b \in todo <=> b \in check.todo)
          /\ (b \in told <=> b \in check.told) /\ alarms'[b] = alarms[b]
      BY <1>6, <1>7, <1>8, <1>12, <2>3, CheckTypes DEF IInv, Types
    <3>. QED BY <1>2, <1>11, <2>1, <3>1 DEF Checking, Told, Out
  <2>. QED BY <2>2, <2>3
<1>16. /\ \A g \in Admins : Cleared(g)'
       /\ \A s \in Servers : Housed(s)'
  BY <1>2, ServersStay
<1>. QED BY <1>14, <1>15, <1>16 DEF IInv

(* A check that ends leaves alarms that tell the rows, if the marks are    *)
(* those the check has made, or are the old ones and it made none.         *)
LEMMA CheckEnds ==
  ASSUME IInv, check' = NoCheck, UNCHANGED <<alarms, asked, srv, form, astray>>,
         acc' \in [Accounts -> AccountType], crossed' \in [Accounts -> BOOLEAN],
         \A a \in Accounts : acc'[a].there <=> acc[a].there,
         \A a \in Accounts : ~crossed'[a] =>
            /\ ~crossed[a] /\ acc'[a].limit = acc[a].limit
            /\ \/ Out(acc'[a]) = Out(check.new[a]) /\ Out(acc[a]) = Out(check.old[a])
               \/ Out(acc'[a]) = Out(acc[a]) /\ Out(check.new[a]) = Out(check.old[a])
  PROVE  IInv'
<1>1. /\ check' \in CheckType
      /\ check'.pc = "idle" /\ check'.todo = {} /\ check'.told = {}
      /\ \A a \in Accounts : check'.old[a] = NoRow /\ check'.new[a] = NoRow
  BY NoRowIs DEF NoCheck, CheckType
<1>2. Types'
  BY <1>1 DEF IInv, Types
<1>3. ASSUME NEW a \in Accounts
      PROVE  Checking(a)' /\ Told(a)'
  <2>1. Checking(a)'
    BY <1>1, NoRowIs DEF Checking
  <2>2. Told(a)
    BY DEF IInv
  <2>3. alarms[a] \in Int /\ alarms'[a] = alarms[a]
    BY DEF IInv, Types
  <2>4. Out(acc'[a]) \in {0, 1} /\ Out(acc[a]) \in {0, 1} /\ Out(check.new[a]) \in {0, 1}
        /\ Out(check.old[a]) \in {0, 1}
    BY OutIs
  <2>5. acc'[a].there /\ ~crossed'[a] => alarms'[a] = Out(acc'[a])
    BY <2>2, <2>3, <2>4 DEF Told
  <2>6. acc'[a].there /\ ~crossed'[a] => acc'[a].limit = asked'[a]
    BY <2>2 DEF Told
  <2>7. Out(check'.new[a]) = 0 /\ Out(check'.old[a]) = 0
    BY <1>1, NoRowIs
  <2>8. Told(a)'
    BY <2>4, <2>5, <2>6, <2>7 DEF Told, Out
  <2>. QED BY <2>1, <2>8
<1>4. /\ \A g \in Admins : Cleared(g)'
      /\ \A s \in Servers : Housed(s)'
  BY ServersStay
<1>. QED BY <1>2, <1>3, <1>4 DEF IInv

LEMMA CheckLostKeeps ==
  ASSUME IInv, CheckLost
  PROVE  IInv'
<1>1. /\ check' = NoCheck /\ UNCHANGED <<acc, alarms, asked, srv, form, astray>>
      /\ crossed' = [a \in Accounts |-> crossed[a] \/ a \in check.told]
  BY DEF CheckLost, Machines
<1>2. crossed' \in [Accounts -> BOOLEAN]
  BY <1>1
<1>3. ASSUME NEW a \in Accounts, ~crossed'[a]
      PROVE  ~crossed[a] /\ a \notin check.told
  BY <1>1, <1>3
<1>4. ASSUME NEW a \in Accounts, ~crossed'[a]
      PROVE  ~crossed[a] /\ Out(check.new[a]) = Out(check.old[a])
  BY <1>3, <1>4 DEF IInv, Checking
<1>5. acc' \in [Accounts -> AccountType]
  BY <1>1, CheckTypes
<1>. QED BY <1>1, <1>2, <1>4, <1>5, CheckEnds

LEMMA CommitCheckKeeps ==
  ASSUME IInv, CommitCheck
  PROVE  IInv'
<1>1. /\ check' = NoCheck /\ UNCHANGED <<alarms, asked, srv, form, astray>>
  BY DEF CommitCheck, Machines
<1>2. CASE Written \subseteq Rows
  <2>1. acc' = [a \in Accounts |-> IF a \in Written THEN WithConfig(acc[a], check.new[a])
                                                    ELSE acc[a]]
    BY <1>2 DEF CommitCheck
  <2>2. crossed' = [a \in Accounts |->
                      \/ crossed[a]
                      \/ a \in Written /\ Config(acc[a]) # Config(check.old[a])]
    BY <1>2 DEF CommitCheck
  <2>3. crossed' \in [Accounts -> BOOLEAN]
    BY <2>2
  <2>4. ASSUME NEW a \in Accounts
        PROVE  /\ WithConfig(acc[a], check.new[a]) \in AccountType
               /\ WithConfig(acc[a], check.new[a]).there = acc[a].there
               /\ Out(WithConfig(acc[a], check.new[a])) = Out(check.new[a])
               /\ WithConfig(acc[a], check.new[a]).limit = check.new[a].limit
    BY CheckTypes, ConfigRow
  <2>5. acc' \in [Accounts -> AccountType]
    BY <2>1, <2>4, CheckTypes
  <2>6. ASSUME NEW a \in Accounts
        PROVE  acc'[a].there = acc[a].there
    BY <2>1, <2>4
  <2>7. ASSUME NEW a \in Accounts, ~crossed'[a]
        PROVE  /\ ~crossed[a] /\ acc'[a].limit = acc[a].limit
               /\ \/ Out(acc'[a]) = Out(check.new[a]) /\ Out(acc[a]) = Out(check.old[a])
                  \/ Out(acc'[a]) = Out(acc[a]) /\ Out(check.new[a]) = Out(check.old[a])
    <3>1. ~crossed[a] /\ (a \in Written => Config(acc[a]) = Config(check.old[a]))
      BY <2>2, <2>7
    <3>2. CASE a \in Written
      <4>1. Config(acc[a]) = Config(check.old[a])
        BY <3>1, <3>2
      <4>2. Out(acc[a]) = Out(check.old[a]) /\ acc[a].limit = check.old[a].limit
        BY <4>1, SameConfig, CheckTypes
      <4>3. check.new[a].limit = check.old[a].limit
        BY DEF IInv, Checking
      <4>4. Out(acc'[a]) = Out(check.new[a]) /\ acc'[a].limit = check.new[a].limit
        BY <2>1, <2>4, <3>2
      <4>. QED BY <3>1, <4>2, <4>3, <4>4
    <3>3. CASE a \notin Written
      <4>1. Config(check.new[a]) = Config(check.old[a])
        BY <3>3 DEF Written
      <4>2. Out(check.new[a]) = Out(check.old[a])
        BY <4>1, SameConfig, CheckTypes
      <4>3. acc'[a] = acc[a]
        BY <2>1, <3>3
      <4>. QED BY <3>1, <4>2, <4>3
    <3>. QED BY <3>2, <3>3
  <2>. QED BY <1>1, <2>3, <2>5, <2>6, <2>7, CheckEnds
<1>3. CASE ~(Written \subseteq Rows)
  <2>1. /\ UNCHANGED acc
        /\ crossed' = [a \in Accounts |-> crossed[a] \/ a \in check.told]
    BY <1>3 DEF CommitCheck
  <2>2. crossed' \in [Accounts -> BOOLEAN] /\ acc' \in [Accounts -> AccountType]
    BY <2>1, CheckTypes
  <2>3. ASSUME NEW a \in Accounts, ~crossed'[a]
        PROVE  ~crossed[a] /\ a \notin check.told
    BY <2>1, <2>3
  <2>4. ASSUME NEW a \in Accounts, ~crossed'[a]
        PROVE  ~crossed[a] /\ Out(check.new[a]) = Out(check.old[a])
    BY <2>3, <2>4 DEF IInv, Checking
  <2>. QED BY <1>1, <2>1, <2>2, <2>4, CheckEnds
<1>. QED BY <1>2, <1>3

-----------------------------------------------------------------------------
(* New accounts and settings.                                              *)
LEMMA NewAccount == /\ [NoRow EXCEPT !.there = TRUE, !.on = TRUE] \in AccountType
                    /\ [NoRow EXCEPT !.there = TRUE, !.on = TRUE].limit = 0
                    /\ Out([NoRow EXCEPT !.there = TRUE, !.on = TRUE]) = 0
<1>1. PICK b \in BOOLEAN : b = TRUE
  OBVIOUS
<1>2. PICK r \in AccountType : r = NoRow
  BY NoRowIs
<1>3. PICK x : x = [r EXCEPT !.there = b, !.on = b]
  OBVIOUS
<1>4. x \in AccountType /\ x.limit = r.limit /\ x.ok = r.ok
  BY <1>3 DEF AccountType
<1>5. x = [NoRow EXCEPT !.there = TRUE, !.on = TRUE]
  BY <1>1, <1>2, <1>3
<1>6. r.ok /\ r.limit = 0
  BY <1>2 DEF NoRow
<1>7. Out(x) = 0
  BY <1>4, <1>6 DEF Out
<1>. QED BY <1>4, <1>5, <1>6, <1>7

(* A new row has a key the check does not know, so its verdict does not    *)
(* count.                                                                  *)
LEMMA InsertKeepsAlarms ==
  ASSUME IInv, Insert, UNCHANGED check
  PROVE  /\ acc' \in [Accounts -> AccountType] /\ alarms' \in [Accounts -> Int]
         /\ asked' \in [Accounts -> Limits] /\ crossed' \in [Accounts -> BOOLEAN]
         /\ \A a \in Accounts : acc[a].there => acc'[a].there
         /\ \A a \in Accounts : Checking(a)' /\ Told(a)'
<1>1. PICK a \in Fresh : NewRow(a)
  BY DEF Insert
<1>2. a \in Accounts /\ ~acc[a].there /\ ~check.old[a].there
  BY DEF Fresh, Rows
<1>3. PICK x \in AccountType : x = [NoRow EXCEPT !.there = TRUE, !.on = TRUE]
  BY NewAccount
<1>4. x.limit = 0 /\ Out(x) = 0
  BY <1>3, NewAccount
<1>5. acc' = [acc EXCEPT ![a] = x]
  BY <1>1, <1>3 DEF NewRow
<1>6. acc' \in [Accounts -> AccountType]
  BY <1>5, CheckTypes
<1>7. alarms' = [alarms EXCEPT ![a] = 0] /\ asked' = [asked EXCEPT ![a] = 0]
      /\ crossed' = [crossed EXCEPT ![a] = FALSE]
  BY <1>1 DEF NewRow
<1>8. alarms' \in [Accounts -> Int] /\ asked' \in [Accounts -> Limits]
  <2>1. alarms \in [Accounts -> Int] /\ asked \in [Accounts -> Limits] /\ 0 \in Limits
    BY AccountsAssumption DEF IInv, Types
  <2>2. alarms' = [alarms EXCEPT ![a] = 0] /\ asked' = [asked EXCEPT ![a] = 0]
    BY <1>7, Zenon
  <2>3. alarms' \in [Accounts -> Int]
    <3>1. PICK z \in Int : z = 0
      OBVIOUS
    <3>. QED BY <2>1, <2>2, <3>1
  <2>4. \A b \in Accounts : asked'[b] \in Limits
    BY <2>1, <2>2
  <2>5. asked' \in [Accounts -> Limits]
    BY <2>1, <2>2, <2>4
  <2>. QED BY <2>3, <2>5
<1>9. crossed' \in [Accounts -> BOOLEAN]
  BY <1>7 DEF IInv, Types
<1>10. ASSUME NEW b \in Accounts, acc[b].there
       PROVE  acc'[b].there
  BY <1>2, <1>5, <1>10, CheckTypes
<1>11. ASSUME NEW b \in Accounts
       PROVE  Checking(b)' /\ Told(b)'
  <2>1. Checking(b) /\ Told(b)
    BY DEF IInv
  <2>2. Checking(b)'
    BY <2>1 DEF Checking, Out
  <2>3. CASE b = a
    <3>1. check.new[a] = check.old[a]
      BY <1>2, <2>1, <2>3 DEF Checking
    <3>2. acc'[a] = x /\ alarms'[a] = 0 /\ asked'[a] = 0
      BY <1>2, <1>5, <1>7, CheckTypes DEF IInv, Types
    <3>3. Out(acc'[a]) = 0 /\ acc'[a].limit = 0
          /\ Out(check'.new[a]) - Out(check'.old[a]) = 0
      BY <1>4, <3>1, <3>2, OutIs
    <3>4. Out(check'.new[a]) \in {0, 1} /\ Out(check'.old[a]) \in {0, 1}
      BY OutIs
    <3>5. alarms'[a] = Out(acc'[a]) + Out(check'.new[a]) - Out(check'.old[a])
      BY <3>2, <3>3, <3>4
    <3>6. Told(b)'
      BY <2>3, <3>2, <3>3, <3>5 DEF Told, Out
    <3>. QED BY <2>2, <3>6
  <2>4. CASE b # a
    <3>1. acc'[b] = acc[b] /\ alarms'[b] = alarms[b] /\ asked'[b] = asked[b]
      BY <1>5, <1>7, <2>4, CheckTypes DEF IInv, Types
    <3>2. crossed'[b] = crossed[b]
      BY <1>7, <2>4 DEF IInv, Types
    <3>. QED BY <2>1, <2>2, <3>1, <3>2 DEF Told, Out
  <2>. QED BY <2>3, <2>4
<1>. QED BY <1>6, <1>8, <1>9, <1>10, <1>11

(* A form that turns to something harmless.                                *)
LEMMA FormTurns ==
  ASSUME IInv, NEW h \in Admins, NEW x \in FormType, form[h].pc # "purging",
         form' = [form EXCEPT ![h] = x], UNCHANGED <<srv, astray>>,
         \A a \in Accounts : acc[a].there => acc'[a].there,
         x.pc \in {"idle", "adding", "setting"}, x.todo = {}, x.done = {}
  PROVE  /\ form' \in [Admins -> FormType]
         /\ \A g \in Admins : Cleared(g)'
         /\ \A s \in Servers : Housed(s)'
<1>1. form' \in [Admins -> FormType]
  BY DEF IInv, Types
<1>. QED BY <1>1, FormMoves

LEMMA AddKeeps ==
  ASSUME IInv, Add
  PROVE  IInv'
<1>1. UNCHANGED <<check, srv, astray>>
  BY DEF Add, Quiet, Machines
<1>2. ASSUME Insert, UNCHANGED form
      PROVE  IInv'
  <2>1. /\ acc' \in [Accounts -> AccountType] /\ alarms' \in [Accounts -> Int]
        /\ asked' \in [Accounts -> Limits] /\ crossed' \in [Accounts -> BOOLEAN]
        /\ \A a \in Accounts : acc[a].there => acc'[a].there
        /\ \A a \in Accounts : Checking(a)' /\ Told(a)'
    BY <1>1, <1>2, InsertKeepsAlarms
  <2>2. Types'
    BY <1>1, <1>2, <2>1 DEF IInv, Types
  <2>3. /\ \A g \in Admins : Cleared(g)'
        /\ \A s \in Servers : Housed(s)'
    BY <1>1, <1>2, <2>1, ServersStay
  <2>. QED BY <2>1, <2>2, <2>3 DEF IInv
<1>3. ASSUME NEW h \in Admins, AskedToAdd(h)
      PROVE  IInv'
  <2>1. PICK x : x = [Idle EXCEPT !.pc = "adding"]
    OBVIOUS
  <2>2. x \in FormType /\ x.pc = "adding" /\ x.todo = {} /\ x.done = {}
    BY <2>1, IdleForm DEF FormType
  <2>3. form' = [form EXCEPT ![h] = x] /\ form[h].pc # "purging"
        /\ UNCHANGED <<acc, alarms, asked, crossed>>
    BY <1>3, <2>1 DEF AskedToAdd, Ghosts
  <2>4. /\ form' \in [Admins -> FormType]
        /\ \A g \in Admins : Cleared(g)'
        /\ \A s \in Servers : Housed(s)'
    BY <1>1, <2>2, <2>3, FormTurns
  <2>5. \A a \in Accounts : Checking(a)' /\ Told(a)'
    BY <1>1, <2>3, AlarmsStay
  <2>6. Types'
    BY <1>1, <2>3, <2>4 DEF IInv, Types
  <2>. QED BY <2>4, <2>5, <2>6 DEF IInv
<1>4. ASSUME NEW h \in Admins, Added(h)
      PROVE  IInv'
  <2>1. /\ acc' \in [Accounts -> AccountType] /\ alarms' \in [Accounts -> Int]
        /\ asked' \in [Accounts -> Limits] /\ crossed' \in [Accounts -> BOOLEAN]
        /\ \A a \in Accounts : acc[a].there => acc'[a].there
        /\ \A a \in Accounts : Checking(a)' /\ Told(a)'
    BY <1>1, <1>4, InsertKeepsAlarms DEF Added
  <2>2. form' = [form EXCEPT ![h] = Idle] /\ form[h].pc # "purging"
    BY <1>4 DEF Added
  <2>3. /\ form' \in [Admins -> FormType]
        /\ \A g \in Admins : Cleared(g)'
        /\ \A s \in Servers : Housed(s)'
    BY <1>1, <2>1, <2>2, FormTurns, IdleForm
  <2>4. Types'
    BY <1>1, <2>1, <2>3 DEF IInv, Types
  <2>. QED BY <2>1, <2>3, <2>4 DEF IInv
<1>. QED BY <1>2, <1>3, <1>4
  DEF Add, HetznerAdd, VirtualizorAdd, GcoreAdd, TimewebAdd, RootAdd, ScalewayAdd

(* A step that only turns a form to something harmless.                    *)
LEMMA OnlyFormTurns ==
  ASSUME IInv, NEW h \in Admins, NEW x \in FormType, form[h].pc # "purging",
         form' = [form EXCEPT ![h] = x],
         UNCHANGED <<acc, check, srv, astray, alarms, asked, crossed>>,
         x.pc \in {"idle", "adding", "setting"}, x.todo = {}, x.done = {}
  PROVE  IInv'
<1>1. /\ form' \in [Admins -> FormType]
      /\ \A g \in Admins : Cleared(g)'
      /\ \A s \in Servers : Housed(s)'
  BY FormTurns
<1>2. \A a \in Accounts : Checking(a)' /\ Told(a)'
  BY AlarmsStay
<1>3. Types'
  BY <1>1 DEF IInv, Types
<1>. QED BY <1>1, <1>2, <1>3 DEF IInv

LEMMA HandledIs == Handled \subseteq Rows /\ Rows \subseteq Accounts
BY DEF Handled, Rows

LEMMA LoadKeeps ==
  ASSUME IInv, NEW h \in Admins, NEW a \in Accounts, NEW v \in Limits, Load(h, a, v),
         UNCHANGED <<acc, check, srv, astray, alarms, asked, crossed>>
  PROVE  IInv'
<1>1. PICK r \in AccountType : r = acc[a]
  BY CheckTypes
<1>2. PICK x : x = [Idle EXCEPT !.pc = "setting", !.acc = a, !.copy = r, !.value = v]
  OBVIOUS
<1>3. x \in FormType /\ x.pc = "setting" /\ x.todo = {} /\ x.done = {}
  BY <1>2, IdleForm DEF FormType
<1>4. form' = [form EXCEPT ![h] = x] /\ form[h].pc # "purging"
  BY <1>1, <1>2 DEF Load
<1>. QED BY <1>3, <1>4, OnlyFormTurns

LEMMA SetLimitKeeps ==
  ASSUME IInv, SetLimit
  PROVE  IInv'
<1>1. UNCHANGED <<acc, check, srv, astray, alarms, asked, crossed>>
  BY DEF SetLimit, Quiet, Machines, Ghosts
<1>2. PICK h \in Admins, a \in Accounts, v \in Limits : Load(h, a, v)
  BY DEF SetLimit, HetznerLimit, GcoreLimit, TimewebLimit, RootLimit, ScalewayLimit,
         VirtualizorFee, GcoreProject, ScalewayProject
<1>. QED BY <1>1, <1>2, LoadKeeps

LEMMA RefusedKeeps ==
  ASSUME IInv, NEW h \in Admins, Refused(h)
  PROVE  IInv'
<1>1. UNCHANGED <<acc, check, srv, astray, alarms, asked, crossed>>
      /\ form' = [form EXCEPT ![h] = Idle] /\ form[h].pc # "purging"
  BY DEF Refused, Machines, Ghosts
<1>. QED BY <1>1, IdleForm, OnlyFormTurns

LEMMA NotDeletedKeeps ==
  ASSUME IInv, NEW h \in Admins, NotDeleted(h)
  PROVE  IInv'
<1>1. UNCHANGED <<acc, check, srv, astray, alarms, asked, crossed>>
      /\ form' = [form EXCEPT ![h] = Idle] /\ form[h].pc # "purging"
  BY DEF NotDeleted, Machines, Ghosts
<1>. QED BY <1>1, IdleForm, OnlyFormTurns

LEMMA ToggleKeeps ==
  ASSUME IInv, NEW a \in Accounts, Toggle(a)
  PROVE  IInv'
<1>1. UNCHANGED <<check, srv, astray, form, alarms, asked, crossed>>
  BY DEF Toggle, Quiet, Machines, Ghosts
<1>2. PICK b \in BOOLEAN : b = ~acc[a].on
  OBVIOUS
<1>3. PICK r \in AccountType : r = acc[a]
  BY CheckTypes
<1>4. PICK x : x = [r EXCEPT !.on = b]
  OBVIOUS
<1>5. x \in AccountType /\ x.there = r.there /\ x.ok = r.ok /\ x.limit = r.limit
  BY <1>4 DEF AccountType
<1>6. acc' = [acc EXCEPT ![a] = x]
  BY <1>2, <1>3, <1>4 DEF Toggle
<1>7. acc' \in [Accounts -> AccountType]
      /\ \A c \in Accounts : acc'[c] = IF c = a THEN x ELSE acc[c]
  BY <1>5, <1>6, CheckTypes
<1>8. Out(x) = Out(r)
  BY <1>5 DEF Out
<1>9. \A c \in Accounts : acc[c].there => acc'[c].there
  BY <1>3, <1>5, <1>7
<1>10. ASSUME NEW c \in Accounts, acc'[c].there
       PROVE  acc[c].there /\ Out(acc'[c]) = Out(acc[c]) /\ acc'[c].limit = acc[c].limit
  BY <1>3, <1>5, <1>7, <1>8, <1>10
<1>11. \A c \in Accounts : Checking(c)' /\ Told(c)'
  BY <1>1, <1>10, AlarmsStay
<1>12. /\ \A g \in Admins : Cleared(g)'
       /\ \A s \in Servers : Housed(s)'
  BY <1>1, <1>9, ServersStay
<1>13. Types'
  BY <1>1, <1>7 DEF IInv, Types
<1>. QED BY <1>11, <1>12, <1>13 DEF IInv

(* The steps that change nothing the invariant is about.                   *)
LEMMA StutterKeeps ==
  ASSUME IInv, UNCHANGED <<acc, check, form, srv, astray, alarms, asked, crossed>>
  PROVE  IInv'
<1>1. \A a \in Accounts : Checking(a)' /\ Told(a)'
  BY AlarmsStay
<1>2. /\ \A g \in Admins : Cleared(g)'
      /\ \A s \in Servers : Housed(s)'
  BY ServersStay
<1>3. Types'
  BY DEF IInv, Types
<1>. QED BY <1>1, <1>2, <1>3 DEF IInv

(* A write of the whole column: the account is left out from then on if    *)
(* somebody had changed it since it was loaded.                            *)
LEMMA SavedKeeps ==
  ASSUME IInv, NEW h \in Admins, Saved(h)
  PROVE  IInv'
<1>1. /\ UNCHANGED <<check, srv, astray, alarms>> /\ form' = [form EXCEPT ![h] = Idle]
      /\ form[h].pc = "setting"
  BY DEF Saved, Quiet, Machines
<1>2. PICK a, c, v, new :
        /\ a = form[h].acc /\ c = form[h].copy /\ v = form[h].value
        /\ new = [c EXCEPT !.limit = v]
        /\ IF a \notin Rows \/ Config(new) = Config(c)
           THEN UNCHANGED <<acc, asked, crossed>>
           ELSE /\ acc' = [acc EXCEPT ![a] = WithConfig(@, new)]
                /\ asked' = [asked EXCEPT ![a] = new.limit]
                /\ crossed' = [crossed EXCEPT ![a] = @ \/ Config(acc[a]) # Config(c)]
  BY DEF Saved
<1>3. c \in AccountType /\ v \in Limits
  BY <1>2 DEF IInv, Types, FormType
<1>4. new \in AccountType /\ new.limit = v /\ new.ok = c.ok
  BY <1>2, <1>3 DEF AccountType
<1>5. Out(new) = Out(c)
  BY <1>4 DEF Out
<1>6. CASE a \notin Rows \/ Config(new) = Config(c)
  <2>1. UNCHANGED <<acc, asked, crossed>>
    BY <1>2, <1>6
  <2>. QED BY <1>1, <2>1, IdleForm, OnlyFormTurns
<1>7. CASE a \in Rows /\ Config(new) # Config(c)
  <2>1. /\ acc' = [acc EXCEPT ![a] = WithConfig(@, new)]
        /\ asked' = [asked EXCEPT ![a] = new.limit]
        /\ crossed' = [crossed EXCEPT ![a] = @ \/ Config(acc[a]) # Config(c)]
    BY <1>2, <1>7
  <2>2. a \in Accounts /\ acc[a] \in AccountType
    BY <1>7, CheckTypes DEF Rows
  <2>3. PICK x : x = WithConfig(acc[a], new)
    OBVIOUS
  <2>4. x \in AccountType /\ x.there = acc[a].there /\ Out(x) = Out(c) /\ x.limit = v
    BY <1>4, <1>5, <2>2, <2>3, ConfigRow
  <2>5. acc' = [acc EXCEPT ![a] = x] /\ asked' = [asked EXCEPT ![a] = v]
    BY <1>4, <2>1, <2>3
  <2>6. /\ acc' \in [Accounts -> AccountType] /\ asked' \in [Accounts -> Limits]
        /\ \A b \in Accounts : acc'[b] = (IF b = a THEN x ELSE acc[b])
        /\ \A b \in Accounts : asked'[b] = (IF b = a THEN v ELSE asked[b])
    BY <1>3, <2>4, <2>5, CheckTypes DEF IInv, Types
  <2>7. PICK y \in BOOLEAN : y = (crossed[a] \/ Config(acc[a]) # Config(c))
    OBVIOUS
  <2>8. crossed' = [crossed EXCEPT ![a] = y]
    BY <2>1, <2>7
  <2>9. crossed' \in [Accounts -> BOOLEAN]
    BY <2>8 DEF IInv, Types
  <2>10. ASSUME NEW b \in Accounts, ~crossed'[b]
         PROVE  /\ ~crossed[b] /\ Out(acc'[b]) = Out(acc[b])
                /\ acc'[b].limit = IF b = a THEN v ELSE acc[b].limit
    <3>1. CASE b = a
      <4>1. ~y
        BY <2>2, <2>8, <2>10, <3>1 DEF IInv, Types
      <4>2. ~crossed[a] /\ Config(acc[a]) = Config(c)
        BY <2>7, <4>1
      <4>3. Out(acc[a]) = Out(c)
        BY <1>3, <2>2, <4>2, SameConfig
      <4>. QED BY <2>4, <2>6, <3>1, <4>2, <4>3
    <3>2. CASE b # a
      <4>1. crossed'[b] = crossed[b]
        BY <2>8, <3>2 DEF IInv, Types
      <4>. QED BY <2>6, <2>10, <3>2, <4>1
    <3>. QED BY <3>1, <3>2
  <2>11. \A b \in Accounts : acc'[b].there <=> acc[b].there
    BY <2>4, <2>6
  <2>12. ASSUME NEW b \in Accounts
         PROVE  Checking(b)' /\ Told(b)'
    <3>1. Checking(b) /\ Told(b)
      BY DEF IInv
    <3>2. Checking(b)'
      BY <1>1, <3>1 DEF Checking, Out
    <3>3. ASSUME acc'[b].there, ~crossed'[b]
          PROVE  /\ alarms'[b] = Out(acc'[b]) + Out(check'.new[b]) - Out(check'.old[b])
                 /\ acc'[b].limit = asked'[b]
      <4>1. /\ alarms[b] = Out(acc[b]) + Out(check.new[b]) - Out(check.old[b])
            /\ acc[b].limit = asked[b]
        BY <2>10, <2>11, <3>1, <3>3 DEF Told
      <4>2. Out(acc'[b]) = Out(acc[b]) /\ acc'[b].limit = IF b = a THEN v ELSE acc[b].limit
        BY <2>10, <3>3
      <4>. QED BY <1>1, <2>6, <4>1, <4>2
    <3>4. Told(b)'
      BY <3>3 DEF Told, Out
    <3>. QED BY <3>2, <3>4
  <2>13. /\ form' \in [Admins -> FormType]
         /\ \A g \in Admins : Cleared(g)'
         /\ \A s \in Servers : Housed(s)'
    BY <1>1, <2>11, IdleForm, FormTurns
  <2>14. Types'
    BY <1>1, <2>6, <2>9, <2>13 DEF IInv, Types
  <2>. QED BY <2>12, <2>13, <2>14 DEF IInv
<1>. QED BY <1>6, <1>7

-----------------------------------------------------------------------------
(* The end of an account.                                                  *)
LEMMA OnlyFormMoves ==
  ASSUME IInv, NEW h \in Admins, NEW x \in FormType, form[h].pc # "purging",
         form' = [form EXCEPT ![h] = x],
         UNCHANGED <<acc, check, srv, astray, alarms, asked, crossed>>,
         x.pc # "purging" => x.todo = {} /\ x.done = {},
         x.pc \in {"deleting", "purging"} =>
            \A s \in Of(x.acc) : astray[s] \/ s \in x.todo \cup x.done,
         \A s \in x.todo \cup x.done : srv[s].row \in {"live", "deleted"}
  PROVE  IInv'
<1>1. form' \in [Admins -> FormType]
  BY DEF IInv, Types
<1>2. /\ \A g \in Admins : Cleared(g)'
      /\ \A s \in Servers : Housed(s)'
  BY FormMoves
<1>3. \A a \in Accounts : Checking(a)' /\ Told(a)'
  BY AlarmsStay
<1>4. Types'
  BY <1>1 DEF IInv, Types
<1>. QED BY <1>2, <1>3, <1>4 DEF IInv

LEMMA AskedToDeleteKeeps ==
  ASSUME IInv, NEW h \in Admins, NEW a \in Accounts, AskedToDelete(h, a),
         UNCHANGED <<check, alarms, asked, crossed>>
  PROVE  IInv'
<1>1. PICK x : x = [Idle EXCEPT !.pc = "deleting", !.acc = a]
  OBVIOUS
<1>2. x \in FormType /\ x.pc = "deleting" /\ x.acc = a /\ x.todo = {} /\ x.done = {}
  BY <1>1, IdleForm DEF FormType
<1>3. /\ form' = [form EXCEPT ![h] = x] /\ form[h].pc # "purging" /\ Of(a) = {}
      /\ UNCHANGED <<acc, srv, astray>>
  BY <1>1 DEF AskedToDelete, Vacant
<1>. QED BY <1>2, <1>3, OnlyFormMoves

LEMMA PurgeKeeps ==
  ASSUME IInv, NEW h \in Admins, NEW a \in Accounts, Purge(h, a),
         UNCHANGED <<check, alarms, asked, crossed>>
  PROVE  IInv'
<1>1. PICK todo : todo = Of(a)
  OBVIOUS
<1>2. todo \subseteq Servers /\ \A s \in todo : srv[s].row = "live"
  BY <1>1 DEF Of
<1>3. PICK x : x = [Idle EXCEPT !.pc = "purging", !.acc = a, !.todo = todo]
  OBVIOUS
<1>4. x \in FormType /\ x.pc = "purging" /\ x.acc = a /\ x.todo = todo /\ x.done = {}
  BY <1>2, <1>3, IdleForm DEF FormType
<1>5. /\ form' = [form EXCEPT ![h] = x] /\ form[h].pc # "purging"
      /\ UNCHANGED <<acc, srv, astray>>
  BY <1>1, <1>3 DEF Purge
<1>6. \A s \in x.todo \cup x.done : srv[s].row \in {"live", "deleted"}
  BY <1>2, <1>4
<1>7. \A s \in Of(x.acc) : astray[s] \/ s \in x.todo \cup x.done
  BY <1>1, <1>4
<1>. QED BY <1>4, <1>5, <1>6, <1>7, OnlyFormMoves

(* The row goes, and no server refers to it any more: those that are left  *)
(* without an account came in behind the back of the deletion.             *)
LEMMA AccountGoes ==
  ASSUME IInv, NEW h \in Admins, NEW a \in Accounts \cup {None},
         form[h].pc \in {"deleting", "purging"}, form[h].acc = a, form[h].todo = {},
         form' = [form EXCEPT ![h] = Idle], acc' = [acc EXCEPT ![a] = NoRow],
         srv' = [s \in Servers |-> IF s \in form[h].done
                                   THEN [Forget(a)[s] EXCEPT !.row = "deleted"]
                                   ELSE Forget(a)[s]],
         UNCHANGED <<check, alarms, asked, crossed, astray>>
  PROVE  IInv'
<1>1. acc' \in [Accounts -> AccountType]
      /\ \A b \in Accounts : acc'[b] = IF b = a THEN NoRow ELSE acc[b]
  BY NoRowIs, CheckTypes
<1>2. \A b \in Accounts : acc'[b].there => acc[b].there /\ acc'[b] = acc[b] /\ b # a
  BY <1>1, NoRowIs
<1>3. \A b \in Accounts : Checking(b)' /\ Told(b)'
  BY <1>2, AlarmsStay
<1>4. form' \in [Admins -> FormType]
      /\ \A g \in Admins : form'[g] = IF g = h THEN Idle ELSE form[g]
  BY IdleForm DEF IInv, Types
<1>5. ASSUME NEW s \in Servers
      PROVE  /\ srv'[s] \in ServerType
             /\ srv[s].vm => srv'[s].vm
             /\ srv'[s].reseller => srv[s].reseller
             /\ s \in form[h].done => srv'[s].row = "deleted"
             /\ s \notin form[h].done => srv'[s].row = srv[s].row
             /\ srv[s].acc # a => srv'[s].acc = srv[s].acc
  <2>1. PICK r \in ServerType : r = srv[s]
    BY DEF IInv, Types
  <2>2. PICK f : f = IF r.acc = a THEN [r EXCEPT !.acc = None] ELSE r
    OBVIOUS
  <2>3. /\ f \in ServerType /\ f.vm = r.vm /\ f.reseller = r.reseller /\ f.row = r.row
        /\ r.acc # a => f.acc = r.acc
    <3>1. CASE r.acc = a
      <4>1. f = [r EXCEPT !.acc = None]
        BY <2>2, <3>1
      <4>. QED BY <3>1, <4>1 DEF ServerType
    <3>2. CASE r.acc # a
      BY <2>2, <3>2
    <3>. QED BY <3>1, <3>2
  <2>4. Forget(a)[s] = f
    BY <2>1, <2>2 DEF Forget
  <2>5. PICK d : d = [f EXCEPT !.row = "deleted"]
    OBVIOUS
  <2>6. /\ d \in ServerType /\ d.vm = f.vm /\ d.reseller = f.reseller /\ d.row = "deleted"
        /\ d.acc = f.acc
    BY <2>3, <2>5 DEF ServerType
  <2>7. srv'[s] = IF s \in form[h].done THEN d ELSE f
    BY <2>4, <2>5
  <2>8. CASE s \in form[h].done
    BY <2>1, <2>3, <2>6, <2>7, <2>8
  <2>9. CASE s \notin form[h].done
    BY <2>1, <2>3, <2>7, <2>9
  <2>. QED BY <2>8, <2>9
<1>6. srv' \in [Servers -> ServerType]
  BY <1>5
<1>7. ASSUME NEW s \in Servers, srv'[s].row = "live", ~astray[s]
      PROVE  /\ srv[s].row = "live" /\ s \notin form[h].done
             /\ srv[s].acc # a /\ srv'[s].acc = srv[s].acc
  <2>1. srv[s].row = "live" /\ s \notin form[h].done
    BY <1>5, <1>7
  <2>2. s \notin Of(a)
    BY <1>7, <2>1 DEF IInv, Cleared
  <2>. QED BY <1>5, <2>1, <2>2 DEF Of
<1>8. ASSUME NEW g \in Admins
      PROVE  Cleared(g)'
  <2>1. Cleared(g)
    BY DEF IInv
  <2>2. CASE g = h
    <3>1. form'[g] = Idle
      BY <1>4, <2>2
    <3>. QED BY <3>1, IdleForm DEF Cleared
  <2>3. CASE g # h
    <3>1. form'[g] = form[g]
      BY <1>4, <2>3
    <3>2. ASSUME form[g].pc \in {"deleting", "purging"}, NEW s \in Servers,
                 srv'[s].acc = form[g].acc, srv'[s].row = "live"
          PROVE  astray[s] \/ s \in form[g].todo \cup form[g].done
      <4>1. CASE ~astray[s]
        <5>1. s \in Of(form[g].acc)
          BY <1>7, <3>2, <4>1 DEF Of
        <5>. QED BY <2>1, <3>2, <5>1 DEF Cleared
      <4>. QED BY <4>1
    <3>3. form[g].todo \cup form[g].done \subseteq Servers
      BY DEF IInv, Types, FormType
    <3>4. \A s \in form[g].todo \cup form[g].done : srv'[s].row \in {"live", "deleted"}
      BY <1>5, <2>1, <3>3 DEF Cleared
    <3>. QED BY <2>1, <3>1, <3>2, <3>4 DEF Cleared, Of
  <2>. QED BY <2>2, <2>3
<1>9. ASSUME NEW s \in Servers
      PROVE  Housed(s)'
  <2>1. Housed(s)
    BY DEF IInv
  <2>2. srv'[s].row = "building" => srv'[s].vm
    BY <1>5, <2>1 DEF Housed
  <2>3. srv'[s].reseller => srv'[s].vm
    BY <1>5, <2>1 DEF Housed
  <2>4. ASSUME srv'[s].row = "live", ~astray[s]
        PROVE  /\ srv'[s].acc \in Rows'
               /\ srv'[s].vm \/ \E g \in Admins : s \in form'[g].done
    <3>1. /\ srv[s].row = "live" /\ s \notin form[h].done
          /\ srv[s].acc # a /\ srv'[s].acc = srv[s].acc
      BY <1>7, <2>4
    <3>2. srv[s].acc \in Rows /\ (srv[s].vm \/ \E g \in Admins : s \in form[g].done)
      BY <2>1, <2>4, <3>1 DEF Housed
    <3>3. srv'[s].acc \in Rows'
      BY <1>1, <3>1, <3>2 DEF Rows
    <3>4. ASSUME NEW g \in Admins, s \in form[g].done
          PROVE  s \in form'[g].done
      BY <1>4, <3>1, <3>4
    <3>. QED BY <1>5, <3>2, <3>3, <3>4
  <2>. QED BY <2>2, <2>3, <2>4 DEF Housed
<1>10. Types'
  BY <1>1, <1>4, <1>6 DEF IInv, Types
<1>. QED BY <1>3, <1>8, <1>9, <1>10 DEF IInv

LEMMA DeletedKeeps ==
  ASSUME IInv, NEW h \in Admins, NEW a \in Accounts, NEW plans, Deleted(h, a, plans),
         UNCHANGED <<check, alarms, asked, crossed>>
  PROVE  IInv'
<1>1. /\ form[h].pc = "deleting" /\ form[h].acc = a /\ form' = [form EXCEPT ![h] = Idle]
      /\ acc' = [acc EXCEPT ![a] = NoRow] /\ srv' = Forget(a) /\ UNCHANGED astray
  BY DEF Deleted
<1>2. form[h].todo = {} /\ form[h].done = {}
  BY <1>1 DEF IInv, Cleared
<1>3. srv' = [s \in Servers |-> IF s \in form[h].done
                                THEN [Forget(a)[s] EXCEPT !.row = "deleted"]
                                ELSE Forget(a)[s]]
  BY <1>1, <1>2 DEF Forget
<1>. QED BY <1>1, <1>2, <1>3, AccountGoes

LEMMA PurgedKeeps ==
  ASSUME IInv, NEW h \in Admins, Purged(h), UNCHANGED <<check, alarms, asked, crossed>>
  PROVE  IInv'
<1>1. PICK a : a = form[h].acc
  OBVIOUS
<1>2. a \in Accounts \cup {None}
  BY <1>1 DEF IInv, Types, FormType
<1>3. /\ form[h].pc = "purging" /\ form[h].todo = {} /\ form' = [form EXCEPT ![h] = Idle]
      /\ acc' = [acc EXCEPT ![a] = NoRow] /\ UNCHANGED astray
      /\ srv' = [s \in Servers |-> IF s \in form[h].done
                                   THEN [Forget(a)[s] EXCEPT !.row = "deleted"]
                                   ELSE Forget(a)[s]]
  BY <1>1 DEF Purged
<1>. QED BY <1>1, <1>2, <1>3, AccountGoes

(* Every machine that the deletion takes passes from those to be destroyed *)
(* to those whose rows will go, whatever the panel answered.               *)
LEMMA PurgeVmKeeps ==
  ASSUME IInv, NEW h \in Admins, NEW s \in Servers, PurgeVm(h, s)
  PROVE  IInv'
<1>1. UNCHANGED <<acc, check, astray, alarms, asked, crossed>> /\ s \in form[h].todo
  BY DEF PurgeVm, Ghosts
<1>2. PICK f \in FormType : f = form[h]
  BY DEF IInv, Types
<1>3. PICK todo, done : todo = f.todo \ {s} /\ done = f.done \cup {s}
  OBVIOUS
<1>4. PICK x : x = [f EXCEPT !.todo = todo, !.done = done]
  OBVIOUS
<1>5. todo \subseteq Servers /\ done \subseteq Servers
  BY <1>3 DEF FormType
<1>6. x \in FormType /\ x.pc = f.pc /\ x.acc = f.acc /\ x.todo = todo /\ x.done = done
  BY <1>4, <1>5 DEF FormType
<1>7. form' = [form EXCEPT ![h] = x]
  BY <1>2, <1>3, <1>4 DEF PurgeVm
<1>8. form' \in [Admins -> FormType]
      /\ \A g \in Admins : form'[g] = IF g = h THEN x ELSE form[g]
  BY <1>6, <1>7 DEF IInv, Types
<1>9. todo \cup done = f.todo \cup f.done /\ s \in done /\ f.done \subseteq done
  BY <1>1, <1>2, <1>3
<1>10. srv[s].row \in {"live", "deleted"} /\ form[h].pc = "purging"
  BY <1>1 DEF IInv, Cleared
<1>11. PICK r \in ServerType : r = srv[s]
  BY DEF IInv, Types
<1>12. PICK d \in ServerType :
         /\ srv' = [srv EXCEPT ![s] = d]
         /\ d.row = r.row /\ d.acc = r.acc
         /\ d.reseller => r.reseller
         /\ r.reseller /\ r.vm => d.vm
  <2>1. CASE r.reseller \/ srv' = srv
    <3>1. srv' = [srv EXCEPT ![s] = r]
      <4>1. CASE srv' = srv
        BY <1>11, <4>1 DEF IInv, Types
      <4>2. CASE r.reseller /\ srv' # srv
        <5>1. srv' = [srv EXCEPT ![s] = Destroyed(s)]
          BY <4>2 DEF PurgeVm
        <5>2. Destroyed(s) = r
          BY <1>11, <4>2 DEF Destroyed
        <5>. QED BY <5>1, <5>2
      <4>. QED BY <2>1, <4>1, <4>2
    <3>. QED BY <3>1
  <2>2. CASE ~r.reseller /\ srv' # srv
    <3>1. PICK b \in BOOLEAN : b = FALSE
      OBVIOUS
    <3>2. PICK d : d = [r EXCEPT !.vm = b]
      OBVIOUS
    <3>3. Destroyed(s) = d
      BY <1>11, <2>2, <3>1, <3>2 DEF Destroyed
    <3>4. srv' = [srv EXCEPT ![s] = d]
      BY <2>2, <3>3 DEF PurgeVm
    <3>5. d \in ServerType /\ d.row = r.row /\ d.acc = r.acc /\ d.reseller = r.reseller
      BY <3>2 DEF ServerType
    <3>6. d.reseller => r.reseller
      BY <3>5
    <3>. QED BY <2>2, <3>4, <3>5, <3>6, Zenon
  <2>. QED BY <2>1, <2>2
<1>13. srv' \in [Servers -> ServerType]
       /\ \A t \in Servers : srv'[t] = IF t = s THEN d ELSE srv[t]
  BY <1>12 DEF IInv, Types
<1>14. \A t \in Servers : srv'[t].row = srv[t].row /\ srv'[t].acc = srv[t].acc
  BY <1>11, <1>12, <1>13
<1>15. ASSUME NEW g \in Admins
       PROVE  Cleared(g)'
  <2>1. Cleared(g)
    BY DEF IInv
  <2>2. /\ form'[g].pc = form[g].pc /\ form'[g].acc = form[g].acc
        /\ form'[g].todo \cup form'[g].done = form[g].todo \cup form[g].done
        /\ form[g].pc # "purging" => form'[g].todo = form[g].todo /\ form'[g].done = form[g].done
    BY <1>2, <1>6, <1>8, <1>9, <1>10
  <2>3. form[g].todo \cup form[g].done \subseteq Servers
    BY DEF IInv, Types, FormType
  <2>4. Of(form[g].acc)' = Of(form[g].acc)
    BY <1>14, <2>2 DEF Of
  <2>5. \A t \in form[g].todo \cup form[g].done : srv'[t].row \in {"live", "deleted"}
    BY <1>14, <2>1, <2>3 DEF Cleared
  <2>6. form[g].pc \in {"deleting", "purging"} =>
          \A t \in Of(form[g].acc)' : astray'[t] \/ t \in form'[g].todo \cup form'[g].done
    BY <1>1, <2>1, <2>2, <2>4 DEF Cleared
  <2>. QED BY <2>1, <2>2, <2>5, <2>6 DEF Cleared
<1>16. ASSUME NEW t \in Servers
       PROVE  Housed(t)'
  <2>1. Housed(t) /\ Rows' = Rows
    BY <1>1 DEF IInv, Rows
  <2>2. ASSUME NEW g \in Admins, t \in form[g].done
        PROVE  t \in form'[g].done
    BY <1>2, <1>6, <1>8, <1>9, <2>2
  <2>3. CASE t = s
    <3>1. s \in form'[h].done
      BY <1>6, <1>8, <1>9
    <3>2. srv'[t].row # "building"
      BY <1>10, <1>14, <2>3
    <3>3. srv'[t] = d /\ srv[t] = r
      BY <1>11, <1>13, <2>3
    <3>4. r.reseller => r.vm
      BY <2>1, <3>3 DEF Housed
    <3>5. d.reseller => d.vm
      BY <1>12, <3>4
    <3>6. srv'[t].reseller => srv'[t].vm
      BY <3>3, <3>5
    <3>7. srv'[t].row = "live" /\ ~astray'[t] => srv'[t].acc \in Rows'
      BY <1>1, <1>14, <2>1 DEF Housed
    <3>8. srv'[t].vm \/ \E g \in Admins : t \in form'[g].done
      BY <2>3, <3>1
    <3>. QED BY <3>2, <3>6, <3>7, <3>8 DEF Housed
  <2>4. CASE t # s
    <3>1. srv'[t] = srv[t]
      BY <1>13, <2>4
    <3>. QED BY <1>1, <2>1, <2>2, <3>1 DEF Housed
  <2>. QED BY <2>3, <2>4
<1>17. \A a \in Accounts : Checking(a)' /\ Told(a)'
  BY <1>1, AlarmsStay
<1>18. Types'
  BY <1>1, <1>8, <1>13 DEF IInv, Types
<1>. QED BY <1>15, <1>16, <1>17, <1>18 DEF IInv

LEMMA PurgeLostKeeps ==
  ASSUME IInv, NEW h \in Admins, PurgeLost(h)
  PROVE  IInv'
<1>1. /\ UNCHANGED <<acc, check, srv, alarms, asked, crossed>>
      /\ form' = [form EXCEPT ![h] = Idle]
      /\ astray' = [s \in Servers |-> astray[s] \/ s \in form[h].done]
  BY DEF PurgeLost, Ghosts
<1>2. form' \in [Admins -> FormType]
      /\ \A g \in Admins : form'[g] = IF g = h THEN Idle ELSE form[g]
  BY <1>1, IdleForm DEF IInv, Types
<1>3. astray' \in [Servers -> BOOLEAN]
  BY <1>1
<1>4. \A s \in Servers : astray[s] \/ s \in form[h].done => astray'[s]
  BY <1>1
<1>5. ASSUME NEW g \in Admins
      PROVE  Cleared(g)'
  <2>1. Cleared(g)
    BY DEF IInv
  <2>2. CASE g = h
    <3>1. form'[g] = Idle
      BY <1>2, <2>2
    <3>. QED BY <3>1, IdleForm DEF Cleared
  <2>3. CASE g # h
    <3>1. form'[g] = form[g]
      BY <1>2, <2>3
    <3>2. Of(form[g].acc)' = Of(form[g].acc) /\ Of(form[g].acc) \subseteq Servers
      BY <1>1, <3>1 DEF Of
    <3>. QED BY <1>1, <1>4, <2>1, <3>1, <3>2 DEF Cleared
  <2>. QED BY <2>2, <2>3
<1>6. ASSUME NEW s \in Servers
      PROVE  Housed(s)'
  <2>1. Housed(s) /\ Rows' = Rows
    BY <1>1 DEF IInv, Rows
  <2>2. ASSUME ~astray'[s]
        PROVE  ~astray[s] /\ s \notin form[h].done
    BY <1>4, <2>2
  <2>3. ASSUME ~astray'[s], NEW g \in Admins, s \in form[g].done
        PROVE  s \in form'[g].done
    BY <1>2, <2>2, <2>3
  <2>. QED BY <1>1, <2>1, <2>2, <2>3 DEF Housed
<1>7. \A a \in Accounts : Checking(a)' /\ Told(a)'
  BY <1>1, AlarmsStay
<1>8. Types'
  BY <1>1, <1>2, <1>3 DEF IInv, Types
<1>. QED BY <1>5, <1>6, <1>7, <1>8 DEF IInv

-----------------------------------------------------------------------------
(* The servers.  A row that comes in while its account is being deleted is *)
(* one the deletion has not seen.                                          *)
LEMMA ServerComes ==
  ASSUME IInv, NEW s \in Servers, srv[s].row \in {"none", "building"},
         NEW x \in ServerType, NEW y \in BOOLEAN,
         srv' = [srv EXCEPT ![s] = x], astray' = [astray EXCEPT ![s] = y],
         x.row = "live" => x.acc \in Rows /\ x.vm /\ (Leaving(x.acc) => y),
         x.row = "building" => x.vm,
         x.reseller => x.vm,
         UNCHANGED <<acc, check, form, alarms, asked, crossed>>
  PROVE  IInv'
<1>1. srv' \in [Servers -> ServerType] /\ astray' \in [Servers -> BOOLEAN]
  BY DEF IInv, Types
<1>2. srv'[s] = x /\ (astray'[s] <=> y)
  BY DEF IInv, Types
<1>3. \A t \in Servers : t # s => srv'[t] = srv[t] /\ (astray'[t] <=> astray[t])
  BY DEF IInv, Types
<1>4. ASSUME NEW g \in Admins
      PROVE  Cleared(g)'
  <2>1. Cleared(g)
    BY DEF IInv
  <2>2. s \notin form[g].todo \cup form[g].done
    BY <2>1 DEF Cleared
  <2>3. form[g].todo \cup form[g].done \subseteq Servers
    BY DEF IInv, Types, FormType
  <2>4. \A t \in form[g].todo \cup form[g].done : srv'[t].row \in {"live", "deleted"}
    BY <1>3, <2>1, <2>2, <2>3 DEF Cleared
  <2>5. ASSUME form[g].pc \in {"deleting", "purging"}, NEW t \in Servers,
               srv'[t].acc = form[g].acc, srv'[t].row = "live"
        PROVE  astray'[t] \/ t \in form[g].todo \cup form[g].done
    <3>1. CASE t = s
      <4>1. Leaving(x.acc)
        BY <1>2, <2>5, <3>1 DEF Leaving
      <4>. QED BY <1>2, <2>5, <3>1, <4>1
    <3>2. CASE t # s
      <4>1. t \in Of(form[g].acc)
        BY <1>3, <2>5, <3>2 DEF Of
      <4>. QED BY <1>3, <2>1, <2>5, <3>2, <4>1 DEF Cleared
    <3>. QED BY <3>1, <3>2
  <2>6. form[g].pc # "purging" => form[g].todo = {} /\ form[g].done = {}
    BY <2>1 DEF Cleared
  <2>. QED BY <2>4, <2>5, <2>6 DEF Cleared, Of
<1>5. ASSUME NEW t \in Servers
      PROVE  Housed(t)'
  <2>1. Housed(t) /\ Rows' = Rows
    BY DEF IInv, Rows
  <2>2. CASE t = s
    BY <1>2, <2>1, <2>2 DEF Housed
  <2>3. CASE t # s
    BY <1>3, <2>1, <2>3 DEF Housed
  <2>. QED BY <2>2, <2>3
<1>6. \A a \in Accounts : Checking(a)' /\ Told(a)'
  BY AlarmsStay
<1>7. Types'
  BY <1>1 DEF IInv, Types
<1>. QED BY <1>4, <1>5, <1>6, <1>7 DEF IInv

LEMMA BuyKeeps ==
  ASSUME IInv, NEW s \in Servers, Buy(s)
  PROVE  IInv'
<1>1. PICK a \in Accounts :
         srv' = [srv EXCEPT ![s] = [NoVm EXCEPT !.row = "building", !.acc = a, !.vm = TRUE]]
  BY HandledIs DEF Buy
<1>2. PICK b \in BOOLEAN, n \in ServerType : b = TRUE /\ n = NoVm
  BY DEF NoVm, ServerType
<1>3. PICK x : x = [n EXCEPT !.row = "building", !.acc = a, !.vm = b]
  OBVIOUS
<1>4. x \in ServerType /\ x.row = "building" /\ x.vm
  BY <1>2, <1>3 DEF ServerType
<1>5. PICK y \in BOOLEAN : y = astray[s]
  BY DEF IInv, Types
<1>6. astray' = [astray EXCEPT ![s] = y]
  BY <1>5 DEF Buy, IInv, Types
<1>7. UNCHANGED <<acc, check, form, alarms, asked, crossed>> /\ srv[s].row = "none"
  BY DEF Buy, Ghosts
<1>8. srv' = [srv EXCEPT ![s] = x]
  BY <1>1, <1>2, <1>3
<1>. QED BY <1>4, <1>6, <1>7, <1>8, ServerComes

LEMMA RecordKeeps ==
  ASSUME IInv, NEW s \in Servers, Record(s)
  PROVE  IInv'
<1>1. UNCHANGED <<acc, check, form, alarms, asked, crossed>> /\ srv[s].row = "building"
  BY DEF Record, Ghosts
<1>2. PICK r \in ServerType : r = srv[s]
  BY DEF IInv, Types
<1>3. r.row = "building" /\ r.vm
  <2>1. r.row = "building"
    BY <1>1, <1>2
  <2>2. srv[s].row = "building" => srv[s].vm
    BY DEF IInv, Housed
  <2>. QED BY <1>2, <2>1, <2>2
<1>4. CASE r.acc \in Rows
  <2>1. PICK y \in BOOLEAN : y = Leaving(r.acc)
    BY DEF Leaving
  <2>2. PICK x : x = [r EXCEPT !.row = "live"]
    OBVIOUS
  <2>3. x \in ServerType /\ x.row = "live" /\ x.acc = r.acc /\ x.vm = r.vm
    BY <2>2 DEF ServerType
  <2>4. srv' = [srv EXCEPT ![s] = x] /\ astray' = [astray EXCEPT ![s] = y]
    BY <1>2, <1>4, <2>1, <2>2 DEF Record
  <2>5. x.vm /\ x.acc \in Rows /\ (Leaving(x.acc) => y)
    BY <1>3, <1>4, <2>1, <2>3
  <2>. QED BY <1>1, <2>3, <2>4, <2>5, ServerComes
<1>5. CASE r.acc \notin Rows
  <2>1. PICK y \in BOOLEAN : y = astray[s]
    BY DEF IInv, Types
  <2>2. PICK x : x = [r EXCEPT !.row = "refused", !.acc = None]
    OBVIOUS
  <2>3. x \in ServerType /\ x.row = "refused" /\ x.vm = r.vm
    BY <2>2 DEF ServerType
  <2>4. srv' = [srv EXCEPT ![s] = x] /\ UNCHANGED astray
    BY <1>2, <1>5, <2>2 DEF Record
  <2>5. astray' = [astray EXCEPT ![s] = y]
    BY <2>1, <2>4 DEF IInv, Types
  <2>6. x.vm
    BY <1>3, <2>3
  <2>. QED BY <1>1, <2>3, <2>4, <2>5, <2>6, ServerComes
<1>. QED BY <1>4, <1>5

LEMMA FoundKeeps ==
  ASSUME IInv, NEW s \in Servers, Found(s)
  PROVE  IInv'
<1>1. UNCHANGED <<acc, check, form, alarms, asked, crossed>> /\ srv[s].row = "none"
  BY DEF Found, Ghosts
<1>2. PICK a \in Rows :
         /\ srv' = [srv EXCEPT ![s] = [row |-> "live", acc |-> a, vm |-> TRUE,
                                       reseller |-> TRUE]]
         /\ astray' = [astray EXCEPT ![s] = Leaving(a)]
  BY DEF Found
<1>3. PICK y \in BOOLEAN : y = Leaving(a)
  BY DEF Leaving
<1>4. PICK x : x = [row |-> "live", acc |-> a, vm |-> TRUE, reseller |-> TRUE]
  OBVIOUS
<1>5. x \in ServerType /\ x.row = "live" /\ x.acc = a /\ x.vm
  BY <1>4 DEF ServerType, Rows
<1>6. srv' = [srv EXCEPT ![s] = x] /\ astray' = [astray EXCEPT ![s] = y]
  BY <1>2, <1>3, <1>4
<1>7. Leaving(x.acc) => y
  BY <1>3, <1>5
<1>. QED BY <1>1, <1>5, <1>6, <1>7, ServerComes

LEMMA GoneKeeps ==
  ASSUME IInv, NEW s \in Servers, Gone(s)
  PROVE  IInv'
<1>1. /\ UNCHANGED <<acc, check, form, alarms, asked, crossed, astray>>
      /\ srv[s].row = "live"
  BY DEF Gone, Ghosts
<1>2. PICK r \in ServerType : r = srv[s]
  BY DEF IInv, Types
<1>3. r.reseller => r.vm
  BY <1>2 DEF IInv, Housed
<1>4. PICK d \in ServerType :
         srv' = [srv EXCEPT ![s] = d] /\ d.row = "deleted" /\ (d.reseller => d.vm)
  <2>1. PICK reached \in BOOLEAN : reached = (r.acc \in Rows /\ acc[r.acc].on /\ ~r.reseller)
    OBVIOUS
  <2>2. \/ srv' = [srv EXCEPT ![s].row = "deleted", ![s].vm = @ /\ ~reached]
        \/ reached /\ srv' = [srv EXCEPT ![s].row = "deleted"]
    BY <1>2, <2>1 DEF Gone
  <2>3. reached => ~r.reseller
    BY <2>1
  <2>4. CASE srv' = [srv EXCEPT ![s].row = "deleted", ![s].vm = @ /\ ~reached]
    <3>1. PICK b \in BOOLEAN : b = (r.vm /\ ~reached)
      OBVIOUS
    <3>2. PICK d : d = [r EXCEPT !.row = "deleted", !.vm = b]
      OBVIOUS
    <3>3. srv' = [srv EXCEPT ![s] = d]
      BY <1>2, <2>4, <3>1, <3>2
    <3>4. d \in ServerType /\ d.row = "deleted" /\ d.vm = b /\ d.reseller = r.reseller
      BY <3>2 DEF ServerType
    <3>5. r.reseller => b
      BY <1>3, <2>3, <3>1
    <3>6. d.reseller => d.vm
      BY <3>4, <3>5
    <3>. QED BY <3>3, <3>4, <3>6
  <2>5. CASE srv' = [srv EXCEPT ![s].row = "deleted"]
    <3>1. PICK d : d = [r EXCEPT !.row = "deleted"]
      OBVIOUS
    <3>2. srv' = [srv EXCEPT ![s] = d]
      BY <1>2, <2>5, <3>1
    <3>3. d \in ServerType /\ d.row = "deleted" /\ d.vm = r.vm /\ d.reseller = r.reseller
      BY <3>1 DEF ServerType
    <3>4. d.reseller => d.vm
      BY <1>3, <3>3
    <3>. QED BY <3>2, <3>3, <3>4
  <2>. QED BY <2>2, <2>4, <2>5
<1>5. srv' \in [Servers -> ServerType]
      /\ \A t \in Servers : srv'[t] = IF t = s THEN d ELSE srv[t]
  BY <1>4 DEF IInv, Types
<1>6. ASSUME NEW g \in Admins
      PROVE  Cleared(g)'
  <2>1. Cleared(g)
    BY DEF IInv
  <2>2. Of(form[g].acc)' \subseteq Of(form[g].acc)
    BY <1>1, <1>4, <1>5 DEF Of
  <2>3. form[g].todo \cup form[g].done \subseteq Servers
    BY DEF IInv, Types, FormType
  <2>4. \A t \in form[g].todo \cup form[g].done : srv'[t].row \in {"live", "deleted"}
    BY <1>4, <1>5, <2>1, <2>3 DEF Cleared
  <2>. QED BY <1>1, <2>1, <2>2, <2>4 DEF Cleared
<1>7. ASSUME NEW t \in Servers
      PROVE  Housed(t)'
  <2>1. Housed(t) /\ Rows' = Rows
    BY <1>1 DEF IInv, Rows
  <2>2. CASE t = s
    <3>1. srv'[t] = d
      BY <1>5, <2>2
    <3>. QED BY <1>4, <3>1 DEF Housed
  <2>3. CASE t # s
    <3>1. srv'[t] = srv[t]
      BY <1>5, <2>3
    <3>. QED BY <1>1, <2>1, <3>1 DEF Housed
  <2>. QED BY <2>2, <2>3
<1>8. \A a \in Accounts : Checking(a)' /\ Told(a)'
  BY <1>1, AlarmsStay
<1>9. Types'
  BY <1>1, <1>5 DEF IInv, Types
<1>. QED BY <1>6, <1>7, <1>8, <1>9 DEF IInv

-----------------------------------------------------------------------------
LEMMA InitKeeps == Init => IInv
<1>. SUFFICES ASSUME Init PROVE IInv
  OBVIOUS
<1>1. /\ alarms = [a \in Accounts |-> 0] /\ asked = [a \in Accounts |-> 0]
      /\ srv = [s \in Servers |-> NoVm] /\ form = [h \in Admins |-> Idle]
      /\ check = NoCheck
  BY DEF Init
<1>2. \A a \in Accounts : acc[a] \in AccountType /\ acc[a].limit = 0 /\ Out(acc[a]) = 0
  BY NewAccount, NoRowIs DEF Init
<1>3. acc \in [Accounts -> AccountType]
  BY <1>2 DEF Init
<1>4. crossed \in [Accounts -> BOOLEAN] /\ astray \in [Servers -> BOOLEAN]
  BY DEF Init
<1>5. NoVm \in ServerType /\ NoVm.row = "none" /\ ~NoVm.reseller
  BY DEF NoVm, ServerType
<1>6. /\ check \in CheckType
      /\ check.pc = "idle" /\ check.todo = {} /\ check.told = {}
      /\ \A a \in Accounts : check.old[a] = NoRow /\ check.new[a] = NoRow
  BY <1>1, NoRowIs DEF NoCheck, CheckType
<1>7. alarms \in [Accounts -> Int] /\ asked \in [Accounts -> Limits]
  BY <1>1, AccountsAssumption
<1>8. Types
  BY <1>1, <1>3, <1>4, <1>5, <1>6, <1>7, IdleForm DEF Types
<1>9. ASSUME NEW a \in Accounts
      PROVE  Checking(a) /\ Told(a)
  <2>1. Checking(a)
    BY <1>6, NoRowIs DEF Checking
  <2>2. Told(a)
    BY <1>1, <1>2, <1>6, NoRowIs DEF Told
  <2>. QED BY <2>1, <2>2
<1>10. ASSUME NEW h \in Admins
       PROVE  Cleared(h)
  BY <1>1, IdleForm DEF Cleared
<1>11. ASSUME NEW s \in Servers
       PROVE  Housed(s)
  BY <1>1, <1>5 DEF Housed
<1>. QED BY <1>8, <1>9, <1>10, <1>11 DEF IInv

LEMMA DeleteKeeps ==
  ASSUME IInv, Delete
  PROVE  IInv'
<1>1. UNCHANGED <<check, alarms, asked, crossed>>
  BY DEF Delete, Quiet, Ghosts
<1>2. PICK h \in Admins :
         \/ \E a \in Accounts :
               \/ HetznerDelete(h, a) \/ GcoreDelete(h, a) \/ TimewebDelete(h, a)
               \/ RootDelete(h, a) \/ ScalewayDelete(h, a) \/ Purge(h, a)
         \/ Purged(h)
  BY DEF Delete
<1>3. ASSUME NEW a \in Accounts, AskedToDelete(h, a)
      PROVE  IInv'
  BY <1>1, <1>3, AskedToDeleteKeeps
<1>4. ASSUME NEW a \in Accounts, NEW plans, Deleted(h, a, plans)
      PROVE  IInv'
  BY <1>1, <1>4, DeletedKeeps
<1>5. ASSUME NEW a \in Accounts, Purge(h, a)
      PROVE  IInv'
  BY <1>1, <1>5, PurgeKeeps
<1>6. ASSUME Purged(h)
      PROVE  IInv'
  BY <1>1, <1>6, PurgedKeeps
<1>. QED BY <1>2, <1>3, <1>4, <1>5, <1>6
  DEF HetznerDelete, GcoreDelete, TimewebDelete, RootDelete, ScalewayDelete

LEMMA NextKeeps == IInv /\ [Next]_vars => IInv'
<1>. SUFFICES ASSUME IInv, [Next]_vars PROVE IInv'
  OBVIOUS
<1>1. CASE UNCHANGED vars
  BY <1>1, StutterKeeps DEF vars
<1>2. CASE HealthCheck
  BY <1>2, StartCheckKeeps, AskKeeps, CommitCheckKeeps DEF HealthCheck
<1>3. CASE CheckLost
  BY <1>3, CheckLostKeeps
<1>4. CASE Admin
  <2>1. CASE Add
    BY <2>1, AddKeeps
  <2>2. CASE SetLimit
    BY <2>2, SetLimitKeeps
  <2>3. CASE Delete
    BY <2>3, DeleteKeeps
  <2>4. CASE Import
    BY <2>4, StutterKeeps DEF Import, Quiet, Machines, Ghosts
  <2>5. ASSUME NEW a \in Accounts, Toggle(a)
        PROVE  IInv'
    BY <2>5, ToggleKeeps
  <2>6. ASSUME NEW h \in Admins,
               \/ Saved(h) \/ Refused(h) \/ NotDeleted(h) \/ PurgeLost(h)
               \/ \E s \in Servers : PurgeVm(h, s)
        PROVE  IInv'
    BY <2>6, SavedKeeps, RefusedKeeps, NotDeletedKeeps, PurgeLostKeeps, PurgeVmKeeps
  <2>. QED BY <1>4, <2>1, <2>2, <2>3, <2>4, <2>5, <2>6 DEF Admin
<1>5. ASSUME NEW s \in Servers, Buy(s) \/ Record(s) \/ Found(s) \/ Gone(s)
      PROVE  IInv'
  BY <1>5, BuyKeeps, RecordKeeps, FoundKeeps, GoneKeeps
<1>6. ASSUME NEW a \in Accounts, Outage(a)
      PROVE  IInv'
  BY <1>6, StutterKeeps DEF Outage, Machines, Ghosts
<1>. QED BY <1>1, <1>2, <1>3, <1>4, <1>5, <1>6 DEF Next

(* Theorem. What the steps of checks, administrators, customers and        *)
(* restarts keep true of accounts and servers, in any order                *)
(* (check_providers_health, the handlers of admin_*.py).                   *)
THEOREM InductiveInvariant == Spec => []IInv
BY InitKeeps, NextKeeps, PTL DEF Spec

(* Theorem. Every row, form and message count is of the kind the code      *)
(* keeps there.                                                            *)
THEOREM TypeCorrect == Spec => []Types
<1>1. IInv => Types
  BY DEF IInv
<1>. QED BY <1>1, InductiveInvariant, PTL

(* Theorem. Between two checks exactly the accounts marked as down have an *)
(* outage that was reported and not called off, and the limit that was set *)
(* last is the one that holds, unless a stale column was written over or a *)
(* check was lost after its message (check_providers_health).              *)
THEOREM AlarmsTellStateTheorem == Spec => []AlarmsTellState
<1>1. ASSUME IInv, NEW a \in Rows, ~crossed[a]
      PROVE  /\ check.pc = "idle" => alarms[a] = IF acc[a].ok THEN 0 ELSE 1
             /\ acc[a].limit = asked[a]
  <2>1. a \in Accounts /\ acc[a].there
    BY DEF Rows
  <2>2. Checking(a) /\ Told(a)
    BY <1>1, <2>1 DEF IInv
  <2>3. /\ alarms[a] = Out(acc[a]) + Out(check.new[a]) - Out(check.old[a])
        /\ acc[a].limit = asked[a]
    BY <1>1, <2>1, <2>2 DEF Told
  <2>4. check.pc = "idle" => Out(check.new[a]) = Out(check.old[a])
    BY <2>2 DEF Checking
  <2>5. Out(acc[a]) \in {0, 1} /\ Out(check.new[a]) \in {0, 1} /\ Out(check.old[a]) \in {0, 1}
    BY OutIs
  <2>6. check.pc = "idle" => alarms[a] = Out(acc[a])
    BY <2>3, <2>4, <2>5
  <2>. QED BY <2>3, <2>6 DEF Out
<1>2. IInv => AlarmsTellState
  BY <1>1 DEF AlarmsTellState
<1>. QED BY <1>2, InductiveInvariant, PTL

(* Theorem. Whatever account goes while servers are bought, recorded and   *)
(* synchronised, a server the customer has is on a machine and in an       *)
(* account that are there, and a reseller's machine is never destroyed,    *)
(* with the exceptions the property names (the deletion of an account).    *)
THEOREM ServersHaveMachinesTheorem == Spec => []ServersHaveMachines
<1>1. IInv => ServersHaveMachines
  BY DEF IInv, Housed, ServersHaveMachines
<1>. QED BY <1>1, InductiveInvariant, PTL

-----------------------------------------------------------------------------
(* The catalogue.  A plan is as the administrator wants it if it is on     *)
(* sale when he wants it and it is not hidden, and remembers the wish when *)
(* it is.  The task and the handler that computes prices anew write back   *)
(* rows they loaded before they asked the provider; the invariant is that  *)
(* their copies are as wanted, too, whatever has been committed since.     *)
PlanType == [there : BOOLEAN, active : BOOLEAN, price : Nat, raw : Nat, cost : Nat,
             gone : BOOLEAN, was : BOOLEAN, out : {"no", "yes", "bare"}, used : BOOLEAN]
OfferType == [on : BOOLEAN, short : BOOLEAN, cost : Nat]
JobType == [pc : {"idle", "listing", "writing", "pricing"}, rows : [Ids -> PlanType],
            margin : Margins \cup {Unset}, charge : Nat, seen : OfferType]
ClickType == [pc : {"idle", "import"}, cost : Nat]
CatalogTypes ==
    /\ provider \in Providers /\ barred \in BOOLEAN /\ offer \in OfferType
    /\ margin \in Margins \cup {Unset} /\ rate \in Nat
    /\ row \in [Ids -> PlanType] /\ sync \in JobType /\ job \in JobType
    /\ click \in [Clicks -> ClickType]
    /\ wish \in [Ids -> BOOLEAN] /\ mixed \in [Ids -> BOOLEAN]

Wanted(r, w) == /\ r.active <=> w /\ ~r.gone
                /\ r.gone => (r.was <=> w)
                /\ r.out = "no"
Shown(r) == ~r.gone /\ r.out = "no"

(* The copy of a row that a task or a handler holds.                       *)
Copied(j, i) ==
    /\ j.pc = "idle" => ~j.rows[i].there
    /\ j.rows[i].there /\ ~barred /\ ~mixed[i] => Wanted(j.rows[i], wish[i])
    /\ barred => Shown(j.rows[i])
Listed(i) ==
    /\ row[i].there /\ ~mixed[i] => Wanted(row[i], wish[i])
    /\ barred => Shown(row[i])

(* Plans of a barred family are switched off, but never hidden.            *)
CatalogInv == /\ CatalogTypes
              /\ barred => provider \in {"gcore", "scaleway"}
              /\ \A i \in Ids : Listed(i) /\ Copied(sync, i) /\ Copied(job, i)

-----------------------------------------------------------------------------
(* Prices and switches leave the marks of a row alone.                     *)
SameMark(x, r) == /\ x.there <=> r.there
                  /\ x.gone <=> r.gone
                  /\ x.was <=> r.was
                  /\ x.out = r.out

LEMMA NoPlanIs == NoPlan \in PlanType /\ ~NoPlan.there /\ Shown(NoPlan) /\ ~NoPlan.active
BY DEF NoPlan, PlanType, Shown

LEMMA NoJobIs ==
  /\ NoJob \in JobType /\ NoJob.pc = "idle"
  /\ \A i \in Ids : NoJob.rows[i] = NoPlan
BY NoPlanIs DEF NoJob, NoOffer, JobType, OfferType

LEMMA PricedRow ==
  ASSUME NEW r \in PlanType, NEW m \in Margins \cup {Unset}
  PROVE  /\ Priced(r, m) \in PlanType
         /\ SameMark(Priced(r, m), r) /\ (Priced(r, m).active <=> r.active)
         /\ Extra(Priced(r, m)) = Extra(r)
<1>1. CASE m = Unset \/ r.cost = 0
  BY <1>1 DEF Priced, SameMark
<1>2. CASE m # Unset /\ r.cost # 0
  <2>1. PICK c \in Nat, n \in Nat : c = r.cost /\ n = m
    BY <1>2, CatalogAssumption DEF PlanType
  <2>2. PICK p \in Nat : p = c * (1 + n)
    OBVIOUS
  <2>3. PICK x : x = [r EXCEPT !.price = p]
    OBVIOUS
  <2>4. Priced(r, m) = x
    BY <1>2, <2>1, <2>2, <2>3 DEF Priced
  <2>5. /\ x \in PlanType /\ x.there = r.there /\ x.gone = r.gone /\ x.was = r.was /\ x.out = r.out
        /\ x.active = r.active /\ x.raw = r.raw /\ x.cost = r.cost
    BY <2>3 DEF PlanType
  <2>. QED BY <2>4, <2>5 DEF SameMark, Extra
<1>. QED BY <1>1, <1>2

LEMMA SwitchedRow ==
  ASSUME NEW r \in PlanType
  PROVE  /\ Switched(r) \in PlanType
         /\ SameMark(Switched(r), r) /\ (r.gone => (Switched(r).active <=> r.active))
<1>1. CASE r.gone
  BY <1>1 DEF Switched, SameMark
<1>2. CASE ~r.gone
  <2>1. PICK b \in BOOLEAN : b = TRUE
    OBVIOUS
  <2>2. PICK x : x = [r EXCEPT !.active = b]
    OBVIOUS
  <2>3. Switched(r) = x
    BY <1>2, <2>1, <2>2 DEF Switched
  <2>4. x \in PlanType /\ x.there = r.there /\ x.gone = r.gone /\ x.was = r.was /\ x.out = r.out
    BY <2>2 DEF PlanType
  <2>. QED BY <1>2, <2>3, <2>4 DEF SameMark
<1>. QED BY <1>1, <1>2

LEMMA OffRow ==
  ASSUME NEW r \in PlanType
  PROVE  /\ [r EXCEPT !.active = FALSE] \in PlanType
         /\ SameMark([r EXCEPT !.active = FALSE], r)
         /\ ~[r EXCEPT !.active = FALSE].active
         /\ Extra([r EXCEPT !.active = FALSE]) = Extra(r)
         /\ ~r.active => [r EXCEPT !.active = FALSE] = r
<1>1. PICK b \in BOOLEAN : b = FALSE
  OBVIOUS
<1>2. PICK x : x = [r EXCEPT !.active = b]
  OBVIOUS
<1>3. x \in PlanType /\ x.there = r.there /\ x.gone = r.gone /\ x.was = r.was /\ x.out = r.out
      /\ x.active = b /\ x.raw = r.raw /\ x.cost = r.cost
  BY <1>2 DEF PlanType
<1>4. SameMark(x, r) /\ ~x.active /\ Extra(x) = Extra(r)
  BY <1>1, <1>3 DEF SameMark, Extra
<1>5. ~r.active => x = r
  <2>1. r.active \in BOOLEAN
    BY DEF PlanType
  <2>2. ~r.active => r.active = b
    BY <1>1, <2>1
  <2>. QED BY <1>2, <2>2 DEF PlanType
<1>6. x = [r EXCEPT !.active = FALSE]
  BY <1>1, <1>2
<1>. QED BY <1>3, <1>4, <1>5, <1>6

LEMMA MarginRow ==
  ASSUME NEW r \in PlanType, NEW m \in Margins \cup {Unset}, provider \in Providers
  PROVE  /\ ApplyMargins(r, m) \in PlanType
         /\ SameMark(ApplyMargins(r, m), r)
         /\ ~barred /\ r.gone => (ApplyMargins(r, m).active <=> r.active)
<1>1. PICK p \in PlanType : p = Priced(r, m)
  BY PricedRow
<1>2. SameMark(p, r) /\ (p.active <=> r.active)
  BY <1>1, PricedRow
<1>3. PICK s \in PlanType : s = Switched(p)
  BY SwitchedRow
<1>4. SameMark(s, p) /\ (p.gone => (s.active <=> p.active))
  BY <1>3, SwitchedRow
<1>5. SameMark(s, r) /\ (r.gone => (s.active <=> r.active))
  BY <1>2, <1>4 DEF SameMark
<1>6. \/ ApplyMargins(r, m) = r
      \/ ApplyMargins(r, m) = s
      \/ barred /\ ApplyMargins(r, m) = [r EXCEPT !.active = FALSE]
  BY <1>1, <1>3 DEF ApplyMargins, HetznerMargins, TimewebMargins, RootMargins, GcoreMargins,
                    ScalewayMargins, Providers
<1>7. CASE ApplyMargins(r, m) = r
  BY <1>7 DEF SameMark
<1>8. CASE ApplyMargins(r, m) = s
  BY <1>5, <1>8
<1>9. CASE barred /\ ApplyMargins(r, m) = [r EXCEPT !.active = FALSE]
  BY <1>9, OffRow
<1>. QED BY <1>6, <1>7, <1>8, <1>9

-----------------------------------------------------------------------------
(* What administrators do.  A row is left alone, or somebody has chosen    *)
(* what it is to be: then nobody holds a copy of it, or the row is one of  *)
(* those the property leaves out.                                          *)
LeftAlone(i) == /\ wish'[i] = wish[i] /\ mixed'[i] = mixed[i]
                /\ row'[i].there => /\ row[i].there /\ SameMark(row'[i], row[i])
                                    /\ row'[i].active <=> row[i].active
                /\ barred => Shown(row'[i])
Chosen(i) == /\ mixed'[i] \/ (~sync.rows[i].there /\ ~job.rows[i].there)
             /\ row'[i].there /\ ~mixed'[i] => Wanted(row'[i], wish'[i])
             /\ barred => Shown(row'[i])

(* A plan that an earlier version has marked as out of stock, and its end. *)
Restocked(i) == row[i].out # "no" /\ (row'[i].there => row[i].there)

LEMMA InStockRow ==
  ASSUME NEW r \in PlanType
  PROVE  /\ InStock(r) \in PlanType /\ InStock(r).there = r.there
         /\ r.out = "no" => InStock(r) = r
<1>1. CASE r.out = "no"
  BY <1>1 DEF InStock
<1>2. CASE r.out # "no"
  <2>1. PICK a \in BOOLEAN : a = IF r.gone THEN r.active
                                 ELSE r.price # 0 /\ (r.out = "bare" \/ r.was)
    BY DEF PlanType
  <2>2. PICK b \in BOOLEAN : b = FALSE
    OBVIOUS
  <2>3. PICK x : x = [r EXCEPT !.out = "no", !.was = b, !.active = a]
    OBVIOUS
  <2>4. InStock(r) = x
    BY <1>2, <2>1, <2>2, <2>3 DEF InStock
  <2>5. x \in PlanType /\ x.there = r.there
    BY <2>3 DEF PlanType
  <2>. QED BY <1>2, <2>4, <2>5
<1>. QED BY <1>1, <1>2

LEMMA CatalogIs ==
  ASSUME CatalogInv, NEW i \in Ids
  PROVE  /\ row[i] \in PlanType /\ sync.rows[i] \in PlanType /\ job.rows[i] \in PlanType
         /\ wish[i] \in BOOLEAN /\ mixed[i] \in BOOLEAN
         /\ Listed(i) /\ Copied(sync, i) /\ Copied(job, i)
BY DEF CatalogInv, CatalogTypes, JobType

LEMMA NotBusy ==
  ASSUME CatalogInv, ~Busy, NEW i \in Ids
  PROVE  ~sync.rows[i].there /\ ~job.rows[i].there
BY CatalogIs DEF Busy, Copied

LEMMA RowsKeep ==
  ASSUME CatalogInv, UNCHANGED <<barred, sync, job>>,
         \A i \in Ids : LeftAlone(i) \/ Chosen(i)
  PROVE  \A i \in Ids : Listed(i)' /\ Copied(sync, i)' /\ Copied(job, i)'
<1>. SUFFICES ASSUME NEW i \in Ids PROVE Listed(i)' /\ Copied(sync, i)' /\ Copied(job, i)'
  OBVIOUS
<1>1. Listed(i) /\ Copied(sync, i) /\ Copied(job, i)
  BY CatalogIs
<1>2. CASE LeftAlone(i)
  <2>1. wish'[i] = wish[i] /\ mixed'[i] = mixed[i]
    BY <1>2 DEF LeftAlone
  <2>2. Copied(sync, i)' /\ Copied(job, i)'
    BY <1>1, <2>1 DEF Copied, Wanted
  <2>3. Listed(i)'
    BY <1>1, <1>2, <2>1 DEF Listed, Wanted, LeftAlone, SameMark
  <2>. QED BY <2>2, <2>3
<1>3. CASE Chosen(i)
  <2>1. Copied(sync, i)' /\ Copied(job, i)'
    BY <1>1, <1>3 DEF Copied, Chosen
  <2>2. Listed(i)'
    BY <1>3 DEF Listed, Chosen, Wanted
  <2>. QED BY <2>1, <2>2
<1>. QED BY <1>2, <1>3

LEMMA RestockedIs ==
  ASSUME CatalogInv, NEW i \in Ids, Restocked(i),
         mixed'[i] \/ (wish'[i] = wish[i] /\ mixed'[i] = mixed[i])
  PROVE  LeftAlone(i) \/ Chosen(i)
<1>1. Listed(i) /\ row[i].out # "no"
  BY CatalogIs DEF Restocked
<1>2. ~barred
  BY <1>1 DEF Listed, Shown
<1>3. row[i].there => mixed[i]
  BY <1>1 DEF Listed, Wanted
<1>4. CASE mixed'[i]
  BY <1>2, <1>4 DEF Chosen
<1>5. CASE ~mixed'[i]
  <2>1. wish'[i] = wish[i] /\ mixed'[i] = mixed[i] /\ ~row'[i].there
    BY <1>3, <1>5 DEF Restocked
  <2>. QED BY <1>2, <2>1 DEF LeftAlone
<1>. QED BY <1>4, <1>5

(* The wish follows the rows: those that are switched, and those in ids.   *)
LEMMA FollowsKeeps ==
  ASSUME CatalogInv, UNCHANGED <<barred, sync, job>>, NEW ids,
         row' \in [Ids -> PlanType],
         \A i \in Ids : SameMark(row'[i], row[i]) \/ Restocked(i),
         Moved(row') \subseteq ids, Follows(ids, row')
  PROVE  /\ wish' \in [Ids -> BOOLEAN] /\ mixed' \in [Ids -> BOOLEAN]
         /\ \A i \in Ids : Listed(i)' /\ Copied(sync, i)' /\ Copied(job, i)'
<1>1. \A i \in Ids : row[i] \in PlanType /\ row'[i] \in PlanType
  BY CatalogIs
<1>2. \A i \in Ids : row'[i].active \in BOOLEAN /\ row[i].active \in BOOLEAN
                     /\ row[i].gone \in BOOLEAN
  BY <1>1 DEF PlanType
<1>3. Busy \in BOOLEAN
  BY DEF Busy
<1>4. ASSUME NEW i \in Ids
      PROVE  wish'[i] \in BOOLEAN /\ mixed'[i] \in BOOLEAN
  BY <1>2, <1>3, CatalogIs DEF Follows, Held, Marked
<1>5. wish' = [i \in Ids |-> wish'[i]] /\ mixed' = [i \in Ids |-> mixed'[i]]
  BY DEF Follows
<1>6. wish' \in [Ids -> BOOLEAN] /\ mixed' \in [Ids -> BOOLEAN]
  BY <1>4, <1>5
<1>7. ASSUME NEW i \in Ids
      PROVE  LeftAlone(i) \/ Chosen(i)
  <2>a. CASE Restocked(i)
    <3>1. row[i].out # "no"
      BY <2>a DEF Restocked
    <3>2. mixed'[i] \/ (wish'[i] = wish[i] /\ mixed'[i] = mixed[i])
      BY <3>1 DEF Follows, Held, Marked
    <3>. QED BY <2>a, <3>2, RestockedIs
  <2>. SUFFICES ASSUME ~Restocked(i) PROVE LeftAlone(i) \/ Chosen(i)
    BY <2>a
  <2>1. SameMark(row'[i], row[i]) /\ Listed(i)
    BY CatalogIs
  <2>2. barred => Shown(row'[i])
    BY <2>1 DEF Listed, SameMark, Shown
  <2>3. CASE i \in ids
    <3>1. (mixed'[i] <=> row[i].gone \/ row[i].out # "no" \/ Busy)
          /\ (wish'[i] <=> row'[i].active)
      BY <2>3 DEF Follows, Held, Marked
    <3>2. ~mixed'[i] => Shown(row'[i]) /\ ~sync.rows[i].there /\ ~job.rows[i].there
      BY <2>1, <3>1, NotBusy DEF SameMark, Shown
    <3>3. ~mixed'[i] => Wanted(row'[i], wish'[i])
      BY <3>1, <3>2 DEF Wanted, Shown
    <3>. QED BY <2>2, <3>2, <3>3 DEF Chosen
  <2>4. CASE i \notin ids
    <3>1. wish'[i] = wish[i] /\ mixed'[i] = mixed[i]
      BY <2>4 DEF Follows
    <3>2. i \in Live => (row'[i].active <=> row[i].active)
      BY <2>4 DEF Moved
    <3>3. row'[i].there => i \in Live
      BY <2>1 DEF SameMark, Live
    <3>4. i \in Live => row[i].there
      BY DEF Live
    <3>. QED BY <2>1, <2>2, <3>1, <3>2, <3>3, <3>4 DEF LeftAlone
  <2>. QED BY <2>3, <2>4
<1>8. \A i \in Ids : Listed(i)' /\ Copied(sync, i)' /\ Copied(job, i)'
  BY <1>7, RowsKeep
<1>. QED BY <1>6, <1>8

(* The administrator names the rows and what he wants with them.           *)
LEMMA WishesKeep ==
  ASSUME CatalogInv, UNCHANGED <<barred, sync, job>>, NEW ids, NEW v \in BOOLEAN,
         row' \in [Ids -> PlanType], Wishes(ids, v),
         \A i \in Ids : row'[i].there => SameMark(row'[i], row[i]),
         \A i \in Ids : barred => Shown(row'[i]),
         \A i \in Ids : row'[i].there /\ i \in ids => (row'[i].active <=> v),
         \A i \in Ids : row'[i].there /\ i \notin ids => (row'[i].active <=> row[i].active)
  PROVE  /\ wish' \in [Ids -> BOOLEAN] /\ mixed' \in [Ids -> BOOLEAN]
         /\ \A i \in Ids : Listed(i)' /\ Copied(sync, i)' /\ Copied(job, i)'
<1>1. Busy \in BOOLEAN
  BY DEF Busy
<1>2. \A i \in Ids : row[i].gone \in BOOLEAN
  BY CatalogIs DEF PlanType
<1>3. ASSUME NEW i \in Ids
      PROVE  wish'[i] \in BOOLEAN /\ mixed'[i] \in BOOLEAN
  BY <1>1, <1>2, CatalogIs DEF Wishes, Held, Marked
<1>4. wish' = [i \in Ids |-> wish'[i]] /\ mixed' = [i \in Ids |-> mixed'[i]]
  BY DEF Wishes
<1>5. wish' \in [Ids -> BOOLEAN] /\ mixed' \in [Ids -> BOOLEAN]
  BY <1>3, <1>4
<1>6. ASSUME NEW i \in Ids
      PROVE  LeftAlone(i) \/ Chosen(i)
  <2>1. CASE i \in ids
    <3>1. (mixed'[i] <=> row[i].gone \/ row[i].out # "no" \/ Busy) /\ (wish'[i] <=> v)
      BY <2>1 DEF Wishes, Held, Marked
    <3>2. ~mixed'[i] => ~sync.rows[i].there /\ ~job.rows[i].there
      BY <3>1, NotBusy
    <3>3. row'[i].there /\ ~mixed'[i] => Shown(row'[i])
      BY <3>1 DEF SameMark, Shown
    <3>4. row'[i].there /\ ~mixed'[i] => Wanted(row'[i], wish'[i])
      BY <2>1, <3>1, <3>3 DEF Wanted, Shown
    <3>. QED BY <3>2, <3>4 DEF Chosen
  <2>2. CASE i \notin ids
    <3>1. wish'[i] = wish[i] /\ mixed'[i] = mixed[i]
      BY <2>2 DEF Wishes
    <3>. QED BY <2>2, <3>1 DEF LeftAlone, SameMark
  <2>. QED BY <2>1, <2>2
<1>7. \A i \in Ids : Listed(i)' /\ Copied(sync, i)' /\ Copied(job, i)'
  BY <1>6, RowsKeep
<1>. QED BY <1>5, <1>7

LEMMA CatalogConstants ==
  ASSUME CatalogInv
  PROVE  /\ provider \in Providers /\ barred \in BOOLEAN /\ offer \in OfferType
         /\ margin \in Margins \cup {Unset} /\ rate \in Nat
         /\ row \in [Ids -> PlanType] /\ sync \in JobType /\ job \in JobType
         /\ barred => provider \in {"gcore", "scaleway"}
BY DEF CatalogInv, CatalogTypes

LEMMA SetMarginKeeps ==
  ASSUME CatalogInv, NEW m \in Margins, SetMargin(m)
  PROVE  CatalogInv'
<1>1. /\ UNCHANGED <<provider, barred, offer, sync, job, rate, click>> /\ margin' = m
      /\ row' = [i \in Ids |-> ApplyMargins(row[i], m)]
      /\ Follows(Moved(row'), row')
  BY DEF SetMargin, Tasks
<1>2. \A i \in Ids : ApplyMargins(row[i], m) \in PlanType /\ SameMark(ApplyMargins(row[i], m), row[i])
  BY CatalogIs, CatalogConstants, MarginRow
<1>3. row' \in [Ids -> PlanType] /\ \A i \in Ids : SameMark(row'[i], row[i])
  BY <1>1, <1>2
<1>4. /\ wish' \in [Ids -> BOOLEAN] /\ mixed' \in [Ids -> BOOLEAN]
      /\ \A i \in Ids : Listed(i)' /\ Copied(sync, i)' /\ Copied(job, i)'
  BY <1>1, <1>3, FollowsKeeps
<1>5. CatalogTypes'
  BY <1>1, <1>3, <1>4 DEF CatalogInv, CatalogTypes
<1>. QED BY <1>1, <1>4, <1>5 DEF CatalogInv

LEMMA CostRow ==
  ASSUME NEW r \in PlanType, NEW c \in Nat
  PROVE  [r EXCEPT !.cost = c] \in PlanType /\ SameMark([r EXCEPT !.cost = c], r)
         /\ [r EXCEPT !.cost = c].active = r.active
BY DEF PlanType, SameMark

LEMMA ScalewayRateKeeps ==
  ASSUME CatalogInv, NEW r \in {0, 1}, ScalewayRate(r)
  PROVE  CatalogInv'
<1>1. /\ UNCHANGED <<provider, barred, offer, sync, job, margin, click>> /\ rate' = r
      /\ row' = [i \in Ids |->
           IF row[i].there
           THEN ApplyMargins([row[i] EXCEPT !.cost = ScalewayCost(row[i].raw, r)], margin)
           ELSE row[i]]
      /\ Follows(Moved(row'), row')
  BY DEF ScalewayRate, Tasks
<1>2. ASSUME NEW i \in Ids
      PROVE  row'[i] \in PlanType /\ SameMark(row'[i], row[i])
  <2>1. PICK p \in PlanType : p = row[i]
    BY CatalogIs
  <2>2. PICK c \in Nat : c = ScalewayCost(p.raw, r)
    BY DEF ScalewayCost, PlanType
  <2>3. PICK x : x = [p EXCEPT !.cost = c]
    OBVIOUS
  <2>4. x \in PlanType /\ SameMark(x, p)
    BY <2>3, CostRow
  <2>5. PICK y : y = ApplyMargins(x, margin)
    OBVIOUS
  <2>6. y \in PlanType /\ SameMark(y, x)
    BY <2>4, <2>5, MarginRow, CatalogConstants
  <2>7. row'[i] = IF p.there THEN y ELSE p
    BY <1>1, <2>1, <2>2, <2>3, <2>5
  <2>. QED BY <2>1, <2>4, <2>6, <2>7 DEF SameMark
<1>3. row' \in [Ids -> PlanType]
  BY <1>1, <1>2
<1>4. /\ wish' \in [Ids -> BOOLEAN] /\ mixed' \in [Ids -> BOOLEAN]
      /\ \A i \in Ids : Listed(i)' /\ Copied(sync, i)' /\ Copied(job, i)'
  BY <1>1, <1>2, <1>3, FollowsKeeps
<1>5. CatalogTypes'
  BY <1>1, <1>3, <1>4 DEF CatalogInv, CatalogTypes
<1>. QED BY <1>1, <1>4, <1>5 DEF CatalogInv

(* A step that switches no row and takes no wish.                          *)
LEMMA NoWishKeeps ==
  ASSUME CatalogInv,
         UNCHANGED <<provider, barred, sync, job, margin, rate, wish, mixed>>,
         offer' \in OfferType, click' \in [Clicks -> ClickType],
         row' \in [Ids -> PlanType],
         \A i \in Ids : \/ Restocked(i)
                        \/ SameMark(row'[i], row[i]) /\ (row'[i].active <=> row[i].active)
  PROVE  CatalogInv'
<1>1. ASSUME NEW i \in Ids
      PROVE  LeftAlone(i) \/ Chosen(i)
  <2>1. CASE Restocked(i)
    BY <2>1, RestockedIs
  <2>2. CASE SameMark(row'[i], row[i]) /\ (row'[i].active <=> row[i].active)
    BY <2>2, CatalogIs DEF LeftAlone, SameMark, Listed, Shown
  <2>. QED BY <2>1, <2>2
<1>2. \A i \in Ids : Listed(i)' /\ Copied(sync, i)' /\ Copied(job, i)'
  BY <1>1, RowsKeep
<1>3. CatalogTypes'
  BY DEF CatalogInv, CatalogTypes
<1>. QED BY <1>2, <1>3 DEF CatalogInv

LEMMA RowsUnchanged ==
  ASSUME CatalogInv,
         UNCHANGED <<provider, barred, sync, job, margin, rate, row, wish, mixed>>,
         offer' \in OfferType, click' \in [Clicks -> ClickType]
  PROVE  CatalogInv'
<1>1. row' \in [Ids -> PlanType]
      /\ \A i \in Ids : SameMark(row'[i], row[i]) /\ (row'[i].active <=> row[i].active)
  BY CatalogConstants DEF SameMark
<1>. QED BY <1>1, NoWishKeeps

LEMMA TogglePlanKeeps ==
  ASSUME CatalogInv, NEW i \in Ids, TogglePlan(i)
  PROVE  CatalogInv'
<1>1. PICK p \in PlanType : p = row[i]
  BY CatalogIs
<1>2. PICK v \in BOOLEAN : v = ~p.active
  OBVIOUS
<1>3. PICK x : x = [p EXCEPT !.active = v]
  OBVIOUS
<1>4. x \in PlanType /\ SameMark(x, p) /\ x.active = v
  BY <1>3 DEF PlanType, SameMark
<1>5. /\ UNCHANGED <<provider, barred, offer, sync, job, margin, rate, click>>
      /\ row' = [row EXCEPT ![i] = x] /\ Wishes({i}, v)
  BY <1>1, <1>2, <1>3 DEF TogglePlan, Tasks
<1>6. /\ row' \in [Ids -> PlanType]
      /\ \A k \in Ids : row'[k] = IF k = i THEN x ELSE row[k]
  BY <1>4, <1>5, CatalogConstants
<1>7. ASSUME NEW k \in Ids
      PROVE  /\ SameMark(row'[k], row[k])
             /\ barred => Shown(row'[k])
             /\ k \in {i} => (row'[k].active <=> v)
             /\ k \notin {i} => (row'[k].active <=> row[k].active)
  <2>1. SameMark(row'[k], row[k])
    BY <1>1, <1>4, <1>6 DEF SameMark
  <2>. QED BY <1>4, <1>6, <2>1, CatalogIs DEF SameMark, Listed, Shown
<1>8. /\ wish' \in [Ids -> BOOLEAN] /\ mixed' \in [Ids -> BOOLEAN]
      /\ \A k \in Ids : Listed(k)' /\ Copied(sync, k)' /\ Copied(job, k)'
  BY <1>5, <1>6, <1>7, WishesKeep
<1>9. CatalogTypes'
  BY <1>5, <1>6, <1>8 DEF CatalogInv, CatalogTypes
<1>. QED BY <1>5, <1>8, <1>9 DEF CatalogInv

(* Rows that are removed or switched off.                                  *)
LEMMA OffKeeps ==
  ASSUME CatalogInv, NEW ids, Wishes(ids, FALSE),
         UNCHANGED <<provider, barred, offer, sync, job, margin, rate, click>>,
         row' \in [Ids -> PlanType],
         \A i \in Ids : \/ row'[i] = NoPlan
                        \/ i \in ids /\ row'[i] = [row[i] EXCEPT !.active = FALSE]
                        \/ i \notin ids /\ row'[i] = row[i]
  PROVE  CatalogInv'
<1>1. ASSUME NEW i \in Ids
      PROVE  /\ row'[i].there => SameMark(row'[i], row[i])
             /\ barred => Shown(row'[i])
             /\ row'[i].there /\ i \in ids => ~row'[i].active
             /\ row'[i].there /\ i \notin ids => (row'[i].active <=> row[i].active)
  <2>1. CASE row'[i] = NoPlan
    BY <2>1, NoPlanIs
  <2>2. CASE i \in ids /\ row'[i] = [row[i] EXCEPT !.active = FALSE]
    <3>1. SameMark(row'[i], row[i]) /\ ~row'[i].active /\ Listed(i)
      BY <2>2, CatalogIs, OffRow
    <3>. QED BY <2>2, <3>1 DEF SameMark, Listed, Shown
  <2>3. CASE i \notin ids /\ row'[i] = row[i]
    BY <2>3, CatalogIs DEF SameMark, Listed, Shown
  <2>. QED BY <2>1, <2>2, <2>3
<1>2. PICK v \in BOOLEAN : v = FALSE
  OBVIOUS
<1>3. Wishes(ids, v)
  BY <1>2
<1>4. \A i \in Ids : row'[i].there /\ i \in ids => (row'[i].active <=> v)
  BY <1>1, <1>2
<1>5. /\ wish' \in [Ids -> BOOLEAN] /\ mixed' \in [Ids -> BOOLEAN]
      /\ \A k \in Ids : Listed(k)' /\ Copied(sync, k)' /\ Copied(job, k)'
  BY <1>1, <1>3, <1>4, WishesKeep
<1>6. CatalogTypes'
  BY <1>5 DEF CatalogInv, CatalogTypes
<1>. QED BY <1>5, <1>6 DEF CatalogInv

LEMMA DeletePlanKeeps ==
  ASSUME CatalogInv, NEW i \in Ids, DeletePlan(i)
  PROVE  CatalogInv'
<1>1. /\ UNCHANGED <<provider, barred, offer, sync, job, margin, rate, click>>
      /\ row' = [row EXCEPT ![i] = NoPlan] /\ Wishes({i}, FALSE)
  BY DEF DeletePlan, Tasks
<1>2. row' \in [Ids -> PlanType]
      /\ \A k \in Ids : row'[k] = IF k = i THEN NoPlan ELSE row[k]
  BY <1>1, CatalogConstants, NoPlanIs
<1>3. \A k \in Ids : \/ row'[k] = NoPlan
                     \/ k \in {i} /\ row'[k] = [row[k] EXCEPT !.active = FALSE]
                     \/ k \notin {i} /\ row'[k] = row[k]
  BY <1>2
<1>. QED BY <1>1, <1>2, <1>3, OffKeeps

LEMMA RemovedRow ==
  ASSUME NEW r \in PlanType
  PROVE  /\ Removed(r) \in PlanType
         /\ Removed(r) = NoPlan \/ Removed(r) = [r EXCEPT !.active = FALSE]
BY OffRow, NoPlanIs DEF Removed

LEMMA RemoveKeeps ==
  ASSUME CatalogInv, NEW i \in Ids, Remove(i),
         UNCHANGED <<provider, barred, offer, sync, job, margin, rate, click>>
  PROVE  CatalogInv'
<1>1. PICK x \in PlanType : x = Removed(row[i])
  BY RemovedRow, CatalogIs
<1>2. row' = [row EXCEPT ![i] = x] /\ Wishes({i}, FALSE)
  BY <1>1 DEF Remove
<1>3. row' \in [Ids -> PlanType]
      /\ \A k \in Ids : row'[k] = IF k = i THEN x ELSE row[k]
  BY <1>2, CatalogConstants
<1>4. x = NoPlan \/ x = [row[i] EXCEPT !.active = FALSE]
  BY <1>1, RemovedRow, CatalogIs
<1>5. \A k \in Ids : \/ row'[k] = NoPlan
                     \/ k \in {i} /\ row'[k] = [row[k] EXCEPT !.active = FALSE]
                     \/ k \notin {i} /\ row'[k] = row[k]
  BY <1>3, <1>4
<1>. QED BY <1>2, <1>3, <1>5, OffKeeps

LEMMA AllOffKeeps ==
  ASSUME CatalogInv, AllOff
  PROVE  CatalogInv'
<1>1. /\ UNCHANGED <<provider, barred, offer, sync, job, margin, rate, click>>
      /\ row' = [i \in Ids |-> IF i \in Live THEN Removed(row[i]) ELSE row[i]]
      /\ Wishes(Live, FALSE)
  BY DEF AllOff, Tasks
<1>2. ASSUME NEW i \in Ids
      PROVE  /\ row'[i] \in PlanType
             /\ \/ row'[i] = NoPlan
                \/ i \in Live /\ row'[i] = [row[i] EXCEPT !.active = FALSE]
                \/ i \notin Live /\ row'[i] = row[i]
  BY <1>1, RemovedRow, CatalogIs
<1>3. row' \in [Ids -> PlanType]
  BY <1>1, <1>2
<1>. QED BY <1>1, <1>2, <1>3, OffKeeps

LEMMA DeleteAccountKeeps ==
  ASSUME CatalogInv, DeleteAccount
  PROVE  CatalogInv'
<1>1. /\ UNCHANGED <<provider, barred, offer, sync, job, margin, rate, click>>
      /\ row' = [i \in Ids |-> NoPlan] /\ Wishes(Live, FALSE)
  BY DEF DeleteAccount, Tasks
<1>2. row' \in [Ids -> PlanType] /\ \A i \in Ids : row'[i] = NoPlan
  BY <1>1, NoPlanIs
<1>. QED BY <1>1, <1>2, OffKeeps

LEMMA EditPriceKeeps ==
  ASSUME CatalogInv, NEW i \in Ids, EditPrice(i)
  PROVE  CatalogInv'
<1>1. UNCHANGED <<provider, barred, offer, sync, job, margin, rate, click, wish, mixed>>
  BY DEF EditPrice, Tasks
<1>2. PICK p \in Costs \cup {0} : row' = [row EXCEPT ![i].price = p]
  BY DEF EditPrice
<1>3. p \in Nat
  BY CatalogAssumption
<1>4. PICK r \in PlanType : r = row[i]
  BY CatalogIs
<1>5. PICK x : x = [r EXCEPT !.price = p]
  OBVIOUS
<1>6. x \in PlanType /\ SameMark(x, r) /\ x.active = r.active
  BY <1>3, <1>5 DEF PlanType, SameMark
<1>7. row' = [row EXCEPT ![i] = x]
  BY <1>2, <1>4, <1>5
<1>8. row' \in [Ids -> PlanType]
      /\ \A k \in Ids : row'[k] = IF k = i THEN x ELSE row[k]
  BY <1>6, <1>7, CatalogConstants
<1>9. ASSUME NEW k \in Ids
      PROVE  SameMark(row'[k], row[k]) /\ (row'[k].active <=> row[k].active)
  BY <1>4, <1>6, <1>8 DEF SameMark
<1>10. offer' \in OfferType /\ click' \in [Clicks -> ClickType]
  BY <1>1 DEF CatalogInv, CatalogTypes
<1>. QED BY <1>1, <1>8, <1>9, <1>10, NoWishKeeps

LEMMA UsedKeeps ==
  ASSUME CatalogInv, NEW i \in Ids, NEW u \in BOOLEAN, NEW r \in PlanType,
         r = row[i] \/ (row[i].out # "no" /\ r.there = row[i].there),
         UNCHANGED <<provider, barred, offer, sync, job, margin, rate, click, wish, mixed>>,
         row' = [row EXCEPT ![i] = [r EXCEPT !.used = u]]
  PROVE  CatalogInv'
<1>1. row[i] \in PlanType
  BY CatalogIs
<1>2. PICK x : x = [r EXCEPT !.used = u]
  OBVIOUS
<1>3. x \in PlanType /\ SameMark(x, r) /\ x.active = r.active
  BY <1>2 DEF PlanType, SameMark
<1>4. row' = [row EXCEPT ![i] = x]
  BY <1>2
<1>5. row' \in [Ids -> PlanType]
      /\ \A k \in Ids : row'[k] = IF k = i THEN x ELSE row[k]
  BY <1>3, <1>4, CatalogConstants
<1>6. ASSUME NEW k \in Ids
      PROVE  \/ Restocked(k)
             \/ SameMark(row'[k], row[k]) /\ (row'[k].active <=> row[k].active)
  <2>1. CASE k # i
    BY <1>5, <2>1 DEF SameMark
  <2>2. CASE k = i /\ r = row[i]
    BY <1>3, <1>5, <2>2 DEF SameMark
  <2>3. CASE k = i /\ row[i].out # "no" /\ r.there = row[i].there
    BY <1>3, <1>5, <2>3 DEF SameMark, Restocked
  <2>. QED BY <2>1, <2>2, <2>3
<1>7. offer' \in OfferType /\ click' \in [Clicks -> ClickType]
  BY DEF CatalogInv, CatalogTypes
<1>. QED BY <1>5, <1>6, <1>7, NoWishKeeps

LEMMA SoldKeeps ==
  ASSUME CatalogInv, NEW i \in Ids, Sell(i) \/ LastServerGone(i)
  PROVE  CatalogInv'
<1>1. UNCHANGED <<provider, barred, offer, sync, job, margin, rate, click, wish, mixed>>
  BY DEF Sell, LastServerGone, Tasks
<1>2. PICK u \in BOOLEAN : \/ row' = [row EXCEPT ![i] = [InStock(@) EXCEPT !.used = u]]
                           \/ row' = [row EXCEPT ![i] = [row[i] EXCEPT !.used = u]]
  BY DEF Sell, LastServerGone
<1>3. row[i] \in PlanType
  BY CatalogIs
<1>4. PICK r \in PlanType : r = InStock(row[i])
  BY <1>3, InStockRow
<1>5. r = row[i] \/ (row[i].out # "no" /\ r.there = row[i].there)
  BY <1>3, <1>4, InStockRow
<1>6. CASE row' = [row EXCEPT ![i] = [InStock(@) EXCEPT !.used = u]]
  BY <1>1, <1>4, <1>5, <1>6, UsedKeeps
<1>7. CASE row' = [row EXCEPT ![i] = [row[i] EXCEPT !.used = u]]
  BY <1>1, <1>3, <1>7, UsedKeeps
<1>. QED BY <1>2, <1>6, <1>7

LEMMA RestockKeeps ==
  ASSUME CatalogInv, NEW ids, Restock(ids)
  PROVE  CatalogInv'
<1>1. /\ UNCHANGED <<provider, barred, offer, sync, job, margin, rate, click, wish, mixed>>
      /\ row' = [i \in Ids |-> IF i \in ids THEN InStock(row[i]) ELSE row[i]]
  BY DEF Restock, Tasks
<1>2. ASSUME NEW i \in Ids
      PROVE  /\ row'[i] \in PlanType
             /\ \/ Restocked(i)
                \/ SameMark(row'[i], row[i]) /\ (row'[i].active <=> row[i].active)
  <2>1. row[i] \in PlanType
    BY CatalogIs
  <2>2. /\ row'[i] \in PlanType /\ row'[i].there = row[i].there
        /\ row[i].out = "no" => row'[i] = row[i]
    BY <1>1, <2>1, InStockRow
  <2>3. CASE row[i].out # "no"
    BY <2>2, <2>3 DEF Restocked
  <2>4. CASE row[i].out = "no"
    BY <2>2, <2>4 DEF SameMark
  <2>. QED BY <2>2, <2>3, <2>4
<1>3. row' \in [Ids -> PlanType]
  BY <1>1, <1>2
<1>4. offer' \in OfferType /\ click' \in [Clicks -> ClickType]
  BY <1>1 DEF CatalogInv, CatalogTypes
<1>. QED BY <1>1, <1>2, <1>3, <1>4, NoWishKeeps

LEMMA SwitchOnKeeps ==
  ASSUME CatalogInv, NEW i \in Ids, SwitchOn(i),
         UNCHANGED <<provider, barred, offer, sync, job, margin, rate, click>>
  PROVE  CatalogInv'
<1>1. PICK new : new = [k \in Ids |-> ApplyMargins(IF k = i THEN InStock(row[k])
                                                   ELSE row[k], margin)]
  OBVIOUS
<1>2. ASSUME NEW k \in Ids
      PROVE  new[k] \in PlanType
             /\ \/ SameMark(new[k], row[k])
                \/ row[k].out # "no" /\ (new[k].there <=> row[k].there)
  <2>1. row[k] \in PlanType
    BY CatalogIs
  <2>2. PICK q : q = IF k = i THEN InStock(row[k]) ELSE row[k]
    OBVIOUS
  <2>3. q \in PlanType /\ q.there = row[k].there /\ (row[k].out = "no" => q = row[k])
    BY <2>1, <2>2, InStockRow
  <2>4. new[k] = ApplyMargins(q, margin)
    BY <1>1, <2>2
  <2>5. new[k] \in PlanType /\ SameMark(new[k], q)
    BY <2>3, <2>4, CatalogConstants, MarginRow
  <2>. QED BY <2>3, <2>5 DEF SameMark
<1>3. new \in [Ids -> PlanType]
  BY <1>1, <1>2
<1>4. PICK on \in BOOLEAN : on = (new[i].active \/ new[i].price # 0)
  BY <1>2 DEF PlanType
<1>5. PICK p \in PlanType : p = new[i]
  BY <1>2
<1>6. PICK x : x = [p EXCEPT !.active = on]
  OBVIOUS
<1>7. x \in PlanType /\ SameMark(x, p)
  BY <1>6 DEF PlanType, SameMark
<1>8. row' = [new EXCEPT ![i] = x] /\ Follows(Moved(row') \cup {i}, row')
  BY <1>1, <1>4, <1>5, <1>6 DEF SwitchOn
<1>9. row' \in [Ids -> PlanType]
      /\ \A k \in Ids : row'[k] = IF k = i THEN x ELSE new[k]
  BY <1>3, <1>7, <1>8
<1>10. ASSUME NEW k \in Ids
       PROVE  SameMark(row'[k], row[k]) \/ Restocked(k)
  BY <1>2, <1>5, <1>7, <1>9 DEF SameMark, Restocked
<1>11. /\ wish' \in [Ids -> BOOLEAN] /\ mixed' \in [Ids -> BOOLEAN]
       /\ \A k \in Ids : Listed(k)' /\ Copied(sync, k)' /\ Copied(job, k)'
  BY <1>8, <1>9, <1>10, FollowsKeeps
<1>12. CatalogTypes'
  BY <1>9, <1>11 DEF CatalogInv, CatalogTypes
<1>. QED BY <1>11, <1>12 DEF CatalogInv

LEMMA PickKeeps ==
  ASSUME CatalogInv, NEW i \in Ids, Pick(i)
  PROVE  CatalogInv'
<1>1. UNCHANGED <<provider, barred, offer, sync, job, margin, rate, click>>
  BY DEF Pick, Tasks
<1>2. Remove(i) \/ SwitchOn(i)
  BY DEF Pick, HetznerPick, GcorePick, TimewebPick, RootPick, ScalewayPick
<1>. QED BY <1>1, <1>2, RemoveKeeps, SwitchOnKeeps

(* A plan that is imported is not hidden, and nobody holds a copy of it.   *)
LEMMA NewPlanIs ==
  ASSUME provider \in Providers, rate \in Nat, NEW c \in Nat, NEW r \in NewPlan(c)
  PROVE  r \in PlanType /\ Shown(r)
<1>1. PICK d \in Nat : r = [NoPlan EXCEPT !.there = TRUE, !.raw = c, !.cost = d]
  <2>1. provider \in Providers /\ rate \in Nat
    OBVIOUS
  <2>2. CASE provider = "hetzner"
    BY <2>2 DEF NewPlan, HetznerRow
  <2>3. CASE provider = "rootvds"
    BY <2>3 DEF NewPlan, RootRow
  <2>4. CASE provider = "timeweb"
    <3>1. TimewebCost(c) \in Nat
      BY DEF TimewebCost
    <3>. QED BY <2>4, <3>1 DEF NewPlan, TimewebRow
  <2>5. CASE provider = "gcore"
    <3>1. r \in GcoreRow(c)
      BY <2>5 DEF NewPlan
    <3>2. PICK x \in IF rate > 0 THEN {rate} ELSE {Unknown, 1} :
             r = [NoPlan EXCEPT !.there = TRUE, !.raw = c, !.cost = c + x]
      BY <3>1 DEF GcoreRow
    <3>3. PICK d \in Nat : d = c + x
      BY <2>1 DEF Unknown
    <3>. QED BY <3>2, <3>3
  <2>6. CASE provider = "scaleway"
    <3>1. ScalewayCost(c, rate) \in Nat
      BY <2>1 DEF ScalewayCost
    <3>. QED BY <2>6, <3>1 DEF NewPlan, ScalewayRow
  <2>. QED BY <2>1, <2>2, <2>3, <2>4, <2>5, <2>6 DEF Providers
<1>2. PICK b \in BOOLEAN, n \in PlanType : b = TRUE /\ n = NoPlan
  BY NoPlanIs
<1>3. r = [n EXCEPT !.there = b, !.raw = c, !.cost = d]
  BY <1>1, <1>2
<1>4. r \in PlanType /\ r.gone = n.gone /\ r.out = n.out
  BY <1>3 DEF PlanType
<1>. QED BY <1>2, <1>4, NoPlanIs DEF Shown

LEMMA ImportPlanKeeps ==
  ASSUME CatalogInv, NEW c \in Nat, ImportPlan(c), click' \in [Clicks -> ClickType],
         UNCHANGED <<provider, barred, offer, sync, job, margin, rate>>
  PROVE  CatalogInv'
<1>1. PICK i \in FreshPlans, r \in NewPlan(c) :
         LET new == [row EXCEPT ![i] = r]
             all == [k \in Ids |-> ApplyMargins(new[k], margin)]
         IN  /\ row' = all
             /\ wish'  = [k \in Ids |-> IF k = i \/ k \in Moved(all) THEN all[k].active
                                        ELSE wish[k]]
             /\ mixed' = [k \in Ids |-> IF k = i THEN FALSE
                                        ELSE IF k \in Moved(all) THEN Held(k) ELSE mixed[k]]
  BY DEF ImportPlan
<1>2. PICK new : new = [row EXCEPT ![i] = r]
  OBVIOUS
<1>3. PICK all : all = [k \in Ids |-> ApplyMargins(new[k], margin)]
  OBVIOUS
<1>4. /\ row' = all
      /\ wish'  = [k \in Ids |-> IF k = i \/ k \in Moved(all) THEN all[k].active
                                 ELSE wish[k]]
      /\ mixed' = [k \in Ids |-> IF k = i THEN FALSE
                                 ELSE IF k \in Moved(all) THEN Held(k) ELSE mixed[k]]
  BY <1>1, <1>2, <1>3
<1>5. r \in PlanType /\ Shown(r)
  BY NewPlanIs, CatalogConstants
<1>6. i \in Ids /\ ~sync.rows[i].there /\ ~job.rows[i].there
  BY DEF FreshPlans
<1>7. \A k \in Ids : new[k] \in PlanType /\ new[k] = IF k = i THEN r ELSE row[k]
  <2>1. PICK q \in PlanType : q = r
    BY <1>5
  <2>2. PICK old \in [Ids -> PlanType] : old = row
    BY CatalogConstants
  <2>3. new = [old EXCEPT ![i] = q]
    BY <1>2, <1>3, <1>4, <2>1, <2>2
  <2>4. \A k \in Ids : new[k] \in PlanType /\ new[k] = IF k = i THEN q ELSE old[k]
    BY <2>3
  <2>. QED BY <2>1, <2>2, <2>4
<1>8. ASSUME NEW k \in Ids
      PROVE  /\ all[k] \in PlanType /\ SameMark(all[k], new[k])
             /\ ~barred /\ new[k].gone => (all[k].active <=> new[k].active)
  BY <1>2, <1>3, <1>4, <1>7, MarginRow, CatalogConstants
<1>9. \A k \in Ids : all[k].active \in BOOLEAN
  BY <1>8 DEF PlanType
<1>10. \A k \in Ids : Held(k) \in BOOLEAN
  <2>1. ASSUME NEW k \in Ids PROVE row[k].gone \in BOOLEAN /\ Busy \in BOOLEAN
    BY CatalogIs DEF PlanType, Busy
  <2>. QED BY <2>1 DEF Held, Marked
<1>11. all \in [Ids -> PlanType]
  BY <1>2, <1>3, <1>4, <1>8
<1>12. wish' \in [Ids -> BOOLEAN] /\ mixed' \in [Ids -> BOOLEAN]
  <2>1. ASSUME NEW k \in Ids
        PROVE  wish'[k] \in BOOLEAN /\ mixed'[k] \in BOOLEAN
    BY <1>2, <1>3, <1>4, <1>9, <1>10, CatalogIs
  <2>2. wish' = [k \in Ids |-> wish'[k]] /\ mixed' = [k \in Ids |-> mixed'[k]]
    BY <1>2, <1>3, <1>4
  <2>. QED BY <2>1, <2>2
<1>13. ASSUME NEW k \in Ids
       PROVE  LeftAlone(k) \/ Chosen(k)
  <2>1. barred => Shown(all[k])
    BY <1>5, <1>7, <1>8, CatalogIs DEF SameMark, Listed, Shown
  <2>2. CASE k = i
    <3>1. (wish'[k] <=> all[k].active) /\ Shown(all[k])
      BY <1>2, <1>3, <1>4, <1>5, <1>7, <1>8, <2>2 DEF SameMark, Shown
    <3>. QED BY <1>2, <1>3, <1>4, <1>6, <2>1, <2>2, <3>1 DEF Chosen, Wanted, Shown
  <2>3. CASE k # i /\ k \in Moved(all)
    <3>1. (wish'[k] <=> all[k].active)
          /\ (mixed'[k] <=> row[k].gone \/ row[k].out # "no" \/ Busy)
      BY <1>2, <1>3, <1>4, <2>3 DEF Held, Marked
    <3>2. SameMark(all[k], row[k]) /\ (~barred /\ row[k].gone => (all[k].active <=> row[k].active))
      BY <1>7, <1>8, <2>3
    <3>3. ~(all[k].active <=> row[k].active)
      <4>1. all[k].active # row[k].active
        BY <2>3 DEF Moved
      <4>2. row[k].active \in BOOLEAN /\ all[k].active \in BOOLEAN
        BY <1>9, CatalogIs DEF PlanType
      <4>. QED BY <4>1, <4>2
    <3>4. ~mixed'[k] => Shown(all[k])
      BY <3>1, <3>2 DEF SameMark, Shown
    <3>5. ~mixed'[k] => ~sync.rows[k].there /\ ~job.rows[k].there
      BY <3>1, NotBusy
    <3>. QED BY <1>2, <1>3, <1>4, <2>1, <3>1, <3>4, <3>5 DEF Chosen, Wanted, Shown
  <2>4. CASE k # i /\ k \notin Moved(all)
    <3>1. wish'[k] = wish[k] /\ mixed'[k] = mixed[k]
      BY <1>2, <1>3, <1>4, <2>4
    <3>2. SameMark(all[k], row[k])
      BY <1>7, <1>8, <2>4
    <3>3. row[k].there => (all[k].active <=> row[k].active)
      BY <2>4 DEF Moved, Live
    <3>. QED BY <1>2, <1>3, <1>4, <2>1, <3>1, <3>2, <3>3 DEF LeftAlone, SameMark
  <2>. QED BY <2>2, <2>3, <2>4
<1>14. \A k \in Ids : Listed(k)' /\ Copied(sync, k)' /\ Copied(job, k)'
  BY <1>13, RowsKeep
<1>15. CatalogTypes'
  BY <1>2, <1>3, <1>4, <1>11, <1>12 DEF CatalogInv, CatalogTypes
<1>. QED BY <1>14, <1>15 DEF CatalogInv

LEMMA ClickTurns ==
  ASSUME CatalogInv, NEW c \in Clicks, NEW x \in ClickType
  PROVE  [click EXCEPT ![c] = x] \in [Clicks -> ClickType]
BY DEF CatalogInv, CatalogTypes

LEMMA PickNewKeeps ==
  ASSUME CatalogInv, NEW c \in Clicks, PickNew(c)
  PROVE  CatalogInv'
<1>1. /\ UNCHANGED <<provider, barred, offer, sync, job, margin, rate, row, wish, mixed>>
      /\ click' = [click EXCEPT ![c] = [NoClick EXCEPT !.pc = "import", !.cost = offer.cost]]
  BY DEF PickNew, Tasks
<1>2. PICK n \in Nat : n = offer.cost
  BY CatalogConstants DEF OfferType
<1>3. [NoClick EXCEPT !.pc = "import", !.cost = n] \in ClickType
  BY DEF NoClick, ClickType
<1>4. click' \in [Clicks -> ClickType]
  BY <1>1, <1>2, <1>3, ClickTurns
<1>5. offer' \in OfferType
  BY <1>1, CatalogConstants
<1>. QED BY <1>1, <1>4, <1>5, RowsUnchanged

LEMMA PickNewEndsKeeps ==
  ASSUME CatalogInv, NEW c \in Clicks, PickNewEnds(c)
  PROVE  CatalogInv'
<1>1. /\ UNCHANGED <<provider, barred, offer, sync, job, margin, rate>>
      /\ click' = [click EXCEPT ![c] = NoClick] /\ ImportPlan(click[c].cost)
  BY DEF PickNewEnds, Tasks
<1>2. NoClick \in ClickType
  BY DEF NoClick, ClickType
<1>3. PICK n \in Nat : n = click[c].cost
  BY DEF CatalogInv, CatalogTypes, ClickType
<1>4. click' \in [Clicks -> ClickType]
  BY <1>1, <1>2, ClickTurns
<1>. QED BY <1>1, <1>3, <1>4, ImportPlanKeeps

LEMMA AllOnKeeps ==
  ASSUME CatalogInv, AllOn
  PROVE  CatalogInv'
<1>1. UNCHANGED <<provider, barred, offer, sync, job, margin, rate, click>>
      /\ ImportPlan(offer.cost)
  BY DEF AllOn, Tasks
<1>2. PICK n \in Nat : n = offer.cost
  BY CatalogConstants DEF OfferType
<1>3. click' \in [Clicks -> ClickType]
  BY <1>1 DEF CatalogInv, CatalogTypes
<1>. QED BY <1>1, <1>2, <1>3, ImportPlanKeeps

LEMMA QuietKeeps ==
  ASSUME CatalogInv, AddAccount \/ ToggleAccount \/ Provider
  PROVE  CatalogInv'
<1>1. UNCHANGED <<provider, barred, sync, job, margin, rate, row, click, wish, mixed>>
  BY DEF AddAccount, ToggleAccount, Provider, Tasks
<1>2. offer' \in OfferType
  <2>1. CASE AddAccount \/ ToggleAccount
    BY <2>1, CatalogConstants DEF AddAccount, ToggleAccount, Tasks
  <2>2. CASE Provider
    <3>1. offer' \in [on : BOOLEAN, short : BOOLEAN, cost : Costs]
      BY <2>2 DEF Provider
    <3>. QED BY <3>1, CatalogAssumption DEF OfferType
  <2>. QED BY <2>1, <2>2
<1>3. click' \in [Clicks -> ClickType]
  BY <1>1 DEF CatalogInv, CatalogTypes
<1>. QED BY <1>1, <1>2, <1>3, RowsUnchanged

-----------------------------------------------------------------------------
(* The task and the handler that ask the provider.                         *)
LEMMA JobsMove ==
  ASSUME CatalogInv,
         UNCHANGED <<provider, barred, offer, margin, rate, row, click, wish, mixed>>,
         sync' \in JobType, job' \in JobType,
         \A i \in Ids : Copied(sync, i)' /\ Copied(job, i)'
  PROVE  CatalogInv'
<1>1. CatalogTypes'
  BY DEF CatalogInv, CatalogTypes
<1>2. ASSUME NEW i \in Ids
      PROVE  Listed(i)'
  BY CatalogIs DEF Listed
<1>. QED BY <1>1, <1>2 DEF CatalogInv

(* A copy of the rows as they are.                                         *)
LEMMA Loaded ==
  ASSUME CatalogInv, NEW j \in JobType, j.rows = row, j.pc # "idle", NEW i \in Ids
  PROVE  Copied(j, i)
BY CatalogIs DEF Copied, Listed

LEMMA Dropped == ASSUME NEW i \in Ids PROVE Copied(NoJob, i)
BY NoJobIs, NoPlanIs DEF Copied

LEMMA StartSyncKeeps ==
  ASSUME CatalogInv, StartSync
  PROVE  CatalogInv'
<1>1. UNCHANGED <<provider, barred, offer, margin, rate, row, job, click, wish, mixed>>
  BY DEF StartSync
<1>2. PICK x : x = [NoJob EXCEPT !.pc = "listing", !.rows = row, !.margin = margin,
                                 !.charge = rate]
  OBVIOUS
<1>3. x \in JobType /\ x.rows = row /\ x.pc = "listing"
  BY <1>2, NoJobIs, CatalogConstants DEF JobType
<1>4. sync' = x
  BY <1>2 DEF StartSync
<1>5. ASSUME NEW i \in Ids
      PROVE  Copied(sync, i)' /\ Copied(job, i)'
  <2>1. Copied(x, i) /\ Copied(job, i)
    BY <1>3, CatalogIs, Loaded
  <2>. QED BY <1>1, <1>4, <2>1 DEF Copied
<1>6. job' \in JobType
  BY <1>1, CatalogConstants
<1>. QED BY <1>1, <1>3, <1>4, <1>5, <1>6, JobsMove

LEMMA GcoreRateKeeps ==
  ASSUME CatalogInv, NEW r \in {0, 1}, GcoreRate(r)
  PROVE  CatalogInv'
<1>1. UNCHANGED <<provider, barred, offer, margin, rate, row, sync, click, wish, mixed>>
  BY DEF GcoreRate, Tasks
<1>2. PICK x : x = [NoJob EXCEPT !.pc = "pricing", !.rows = row, !.charge = r]
  OBVIOUS
<1>3. x \in JobType /\ x.rows = row /\ x.pc = "pricing"
  <2>1. PICK n \in Nat, j \in JobType, rows \in [Ids -> PlanType] :
           n = r /\ j = NoJob /\ rows = row
    BY NoJobIs, CatalogConstants
  <2>2. x = [j EXCEPT !.pc = "pricing", !.rows = rows, !.charge = n]
    BY <1>2, <2>1
  <2>. QED BY <2>1, <2>2 DEF JobType
<1>4. job' = x
  BY <1>2 DEF GcoreRate
<1>5. ASSUME NEW i \in Ids
      PROVE  Copied(sync, i)' /\ Copied(job, i)'
  <2>1. Copied(x, i) /\ Copied(sync, i)
    BY <1>3, CatalogIs, Loaded
  <2>. QED BY <1>1, <1>4, <2>1 DEF Copied
<1>6. sync' \in JobType
  BY <1>1, CatalogConstants
<1>. QED BY <1>1, <1>3, <1>4, <1>5, <1>6, JobsMove

LEMMA SyncDropped ==
  ASSUME CatalogInv, sync' = NoJob,
         UNCHANGED <<provider, barred, offer, margin, rate, row, job, click, wish, mixed>>
  PROVE  CatalogInv'
<1>1. ASSUME NEW i \in Ids
      PROVE  Copied(sync, i)' /\ Copied(job, i)'
  <2>1. Copied(NoJob, i) /\ Copied(job, i)
    BY CatalogIs, Dropped
  <2>. QED BY <2>1 DEF Copied
<1>2. sync' \in JobType /\ job' \in JobType
  BY NoJobIs, CatalogConstants
<1>. QED BY <1>1, <1>2, JobsMove

LEMMA SyncLostKeeps ==
  ASSUME CatalogInv, SyncLost
  PROVE  CatalogInv'
BY SyncDropped DEF SyncLost

(* What the synchronisation makes of a row keeps the wish, and switches it *)
(* only together with the mark.                                            *)
LEMMA HideRow ==
  ASSUME NEW r \in PlanType
  PROVE  /\ Hide(r) \in PlanType /\ (Hide(r).there <=> r.there)
         /\ \A w \in BOOLEAN : Wanted(r, w) => Wanted(Hide(r), w)
         /\ (Hide(r).gone <=> r.gone) => (Hide(r).active <=> r.active)
<1>1. CASE r.gone
  BY <1>1 DEF Hide
<1>2. CASE ~r.gone
  <2>1. PICK t \in BOOLEAN, f \in BOOLEAN, a \in BOOLEAN : t = TRUE /\ f = FALSE /\ a = r.active
    BY DEF PlanType
  <2>a. PICK u \in {"no", "yes", "bare"} : u = IF r.out = "bare" THEN "yes" ELSE r.out
    BY DEF PlanType
  <2>2. PICK x : x = [r EXCEPT !.gone = t, !.was = a, !.active = f, !.out = u]
    OBVIOUS
  <2>3. Hide(r) = x
    BY <1>2, <2>1, <2>a, <2>2 DEF Hide
  <2>b. r.out = "no" => x.out = "no"
    BY <2>a, <2>2 DEF PlanType
  <2>4. /\ x \in PlanType /\ x.there = r.there /\ x.gone = t /\ x.was = a /\ x.active = f
    BY <2>2 DEF PlanType
  <2>5. x.gone /\ ~x.active /\ (x.was <=> r.active)
    BY <2>1, <2>4
  <2>. QED BY <1>2, <2>b, <2>3, <2>4, <2>5 DEF Wanted
<1>. QED BY <1>1, <1>2

LEMMA BackRow ==
  ASSUME NEW r \in PlanType
  PROVE  /\ Back(r) \in PlanType /\ (Back(r).there <=> r.there)
         /\ \A w \in BOOLEAN : Wanted(r, w) => Wanted(Back(r), w)
         /\ (Back(r).gone <=> r.gone) => (Back(r).active <=> r.active)
<1>1. CASE ~r.gone
  BY <1>1 DEF Back
<1>2. CASE r.gone
  <2>1. PICK f \in BOOLEAN, a \in BOOLEAN : f = FALSE /\ a = (r.was /\ r.out = "no")
    BY DEF PlanType
  <2>a. PICK u \in {"no", "yes", "bare"} : u = IF r.out = "yes" THEN "bare" ELSE r.out
    BY DEF PlanType
  <2>2. PICK x : x = [r EXCEPT !.gone = f, !.was = f, !.active = a, !.out = u]
    OBVIOUS
  <2>3. Back(r) = x
    BY <1>2, <2>1, <2>a, <2>2 DEF Back
  <2>b. r.out = "no" => x.out = "no"
    BY <2>a, <2>2 DEF PlanType
  <2>4. /\ x \in PlanType /\ x.there = r.there /\ x.gone = f /\ x.was = f /\ x.active = a
    BY <2>2 DEF PlanType
  <2>5. ~x.gone /\ (r.out = "no" => (x.active <=> r.was))
    BY <2>1, <2>4
  <2>. QED BY <1>2, <2>b, <2>3, <2>4, <2>5 DEF Wanted
<1>. QED BY <1>1, <1>2

LEMMA RelistRow ==
  ASSUME NEW r \in PlanType, NEW raw \in Nat, NEW cost \in Nat, NEW m \in Margins \cup {Unset}
  PROVE  /\ Relist(r, raw, cost, m) \in PlanType
         /\ Relist(r, raw, cost, m).there <=> r.there
         /\ \A w \in BOOLEAN : Wanted(r, w) => Wanted(Relist(r, raw, cost, m), w)
         /\ (Relist(r, raw, cost, m).gone <=> r.gone)
              => (Relist(r, raw, cost, m).active <=> r.active)
<1>1. PICK x : x = [r EXCEPT !.raw = raw, !.cost = cost]
  OBVIOUS
<1>2. x \in PlanType /\ x.there = r.there /\ x.gone = r.gone /\ x.was = r.was /\ x.out = r.out
      /\ x.active = r.active
  BY <1>1 DEF PlanType
<1>3. PICK y \in PlanType : y = Back(x)
  BY <1>2, BackRow
<1>4. /\ y.there <=> x.there
      /\ \A w \in BOOLEAN : Wanted(x, w) => Wanted(y, w)
      /\ (y.gone <=> x.gone) => (y.active <=> x.active)
  BY <1>2, <1>3, BackRow
<1>5. PICK z \in PlanType : z = Priced(y, m)
  BY PricedRow
<1>6. SameMark(z, y) /\ (z.active <=> y.active)
  BY <1>5, PricedRow
<1>7. Relist(r, raw, cost, m) = z \/ Relist(r, raw, cost, m) = r
  BY <1>1, <1>3, <1>5 DEF Relist
<1>8. ASSUME NEW w \in BOOLEAN, Wanted(r, w)
      PROVE  Wanted(z, w)
  <2>1. Wanted(x, w)
    BY <1>2, <1>8 DEF Wanted
  <2>2. Wanted(y, w)
    BY <1>4, <2>1
  <2>. QED BY <1>6, <2>2 DEF Wanted, SameMark
<1>. QED BY <1>2, <1>4, <1>6, <1>7, <1>8 DEF SameMark

LEMMA SyncedRow ==
  ASSUME CatalogInv, NEW r \in PlanType, NEW j \in JobType
  PROVE  /\ Synced(r, j) \in PlanType
         /\ ~r.there => Synced(r, j) = r
         /\ barred => /\ Extra(Synced(r, j)) = Extra(r)
                      /\ Synced(r, j) = r \/ ~Synced(r, j).active
         /\ ~barred => /\ \A w \in BOOLEAN : Wanted(r, w) => Wanted(Synced(r, j), w)
                       /\ (Synced(r, j).gone <=> r.gone) => (Synced(r, j).active <=> r.active)
<1>1. j.seen.cost \in Nat /\ j.charge \in Nat /\ j.margin \in Margins \cup {Unset}
  BY DEF JobType, OfferType
<1>2. provider \in Providers /\ (barred => provider \in {"gcore", "scaleway"})
  BY CatalogConstants
<1>3. CASE ~r.there
  BY <1>3 DEF Synced
<1>4. CASE r.there /\ barred
  <2>1. Synced(r, j) = [r EXCEPT !.active = FALSE]
    BY <1>2, <1>4 DEF Synced, GcoreSync, ScalewaySync
  <2>. QED BY <1>4, <2>1, OffRow
<1>5. CASE r.there /\ ~barred
  <2>1. \/ Synced(r, j) = Hide(r)
        \/ \E raw, cost \in Nat : Synced(r, j) = Relist(r, raw, cost, j.margin)
    <3>1. TimewebCost(j.seen.cost) \in Nat /\ ScalewayCost(j.seen.cost, j.charge) \in Nat
      BY <1>1 DEF TimewebCost, ScalewayCost
    <3>2. GcoreCost(r.cost, j.seen.cost, j.charge) \in Nat
      BY <1>1 DEF GcoreCost, PlanType
    <3>3. PICK s : s = Synced(r, j)
      OBVIOUS
    <3>4. \/ s = Hide(r)
          \/ s = Relist(r, j.seen.cost, j.seen.cost, j.margin)
          \/ s = Relist(r, j.seen.cost, TimewebCost(j.seen.cost), j.margin)
          \/ s = Relist(r, j.seen.cost, ScalewayCost(j.seen.cost, j.charge), j.margin)
          \/ s = Relist(r, j.seen.cost, GcoreCost(r.cost, j.seen.cost, j.charge), j.margin)
      BY <1>2, <1>5, <3>3
      DEF Synced, HetznerSync, RootSync, TimewebSync, GcoreSync, ScalewaySync, Providers
    <3>. QED BY <1>1, <3>1, <3>2, <3>3, <3>4
  <2>2. CASE Synced(r, j) = Hide(r)
    BY <1>5, <2>2, HideRow
  <2>3. ASSUME NEW raw \in Nat, NEW cost \in Nat, Synced(r, j) = Relist(r, raw, cost, j.margin)
        PROVE  /\ Synced(r, j) \in PlanType
               /\ \A w \in BOOLEAN : Wanted(r, w) => Wanted(Synced(r, j), w)
               /\ (Synced(r, j).gone <=> r.gone) => (Synced(r, j).active <=> r.active)
    <3>1. PICK m \in Margins \cup {Unset} : m = j.margin
      BY <1>1
    <3>2. PICK z : z = Relist(r, raw, cost, m)
      OBVIOUS
    <3>3. /\ z \in PlanType
          /\ \A w \in BOOLEAN : Wanted(r, w) => Wanted(z, w)
          /\ (z.gone <=> r.gone) => (z.active <=> r.active)
      BY <3>2, RelistRow
    <3>4. Synced(r, j) = z
      BY <2>3, <3>1, <3>2
    <3>. QED BY <3>3, <3>4
  <2>. QED BY <1>5, <2>1, <2>2, <2>3
<1>. QED BY <1>3, <1>4, <1>5

(* The unit of work, for one row.                                          *)
LEMMA MergedRow ==
  ASSUME NEW r \in PlanType, NEW o \in PlanType, NEW n \in PlanType, NEW i \in Ids,
         NEW old, NEW new, old[i] = o, new[i] = n, row[i] = r
  PROVE  /\ Merged(old, new)[i] \in PlanType
         /\ Merged(old, new)[i].there <=> r.there
         /\ (n.active <=> o.active) => (Merged(old, new)[i].active <=> r.active)
         /\ ~(n.active <=> o.active) => (Merged(old, new)[i].active <=> n.active)
         /\ Extra(n) = Extra(o) => SameMark(Merged(old, new)[i], r)
         /\ Extra(n) # Extra(o) => /\ Merged(old, new)[i].gone <=> n.gone
                                   /\ Merged(old, new)[i].was <=> n.was
                                   /\ Merged(old, new)[i].out = n.out
<1>1. CASE n = o
  <2>1. Merged(old, new)[i] = r
    BY <1>1 DEF Merged
  <2>. QED BY <1>1, <2>1 DEF SameMark
<1>2. CASE n # o
  <2>1. PICK a \in BOOLEAN : a = IF n.active # o.active THEN n.active ELSE r.active
    BY DEF PlanType
  <2>2. PICK p \in Nat : p = IF n.price # o.price THEN n.price ELSE r.price
    BY DEF PlanType
  <2>3. PICK w \in Nat : w = IF Extra(n) # Extra(o) THEN n.raw ELSE r.raw
    BY DEF PlanType
  <2>4. PICK c \in Nat : c = IF Extra(n) # Extra(o) THEN n.cost ELSE r.cost
    BY DEF PlanType
  <2>5. PICK g \in BOOLEAN : g = IF Extra(n) # Extra(o) THEN n.gone ELSE r.gone
    BY DEF PlanType
  <2>6. PICK z \in BOOLEAN : z = IF Extra(n) # Extra(o) THEN n.was ELSE r.was
    BY DEF PlanType
  <2>a. PICK u \in {"no", "yes", "bare"} : u = IF Extra(n) # Extra(o) THEN n.out ELSE r.out
    BY DEF PlanType
  <2>7. PICK x : x = [r EXCEPT !.active = a, !.price = p, !.raw = w, !.cost = c, !.gone = g,
                               !.was = z, !.out = u]
    OBVIOUS
  <2>8. Merged(old, new)[i] = x
    <3>1. Merged(old, new)[i] =
            [r EXCEPT !.active = IF n.active # o.active THEN n.active ELSE @,
                      !.price  = IF n.price # o.price THEN n.price ELSE @,
                      !.raw    = IF Extra(n) # Extra(o) THEN n.raw ELSE @,
                      !.cost   = IF Extra(n) # Extra(o) THEN n.cost ELSE @,
                      !.gone   = IF Extra(n) # Extra(o) THEN n.gone ELSE @,
                      !.was    = IF Extra(n) # Extra(o) THEN n.was ELSE @,
                      !.out    = IF Extra(n) # Extra(o) THEN n.out ELSE @]
      BY <1>2 DEF Merged
    <3>2. Merged(old, new)[i] =
            [r EXCEPT !.active = IF n.active # o.active THEN n.active ELSE r.active,
                      !.price  = IF n.price # o.price THEN n.price ELSE r.price,
                      !.raw    = IF Extra(n) # Extra(o) THEN n.raw ELSE r.raw,
                      !.cost   = IF Extra(n) # Extra(o) THEN n.cost ELSE r.cost,
                      !.gone   = IF Extra(n) # Extra(o) THEN n.gone ELSE r.gone,
                      !.was    = IF Extra(n) # Extra(o) THEN n.was ELSE r.was,
                      !.out    = IF Extra(n) # Extra(o) THEN n.out ELSE r.out]
      BY <3>1, Zenon DEF PlanType
    <3>. QED BY <2>1, <2>2, <2>3, <2>4, <2>5, <2>6, <2>a, <2>7, <3>2
  <2>9. /\ x \in PlanType /\ x.there = r.there /\ x.active = a /\ x.gone = g /\ x.was = z
        /\ x.out = u
    <3>1. PICK y : y = [r EXCEPT !.active = a, !.price = p, !.raw = w, !.cost = c, !.gone = g,
                                 !.was = z]
      OBVIOUS
    <3>2. /\ y \in PlanType /\ y.there = r.there /\ y.active = a /\ y.gone = g
          /\ y.was = z
      BY <3>1 DEF PlanType
    <3>3. x = [y EXCEPT !.out = u]
      BY <2>7, <3>1
    <3>. QED BY <3>2, <3>3 DEF PlanType
  <2>10. n.active \in BOOLEAN /\ o.active \in BOOLEAN /\ r.active \in BOOLEAN
    BY DEF PlanType
  <2>11. /\ (n.active <=> o.active) => (a <=> r.active)
         /\ ~(n.active <=> o.active) => (a <=> n.active)
    BY <2>1, <2>10
  <2>12. /\ Extra(n) = Extra(o) => (g <=> r.gone) /\ (z <=> r.was) /\ u = r.out
         /\ Extra(n) # Extra(o) => (g <=> n.gone) /\ (z <=> n.was) /\ u = n.out
    BY <2>5, <2>6, <2>a
  <2>. QED BY <2>8, <2>9, <2>11, <2>12 DEF SameMark
<1>. QED BY <1>1, <1>2

LEMMA ExtraMarks ==
  ASSUME NEW r \in PlanType, NEW o \in PlanType, Extra(r) = Extra(o)
  PROVE  (r.gone <=> o.gone) /\ (r.was <=> o.was) /\ r.out = o.out
BY DEF Extra

(* The rows that a job has computed are written into the rows as they are  *)
(* now, one row: if a mark has changed since, the row is left out.         *)
LEMMA MergeKeepsWish ==
  ASSUME NEW r \in PlanType, NEW o \in PlanType, NEW n \in PlanType, NEW i \in Ids,
         NEW old, NEW new, old[i] = o, new[i] = n, row[i] = r, NEW w \in BOOLEAN,
         Wanted(r, w), Wanted(o, w), Wanted(n, w),
         Extra(n) = Extra(o) \/ Extra(r) = Extra(o),
         (n.gone <=> o.gone) => (n.active <=> o.active)
  PROVE  Wanted(Merged(old, new)[i], w)
<1>1. PICK x \in PlanType : x = Merged(old, new)[i]
  BY MergedRow
<1>2. /\ (n.active <=> o.active) => (x.active <=> r.active)
      /\ ~(n.active <=> o.active) => (x.active <=> n.active)
      /\ Extra(n) = Extra(o) => SameMark(x, r)
      /\ Extra(n) # Extra(o) => (x.gone <=> n.gone) /\ (x.was <=> n.was) /\ x.out = n.out
  BY <1>1, MergedRow
<1>3. CASE Extra(n) = Extra(o)
  <2>1. n.active <=> o.active
    BY <1>3, ExtraMarks
  <2>. QED BY <1>1, <1>2, <1>3, <2>1 DEF Wanted, SameMark
<1>4. CASE Extra(n) # Extra(o)
  <2>1. r.gone <=> o.gone
    BY <1>4, ExtraMarks
  <2>2. r.active <=> o.active
    BY <2>1 DEF Wanted
  <2>3. (x.gone <=> n.gone) /\ (x.was <=> n.was) /\ (x.active <=> n.active) /\ x.out = n.out
    BY <1>2, <1>4, <2>2
  <2>. QED BY <1>1, <2>3 DEF Wanted
<1>. QED BY <1>3, <1>4

(* What a unit of work of the synchronisation makes of a row it has loaded. *)
Computed(o, n) ==
  /\ n \in PlanType
  /\ ~o.there => n = o
  /\ barred => /\ Extra(n) = Extra(o)
               /\ n = o \/ ~n.active
  /\ ~barred => /\ \A w \in BOOLEAN : Wanted(o, w) => Wanted(n, w)
                /\ o.out = "no" => ((n.gone <=> o.gone) => (n.active <=> o.active))

LEMMA CommitRowsKeep ==
  ASSUME CatalogInv, NEW new, CommitRows(new), sync' = NoJob,
         UNCHANGED <<provider, barred, offer, margin, rate, job, click>>,
         \A i \in Ids : Computed(sync.rows[i], new[i])
  PROVE  CatalogInv'
<1>1. UNCHANGED <<provider, barred, offer, margin, rate, job, click>> /\ sync' = NoJob
  OBVIOUS
<1>2. PICK old \in [Ids -> PlanType] : old = sync.rows
  BY CatalogConstants DEF JobType
<1>4. PICK off : off = {i \in Live : barred /\ old[i].active /\ ~new[i].active}
  OBVIOUS
<1>5. \/ UNCHANGED <<row, wish, mixed>>
      \/ /\ row' = Merged(old, new)
         /\ wish' = [i \in Ids |-> wish[i] /\ i \notin off]
         /\ mixed' = [i \in Ids |-> mixed[i] \/ i \in Overwritten(old, new)]
  BY <1>2, <1>4 DEF CommitRows
<1>6. CASE UNCHANGED <<row, wish, mixed>>
  BY <1>1, <1>6, SyncDropped
<1>7. CASE /\ row' = Merged(old, new)
           /\ wish' = [i \in Ids |-> wish[i] /\ i \notin off]
           /\ mixed' = [i \in Ids |-> mixed[i] \/ i \in Overwritten(old, new)]
  <2>1. ASSUME NEW i \in Ids
        PROVE  /\ new[i] \in PlanType
               /\ ~old[i].there => new[i] = old[i]
               /\ barred => /\ Extra(new[i]) = Extra(old[i])
                            /\ new[i] = old[i] \/ ~new[i].active
               /\ ~barred => /\ \A w \in BOOLEAN : Wanted(old[i], w) => Wanted(new[i], w)
                             /\ old[i].out = "no" => ((new[i].gone <=> old[i].gone)
                                  => (new[i].active <=> old[i].active))
    BY <1>2 DEF Computed
  <2>2. ASSUME NEW i \in Ids
        PROVE  /\ row'[i] \in PlanType
               /\ row'[i].there <=> row[i].there
               /\ (new[i].active <=> old[i].active) => (row'[i].active <=> row[i].active)
               /\ ~(new[i].active <=> old[i].active) => (row'[i].active <=> new[i].active)
               /\ Extra(new[i]) = Extra(old[i]) => SameMark(row'[i], row[i])
    <3>1. PICK r \in PlanType, o \in PlanType, n \in PlanType :
             r = row[i] /\ o = old[i] /\ n = new[i]
      BY <2>1, CatalogIs
    <3>2. PICK x : x = Merged(old, new)[i]
      OBVIOUS
    <3>3. /\ x \in PlanType
          /\ x.there <=> r.there
          /\ (n.active <=> o.active) => (x.active <=> r.active)
          /\ ~(n.active <=> o.active) => (x.active <=> n.active)
          /\ Extra(n) = Extra(o) => SameMark(x, r)
      BY <3>1, <3>2, MergedRow
    <3>4. row'[i] = x
      BY <1>7, <3>2
    <3>. QED BY <3>1, <3>3, <3>4
  <2>3. row' \in [Ids -> PlanType]
    BY <1>7, <2>2 DEF Merged
  <2>4. wish' \in [Ids -> BOOLEAN] /\ mixed' \in [Ids -> BOOLEAN]
    BY <1>7
  <2>5. ASSUME NEW i \in Ids
        PROVE  /\ wish'[i] <=> wish[i] /\ i \notin off
               /\ ~mixed'[i] => ~mixed[i] /\ i \notin Overwritten(old, new)
    BY <1>7
  <2>6. ASSUME NEW i \in Ids, barred
        PROVE  Listed(i)'
    <3>1. Listed(i) /\ row[i] \in PlanType /\ wish[i] \in BOOLEAN
      BY CatalogIs
    <3>2. Extra(new[i]) = Extra(old[i])
      BY <2>1, <2>6
    <3>3. SameMark(row'[i], row[i])
      BY <2>2, <3>2
    <3>4. Shown(row'[i]) /\ Shown(row[i])
      BY <2>6, <3>1, <3>3 DEF Listed, SameMark, Shown
    <3>5. ASSUME row'[i].there, ~mixed'[i]
          PROVE  row'[i].active <=> wish'[i]
      <4>1. (row[i].active <=> wish[i]) /\ i \in Live
        BY <2>5, <3>1, <3>3, <3>4, <3>5 DEF Listed, Wanted, SameMark, Live, Shown
      <4>2. CASE i \in off
        <5>1. old[i].active /\ ~new[i].active
          BY <1>4, <4>2
        <5>2. ~row'[i].active
          BY <2>2, <5>1
        <5>. QED BY <2>5, <4>2, <5>2
      <4>3. CASE i \notin off
        <5>1. new[i].active <=> old[i].active
          <6>1. ~(old[i].active /\ ~new[i].active)
            BY <1>4, <2>6, <4>1, <4>3
          <6>2. new[i] = old[i] \/ ~new[i].active
            BY <2>1, <2>6
          <6>. QED BY <6>1, <6>2
        <5>2. row'[i].active <=> row[i].active
          BY <2>2, <5>1
        <5>. QED BY <2>5, <4>1, <4>3, <5>2
      <4>. QED BY <4>2, <4>3
    <3>. QED BY <1>1, <2>6, <3>4, <3>5 DEF Listed, Wanted, Shown
  <2>7. ASSUME NEW i \in Ids, ~barred
        PROVE  Listed(i)'
    <3>1. Listed(i) /\ Copied(sync, i) /\ row[i] \in PlanType /\ wish[i] \in BOOLEAN
      BY CatalogIs
    <3>2. wish'[i] <=> wish[i]
      BY <1>4, <2>5, <2>7
    <3>3. ASSUME row'[i].there, ~mixed'[i]
          PROVE  Wanted(row'[i], wish[i])
      <4>1. Wanted(row[i], wish[i]) /\ row[i].there /\ ~mixed[i]
        BY <2>2, <2>5, <3>1, <3>3 DEF Listed
      <4>2. CASE ~old[i].there
        <5>1. SameMark(row'[i], row[i]) /\ (row'[i].active <=> row[i].active)
          BY <2>1, <2>2, <4>2
        <5>. QED BY <4>1, <5>1 DEF Wanted, SameMark
      <4>3. CASE old[i].there
        <5>1. Wanted(old[i], wish[i])
          BY <1>2, <2>7, <3>1, <4>1, <4>3 DEF Copied
        <5>2. Wanted(new[i], wish[i])
          BY <2>1, <2>7, <3>1, <5>1
        <5>3. Extra(new[i]) = Extra(old[i]) \/ Extra(row[i]) = Extra(old[i])
          BY <2>5, <3>3, <4>1 DEF Overwritten, Live
        <5>4. (new[i].gone <=> old[i].gone) => (new[i].active <=> old[i].active)
          BY <2>1, <2>7, <5>1 DEF Wanted
        <5>5. PICK r \in PlanType, o \in PlanType, n \in PlanType, w \in BOOLEAN :
                 r = row[i] /\ o = old[i] /\ n = new[i] /\ w = wish[i]
          BY <2>1, <3>1
        <5>6. Wanted(Merged(old, new)[i], w)
          BY <4>1, <5>1, <5>2, <5>3, <5>4, <5>5, MergeKeepsWish
        <5>. QED BY <1>7, <5>5, <5>6
      <4>. QED BY <4>2, <4>3
    <3>4. row'[i].there /\ ~mixed'[i] => Wanted(row'[i], wish'[i])
      BY <3>2, <3>3 DEF Wanted
    <3>. QED BY <1>1, <2>7, <3>4 DEF Listed, Wanted
  <2>8. ASSUME NEW i \in Ids
        PROVE  Copied(sync, i)' /\ Copied(job, i)'
    <3>1. Copied(NoJob, i) /\ Copied(job, i)
      BY CatalogIs, Dropped
    <3>2. ~barred => (wish'[i] <=> wish[i])
      BY <1>4, <2>5
    <3>3. Copied(job, i)'
      BY <1>1, <2>5, <3>1, <3>2 DEF Copied, Wanted
    <3>4. Copied(sync, i)'
      BY <1>1, NoJobIs, NoPlanIs DEF Copied
    <3>. QED BY <3>3, <3>4
  <2>9. CatalogTypes'
    BY <1>1, <2>3, <2>4, NoJobIs DEF CatalogInv, CatalogTypes
  <2>. QED BY <1>1, <2>6, <2>7, <2>8, <2>9 DEF CatalogInv
<1>. QED BY <1>5, <1>6, <1>7

LEMMA CommitSyncKeeps ==
  ASSUME CatalogInv, CommitSync
  PROVE  CatalogInv'
<1>1. UNCHANGED <<provider, barred, offer, margin, rate, job, click>> /\ sync' = NoJob
  BY DEF CommitSync
<1>2. PICK out \in SUBSET Cooling : CommitRows([i \in Ids |-> Synced(Cooled(out)[i], sync)])
  BY DEF CommitSync
<1>3. PICK new : new = [i \in Ids |-> Synced(Cooled(out)[i], sync)]
  OBVIOUS
<1>4. PICK j \in JobType : j = sync
  BY CatalogConstants
<1>5. ASSUME NEW i \in Ids PROVE Computed(sync.rows[i], new[i])
  <2>1. PICK o \in PlanType : o = sync.rows[i]
    BY CatalogIs
  <2>2. PICK c : c = Cooled(out)[i]
    OBVIOUS
  <2>3. c = o \/ (o.there /\ o.out # "no" /\ c = InStock(o))
    BY <2>1, <2>2 DEF Cooled, Cooling
  <2>4. /\ c \in PlanType /\ c.there = o.there /\ (o.out = "no" => c = o)
    BY <2>1, <2>3, InStockRow
  <2>5. barred => o.out = "no"
    BY <2>1, CatalogIs DEF Copied, Shown
  <2>6. PICK n : n = Synced(c, j)
    OBVIOUS
  <2>7. /\ n \in PlanType
        /\ ~c.there => n = c
        /\ barred => /\ Extra(n) = Extra(c)
                     /\ n = c \/ ~n.active
        /\ ~barred => /\ \A w \in BOOLEAN : Wanted(c, w) => Wanted(n, w)
                      /\ (n.gone <=> c.gone) => (n.active <=> c.active)
    BY <2>4, <2>6, SyncedRow
  <2>8. new[i] = n
    BY <1>3, <1>4, <2>2, <2>6
  <2>9. CASE o.out = "no"
    <3>1. c = o
      BY <2>4, <2>9
    <3>. QED BY <2>1, <2>7, <2>8, <3>1 DEF Computed
  <2>10. CASE o.out # "no"
    <3>1. ~barred /\ \A w \in BOOLEAN : ~Wanted(o, w)
      BY <2>5, <2>10 DEF Wanted
    <3>2. ~o.there => n = o
      BY <2>3, <2>4, <2>7
    <3>. QED BY <2>1, <2>7, <2>8, <2>10, <3>1, <3>2 DEF Computed
  <2>. QED BY <2>9, <2>10
<1>. QED BY <1>1, <1>2, <1>3, <1>5, CommitRowsKeep

LEMMA ListOffersKeeps ==
  ASSUME CatalogInv, ListOffers
  PROVE  CatalogInv'
<1>1. UNCHANGED <<provider, barred, offer, margin, rate, job, click>>
      /\ sync.pc = "listing"
  BY DEF ListOffers
<1>2. CASE sync' = NoJob /\ \E out \in SUBSET Cooling : CommitRows(Cooled(out))
  <2>1. PICK out \in SUBSET Cooling : CommitRows(Cooled(out))
    BY <1>2
  <2>2. PICK new : new = Cooled(out)
    OBVIOUS
  <2>3. ASSUME NEW i \in Ids PROVE Computed(sync.rows[i], new[i])
    <3>1. PICK r \in PlanType : r = sync.rows[i]
      BY CatalogIs
    <3>2. new[i] = r \/ (i \in out /\ new[i] = InStock(r))
      BY <2>2, <3>1 DEF Cooled
    <3>3. new[i] = r \/ (r.there /\ r.out # "no" /\ new[i] = InStock(r))
      BY <3>1, <3>2 DEF Cooling
    <3>4. barred => r.out = "no"
      BY <3>1, CatalogIs DEF Copied, Shown
    <3>5. CASE new[i] = r
      BY <3>1, <3>5 DEF Computed
    <3>6. CASE r.there /\ r.out # "no" /\ new[i] = InStock(r)
      BY <3>1, <3>4, <3>6, InStockRow DEF Computed, Wanted
    <3>. QED BY <3>3, <3>5, <3>6
  <2>4. CommitRows(new)
    BY <2>1, <2>2
  <2>. QED BY <1>1, <1>2, <2>3, <2>4, CommitRowsKeep
<1>3. ASSUME NEW o \in {offer} \cup (IF offer.short /\ faults < MaxFaults
                                   THEN {[offer EXCEPT !.short = FALSE]} ELSE {}),
             NEW c \in IF provider = "gcore" THEN GcoreCharge ELSE {sync.charge},
             sync' = [sync EXCEPT !.pc = "writing", !.seen = o, !.charge = c],
             UNCHANGED <<row, wish, mixed, own>>
      PROVE  CatalogInv'
  <2>2. o \in OfferType
    BY CatalogConstants DEF OfferType
  <2>3. c \in Nat
    BY CatalogConstants DEF GcoreCharge, Unknown, JobType
  <2>4. /\ sync' \in JobType /\ sync'.rows = sync.rows /\ sync'.pc = "writing"
    BY <1>3, <2>2, <2>3, CatalogConstants DEF JobType
  <2>5. ASSUME NEW i \in Ids
        PROVE  Copied(sync, i)' /\ Copied(job, i)'
    <3>1. Copied(sync, i) /\ Copied(job, i)
      BY CatalogIs
    <3>. QED BY <1>1, <1>3, <2>4, <3>1 DEF Copied
  <2>6. job' \in JobType
    BY <1>1, CatalogConstants
  <2>. QED BY <1>1, <1>3, <2>4, <2>5, <2>6, JobsMove
<1>. QED BY <1>2, <1>3 DEF ListOffers

(* A new rate of Gcore, for one row: the margins keep the marks, and a      *)
(* hidden plan stays as it is.                                             *)
LEMMA RepricedRow ==
  ASSUME CatalogInv, NEW r \in PlanType, NEW c \in Nat
  PROVE  LET n == ApplyMargins([r EXCEPT !.cost = GcoreCost(r.cost, r.raw, c)], margin)
         IN  /\ n \in PlanType /\ SameMark(n, r)
             /\ ~barred /\ r.gone => (n.active <=> r.active)
<1>1. PICK d \in Nat : d = GcoreCost(r.cost, r.raw, c)
  BY DEF GcoreCost, PlanType
<1>2. PICK x : x = [r EXCEPT !.cost = d]
  OBVIOUS
<1>3. x \in PlanType /\ SameMark(x, r) /\ x.active = r.active
  BY <1>2, CostRow
<1>4. PICK m \in Margins \cup {Unset} : m = margin
  BY CatalogConstants
<1>5. PICK n : n = ApplyMargins(x, m)
  OBVIOUS
<1>6. n \in PlanType /\ SameMark(n, x) /\ (~barred /\ x.gone => (n.active <=> x.active))
  BY <1>3, <1>5, MarginRow, CatalogConstants
<1>7. n = ApplyMargins([r EXCEPT !.cost = GcoreCost(r.cost, r.raw, c)], margin)
  BY <1>1, <1>2, <1>4, <1>5
<1>8. SameMark(n, r) /\ (~barred /\ r.gone => (n.active <=> r.active))
  BY <1>3, <1>6 DEF SameMark
<1>. QED BY <1>6, <1>7, <1>8

LEMMA GcoreRateEndsKeeps ==
  ASSUME CatalogInv, GcoreRateEnds
  PROVE  CatalogInv'
<1>1. UNCHANGED <<provider, barred, offer, sync, margin, click>> /\ job' = NoJob
  BY DEF GcoreRateEnds, Tasks
<1>2. PICK old \in [Ids -> PlanType] : old = job.rows
  BY CatalogConstants DEF JobType
<1>3. PICK charge \in Nat : charge = job.charge
  BY CatalogConstants DEF JobType
<1>4. PICK c : /\ c \in IF job.charge > 0 THEN {job.charge} ELSE {1, Unknown}
               /\ LET new == [i \in Ids |->
                        IF ~job.rows[i].there THEN job.rows[i]
                        ELSE ApplyMargins([job.rows[i] EXCEPT !.cost =
                                 GcoreCost(job.rows[i].cost, job.rows[i].raw, c)], margin)]
                      woken == {i \in Live : new[i].active # job.rows[i].active}
                  IN  \/ UNCHANGED <<row, rate, wish, mixed>>
                      \/ /\ row' = Merged(job.rows, new) /\ rate' = job.charge
                         /\ wish' = [i \in Ids |-> IF i \in woken THEN new[i].active
                                                   ELSE wish[i]]
                         /\ mixed' = [i \in Ids |->
                               \/ i \in Overwritten(job.rows, new)
                               \/ IF i \in woken THEN Marked(row[i]) \/ sync.pc # "idle"
                                  ELSE mixed[i]]
  BY DEF GcoreRateEnds
<1>5. c \in Nat
  BY <1>3, <1>4 DEF Unknown
<1>6. PICK new : new = [i \in Ids |->
                    IF ~old[i].there THEN old[i]
                    ELSE ApplyMargins([old[i] EXCEPT !.cost =
                             GcoreCost(old[i].cost, old[i].raw, c)], margin)]
  OBVIOUS
<1>7. PICK woken : woken = {i \in Live : new[i].active # old[i].active}
  OBVIOUS
<1>8. \/ UNCHANGED <<row, rate, wish, mixed>>
       \/ /\ row' = Merged(old, new) /\ rate' = charge
          /\ wish'  = [i \in Ids |-> IF i \in woken THEN new[i].active ELSE wish[i]]
          /\ mixed' = [i \in Ids |->
                \/ i \in Overwritten(old, new)
                \/ IF i \in woken THEN Marked(row[i]) \/ sync.pc # "idle" ELSE mixed[i]]
  BY <1>2, <1>3, <1>4, <1>6, <1>7
<1>9. ASSUME NEW i \in Ids
      PROVE  /\ new[i] \in PlanType /\ SameMark(new[i], old[i])
             /\ ~barred /\ old[i].gone => (new[i].active <=> old[i].active)
  <2>1. PICK o \in PlanType : o = old[i]
    OBVIOUS
  <2>2. CASE ~o.there
    BY <1>6, <2>1, <2>2 DEF SameMark
  <2>3. CASE o.there
    <3>1. PICK n : n = ApplyMargins([o EXCEPT !.cost = GcoreCost(o.cost, o.raw, c)], margin)
      OBVIOUS
    <3>2. new[i] = n
      BY <1>6, <2>1, <2>3, <3>1
    <3>3. /\ n \in PlanType /\ SameMark(n, o)
          /\ ~barred /\ o.gone => (n.active <=> o.active)
      BY <1>5, <3>1, RepricedRow
    <3>. QED BY <2>1, <3>2, <3>3
  <2>. QED BY <2>2, <2>3
<1>10. CASE UNCHANGED <<row, rate, wish, mixed>>
  <2>1. \A i \in Ids : Copied(sync, i)' /\ Copied(job, i)'
    BY <1>1, <1>10, CatalogIs, Dropped, NoJobIs, NoPlanIs DEF Copied
  <2>. QED BY <1>1, <1>10, <2>1, NoJobIs, CatalogConstants, JobsMove
<1>11. CASE /\ row' = Merged(old, new) /\ rate' = charge
           /\ wish'  = [i \in Ids |-> IF i \in woken THEN new[i].active ELSE wish[i]]
           /\ mixed' = [i \in Ids |->
                 \/ i \in Overwritten(old, new)
                 \/ IF i \in woken THEN Marked(row[i]) \/ sync.pc # "idle" ELSE mixed[i]]
  <2>1. ASSUME NEW i \in Ids
        PROVE  row'[i] \in PlanType /\ Listed(i)' /\ Copied(sync, i)' /\ Copied(job, i)'
    <3>1. PICK r \in PlanType, o \in PlanType, n \in PlanType :
             r = row[i] /\ o = old[i] /\ n = new[i]
      BY <1>9, CatalogIs
    <3>2. PICK x : x = Merged(old, new)[i]
      OBVIOUS
    <3>3. /\ x \in PlanType
          /\ x.there <=> r.there
          /\ (n.active <=> o.active) => (x.active <=> r.active)
          /\ ~(n.active <=> o.active) => (x.active <=> n.active)
          /\ Extra(n) = Extra(o) => SameMark(x, r)
          /\ Extra(n) # Extra(o) => (x.gone <=> n.gone) /\ (x.was <=> n.was) /\ x.out = n.out
      BY <3>1, <3>2, MergedRow
    <3>4. row'[i] = x
      BY <1>11, <3>2
    <3>5. SameMark(n, o) /\ (~barred /\ o.gone => (n.active <=> o.active))
      BY <1>9, <3>1
    <3>6. i \in Live <=> r.there
      BY <3>1 DEF Live
    <3>7. i \in woken <=> r.there /\ ~(n.active <=> o.active)
      <4>1. n.active \in BOOLEAN /\ o.active \in BOOLEAN
        BY DEF PlanType
      <4>. QED BY <1>7, <3>1, <3>6, <4>1
    <3>8. /\ i \in woken => (wish'[i] <=> n.active)
          /\ i \notin woken => (wish'[i] <=> wish[i])
      BY <1>11, <3>1
    <3>9. /\ ~mixed'[i] => i \notin Overwritten(old, new)
          /\ i \in woken /\ ~mixed'[i] => Shown(r) /\ sync.pc = "idle"
          /\ i \notin woken /\ ~mixed'[i] => ~mixed[i]
      BY <1>11, <3>1 DEF Marked, Shown
    <3>10. r.there /\ i \notin Overwritten(old, new) => Extra(n) = Extra(o) \/ Extra(r) = Extra(o)
      BY <3>1, <3>6 DEF Overwritten
    <3>11. Extra(r) = Extra(o) => (r.gone <=> o.gone) /\ (r.was <=> o.was) /\ r.out = o.out
      BY ExtraMarks
    <3>12. /\ r.there /\ ~mixed[i] => Wanted(r, wish[i])
           /\ barred => Shown(r) /\ Shown(o)
      BY <1>2, <3>1, CatalogIs DEF Listed, Copied
    <3>13. barred => Shown(x)
      BY <3>3, <3>5, <3>12 DEF SameMark, Shown
    <3>14. x.there /\ ~mixed'[i] => (x.gone <=> r.gone) /\ (x.was <=> r.was) /\ x.out = r.out
      BY <3>3, <3>5, <3>9, <3>10, <3>11 DEF SameMark
    <3>15. x.there /\ ~mixed'[i] /\ i \in woken => Wanted(x, wish'[i])
      BY <3>3, <3>7, <3>8, <3>9, <3>14 DEF Wanted, Shown
    <3>16. x.there /\ ~mixed'[i] /\ i \notin woken => Wanted(x, wish'[i])
      BY <3>3, <3>7, <3>8, <3>9, <3>12, <3>14 DEF Wanted
    <3>17. Listed(i)'
      BY <1>1, <3>4, <3>13, <3>15, <3>16 DEF Listed
    <3>18. Copied(sync, i)'
      BY <1>1, <3>8, <3>9, CatalogIs DEF Copied, Wanted
    <3>19. Copied(job, i)'
      BY <1>1, NoJobIs, NoPlanIs DEF Copied
    <3>. QED BY <3>3, <3>4, <3>17, <3>18, <3>19
  <2>2. row' \in [Ids -> PlanType]
    BY <1>11, <2>1 DEF Merged
  <2>3. wish' \in [Ids -> BOOLEAN]
    <3>1. ASSUME NEW i \in Ids
          PROVE  (IF i \in woken THEN new[i].active ELSE wish[i]) \in BOOLEAN
      <4>1. new[i].active \in BOOLEAN /\ wish[i] \in BOOLEAN
        BY <1>9, CatalogIs DEF PlanType
      <4>. QED BY <4>1
    <3>. QED BY <1>11, <3>1
  <2>4. mixed' \in [Ids -> BOOLEAN]
    BY <1>11
  <2>5. CatalogTypes'
    BY <1>1, <1>11, <2>2, <2>3, <2>4, NoJobIs DEF CatalogInv, CatalogTypes
  <2>. QED BY <1>1, <2>1, <2>5 DEF CatalogInv
<1>. QED BY <1>10, <1>11, <1>8

-----------------------------------------------------------------------------
(* At first nothing is copied, and what is on sale is what is wanted.       *)
LEMMA CatalogStarts == CatalogInit => CatalogInv
<1>. SUFFICES ASSUME CatalogInit PROVE CatalogInv
  OBVIOUS
<1>1. /\ provider \in Providers /\ barred \in BOOLEAN /\ rate = 0
      /\ margin \in Margins \cup {Unset} /\ sync = NoJob /\ job = NoJob
  BY DEF CatalogInit, Providers
<1>2. barred => provider \in {"gcore", "scaleway"}
  BY DEF CatalogInit
<1>3. offer \in OfferType /\ offer.cost \in Nat
  BY CatalogAssumption DEF CatalogInit, OfferType
<1>4. click \in [Clicks -> ClickType]
  BY DEF CatalogInit, NoClick, ClickType
<1>5. ASSUME NEW i \in Ids
      PROVE  row[i] \in PlanType /\ ~row[i].gone /\ (barred => row[i].out = "no")
  <2>1. NoPlan \in PlanType /\ ~NoPlan.gone /\ NoPlan.out = "no"
    BY NoPlanIs DEF Shown
  <2>2. ASSUME NEW r \in NewPlan(offer.cost)
        PROVE  /\ [r EXCEPT !.active = TRUE] \in PlanType
               /\ ~[r EXCEPT !.active = TRUE].gone
               /\ [r EXCEPT !.active = TRUE].out = "no"
               /\ ApplyMargins(r, margin) \in PlanType
               /\ ~ApplyMargins(r, margin).gone
               /\ ApplyMargins(r, margin).out = "no"
    <3>2. r \in PlanType /\ Shown(r)
      BY <1>1, <1>3, NewPlanIs
    <3>3. PICK b \in BOOLEAN : b = TRUE
      OBVIOUS
    <3>4. PICK x : x = [r EXCEPT !.active = b]
      OBVIOUS
    <3>5. x \in PlanType /\ x.gone = r.gone /\ x.out = r.out
      BY <3>2, <3>4 DEF PlanType
    <3>6. x = [r EXCEPT !.active = TRUE]
      BY <3>3, <3>4
    <3>7. PICK z : z = ApplyMargins(r, margin)
      OBVIOUS
    <3>8. z \in PlanType /\ (z.gone <=> r.gone) /\ z.out = r.out
      BY <1>1, <3>2, <3>7, MarginRow DEF SameMark
    <3>. QED BY <3>2, <3>5, <3>6, <3>7, <3>8 DEF Shown
  <2>3. ASSUME NEW r \in NewPlan(offer.cost), NEW on \in BOOLEAN
        PROVE  /\ [ApplyMargins(r, margin) EXCEPT !.active = FALSE, !.was = on,
                                                 !.out = "yes"] \in PlanType
               /\ ~[ApplyMargins(r, margin) EXCEPT !.active = FALSE, !.was = on,
                                                  !.out = "yes"].gone
    <3>1. PICK z \in PlanType, b \in BOOLEAN : z = ApplyMargins(r, margin) /\ b = FALSE
      BY <2>2
    <3>2. PICK y : y = [z EXCEPT !.active = b, !.was = on, !.out = "yes"]
      OBVIOUS
    <3>3. y \in PlanType /\ y.gone = z.gone
      BY <3>2 DEF PlanType
    <3>4. y = [ApplyMargins(r, margin) EXCEPT !.active = FALSE, !.was = on, !.out = "yes"]
      BY <3>1, <3>2
    <3>. QED BY <2>2, <3>1, <3>3, <3>4
  <2>4. CASE row = [k \in Ids |-> NoPlan]
    BY <2>1, <2>4
  <2>5. CASE \E r \in NewPlan(offer.cost) :
               row = [k \in Ids |-> IF k # FirstRow THEN NoPlan
                                    ELSE IF barred THEN [r EXCEPT !.active = TRUE]
                                    ELSE ApplyMargins(r, margin)]
    BY <2>1, <2>2, <2>5
  <2>6. CASE /\ provider = "timeweb"
             /\ \E r \in NewPlan(offer.cost), on \in BOOLEAN :
                  row = [k \in Ids |-> IF k # FirstRow THEN NoPlan
                           ELSE [ApplyMargins(r, margin) EXCEPT
                                   !.active = FALSE, !.was = on, !.out = "yes"]]
    <3>1. ~barred
      BY <1>2, <2>6
    <3>. QED BY <2>1, <2>3, <2>6, <3>1
  <2>. QED BY <2>4, <2>5, <2>6 DEF CatalogInit
<1>a. row \in [Ids -> PlanType]
  <2>1. row = [i \in Ids |-> row[i]]
    BY DEF CatalogInit
  <2>. QED BY <1>5, <2>1
<1>6. ASSUME NEW i \in Ids
      PROVE  Listed(i) /\ Copied(sync, i) /\ Copied(job, i)
  <2>1. row[i] \in PlanType /\ row[i].active \in BOOLEAN /\ ~row[i].gone
        /\ (barred => row[i].out = "no")
    BY <1>5 DEF PlanType
  <2>2. wish[i] <=> row[i].active
    BY DEF CatalogInit
  <2>3. ~mixed[i] => row[i].out = "no"
    BY DEF CatalogInit
  <2>4. Listed(i)
    BY <2>1, <2>2, <2>3 DEF Listed, Wanted, Shown
  <2>. QED BY <1>1, <2>1, <2>4, Dropped
<1>7. wish \in [Ids -> BOOLEAN] /\ mixed \in [Ids -> BOOLEAN]
  BY <1>5 DEF CatalogInit, PlanType
<1>8. CatalogTypes
  BY <1>1, <1>3, <1>4, <1>a, <1>7, NoJobIs DEF CatalogTypes
<1>. QED BY <1>2, <1>6, <1>8 DEF CatalogInv

LEMMA CatalogStep == CatalogInv /\ [CatalogNext]_catalogVars => CatalogInv'
<1>. SUFFICES ASSUME CatalogInv, [CatalogNext]_catalogVars PROVE CatalogInv'
  OBVIOUS
<1>1. ASSUME Sync PROVE CatalogInv'
  BY <1>1, StartSyncKeeps, ListOffersKeeps, CommitSyncKeeps DEF Sync
<1>2. ASSUME NEW i \in Ids, OnRow(i) PROVE CatalogInv'
  BY <1>2, TogglePlanKeeps, DeletePlanKeeps, EditPriceKeeps, PickKeeps DEF OnRow
<1>3. ASSUME NEW r \in {0, 1}, ScalewayRate(r) \/ GcoreRate(r) PROVE CatalogInv'
  BY <1>3, ScalewayRateKeeps, GcoreRateKeeps
<1>a. ASSUME NEW i \in Ids, Restock({i}) PROVE CatalogInv'
  BY <1>a, RestockKeeps
<1>b. ASSUME Restock(Ids) PROVE CatalogInv'
  BY <1>b, RestockKeeps
<1>4. ASSUME NEW c \in Clicks, PickNew(c) \/ PickNewEnds(c) PROVE CatalogInv'
  BY <1>4, PickNewKeeps, PickNewEndsKeeps
<1>5. ASSUME CatalogAdmin PROVE CatalogInv'
  BY <1>2, <1>3, <1>a, <1>b, <1>4, <1>5, SetMarginKeeps, GcoreRateEndsKeeps, AllOnKeeps, AllOffKeeps,
     QuietKeeps, DeleteAccountKeeps DEF CatalogAdmin
<1>6. CASE UNCHANGED catalogVars
  <2>1. UNCHANGED <<provider, barred, offer, sync, job, click, margin, rate, row, wish, mixed>>
    BY <1>6 DEF catalogVars
  <2>2. offer' \in OfferType /\ click' \in [Clicks -> ClickType]
    BY <2>1 DEF CatalogInv, CatalogTypes
  <2>. QED BY <2>1, <2>2, RowsUnchanged
<1>. QED BY <1>1, <1>5, <1>6, SyncLostKeeps, QuietKeeps, SoldKeeps DEF CatalogNext

(* The rows, and the copies that the task and the handler of a rate hold,  *)
(* are as the administrator wants them, whatever prices, outages and other *)
(* transactions have come in between.                                      *)
THEOREM CatalogInvariant == CatalogSpec => []CatalogInv
BY CatalogStarts, CatalogStep, PTL DEF CatalogSpec

(* The variables of the catalogue keep their types.                        *)
THEOREM CatalogTypeCorrect == CatalogSpec => []CatalogTypes
<1>1. CatalogInv => CatalogTypes
  BY DEF CatalogInv
<1>. QED BY <1>1, CatalogInvariant, PTL

(* A plan is on sale exactly when the administrator wants it and it is not *)
(* hidden, and a hidden plan remembers the wish, for any rows, costs and   *)
(* margins and however many outages, settings and lost transactions: no    *)
(* sequence of them leaves a plan off that should have come back, or sells *)
(* one that was switched off.                                              *)
THEOREM KeepsWishTheorem == CatalogSpec => []KeepsWish
<1>1. CatalogInv => KeepsWish
  <2>. SUFFICES ASSUME CatalogInv, NEW i \in Live, ~mixed[i]
                PROVE  /\ row[i].active = (wish[i] /\ ~row[i].gone)
                       /\ row[i].gone => row[i].was = wish[i]
    BY DEF KeepsWish
  <2>1. i \in Ids /\ row[i].there
    BY DEF Live
  <2>2. Wanted(row[i], wish[i]) /\ row[i] \in PlanType /\ wish[i] \in BOOLEAN
    BY <2>1, CatalogIs DEF Listed
  <2>3. row[i].active \in BOOLEAN /\ row[i].was \in BOOLEAN /\ row[i].gone \in BOOLEAN
    BY <2>2 DEF PlanType
  <2>. QED BY <2>2, <2>3 DEF Wanted
<1>. QED BY <1>1, CatalogInvariant, PTL
=============================================================================
