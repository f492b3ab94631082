--------------------------- MODULE RemindersProofs ---------------------------
(***************************************************************************)
(* Theorems about Reminders, for every number of users, devices, items,    *)
(* requests and runs: the types, whom a run tells, what becomes of what a  *)
(* user was told, and that nothing breaks while requests come one by one.  *)
(***************************************************************************)
EXTENDS Reminders, FiniteSetTheorems, WellFoundedInduction, TLAPS

---------------------------------------------------------------------------
(* The inductive invariant.                                                *)

(* Ids are drawn in order, and a row found is still that of its user.      *)
Ids ==
  /\ \A p \in prefs : p.id <= lastId
  /\ \A t \in Tokens : devices[t] # None => devices[t].id <= lastId
  /\ \A r \in Reqs :
       /\ pc[r] = "write" =>
            /\ found[r] \in Preference
            /\ \E p \in prefs : p.id = found[r].id /\ p.user = call[r].user
       /\ pc[r] = "delete" =>
            found[r] \in Device /\ found[r].user = call[r].user /\ found[r].id <= lastId

(* Where a request is and what it may have answered.                       *)
Progress ==
  \A r \in Reqs :
    /\ (pc[r] = "idle") = (call[r] = None)
    /\ (pc[r] = "done") = (code[r] # None)
    /\ earlier[r] \subseteq Answered
    /\ pc[r] = "create" => call[r].op \in {"get", "update"}
    /\ pc[r] = "write" => call[r].op = "update"
    /\ pc[r] = "delete" => call[r].op = "unregister"
    /\ code[r] = "404" => call[r].op = "unregister"

(* A call answered before is in the cache, so it is not carried out again. *)
NoSecondEffect ==
  \A r \in Reqs :
    /\ code[r] = "200" => call[r].key = None \/ call[r] \in cache
    /\ call[r] # None /\ code[r] # "replay" =>
         call[r].key = None \/ \A p \in earlier[r] : call[p] = call[r] => code[p] # "200"

(* The run: what it holds at each stage.                                   *)
RunHolds ==
  /\ before \subseteq Answered
  /\ run # "idle" => now \in Clocks
  /\ run \in {"devices", "items", "push"} => todo # {}
  /\ run \in {"items", "push"} => pending # {}
  /\ run = "done" => todo = {}

(* A request has gone past what may still refuse it.                       *)
Acts(q) == pc[q] \in {"write", "delete", "respond", "done"}

(* Another update for the same user may explain that r's is undone.        *)
Redone(r) ==
  \E q \in Reqs : MayUndo(q, r) /\ Acts(q) /\ call[q].op = "update" /\ call[q].user = call[r].user

Mutes(r) ==
  /\ call[r] # None /\ call[r].op = "update"
  /\ "expiry_reminder_enabled" \in DOMAIN call[r].what
  /\ ~call[r].what.expiry_reminder_enabled

MuteKept ==
  \A r \in Reqs : Mutes(r) /\ ~Redone(r) =>
    /\ pc[r] = "write" /\ ~found[r].set.expiry_reminder_enabled =>
         \E p \in prefs : p.id = found[r].id /\ ~p.set.expiry_reminder_enabled
    /\ pc[r] = "respond" \/ code[r] = "200" =>
         \E p \in RowsOf(call[r].user) : ~p.set.expiry_reminder_enabled
    /\ r \in before /\ code[r] = "200" =>
         /\ PushedTo(call[r].user) = {}
         /\ run \in {"devices", "items", "push"} => User # call[r].user

(* Another call about the device may explain that r's is undone.           *)
Replaced(r) ==
  \E q \in Reqs :
    /\ MayUndo(q, r) /\ Acts(q)
    /\ \/ call[q].op = "register" /\ call[q].what = call[r].what
       \/ call[q].op = "unregister" /\ (call[q].user = call[r].user \/ r \notin earlier[q])

Registers(r) == call[r] # None /\ call[r].op = "register"

RegistrationKept ==
  \A r \in Reqs : Registers(r) /\ ~Replaced(r) /\ (pc[r] = "respond" \/ code[r] = "200") =>
    /\ Owners(call[r].what) = {call[r].user}
    /\ \A q \in Reqs :
         pc[q] = "delete" /\ r \in earlier[q] /\ found[q].id = devices[call[r].what].id =>
           call[q].user = call[r].user

(* The one row of the user, and what the run finds if it is to be told.    *)
Asks(u, p) == RowsOf(u) = {p} /\ Tells(p.set)
IsTold(u) == \E p \in RowsOf(u) : Tells(p.set) /\ _collect_due_items(u, p.set.reminder_days_before) # {}

Served(u) ==
  /\ Running /\ u \in todo /\ ~(run = "push" /\ u = User) => PushedTo(u) = {}
  /\ run \in {"devices", "items", "push"} /\ u = User =>
       \E p \in RowsOf(u) : Asks(u, p) /\ days = p.set.reminder_days_before
  /\ run \in {"items", "push"} /\ u = User => pending \cup PushedTo(u) = TokensOf(u)
  /\ run = "push" /\ u = User => _collect_due_items(u, days) # {}
  /\ run \notin {"idle", "aborted"} /\ u \notin todo => PushedTo(u) = IF IsTold(u) THEN TokensOf(u) ELSE {}

SteadyServed == \A u \in steady : Served(u)

(* While requests come one by one.                                         *)
CalmRows ==
  Calm =>
    /\ \A p, q \in prefs : p.user = q.user => p = q
    /\ \A r \in Reqs :
         /\ pc[r] = "create" => RowsOf(call[r].user) = {}
         /\ pc[r] = "respond" /\ call[r].op = "register" => devices[call[r].what] # None
         /\ code[r] # "500"
    /\ run # "aborted"

RemindersInvariant ==
  /\ TypeOK /\ Ids /\ Progress /\ NoSecondEffect /\ RunHolds
  /\ MuteKept /\ RegistrationKept /\ SteadyServed /\ CalmRows

---------------------------------------------------------------------------
(* Helpers.                                                                *)
LEMMA LeastNumber ==
  ASSUME NEW T, T \subseteq Nat, T # {}
  PROVE  \E u \in T : \A v \in T : u <= v
  <1> DEFINE R == OpToRel(<, Nat)
  <1>1. IsWellFoundedOn(R, Nat)
    BY NatLessThanWellFounded, Zenon
  <1>2. \A x, y \in Nat : ~(<<y, x>> \in R) => x <= y
    BY DEF OpToRel
  <1> HIDE DEF R
  <1>3. PICK u \in T : \A v \in T : ~(<<v, u>> \in R)
    BY <1>1, WFMin
  <1> QED
    BY <1>2, <1>3

LEMMA UserIsNext == ASSUME todo \subseteq Users, todo # {} PROVE User \in todo
  <1>1. \E u \in todo : \A v \in todo : u <= v
    BY LeastNumber, RemindersAssumption
  <1> QED
    BY <1>1 DEF User

LEMMA OneRow == ASSUME NEW S, \A p, q \in S : p = q PROVE ~(Cardinality(S) > 1)
  <1>1. CASE S = {}
    BY <1>1, FS_EmptySet
  <1>2. CASE S # {}
    <2>1. PICK p \in S : S = {p}
      BY <1>2
    <2>2. Cardinality({p}) = 1
      BY FS_Singleton
    <2> QED
      BY <2>1, <2>2
  <1> QED
    BY <1>1, <1>2

(* An update leaves settings of the right types.                           *)
LEMMA WrittenType ==
  ASSUME NEW r \in Reqs, call[r] \in Calls, call[r].op = "update", NEW p \in Preference
  PROVE  Written(r, p) \in Settings
  <1> DEFINE s == p.set
             a == call[r].what
             w == Written(r, p)
  <1>1. s \in Settings
    BY DEF Preference
  <1>2. /\ DOMAIN s = {"expiry_reminder_enabled", "reminder_days_before", "quiet_hours_start", "quiet_hours_end"}
        /\ s.expiry_reminder_enabled \in BOOLEAN /\ s.reminder_days_before \in Nat
        /\ s.quiet_hours_start \in Hours \cup {None} /\ s.quiet_hours_end \in Hours \cup {None}
    BY <1>1 DEF Settings
  <1>3. a \in Updates
    BY DEF Calls
  <1>4. \A f \in DOMAIN a : a[f] \in Accepted[f]
    BY <1>3, RemindersAssumption
  <1>5. w = [f \in DOMAIN s |-> IF f \in DOMAIN a /\ a[f] # found[r].set[f] THEN a[f] ELSE s[f]]
    BY DEF Written
  <1> HIDE DEF w, a, s
  <1>6. /\ "expiry_reminder_enabled" \in DOMAIN a => a["expiry_reminder_enabled"] \in BOOLEAN
        /\ "reminder_days_before" \in DOMAIN a => a["reminder_days_before"] \in Nat
        /\ "quiet_hours_start" \in DOMAIN a => a["quiet_hours_start"] \in Hours \cup {None}
        /\ "quiet_hours_end" \in DOMAIN a => a["quiet_hours_end"] \in Hours \cup {None}
    BY <1>4 DEF Accepted
  <1>7. /\ w["expiry_reminder_enabled"] \in BOOLEAN /\ w["reminder_days_before"] \in Nat
        /\ w["quiet_hours_start"] \in Hours \cup {None} /\ w["quiet_hours_end"] \in Hours \cup {None}
    BY <1>2, <1>5, <1>6
  <1>8. w = [expiry_reminder_enabled |-> w["expiry_reminder_enabled"],
             reminder_days_before |-> w["reminder_days_before"],
             quiet_hours_start |-> w["quiet_hours_start"], quiet_hours_end |-> w["quiet_hours_end"]]
    BY <1>2, <1>5
  <1> QED
    BY <1>7, <1>8 DEF Settings, w

(* Quiet hours: the code and the walk from hour to hour agree.             *)
LEMMA HourAhead ==
  ASSUME NEW n \in Nat \ {0}, NEW a \in 0..(n - 1), NEW k \in 0..(n - 1)
  PROVE  (a + k) % n = IF a + k < n THEN a + k ELSE a + k - n
  <1>1. CASE a + k < n
    <2>1. a + k \in 0..(n - 1)
      BY <1>1
    <2>2. \A x \in 0..(n - 1) : x % n = x
      OBVIOUS
    <2> QED
      BY <1>1, <2>1, <2>2
  <1>2. CASE a + k >= n
    <2>1. a + k \in n..(2 * n - 1)
      BY <1>2
    <2>2. \A x \in n..(2 * n - 1) : x % n = x - n
      OBVIOUS
    <2> QED
      BY <1>2, <2>1, <2>2
  <1> QED
    BY <1>1, <1>2

LEMMA QuietAgrees ==
  ASSUME NEW hour \in Hours, NEW s \in Settings
  PROVE  QuietAt(hour, s) <=> _is_within_quiet_hours(hour, s.quiet_hours_start, s.quiet_hours_end)
  <1> DEFINE n == Cardinality(Hours)
             a == s.quiet_hours_start
             b == s.quiet_hours_end
  <1>1. n \in Nat \ {0} /\ Hours = 0..(n - 1) /\ None \notin Hours
    <2>1. n \in Nat /\ Hours = 0..(n - 1) /\ Hours # {}
      BY FS_CardinalityType, RemindersAssumption
    <2>2. None \notin Int
      BY RemindersAssumption
    <2> QED
      BY <2>1, <2>2
  <1>2. a \in Hours \cup {None} /\ b \in Hours \cup {None}
    BY DEF Settings
  <1>3. CASE a = None \/ b = None
    BY <1>3 DEF QuietAt, _is_within_quiet_hours
  <1>4. CASE a \in Hours /\ b \in Hours
    <2> DEFINE Ahead(k) == (a + k) % n
    <2>1. \A k \in 0..(n - 1) : Ahead(k) = IF a + k < n THEN a + k ELSE a + k - n
      BY <1>1, <1>4, HourAhead
    <2>2. QuietAt(hour, s) <=> \E k \in 0..(n - 1) : hour = Ahead(k) /\ \A j \in 1..k : Ahead(j) # b
      BY <1>1, <1>4 DEF QuietAt
    <2>3. _is_within_quiet_hours(hour, a, b) <=>
            a = b \/ (a < b /\ a <= hour /\ hour < b) \/ (a > b /\ (hour >= a \/ hour < b))
      BY <1>1, <1>4 DEF _is_within_quiet_hours
    <2> HIDE DEF n, Ahead, a, b
    <2> DEFINE h == IF hour >= a THEN hour - a ELSE hour - a + n
    <2>4. a \in 0..(n - 1) /\ b \in 0..(n - 1) /\ hour \in 0..(n - 1) /\ h \in 0..(n - 1) /\ n \in Nat \ {0}
      BY <1>1, <1>4
    <2>5. Ahead(h) = hour /\ \A k \in 0..(n - 1) : Ahead(k) = hour => k = h
      BY <2>1, <2>4
    <2>6. QuietAt(hour, s) <=> \A j \in 1..h : Ahead(j) # b
      BY <2>2, <2>4, <2>5
    <2> DEFINE e == IF b >= a THEN b - a ELSE b - a + n
    <2>7. e \in 0..(n - 1) /\ \A j \in 0..(n - 1) : Ahead(j) = b <=> j = e
      BY <2>1, <2>4
    <2>8. \A j \in 1..h : j \in 0..(n - 1)
      BY <2>4
    <2>9. QuietAt(hour, s) <=> ~(e \in 1..h)
      BY <2>6, <2>7, <2>8
    <2>10. ~(e \in 1..h) <=>
             a = b \/ (a < b /\ a <= hour /\ hour < b) \/ (a > b /\ (hour >= a \/ hour < b))
      BY <2>4
    <2> QED
      BY <2>3, <2>9, <2>10 DEF a, b
  <1> QED
    BY <1>2, <1>3, <1>4

LEMMA CallFields ==
  ASSUME NEW c \in Calls
  PROVE  /\ c.user \in Users /\ c.op \in {"get", "update", "register", "unregister"}
         /\ c.op = "get" => c.key = None
         /\ c.op # "get" => c.key \in Reqs /\ c.key # None
         /\ c.op = "update" => c.what \in Updates
         /\ c.op = "register" => c.what \in Tokens
         /\ c # None
  <1>1. \A k \in Reqs : k # None
    BY RemindersAssumption
  <1> QED
    BY <1>1, RemindersAssumption DEF Calls

LEMMA DefaultsType == Defaults \in Settings
  BY DEF Defaults, Settings

---------------------------------------------------------------------------
(* The first state.                                                        *)
LEMMA InvariantInit == Init => RemindersInvariant
  <1> SUFFICES ASSUME Init PROVE RemindersInvariant
    OBVIOUS
  <1>1. /\ prefs \subseteq Preference /\ lastId \in Nat /\ \A p \in prefs : p.id <= lastId
        /\ \A p, q \in prefs : p.user = q.user \/ p.id = q.id => p = q
    BY RemindersAssumption, FS_CardinalityType DEF Init
  <1>0. /\ MaxRuns \in Nat /\ MaxChanges \in Nat /\ FirstDates \subseteq Dates
        /\ None # "200" /\ None # "404" /\ None # "500"
    BY RemindersAssumption DEF Answers
  <1>2. TypeOK
    <2>1. \A p, q \in prefs : p.id = q.id => p = q
      BY <1>1
    <2>2. /\ expiry \in [Items -> Dates \cup {None}] /\ devices \in [Tokens -> Device \cup {None}]
          /\ \A t \in Tokens : devices[t] = None
      BY <1>0 DEF Init
    <2>3. 0 \in 0..MaxRuns /\ 0 \in 0..MaxChanges
      BY <1>0
    <2> QED
      BY <1>1, <2>1, <2>2, <2>3 DEF Init, TypeOK
  <1>3. Ids
    BY <1>1 DEF Init, Ids
  <1>4. Progress /\ NoSecondEffect /\ RunHolds
    BY <1>0 DEF Init, Progress, NoSecondEffect, RunHolds
  <1>5. MuteKept /\ RegistrationKept /\ SteadyServed
    BY DEF Init, MuteKept, Mutes, RegistrationKept, Registers, SteadyServed
  <1>6. CalmRows
    BY <1>0, <1>1 DEF Init, CalmRows
  <1> QED
    BY <1>2, <1>3, <1>4, <1>5, <1>6 DEF RemindersInvariant

---------------------------------------------------------------------------
(* Types, one step per action.                                             *)
LEMMA ActiveCall ==
  ASSUME TypeOK, Progress, NEW r \in Reqs, pc[r] # "idle"
  PROVE  call[r] \in Calls
  BY DEF TypeOK, Progress

LEMMA AskedCalls == ASSUME TypeOK PROVE Asked \subseteq Calls
  <1>1. Known \subseteq Nat
    BY DEF Known, TypeOK, Device
  <1> QED
    BY <1>1 DEF Asked, Calls

LEMMA TypeStep == TypeOK /\ Ids /\ Progress /\ RunHolds /\ [Next]_vars => TypeOK'
  <1> SUFFICES ASSUME TypeOK, Ids, Progress, RunHolds, [Next]_vars PROVE TypeOK'
    OBVIOUS
  <1> USE DEF Goto, Finding, Answer, tables, requests, task
  <1>0. \A r \in Reqs : pc[r] # "idle" => call[r] \in Calls
    BY ActiveCall
  <1>1. ASSUME NEW r \in Reqs, NEW c \in Asked, Receive(r, c) PROVE TypeOK'
    <2>1. c \in Calls /\ Answered \subseteq Reqs
      BY AskedCalls DEF Answered
    <2> QED
      BY <1>1, <2>1 DEF Receive, TypeOK, Answers
  <1>2. ASSUME NEW r \in Reqs, get_preferences(r) PROVE TypeOK'
    <2>1. RowsOf(call[r].user) \subseteq Preference
      BY DEF RowsOf, TypeOK
    <2> QED
      BY <1>2, <2>1 DEF get_preferences, TypeOK, Answers
  <1>3. ASSUME NEW r \in Reqs, create_default_preferences(r) PROVE TypeOK'
    <2> DEFINE p == [id |-> lastId + 1, user |-> call[r].user, set |-> Defaults]
    <2>1. p \in Preference /\ lastId + 1 \in Nat
      BY <1>0, <1>3, CallFields, DefaultsType DEF create_default_preferences, Preference, TypeOK
    <2>2. \A q \in prefs : q.id # p.id
      BY DEF Ids, TypeOK, Preference
    <2>3. prefs' = prefs \cup {p} /\ found' = [found EXCEPT ![r] = p]
      BY <1>3 DEF create_default_preferences
    <2> HIDE DEF p
    <2>4. \A x, y \in prefs' : x.id = y.id => x = y
      BY <2>2, <2>3 DEF TypeOK
    <2> QED
      BY <1>3, <2>1, <2>3, <2>4 DEF create_default_preferences, Concerns, TypeOK
  <1>4. ASSUME NEW r \in Reqs, update_preferences(r) PROVE TypeOK'
    <2> DEFINE f(p) == IF p.id = found[r].id THEN [p EXCEPT !.set = Written(r, p)] ELSE p
    <2>1. \A p \in prefs : Written(r, p) \in Settings
      BY <1>0, <1>4, WrittenType DEF update_preferences, Progress, TypeOK
    <2>2. \A p \in prefs : f(p) \in Preference /\ f(p).id = p.id
      BY <2>1 DEF TypeOK, Preference
    <2>3. prefs' = {f(p) : p \in prefs}
      BY <1>4 DEF update_preferences
    <2> HIDE DEF f
    <2>4. prefs' \subseteq Preference /\ \A x, y \in prefs' : x.id = y.id => x = y
      BY <2>2, <2>3 DEF TypeOK
    <2> QED
      BY <1>4, <2>4 DEF update_preferences, Concerns, TypeOK
  <1>5. ASSUME NEW r \in Reqs, upsert_device_token(r) PROVE TypeOK'
    <2> DEFINE t == call[r].what
               d == [id |-> IF devices[t] = None THEN lastId + 1 ELSE devices[t].id, user |-> call[r].user]
    <2>1. t \in Tokens /\ call[r].user \in Users
      BY <1>0, <1>5, CallFields DEF upsert_device_token
    <2>2. d \in Device /\ devices' = [devices EXCEPT ![t] = d] /\ lastId' \in Nat
      BY <1>5, <2>1 DEF upsert_device_token, Device, TypeOK
    <2>3. \A s \in Tokens : s # t /\ devices[s] # None => devices[s].id # d.id
      BY <2>1 DEF TypeOK, Ids, Device
    <2> HIDE DEF d
    <2>4. /\ devices' \in [Tokens -> Device \cup {None}]
          /\ \A x, y \in Tokens : devices'[x] # None /\ devices'[y] # None
                                  /\ devices'[x].id = devices'[y].id => x = y
      BY <2>1, <2>2, <2>3 DEF TypeOK
    <2> QED
      BY <1>5, <2>2, <2>4 DEF upsert_device_token, Concerns, TypeOK
  <1>6. ASSUME NEW r \in Reqs, unregister_device_token(r) PROVE TypeOK'
    <2>1. \A t \in get_device_token(r) : devices[t] \in Device
      BY DEF get_device_token, TypeOK
    <2> QED
      BY <1>6, <2>1 DEF unregister_device_token, TypeOK, Answers
  <1>7. ASSUME NEW r \in Reqs, delete_device_token(r) PROVE TypeOK'
    BY <1>7 DEF delete_device_token, Concerns, TypeOK
  <1>8. ASSUME NEW r \in Reqs, respond(r) PROVE TypeOK'
    BY <1>0, <1>8 DEF respond, TypeOK, Answers
  <1>9. ASSUME NEW r \in Reqs, Die(r) PROVE TypeOK'
    BY <1>9 DEF Die, TypeOK, Answers
  <1>10. CASE Change
    <2>1. changes' \in 0..MaxChanges
      BY <1>10, RemindersAssumption DEF Change, TypeOK
    <2> QED
      BY <1>10, <2>1 DEF Change, Concerns, TypeOK
  <1>11. ASSUME NEW clock \in Clocks, send_expiry_reminders(clock) PROVE TypeOK'
    <2>1. runs' \in 0..MaxRuns /\ Answered \subseteq Reqs
      BY <1>11, RemindersAssumption DEF send_expiry_reminders, TypeOK, Answered
    <2> QED
      BY <1>11, <2>1 DEF send_expiry_reminders, TypeOK
  <1>12. CASE RunNext
    <2> USE DEF RunStep, Skip
    <2>1. CASE ReadPreference
      <3>1. RowsOf(User) \subseteq Preference /\ \A p \in Preference : p.set.reminder_days_before \in Nat
        BY DEF RowsOf, TypeOK, Preference, Settings
      <3> QED
        BY <2>1, <3>1 DEF ReadPreference, TypeOK
    <2>2. CASE ReadDevices
      BY <2>2 DEF ReadDevices, TokensOf, TypeOK
    <2>3. CASE ReadItems
      BY <2>3 DEF ReadItems, TypeOK
    <2>4. CASE Push
      <3>1. User \in Users
        BY <2>4, UserIsNext DEF Push, RunHolds, TypeOK
      <3> QED
        BY <2>4, <3>1 DEF Push, TypeOK
    <2>5. CASE Finish
      BY <2>5 DEF Finish, TypeOK
    <2> QED
      BY <1>12, <2>1, <2>2, <2>3, <2>4, <2>5 DEF RunNext
  <1>13. CASE UNCHANGED vars
    BY <1>13 DEF vars, TypeOK
  <1> QED
    BY <1>1, <1>2, <1>3, <1>4, <1>5, <1>6, <1>7, <1>8, <1>9, <1>10, <1>11, <1>12, <1>13 DEF Next, Step

---------------------------------------------------------------------------
(* Requests: a step is one of a request, or leaves requests and their      *)
(* tables alone.                                                           *)
Besides == Change \/ (\E clock \in Clocks : send_expiry_reminders(clock)) \/ RunNext \/ UNCHANGED vars

LEMMA BesidesRequests ==
  Besides => UNCHANGED <<prefs, devices, lastId, cache, pc, call, found, code, earlier>>
  BY DEF Besides, Change, send_expiry_reminders, RunNext, ReadPreference, ReadDevices, ReadItems, Push,
         Finish, RunStep, vars, tables, requests

(* A request that is handled takes a step of its own.                      *)
Handles(s) == Step(s) \/ Die(s)

LEMMA StepIsOf ==
  [Next]_vars => Besides \/ \E s \in Reqs : (\E c \in Asked : Receive(s, c)) \/ Handles(s)
  BY DEF Next, Besides, Handles

LEMMA Handled ==
  ASSUME TypeOK, NEW s \in Reqs, Handles(s)
  PROVE  /\ pc[s] \notin {"idle", "done"} /\ pc'[s] # "idle"
         /\ call' = call /\ earlier' = earlier /\ cache \subseteq cache' /\ UNCHANGED task
         /\ \A q \in Reqs : q # s => pc'[q] = pc[q] /\ code'[q] = code[q] /\ found'[q] = found[q]
         /\ pc'[s] # "done" => code'[s] = code[s]
         /\ pc'[s] = "done" => code'[s] \in {"200", "404", "500", "failed"}
         /\ pc'[s] = "done" /\ code'[s] = "200" =>
              pc[s] = "respond" /\ (call[s].key # None => call[s] \in cache')
         /\ pc'[s] = "done" /\ code'[s] = "404" => pc[s] = "lookup" /\ call[s].op = "unregister"
  <1> USE DEF Goto, Finding, Answer, tables, requests, task, TypeOK
  <1>1. CASE get_preferences(s)
    BY <1>1 DEF get_preferences
  <1>2. CASE create_default_preferences(s)
    BY <1>2 DEF create_default_preferences
  <1>3. CASE update_preferences(s)
    BY <1>3 DEF update_preferences
  <1>4. CASE upsert_device_token(s)
    BY <1>4 DEF upsert_device_token
  <1>5. CASE unregister_device_token(s)
    BY <1>5 DEF unregister_device_token
  <1>6. CASE delete_device_token(s)
    BY <1>6 DEF delete_device_token
  <1>7. CASE respond(s)
    BY <1>7 DEF respond
  <1>8. CASE Die(s)
    BY <1>8 DEF Die
  <1> QED
    BY <1>1, <1>2, <1>3, <1>4, <1>5, <1>6, <1>7, <1>8 DEF Handles, Step

(* One that has found what it acts on goes on or answers.                  *)
LEMMA OnlyOnwards ==
  ASSUME TypeOK, NEW s \in Reqs, Handles(s), pc[s] \in {"write", "delete", "respond"}
  PROVE  pc'[s] \in {"respond", "done"}
  BY DEF Handles, Step, get_preferences, create_default_preferences, update_preferences, upsert_device_token,
         unregister_device_token, delete_device_token, respond, Die, Goto, Answer, TypeOK

LEMMA Received ==
  ASSUME TypeOK, NEW s \in Reqs, NEW c \in Asked, Receive(s, c)
  PROVE  /\ pc[s] = "idle" /\ pc'[s] = (IF c \in cache THEN "done" ELSE "lookup")
         /\ code'[s] = (IF c \in cache THEN "replay" ELSE None)
         /\ call'[s] = c /\ earlier'[s] = Answered /\ found' = found
         /\ UNCHANGED <<tables, task, steady, changes>>
         /\ \A q \in Reqs : q # s => /\ pc'[q] = pc[q] /\ code'[q] = code[q]
                                    /\ call'[q] = call[q] /\ earlier'[q] = earlier[q]
  BY DEF Receive, Hit, TypeOK

LEMMA IdsStep == TypeOK /\ Ids /\ Progress /\ [Next]_vars => Ids'
  <1> SUFFICES ASSUME TypeOK, Ids, Progress, [Next]_vars PROVE Ids'
    OBVIOUS
  <1> USE DEF Goto, Finding, Answer, tables, requests, task
  <1>1. ASSUME NEW r \in Reqs, NEW c \in Asked, Receive(r, c) PROVE Ids'
    BY <1>1 DEF Receive, Ids, TypeOK
  <1>2. ASSUME NEW r \in Reqs, get_preferences(r) PROVE Ids'
    BY <1>2 DEF get_preferences, RowsOf, Ids, TypeOK
  <1>3. ASSUME NEW r \in Reqs, create_default_preferences(r) PROVE Ids'
    <2> DEFINE p == [id |-> lastId + 1, user |-> call[r].user, set |-> Defaults]
    <2>1. p \in Preference /\ lastId + 1 \in Nat
      BY <1>3, ActiveCall, CallFields, DefaultsType DEF create_default_preferences, Preference, TypeOK
    <2>2. prefs' = prefs \cup {p} /\ lastId' = lastId + 1 /\ devices' = devices
      BY <1>3 DEF create_default_preferences
    <2>3. /\ \A q \in prefs' : q.id <= lastId'
          /\ \A t \in Tokens : devices'[t] # None => devices'[t].id <= lastId'
      BY <2>2 DEF Ids, TypeOK, Preference, Device
    <2>4. ASSUME NEW q \in Reqs, pc'[q] = "write"
          PROVE  /\ found'[q] \in Preference
                 /\ \E x \in prefs' : x.id = found'[q].id /\ x.user = call'[q].user
      <3>1. p.user = call[r].user /\ p \in prefs'
        BY <2>2
      <3> HIDE DEF p
      <3> QED
        BY <1>3, <2>1, <2>2, <2>4, <3>1 DEF create_default_preferences, Ids, TypeOK, p
    <2>5. ASSUME NEW q \in Reqs, pc'[q] = "delete"
          PROVE  found'[q] \in Device /\ found'[q].user = call'[q].user /\ found'[q].id <= lastId'
      <3>1. q # r /\ pc[q] = "delete" /\ found'[q] = found[q] /\ call' = call
        BY <1>3, <2>5 DEF create_default_preferences, TypeOK
      <3> QED
        BY <2>2, <3>1 DEF Ids, TypeOK, Device
    <2> QED
      BY <2>3, <2>4, <2>5 DEF Ids
  <1>4. ASSUME NEW r \in Reqs, update_preferences(r) PROVE Ids'
    <2> DEFINE f(p) == IF p.id = found[r].id THEN [p EXCEPT !.set = Written(r, p)] ELSE p
    <2>1. \A p \in prefs : f(p).id = p.id /\ f(p).user = p.user
      BY DEF TypeOK, Preference
    <2>2. prefs' = {f(p) : p \in prefs}
      BY <1>4 DEF update_preferences
    <2> HIDE DEF f
    <2>3. /\ \A x \in prefs' : x.id <= lastId'
          /\ \A p \in prefs : \E x \in prefs' : x.id = p.id /\ x.user = p.user
      BY <1>4, <2>1, <2>2, SMTT(30) DEF update_preferences, Ids
    <2>4. UNCHANGED <<found, call, devices, lastId>>
          /\ \A q \in Reqs : pc'[q] \in {"write", "delete"} => pc'[q] = pc[q]
      BY <1>4 DEF update_preferences, TypeOK
    <2> QED
      BY <2>3, <2>4 DEF Ids
  <1>5. ASSUME NEW r \in Reqs, upsert_device_token(r) PROVE Ids'
    <2>1. lastId <= lastId' /\ \A t \in Tokens : devices'[t] # None => devices'[t].id <= lastId'
      BY <1>5 DEF upsert_device_token, Ids, TypeOK, Device
    <2>2. \A q \in Reqs : pc'[q] \in {"write", "delete"} => q # r /\ pc'[q] = pc[q]
      BY <1>5 DEF upsert_device_token, TypeOK
    <2>3. \A p \in prefs : p.id <= lastId'
      BY <1>5, <2>1 DEF upsert_device_token, Ids, TypeOK, Preference
    <2>4. \A q \in Reqs : pc[q] = "delete" => found[q].id <= lastId'
      BY <1>5, <2>1 DEF upsert_device_token, Ids, TypeOK, Device
    <2> QED
      BY <1>5, <2>1, <2>2, <2>3, <2>4 DEF upsert_device_token, Ids
  <1>6. ASSUME NEW r \in Reqs, unregister_device_token(r) PROVE Ids'
    BY <1>6 DEF unregister_device_token, get_device_token, Ids, TypeOK
  <1>7. ASSUME NEW r \in Reqs, delete_device_token(r) PROVE Ids'
    BY <1>7 DEF delete_device_token, Ids, TypeOK
  <1>8. ASSUME NEW r \in Reqs, respond(r) PROVE Ids'
    BY <1>8 DEF respond, Ids, TypeOK
  <1>9. ASSUME NEW r \in Reqs, Die(r) PROVE Ids'
    BY <1>9 DEF Die, Ids, TypeOK
  <1>10. CASE Besides
    BY <1>10, BesidesRequests DEF Ids
  <1> QED
    BY <1>1, <1>2, <1>3, <1>4, <1>5, <1>6, <1>7, <1>8, <1>9, <1>10 DEF Next, Step, Besides

LEMMA ProgressStep == TypeOK /\ Progress /\ [Next]_vars => Progress'
  <1> SUFFICES ASSUME TypeOK, Progress, [Next]_vars PROVE Progress'
    OBVIOUS
  <1> USE DEF Goto, Finding, Answer, tables, requests, task, Progress, TypeOK, Answered
  <1>0. None \notin Answers /\ "200" \in Answers /\ "404" \in Answers /\ "500" \in Answers
        /\ "replay" \in Answers /\ "failed" \in Answers
    BY RemindersAssumption DEF Answers
  <1>1. ASSUME NEW r \in Reqs, NEW c \in Asked, Receive(r, c) PROVE Progress'
    <2>1. c # None
      BY AskedCalls, CallFields
    <2> QED
      BY <1>0, <1>1, <2>1 DEF Receive
  <1>2. ASSUME NEW r \in Reqs, get_preferences(r) PROVE Progress'
    BY <1>0, <1>2 DEF get_preferences
  <1>3. ASSUME NEW r \in Reqs, create_default_preferences(r) PROVE Progress'
    BY <1>3 DEF create_default_preferences
  <1>4. ASSUME NEW r \in Reqs, update_preferences(r) PROVE Progress'
    BY <1>4 DEF update_preferences
  <1>5. ASSUME NEW r \in Reqs, upsert_device_token(r) PROVE Progress'
    BY <1>5 DEF upsert_device_token
  <1>6. ASSUME NEW r \in Reqs, unregister_device_token(r) PROVE Progress'
    BY <1>0, <1>6 DEF unregister_device_token
  <1>7. ASSUME NEW r \in Reqs, delete_device_token(r) PROVE Progress'
    BY <1>7 DEF delete_device_token
  <1>8. ASSUME NEW r \in Reqs, respond(r) PROVE Progress'
    BY <1>0, <1>8 DEF respond
  <1>9. ASSUME NEW r \in Reqs, Die(r) PROVE Progress'
    BY <1>0, <1>9 DEF Die
  <1>10. CASE Besides
    BY <1>10, BesidesRequests
  <1> QED
    BY <1>1, <1>2, <1>3, <1>4, <1>5, <1>6, <1>7, <1>8, <1>9, <1>10 DEF Next, Step, Besides

(* An answer, a call and what was answered before it never change.         *)
LEMMA HistoryStep ==
  ASSUME TypeOK, Progress, [Next]_vars, NEW r \in Reqs
  PROVE  /\ call[r] # None => call'[r] = call[r] /\ earlier'[r] = earlier[r]
         /\ code[r] # None => code'[r] = code[r] /\ pc'[r] = pc[r]
  <1>1. CASE Besides
    BY <1>1, BesidesRequests
  <1>2. ASSUME NEW s \in Reqs, NEW c \in Asked, Receive(s, c)
        PROVE  r # s \/ pc[r] = "idle"
    BY <1>2, Received
  <1>3. ASSUME NEW s \in Reqs, Handles(s)
        PROVE  call' = call /\ earlier' = earlier /\ (r # s \/ pc[r] # "done")
    BY <1>3, Handled
  <1>4. (pc[r] = "idle") = (call[r] = None) /\ (pc[r] = "done") = (code[r] # None)
    BY DEF Progress
  <1> QED
    BY <1>1, <1>2, <1>3, <1>4, StepIsOf, Received, Handled

(* Only a call that is carried out for the first time has an effect.       *)
LEMMA NoSecondEffectStep == TypeOK /\ Progress /\ NoSecondEffect /\ [Next]_vars => NoSecondEffect'
  <1> SUFFICES ASSUME TypeOK, Progress, NoSecondEffect, [Next]_vars, NEW r \in Reqs
               PROVE  /\ code'[r] = "200" => call'[r].key = None \/ call'[r] \in cache'
                      /\ call'[r] # None /\ code'[r] # "replay" =>
                           \/ call'[r].key = None
                           \/ \A p \in earlier'[r] : call'[p] = call'[r] => code'[p] # "200"
    BY DEF NoSecondEffect
  <1>0. cache \subseteq cache'
    BY StepIsOf, BesidesRequests, Handled, Received DEF tables
  <1>1. CASE \E c \in Asked : Receive(r, c)
    <2>1. PICK c \in Asked : Receive(r, c)
      BY <1>1
    <2>2. c # None /\ "replay" # "200" /\ None # "200"
      BY AskedCalls, CallFields, RemindersAssumption DEF Answers
    <2>3. /\ code'[r] = (IF c \in cache THEN "replay" ELSE None) /\ call'[r] = c
          /\ earlier'[r] = Answered /\ cache' = cache
          /\ \A p \in Answered : p # r /\ call'[p] = call[p] /\ code'[p] = code[p]
      BY <2>1 DEF Receive, Hit, TypeOK, tables, Answered
    <2>4. Answered \subseteq Reqs
      BY DEF Answered
    <2> QED
      BY <2>2, <2>3, <2>4 DEF NoSecondEffect
  <1>2. CASE ~\E c \in Asked : Receive(r, c)
    <2>1. call'[r] = call[r] /\ earlier'[r] = earlier[r] /\ (code'[r] # code[r] => code[r] = None)
      <3>1. CASE call[r] # None
        BY <3>1, HistoryStep
      <3>2. CASE call[r] = None
        <4>1. pc[r] = "idle"
          BY <3>2 DEF Progress
        <4> QED
          BY <1>2, <4>1, StepIsOf, BesidesRequests, Handled, Received
      <3> QED
        BY <3>1, <3>2
    <2>2. code'[r] = "200" => call[r].key = None \/ call[r] \in cache'
      <3>1. CASE code[r] = "200"
        BY <1>0, <3>1 DEF NoSecondEffect
      <3>2. CASE code[r] # "200" /\ code'[r] = "200"
        <4>1. Handles(r)
          BY <1>2, <3>2, StepIsOf, BesidesRequests, Handled, Received
        <4> QED
          BY <3>2, <4>1, Handled
      <3> QED
        BY <3>1, <3>2
    <2>3. ASSUME call[r] # None, code'[r] # "replay", call[r].key # None,
                 NEW p \in earlier[r], call'[p] = call[r]
          PROVE  code'[p] # "200"
      <3>1. p \in Reqs /\ pc[p] = "done" /\ code[p] # None /\ call[p] # None
        BY <2>3 DEF Progress, Answered
      <3>2. call'[p] = call[p] /\ code'[p] = code[p]
        BY <3>1, HistoryStep
      <3>3. code[r] # "replay"
        BY <2>3, HistoryStep, RemindersAssumption DEF Answers
      <3> QED
        BY <2>3, <3>2, <3>3 DEF NoSecondEffect
    <2> QED
      BY <2>1, <2>2, <2>3
  <1> QED
    BY <1>1, <1>2

LEMMA RunHoldsStep == TypeOK /\ Progress /\ RunHolds /\ [Next]_vars => RunHolds'
  <1> SUFFICES ASSUME TypeOK, Progress, RunHolds, [Next]_vars PROVE RunHolds'
    OBVIOUS
  <1>0. Answered \subseteq Answered'
    BY HistoryStep DEF Answered, Progress
  <1>1. ASSUME NEW clock \in Clocks, send_expiry_reminders(clock) PROVE RunHolds'
    BY <1>0, <1>1 DEF send_expiry_reminders, RunHolds
  <1>2. CASE RunNext
    BY <1>0, <1>2 DEF RunNext, ReadPreference, ReadDevices, ReadItems, Push, Finish, RunStep, Skip, RunHolds
  <1>3. ASSUME UNCHANGED task PROVE RunHolds'
    BY <1>0, <1>3 DEF task, RunHolds
  <1>4. UNCHANGED task \/ RunNext \/ \E clock \in Clocks : send_expiry_reminders(clock)
    BY DEF Next, Step, Receive, get_preferences, create_default_preferences, update_preferences,
           upsert_device_token, unregister_device_token, delete_device_token, respond, Die, Change, vars
  <1> QED
    BY <1>1, <1>2, <1>3, <1>4

---------------------------------------------------------------------------
(* What may undo a call: it keeps its standing, and a call that is carried *)
(* out while another has been received may undo that one.                  *)
LEMMA UndoStays ==
  ASSUME TypeOK, Progress, [Next]_vars, NEW q \in Reqs, NEW r \in Reqs, call[r] # None,
         MayUndo(q, r), Acts(q)
  PROVE  MayUndo(q, r)' /\ Acts(q)' /\ call'[q] = call[q] /\ earlier'[q] = earlier[q]
  <1>1. call[q] # None /\ earlier[q] \subseteq Reqs
    BY DEF MayUndo, TypeOK
  <1>2. call'[q] = call[q] /\ earlier'[q] = earlier[q] /\ earlier'[r] = earlier[r]
    BY <1>1, HistoryStep
  <1>3. \A p \in earlier[q] : call'[p] = call[p] /\ code'[p] = code[p]
    <2>1. \A p \in earlier[q] : p \in Reqs /\ call[p] # None /\ code[p] # None
      BY <1>1 DEF Progress, Answered
    <2> QED
      BY <2>1, HistoryStep
  <1>4. Acts(q)' /\ code'[q] \notin {"404", "replay"}
    <2>1. CASE code[q] # None
      BY <2>1, HistoryStep DEF MayUndo, Progress, Acts
    <2>2. CASE code[q] = None
      <3>1. pc[q] \in {"write", "delete", "respond"}
        BY <2>2 DEF Acts, Progress
      <3>2. None \notin Answers
        BY RemindersAssumption
      <3>3. CASE Handles(q)
        BY <2>2, <3>1, <3>2, <3>3, Handled, OnlyOnwards DEF Acts, Answers
      <3>4. CASE ~Handles(q)
        <4>1. pc'[q] = pc[q] /\ code'[q] = code[q]
          BY <3>1, <3>4, StepIsOf, BesidesRequests, Handled, Received
        <4> QED
          BY <2>2, <3>1, <3>2, <4>1 DEF Acts, Answers
      <3> QED
        BY <3>3, <3>4
    <2> QED
      BY <2>1, <2>2
  <1> QED
    BY <1>2, <1>3, <1>4 DEF MayUndo

LEMMA UndoStarts ==
  ASSUME TypeOK, Progress, NoSecondEffect, NEW q \in Reqs, NEW r \in Reqs, q # r, call[r] # None,
         pc[q] \notin {"idle", "done"}, call[q].key # None
  PROVE  MayUndo(q, r)
  <1>1. code[q] = None /\ call[q] # None /\ None \notin Answers
    BY RemindersAssumption DEF Progress
  <1>2. q \notin earlier[r]
    BY DEF Progress, Answered
  <1>3. \A p \in earlier[q] : call[p] = call[q] => code[p] # "200"
    BY <1>1 DEF NoSecondEffect, Answers
  <1> QED
    BY <1>1, <1>2, <1>3 DEF MayUndo, Answers

LEMMA RedoneStays ==
  ASSUME TypeOK, Progress, [Next]_vars, NEW r \in Reqs, call[r] # None, Redone(r)
  PROVE  Redone(r)'
  <1>1. PICK q \in Reqs : MayUndo(q, r) /\ Acts(q) /\ call[q].op = "update" /\ call[q].user = call[r].user
    BY DEF Redone
  <1>2. MayUndo(q, r)' /\ Acts(q)' /\ call'[q] = call[q] /\ call'[r] = call[r]
    BY <1>1, UndoStays, HistoryStep
  <1> QED
    BY <1>1, <1>2 DEF Redone

LEMMA ReplacedStays ==
  ASSUME TypeOK, Progress, [Next]_vars, NEW r \in Reqs, call[r] # None, Replaced(r)
  PROVE  Replaced(r)'
  <1>1. PICK q \in Reqs :
          /\ MayUndo(q, r) /\ Acts(q)
          /\ \/ call[q].op = "register" /\ call[q].what = call[r].what
             \/ call[q].op = "unregister" /\ (call[q].user = call[r].user \/ r \notin earlier[q])
    BY DEF Replaced
  <1>2. /\ MayUndo(q, r)' /\ Acts(q)' /\ call'[q] = call[q] /\ earlier'[q] = earlier[q]
        /\ call'[r] = call[r]
    BY <1>1, UndoStays, HistoryStep
  <1> QED
    BY <1>1, <1>2 DEF Replaced

---------------------------------------------------------------------------
(* What the steps that write do to the tables.                             *)
LEMMA CreateEffect ==
  ASSUME TypeOK, Progress, NEW s \in Reqs, create_default_preferences(s)
  PROVE  \E new \in Preference :
           /\ new.user = call[s].user /\ new.set.expiry_reminder_enabled
           /\ prefs' = prefs \cup {new} /\ found'[s] = new
           /\ pc[s] = "create" /\ pc'[s] = (IF call[s].op = "update" THEN "write" ELSE "respond")
           /\ UNCHANGED <<devices, expiry, eaters>>
           /\ steady' = steady \ {call[s].user}
  <1> DEFINE new == [id |-> lastId + 1, user |-> call[s].user, set |-> Defaults]
  <1>1. new \in Preference
    BY ActiveCall, CallFields, DefaultsType DEF create_default_preferences, Preference, TypeOK
  <1>2. new.user = call[s].user /\ new.set.expiry_reminder_enabled
    BY DEF Defaults
  <1>3. prefs' = prefs \cup {new} /\ found' = [found EXCEPT ![s] = new]
    BY DEF create_default_preferences, Finding
  <1> HIDE DEF new
  <1> QED
    BY <1>1, <1>2, <1>3 DEF create_default_preferences, Finding, Goto, Concerns, TypeOK

LEMMA UpdateEffect ==
  ASSUME TypeOK, Ids, Progress, NEW s \in Reqs, update_preferences(s)
  PROVE  /\ \E old \in prefs :
              /\ old.id = found[s].id /\ old.user = call[s].user
              /\ prefs' = (prefs \ {old}) \cup {[old EXCEPT !.set = Written(s, old)]}
         /\ call[s].op = "update" /\ pc[s] = "write" /\ pc'[s] = "respond"
         /\ UNCHANGED <<devices, expiry, eaters>>
         /\ steady' = steady \ {call[s].user}
  <1>1. PICK old \in prefs : old.id = found[s].id /\ old.user = call[s].user
    BY DEF update_preferences, Ids
  <1> DEFINE f(p) == IF p.id = found[s].id THEN [p EXCEPT !.set = Written(s, p)] ELSE p
             new == [old EXCEPT !.set = Written(s, old)]
  <1>2. prefs' = {f(p) : p \in prefs}
    BY DEF update_preferences
  <1>3. f(old) = new /\ \A p \in prefs : p # old => f(p) = p
    BY <1>1 DEF TypeOK
  <1> HIDE DEF f, new
  <1>4. prefs' = (prefs \ {old}) \cup {new}
    BY <1>2, <1>3
  <1> QED
    BY <1>1, <1>4 DEF update_preferences, Goto, Concerns, Progress, TypeOK, new

LEMMA DeleteEffect ==
  ASSUME TypeOK, Ids, Progress, NEW s \in Reqs, delete_device_token(s)
  PROVE  /\ \A t \in Tokens :
              IF devices[t] # None /\ devices[t].id = found[s].id
              THEN devices'[t] = None /\ steady' \cap Owners(t) = {}
              ELSE devices'[t] = devices[t]
         /\ call[s].op = "unregister" /\ pc[s] = "delete" /\ pc'[s] = "respond"
         /\ UNCHANGED <<prefs, expiry, eaters>> /\ steady' \subseteq steady
  BY DEF delete_device_token, Goto, Concerns, Progress, TypeOK

LEMMA UpsertEffect ==
  ASSUME TypeOK, Progress, NEW s \in Reqs, upsert_device_token(s)
  PROVE  /\ call[s].what \in Tokens /\ devices'[call[s].what] # None
         /\ devices'[call[s].what].user = call[s].user
         /\ \A t \in Tokens : t # call[s].what => devices'[t] = devices[t]
         /\ call[s].op = "register" /\ pc[s] = "lookup" /\ pc'[s] = "respond"
         /\ UNCHANGED <<prefs, expiry, eaters>>
         /\ steady' = steady \ ({call[s].user} \cup Owners(call[s].what))
  <1>1. call[s].what \in Tokens
    BY ActiveCall, CallFields DEF upsert_device_token
  <1>2. devices'[call[s].what] = [id |-> IF devices[call[s].what] = None THEN lastId + 1
                                         ELSE devices[call[s].what].id, user |-> call[s].user]
    BY <1>1 DEF upsert_device_token, TypeOK
  <1>3. devices'[call[s].what] \in Device
    BY <1>1, <1>2, ActiveCall, CallFields DEF upsert_device_token, Device, TypeOK
  <1>4. None \notin Device
    BY RemindersAssumption
  <1> QED
    BY <1>1, <1>2, <1>3, <1>4 DEF upsert_device_token, Goto, Concerns, TypeOK

---------------------------------------------------------------------------
(* A registration stays.                                                   *)
LEMMA DevicesStep ==
  ASSUME TypeOK, Ids, Progress, [Next]_vars
  PROVE  \/ UNCHANGED devices /\ \A q \in Reqs : pc'[q] = "delete" => pc[q] = "delete" /\ found'[q] = found[q]
         \/ \E s \in Reqs : unregister_device_token(s) \/ upsert_device_token(s) \/ delete_device_token(s)
  <1>1. CASE Besides
    BY <1>1, BesidesRequests
  <1>2. ASSUME NEW s \in Reqs, NEW c \in Asked, Receive(s, c)
        PROVE  UNCHANGED <<devices, found>> /\ \A q \in Reqs : pc'[q] = "delete" => pc[q] = "delete"
    BY <1>2, Received DEF tables
  <1>3. ASSUME NEW s \in Reqs, Handles(s),
               ~(unregister_device_token(s) \/ upsert_device_token(s) \/ delete_device_token(s))
        PROVE  UNCHANGED devices /\ pc'[s] # "delete"
    BY <1>3 DEF Handles, Step, get_preferences, create_default_preferences, update_preferences, respond, Die,
                Goto, Finding, Answer, tables, TypeOK
  <1> QED
    BY <1>1, <1>2, <1>3, StepIsOf, Handled

LEMMA RegistrationKeptStep ==
  TypeOK /\ Ids /\ Progress /\ NoSecondEffect /\ RegistrationKept /\ [Next]_vars => RegistrationKept'
  <1> SUFFICES ASSUME TypeOK, Ids, Progress, NoSecondEffect, RegistrationKept, [Next]_vars,
                      NEW r \in Reqs, Registers(r)', ~Replaced(r)', pc'[r] = "respond" \/ code'[r] = "200"
               PROVE  /\ Owners(call[r].what)' = {call'[r].user}
                      /\ \A q \in Reqs :
                           pc'[q] = "delete" /\ r \in earlier'[q]
                           /\ found'[q].id = devices'[call'[r].what].id => call'[q].user = call'[r].user
    BY DEF RegistrationKept
  <1> DEFINE t == call[r].what
             Mine(d) == d # None /\ d.user = call[r].user
             Stale(q) == pc[q] = "delete" /\ r \in earlier[q] /\ found[q].id = devices[t].id
  <1>0. None # "200"
    BY RemindersAssumption DEF Answers
  <1>1. call[r] # None
    <2> SUFFICES ASSUME call[r] = None PROVE FALSE
      OBVIOUS
    <2>1. pc[r] = "idle" /\ code[r] # "200"
      BY <1>0 DEF Progress
    <2>2. CASE \E c \in Asked : Receive(r, c)
      BY <1>0, <2>2, Received
    <2>3. CASE ~\E c \in Asked : Receive(r, c)
      BY <2>1, <2>3, StepIsOf, BesidesRequests, Received, Handled
    <2> QED
      BY <2>2, <2>3
  <1>2. call'[r] = call[r] /\ earlier'[r] = earlier[r] /\ Registers(r) /\ ~Replaced(r)
    BY <1>1, HistoryStep, ReplacedStays DEF Registers
  <1>3. call[r] \in Calls /\ t \in Tokens
    BY <1>1, <1>2, CallFields DEF TypeOK, Registers
  <1>4. ASSUME NEW q \in Reqs, pc[q] \notin {"idle", "done", "lookup"} \/ upsert_device_token(q),
               q # r, Handles(q)
        PROVE  /\ call[q].op = "register" => call[q].what # t
               /\ call[q].op = "unregister" => call[q].user # call[r].user /\ r \in earlier[q]
    <2>1. pc[q] \notin {"idle", "done"} /\ call' = call /\ earlier' = earlier
      BY <1>4, Handled
    <2> SUFFICES ASSUME call[q].op # "get" PROVE call[q].op \in {"register", "unregister"} =>
                   IF call[q].op = "register" THEN call[q].what # t
                   ELSE call[q].user # call[r].user /\ r \in earlier[q]
      OBVIOUS
    <2>2. MayUndo(q, r)
      BY <1>1, <1>4, <2>1, UndoStarts, ActiveCall, CallFields
    <2>3. CASE pc[q] \in {"write", "delete", "respond"}
      BY <1>2, <2>2, <2>3 DEF Replaced, Acts
    <2>4. CASE pc[q] = "create"
      BY <2>4 DEF Progress
    <2>5. CASE upsert_device_token(q)
      <3>1. pc'[q] = "respond" /\ call[q].op = "register"
        BY <2>5, UpsertEffect
      <3>2. MayUndo(q, r)'
        <4>1. \A p \in earlier[q] : p # q /\ p \in Reqs
          BY <2>1 DEF Progress, Answered
        <4>2. code'[q] = code[q] /\ \A p \in earlier[q] : code'[p] = code[p]
          BY <1>4, <3>1, <4>1, Handled
        <4> QED
          BY <2>1, <2>2, <4>2 DEF MayUndo
      <3>3. call[q].what = t => Replaced(r)'
        BY <1>2, <2>1, <3>1, <3>2 DEF Replaced, Acts
      <3> QED
        BY <3>1, <3>3
    <2> QED
      BY <1>4, <2>1, <2>3, <2>4, <2>5 DEF TypeOK
  <1> SUFFICES /\ Mine(devices'[t])
               /\ \A q \in Reqs : pc'[q] = "delete" /\ r \in earlier'[q] /\ found'[q].id = devices'[t].id
                                  => call'[q].user = call[r].user
    BY <1>2 DEF Owners
  <1>5. ASSUME pc[r] = "respond" \/ code[r] = "200"
        PROVE  Mine(devices[t]) /\ \A q \in Reqs : Stale(q) => call[q].user = call[r].user
    BY <1>2, <1>5 DEF RegistrationKept, Owners
  <1>6. \A q \in Reqs : pc[q] # "idle" => call'[q] = call[q] /\ earlier'[q] = earlier[q]
    BY HistoryStep DEF Progress
  <1>7. (\E s \in Reqs : upsert_device_token(s)) \/ pc[r] = "respond" \/ code[r] = "200"
    <2> SUFFICES ASSUME \A s \in Reqs : ~upsert_device_token(s) PROVE pc[r] = "respond" \/ code[r] = "200"
      OBVIOUS
    <2>1. CASE Handles(r)
      <3>1. pc'[r] = "done" => code'[r] # "200" \/ pc[r] = "respond"
        BY <2>1, Handled
      <3>2. pc'[r] # "respond"
        BY <1>2, <2>1 DEF Handles, Step, get_preferences, create_default_preferences, update_preferences,
              unregister_device_token, delete_device_token, respond, Die, Goto, Finding, Answer, Registers,
              Progress, TypeOK
      <3> QED
        BY <2>1, <3>1, <3>2, Handled
    <2>2. CASE ~Handles(r)
      BY <1>0, <1>1, <2>2, StepIsOf, BesidesRequests, Received, Handled DEF Progress
    <2> QED
      BY <2>1, <2>2
  <1> HIDE DEF t, Mine, Stale
  <1>8. CASE UNCHANGED devices /\ \A q \in Reqs : pc'[q] = "delete" => pc[q] = "delete" /\ found'[q] = found[q]
    <2>1. CASE pc[r] = "respond" \/ code[r] = "200"
      BY <1>5, <1>6, <1>8, <2>1 DEF Stale
    <2>2. ASSUME NEW s \in Reqs, upsert_device_token(s), ~(pc[r] = "respond" \/ code[r] = "200")
          PROVE  Mine(devices'[t]) /\ \A q \in Reqs : pc'[q] = "delete" => ~(r \in earlier'[q])
      <3>1. s = r
        BY <1>0, <2>2, Handled DEF Handles, Step
      <3>2. pc[r] = "lookup"
        BY <2>2, <3>1, UpsertEffect
      <3> QED
        BY <1>6, <1>8, <2>2, <3>1, <3>2, UpsertEffect DEF Progress, Answered, Mine, t
    <2> QED
      BY <1>7, <2>1, <2>2
  <1>9. ASSUME NEW s \in Reqs, unregister_device_token(s)
        PROVE  /\ Mine(devices'[t])
               /\ \A q \in Reqs : pc'[q] = "delete" /\ r \in earlier'[q] /\ found'[q].id = devices'[t].id
                                  => call'[q].user = call[r].user
    <2>1. pc[s] = "lookup" /\ call[s].op = "unregister" /\ UNCHANGED <<devices, call, earlier>>
      BY <1>9 DEF unregister_device_token, Finding, Goto, Answer, tables
    <2>2. pc[r] = "respond" \/ code[r] = "200"
      BY <1>7, <1>9, <2>1 DEF upsert_device_token, unregister_device_token, Goto, Finding, Answer, TypeOK
    <2>3. \A q \in Reqs : q # s => pc'[q] = pc[q] /\ found'[q] = found[q]
      BY <1>9, Handled DEF Handles, Step
    <2>4. ASSUME pc'[s] = "delete", found'[s].id = devices[t].id
          PROVE  call[s].user = call[r].user
      <3>1. PICK x \in get_device_token(s) : found'[s] = devices[x]
        BY <1>9, <2>1, <2>4 DEF unregister_device_token, Finding, Answer, TypeOK
      <3>2. x \in Tokens /\ devices[x] # None /\ devices[x].user = call[s].user /\ devices[x].id = devices[t].id
        BY <2>4, <3>1 DEF get_device_token
      <3>3. Mine(devices[t])
        BY <1>5, <2>2
      <3>4. x = t
        BY <1>3, <3>2, <3>3 DEF TypeOK, Mine
      <3> QED
        BY <3>2, <3>3, <3>4 DEF Mine
    <2> QED
      BY <1>5, <2>1, <2>2, <2>3, <2>4 DEF Stale
  <1>10. ASSUME NEW s \in Reqs, upsert_device_token(s)
         PROVE  /\ Mine(devices'[t])
                /\ \A q \in Reqs : pc'[q] = "delete" /\ r \in earlier'[q] /\ found'[q].id = devices'[t].id
                                   => call'[q].user = call[r].user
    <2>0. Handles(s)
      BY <1>10 DEF Handles, Step
    <2>1. \A q \in Reqs : pc'[q] = "delete" => q # s /\ pc[q] = "delete" /\ found'[q] = found[q]
      BY <1>10, <2>0, Handled, UpsertEffect
    <2>2. CASE s = r
      <3>1. Mine(devices'[t]) /\ pc[r] = "lookup"
        BY <1>10, <2>2, UpsertEffect DEF Mine, t
      <3>2. \A q \in Reqs : r \notin earlier[q]
        BY <3>1 DEF Progress, Answered
      <3> QED
        BY <1>6, <2>1, <3>1, <3>2
    <2>3. CASE s # r
      <3>1. pc[r] = "respond" \/ code[r] = "200"
        BY <2>0, <2>3, Handled
      <3>2. devices'[t] = devices[t]
        BY <1>3, <1>4, <1>10, <2>0, <2>3, UpsertEffect DEF t
      <3> QED
        BY <1>5, <1>6, <2>1, <3>1, <3>2 DEF Stale
    <2> QED
      BY <2>2, <2>3
  <1>11. ASSUME NEW s \in Reqs, delete_device_token(s)
         PROVE  /\ Mine(devices'[t])
                /\ \A q \in Reqs : pc'[q] = "delete" /\ r \in earlier'[q] /\ found'[q].id = devices'[t].id
                                   => call'[q].user = call[r].user
    <2>0. Handles(s)
      BY <1>11 DEF Handles, Step
    <2>1. call[s].op = "unregister" /\ pc[s] = "delete" /\ pc'[s] = "respond" /\ s # r
      BY <1>2, <1>11, DeleteEffect DEF Registers
    <2>2. pc[r] = "respond" \/ code[r] = "200"
      BY <2>0, <2>1, Handled
    <2>3. call[s].user # call[r].user /\ r \in earlier[s]
      BY <1>4, <2>0, <2>1
    <2>4. found[s].id # devices[t].id
      BY <1>5, <2>1, <2>2, <2>3 DEF Stale
    <2>5. devices'[t] = devices[t]
      BY <1>3, <1>11, <2>4, DeleteEffect
    <2>6. \A q \in Reqs : pc'[q] = "delete" => q # s /\ pc[q] = "delete" /\ found'[q] = found[q]
      BY <2>0, <2>1, Handled
    <2> QED
      BY <1>5, <1>6, <2>2, <2>5, <2>6 DEF Stale
  <1> QED
    BY <1>8, <1>9, <1>10, <1>11, DevicesStep

---------------------------------------------------------------------------
(* Reminders that were turned off stay off.                                *)
LEMMA PrefsStep ==
  ASSUME TypeOK, Ids, Progress, [Next]_vars
  PROVE  \/ UNCHANGED prefs
         \/ \E s \in Reqs : create_default_preferences(s) \/ update_preferences(s)
  BY StepIsOf, BesidesRequests, Received
     DEF Handles, Step, get_preferences, upsert_device_token, unregister_device_token, delete_device_token,
         respond, Die, tables

(* A request that acts on preferences and its row.                         *)
LEMMA UpdateStages ==
  ASSUME TypeOK, Progress, NEW r \in Reqs, Handles(r), call[r].op = "update"
  PROVE  /\ pc'[r] = "write" =>
              \/ get_preferences(r) /\ UNCHANGED prefs /\ found'[r] \in prefs
              \/ create_default_preferences(r)
         /\ pc'[r] = "respond" => update_preferences(r)
  <1> USE DEF Goto, Finding, Answer, tables, TypeOK
  <1>1. CASE get_preferences(r)
    BY <1>1 DEF get_preferences, RowsOf
  <1>2. CASE ~get_preferences(r)
    BY <1>2 DEF Handles, Step, create_default_preferences, update_preferences, upsert_device_token,
                unregister_device_token, delete_device_token, respond, Die, Progress
  <1> QED
    BY <1>1, <1>2

Off(p) == ~p.set.expiry_reminder_enabled

(* A muting update writes a row that is off, if the row it found was on or *)
(* is off still.                                                           *)
LEMMA MuteWrites ==
  ASSUME TypeOK, Progress, NEW r \in Reqs, Mutes(r), found[r] \in Preference, NEW p \in Preference,
         ~found[r].set.expiry_reminder_enabled => Off(p)
  PROVE  /\ Off([p EXCEPT !.set = Written(r, p)])
         /\ [p EXCEPT !.set = Written(r, p)].user = p.user
  <1> DEFINE f == "expiry_reminder_enabled"
             was == found[r].set[f]
             asked == call[r].what[f]
             w == Written(r, p)
  <1>1. p.set \in Settings /\ found[r].set \in Settings
    BY DEF Preference
  <1>2. f \in DOMAIN p.set /\ p.set[f] \in BOOLEAN /\ was \in BOOLEAN
    BY <1>1 DEF Settings
  <1>3. asked = FALSE
    <2>1. call[r].what \in Updates /\ f \in DOMAIN call[r].what
      BY CallFields DEF Mutes, TypeOK
    <2>2. call[r].what[f] \in Accepted[f]
      BY <2>1, RemindersAssumption
    <2>3. asked \in BOOLEAN
      BY <2>2 DEF Accepted
    <2>4. ~asked
      BY DEF Mutes
    <2> QED
      BY <2>3, <2>4
  <1>4. w[f] = (IF asked # was THEN asked ELSE p.set[f])
    BY <1>2 DEF Written, Mutes
  <1>5. w[f] = FALSE
    BY <1>2, <1>3, <1>4 DEF Off
  <1> HIDE DEF w
  <1>6. [p EXCEPT !.set = w].set = w /\ [p EXCEPT !.set = w].user = p.user
    BY DEF Preference
  <1> QED
    BY <1>5, <1>6 DEF w, Off

LEMMA MuteKeptStep ==
  TypeOK /\ Ids /\ Progress /\ NoSecondEffect /\ RunHolds /\ MuteKept /\ [Next]_vars => MuteKept'
  <1> DEFINE Unwritten(r) == pc[r] = "write" /\ Off(found[r]) => \E p \in prefs : p.id = found[r].id /\ Off(p)
             Held(r) == pc[r] = "respond" \/ code[r] = "200" => \E p \in RowsOf(call[r].user) : Off(p)
             Untold(r) == r \in before /\ code[r] = "200" =>
                            /\ PushedTo(call[r].user) = {}
                            /\ run \in {"devices", "items", "push"} => User # call[r].user
  <1> SUFFICES ASSUME TypeOK, Ids, Progress, NoSecondEffect, RunHolds, MuteKept, [Next]_vars,
                      NEW r \in Reqs, Mutes(r)', ~Redone(r)'
               PROVE  Unwritten(r)' /\ Held(r)' /\ Untold(r)'
    BY DEF MuteKept, Off
  <1>0. None # "200" /\ "replay" # "200"
    BY RemindersAssumption DEF Answers
  <1>1. CASE call[r] = None
    <2>1. pc[r] = "idle" /\ code[r] = None
      BY <1>1 DEF Progress
    <2>2. pc'[r] \notin {"write", "respond"} /\ code'[r] # "200"
      <3>1. CASE \E c \in Asked : Receive(r, c)
        BY <1>0, <3>1, Received
      <3>2. CASE ~\E c \in Asked : Receive(r, c)
        BY <1>0, <2>1, <3>2, StepIsOf, BesidesRequests, Received, Handled
      <3> QED
        BY <3>1, <3>2
    <2> QED
      BY <2>2
  <1>2. CASE call[r] # None
    <2>1. call'[r] = call[r] /\ Mutes(r) /\ ~Redone(r) /\ call[r].op = "update" /\ call[r] \in Calls
      BY <1>2, HistoryStep, RedoneStays DEF Mutes, TypeOK
    <2>2. Unwritten(r) /\ Held(r) /\ Untold(r)
      BY <2>1 DEF MuteKept, Off
    <2> DEFINE u == call[r].user
    <2>3. ASSUME NEW s \in Reqs, update_preferences(s), s # r
          PROVE  call[s].user # u
      <3>1. Handles(s)
        BY <2>3 DEF Handles, Step
      <3>2. pc[s] = "write" /\ call[s].op = "update" /\ call[s].key # None
        BY <2>3, ActiveCall, CallFields, UpdateEffect
      <3>3. MayUndo(s, r)
        BY <1>2, <2>3, <3>2, UndoStarts
      <3> QED
        BY <2>1, <3>2, <3>3 DEF Redone, Acts
    (* A row that is off stays so, unless this or another request of the user writes it. *)
    <2>4. ASSUME NEW p \in prefs, p.user = u, Off(p), ~update_preferences(r)
          PROVE  p \in prefs'
      <3>1. ASSUME NEW s \in Reqs, create_default_preferences(s) PROVE p \in prefs'
        BY <3>1, CreateEffect
      <3>2. ASSUME NEW s \in Reqs, update_preferences(s) PROVE p \in prefs'
        <4>1. s # r /\ call[s].user # u
          BY <2>3, <2>4, <3>2
        <4> QED
          BY <2>4, <3>2, <4>1, UpdateEffect
      <3> QED
        BY <3>1, <3>2, PrefsStep
    <2>5. pc[r] # "idle"
      BY <1>2 DEF Progress
    <2>6. Unwritten(r)'
      <3> SUFFICES ASSUME pc'[r] = "write", Off(found'[r]) PROVE \E p \in prefs' : p.id = found'[r].id /\ Off(p)
        BY DEF Off
      <3>1. CASE Handles(r)
        <4>1. CASE create_default_preferences(r)
          BY <4>1, CreateEffect DEF Off
        <4>2. CASE ~create_default_preferences(r)
          BY <2>1, <3>1, <4>2, UpdateStages
        <4> QED
          BY <4>1, <4>2
      <3>2. CASE ~Handles(r)
        <4>1. pc[r] = "write" /\ found'[r] = found[r] /\ ~update_preferences(r)
          BY <2>5, <3>2, StepIsOf, BesidesRequests, Received, Handled DEF Handles, Step
        <4>2. PICK p \in prefs : p.id = found[r].id /\ Off(p)
          BY <2>2, <4>1
        <4>3. p.user = u
          BY <4>1, <4>2 DEF Ids, TypeOK
        <4> QED
          BY <2>4, <4>1, <4>2, <4>3
      <3> QED
        BY <3>1, <3>2
    <2>7. Held(r)'
      <3> SUFFICES ASSUME pc'[r] = "respond" \/ code'[r] = "200"
                   PROVE  \E p \in prefs' : p.user = u /\ Off(p)
        BY <2>1 DEF RowsOf, Off
      <3>1. CASE update_preferences(r)
        <4>1. PICK old \in prefs :
                 /\ old.id = found[r].id /\ old.user = u
                 /\ prefs' = (prefs \ {old}) \cup {[old EXCEPT !.set = Written(r, old)]}
          BY <3>1, UpdateEffect
        <4>2. found[r] \in Preference /\ old \in Preference /\ pc[r] = "write"
          BY <3>1 DEF update_preferences, Ids, TypeOK
        <4>3. Off(found[r]) => Off(old)
          BY <2>2, <4>1, <4>2 DEF TypeOK
        <4>4. Off([old EXCEPT !.set = Written(r, old)]) /\ [old EXCEPT !.set = Written(r, old)].user = u
          BY <2>1, <4>1, <4>2, <4>3, MuteWrites DEF Off
        <4> QED
          BY <4>1, <4>4
      <3>2. CASE ~update_preferences(r)
        <4>1. pc[r] = "respond" \/ code[r] = "200"
          <5>1. CASE Handles(r)
            BY <2>1, <3>2, <5>1, Handled, UpdateStages
          <5>2. CASE ~Handles(r)
            BY <2>5, <5>2, StepIsOf, BesidesRequests, Received, Handled
          <5> QED
            BY <5>1, <5>2
        <4>2. PICK p \in prefs : p.user = u /\ Off(p)
          BY <2>2, <4>1 DEF RowsOf
        <4> QED
          BY <2>4, <3>2, <4>2
      <3> QED
        BY <3>1, <3>2
    <2>8. Untold(r)'
      <3> SUFFICES ASSUME r \in before', code'[r] = "200"
                   PROVE  PushedTo(u)' = {} /\ (run' \in {"devices", "items", "push"} => User' # u)
        BY <2>1
      <3>1. ASSUME NEW clock \in Clocks, send_expiry_reminders(clock)
            PROVE  PushedTo(u)' = {} /\ run' \notin {"devices", "items", "push"}
        BY <3>1 DEF send_expiry_reminders, PushedTo
      <3>2. CASE ~\E clock \in Clocks : send_expiry_reminders(clock)
        <4>1. before' = before
          BY <3>2, StepIsOf, Handled, Received
             DEF Besides, Change, RunNext, ReadPreference, ReadDevices, ReadItems, Push, Finish, RunStep, vars, task
        <4>2. code[r] = "200"
          <5>1. code[r] # None
            BY <4>1 DEF RunHolds, Answered, Progress
          <5> QED
            BY <5>1, HistoryStep
        <4>3. PushedTo(u) = {} /\ (run \in {"devices", "items", "push"} => User # u)
          BY <2>2, <4>1, <4>2
        <4>4. CASE UNCHANGED task
          BY <2>1, <4>3, <4>4 DEF task, PushedTo, User
        <4>5. CASE ReadPreference
          <5>1. PICK p \in RowsOf(u) : Off(p)
            BY <2>2, <4>2
          <5>2. run' = "devices" => ~(User = u)
            BY <4>5, <5>1 DEF ReadPreference, RunStep, Skip, Tells, Off
          <5>3. run' \in {"users", "devices", "aborted"} /\ pushed' = pushed /\ (run' = "devices" => todo' = todo)
            BY <4>5 DEF ReadPreference, RunStep, Skip
          <5> QED
            BY <2>1, <4>3, <5>2, <5>3 DEF PushedTo, User
        <4>6. CASE ReadDevices \/ ReadItems \/ Finish
          BY <2>1, <4>3, <4>6 DEF ReadDevices, ReadItems, Finish, RunStep, Skip, PushedTo, User
        <4>7. CASE Push
          <5>1. User # u
            BY <4>3, <4>7 DEF Push, RunStep
          <5>2. \A t : <<u, t>> \in pushed' <=> <<u, t>> \in pushed
            BY <4>7, <5>1 DEF Push
          <5>3. run' = "users" \/ todo' = todo
            BY <4>7 DEF Push, Skip
          <5> QED
            BY <2>1, <4>3, <5>1, <5>2, <5>3 DEF PushedTo, User
        <4> QED
          BY <3>2, <4>4, <4>5, <4>6, <4>7, StepIsOf, Handled, Received DEF Besides, RunNext, Change, vars
      <3> QED
        BY <3>1, <3>2
    <2> QED
      BY <2>6, <2>7, <2>8
  <1> QED
    BY <1>1, <1>2

---------------------------------------------------------------------------
(* While requests come one by one, no user gets a second row.              *)
LEMMA CalmAlone ==
  ASSUME TypeOK, Progress, Calm, NEW q \in Reqs, NEW r \in Reqs,
         pc[q] \notin {"idle", "done"}, pc[r] \notin {"idle", "done"}
  PROVE  q = r
  <1>1. ASSUME NEW x \in Reqs, NEW y \in Reqs, pc[x] \notin {"idle", "done"}, pc[y] \notin {"idle", "done"}
        PROVE  ~(x < y)
    <2>1. call[y] # None /\ earlier[y] \subseteq Answered
      BY <1>1 DEF Progress
    <2>2. earlier[y] = {z \in Reqs : z < y}
      BY <2>1 DEF Calm, Overlapping
    <2> QED
      BY <1>1, <2>1, <2>2 DEF Answered
  <1>2. q \in Nat /\ r \in Nat
    BY RemindersAssumption
  <1> QED
    BY <1>1, <1>2

LEMMA CalmBefore == ASSUME TypeOK, Progress, [Next]_vars, Calm' PROVE Calm
  <1>1. None # "failed"
    BY RemindersAssumption DEF Answers
  <1>2. ASSUME NEW r \in Reqs PROVE r \notin Overlapping /\ r \notin Failed
    <2>1. call[r] # None => call'[r] = call[r] /\ earlier'[r] = earlier[r]
      BY HistoryStep
    <2>2. code[r] = "failed" => code'[r] = "failed"
      BY <1>1, HistoryStep
    <2> QED
      BY <2>1, <2>2 DEF Calm, Overlapping, Failed
  <1> QED
    BY <1>2 DEF Calm, Overlapping, Failed

LEMMA CalmRowsStep == TypeOK /\ Ids /\ Progress /\ CalmRows /\ [Next]_vars => CalmRows'
  <1> SUFFICES ASSUME TypeOK, Ids, Progress, CalmRows, [Next]_vars, Calm'
               PROVE  /\ \A p, q \in prefs' : p.user = q.user => p = q
                      /\ \A r \in Reqs :
                           /\ pc'[r] = "create" => \A p \in prefs' : p.user # call'[r].user
                           /\ pc'[r] = "respond" /\ call'[r].op = "register" => devices'[call'[r].what] # None
                           /\ code'[r] # "500"
                      /\ run' # "aborted"
    BY DEF CalmRows, RowsOf
  <1>1. Calm
    BY CalmBefore
  <1>2. /\ \A p, q \in prefs : p.user = q.user => p = q
        /\ \A r \in Reqs :
             /\ pc[r] = "create" => \A p \in prefs : p.user # call[r].user
             /\ pc[r] = "respond" /\ call[r].op = "register" => devices[call[r].what] # None
             /\ code[r] # "500"
        /\ run # "aborted"
    BY <1>1 DEF CalmRows, RowsOf
  <1>3. \A u : ~(Cardinality(RowsOf(u)) > 1)
    <2> TAKE u
    <2>1. \A p, q \in RowsOf(u) : p = q
      BY <1>2 DEF RowsOf
    <2> QED
      BY <2>1, OneRow
  <1>4. None # "500" /\ "replay" # "500"
    BY RemindersAssumption DEF Answers
  <1>5. CASE Besides
    <2>1. run' # "aborted"
      BY <1>2, <1>3, <1>5 DEF Besides, Change, send_expiry_reminders, RunNext, ReadPreference, ReadDevices,
            ReadItems, Push, Finish, RunStep, Skip, vars, task
    <2> QED
      BY <1>2, <1>5, <2>1, BesidesRequests
  <1>6. ASSUME NEW s \in Reqs, NEW c \in Asked, Receive(s, c)
        PROVE  /\ UNCHANGED <<prefs, devices, task>> /\ code'[s] # "500" /\ pc'[s] \notin {"create", "respond"}
               /\ \A q \in Reqs : q # s => pc'[q] = pc[q] /\ code'[q] = code[q] /\ call'[q] = call[q]
    BY <1>4, <1>6, Received DEF tables
  <1>7. ASSUME NEW s \in Reqs, Handles(s)
        PROVE  /\ UNCHANGED <<call, task>> /\ (code'[s] = code[s] \/ code'[s] # "500")
               /\ \A q \in Reqs : q # s => pc'[q] \in {"idle", "done"} /\ code'[q] = code[q]
               /\ pc'[s] = "create" => \A p \in prefs' : p.user # call[s].user
               /\ pc'[s] = "respond" /\ call[s].op = "register" => devices'[call[s].what] # None
               /\ \A p, q \in prefs' : p.user = q.user => p = q
    <2>0. UNCHANGED <<call, task>> /\ \A q \in Reqs : q # s => pc'[q] \in {"idle", "done"} /\ code'[q] = code[q]
      <3>1. pc[s] \notin {"idle", "done"} /\ UNCHANGED <<call, task>>
            /\ \A q \in Reqs : q # s => pc'[q] = pc[q] /\ code'[q] = code[q]
        BY <1>7, Handled
      <3> QED
        BY <1>1, <3>1, CalmAlone
    <2> USE DEF Goto, Finding, Answer, tables, TypeOK
    <2>1. CASE get_preferences(s)
      <3>1. code'[s] = code[s] /\ prefs' = prefs /\ pc'[s] \in {"create", "write", "respond"}
            /\ call[s].op \in {"get", "update"}
        BY <1>3, <2>1 DEF get_preferences
      <3>2. pc'[s] = "create" => RowsOf(call[s].user) = {}
        BY <1>3, <2>1 DEF get_preferences
      <3> QED
        BY <1>2, <2>0, <3>1, <3>2 DEF RowsOf
    <2>2. CASE create_default_preferences(s)
      <3>1. call[s].op \in {"get", "update"} /\ code'[s] = code[s]
        BY <2>2 DEF create_default_preferences, Progress
      <3> QED
        BY <1>2, <2>0, <2>2, <3>1, CreateEffect
    <2>3. CASE update_preferences(s)
      <3>1. PICK old \in prefs :
               prefs' = (prefs \ {old}) \cup {[old EXCEPT !.set = Written(s, old)]}
        BY <2>3, UpdateEffect
      <3> DEFINE new == [old EXCEPT !.set = Written(s, old)]
      <3>2. new.user = old.user /\ prefs' = (prefs \ {old}) \cup {new}
        BY <3>1 DEF Preference
      <3> HIDE DEF new
      <3>3. \A p, q \in prefs' : p.user = q.user => p = q
        BY <1>2, <3>2
      <3>4. code' = code /\ pc'[s] = "respond" /\ call[s].op = "update"
        BY <2>3 DEF update_preferences, Progress
      <3> QED
        BY <2>0, <3>3, <3>4
    <2>4. CASE upsert_device_token(s)
      <3>1. code' = code
        BY <2>4 DEF upsert_device_token
      <3> QED
        BY <1>2, <2>0, <2>4, <3>1, UpsertEffect
    <2>5. CASE unregister_device_token(s)
      BY <1>2, <2>0, <2>5 DEF unregister_device_token
    <2>6. CASE delete_device_token(s)
      BY <1>2, <2>0, <2>6 DEF delete_device_token, Progress
    <2>7. CASE respond(s)
      BY <1>2, <2>0, <2>7 DEF respond
    <2>8. CASE Die(s)
      BY <1>2, <2>0, <2>8 DEF Die
    <2> QED
      BY <1>7, <2>1, <2>2, <2>3, <2>4, <2>5, <2>6, <2>7, <2>8 DEF Handles, Step
  <1>8. CASE \E s \in Reqs, c \in Asked : Receive(s, c)
    BY <1>2, <1>6, <1>8 DEF task
  <1>9. CASE \E s \in Reqs : Handles(s)
    <2>1. PICK s \in Reqs : Handles(s)
      BY <1>9
    <2>2. run' = run /\ call' = call
      BY <1>7, <2>1 DEF task
    <2>3. ASSUME NEW r \in Reqs
          PROVE  /\ pc'[r] = "create" => \A p \in prefs' : p.user # call'[r].user
                 /\ pc'[r] = "respond" /\ call'[r].op = "register" => devices'[call'[r].what] # None
                 /\ code'[r] # "500"
      BY <1>2, <1>7, <2>1, <2>2
    <2>4. \A p, q \in prefs' : p.user = q.user => p = q
      BY <1>7, <2>1
    <2> QED
      BY <1>2, <2>2, <2>3, <2>4
  <1> QED
    BY <1>5, <1>8, <1>9, StepIsOf

---------------------------------------------------------------------------
(* Whom a run tells.                                                       *)
LEMMA DeservesAgrees ==
  ASSUME TypeOK, RunHolds, run # "idle", NEW u \in Users
  PROVE  Deserves(u) <=> IsTold(u)
  <1>1. now.day \in Int /\ now.hour \in Hours
    <2>1. now \in [day : Int, hour : Hours]
      BY RemindersAssumption DEF RunHolds
    <2> QED
      BY <2>1
  <1>2. \A i \in Items : expiry[i] = None \/ expiry[i] \in Int
    BY RemindersAssumption DEF TypeOK
  <1>3. None \notin Int
    BY RemindersAssumption
  <1>4. ASSUME NEW p \in RowsOf(u)
        PROVE  /\ QuietAt(now.hour, p.set) <=>
                    _is_within_quiet_hours(now.hour, p.set.quiet_hours_start, p.set.quiet_hours_end)
               /\ Due(u, p.set) <=> _collect_due_items(u, p.set.reminder_days_before) # {}
    <2>1. p.set \in Settings
      BY DEF RowsOf, TypeOK, Preference
    <2>2. p.set.reminder_days_before \in Nat
      BY <2>1 DEF Settings
    <2> DEFINE d == p.set.reminder_days_before
    <2>3. ASSUME NEW i \in Items
          PROVE  expiry[i] \in now.day .. (now.day + d)
                   <=> expiry[i] # None /\ expiry[i] >= now.day /\ expiry[i] <= now.day + d
      BY <1>1, <1>2, <1>3, <2>2
    <2>4. Due(u, p.set) <=> _collect_due_items(u, d) # {}
      BY <2>3 DEF Due, _collect_due_items
    <2> QED
      BY <1>1, <2>1, <2>4, QuietAgrees
  <1> QED
    BY <1>4 DEF Deserves, Tells, IsTold

(* Nothing changes for a steady user while a run is on.                    *)
LEMMA SteadyFrame ==
  ASSUME TypeOK, Ids, Progress, [Next]_vars, ~\E clock \in Clocks : send_expiry_reminders(clock),
         NEW u \in steady'
  PROVE  /\ u \in steady /\ now' = now
         /\ RowsOf(u)' = RowsOf(u) /\ TokensOf(u)' = TokensOf(u)
         /\ \A d : _collect_due_items(u, d)' = _collect_due_items(u, d)
  <1> DEFINE Goal == /\ u \in steady /\ now' = now
                     /\ RowsOf(u)' = RowsOf(u) /\ TokensOf(u)' = TokensOf(u)
                     /\ \A d : _collect_due_items(u, d)' = _collect_due_items(u, d)
  <1>1. ASSUME UNCHANGED <<prefs, devices, expiry, eaters, now, steady>> PROVE Goal
    BY <1>1 DEF RowsOf, TokensOf, _collect_due_items
  <1>2. CASE Change
    <2>1. u \in steady /\ UNCHANGED <<prefs, devices, now>>
      BY <1>2 DEF Change, Concerns, task
    <2>2. \/ u \notin eaters /\ eaters' = eaters
          \/ expiry' = expiry /\ (u \in eaters' <=> u \in eaters)
      BY <1>2 DEF Change, Concerns
    <2> QED
      BY <2>1, <2>2 DEF RowsOf, TokensOf, _collect_due_items
  <1>3. CASE RunNext
    BY <1>1, <1>3 DEF RunNext, ReadPreference, ReadDevices, ReadItems, Push, Finish, RunStep, tables
  <1>4. CASE \E s \in Reqs, c \in Asked : Receive(s, c)
    BY <1>1, <1>4 DEF Receive, tables, task
  <1>5. ASSUME NEW s \in Reqs, Handles(s) PROVE Goal
    <2>0. now' = now
      BY <1>5, Handled DEF task
    <2>1. CASE create_default_preferences(s)
      <3>1. RowsOf(u)' = RowsOf(u) /\ u \in steady /\ UNCHANGED <<devices, expiry, eaters>>
        BY <2>1, CreateEffect DEF RowsOf
      <3> QED
        BY <2>0, <3>1 DEF TokensOf, _collect_due_items
    <2>2. CASE update_preferences(s)
      <3>1. PICK old \in prefs :
               /\ old.user = call[s].user
               /\ prefs' = (prefs \ {old}) \cup {[old EXCEPT !.set = Written(s, old)]}
        BY <2>2, UpdateEffect
      <3> DEFINE new == [old EXCEPT !.set = Written(s, old)]
      <3>2. new.user = call[s].user /\ prefs' = (prefs \ {old}) \cup {new}
        BY <3>1 DEF TypeOK, Preference
      <3>3. u \in steady /\ u # call[s].user /\ UNCHANGED <<devices, expiry, eaters>>
        BY <2>2, UpdateEffect
      <3> HIDE DEF new
      <3>4. RowsOf(u)' = RowsOf(u)
        BY <3>1, <3>2, <3>3 DEF RowsOf
      <3> QED
        BY <2>0, <3>3, <3>4 DEF TokensOf, _collect_due_items
    <2>3. CASE upsert_device_token(s)
      <3>1. u \in steady /\ u # call[s].user /\ u \notin Owners(call[s].what) /\ UNCHANGED <<prefs, expiry, eaters>>
        BY <2>3, UpsertEffect
      <3>2. TokensOf(u)' = TokensOf(u)
        BY <2>3, <3>1, UpsertEffect DEF TokensOf, Owners
      <3> QED
        BY <2>0, <3>1, <3>2 DEF RowsOf, _collect_due_items
    <2>4. CASE delete_device_token(s)
      <3>1. u \in steady /\ UNCHANGED <<prefs, expiry, eaters>>
        BY <2>4, DeleteEffect
      <3>2. ASSUME NEW t \in Tokens
            PROVE  (devices'[t] # None /\ devices'[t].user = u) <=> (devices[t] # None /\ devices[t].user = u)
        BY <2>4, DeleteEffect DEF Owners
      <3>3. TokensOf(u)' = TokensOf(u)
        BY <3>2 DEF TokensOf
      <3> QED
        BY <2>0, <3>1, <3>3 DEF RowsOf, _collect_due_items
    <2>5. CASE get_preferences(s) \/ unregister_device_token(s) \/ Die(s)
      BY <1>1, <2>5 DEF get_preferences, unregister_device_token, Die, tables, task
    <2>6. CASE respond(s)
      BY <1>1, <2>6 DEF respond, task
    <2> QED
      BY <1>5, <2>1, <2>2, <2>3, <2>4, <2>5, <2>6 DEF Handles, Step
  <1>6. CASE UNCHANGED vars
    BY <1>1, <1>6 DEF vars, tables, task
  <1> QED
    BY <1>2, <1>3, <1>4, <1>5, <1>6, StepIsOf DEF Besides

LEMMA SteadyServedStep ==
  TypeOK /\ Ids /\ Progress /\ RunHolds /\ SteadyServed /\ [Next]_vars => SteadyServed'
  <1> SUFFICES ASSUME TypeOK, Ids, Progress, RunHolds, SteadyServed, [Next]_vars, NEW u \in steady'
               PROVE  Served(u)'
    BY DEF SteadyServed
  <1>1. ASSUME NEW clock \in Clocks, send_expiry_reminders(clock) PROVE Served(u)'
    <2>1. run' = "users" /\ pushed' = {} /\ todo' = Users /\ steady' = Users
      BY <1>1 DEF send_expiry_reminders
    <2> QED
      BY <2>1 DEF Served, PushedTo, TypeOK
  <1>2. CASE ~\E clock \in Clocks : send_expiry_reminders(clock)
    <2>1. /\ u \in steady /\ now' = now
          /\ RowsOf(u)' = RowsOf(u) /\ TokensOf(u)' = TokensOf(u)
          /\ \A d : _collect_due_items(u, d)' = _collect_due_items(u, d)
      BY <1>2, SteadyFrame
    <2>2. Served(u) /\ u \in Users
      BY <2>1 DEF SteadyServed, TypeOK
    <2>3. \A p : Asks(u, p)' <=> Asks(u, p)
      BY <2>1 DEF Asks, Tells
    <2>4. IsTold(u)' <=> IsTold(u)
      BY <2>1 DEF IsTold, Tells
    <2>5. CASE UNCHANGED task
      BY <2>1, <2>2, <2>3, <2>4, <2>5 DEF Served, task, PushedTo, User, Running
    <2> DEFINE Skips == run' = "users" /\ todo' = todo \ {User}
               Stays == todo' = todo /\ User' = User
    <2>6. CASE ReadPreference
      <3>1. run = "users" /\ User \in todo /\ pushed' = pushed
        BY <2>6, UserIsNext DEF ReadPreference, RunStep, TypeOK
      <3>2. PushedTo(u)' = PushedTo(u) /\ (u \in todo => PushedTo(u) = {})
        BY <2>2, <3>1 DEF PushedTo, Served, Running
      <3>3. \/ Skips /\ (u = User => ~IsTold(u))
            \/ run' = "devices" /\ Stays /\ (u = User => \E p \in RowsOf(u) : Asks(u, p) /\ days' = p.set.reminder_days_before)
            \/ run' = "aborted" /\ Stays
        BY <2>6 DEF ReadPreference, Skip, User, IsTold, Asks, RowsOf
      <3> HIDE DEF Skips, Stays
      <3>4. CASE Skips /\ (u = User => ~IsTold(u))
        BY <2>1, <2>2, <2>4, <3>1, <3>2, <3>4 DEF Served, Running, Skips
      <3>5. CASE run' = "devices" /\ Stays /\ (u = User => \E p \in RowsOf(u) : Asks(u, p) /\ days' = p.set.reminder_days_before)
        BY <2>1, <2>2, <2>3, <2>4, <3>1, <3>2, <3>5 DEF Served, Running, Stays
      <3>6. CASE run' = "aborted" /\ Stays
        BY <3>6 DEF Served, Running
      <3> QED
        BY <3>3, <3>4, <3>5, <3>6
    <2>7. CASE ReadDevices
      <3>1. run = "devices" /\ User \in todo /\ pushed' = pushed /\ days' = days /\ pending' = TokensOf(User)
        BY <2>7, UserIsNext DEF ReadDevices, RunStep, RunHolds, TypeOK
      <3>2. PushedTo(u)' = PushedTo(u) /\ (u \in todo => PushedTo(u) = {})
        BY <2>2, <3>1 DEF PushedTo, Served, Running
      <3>3. (Skips /\ TokensOf(User) = {}) \/ (run' = "items" /\ Stays)
        <4>1. todo' = todo => User' = User
          BY DEF User
        <4> QED
          BY <2>7, <3>1, <4>1 DEF ReadDevices, Skip
      <3> HIDE DEF Skips, Stays
      <3>4. CASE Skips /\ TokensOf(User) = {}
        BY <2>1, <2>2, <2>4, <3>1, <3>2, <3>4 DEF Served, Running, Skips
      <3>5. CASE run' = "items" /\ Stays
        BY <2>1, <2>2, <2>3, <2>4, <3>1, <3>2, <3>5 DEF Served, Running, Stays
      <3> QED
        BY <3>3, <3>4, <3>5
    <2>8. CASE ReadItems
      <3>1. run = "items" /\ User \in todo /\ pushed' = pushed /\ days' = days
        BY <2>8, UserIsNext DEF ReadItems, RunStep, RunHolds, TypeOK
      <3>2. PushedTo(u)' = PushedTo(u) /\ (u \in todo => PushedTo(u) = {})
        BY <2>2, <3>1 DEF PushedTo, Served, Running
      <3>3. \/ Skips /\ _collect_due_items(User, days) = {}
            \/ run' = "push" /\ Stays /\ pending' = pending /\ _collect_due_items(User, days) # {}
        BY <2>8, <3>1 DEF ReadItems, Skip, User
      <3> HIDE DEF Skips, Stays
      <3>4. CASE Skips /\ _collect_due_items(User, days) = {}
        <4>1. u = User => ~IsTold(u)
          BY <2>2, <3>1, <3>4 DEF Served, IsTold, Asks
        <4> QED
          BY <2>1, <2>2, <2>4, <3>1, <3>2, <3>4, <4>1 DEF Served, Running, Skips
      <3>5. CASE run' = "push" /\ Stays /\ pending' = pending /\ _collect_due_items(User, days) # {}
        BY <2>1, <2>2, <2>3, <2>4, <3>1, <3>2, <3>5 DEF Served, Running, Stays
      <3> QED
        BY <3>3, <3>4, <3>5
    <2>9. CASE Push
      <3>1. run = "push" /\ User \in todo /\ days' = days
        BY <2>9, UserIsNext DEF Push, RunStep, RunHolds, TypeOK
      <3>2. PICK t \in pending : pushed' = pushed \cup {<<User, t>>} /\ pending' = pending \ {t}
        BY <2>9 DEF Push
      <3>3. u # User => PushedTo(u)' = PushedTo(u) /\ (u \in todo => PushedTo(u) = {})
        BY <2>2, <3>1, <3>2 DEF PushedTo, Served, Running
      <3>4. u = User => pending' \cup PushedTo(u)' = TokensOf(u)
        <4>1. ASSUME u = User PROVE pending' \cup PushedTo(u)' = TokensOf(u)
          <5>1. t \in Tokens /\ pending \cup PushedTo(u) = TokensOf(u)
            BY <2>2, <3>1, <4>1 DEF Served, TypeOK
          <5>2. PushedTo(u)' = PushedTo(u) \cup {t}
            BY <3>2, <4>1, <5>1 DEF PushedTo
          <5> QED
            BY <3>2, <5>1, <5>2
        <4> QED
          BY <4>1
      <3>5. u = User => IsTold(u) /\ _collect_due_items(u, days) # {}
        BY <2>2, <3>1 DEF Served, IsTold, Asks
      <3>6. (Skips /\ pending' = {}) \/ (run' = "push" /\ Stays)
        <4>1. todo' = todo => User' = User
          BY DEF User
        <4> QED
          BY <2>9, <3>1, <4>1 DEF Push, Skip
      <3> HIDE DEF Skips, Stays
      <3>7. CASE Skips /\ pending' = {}
        BY <2>1, <2>2, <2>4, <3>1, <3>3, <3>4, <3>5, <3>7 DEF Served, Running, Skips
      <3>8. CASE run' = "push" /\ Stays
        BY <2>1, <2>2, <2>3, <2>4, <3>1, <3>3, <3>4, <3>5, <3>8 DEF Served, Running, Stays
      <3> QED
        BY <3>6, <3>7, <3>8
    <2>10. CASE Finish
      <3>1. run = "users" /\ todo = {} /\ run' = "done" /\ todo' = todo /\ pushed' = pushed
        BY <2>10 DEF Finish, RunStep
      <3>2. PushedTo(u)' = PushedTo(u)
        BY <3>1 DEF PushedTo
      <3> QED
        BY <2>1, <2>2, <2>4, <3>1, <3>2 DEF Served, Running
    <2> QED
      BY <1>2, <2>5, <2>6, <2>7, <2>8, <2>9, <2>10, StepIsOf, Handled, Received
         DEF Besides, RunNext, Change, vars
  <1> QED
    BY <1>1, <1>2

---------------------------------------------------------------------------
(* The invariant holds, and with it what the runs check.                   *)
THEOREM RemindersInvariantHolds == Spec => []RemindersInvariant
  <1>1. Init => RemindersInvariant
    BY InvariantInit
  <1>2. RemindersInvariant /\ [Next]_vars => RemindersInvariant'
    BY TypeStep, IdsStep, ProgressStep, NoSecondEffectStep, RunHoldsStep, MuteKeptStep, RegistrationKeptStep,
       SteadyServedStep, CalmRowsStep DEF RemindersInvariant
  <1> QED
    BY <1>1, <1>2, PTL DEF Spec

(* Tables, requests and the run keep their types, and ids stay unique      *)
(* (models/notification.py, tasks.py:22-116).                              *)
THEOREM TypeCorrectness == Spec => []TypeOK
  BY RemindersInvariantHolds, PTL DEF RemindersInvariant

(* A run that ends has told exactly those who have something due and want  *)
(* to be told at that hour, for every length of the day, every clock and   *)
(* whatever changes for others while it runs (tasks.py:22-116).            *)
THEOREM RunsTellExactlyTheDue == Spec => []RunTellsExactlyTheDue
  <1>1. RemindersInvariant => RunTellsExactlyTheDue
    <2> SUFFICES ASSUME RemindersInvariant, run = "done", NEW u \in steady
                 PROVE  PushedTo(u) = IF Deserves(u) THEN TokensOf(u) ELSE {}
      BY DEF RunTellsExactlyTheDue
    <2>1. u \in Users /\ Served(u) /\ todo = {} /\ TypeOK /\ RunHolds
      BY DEF RemindersInvariant, SteadyServed, TypeOK, RunHolds
    <2>2. Deserves(u) <=> IsTold(u)
      BY <2>1, DeservesAgrees
    <2> QED
      BY <2>1, <2>2 DEF Served
  <1> QED
    BY <1>1, RemindersInvariantHolds, PTL

(* What a user was told of preferences and devices stays true, whatever    *)
(* requests overlap, die or are repeated, until somebody asks for          *)
(* something else (service.py:26-41, repository.py:37-89, router.py:27-96). *)
THEOREM AckedChangesAreKept == Spec => []AckedChangesStay
  <1>1. RemindersInvariant => AckedMuteIsKept
    <2> SUFFICES ASSUME RemindersInvariant, NEW r \in before, call[r].op = "update", code[r] = "200",
                        "expiry_reminder_enabled" \in DOMAIN call[r].what,
                        ~call[r].what.expiry_reminder_enabled, ~Redone(r)
                 PROVE  PushedTo(call[r].user) = {}
      BY DEF AckedMuteIsKept, Redone
    <2>1. r \in Reqs /\ call[r] # None
      BY DEF RemindersInvariant, TypeOK, RunHolds, Progress, Answered
    <2> QED
      BY <2>1 DEF RemindersInvariant, MuteKept, Mutes
  <1>2. RemindersInvariant => AckedRegistrationStays
    <2> SUFFICES ASSUME RemindersInvariant, NEW r \in Reqs, code[r] = "200", call[r].op = "register", ~Replaced(r)
                 PROVE  Owners(call[r].what) = {call[r].user}
      BY DEF AckedRegistrationStays, Replaced
    <2>1. call[r] # None
      <3>1. code[r] # None
        BY RemindersAssumption DEF Answers
      <3> QED
        BY <3>1 DEF RemindersInvariant, Progress
    <2> QED
      BY <2>1 DEF RemindersInvariant, RegistrationKept, Registers
  <1> QED
    BY <1>1, <1>2, RemindersInvariantHolds, PTL DEF AckedChangesStay

(* While requests come one by one and none dies, no run breaks off and no  *)
(* request fails (repository.py:24-35, tasks.py:76-79).                    *)
THEOREM CalmRunsGoThrough == Spec => []CalmRunsThrough
  <1>1. RemindersInvariant => CalmRunsThrough
    BY DEF RemindersInvariant, CalmRows, CalmRunsThrough
  <1> QED
    BY <1>1, RemindersInvariantHolds, PTL
=============================================================================
