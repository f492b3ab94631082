----------------------------- MODULE Reminders -----------------------------
(***************************************************************************)
(* Expiry reminders: the preferences and devices of users, written by      *)
(* their requests, and the daily run that tells the devices of each user   *)
(* about the items that expire soon.                                       *)
(*                                                                         *)
(* A request is a coroutine with a session of its own, the run a task of a *)
(* worker with another; each action is one statement or transaction.  The  *)
(* run reads the clock once, then walks through the users, and sees what   *)
(* has been committed when it reaches each of them.                        *)
(*                                                                         *)
(* Items and memberships change behind its back (Inventory, Membership).   *)
(* A time of day is an hour of a short day, a date a number.  The platform *)
(* of a device and the wording of a push are left out.                     *)
(***************************************************************************)
EXTENDS Integers, FiniteSets

CONSTANTS
  Reqs,        \* requests, numbered in the order in which they are received
  Users,       \* users, numbered in the order of their creation
  Tokens,      \* push tokens of devices
  Items,       \* inventory items
  Hours,       \* 0..n: the hours of a day
  Dates,       \* dates of expiry
  FirstDates,  \* those of the items at the start
  Clocks,      \* [day, hour]: the times at which a run may read the clock
  Updates,     \* the changes of preferences that are asked for
  FirstPrefs,  \* the rows of notification_preferences there may be at the start
  MaxRuns,     \* bound on the runs
  MaxTrouble,  \* bound on the requests received while another runs or that die
  MaxDuring,   \* bound on the requests not yet answered when a run starts or later
  MaxChanges,  \* bound on the changes of items and memberships
  None         \* None and null

Settings == [expiry_reminder_enabled : BOOLEAN, reminder_days_before : Nat,
             quiet_hours_start : Hours \cup {None}, quiet_hours_end : Hours \cup {None}]

(* What NotificationPreferenceUpdate accepts for a field, without the null *)
(* that the database refuses where a column takes none.                    *)
Accepted == [expiry_reminder_enabled |-> BOOLEAN, reminder_days_before |-> Nat,
             quiet_hours_start |-> Hours \cup {None}, quiet_hours_end |-> Hours \cup {None}]

Preference == [id : Nat, user : Users, set : Settings]
Device == [id : Nat, user : Users]

Calls ==
  [op : {"get"}, user : Users, what : {None}, key : {None}]
  \cup [op : {"update"}, user : Users, what : Updates, key : Reqs]
  \cup [op : {"register"}, user : Users, what : Tokens, key : Reqs]
  \cup [op : {"unregister"}, user : Users, what : Nat, key : Reqs]

Answers == {"200", "404", "500", "replay", "failed"}

ASSUME RemindersAssumption ==
  /\ Reqs \subseteq Nat /\ Users \subseteq Nat
  /\ FirstDates \subseteq Dates /\ Dates \subseteq Int
  /\ IsFiniteSet(Hours) /\ Hours # {} /\ Hours = 0 .. (Cardinality(Hours) - 1)
  /\ Clocks \subseteq [day : Int, hour : Hours]
  /\ \A u \in Updates : \A f \in DOMAIN u : f \in DOMAIN Accepted /\ u[f] \in Accepted[f]
  /\ FirstPrefs \subseteq SUBSET Preference
  /\ \A S \in FirstPrefs :
       /\ IsFiniteSet(S) /\ \A p \in S : p.id <= Cardinality(S)
       /\ \A p, q \in S : p.user = q.user \/ p.id = q.id => p = q
  /\ MaxRuns \in Nat /\ MaxTrouble \in Nat /\ MaxDuring \in Nat /\ MaxChanges \in Nat
  /\ None \notin Int \cup Tokens \cup Preference \cup Device \cup Calls \cup Answers \cup Clocks

VARIABLES
  prefs,     \* the table notification_preferences
  devices,   \* the table device_tokens, by token
  lastId,    \* the newest id of either
  expiry,    \* the date each item in stock expires, None for one used or discarded
  eaters,    \* the members of the household the items belong to
  cache,     \* calls whose answer the idempotency cache holds
  pc, call,  \* where each request is and what it asks
  found,     \* the row it has found: of preferences, or of a device
  code,      \* what it has answered
  run,       \* where the run is
  now,       \* the clock it goes by: [day, hour]
  todo,      \* the users it has still to look at
  days,      \* the reminder_days_before of the user it looks at
  pending,   \* the tokens of that user it has still to push to
  pushed,    \* <<user, token>>: the pushes it has tried
  earlier,   \* history: the requests answered when each was received
  before,    \* history: the requests answered when the run started
  steady,    \* history: users whom no change has concerned since it started
  runs, changes  \* history: counters

tables == <<prefs, devices, lastId, expiry, eaters, cache>>
requests == <<pc, call, found, code, earlier>>
task == <<run, now, todo, days, pending, pushed, before, runs>>
vars == <<tables, requests, task, steady, changes>>

TypeOK ==
  /\ prefs \subseteq Preference
  /\ \A p, q \in prefs : p.id = q.id => p = q
  /\ devices \in [Tokens -> Device \cup {None}]
  /\ \A s, t \in Tokens : devices[s] # None /\ devices[t] # None
                          /\ devices[s].id = devices[t].id => s = t
  /\ lastId \in Nat
  /\ expiry \in [Items -> Dates \cup {None}]
  /\ eaters \subseteq Users
  /\ cache \subseteq Calls
  /\ pc \in [Reqs -> {"idle", "lookup", "create", "write", "delete", "respond", "done"}]
  /\ call \in [Reqs -> Calls \cup {None}]
  /\ found \in [Reqs -> Preference \cup Device \cup {None}]
  /\ code \in [Reqs -> Answers \cup {None}]
  /\ run \in {"idle", "users", "devices", "items", "push", "done", "aborted"}
  /\ now \in Clocks \cup {None}
  /\ todo \subseteq Users
  /\ days \in Nat
  /\ pending \subseteq Tokens
  /\ pushed \subseteq Users \X Tokens
  /\ earlier \in [Reqs -> SUBSET Reqs]
  /\ before \subseteq Reqs
  /\ steady \subseteq Users
  /\ runs \in 0..MaxRuns /\ changes \in 0..MaxChanges

Init ==
  /\ prefs \in FirstPrefs
  /\ devices = [t \in Tokens |-> None]
  /\ lastId = Cardinality(prefs)
  /\ expiry \in [Items -> FirstDates]
  /\ eaters = Users
  /\ cache = {}
  /\ pc = [r \in Reqs |-> "idle"]
  /\ call = [r \in Reqs |-> None]
  /\ found = [r \in Reqs |-> None]
  /\ code = [r \in Reqs |-> None]
  /\ run = "idle" /\ now = None /\ todo = {} /\ days = 0 /\ pending = {} /\ pushed = {}
  /\ earlier = [r \in Reqs |-> {}] /\ before = {}
  /\ steady = {} /\ runs = 0 /\ changes = 0

-----------------------------------------------------------------------------
(* Requests.                                                               *)
InFlight == {r \in Reqs : pc[r] \notin {"idle", "done"}}
Answered == {r \in Reqs : pc[r] = "done"}

(* Requests that another one was running beside when they came, and those  *)
(* that died; while there are none, requests are carried out one by one.   *)
Overlapping == {r \in Reqs : call[r] # None /\ earlier[r] # {q \in Reqs : q < r}}
Failed == {r \in Reqs : code[r] = "failed"}
Trouble == Cardinality(Overlapping) + Cardinality(Failed)
Calm == Overlapping = {} /\ Failed = {}

Running == run \in {"users", "devices", "items", "push"}

Goto(r, stage) == pc' = [pc EXCEPT ![r] = stage] /\ UNCHANGED <<call, code, earlier>>
Finding(r, stage, x) == Goto(r, stage) /\ found' = [found EXCEPT ![r] = x]

Answer(r, c) ==
  /\ pc' = [pc EXCEPT ![r] = "done"]
  /\ code' = [code EXCEPT ![r] = c]
  /\ found' = [found EXCEPT ![r] = None]
  /\ UNCHANGED <<call, earlier>>

(* The users a change concerns are steady no longer.                       *)
Concerns(us) == steady' = steady \ us

(* The app draws a new key for a call, named here by its first request, and *)
(* sends it again only to repeat that call.                                *)
KeyDiscipline(r, c) == c.key \in {None, r} \/ \E q \in Reqs : call[q] = c

(* get_cached: a call without a key is not stored.                         *)
Hit(c) == c \in cache

Receive(r, c) ==
  /\ pc[r] = "idle" /\ \A q \in Reqs : pc[q] = "idle" => r <= q
  /\ InFlight = {} \/ Trouble < MaxTrouble
  /\ Running \/ runs = MaxRuns => Cardinality({q \in Reqs : call[q] # None} \ before) < MaxDuring
  /\ KeyDiscipline(r, c)
  /\ pc' = [pc EXCEPT ![r] = IF Hit(c) THEN "done" ELSE "lookup"]
  /\ code' = [code EXCEPT ![r] = IF Hit(c) THEN "replay" ELSE None]
  /\ call' = [call EXCEPT ![r] = c]
  /\ earlier' = [earlier EXCEPT ![r] = Answered]
  /\ UNCHANGED <<tables, found, task, steady, changes>>

RowsOf(u) == {p \in prefs : p.user = u}

(* Slip: a row is created without a look for one.                          *)
get_preferences_anew(r) ==
  /\ pc[r] = "lookup" /\ call[r].op \in {"get", "update"}
  /\ Goto(r, "create")
  /\ UNCHANGED <<tables, found, task, steady, changes>>

(* get_preferences, scalar_one_or_none: two rows are an error.             *)
get_preferences(r) ==
  LET rows == RowsOf(call[r].user)
  IN /\ pc[r] = "lookup" /\ call[r].op \in {"get", "update"}
     /\ \/ rows = {} /\ Goto(r, "create") /\ UNCHANGED found
        \/ \E p \in rows :
             /\ rows = {p}
             /\ Finding(r, IF call[r].op = "update" THEN "write" ELSE "respond", p)
        \/ Cardinality(rows) > 1 /\ Answer(r, "500")
     /\ UNCHANGED <<tables, task, steady, changes>>

(* Slip: a row is stored as unset as an object that is not.                *)
defaults_unset == [expiry_reminder_enabled |-> None, reminder_days_before |-> 1,
                   quiet_hours_start |-> None, quiet_hours_end |-> None]

Defaults == [expiry_reminder_enabled |-> TRUE, reminder_days_before |-> 1,
             quiet_hours_start |-> None, quiet_hours_end |-> None]

create_default_preferences(r) ==
  LET p == [id |-> lastId + 1, user |-> call[r].user, set |-> Defaults]
  IN /\ pc[r] = "create"
     /\ prefs' = prefs \cup {p}
     /\ lastId' = lastId + 1
     /\ Finding(r, IF call[r].op = "update" THEN "write" ELSE "respond", p)
     /\ Concerns({call[r].user})
     /\ UNCHANGED <<devices, expiry, eaters, cache, task, changes>>

(* The session writes the fields whose value differs from the one it found. *)
Written(r, p) ==
  LET asked == call[r].what
  IN [f \in DOMAIN p.set |-> IF f \in DOMAIN asked /\ asked[f] # found[r].set[f]
                             THEN asked[f] ELSE p.set[f]]

update_preferences(r) ==
  /\ pc[r] = "write"
  /\ prefs' = {IF p.id = found[r].id THEN [p EXCEPT !.set = Written(r, p)] ELSE p : p \in prefs}
  /\ Goto(r, "respond")
  /\ Concerns({call[r].user})
  /\ UNCHANGED <<devices, lastId, expiry, eaters, cache, found, task, changes>>

(* A token that is registered again keeps its row and changes hands.       *)
Owners(t) == IF devices[t] = None THEN {} ELSE {devices[t].user}

upsert_device_token(r) ==
  LET t == call[r].what
  IN /\ pc[r] = "lookup" /\ call[r].op = "register"
     /\ lastId' = IF devices[t] = None THEN lastId + 1 ELSE lastId
     /\ devices' = [devices EXCEPT ![t] =
                      [id |-> IF @ = None THEN lastId + 1 ELSE @.id, user |-> call[r].user]]
     /\ Goto(r, "respond")
     /\ Concerns({call[r].user} \cup Owners(t))
     /\ UNCHANGED <<prefs, expiry, eaters, cache, found, task, changes>>

(* Slip: the row is looked up by its id alone.                             *)
device_by_id(r) == {t \in Tokens : devices[t] # None /\ devices[t].id = call[r].what}

get_device_token(r) ==
  {t \in Tokens : devices[t] # None /\ devices[t].id = call[r].what
                  /\ devices[t].user = call[r].user}

unregister_device_token(r) ==
  /\ pc[r] = "lookup" /\ call[r].op = "unregister"
  /\ \/ \E t \in get_device_token(r) : Finding(r, "delete", devices[t])
     \/ get_device_token(r) = {} /\ Answer(r, "404")
  /\ UNCHANGED <<tables, task, steady, changes>>

(* DELETE by id, whoever owns the row by now.                              *)
delete_device_token(r) ==
  LET gone == {t \in Tokens : devices[t] # None /\ devices[t].id = found[r].id}
  IN /\ pc[r] = "delete"
     /\ devices' = [t \in Tokens |-> IF t \in gone THEN None ELSE devices[t]]
     /\ Goto(r, "respond")
     /\ Concerns(UNION {Owners(t) : t \in gone})
     /\ UNCHANGED <<prefs, lastId, expiry, eaters, cache, found, task, changes>>

(* store_cached and the answer; a registration first reads its row again.  *)
respond(r) ==
  /\ pc[r] = "respond"
  /\ IF call[r].op = "register" /\ devices[call[r].what] = None
     THEN Answer(r, "500") /\ UNCHANGED cache
     ELSE /\ Answer(r, "200")
          /\ cache' = IF call[r].key = None THEN cache ELSE cache \cup {call[r]}
  /\ UNCHANGED <<prefs, devices, lastId, expiry, eaters, task, steady, changes>>

(* A request dies after a transaction; one that dies before has no effect. *)
Die(r) ==
  /\ pc[r] \in {"write", "respond"} /\ Trouble < MaxTrouble
  /\ Answer(r, "failed")
  /\ UNCHANGED <<tables, task, steady, changes>>

-----------------------------------------------------------------------------
(* What other requests do to items and memberships while a run is on; what *)
(* they do before leads to another state it may start in.                  *)
Change ==
  /\ Running /\ changes < MaxChanges /\ changes' = changes + 1
  /\ \/ /\ \E i \in Items, d \in Dates \cup {None} : expiry' = [expiry EXCEPT ![i] = d]
        /\ Concerns(eaters)
        /\ UNCHANGED eaters
     \/ \E u \in Users :
          /\ eaters' = IF u \in eaters THEN eaters \ {u} ELSE eaters \cup {u}
          /\ Concerns({u})
          /\ UNCHANGED expiry
  /\ UNCHANGED <<prefs, devices, lastId, cache, requests, task>>

-----------------------------------------------------------------------------
(* The run.                                                                *)
(* Slip: quiet hours that pass midnight are not understood.                *)
quiet_within_a_day(current, start, end) ==
  start # None /\ end # None /\ start <= current /\ current < end

_is_within_quiet_hours(current, start, end) ==
  /\ start # None /\ end # None
  /\ \/ start = end
     \/ start < end /\ start <= current /\ current < end
     \/ start > end /\ (current >= start \/ current < end)

User == CHOOSE u \in todo : \A v \in todo : u <= v

send_expiry_reminders(clock) ==
  /\ ~Running /\ runs < MaxRuns
  /\ run' = "users" /\ runs' = runs + 1
  /\ now' = clock
  /\ todo' = Users
  /\ days' = 0 /\ pending' = {} /\ pushed' = {}
  /\ before' = Answered
  /\ steady' = Users
  /\ UNCHANGED <<tables, requests, changes>>

Skip == run' = "users" /\ todo' = todo \ {User}

RunStep(stage) == run = stage /\ UNCHANGED <<tables, requests, now, before, runs, steady, changes>>

Tells(s) ==
  /\ s.expiry_reminder_enabled
  /\ ~_is_within_quiet_hours(now.hour, s.quiet_hours_start, s.quiet_hours_end)

(* A user without a row gets one that is not stored: its defaults are not  *)
(* set, and it counts as disabled.                                         *)
ReadPreference ==
  /\ RunStep("users") /\ todo # {}
  /\ LET rows == RowsOf(User)
     IN \/ rows = {} /\ Skip /\ UNCHANGED days
        \/ \E p \in rows :
             /\ rows = {p}
             /\ IF Tells(p.set)
                THEN run' = "devices" /\ days' = p.set.reminder_days_before /\ UNCHANGED todo
                ELSE Skip /\ UNCHANGED days
        \/ Cardinality(rows) > 1 /\ run' = "aborted" /\ UNCHANGED <<todo, days>>
  /\ UNCHANGED <<pending, pushed>>

TokensOf(u) == {t \in Tokens : devices[t] # None /\ devices[t].user = u}

ReadDevices ==
  /\ RunStep("devices")
  /\ pending' = TokensOf(User)
  /\ IF pending' = {} THEN Skip ELSE run' = "items" /\ UNCHANGED todo
  /\ UNCHANGED <<days, pushed>>

_collect_due_items(u, before_days) ==
  IF u \notin eaters THEN {}
  ELSE {i \in Items : expiry[i] # None /\ expiry[i] >= now.day
                      /\ expiry[i] <= now.day + before_days}

ReadItems ==
  /\ RunStep("items")
  /\ IF _collect_due_items(User, days) = {} THEN Skip /\ pending' = {}
     ELSE run' = "push" /\ UNCHANGED <<todo, pending>>
  /\ UNCHANGED <<days, pushed>>

(* One push to each device; whether it is taken changes nothing.           *)
Push ==
  /\ RunStep("push")
  /\ \E t \in pending : pushed' = pushed \cup {<<User, t>>} /\ pending' = pending \ {t}
  /\ IF pending' = {} THEN Skip ELSE UNCHANGED <<run, todo>>
  /\ UNCHANGED days

Finish ==
  /\ RunStep("users") /\ todo = {}
  /\ run' = "done"
  /\ UNCHANGED <<todo, days, pending, pushed>>

RunNext == ReadPreference \/ ReadDevices \/ ReadItems \/ Push \/ Finish

Step(r) ==
  \/ get_preferences(r) \/ create_default_preferences(r) \/ update_preferences(r)
  \/ upsert_device_token(r) \/ unregister_device_token(r) \/ delete_device_token(r)
  \/ respond(r)

(* Users name a device by an id they have been given; one that has gone is *)
(* like one of another user.  Preferences are asked for by those who have  *)
(* none: otherwise they are only read.                                     *)
Known == {devices[t].id : t \in {t \in Tokens : devices[t] # None}}

Asked ==
  [op : {"get"}, user : {u \in Users : RowsOf(u) = {}}, what : {None}, key : {None}]
  \cup [op : {"update"}, user : Users, what : Updates, key : Reqs]
  \cup [op : {"register"}, user : Users, what : Tokens, key : Reqs]
  \cup [op : {"unregister"}, user : Users, what : Known, key : Reqs]

Next ==
  \/ \E r \in Reqs : (\E c \in Asked : Receive(r, c)) \/ Step(r) \/ Die(r)
  \/ Change
  \/ \E clock \in Clocks : send_expiry_reminders(clock)
  \/ RunNext

Spec == Init /\ [][Next]_vars

-----------------------------------------------------------------------------
(* Properties.                                                             *)

(* Reference: the hour is reached from the start before the end is.        *)
QuietAt(hour, s) ==
  LET n == Cardinality(Hours)
  IN /\ s.quiet_hours_start # None /\ s.quiet_hours_end # None
     /\ \E k \in 0..(n - 1) :
          /\ hour = (s.quiet_hours_start + k) % n
          /\ \A j \in 1..k : (s.quiet_hours_start + j) % n # s.quiet_hours_end

Due(u, s) == u \in eaters /\ \E i \in Items :
  expiry[i] \in now.day .. (now.day + s.reminder_days_before)

Deserves(u) == \E p \in RowsOf(u) :
  p.set.expiry_reminder_enabled /\ ~QuietAt(now.hour, p.set) /\ Due(u, p.set)

PushedTo(u) == {t \in Tokens : <<u, t>> \in pushed}

(* A run that ends has tried every device of the users who have something  *)
(* due and want to be told now, and none of anybody else, whatever changes *)
(* while it runs for others than those (tasks.py:22-116).                  *)
RunTellsExactlyTheDue ==
  run = "done" =>
    \A u \in steady : PushedTo(u) = IF Deserves(u) THEN TokensOf(u) ELSE {}

(* q was not answered before r was received, and does not repeat a call    *)
(* that had been answered.                                                 *)
MayUndo(q, r) ==
  /\ q # r /\ call[q] # None /\ q \notin earlier[r]
  /\ code[q] \notin {"404", "replay"}
  /\ \A p \in earlier[q] : call[p] = call[q] => code[p] # "200"

(* Whoever was told before a run that their reminders are off gets none in *)
(* it, unless another change of their preferences was asked for since or   *)
(* meanwhile, even if a second row appears (service.py:26-32,              *)
(* repository.py:37-49, tasks.py:76-87).                                   *)
AckedMuteIsKept ==
  \A r \in before :
    /\ call[r].op = "update" /\ code[r] = "200"
    /\ "expiry_reminder_enabled" \in DOMAIN call[r].what
    /\ ~call[r].what.expiry_reminder_enabled
    => \/ PushedTo(call[r].user) = {}
       \/ \E q \in Reqs : MayUndo(q, r) /\ call[q].op = "update"
                          /\ call[q].user = call[r].user

(* Whoever was told that a device is registered keeps it until somebody    *)
(* registers it again or they remove it themselves; another user's removal *)
(* takes it away only if the two overlap, and a retry never does           *)
(* (repository.py:50-89, service.py:34-41, router.py:65-96).               *)
AckedRegistrationStays ==
  \A r \in Reqs :
    code[r] = "200" /\ call[r].op = "register" =>
      \/ Owners(call[r].what) = {call[r].user}
      \/ \E q \in Reqs :
           /\ MayUndo(q, r)
           /\ \/ call[q].op = "register" /\ call[q].what = call[r].what
              \/ call[q].op = "unregister"
                 /\ (call[q].user = call[r].user \/ r \notin earlier[q])

(* What a user was told of preferences and devices stays true, whatever    *)
(* requests overlap or die, until somebody asks for something else.        *)
AckedChangesStay == AckedMuteIsKept /\ AckedRegistrationStays

(* While requests do not overlap or die, no user has two rows, so no run   *)
(* breaks off for everybody and no request fails (repository.py:24-35,     *)
(* tasks.py:76-79).                                                        *)
CalmRunsThrough ==
  Calm => run # "aborted" /\ \A r \in Reqs : code[r] # "500"

(* tests/modules/notifications/test_notification_api.py:61 and             *)
(* models/notification.py:18: reminders are on by default, so a user       *)
(* without a row of preferences is told about what expires until tomorrow. *)
DefaultsRemind ==
  run = "done" =>
    \A u \in steady : RowsOf(u) = {} /\ Due(u, Defaults) => PushedTo(u) = TokensOf(u)
=============================================================================
