----------------------------- MODULE Membership -----------------------------
(***************************************************************************)
(* Households and their members: create, join, leave, remove, activate,    *)
(* and the default household of a user who has none.                       *)
(*                                                                         *)
(* Every request is a coroutine with a session of its own and several      *)
(* commits; each action is one transaction with the reads before it.  The  *)
(* session holds the user's own memberships as they were when the request  *)
(* was received (User.household_memberships is loaded with the user and    *)
(* never expires) and every decision about them uses those attributes,     *)
(* while the rows a query finds are those committed at that moment.        *)
(*                                                                         *)
(* A membership is created_at its id.  Names of households, invite codes   *)
(* (one for each household) and the body of an answer are left out.        *)
(***************************************************************************)
EXTENDS Integers, FiniteSets

CONSTANTS
  Reqs,         \* requests, numbered in the order in which they are received
  Users,        \* users
  Callers,      \* bound on the users who send requests
  Households,   \* household ids, those to be created included
  Starts,       \* the memberships there may be at the start
  MaxTrouble,   \* bound on the requests received while another runs or that die
  None          \* None and null

Membership == [id : Nat, household : Households, user : Users,
               role : {"owner", "member"}, active : BOOLEAN]

(* "household" is named in the path or by its invite code; "target" is the *)
(* member to remove.  "list" stands for every request without a key.       *)
Calls ==
  [op : {"list"}, user : Users, household : {None}, target : {None}, key : {None}]
  \cup [op : {"create"}, user : Users, household : {None}, target : {None}, key : Reqs]
  \cup [op : {"update", "join", "leave"}, user : Users, household : Households,
        target : {None}, key : Reqs]
  \cup [op : {"remove"}, user : Users, household : Households, target : Users, key : Reqs]

(* Status codes, with "replay" for an answer from the idempotency cache and *)
(* "failed" for a request that dies.                                       *)
Answers == {"200", "403", "404", "500", "replay", "failed"}

ASSUME MembershipAssumption ==
  /\ Reqs \subseteq Nat
  /\ Callers \subseteq Users
  /\ Starts \subseteq SUBSET Membership
  /\ \A S \in Starts : /\ IsFiniteSet(S) /\ \A m \in S : m.id <= Cardinality(S)
                       /\ \A m, n \in S : m.id = n.id => m = n
  /\ MaxTrouble \in Nat
  /\ None \notin Reqs \cup Users \cup Households \cup Membership \cup Calls \cup Answers

VARIABLES
  households,  \* the table households: "none" before, "open", "deleted" after
  members,     \* the table household_members
  last,        \* the newest id of a membership
  cache,       \* calls whose answer the idempotency cache holds
  pc,          \* where each request is
  call,        \* what it asks
  held,        \* the memberships of its user as its session holds them
  goal,        \* the household it creates or enters
  leaving,     \* the membership it removes
  seen,        \* the members it saw before that
  heir,        \* the user it promotes
  code,        \* the status code answered
  earlier,     \* history: the requests answered when it was received
  abandoned    \* history: households whose deletion failed

tables == <<households, members, last, cache>>
session == <<call, held, goal, leaving, seen, heir>>
vars == <<tables, pc, session, code, earlier, abandoned>>

Stages == {"idle", "default", "lookup", "create", "add", "activate", "remove",
           "drop", "reactivate", "settle", "promote", "respond", "done"}

TypeOK ==
  /\ households \in [Households -> {"none", "open", "deleted"}]
  /\ members \subseteq Membership
  /\ last \in Nat
  /\ cache \subseteq Calls
  /\ pc \in [Reqs -> Stages]
  /\ call \in [Reqs -> Calls \cup {None}]
  /\ held \in [Reqs -> SUBSET Membership]
  /\ goal \in [Reqs -> Households \cup {None}]
  /\ leaving \in [Reqs -> Membership \cup {None}]
  /\ seen \in [Reqs -> SUBSET Membership]
  /\ heir \in [Reqs -> Users \cup {None}]
  /\ code \in [Reqs -> Answers \cup {None}]
  /\ earlier \in [Reqs -> SUBSET Reqs]
  /\ abandoned \subseteq Households

Init ==
  /\ members \in Starts
  /\ last = Cardinality(members)
  /\ households = [h \in Households |->
                     IF \E m \in members : m.household = h THEN "open" ELSE "none"]
  /\ cache = {}
  /\ pc = [r \in Reqs |-> "idle"]
  /\ call = [r \in Reqs |-> None]
  /\ held = [r \in Reqs |-> {}]
  /\ goal = [r \in Reqs |-> None]
  /\ leaving = [r \in Reqs |-> None]
  /\ seen = [r \in Reqs |-> {}]
  /\ heir = [r \in Reqs |-> None]
  /\ code = [r \in Reqs |-> None]
  /\ earlier = [r \in Reqs |-> {}]
  /\ abandoned = {}

-----------------------------------------------------------------------------
(* What the queries of HouseholdRepository find.                           *)
Of(u) == {m \in members : m.user = u}
In(h) == {m \in members : m.household = h}

get_membership(h, u) == Of(u) \cap In(h)

First(R) == CHOOSE m \in R : \A n \in R : m.id <= n.id

(* More than one row where scalar_one_or_none expects at most one.         *)
Ambiguous(R) == \E m, n \in R : m # n

(* The attributes the session of r goes by for a row that a query returns. *)
Known(r, m) == IF \E k \in held[r] : k.id = m.id
               THEN CHOOSE k \in held[r] : k.id = m.id
               ELSE m

HasOwner(R) == \E m \in R : m.role = "owner"

(* set_active_membership: only attributes that differ from what the        *)
(* session holds are written, and nothing is committed without a target.   *)
Activated(r, u, h) ==
  IF get_membership(h, u) = {} THEN members
  ELSE {IF m.user = u /\ Known(r, m).active # (m.household = h)
        THEN [m EXCEPT !.active = (m.household = h)] ELSE m : m \in members}

InFlight == {r \in Reqs : pc[r] \notin {"idle", "done"}}
Goto(r, stage) == pc' = [pc EXCEPT ![r] = stage]
At(r, stage) == pc[r] = stage /\ UNCHANGED earlier

(* Requests that another one was running beside when they came, and those  *)
(* that died; while there are none, requests are carried out one by one.   *)
Overlapping == {r \in Reqs : call[r] # None /\ earlier[r] # {q \in Reqs : q < r}}
Failed == {r \in Reqs : code[r] = "failed"}
Trouble == Cardinality(Overlapping) + Cardinality(Failed)
Calm == Overlapping = {} /\ Failed = {}

(* The request ends, and its session with it.                              *)
Close(r, c) ==
  /\ Goto(r, "done")
  /\ code' = [code EXCEPT ![r] = c]
  /\ held' = [held EXCEPT ![r] = {}]
  /\ seen' = [seen EXCEPT ![r] = {}]
  /\ leaving' = [leaving EXCEPT ![r] = None]
  /\ heir' = [heir EXCEPT ![r] = None]
  /\ UNCHANGED <<households, members, last, call, goal>>

(* It ends early: only "respond" leaves an answer in the cache.            *)
Answer(r, c) == Close(r, c) /\ UNCHANGED <<cache, abandoned>>

(* The app draws a new key for a call, named here by its first request, and *)
(* sends it again only to repeat that call.                                *)
KeyDiscipline(r, c) == c.key \in {None, r} \/ \E q \in Reqs : call[q] = c

-----------------------------------------------------------------------------
(* The dependencies: get_current_user loads the user with the memberships  *)
(* and counts them.                                                        *)
Receive(r, c) ==
  /\ pc[r] = "idle" /\ \A q \in Reqs : pc[q] = "idle" => r <= q
  /\ c.user \in Callers
  /\ InFlight = {} \/ Trouble < MaxTrouble
  /\ KeyDiscipline(r, c)
  /\ c.household # None => households[c.household] # "none"
  /\ call' = [call EXCEPT ![r] = c]
  /\ held' = [held EXCEPT ![r] = Of(c.user)]
  /\ earlier' = [earlier EXCEPT ![r] = {q \in Reqs : pc[q] = "done"}]
  /\ Goto(r, IF Of(c.user) = {} THEN "default" ELSE "lookup")
  /\ UNCHANGED <<tables, goal, leaving, seen, heir, code, abandoned>>

(* A household with its first member, the owner, in one commit.            *)
Unused == {h \in Households : households[h] = "none"}

Found(r, stage) ==
  LET h == CHOOSE x \in Unused : TRUE
      m == [id |-> last + 1, household |-> h, user |-> call[r].user,
            role |-> "owner", active |-> TRUE]
  IN /\ Unused # {}
     /\ households' = [households EXCEPT ![h] = "open"]
     /\ members' = members \cup {m}
     /\ last' = last + 1
     /\ held' = [held EXCEPT ![r] = @ \cup {m}]
     /\ goal' = [goal EXCEPT ![r] = h]
     /\ Goto(r, stage)
     /\ UNCHANGED <<cache, call, leaving, seen, heir, code, abandoned>>

_ensure_default_household(r) == At(r, "default") /\ Found(r, "lookup")

(* Slip: the handler of joins does not look into the cache.                *)
hit_unless_join(r) == call[r].key # None /\ call[r].op # "join" /\ call[r] \in cache

(* get_cached: a creation, an update or a join is answered with a body, a  *)
(* departure or removal with an empty one.                                 *)
Hit(r) == call[r].key # None /\ call[r] \in cache
Replay(r) == At(r, "lookup") /\ Hit(r) /\ Answer(r, "replay")

Calling(r, op) == At(r, "lookup") /\ ~Hit(r) /\ call[r].op = op

list_households(r) ==
  /\ Calling(r, "list")
  /\ IF Of(call[r].user) # {} THEN Answer(r, "200")
     ELSE /\ Goto(r, "create")
          /\ UNCHANGED <<tables, session, code, abandoned>>

create_household(r) ==
  /\ Calling(r, "create") \/ At(r, "create")
  /\ Found(r, "activate")

Enter(r, stage) ==
  /\ goal' = [goal EXCEPT ![r] = call[r].household]
  /\ Goto(r, stage)
  /\ UNCHANGED <<tables, call, held, leaving, seen, heir, code, abandoned>>

update_household(r) ==
  /\ Calling(r, "update")
  /\ IF get_membership(call[r].household, call[r].user) = {}
     THEN Answer(r, "404") ELSE Enter(r, "activate")

join_household(r) ==
  /\ Calling(r, "join")
  /\ LET own == get_membership(call[r].household, call[r].user)
     IN IF households[call[r].household] # "open" THEN Answer(r, "404")
        ELSE IF Ambiguous(own) THEN Answer(r, "500")
        ELSE Enter(r, IF own = {} THEN "add" ELSE "activate")

(* The foreign key refuses a member of a household that is gone.           *)
add_member(r) ==
  /\ At(r, "add")
  /\ IF households[goal[r]] # "open" THEN Answer(r, "500")
     ELSE LET m == [id |-> last + 1, household |-> goal[r], user |-> call[r].user,
                    role |-> "member", active |-> TRUE]
          IN /\ members' = members \cup {m}
             /\ last' = last + 1
             /\ held' = [held EXCEPT ![r] = @ \cup {m}]
             /\ Goto(r, "activate")
             /\ UNCHANGED <<households, cache, call, goal, leaving, seen,
                            heir, code, abandoned>>

set_active_membership(r) ==
  /\ At(r, "activate")
  /\ members' = Activated(r, call[r].user, goal[r])
  /\ Goto(r, "respond")
  /\ UNCHANGED <<households, last, cache, session, code, abandoned>>

-----------------------------------------------------------------------------
(* Leaving and removing.                                                   *)
Depart(r, m) ==
  /\ leaving' = [leaving EXCEPT ![r] = Known(r, m)]
  /\ seen' = [seen EXCEPT ![r] = IF call[r].op # "leave" THEN {}
                                 ELSE {Known(r, n) : n \in In(call[r].household)}]
  /\ Goto(r, "remove")
  /\ UNCHANGED <<tables, call, held, goal, heir, code, abandoned>>

leave_household(r) ==
  /\ Calling(r, "leave")
  /\ LET own == get_membership(call[r].household, call[r].user)
     IN IF own = {} THEN Answer(r, "404")
        ELSE IF Ambiguous(own) THEN Answer(r, "500")
        ELSE \E m \in own : Depart(r, m)

(* Only an owner removes members.                                          *)
MayRemove(r, m) == Known(r, m).role = "owner"

remove_member(r) ==
  /\ Calling(r, "remove")
  /\ LET actor == get_membership(call[r].household, call[r].user)
         target == get_membership(call[r].household, call[r].target)
     IN IF actor = {} THEN Answer(r, "404")
        ELSE IF Ambiguous(actor) THEN Answer(r, "500")
        ELSE IF \E m \in actor : ~MayRemove(r, m) THEN Answer(r, "403")
        ELSE IF target = {} THEN Answer(r, "404")
        ELSE IF Ambiguous(target) THEN Answer(r, "500")
        ELSE \E m \in target : Depart(r, m)

Others(r) == {n \in seen[r] : n.user # leaving[r].user}

(* Slip: the one who leaves counts as an owner who stays.                  *)
inherits_if_no_owner(r) == leaving[r].role = "owner" /\ ~HasOwner(seen[r])

(* Leaving decides on the members seen before the commit.                  *)
InheritsSeen(r) == leaving[r].role = "owner" /\ ~HasOwner(Others(r))
AfterLeave(r) == IF InheritsSeen(r) THEN "promote" ELSE "respond"

(* Slip: the id of the membership is taken for that of the user.           *)
id_of(m) == m.id

Heir(m) == m.user

remove_membership(r) ==
  /\ At(r, "remove")
  /\ members' = {m \in members : m.id # leaving[r].id}
  /\ heir' = [heir EXCEPT ![r] = IF call[r].op = "leave" /\ Others(r) # {}
                                 THEN Heir(First(Others(r))) ELSE None]
  /\ Goto(r, IF call[r].op = "leave" /\ Others(r) = {} THEN "drop"
             ELSE IF leaving[r].active THEN "reactivate"
             ELSE IF call[r].op = "leave" THEN AfterLeave(r) ELSE "settle")
  /\ UNCHANGED <<households, last, cache, call, held, goal, leaving, seen,
                 code, abandoned>>

(* The first of the memberships left becomes the active one.               *)
reactivate(r) ==
  /\ At(r, "reactivate")
  /\ LET u == leaving[r].user
     IN members' = IF Of(u) = {} THEN members
                   ELSE Activated(r, u, First(Of(u)).household)
  /\ Goto(r, IF call[r].op = "leave" THEN AfterLeave(r) ELSE "settle")
  /\ UNCHANGED <<households, last, cache, session, code, abandoned>>

(* Members the session did not load with the household make its deletion   *)
(* fail on a foreign key, and so do the events of its log and its plans:    *)
(* there may be some or none.                                              *)
Deletable(h) == In(h) = {}

delete_household(r, h) ==
  \/ /\ Deletable(h)
     /\ households' = [households EXCEPT ![h] = "deleted"]
     /\ members' = members \ In(h)
     /\ Goto(r, "respond")
     /\ UNCHANGED <<last, cache, session, code, abandoned>>
  \/ /\ Close(r, "500")
     /\ abandoned' = abandoned \cup {h}
     /\ UNCHANGED cache

drop_household(r) ==
  /\ At(r, "drop")
  /\ IF households[call[r].household] = "open"
     THEN delete_household(r, call[r].household)
     ELSE Goto(r, "respond") /\ UNCHANGED <<tables, session, code, abandoned>>

(* Removing decides on the members there are after the commit, and         *)
(* promotes whichever comes first.                                         *)
settle(r) ==
  LET h == call[r].household
      now == {Known(r, m) : m \in In(h)}
  IN /\ At(r, "settle")
     /\ IF households[h] = "open" /\ In(h) = {} THEN delete_household(r, h)
        ELSE /\ IF leaving[r].role = "owner" /\ In(h) # {} /\ ~HasOwner(now)
                THEN \E m \in In(h) : /\ heir' = [heir EXCEPT ![r] = Heir(m)]
                                      /\ Goto(r, "promote")
                ELSE Goto(r, "respond") /\ UNCHANGED heir
             /\ UNCHANGED <<tables, call, held, goal, leaving, seen, code, abandoned>>

update_member_role(r) ==
  /\ At(r, "promote")
  /\ LET next == get_membership(call[r].household, heir[r])
     IN IF Ambiguous(next) THEN Answer(r, "500")
        ELSE /\ members' = {IF m \in next THEN [m EXCEPT !.role = "owner"] ELSE m
                              : m \in members}
             /\ Goto(r, "respond")
             /\ UNCHANGED <<households, last, cache, session, code, abandoned>>

-----------------------------------------------------------------------------
(* The household is read again for the answer, which store_cached keeps.   *)
Lost(r) == call[r].op \in {"create", "update", "join", "list"} /\ goal[r] # None
             /\ households[goal[r]] # "open"

respond(r) ==
  /\ At(r, "respond")
  /\ Close(r, IF ~Lost(r) THEN "200" ELSE IF call[r].op = "update" THEN "404" ELSE "500")
  /\ cache' = IF Lost(r) \/ call[r].key = None THEN cache ELSE cache \cup {call[r]}
  /\ UNCHANGED abandoned

(* The process dies, or the database refuses a row that another request    *)
(* changed between the SELECT and the UPDATE of one transaction.           *)
Fail(r) ==
  /\ r \in InFlight
  /\ Trouble < MaxTrouble
  /\ Close(r, "failed")
  /\ UNCHANGED <<cache, earlier, abandoned>>

Step(r) ==
  \/ _ensure_default_household(r)
  \/ Replay(r) \/ list_households(r) \/ create_household(r)
  \/ update_household(r) \/ join_household(r) \/ add_member(r)
  \/ set_active_membership(r)
  \/ leave_household(r) \/ remove_member(r) \/ remove_membership(r) \/ reactivate(r)
  \/ drop_household(r) \/ settle(r) \/ update_member_role(r)
  \/ respond(r)

Next == \E r \in Reqs : Step(r) \/ Fail(r) \/ \E c \in Calls : Receive(r, c)

Spec == Init /\ [][Next]_vars

-----------------------------------------------------------------------------
(* Properties.                                                             *)
Rest == InFlight = {}
Owners(h) == {m \in In(h) : m.role = "owner"}

(* q was not answered before r was received, and does not repeat a call    *)
(* that had been answered.                                                 *)
MayUndo(q, r) ==
  /\ q # r /\ call[q] # None /\ q \notin earlier[r]
  /\ code[q] \notin {"403", "404", "replay"}
  /\ \A p \in earlier[q] : call[p] = call[q] => code[p] # "200"

Departure(q, u, h) ==
  /\ call[q].household = h
  /\ \/ call[q].op = "leave" /\ call[q].user = u
     \/ call[q].op = "remove" /\ call[q].target = u

(* Whoever was told that they created, joined or activated a household is  *)
(* a member of it until a departure that was not over before: no deletion  *)
(* of the household, no retry and no other member's request takes the      *)
(* membership away (service.py:35-88, :100-105, :140-142).                 *)
AckedMemberStays ==
  \A r \in Reqs :
    code[r] = "200" /\ call[r].op \in {"create", "join", "update"} =>
      \/ get_membership(goal[r], call[r].user) # {}
      \/ \E q \in Reqs : MayUndo(q, r) /\ Departure(q, call[r].user, goal[r])

(* Whoever left or was removed stays out until they join again with a call *)
(* that had not been answered before: a retried join does not bring them   *)
(* back (service.py:90-130, router.py:155-166).                            *)
AckedLeaverStaysOut ==
  \A r \in Reqs : \A u \in Users :
    code[r] = "200" /\ call[r].op \in {"leave", "remove"}
        /\ Departure(r, u, call[r].household) =>
      \/ get_membership(call[r].household, u) = {}
      \/ \E q \in Reqs : /\ MayUndo(q, r)
                         /\ call[q].op = "join" /\ call[q].user = u
                         /\ call[q].household = call[r].household

(* Households at the start are as requests leave them: nobody is twice a   *)
(* member, every household has one owner, and every member has one active  *)
(* household.                                                              *)
Orderly ==
  \A S \in Starts : \A m \in S :
    /\ \A n \in S : m.user = n.user /\ m.household = n.household => m = n
    /\ \E o \in S : /\ o.household = m.household /\ o.role = "owner"
                    /\ \A n \in S : n.household = m.household /\ n.role = "owner" => n = o
    /\ \E a \in S : /\ a.user = m.user /\ a.active
                    /\ \A n \in S : n.user = m.user /\ n.active => n = a

(* While requests do not overlap or die, a household has exactly one owner *)
(* whenever no request runs, whoever left or was removed, unless its       *)
(* deletion was refused once (service.py:112-115, :144-149).               *)
CalmOneOwner ==
  Calm /\ Rest => \A h \in Households \ abandoned :
    households[h] = "open" => Cardinality(Owners(h)) = 1

(* While requests do not overlap or die, a user has one membership in a    *)
(* household: a second join finds the first (service.py:75).               *)
CalmOneMembership ==
  Calm => \A m, n \in members : m.user = n.user /\ m.household = n.household => m = n

(* The user left a household as its last member.                           *)
LeftLast(u) == \E r \in Reqs :
  /\ pc[r] = "done" /\ call[r].op = "leave" /\ call[r].user = u
  /\ households[call[r].household] = "deleted" \/ call[r].household \in abandoned

(* While requests do not overlap or die, a user with memberships has       *)
(* exactly one active one whenever no request runs; only who leaves as the *)
(* last member may end up with none (service.py:101-110, :132-135,         *)
(* repository.py:128-142).                                                 *)
CalmOneActive ==
  Calm /\ Rest => \A u \in Users :
    LET on == {m \in Of(u) : m.active}
    IN Of(u) # {} => Cardinality(on) = 1 \/ (on = {} /\ LeftLast(u))

(* While requests do not overlap or die none ends in an error, except the  *)
(* departure of the last member of a household that other tables refer to: *)
(* no lookup meets two memberships and no member is added to a household   *)
(* that is gone (repository.py:48-55, service.py:101-105).                 *)
CalmSucceeds ==
  Calm => \A r \in Reqs : code[r] = "500" =>
    call[r].op \in {"leave", "remove"} /\ call[r].household \in abandoned

(* What a member was told of a membership stays true, whatever requests    *)
(* overlap or die, until somebody asks for something else.                 *)
AckedChangesStay == AckedMemberStays /\ AckedLeaverStaysOut

(* While requests do not overlap or die: one owner, one membership, one    *)
(* active household, and no errors.                                        *)
CalmHouseholds == CalmOneOwner /\ CalmOneMembership /\ CalmOneActive /\ CalmSucceeds
=============================================================================
