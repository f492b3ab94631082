---------------------------- MODULE Reservations ----------------------------
(***************************************************************************)
(* Meal plans that reserve what is in the inventory: POST /v1/plans and    *)
(* DELETE /v1/plans/{id}, each request a coroutine with a session of its   *)
(* own, beside the writes to the items that the module Inventory models.   *)
(*                                                                         *)
(* A plan request locks the usable items of the household, lets the        *)
(* planner choose recipes, reads what other plans have reserved, reserves  *)
(* from what is free, commits, which releases the locks, and then works    *)
(* out the shopping list from a second read.  As in Inventory, the session *)
(* goes on working with the attributes it loaded with the household.       *)
(*                                                                         *)
(* An item has a constant canonical name and a constant rank in the order  *)
(* by expiry date.  The status "active" stands for frozen too, "used" for  *)
(* discarded too.  Quantities are whole numbers.  One household.           *)
(***************************************************************************)
EXTENDS Integers, Sequences, FiniteSets, Functions

CONSTANTS
  Reqs,        \* requests, each received at most once; a plan is named by its request
  Users,       \* members of the household
  Keys,        \* idempotency keys
  Items,       \* item ids
  Names,       \* canonical names
  NameOf,      \* the name of each item
  Rank,        \* the place of each item in the order by expiry date
  Units,       \* units of measure
  BaseUnit,    \* the base unit of each unit
  Factor,      \* what one of each unit is in its base unit
  Quantities,  \* quantities an item can have
  Menus,       \* the ingredients of the plans that recipes can make, as sequences
  MaxWrites,   \* bound on the writes to items by other requests
  MaxFail,     \* bound on the requests that die
  None         \* None and null

Ingredient == [name : Names, quantity : Nat, unit : Units]

Row == [unit : Units, quantity : Quantities, status : {"active", "used"}]

(* A row of reserved_ingredients; "line" is the ingredient of the plan it  *)
(* is for.  Its unit, which nothing reads, is left out.                    *)
Reservation == [plan : Reqs, line : Nat \ {0}, item : Items, quantity : Nat \ {0}]

Calls == [op : {"plan"}, user : Users, key : Keys, plan : {None}]
           \cup [op : {"delete"}, user : Users, key : Keys, plan : Reqs]

(* Status codes, with "replay" for an answer from the idempotency cache.   *)
Answers == {"200", "404", "422", "500", "replay"}

ASSUME ReservationsAssumption ==
  /\ IsFiniteSet(Items) /\ NameOf \in [Items -> Names]
  /\ Rank \in [Items -> Nat]
  /\ \A i, j \in Items : Rank[i] = Rank[j] => i = j
  /\ BaseUnit \in [Units -> Units]
  /\ Factor \in [Units -> Nat \ {0}]
  /\ Quantities \subseteq Nat \ {0}
  /\ Menus \subseteq Seq(Ingredient)
  /\ None \notin Reqs \cup Menus \cup Row \cup Calls \cup Answers

(* An entry of the idempotency cache is stored under member, path and key. *)
Scope(c) == [user |-> c.user, key |-> c.key, plan |-> c.plan]
Scopes == {Scope(c) : c \in Calls}

VARIABLES
  stock,         \* the table inventory_items
  locked,        \* the request whose transaction holds the row lock of an item
  plans,         \* the table meal_plans
  reservations,  \* the table reserved_ingredients
  cache,         \* the idempotency cache; an answer is named by its request
  pc,            \* where each request is
  call,          \* what it asks
  attrs,         \* the attributes its session holds of every item
  view,          \* the items the locking SELECT returned
  menu,          \* the ingredients planned
  seen,          \* the reservations it has read before it reserves
  got,           \* the reservations it has made
  listed,        \* the quantity of each name on the shopping list
  code,          \* the status code answered
  most,          \* history: the largest base quantity an item ever had
  writes         \* history: the number of writes to items

session == <<attrs, view, menu, seen, got, listed>>
vars == <<stock, locked, plans, reservations, cache, pc, call, session, code,
          most, writes>>

Stages == {"idle", "loaded", "locked", "reserving", "reserved", "listed",
           "found", "deleted", "done", "failed"}

Shape ==
  /\ stock \in [Items -> Row \cup {None}]
  /\ locked \in [Items -> Reqs \cup {None}]
  /\ plans \subseteq Reqs
  /\ reservations \subseteq Reservation
  /\ cache \in [Scopes -> Reqs \cup {None}]
  /\ pc \in [Reqs -> Stages]
  /\ call \in [Reqs -> Calls \cup {None}]
  /\ attrs \in [Reqs -> [Items -> Row \cup {None}]]
  /\ view \in [Reqs -> SUBSET Items]
  /\ menu \in [Reqs -> Menus \cup {None}]
  /\ seen \in [Reqs -> SUBSET Reservation]
  /\ got \in [Reqs -> SUBSET Reservation]
  /\ code \in [Reqs -> Answers \cup {None}]
  /\ most \in [Items -> Nat]
  /\ writes \in Nat

TypeOK == Shape /\ listed \in [Reqs -> [Names -> Nat]]

---------------------------------------------------------------------------
(* Quantities.                                                             *)
NonNeg(n) == IF n < 0 THEN 0 ELSE n
Least(m, n) == IF m < n THEN m ELSE n

convert_to_base(x) == [quantity |-> x.quantity * Factor[x.unit], unit |-> BaseUnit[x.unit]]

Amount(rows) == SumFunction([x \in rows |-> x.quantity])

Reserved(res, i) == Amount({x \in res : x.item = i})

ReservedOfName(res, name) == Amount({x \in res : NameOf[x.item] = name})

---------------------------------------------------------------------------
NoItem == [i \in Items |-> None]
NothingListed == [n \in Names |-> 0]

Init ==
  /\ stock \in [Items -> {None} \cup {row \in Row : row.status = "active"}]
  /\ locked = NoItem
  /\ plans = {}
  /\ reservations = {}
  /\ cache = [s \in Scopes |-> None]
  /\ pc = [r \in Reqs |-> "idle"]
  /\ call = [r \in Reqs |-> None]
  /\ attrs = [r \in Reqs |-> NoItem]
  /\ view = [r \in Reqs |-> {}]
  /\ menu = [r \in Reqs |-> None]
  /\ seen = [r \in Reqs |-> {}]
  /\ got = [r \in Reqs |-> {}]
  /\ listed = [r \in Reqs |-> NothingListed]
  /\ code = [r \in Reqs |-> None]
  /\ most = [i \in Items |-> IF stock[i] = None THEN 0
                             ELSE convert_to_base(stock[i]).quantity]
  /\ writes = 0

Advance(r, stage) ==
  /\ pc' = [pc EXCEPT ![r] = stage]
  /\ UNCHANGED code

Finish(r, status) ==
  /\ pc' = [pc EXCEPT ![r] = "done"]
  /\ code' = [code EXCEPT ![r] = status]

(* The end of a transaction.                                               *)
Unlock(r) == locked' = [i \in Items |-> IF locked[i] = r THEN None ELSE locked[i]]

---------------------------------------------------------------------------
(* Receipt: authentication loads the household with its items.  A key is   *)
(* drawn for one operation, and a plan is deleted by who has seen it.      *)
KeyDiscipline(c) ==
  \A q \in Reqs : (call[q] # None /\ call[q].key = c.key /\ call[q].user = c.user)
                    => call[q] = c

Receive(r, c) ==
  /\ pc[r] = "idle"
  /\ KeyDiscipline(c)
  /\ c.op = "delete" => c.plan \in plans
  /\ call' = [call EXCEPT ![r] = c]
  /\ attrs' = [attrs EXCEPT ![r] = stock]
  /\ Advance(r, "loaded")
  /\ UNCHANGED <<stock, locked, plans, reservations, cache, view, menu, seen,
                 got, listed, most, writes>>

Hit(r) == cache[Scope(call[r])] # None

Replay(r) ==
  /\ pc[r] = "loaded"
  /\ Hit(r)
  /\ Finish(r, "replay")
  /\ UNCHANGED <<stock, locked, plans, reservations, cache, call, session, most, writes>>

Calling(r, op) == pc[r] = "loaded" /\ call[r].op = op /\ ~Hit(r)

---------------------------------------------------------------------------
(* SELECT FOR UPDATE of the items that are neither used nor discarded: it  *)
(* waits for other transactions that hold one of them.  Only an item the   *)
(* session has not loaded yet brings its present attributes.               *)
Usable == {i \in Items : stock[i] # None /\ stock[i].status = "active"}

Loaded(r) == [i \in Items |-> IF i \in Usable /\ attrs[r][i] = None
                              THEN stock[i] ELSE attrs[r][i]]

list_active_inventory(r) ==
  /\ Calling(r, "plan")
  /\ \A i \in Usable : locked[i] = None
  /\ locked' = [i \in Items |-> IF i \in Usable THEN r ELSE locked[i]]
  /\ view' = [view EXCEPT ![r] = Usable]
  /\ attrs' = [attrs EXCEPT ![r] = Loaded(r)]
  /\ Advance(r, "locked")
  /\ UNCHANGED <<stock, plans, reservations, cache, call, menu, seen, got,
                 listed, most, writes>>

(* The planner finds no recipe, and the session is closed.                 *)
no_matching_recipes(r) ==
  /\ pc[r] = "locked"
  /\ Unlock(r)
  /\ Finish(r, "422")
  /\ UNCHANGED <<stock, plans, reservations, cache, call, session, most, writes>>

(* Slip: the plan is committed, not flushed, before it reserves.           *)
plan_committed_early(r, m) ==
  /\ pc[r] = "locked"
  /\ menu' = [menu EXCEPT ![r] = m]
  /\ seen' = [seen EXCEPT ![r] = {x \in reservations : x.plan # r}]
  /\ Unlock(r)
  /\ Advance(r, "reserving")
  /\ UNCHANGED <<stock, plans, reservations, cache, call, attrs, view,
                 got, listed, most, writes>>

(* The planner chooses the recipes; the plan is flushed, and reserve_plan  *)
(* reads the reservations of all other plans.                              *)
generate_plan(r, m) ==
  /\ pc[r] = "locked"
  /\ menu' = [menu EXCEPT ![r] = m]
  /\ seen' = [seen EXCEPT ![r] = {x \in reservations : x.plan # r}]
  /\ Advance(r, "reserving")
  /\ UNCHANGED <<stock, locked, plans, reservations, cache, call, attrs, view,
                 got, listed, most, writes>>

---------------------------------------------------------------------------
(* What reserve_plan takes.  The items come in the order of their expiry   *)
(* dates; each line of the plan goes through those of its name and base    *)
(* unit and takes what is free, until it has enough.                       *)
Candidates(r, name) ==
  {i \in view[r] : attrs[r][i].status = "active" /\ NameOf[i] = name}

Need(r, n) == convert_to_base(menu[r][n])

(* Slip: the items that expire last are taken first.                       *)
ShareOfLast(r, n, taken, i) ==
  LET Fitting == {j \in Candidates(r, menu[r][n].name) :
                    convert_to_base(attrs[r][j]).unit = Need(r, n).unit}
      Free(j) == NonNeg(convert_to_base(attrs[r][j]).quantity - taken[j])
      Earlier == SumFunction([j \in {k \in Fitting : Rank[k] > Rank[i]} |-> Free(j)])
  IN  IF i \in Fitting THEN Least(Free(i), NonNeg(Need(r, n).quantity - Earlier)) ELSE 0

(* The share of item i in line n, with "taken" reserved of every item.     *)
Share(r, n, taken, i) ==
  LET Fitting == {j \in Candidates(r, menu[r][n].name) :
                    convert_to_base(attrs[r][j]).unit = Need(r, n).unit}
      Free(j) == NonNeg(convert_to_base(attrs[r][j]).quantity - taken[j])
      Earlier == SumFunction([j \in {k \in Fitting : Rank[k] < Rank[i]} |-> Free(j)])
  IN  IF i \in Fitting THEN Least(Free(i), NonNeg(Need(r, n).quantity - Earlier)) ELSE 0

(* What is reserved of every item after each line, other plans included.   *)
Taken(r) ==
  LET taken[n \in 0..Len(menu[r])] ==
        IF n = 0 THEN [i \in Items |-> Reserved(seen[r], i)]
        ELSE [i \in Items |-> taken[n - 1][i] + Share(r, n, taken[n - 1], i)]
  IN  taken

NewReservations(r) ==
  LET taken == Taken(r)
      Part(n, i) == taken[n][i] - taken[n - 1][i]
  IN  {[plan |-> r, line |-> p[1], item |-> p[2], quantity |-> Part(p[1], p[2])] :
         p \in {p \in (1..Len(menu[r])) \X view[r] : Part(p[1], p[2]) \in Nat \ {0}}}

(* A line may go short unless other plans hold some of its candidates.     *)
Insufficient(r) ==
  \E n \in DOMAIN menu[r] :
     /\ \E i \in Candidates(r, menu[r][n].name) : Reserved(seen[r], i) > 0
     /\ Amount({x \in NewReservations(r) : x.line = n}) < Need(r, n).quantity

(* Slip: the locks outlive the refusal.                                    *)
refuse_locked(r) ==
  /\ pc[r] = "reserving"
  /\ Insufficient(r)
  /\ Finish(r, "500")
  /\ UNCHANGED <<stock, locked, plans, reservations, cache, call, session, most, writes>>

refuse_plan(r) ==
  /\ pc[r] = "reserving"
  /\ Insufficient(r)
  /\ Unlock(r)
  /\ Finish(r, "500")
  /\ UNCHANGED <<stock, plans, reservations, cache, call, session, most, writes>>

reserve_plan(r) ==
  /\ pc[r] = "reserving"
  /\ ~Insufficient(r)
  /\ plans' = plans \cup {r}
  /\ reservations' = reservations \cup NewReservations(r)
  /\ got' = [got EXCEPT ![r] = NewReservations(r)]
  /\ Unlock(r)
  /\ Advance(r, "reserved")
  /\ UNCHANGED <<stock, cache, call, attrs, view, menu, seen, listed, most, writes>>

---------------------------------------------------------------------------
(* The shopping list: by name, without regard to units, what the plan      *)
(* needs beyond the inventory it saw less what other plans have reserved.  *)
Required(r, name) ==
  SumFunction([n \in {k \in DOMAIN menu[r] : menu[r][k].name = name} |-> Need(r, n).quantity])

Total(r, name) ==
  SumFunction([i \in Candidates(r, name) |-> convert_to_base(attrs[r][i]).quantity])

(* Slip: the plan's own reservations count among those of others.          *)
derive_from_rest(r) ==
  [name \in Names |->
     NonNeg(Required(r, name) - NonNeg(Total(r, name) - ReservedOfName(reservations, name)))]

derive_shopping_list(r) ==
  LET others == {x \in reservations : x.plan # r}
  IN  [name \in Names |->
         NonNeg(Required(r, name) - NonNeg(Total(r, name) - ReservedOfName(others, name)))]

list_gaps(r) ==
  /\ pc[r] = "reserved"
  /\ listed' = [listed EXCEPT ![r] = derive_shopping_list(r)]
  /\ Advance(r, "listed")
  /\ UNCHANGED <<stock, locked, plans, reservations, cache, call, attrs, view,
                 menu, seen, got, most, writes>>

---------------------------------------------------------------------------
(* Slip: members may delete each other's plans.                            *)
FoundByAll(r) == call[r].plan \in plans

Found(r) == call[r].plan \in plans /\ call[call[r].plan].user = call[r].user

find_plan(r) ==
  /\ Calling(r, "delete")
  /\ IF Found(r) THEN Advance(r, "found") ELSE Finish(r, "404")
  /\ UNCHANGED <<stock, locked, plans, reservations, cache, call, session, most, writes>>

(* The rows of the plan go with it; if another request was first, nothing  *)
(* is left to delete.                                                      *)
delete_plan(r) ==
  /\ pc[r] = "found"
  /\ plans' = plans \ {call[r].plan}
  /\ reservations' = {x \in reservations : x.plan # call[r].plan}
  /\ Advance(r, "deleted")
  /\ UNCHANGED <<stock, locked, cache, call, session, most, writes>>

respond(r) ==
  /\ pc[r] \in {"listed", "deleted"}
  /\ cache' = [cache EXCEPT ![Scope(call[r])] = r]
  /\ Finish(r, "200")
  /\ UNCHANGED <<stock, locked, plans, reservations, call, session, most, writes>>

(* The process dies, and the database ends the transaction.                *)
die(r) ==
  /\ pc[r] \notin {"idle", "done", "failed"}
  /\ Cardinality({q \in Reqs : pc[q] = "failed"}) < MaxFail
  /\ Unlock(r)
  /\ Advance(r, "failed")
  /\ UNCHANGED <<stock, plans, reservations, cache, call, session, most, writes>>

---------------------------------------------------------------------------
(* The commits of the item requests: they wait for the row lock, and the   *)
(* foreign key keeps an item that is reserved.                             *)
write_item(i, row) ==
  /\ writes < MaxWrites
  /\ locked[i] = None
  /\ stock' = [stock EXCEPT ![i] = row]
  /\ most' = [most EXCEPT ![i] = IF @ < convert_to_base(row).quantity
                                 THEN convert_to_base(row).quantity ELSE @]
  /\ writes' = writes + 1
  /\ UNCHANGED <<locked, plans, reservations, cache, pc, call, session, code>>

remove_item(i) ==
  /\ writes < MaxWrites
  /\ locked[i] = None
  /\ stock[i] # None
  /\ \A x \in reservations : x.item # i
  /\ stock' = [stock EXCEPT ![i] = None]
  /\ writes' = writes + 1
  /\ UNCHANGED <<locked, plans, reservations, cache, pc, call, session, code, most>>

---------------------------------------------------------------------------
Step(r) ==
  \/ Replay(r)
  \/ list_active_inventory(r)
  \/ no_matching_recipes(r)
  \/ \E m \in Menus : generate_plan(r, m)
  \/ refuse_plan(r)
  \/ reserve_plan(r)
  \/ list_gaps(r)
  \/ find_plan(r)
  \/ delete_plan(r)
  \/ respond(r)

Next ==
  \/ \E r \in Reqs : \/ \E c \in Calls : Receive(r, c)
                     \/ Step(r)
                     \/ die(r)
  \/ \E i \in Items : \/ \E row \in Row : write_item(i, row)
                      \/ remove_item(i)

Spec == Init /\ [][Next]_vars

---------------------------------------------------------------------------
(* While a request reserves, it has read every reservation that any other  *)
(* plan holds of the items it chooses from: what reserve_plan reads stays  *)
(* complete until its commit, which is what the row locks are for.         *)
SeenIsComplete ==
  \A r \in Reqs : pc[r] = "reserving" =>
    \A x \in reservations : x.item \in view[r] /\ x.plan # r => x \in seen[r]

(* The plans of a household never reserve more of an item together than    *)
(* there was of it at some time, whatever plans, deletions, edits and      *)
(* crashes overlap.                                                        *)
ReservedWithinMost ==
  \A i \in Items : Reserved(reservations, i) <= most[i]

Planned(r) == call[r].op = "plan" /\ (pc[r] = "listed" \/ code[r] = "200")

(* What a plan needs of a name and what there was of it are measured in    *)
(* one base unit: the shopping list adds all amounts of a name together.   *)
OneBaseUnit(r, name) ==
  \A n \in DOMAIN menu[r] : \A i \in Candidates(r, name) :
    menu[r][n].name = name => convert_to_base(attrs[r][i]).unit = Need(r, n).unit

(* Every ingredient of an answered plan is reserved for it or on its       *)
(* shopping list, although reservations and list come from two reads       *)
(* between which other plans and edits come and go.                        *)
IngredientsProvided ==
  \A r \in Reqs : (pc[r] # "idle" /\ Planned(r)) =>
    \A name \in Names : OneBaseUnit(r, name) =>
      Required(r, name) <= ReservedOfName(got[r], name) + listed[r][name]

(* FR-10, "a shopping list for missing items only": while nobody edits     *)
(* items, the shopping list of a plan, unless it is deleted before it is   *)
(* answered, has nothing that has been reserved for it.  After an edit     *)
(* another plan may hold items this one has never seen, and the list takes *)
(* them for a part of those it has.                                        *)
ListedOnlyMissing ==
  writes = 0 => \A r \in plans : Planned(r) =>
    \A name \in Names :
      ReservedOfName(got[r], name) + listed[r][name]
        <= Required(r, name)

(* Reservations and shopping list, which come from two reads with a commit *)
(* in between, make up what the plan needs, no less and no more.           *)
ListIsExact == IngredientsProvided /\ ListedOnlyMissing

(* What expires first is taken first: a plan that takes from an item has   *)
(* left nothing free of the items of that name and base unit that expire   *)
(* before it, over all its days together.                                  *)
ExpiringFirst ==
  \A r \in Reqs : \A x \in got[r] :
    \A j \in Candidates(r, NameOf[x.item]) :
      (/\ Rank[j] < Rank[x.item]
       /\ convert_to_base(attrs[r][j]).unit = convert_to_base(attrs[r][x.item]).unit)
      => convert_to_base(attrs[r][j]).quantity
           <= Reserved(seen[r], j) + Reserved(got[r], j)

(* All that request r has reserved is still there, or r's member has asked *)
(* for the deletion of the plan.                                           *)
Kept(r) ==
  \/ /\ r \in plans
     /\ got[r] \subseteq reservations
     /\ \A x \in got[r] : stock[x.item] # None
  \/ \E q \in Reqs : /\ pc[q] # "idle"
                     /\ call[q].op = "delete"
                     /\ call[q].plan = r
                     /\ call[q].user = call[r].user

(* An acknowledged plan keeps all it has reserved, and the items stay,     *)
(* until the member who made it asks for its deletion.                     *)
AckedPlanKept ==
  \A r \in Reqs : (code[r] = "200" /\ call[r].op = "plan") => Kept(r)

(* The invariant behind SeenIsComplete and AckedPlanKept: which stages     *)
(* hold locks and of what (so that no refused, dead or answered request    *)
(* keeps the others waiting), which stage belongs to which operation, and  *)
(* what a committed plan and a deletion under way can count on.            *)
LocksInv ==
  /\ \A i \in Items : locked[i] # None => /\ pc[locked[i]] \in {"locked", "reserving"}
                                          /\ stock[i] # None
  /\ \A r \in Reqs : pc[r] \in {"locked", "reserving"} =>
                        view[r] = {i \in Items : locked[i] = r}

StagesInv ==
  /\ \A r \in Reqs : pc[r] = "idle" <=> call[r] = None
  /\ \A r \in Reqs : pc[r] \in {"locked", "reserving", "reserved", "listed"} =>
                        call[r].op = "plan" /\ code[r] = None
  /\ \A r \in Reqs : pc[r] \in {"found", "deleted"} => call[r].op = "delete" /\ code[r] = None
  /\ \A r \in Reqs : pc[r] = "found" => /\ call[r].plan \in Reqs
                                         /\ pc[call[r].plan] # "idle"
                                         /\ call[call[r].plan].user = call[r].user
  /\ \A r \in Reqs : pc[r] \in {"idle", "loaded"} => code[r] = None
  /\ \A r \in plans : pc[r] # "idle"

PlansInv ==
  /\ \A r \in Reqs : \A x \in got[r] : x.plan = r
  /\ \A r \in Reqs : pc[r] \in {"reserved", "listed"} => Kept(r)

(* The invariant behind ReservedWithinMost and ExpiringFirst: a plan has   *)
(* nothing before it reserves, knows what it chooses from, and no session  *)
(* believes in more of an item than there was at some time.                *)
AmountsInv ==
  /\ IsFiniteSet(reservations) /\ \A r \in Reqs : IsFiniteSet(seen[r])
  /\ \A r \in Reqs : pc[r] \in {"idle", "loaded", "locked", "reserving"} =>
                        got[r] = {} /\ \A x \in reservations : x.plan # r
  /\ \A r \in Reqs : pc[r] \in {"locked", "reserving", "reserved", "listed"} =>
                        \A i \in view[r] : attrs[r][i] # None
  /\ \A r \in Reqs : pc[r] \in {"reserving", "reserved", "listed"} => menu[r] # None
  /\ \A i \in Items : \A row \in {stock[i]} \cup {attrs[r][i] : r \in Reqs} :
                        row # None => convert_to_base(row).quantity <= most[i]

(* The invariant behind ListIsExact: what a plan has reserved once it has  *)
(* reserved, and, while nobody edits items, that every session sees the    *)
(* items as they are, and no other plan holds an item this one has not.    *)
MadeInv ==
  \A r \in Reqs : pc[r] = "reserved" =>
    /\ IsFiniteSet(got[r])
    /\ \A name \in Names :
         /\ ReservedOfName(got[r], name) <= Required(r, name)
         /\ OneBaseUnit(r, name) => \/ Required(r, name) <= ReservedOfName(got[r], name)
                                    \/ Total(r, name) <= ReservedOfName(got[r], name)

GotInv == \A r \in plans : got[r] \subseteq reservations

UneditedInv ==
  writes = 0 =>
    /\ \A i \in Items : stock[i] # None => /\ stock[i].status = "active"
                                           /\ most[i] = convert_to_base(stock[i]).quantity
    /\ \A r \in Reqs : \A i \in Items : attrs[r][i] # None => attrs[r][i] = stock[i]
    /\ \A r \in Reqs : pc[r] \in {"locked", "reserving", "reserved"} =>
                          view[r] = {i \in Items : stock[i] # None}
    /\ \A x \in reservations : stock[x.item] # None

ListInv == MadeInv /\ GotInv /\ UneditedInv /\ ListIsExact

Inv == Shape /\ LocksInv /\ StagesInv /\ PlansInv /\ SeenIsComplete /\ AckedPlanKept
         /\ AmountsInv
=============================================================================
