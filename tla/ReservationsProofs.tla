------------------------- MODULE ReservationsProofs -------------------------
(* Theorems about Reservations, for all values of its constants: the types,*)
(* the protocol of the row locks, what becomes of a plan once it is        *)
(* acknowledged, and what the sums of quantities come to: no item is       *)
(* overbooked, what expires first is taken first, and reservations and     *)
(* shopping list make up what a plan needs.  Facts about sums and about    *)
(* the recursion over the lines of a plan go by induction over a set of    *)
(* facts, from the well-foundedness of its order.                          *)
EXTENDS Reservations, WellFoundedInduction, FiniteSetTheorems, TLAPS

---------------------------------------------------------------------------
LEMMA CallFields ==
  ASSUME NEW c \in Calls
  PROVE  /\ c # None
         /\ c.op \in {"plan", "delete"}
         /\ c.op = "delete" => c.plan \in Reqs
         /\ Scope(c) \in Scopes
  BY ReservationsAssumption DEF Calls, Scopes

(* A quantity in its base unit is a natural number.                        *)
LEMMA BaseQuantity ==
  ASSUME NEW row \in Row
  PROVE  convert_to_base(row).quantity \in Nat
  <1>1. row.quantity \in Nat /\ Factor[row.unit] \in Nat
    BY ReservationsAssumption DEF Row
  <1>2. \A m, n \in Nat : m * n \in Nat
    OBVIOUS
  <1> QED
    BY <1>1, <1>2 DEF convert_to_base

(* What reserve_plan adds: rows of the plan itself, of items it has locked.*)
LEMMA NewReservationFields ==
  ASSUME NEW r \in Reqs, view[r] \subseteq Items, NEW x \in NewReservations(r)
  PROVE  x \in Reservation /\ x.plan = r /\ x.item \in view[r]
  <1> DEFINE taken == Taken(r)
             Part(n, i) == taken[n][i] - taken[n - 1][i]
             last == Len(menu[r])
  <1>1. PICK n \in 1..last, i \in view[r] :
          /\ Part(n, i) \in Nat \ {0}
          /\ x = [plan |-> r, line |-> n, item |-> i, quantity |-> Part(n, i)]
    BY DEF NewReservations
  <1> DEFINE q == Part(n, i)
  <1>2. q \in Nat \ {0} /\ n \in Nat \ {0}
    BY <1>1
  <1>3. x = [plan |-> r, line |-> n, item |-> i, quantity |-> q]
    BY <1>1
  <1> HIDE DEF q
  <1> QED
    BY <1>2, <1>3 DEF Reservation

---------------------------------------------------------------------------
(* Types.                                                                  *)
LEMMA ShapeInit == Init => Shape
  <1> SUFFICES ASSUME Init PROVE Shape
    OBVIOUS
  <1>1. most \in [Items -> Nat]
    BY BaseQuantity DEF Init
  <1> QED
    BY <1>1 DEF Init, Shape, Stages, Answers, NoItem

LEMMA ShapeStep == Shape /\ LocksInv /\ StagesInv /\ [Next]_vars => Shape'
  <1> SUFFICES ASSUME Shape, LocksInv, StagesInv, [Next]_vars PROVE Shape'
    OBVIOUS
  <1> USE DEF Advance, Finish
  <1>1. ASSUME NEW r \in Reqs, NEW c \in Calls, Receive(r, c) PROVE Shape'
    BY <1>1, CallFields DEF Receive, Shape, Stages, Answers
  <1>2. ASSUME NEW r \in Reqs, Replay(r) PROVE Shape'
    BY <1>2 DEF Replay, Shape, Stages, Answers, session
  <1>3. ASSUME NEW r \in Reqs, list_active_inventory(r) PROVE Shape'
    <2>1. Loaded(r) \in [Items -> Row \cup {None}]
      BY DEF Loaded, Usable, Shape
    <2>2. Usable \subseteq Items
      BY DEF Usable
    <2> QED
      BY <1>3, <2>1, <2>2 DEF list_active_inventory, Shape, Stages, Answers
  <1>4. ASSUME NEW r \in Reqs, no_matching_recipes(r) PROVE Shape'
    BY <1>4 DEF no_matching_recipes, Unlock, Shape, Stages, Answers, session
  <1>5. ASSUME NEW r \in Reqs, NEW m \in Menus, generate_plan(r, m) PROVE Shape'
    BY <1>5 DEF generate_plan, Shape, Stages, Answers
  <1>6. ASSUME NEW r \in Reqs, refuse_plan(r) PROVE Shape'
    BY <1>6 DEF refuse_plan, Unlock, Shape, Stages, Answers, session
  <1>7. ASSUME NEW r \in Reqs, reserve_plan(r) PROVE Shape'
    <2>1. NewReservations(r) \subseteq Reservation
      BY NewReservationFields DEF Shape
    <2> QED
      BY <1>7, <2>1 DEF reserve_plan, Unlock, Shape, Stages, Answers
  <1>8. ASSUME NEW r \in Reqs, list_gaps(r) PROVE Shape'
    BY <1>8 DEF list_gaps, Shape, Stages, Answers, session
  <1>9. ASSUME NEW r \in Reqs, find_plan(r) PROVE Shape'
    BY <1>9 DEF find_plan, Shape, Stages, Answers, session
  <1>10. ASSUME NEW r \in Reqs, delete_plan(r) PROVE Shape'
    BY <1>10 DEF delete_plan, Shape, Stages, Answers, session
  <1>11. ASSUME NEW r \in Reqs, respond(r) PROVE Shape'
    <2>1. call[r] \in Calls
      BY <1>11 DEF respond, StagesInv, Shape
    <2> QED
      BY <1>11, <2>1, CallFields DEF respond, Shape, Stages, Answers, session
  <1>12. ASSUME NEW r \in Reqs, die(r) PROVE Shape'
    BY <1>12 DEF die, Unlock, Shape, Stages, Answers, session
  <1>13. ASSUME NEW i \in Items, NEW row \in Row, write_item(i, row) PROVE Shape'
    <2>1. most' \in [Items -> Nat]
      BY <1>13, BaseQuantity DEF write_item, Shape
    <2> QED
      BY <1>13, <2>1 DEF write_item, Shape, Stages, Answers, session
  <1>14. ASSUME NEW i \in Items, remove_item(i) PROVE Shape'
    BY <1>14 DEF remove_item, Shape, Stages, Answers, session
  <1>15. CASE UNCHANGED vars
    BY <1>15 DEF vars, Shape, Stages, Answers, session
  <1> QED
    BY <1>1, <1>2, <1>3, <1>4, <1>5, <1>6, <1>7, <1>8, <1>9, <1>10, <1>11, <1>12, <1>13, <1>14, <1>15 DEF Next, Step

---------------------------------------------------------------------------
(* Stages.  A request that has been received keeps what it asks.           *)
LEMMA CallsKept ==
  ASSUME Shape, StagesInv, [Next]_vars, NEW q \in Reqs, pc[q] # "idle"
  PROVE  pc'[q] # "idle" /\ call'[q] = call[q]
  <1> USE DEF Advance, Finish
  <1>1. ASSUME NEW r \in Reqs, NEW c \in Calls, Receive(r, c) PROVE pc'[q] # "idle" /\ call'[q] = call[q]
    BY <1>1 DEF Receive, Shape
  <1>2. ASSUME NEW r \in Reqs, Replay(r) PROVE pc'[q] # "idle" /\ call'[q] = call[q]
    BY <1>2 DEF Replay, Shape
  <1>3. ASSUME NEW r \in Reqs, list_active_inventory(r) PROVE pc'[q] # "idle" /\ call'[q] = call[q]
    BY <1>3 DEF list_active_inventory, Shape
  <1>4. ASSUME NEW r \in Reqs, no_matching_recipes(r) PROVE pc'[q] # "idle" /\ call'[q] = call[q]
    BY <1>4 DEF no_matching_recipes, Shape
  <1>5. ASSUME NEW r \in Reqs, NEW m \in Menus, generate_plan(r, m) PROVE pc'[q] # "idle" /\ call'[q] = call[q]
    BY <1>5 DEF generate_plan, Shape
  <1>6. ASSUME NEW r \in Reqs, refuse_plan(r) PROVE pc'[q] # "idle" /\ call'[q] = call[q]
    BY <1>6 DEF refuse_plan, Shape
  <1>7. ASSUME NEW r \in Reqs, reserve_plan(r) PROVE pc'[q] # "idle" /\ call'[q] = call[q]
    BY <1>7 DEF reserve_plan, Shape
  <1>8. ASSUME NEW r \in Reqs, list_gaps(r) PROVE pc'[q] # "idle" /\ call'[q] = call[q]
    BY <1>8 DEF list_gaps, Shape
  <1>9. ASSUME NEW r \in Reqs, find_plan(r) PROVE pc'[q] # "idle" /\ call'[q] = call[q]
    BY <1>9 DEF find_plan, Shape
  <1>10. ASSUME NEW r \in Reqs, delete_plan(r) PROVE pc'[q] # "idle" /\ call'[q] = call[q]
    BY <1>10 DEF delete_plan, Shape
  <1>11. ASSUME NEW r \in Reqs, respond(r) PROVE pc'[q] # "idle" /\ call'[q] = call[q]
    BY <1>11 DEF respond, Shape
  <1>12. ASSUME NEW r \in Reqs, die(r) PROVE pc'[q] # "idle" /\ call'[q] = call[q]
    BY <1>12 DEF die, Shape
  <1>13. ASSUME NEW i \in Items, NEW row \in Row, write_item(i, row) PROVE pc'[q] # "idle" /\ call'[q] = call[q]
    BY <1>13 DEF write_item, Shape
  <1>14. ASSUME NEW i \in Items, remove_item(i) PROVE pc'[q] # "idle" /\ call'[q] = call[q]
    BY <1>14 DEF remove_item, Shape
  <1>15. CASE UNCHANGED vars
    BY <1>15 DEF vars, Shape
  <1> QED
    BY <1>1, <1>2, <1>3, <1>4, <1>5, <1>6, <1>7, <1>8, <1>9, <1>10, <1>11, <1>12, <1>13, <1>14, <1>15 DEF Next, Step

LEMMA StagesInit == Init => StagesInv
  BY DEF Init, StagesInv

LEMMA StagesStep == Shape /\ StagesInv /\ [Next]_vars => StagesInv'
  <1> SUFFICES ASSUME Shape, StagesInv, [Next]_vars PROVE StagesInv'
    OBVIOUS
  <1>a. \A q \in Reqs : pc[q] # "idle" => pc'[q] # "idle" /\ call'[q] = call[q]
    BY CallsKept
  <1>b. \A q \in Reqs : pc[q] # "idle" => call[q] \in Calls
    BY DEF StagesInv, Shape
  <1> USE <1>a, <1>b DEF Advance, Finish
  <1>1. ASSUME NEW r \in Reqs, NEW c \in Calls, Receive(r, c) PROVE StagesInv'
    BY <1>1, CallFields DEF Receive, Shape, StagesInv
  <1>2. ASSUME NEW r \in Reqs, Replay(r) PROVE StagesInv'
    BY <1>2 DEF Replay, Shape, StagesInv, Calling, session
  <1>3. ASSUME NEW r \in Reqs, list_active_inventory(r) PROVE StagesInv'
    BY <1>3 DEF list_active_inventory, Shape, StagesInv, Calling, session
  <1>4. ASSUME NEW r \in Reqs, no_matching_recipes(r) PROVE StagesInv'
    BY <1>4 DEF no_matching_recipes, Shape, StagesInv, Calling, session
  <1>5. ASSUME NEW r \in Reqs, NEW m \in Menus, generate_plan(r, m) PROVE StagesInv'
    BY <1>5 DEF generate_plan, Shape, StagesInv, Calling, session
  <1>6. ASSUME NEW r \in Reqs, refuse_plan(r) PROVE StagesInv'
    BY <1>6 DEF refuse_plan, Shape, StagesInv, Calling, session
  <1>7. ASSUME NEW r \in Reqs, reserve_plan(r) PROVE StagesInv'
    BY <1>7 DEF reserve_plan, Shape, StagesInv, Calling, session
  <1>8. ASSUME NEW r \in Reqs, list_gaps(r) PROVE StagesInv'
    BY <1>8 DEF list_gaps, Shape, StagesInv, Calling, session
  <1>9. ASSUME NEW r \in Reqs, find_plan(r) PROVE StagesInv'
    <2>1. call[r].plan \in Reqs
      BY <1>9, CallFields DEF find_plan, Calling
    <2>2. Found(r) => pc[call[r].plan] # "idle"
      BY <2>1 DEF Found, StagesInv
    <2>3. CASE Found(r)
      BY <1>9, <2>1, <2>2, <2>3 DEF find_plan, Found, Calling, Shape, StagesInv, session
    <2>4. CASE ~Found(r)
      BY <1>9, <2>4 DEF find_plan, Calling, Shape, StagesInv, session
    <2> QED
      BY <2>3, <2>4
  <1>10. ASSUME NEW r \in Reqs, delete_plan(r) PROVE StagesInv'
    BY <1>10 DEF delete_plan, Shape, StagesInv, Calling, session
  <1>11. ASSUME NEW r \in Reqs, respond(r) PROVE StagesInv'
    BY <1>11 DEF respond, Shape, StagesInv, Calling, session
  <1>12. ASSUME NEW r \in Reqs, die(r) PROVE StagesInv'
    BY <1>12 DEF die, Shape, StagesInv, Calling, session
  <1>13. ASSUME NEW i \in Items, NEW row \in Row, write_item(i, row) PROVE StagesInv'
    BY <1>13 DEF write_item, Shape, StagesInv, Calling, session
  <1>14. ASSUME NEW i \in Items, remove_item(i) PROVE StagesInv'
    BY <1>14 DEF remove_item, Shape, StagesInv, Calling, session
  <1>15. CASE UNCHANGED vars
    BY <1>15 DEF vars, Shape, StagesInv, Calling, session
  <1> QED
    BY <1>1, <1>2, <1>3, <1>4, <1>5, <1>6, <1>7, <1>8, <1>9, <1>10, <1>11, <1>12, <1>13, <1>14, <1>15 DEF Next, Step

---------------------------------------------------------------------------
(* Locks: their holders are under way, and hold what they have chosen from.*)
LEMMA LocksInit == Init => LocksInv
  BY DEF Init, LocksInv, NoItem

LEMMA LocksStep == Shape /\ LocksInv /\ [Next]_vars => LocksInv'
  <1> SUFFICES ASSUME Shape, LocksInv, [Next]_vars PROVE LocksInv'
    OBVIOUS
  <1>a. None \notin Reqs /\ None \notin Row
    BY ReservationsAssumption
  <1> USE <1>a DEF Advance, Finish
  <1>1. ASSUME NEW r \in Reqs, NEW c \in Calls, Receive(r, c) PROVE LocksInv'
    BY <1>1 DEF Receive, Shape, LocksInv, Calling, Unlock, Usable, session
  <1>2. ASSUME NEW r \in Reqs, Replay(r) PROVE LocksInv'
    BY <1>2 DEF Replay, Shape, LocksInv, Calling, Unlock, Usable, session
  <1>3. ASSUME NEW r \in Reqs, list_active_inventory(r) PROVE LocksInv'
    BY <1>3 DEF list_active_inventory, Shape, LocksInv, Calling, Unlock, Usable, session
  <1>4. ASSUME NEW r \in Reqs, no_matching_recipes(r) PROVE LocksInv'
    BY <1>4 DEF no_matching_recipes, Shape, LocksInv, Calling, Unlock, Usable, session
  <1>5. ASSUME NEW r \in Reqs, NEW m \in Menus, generate_plan(r, m) PROVE LocksInv'
    BY <1>5 DEF generate_plan, Shape, LocksInv, Calling, Unlock, Usable, session
  <1>6. ASSUME NEW r \in Reqs, refuse_plan(r) PROVE LocksInv'
    BY <1>6 DEF refuse_plan, Shape, LocksInv, Calling, Unlock, Usable, session
  <1>7. ASSUME NEW r \in Reqs, reserve_plan(r) PROVE LocksInv'
    BY <1>7 DEF reserve_plan, Shape, LocksInv, Calling, Unlock, Usable, session
  <1>8. ASSUME NEW r \in Reqs, list_gaps(r) PROVE LocksInv'
    BY <1>8 DEF list_gaps, Shape, LocksInv, Calling, Unlock, Usable, session
  <1>9. ASSUME NEW r \in Reqs, find_plan(r) PROVE LocksInv'
    BY <1>9, ZenonT(40) DEF find_plan, Shape, LocksInv, Calling, Unlock, Usable, session
  <1>10. ASSUME NEW r \in Reqs, delete_plan(r) PROVE LocksInv'
    BY <1>10 DEF delete_plan, Shape, LocksInv, Calling, Unlock, Usable, session
  <1>11. ASSUME NEW r \in Reqs, respond(r) PROVE LocksInv'
    BY <1>11 DEF respond, Shape, LocksInv, Calling, Unlock, Usable, session
  <1>12. ASSUME NEW r \in Reqs, die(r) PROVE LocksInv'
    BY <1>12 DEF die, Shape, LocksInv, Calling, Unlock, Usable, session
  <1>13. ASSUME NEW i \in Items, NEW row \in Row, write_item(i, row) PROVE LocksInv'
    BY <1>13 DEF write_item, Shape, LocksInv, Calling, Unlock, Usable, session
  <1>14. ASSUME NEW i \in Items, remove_item(i) PROVE LocksInv'
    BY <1>14 DEF remove_item, Shape, LocksInv, Calling, Unlock, Usable, session
  <1>15. CASE UNCHANGED vars
    BY <1>15 DEF vars, Shape, LocksInv, Calling, Unlock, Usable, session
  <1> QED
    BY <1>1, <1>2, <1>3, <1>4, <1>5, <1>6, <1>7, <1>8, <1>9, <1>10, <1>11, <1>12, <1>13, <1>14, <1>15 DEF Next, Step

---------------------------------------------------------------------------
(* While a plan reserves, nobody else can reserve the items it has locked. *)
LEMMA SeenInit == Init => SeenIsComplete
  BY DEF Init, SeenIsComplete

LEMMA SeenStep == Shape /\ LocksInv /\ SeenIsComplete /\ [Next]_vars => SeenIsComplete'
  <1> SUFFICES ASSUME Shape, LocksInv, SeenIsComplete, [Next]_vars PROVE SeenIsComplete'
    OBVIOUS
  <1> USE DEF Advance, Finish
  <1>1. ASSUME NEW r \in Reqs, NEW c \in Calls, Receive(r, c) PROVE SeenIsComplete'
    BY <1>1 DEF Receive, Shape, SeenIsComplete, session
  <1>2. ASSUME NEW r \in Reqs, Replay(r) PROVE SeenIsComplete'
    BY <1>2 DEF Replay, Shape, SeenIsComplete, session
  <1>3. ASSUME NEW r \in Reqs, list_active_inventory(r) PROVE SeenIsComplete'
    BY <1>3 DEF list_active_inventory, Shape, SeenIsComplete, session
  <1>4. ASSUME NEW r \in Reqs, no_matching_recipes(r) PROVE SeenIsComplete'
    BY <1>4 DEF no_matching_recipes, Shape, SeenIsComplete, session
  <1>5. ASSUME NEW r \in Reqs, NEW m \in Menus, generate_plan(r, m) PROVE SeenIsComplete'
    BY <1>5 DEF generate_plan, Shape, SeenIsComplete, session
  <1>6. ASSUME NEW r \in Reqs, refuse_plan(r) PROVE SeenIsComplete'
    BY <1>6 DEF refuse_plan, Shape, SeenIsComplete, session
  <1>7. ASSUME NEW r \in Reqs, reserve_plan(r) PROVE SeenIsComplete'
    <2> SUFFICES ASSUME NEW q \in Reqs, pc'[q] = "reserving", NEW x \in reservations',
                        x.item \in view'[q], x.plan # q
                 PROVE  x \in seen'[q]
      BY DEF SeenIsComplete
    <2>1. q # r /\ pc[q] = "reserving" /\ view'[q] = view[q] /\ seen'[q] = seen[q]
      BY <1>7 DEF reserve_plan, Shape
    <2>2. CASE x \in reservations
      BY <2>1, <2>2 DEF SeenIsComplete
    <2>3. CASE x \in NewReservations(r)
      <3>1. x.item \in view[r] /\ x.item \in Items
        BY <2>3, NewReservationFields DEF Shape
      <3>2. locked[x.item] = r /\ locked[x.item] = q
        BY <1>7, <2>1, <3>1 DEF reserve_plan, LocksInv
      <3> QED
        BY <2>1, <3>2
    <2> QED
      BY <1>7, <2>2, <2>3 DEF reserve_plan
  <1>8. ASSUME NEW r \in Reqs, list_gaps(r) PROVE SeenIsComplete'
    BY <1>8 DEF list_gaps, Shape, SeenIsComplete, session
  <1>9. ASSUME NEW r \in Reqs, find_plan(r) PROVE SeenIsComplete'
    BY <1>9, ZenonT(40) DEF find_plan, Shape, SeenIsComplete, session
  <1>10. ASSUME NEW r \in Reqs, delete_plan(r) PROVE SeenIsComplete'
    BY <1>10 DEF delete_plan, Shape, SeenIsComplete, session
  <1>11. ASSUME NEW r \in Reqs, respond(r) PROVE SeenIsComplete'
    BY <1>11 DEF respond, Shape, SeenIsComplete, session
  <1>12. ASSUME NEW r \in Reqs, die(r) PROVE SeenIsComplete'
    BY <1>12 DEF die, Shape, SeenIsComplete, session
  <1>13. ASSUME NEW i \in Items, NEW row \in Row, write_item(i, row) PROVE SeenIsComplete'
    BY <1>13 DEF write_item, Shape, SeenIsComplete, session
  <1>14. ASSUME NEW i \in Items, remove_item(i) PROVE SeenIsComplete'
    BY <1>14 DEF remove_item, Shape, SeenIsComplete, session
  <1>15. CASE UNCHANGED vars
    BY <1>15 DEF vars, Shape, SeenIsComplete, session
  <1> QED
    BY <1>1, <1>2, <1>3, <1>4, <1>5, <1>6, <1>7, <1>8, <1>9, <1>10, <1>11, <1>12, <1>13, <1>14, <1>15 DEF Next, Step

---------------------------------------------------------------------------
(* Committed plans.                                                        *)
LEMMA KeptStep ==
  ASSUME Shape, StagesInv, LocksInv, [Next]_vars, NEW p \in Reqs, pc[p] # "idle",
         \A x \in got[p] : x.plan = p, Kept(p),
         got'[p] = got[p]
  PROVE  Kept(p)'
  <1>a. \A q \in Reqs : pc[q] # "idle" => pc'[q] # "idle" /\ call'[q] = call[q]
    BY CallsKept
  <1> DEFINE Asked == \E q \in Reqs : /\ pc[q] # "idle"
                                     /\ call[q].op = "delete"
                                     /\ call[q].plan = p
                                     /\ call[q].user = call[p].user
             Stands == /\ p \in plans
                       /\ got[p] \subseteq reservations
                       /\ \A x \in got[p] : stock[x.item] # None
  <1>1. CASE Asked
    BY <1>1, <1>a DEF Kept
  <1>2. CASE Stands
    <2>a. None \notin Row /\ \A x \in got[p] : x.item \in Items
      BY ReservationsAssumption DEF Shape, Reservation
    <2> USE <1>2, <1>a, <2>a DEF Kept
    <2>1. ASSUME NEW r \in Reqs, NEW c \in Calls, Receive(r, c) PROVE Kept(p)'
      BY <2>1 DEF Receive, Shape, session
    <2>2. ASSUME NEW r \in Reqs, Replay(r) PROVE Kept(p)'
      BY <2>2 DEF Replay, Shape, session
    <2>3. ASSUME NEW r \in Reqs, list_active_inventory(r) PROVE Kept(p)'
      BY <2>3 DEF list_active_inventory, Shape, session
    <2>4. ASSUME NEW r \in Reqs, no_matching_recipes(r) PROVE Kept(p)'
      BY <2>4 DEF no_matching_recipes, Shape, session
    <2>5. ASSUME NEW r \in Reqs, NEW m \in Menus, generate_plan(r, m) PROVE Kept(p)'
      BY <2>5 DEF generate_plan, Shape, session
    <2>6. ASSUME NEW r \in Reqs, refuse_plan(r) PROVE Kept(p)'
      BY <2>6 DEF refuse_plan, Shape, session
    <2>7. ASSUME NEW r \in Reqs, reserve_plan(r) PROVE Kept(p)'
      BY <2>7 DEF reserve_plan, Shape, session
    <2>8. ASSUME NEW r \in Reqs, list_gaps(r) PROVE Kept(p)'
      BY <2>8 DEF list_gaps, Shape, session
    <2>9. ASSUME NEW r \in Reqs, find_plan(r) PROVE Kept(p)'
      BY <2>9 DEF find_plan, Shape, session
    <2>10. ASSUME NEW r \in Reqs, delete_plan(r) PROVE Kept(p)'
      <3>1. CASE call[r].plan = p
        <4>1. pc[r] # "idle" /\ call[r].op = "delete" /\ call[r].user = call[p].user
          BY <2>10, <3>1 DEF delete_plan, StagesInv
        <4> QED
          BY <3>1, <4>1
      <3>2. CASE call[r].plan # p
        BY <2>10, <3>2 DEF delete_plan, session
      <3> QED
        BY <3>1, <3>2
    <2>11. ASSUME NEW r \in Reqs, respond(r) PROVE Kept(p)'
      BY <2>11 DEF respond, Shape, session
    <2>12. ASSUME NEW r \in Reqs, die(r) PROVE Kept(p)'
      BY <2>12 DEF die, Shape, session
    <2>13. ASSUME NEW i \in Items, NEW row \in Row, write_item(i, row) PROVE Kept(p)'
      BY <2>13 DEF write_item, Shape, session
    <2>14. ASSUME NEW i \in Items, remove_item(i) PROVE Kept(p)'
      <3>1. \A x \in got[p] : x.item # i
        BY <2>14 DEF remove_item
      <3> QED
        BY <2>14, <3>1 DEF remove_item, Shape, session
    <2>15. CASE UNCHANGED vars
      BY <2>15 DEF vars, Shape, session
    <2> QED
      BY <2>1, <2>2, <2>3, <2>4, <2>5, <2>6, <2>7, <2>8, <2>9, <2>10, <2>11, <2>12, <2>13, <2>14, <2>15 DEF Next, Step
  <1>3. Stands \/ Asked
    BY DEF Kept
  <1> QED
    BY <1>1, <1>2, <1>3

LEMMA PlansInit == Init => PlansInv /\ AckedPlanKept
  BY ReservationsAssumption DEF Init, PlansInv, AckedPlanKept, Answers

LEMMA PlansStep ==
  Shape /\ LocksInv /\ StagesInv /\ PlansInv /\ AckedPlanKept /\ [Next]_vars
    => PlansInv' /\ AckedPlanKept'
  <1> SUFFICES ASSUME Shape, LocksInv, StagesInv, PlansInv, AckedPlanKept, [Next]_vars
               PROVE  PlansInv' /\ AckedPlanKept'
    OBVIOUS
  <1>a. \A q \in Reqs : pc[q] # "idle" => pc'[q] # "idle" /\ call'[q] = call[q]
    BY CallsKept
  <1>b. \A p \in Reqs : (pc[p] # "idle" /\ Kept(p) /\ got'[p] = got[p]) => Kept(p)'
    <2> SUFFICES ASSUME NEW p \in Reqs, pc[p] # "idle", Kept(p), got'[p] = got[p]
                 PROVE  Kept(p)'
      OBVIOUS
    <2>1. \A x \in got[p] : x.plan = p
      BY DEF PlansInv
    <2> QED
      BY <2>1, KeptStep, Zenon
  <1>c. \A p \in Reqs : code[p] = "200" => pc[p] # "idle"
    BY ReservationsAssumption DEF StagesInv, Answers
  <1> DEFINE Safe == /\ got' = got
                     /\ \A p \in Reqs : pc'[p] \in {"reserved", "listed"} =>
                                         pc[p] \in {"reserved", "listed"}
                     /\ \A p \in Reqs : code'[p] = "200" /\ call'[p].op = "plan" =>
                                         \/ pc[p] = "listed"
                                         \/ code[p] = "200" /\ pc[p] # "idle"
  <1>d. ASSUME Safe PROVE PlansInv' /\ AckedPlanKept'
    <2>1. PlansInv'
      BY <1>b, <1>d DEF PlansInv
    <2>2. AckedPlanKept'
      BY <1>a, <1>b, <1>c, <1>d DEF PlansInv, AckedPlanKept
    <2> QED
      BY <2>1, <2>2
  <1> USE <1>c DEF Advance, Finish
  <1>1. ASSUME NEW r \in Reqs, NEW c \in Calls, Receive(r, c) PROVE PlansInv' /\ AckedPlanKept'
    <2>1. Safe
      BY <1>1, CallFields DEF Receive, Shape, StagesInv, Calling, session
    <2> QED
      BY <2>1, <1>d
  <1>2. ASSUME NEW r \in Reqs, Replay(r) PROVE PlansInv' /\ AckedPlanKept'
    <2>1. Safe
      BY <1>2 DEF Replay, Shape, StagesInv, Calling, session
    <2> QED
      BY <2>1, <1>d
  <1>3. ASSUME NEW r \in Reqs, list_active_inventory(r) PROVE PlansInv' /\ AckedPlanKept'
    <2>1. Safe
      BY <1>3 DEF list_active_inventory, Shape, StagesInv, Calling, session
    <2> QED
      BY <2>1, <1>d
  <1>4. ASSUME NEW r \in Reqs, no_matching_recipes(r) PROVE PlansInv' /\ AckedPlanKept'
    <2>1. Safe
      BY <1>4 DEF no_matching_recipes, Shape, StagesInv, Calling, session
    <2> QED
      BY <2>1, <1>d
  <1>5. ASSUME NEW r \in Reqs, NEW m \in Menus, generate_plan(r, m) PROVE PlansInv' /\ AckedPlanKept'
    <2>1. Safe
      BY <1>5 DEF generate_plan, Shape, StagesInv, Calling, session
    <2> QED
      BY <2>1, <1>d
  <1>6. ASSUME NEW r \in Reqs, refuse_plan(r) PROVE PlansInv' /\ AckedPlanKept'
    <2>1. Safe
      BY <1>6 DEF refuse_plan, Shape, StagesInv, Calling, session
    <2> QED
      BY <2>1, <1>d
  <1>7. ASSUME NEW r \in Reqs, reserve_plan(r) PROVE PlansInv' /\ AckedPlanKept'
    <2>1. \A x \in NewReservations(r) : x.plan = r /\ x.item \in view[r] /\ x.item \in Items
      BY NewReservationFields DEF Shape
    <2>2. \A x \in NewReservations(r) : stock[x.item] # None
      <3> SUFFICES ASSUME NEW x \in NewReservations(r) PROVE stock[x.item] # None
        OBVIOUS
      <3>1. locked[x.item] = r
        BY <1>7, <2>1 DEF reserve_plan, LocksInv
      <3> QED
        BY <2>1, <3>1, ReservationsAssumption DEF LocksInv
    <2>3. Kept(r)'
      BY <1>7, <2>2 DEF reserve_plan, Kept, Shape
    <2>4. \A p \in Reqs \ {r} : got'[p] = got[p] /\ pc'[p] = pc[p] /\ code'[p] = code[p]
      BY <1>7 DEF reserve_plan, Shape
    <2>5. PlansInv'
      BY <1>7, <1>b, <2>1, <2>3, <2>4 DEF reserve_plan, PlansInv, Shape
    <2>6. AckedPlanKept'
      BY <1>7, <1>a, <1>b, <2>3, <2>4 DEF reserve_plan, AckedPlanKept
    <2> QED
      BY <2>5, <2>6
  <1>8. ASSUME NEW r \in Reqs, list_gaps(r) PROVE PlansInv' /\ AckedPlanKept'
    <2>1. Safe
      BY <1>8 DEF list_gaps, Shape, StagesInv, Calling, session
    <2> QED
      BY <2>1, <1>d
  <1>9. ASSUME NEW r \in Reqs, find_plan(r) PROVE PlansInv' /\ AckedPlanKept'
    <2>1. Safe
      BY <1>9 DEF find_plan, Shape, StagesInv, Calling, session
    <2> QED
      BY <2>1, <1>d
  <1>10. ASSUME NEW r \in Reqs, delete_plan(r) PROVE PlansInv' /\ AckedPlanKept'
    <2>1. Safe
      BY <1>10 DEF delete_plan, Shape, StagesInv, Calling, session
    <2> QED
      BY <2>1, <1>d
  <1>11. ASSUME NEW r \in Reqs, respond(r) PROVE PlansInv' /\ AckedPlanKept'
    <2>1. Safe
      BY <1>11 DEF respond, Shape, StagesInv, Calling, session
    <2> QED
      BY <2>1, <1>d
  <1>12. ASSUME NEW r \in Reqs, die(r) PROVE PlansInv' /\ AckedPlanKept'
    <2>1. Safe
      BY <1>12 DEF die, Shape, StagesInv, Calling, session
    <2> QED
      BY <2>1, <1>d
  <1>13. ASSUME NEW i \in Items, NEW row \in Row, write_item(i, row) PROVE PlansInv' /\ AckedPlanKept'
    <2>1. Safe
      BY <1>13 DEF write_item, Shape, StagesInv, Calling, session
    <2> QED
      BY <2>1, <1>d
  <1>14. ASSUME NEW i \in Items, remove_item(i) PROVE PlansInv' /\ AckedPlanKept'
    <2>1. Safe
      BY <1>14 DEF remove_item, Shape, StagesInv, Calling, session
    <2> QED
      BY <2>1, <1>d
  <1>15. CASE UNCHANGED vars
    <2>1. Safe
      BY <1>15 DEF vars, Shape, StagesInv, Calling, session
    <2> QED
      BY <2>1, <1>d
  <1> QED
    BY <1>1, <1>2, <1>3, <1>4, <1>5, <1>6, <1>7, <1>8, <1>9, <1>10, <1>11, <1>12, <1>13, <1>14, <1>15 DEF Next, Step

---------------------------------------------------------------------------
(* Sums over finite sets.                                                  *)

(* Induction over the subsets of a finite set, the facts given as a set T: *)
(* a least subset outside T would contradict the hypothesis.               *)
LEMMA SubsetInduction ==
  ASSUME NEW S, IsFiniteSet(S), NEW T, T \subseteq SUBSET S,
         \A s \in SUBSET S : (\A t \in SUBSET s : t # s => t \in T) => s \in T
  PROVE  T = SUBSET S
  <1> SUFFICES ASSUME T # SUBSET S PROVE FALSE
    OBVIOUS
  <1> DEFINE U == (SUBSET S) \ T
  <1>1. U # {} /\ U \subseteq FiniteSubsetsOf(S)
    BY FS_FiniteSubsetsOfFinite, Zenon
  <1>2. IsWellFoundedOn(StrictSubsetOrdering(S), FiniteSubsetsOf(S))
    BY FS_StrictSubsetOrderingWellFounded
  <1> HIDE DEF U
  <1>3. PICK s \in U : \A t \in U : ~ (<<t, s>> \in StrictSubsetOrdering(S))
    BY <1>1, <1>2, WFMin
  <1>4. \A t \in SUBSET s : t # s => t \in T
    BY <1>3 DEF U, StrictSubsetOrdering
  <1> QED
    BY <1>3, <1>4 DEF U

(* The table of partial sums by which the library defines a sum: g maps a  *)
(* set to the value at one of its members plus the sum over the others.    *)
Rec(f, S, g) ==
  g = [s \in SUBSET S |-> IF s = {} THEN 0
                          ELSE f[CHOOSE x \in s : TRUE] + g[s \ {CHOOSE x \in s : TRUE}]]

(* A sum is read off the table.                                            *)
LEMMA SumDef ==
  ASSUME NEW f, NEW S
  PROVE  SumFunctionOnSet(f, S) = (CHOOSE g : Rec(f, S, g))[S]
  BY DEF SumFunctionOnSet, FoldFunctionOnSet, MapThenFoldSet, Rec

(* Induction over the natural numbers, the facts given as a set.           *)
LEMMA NatSetInduction ==
  ASSUME NEW T, 0 \in T, \A n \in Nat : n \in T => n + 1 \in T
  PROVE  Nat \subseteq T
  <1> SUFFICES ASSUME ~ (Nat \subseteq T) PROVE FALSE
    OBVIOUS
  <1> DEFINE U == Nat \ T
  <1>1. U # {} /\ U \subseteq Nat
    OBVIOUS
  <1> HIDE DEF U
  <1>2. PICK n \in U : \A m \in U : ~ (<<m, n>> \in OpToRel(<, Nat))
    BY <1>1, NatLessThanWellFounded, WFMin
  <1>3. \A m \in U : ~ (m < n)
    BY <1>1, <1>2 DEF OpToRel
  <1>4. n \in Nat /\ n # 0
    BY <1>1 DEF U
  <1>5. n - 1 \in T
    BY <1>3, <1>4 DEF U
  <1>6. n - 1 \in Nat /\ (n - 1) + 1 = n
    BY <1>4
  <1> QED
    BY <1>5, <1>6 DEF U

(* Over a finite set the table exists.                                     *)
LEMMA SumRec ==
  ASSUME NEW f, NEW S, IsFiniteSet(S)
  PROVE  \E g : Rec(f, S, g)
  <1> DEFINE Level(n) == {t \in SUBSET S : Cardinality(t) <= n}
             Some(s) == CHOOSE x \in s : TRUE
             Body(g, s) == IF s = {} THEN 0 ELSE f[Some(s)] + g[s \ {Some(s)}]
             T == {n \in Nat : \E g : g = [s \in Level(n) |-> Body(g, s)]}
  <1>a. \A s \in SUBSET S : /\ IsFiniteSet(s) /\ Cardinality(s) \in Nat
                            /\ s # {} => Cardinality(s \ {Some(s)}) = Cardinality(s) - 1
                            /\ s = {} <=> Cardinality(s) = 0
    BY FS_Subset, FS_RemoveElement, FS_CardinalityType, FS_EmptySet
  <1>b. \A s \in SUBSET S : Cardinality(s) \in Nat /\ (s = {} <=> Cardinality(s) = 0)
    BY <1>a
  <1>1. 0 \in T
    <2> DEFINE g == [s \in Level(0) |-> 0]
    <2>1. \A s \in Level(0) : s = {}
      <3> SUFFICES ASSUME NEW s \in SUBSET S, Cardinality(s) <= 0 PROVE s = {}
        OBVIOUS
      <3> QED
        BY <1>b
    <2>2. g = [s \in Level(0) |-> Body(g, s)]
      BY <2>1
    <2> QED
      BY <2>2
  <1>2. ASSUME NEW n \in Nat, n \in T PROVE n + 1 \in T
    <2>1. PICK g : g = [s \in Level(n) |-> Body(g, s)]
      BY <1>2
    <2> DEFINE h == [s \in Level(n + 1) |-> Body(g, s)]
    <2>2. \A s \in Level(n) : h[s] = g[s]
      <3> SUFFICES ASSUME NEW s \in Level(n) PROVE h[s] = g[s]
        OBVIOUS
      <3>1. s \in Level(n + 1)
        <4>1. s \in SUBSET S /\ Cardinality(s) <= n
          OBVIOUS
        <4> QED
          BY <1>b, <4>1
      <3>2. h[s] = Body(g, s)
        BY <3>1
      <3> HIDE DEF h, Body
      <3> QED
        BY <2>1, <3>2
    <2>3. ASSUME NEW s \in Level(n + 1) PROVE Body(g, s) = Body(h, s)
      <3>1. CASE s = {}
        BY <3>1
      <3>2. CASE s # {}
        <4>1. s \ {Some(s)} \in Level(n)
          <5>1. s \in SUBSET S /\ Cardinality(s) <= n + 1 /\ Cardinality(s \ {Some(s)}) = Cardinality(s) - 1
            BY <1>a, <3>2
          <5> QED
            BY <1>b, <5>1
        <4> HIDE DEF h, Level, Some
        <4> QED
          BY <2>2, <4>1, <3>2
      <3> QED
        BY <3>1, <3>2
    <2>4. h = [s \in Level(n + 1) |-> Body(h, s)]
      <3>1. h = [s \in Level(n + 1) |-> Body(g, s)]
        OBVIOUS
      <3> HIDE DEF Body, Level, h
      <3> QED
        BY <2>3, <3>1
    <2>5. \E g1 : g1 = [s \in Level(n + 1) |-> Body(g1, s)]
      <3> HIDE DEF Body, Level, h
      <3> QED
        BY <2>4
    <2> HIDE DEF Body, Level, h
    <2> QED
      BY <2>5
  <1>3. Nat \subseteq T
    <2> HIDE DEF T
    <2> QED
      BY <1>1, <1>2, NatSetInduction
  <1>4. Cardinality(S) \in T
    BY <1>3, <1>a
  <1>5. Level(Cardinality(S)) = SUBSET S
    BY FS_Subset, <1>a
  <1>6. PICK g : g = [s \in Level(Cardinality(S)) |-> Body(g, s)]
    BY <1>4
  <1>7. g = [s \in SUBSET S |-> Body(g, s)]
    BY <1>5, <1>6
  <1> QED
    BY <1>7 DEF Rec

(* The member with which the table starts.                                 *)
First(s) == CHOOSE x \in s : TRUE

(* The table of partial sums over S.                                       *)
Table(f, S) == CHOOSE g : Rec(f, S, g)

(* What the table says of a subset.                                        *)
LEMMA TableRec ==
  ASSUME NEW f, NEW S, IsFiniteSet(S)
  PROVE  /\ SumFunctionOnSet(f, S) = Table(f, S)[S]
         /\ \A s \in SUBSET S : Table(f, S)[s] = IF s = {} THEN 0 ELSE f[First(s)] + Table(f, S)[s \ {First(s)}]
  <1>1. Rec(f, S, Table(f, S))
    BY SumRec DEF Table
  <1>2. SumFunctionOnSet(f, S) = Table(f, S)[S]
    BY SumDef DEF Table
  <1> DEFINE g == Table(f, S)
  <1>3. g = [s \in SUBSET S |-> IF s = {} THEN 0 ELSE f[First(s)] + g[s \ {First(s)}]]
    BY <1>1 DEF Rec, First
  <1> HIDE DEF g
  <1>4. \A s \in SUBSET S : g[s] = IF s = {} THEN 0 ELSE f[First(s)] + g[s \ {First(s)}]
    BY <1>3
  <1> QED
    BY <1>2, <1>4 DEF g

(* The tables over S and over a subset of S agree.                         *)
LEMMA TableOfSubset ==
  ASSUME NEW f, NEW S, IsFiniteSet(S), NEW R \in SUBSET S
  PROVE  Table(f, S)[R] = Table(f, R)[R]
  <1>1. IsFiniteSet(R)
    BY FS_Subset
  <1>a. \A s \in SUBSET S : Table(f, S)[s] = IF s = {} THEN 0 ELSE f[First(s)] + Table(f, S)[s \ {First(s)}]
    BY TableRec
  <1> DEFINE T == {s \in SUBSET R : Table(f, S)[s] = Table(f, R)[s]}
  <1>2. ASSUME NEW s \in SUBSET R, \A t \in SUBSET s : t # s => t \in T
        PROVE  s \in T
    <2>1. /\ Table(f, S)[s] = IF s = {} THEN 0 ELSE f[First(s)] + Table(f, S)[s \ {First(s)}]
          /\ Table(f, R)[s] = IF s = {} THEN 0 ELSE f[First(s)] + Table(f, R)[s \ {First(s)}]
      <3>1. s \in SUBSET S
        OBVIOUS
      <3>2. Table(f, S)[s] = IF s = {} THEN 0 ELSE f[First(s)] + Table(f, S)[s \ {First(s)}]
        BY <1>a, <3>1
      <3>3. Table(f, R)[s] = IF s = {} THEN 0 ELSE f[First(s)] + Table(f, R)[s \ {First(s)}]
        BY <1>1, TableRec
      <3> QED
        BY <3>2, <3>3
    <2>2. s # {} => s \ {First(s)} \in T
      BY <1>2 DEF First
    <2> QED
      BY <2>1, <2>2
  <1>3. T = SUBSET R
    <2> HIDE DEF T
    <2>1. T \subseteq SUBSET R
      BY DEF T
    <2> QED
      BY <1>1, <1>2, <2>1, SubsetInduction
  <1> QED
    BY <1>3

(* A sum is the value at one member plus the sum over the others.          *)
LEMMA SumFirst ==
  ASSUME NEW f, NEW S, IsFiniteSet(S)
  PROVE  SumFunctionOnSet(f, S) =
           IF S = {} THEN 0 ELSE f[First(S)] + SumFunctionOnSet(f, S \ {First(S)})
  <1>1. Table(f, S)[S] = IF S = {} THEN 0 ELSE f[First(S)] + Table(f, S)[S \ {First(S)}]
    BY TableRec
  <1>2. IsFiniteSet(S \ {First(S)})
    BY FS_RemoveElement
  <1>3. Table(f, S)[S \ {First(S)}] = Table(f, S \ {First(S)})[S \ {First(S)}]
    BY TableOfSubset
  <1> QED
    BY <1>1, <1>2, <1>3, TableRec

(* A sum of integers is an integer.                                        *)
LEMMA SumInt ==
  ASSUME NEW f, NEW S, IsFiniteSet(S), \A x \in S : f[x] \in Int
  PROVE  SumFunctionOnSet(f, S) \in Int
  <1> DEFINE T == {s \in SUBSET S : SumFunctionOnSet(f, s) \in Int}
  <1>1. ASSUME NEW s \in SUBSET S, \A t \in SUBSET s : t # s => t \in T
        PROVE  s \in T
    <2>1. IsFiniteSet(s)
      BY FS_Subset
    <2>2. s # {} => s \ {First(s)} \in T /\ First(s) \in S
      BY <1>1 DEF First
    <2> DEFINE a == SumFunctionOnSet(f, s \ {First(s)})
    <2>3. s # {} => a \in Int /\ f[First(s)] \in Int
      BY <2>2
    <2>4. SumFunctionOnSet(f, s) = IF s = {} THEN 0 ELSE f[First(s)] + a
      BY <2>1, SumFirst
    <2> HIDE DEF a
    <2> QED
      BY <2>3, <2>4
  <1>2. T = SUBSET S
    <2> HIDE DEF T
    <2>1. T \subseteq SUBSET S
      BY DEF T
    <2> QED
      BY <1>1, <2>1, SubsetInduction
  <1> QED
    BY <1>2

(* The member that is taken out first does not matter.                     *)
LEMMA SumRemove ==
  ASSUME NEW f, NEW S, IsFiniteSet(S), \A x \in S : f[x] \in Int, NEW x \in S
  PROVE  SumFunctionOnSet(f, S) = f[x] + SumFunctionOnSet(f, S \ {x})
  <1> DEFINE Q(s, z) == SumFunctionOnSet(f, s) = f[z] + SumFunctionOnSet(f, s \ {z})
             T == {s \in SUBSET S : \A z \in s : Q(s, z)}
  <1>1. ASSUME NEW s \in SUBSET S, \A t \in SUBSET s : t # s => t \in T
        PROVE  s \in T
    <2> SUFFICES ASSUME NEW z \in s PROVE Q(s, z)
      OBVIOUS
    <2> DEFINE y == First(s)
    <2>1. y \in s
      BY DEF First
    <2>2. /\ IsFiniteSet(s) /\ IsFiniteSet(s \ {y}) /\ IsFiniteSet((s \ {y}) \ {z})
          /\ IsFiniteSet(s \ {z}) /\ IsFiniteSet((s \ {z}) \ {y})
      BY FS_Subset, FS_RemoveElement
    <2> HIDE DEF y
    <2>3. SumFunctionOnSet(f, s) = f[y] + SumFunctionOnSet(f, s \ {y})
      BY <2>2, SumFirst DEF y
    <2>4. CASE z = y
      BY <2>3, <2>4
    <2>5. CASE z # y
      <3>1. s \ {y} \in T /\ s \ {z} \in T
        BY <1>1, <2>1
      <3>2. Q(s \ {y}, z) /\ Q(s \ {z}, y)
        BY <2>1, <2>5, <3>1
      <3> DEFINE rest == SumFunctionOnSet(f, (s \ {y}) \ {z})
      <3>3. (s \ {y}) \ {z} = (s \ {z}) \ {y}
        OBVIOUS
      <3>4. f[y] \in Int /\ f[z] \in Int /\ rest \in Int
        BY <2>1, <2>2, SumInt
      <3>5. /\ SumFunctionOnSet(f, s \ {y}) = f[z] + rest
            /\ SumFunctionOnSet(f, s \ {z}) = f[y] + rest
        BY <3>2, <3>3
      <3> HIDE DEF rest
      <3> QED
        BY <2>3, <3>4, <3>5
    <2> QED
      BY <2>4, <2>5
  <1>2. T = SUBSET S
    <2> HIDE DEF T
    <2>1. T \subseteq SUBSET S
      BY DEF T
    <2> QED
      BY <1>1, <2>1, SubsetInduction
  <1> QED
    BY <1>2

(* Functions that agree on a set have the same sum over it.                *)
LEMMA SumSame ==
  ASSUME NEW f, NEW g, NEW S, IsFiniteSet(S), \A x \in S : f[x] = g[x]
  PROVE  SumFunctionOnSet(f, S) = SumFunctionOnSet(g, S)
  <1> DEFINE T == {s \in SUBSET S : SumFunctionOnSet(f, s) = SumFunctionOnSet(g, s)}
  <1>1. ASSUME NEW s \in SUBSET S, \A t \in SUBSET s : t # s => t \in T
        PROVE  s \in T
    <2>1. IsFiniteSet(s)
      BY FS_Subset
    <2>2. s # {} => s \ {First(s)} \in T /\ First(s) \in S
      BY <1>1 DEF First
    <2>3. SumFunctionOnSet(f, s) = IF s = {} THEN 0 ELSE f[First(s)] + SumFunctionOnSet(f, s \ {First(s)})
      BY <2>1, SumFirst
    <2>4. SumFunctionOnSet(g, s) = IF s = {} THEN 0 ELSE g[First(s)] + SumFunctionOnSet(g, s \ {First(s)})
      BY <2>1, SumFirst
    <2> QED
      BY <2>2, <2>3, <2>4
  <1>2. T = SUBSET S
    <2> HIDE DEF T
    <2>1. T \subseteq SUBSET S
      BY DEF T
    <2> QED
      BY <1>1, <2>1, SubsetInduction
  <1> QED
    BY <1>2

(* The sum over two disjoint sets.                                         *)
LEMMA SumUnion ==
  ASSUME NEW f, NEW S, NEW R, IsFiniteSet(S), IsFiniteSet(R), S \cap R = {},
         \A x \in S \cup R : f[x] \in Int
  PROVE  SumFunctionOnSet(f, S \cup R) = SumFunctionOnSet(f, S) + SumFunctionOnSet(f, R)
  <1> DEFINE T == {s \in SUBSET S : SumFunctionOnSet(f, s \cup R) = SumFunctionOnSet(f, s) + SumFunctionOnSet(f, R)}
  <1>a. SumFunctionOnSet(f, R) \in Int
    BY SumInt
  <1>1. ASSUME NEW s \in SUBSET S, \A t \in SUBSET s : t # s => t \in T
        PROVE  s \in T
    <2>1. IsFiniteSet(s) /\ IsFiniteSet(s \cup R)
      BY FS_Subset, FS_Union
    <2>2. CASE s = {}
      <3>1. SumFunctionOnSet(f, s) = 0
        BY <2>1, <2>2, SumFirst
      <3>2. s \cup R = R
        BY <2>2
      <3>3. SumFunctionOnSet(f, s \cup R) = SumFunctionOnSet(f, R)
        BY <3>2, Zenon
      <3> QED
        BY <1>a, <3>1, <3>3
    <2>3. CASE s # {}
      <3>1. PICK z : z \in s
        BY <2>3
      <3>2. s \ {z} \in T /\ (s \cup R) \ {z} = (s \ {z}) \cup R
        BY <1>1, <3>1
      <3>3. SumFunctionOnSet(f, s) = f[z] + SumFunctionOnSet(f, s \ {z})
        BY <2>1, <3>1, SumRemove
      <3>4. SumFunctionOnSet(f, s \cup R) = f[z] + SumFunctionOnSet(f, (s \ {z}) \cup R)
        <4>1. SumFunctionOnSet(f, s \cup R) = f[z] + SumFunctionOnSet(f, (s \cup R) \ {z})
          BY <2>1, <3>1, SumRemove
        <4> QED
          BY <3>2, <4>1
      <3>5. IsFiniteSet(s \ {z}) /\ f[z] \in Int
        BY <2>1, <3>1, FS_RemoveElement
      <3>6. SumFunctionOnSet(f, s \ {z}) \in Int
        BY <3>5, SumInt
      <3>7. SumFunctionOnSet(f, (s \ {z}) \cup R) = SumFunctionOnSet(f, s \ {z}) + SumFunctionOnSet(f, R)
        BY <3>2
      <3> QED
        BY <1>a, <3>3, <3>4, <3>5, <3>6, <3>7
    <2> QED
      BY <2>2, <2>3
  <1>2. T = SUBSET S
    <2> HIDE DEF T
    <2>1. T \subseteq SUBSET S
      BY DEF T
    <2> QED
      BY <1>1, <2>1, SubsetInduction
  <1> QED
    BY <1>2

(* A sum of natural numbers is one.                                        *)
LEMMA SumNat ==
  ASSUME NEW f, NEW S, IsFiniteSet(S), \A x \in S : f[x] \in Nat
  PROVE  SumFunctionOnSet(f, S) \in Nat
  <1> DEFINE T == {s \in SUBSET S : SumFunctionOnSet(f, s) \in Nat}
  <1>1. ASSUME NEW s \in SUBSET S, \A t \in SUBSET s : t # s => t \in T
        PROVE  s \in T
    <2>1. IsFiniteSet(s)
      BY FS_Subset
    <2>2. s # {} => s \ {First(s)} \in T /\ First(s) \in S
      BY <1>1 DEF First
    <2> DEFINE a == SumFunctionOnSet(f, s \ {First(s)})
    <2>3. s # {} => a \in Nat /\ f[First(s)] \in Nat
      BY <2>2
    <2>4. SumFunctionOnSet(f, s) = IF s = {} THEN 0 ELSE f[First(s)] + a
      BY <2>1, SumFirst
    <2> HIDE DEF a
    <2> QED
      BY <2>3, <2>4
  <1>2. T = SUBSET S
    <2> HIDE DEF T
    <2>1. T \subseteq SUBSET S
      BY DEF T
    <2> QED
      BY <1>1, <2>1, SubsetInduction
  <1> QED
    BY <1>2

(* A sum over fewer members is no larger.                                  *)
LEMMA SumSubset ==
  ASSUME NEW f, NEW S, IsFiniteSet(S), \A x \in S : f[x] \in Nat, NEW R \in SUBSET S
  PROVE  SumFunctionOnSet(f, R) <= SumFunctionOnSet(f, S)
  <1>1. IsFiniteSet(R) /\ IsFiniteSet(S \ R) /\ R \cap (S \ R) = {} /\ R \cup (S \ R) = S
    BY FS_Subset
  <1>2. SumFunctionOnSet(f, R) \in Nat /\ SumFunctionOnSet(f, S \ R) \in Nat
    BY <1>1, SumNat
  <1>3. SumFunctionOnSet(f, R \cup (S \ R)) = SumFunctionOnSet(f, R) + SumFunctionOnSet(f, S \ R)
    <2>1. \A x \in R \cup (S \ R) : f[x] \in Int
      OBVIOUS
    <2> QED
      BY <1>1, <2>1, SumUnion
  <1>4. SumFunctionOnSet(f, S) = SumFunctionOnSet(f, R) + SumFunctionOnSet(f, S \ R)
    BY <1>1, <1>3, Zenon
  <1> QED
    BY <1>2, <1>4

---------------------------------------------------------------------------
(* Amounts of rows.                                                        *)

(* Sets of rows whose quantities can be added up.                          *)
Counted(S) == IsFiniteSet(S) /\ \A x \in S : x.quantity \in Nat

(* The amount of a subset as a sum of one function.                        *)
LEMMA AmountIs ==
  ASSUME NEW S, NEW R, Counted(S), R \subseteq S
  PROVE  Amount(R) = SumFunctionOnSet([x \in S |-> x.quantity], R) /\ Counted(R)
  <1> DEFINE f == [x \in S |-> x.quantity]
             g == [x \in R |-> x.quantity]
  <1>1. IsFiniteSet(R) /\ \A x \in R : g[x] = f[x]
    BY FS_Subset DEF Counted
  <1>2. Amount(R) = SumFunctionOnSet(g, R)
    BY DEF Amount, SumFunction
  <1> HIDE DEF f, g
  <1>3. SumFunctionOnSet(g, R) = SumFunctionOnSet(f, R)
    BY <1>1, SumSame
  <1> QED
    BY <1>1, <1>2, <1>3 DEF Counted, f

(* Amounts are natural numbers.                                            *)
LEMMA AmountNat ==
  ASSUME NEW S, Counted(S)
  PROVE  Amount(S) \in Nat
  <1> DEFINE f == [x \in S |-> x.quantity]
  <1>1. IsFiniteSet(S) /\ \A x \in S : f[x] \in Nat
    BY DEF Counted
  <1>2. Amount(S) = SumFunctionOnSet(f, S)
    BY AmountIs
  <1> HIDE DEF f
  <1> QED
    BY <1>1, <1>2, SumNat

(* Fewer rows amount to no more.                                           *)
LEMMA AmountSubset ==
  ASSUME NEW S, Counted(S), NEW R, R \subseteq S
  PROVE  Amount(R) <= Amount(S)
  <1> DEFINE f == [x \in S |-> x.quantity]
  <1>1. IsFiniteSet(S) /\ \A x \in S : f[x] \in Nat
    BY DEF Counted
  <1>2. Amount(S) = SumFunctionOnSet(f, S) /\ Amount(R) = SumFunctionOnSet(f, R)
    BY AmountIs
  <1> HIDE DEF f
  <1> QED
    BY <1>1, <1>2, SumSubset

(* Disjoint sets of rows amount to what each amounts to, together.         *)
LEMMA AmountUnion ==
  ASSUME NEW S, Counted(S), NEW R, Counted(R), S \cap R = {}
  PROVE  Counted(S \cup R) /\ Amount(S \cup R) = Amount(S) + Amount(R)
  <1> DEFINE f == [x \in S \cup R |-> x.quantity]
  <1>1. Counted(S \cup R)
    BY FS_Union DEF Counted
  <1>2. /\ IsFiniteSet(S) /\ IsFiniteSet(R)
        /\ \A x \in S \cup R : f[x] \in Int
    BY DEF Counted
  <1>3. /\ Amount(S) = SumFunctionOnSet(f, S) /\ Amount(R) = SumFunctionOnSet(f, R)
        /\ Amount(S \cup R) = SumFunctionOnSet(f, S \cup R)
    BY <1>1, AmountIs
  <1> HIDE DEF f
  <1> QED
    BY <1>1, <1>2, <1>3, SumUnion

(* One row, and none.                                                      *)
LEMMA AmountOfOne ==
  ASSUME NEW x, x.quantity \in Nat
  PROVE  Counted({x}) /\ Amount({x}) = x.quantity
  <1> DEFINE f == [y \in {x} |-> y.quantity]
  <1>1. Counted({x}) /\ IsFiniteSet({x})
    BY FS_Singleton DEF Counted
  <1>2. Amount({x}) = SumFunctionOnSet(f, {x})
    BY <1>1, AmountIs
  <1>3. f[x] = x.quantity /\ \A y \in {x} : f[y] \in Int
    OBVIOUS
  <1> HIDE DEF f
  <1>4. SumFunctionOnSet(f, {x}) = f[x] + SumFunctionOnSet(f, {x} \ {x})
    BY <1>1, <1>3, SumRemove
  <1>5. SumFunctionOnSet(f, {x} \ {x}) = 0
    <2>1. {x} \ {x} = {} /\ IsFiniteSet({})
      BY FS_EmptySet
    <2>2. SumFunctionOnSet(f, {}) = 0
      BY <2>1, SumFirst
    <2> QED
      BY <2>1, <2>2
  <1> QED
    BY <1>1, <1>2, <1>3, <1>4, <1>5

LEMMA AmountOfNone == Counted({}) /\ Amount({}) = 0
  <1> DEFINE f == [y \in {} |-> y.quantity]
  <1>1. Counted({}) /\ IsFiniteSet({})
    BY FS_EmptySet DEF Counted
  <1>2. Amount({}) = SumFunctionOnSet(f, {})
    BY <1>1, AmountIs
  <1> HIDE DEF f
  <1> QED
    BY <1>1, <1>2, SumFirst

(* What is reserved of an item is a natural number.                        *)
LEMMA ReservedCounted ==
  ASSUME NEW res, res \subseteq Reservation, IsFiniteSet(res), NEW i
  PROVE  Counted({x \in res : x.item = i}) /\ Reserved(res, i) \in Nat
  <1>1. Counted({x \in res : x.item = i})
    BY FS_Subset DEF Counted, Reservation
  <1> QED
    BY <1>1, AmountNat DEF Reserved


---------------------------------------------------------------------------
(* What one line of a plan takes.                                          *)

(* What a request knows when it comes to reserve.                          *)
Ready(r) ==
  /\ view[r] \subseteq Items /\ \A i \in view[r] : attrs[r][i] \in Row
  /\ menu[r] \in Seq(Ingredient)
  /\ seen[r] \subseteq Reservation /\ IsFiniteSet(seen[r])

(* The parts of Share, named: what the session believes to have of an item,*)
(* the items that fit a line, what is free of one, and those before it.    *)
Holds(r, i) == convert_to_base(attrs[r][i]).quantity
Fitting(r, n) == {j \in Candidates(r, menu[r][n].name) :
                    convert_to_base(attrs[r][j]).unit = Need(r, n).unit}
Free(r, taken, i) == NonNeg(Holds(r, i) - taken[i])
Before(r, n, i) == {k \in Fitting(r, n) : Rank[k] < Rank[i]}
Earlier(r, n, taken, i) == SumFunction([j \in Before(r, n, i) |-> Free(r, taken, j)])

(* The share of an item in these terms.                                    *)
LEMMA ShareIs ==
  ASSUME NEW r, NEW n, NEW taken, NEW i
  PROVE  Share(r, n, taken, i) =
           IF i \in Fitting(r, n)
           THEN Least(Free(r, taken, i), NonNeg(Need(r, n).quantity - Earlier(r, n, taken, i)))
           ELSE 0
  BY DEF Share, Fitting, Free, Before, Earlier, Holds

(* What a line needs is a natural number.                                  *)
LEMMA NeedIsNat ==
  ASSUME NEW r \in Reqs, Ready(r), NEW n \in DOMAIN menu[r]
  PROVE  Need(r, n).quantity \in Nat
  <1>1. menu[r][n] \in Ingredient
    BY DEF Ready
  <1>2. menu[r][n].quantity \in Nat /\ Factor[menu[r][n].unit] \in Nat
    BY <1>1, ReservationsAssumption DEF Ingredient
  <1>3. \A a, b \in Nat : a * b \in Nat
    OBVIOUS
  <1> QED
    BY <1>2, <1>3 DEF Need, convert_to_base

(* What is free of an item, and how it relates to what the item holds.     *)
LEMMA FreeIsNat ==
  ASSUME NEW r \in Reqs, Ready(r), NEW taken \in [Items -> Nat], NEW i \in view[r]
  PROVE  /\ Holds(r, i) \in Nat /\ Free(r, taken, i) \in Nat
         /\ Free(r, taken, i) = 0 \/ taken[i] + Free(r, taken, i) = Holds(r, i)
         /\ taken[i] + Free(r, taken, i) >= Holds(r, i)
  <1>1. Holds(r, i) \in Nat /\ taken[i] \in Nat
    BY BaseQuantity DEF Ready, Holds
  <1> QED
    BY <1>1 DEF Free, NonNeg

(* What is free of the items before an item is a sum over a finite set.    *)
LEMMA EarlierSum ==
  ASSUME NEW r \in Reqs, Ready(r), NEW n \in DOMAIN menu[r], NEW taken \in [Items -> Nat], NEW i \in Items
  PROVE  LET f == [j \in Fitting(r, n) |-> Free(r, taken, j)]
         IN  /\ IsFiniteSet(Before(r, n, i)) /\ Before(r, n, i) \subseteq view[r]
             /\ Earlier(r, n, taken, i) = SumFunctionOnSet(f, Before(r, n, i))
             /\ Earlier(r, n, taken, i) \in Nat
  <1> DEFINE f == [j \in Fitting(r, n) |-> Free(r, taken, j)]
             g == [j \in Before(r, n, i) |-> Free(r, taken, j)]
  <1>1. Before(r, n, i) \subseteq Fitting(r, n) /\ Fitting(r, n) \subseteq view[r]
    BY DEF Before, Fitting, Candidates
  <1>2. IsFiniteSet(Before(r, n, i))
    BY <1>1, FS_Subset, ReservationsAssumption DEF Ready
  <1>3. Earlier(r, n, taken, i) = SumFunctionOnSet(g, Before(r, n, i))
    BY DEF Earlier, SumFunction
  <1>4. \A x \in Before(r, n, i) : g[x] = f[x] /\ f[x] \in Nat
    BY <1>1, FreeIsNat
  <1> HIDE DEF f, g
  <1>5. SumFunctionOnSet(g, Before(r, n, i)) = SumFunctionOnSet(f, Before(r, n, i))
    BY <1>2, <1>4, SumSame
  <1>6. SumFunctionOnSet(f, Before(r, n, i)) \in Nat
    BY <1>2, <1>4, SumNat
  <1> QED
    BY <1>1, <1>2, <1>3, <1>5, <1>6 DEF f

(* A share never takes more of an item than it holds.                      *)
LEMMA ShareBounds ==
  ASSUME NEW r \in Reqs, Ready(r), NEW n \in DOMAIN menu[r], NEW taken \in [Items -> Nat], NEW i \in Items
  PROVE  /\ Share(r, n, taken, i) \in Nat
         /\ Share(r, n, taken, i) # 0 => /\ i \in Fitting(r, n) /\ i \in view[r]
                                         /\ taken[i] + Share(r, n, taken, i) <= Holds(r, i)
  <1>1. CASE i \in Fitting(r, n)
    <2>1. i \in view[r]
      BY <1>1 DEF Fitting, Candidates
    <2> DEFINE a == Free(r, taken, i)
               b == Need(r, n).quantity - Earlier(r, n, taken, i)
    <2>2. a \in Nat /\ b \in Int /\ taken[i] \in Nat /\ (a = 0 \/ taken[i] + a = Holds(r, i))
      <3>1. Earlier(r, n, taken, i) \in Nat
        BY EarlierSum
      <3>2. Need(r, n).quantity \in Nat
        BY NeedIsNat
      <3>3. a \in Nat /\ taken[i] \in Nat /\ (a = 0 \/ taken[i] + a = Holds(r, i))
        BY <2>1, FreeIsNat
      <3> HIDE DEF a
      <3> QED
        BY <3>1, <3>2, <3>3
    <2>3. Share(r, n, taken, i) = Least(a, NonNeg(b))
      BY <1>1, ShareIs
    <2> HIDE DEF a, b
    <2>4. Share(r, n, taken, i) \in Nat /\ Share(r, n, taken, i) <= a
      BY <2>2, <2>3 DEF Least, NonNeg
    <2> QED
      BY <1>1, <2>1, <2>2, <2>4
  <1>2. CASE i \notin Fitting(r, n)
    BY <1>2, ShareIs
  <1> QED
    BY <1>1, <1>2

(* A line that takes from an item leaves nothing free of those before it.  *)
LEMMA ShareInOrder ==
  ASSUME NEW r \in Reqs, Ready(r), NEW n \in DOMAIN menu[r], NEW taken \in [Items -> Nat], NEW i \in Items,
         Share(r, n, taken, i) # 0, NEW j \in Fitting(r, n), Rank[j] < Rank[i]
  PROVE  taken[j] + Share(r, n, taken, j) >= Holds(r, j)
  <1>1. i \in Fitting(r, n) /\ j \in view[r] /\ j \in Items /\ i \in view[r]
    BY ShareBounds, SMTT(30) DEF Fitting, Candidates, Ready
  <1> DEFINE f == [k \in Fitting(r, n) |-> Free(r, taken, k)]
             need == Need(r, n).quantity
             first == Earlier(r, n, taken, i)
             second == Earlier(r, n, taken, j)
  <1>2. /\ IsFiniteSet(Before(r, n, i)) /\ Before(r, n, i) \subseteq view[r]
        /\ first = SumFunctionOnSet(f, Before(r, n, i)) /\ first \in Nat
        /\ IsFiniteSet(Before(r, n, j)) /\ Before(r, n, j) \subseteq view[r]
        /\ second = SumFunctionOnSet(f, Before(r, n, j)) /\ second \in Nat
    BY <1>1, EarlierSum
  <1>3. need \in Nat /\ Free(r, taken, j) \in Nat /\ taken[j] \in Nat /\ f[j] = Free(r, taken, j)
        /\ taken[j] + Free(r, taken, j) >= Holds(r, j)
    BY <1>1, NeedIsNat, FreeIsNat
  <1>4. \A k \in Before(r, n, i) : f[k] \in Nat
    BY <1>2, FreeIsNat DEF Before
  <1>5. first < need
    <2>1. Share(r, n, taken, i) = Least(Free(r, taken, i), NonNeg(need - first))
      BY <1>1, ShareIs
    <2>2. Free(r, taken, i) \in Nat
      BY <1>1, FreeIsNat
    <2> HIDE DEF need, first
    <2> QED
      BY <1>2, <1>3, <2>1, <2>2 DEF Least, NonNeg
  <1>6. j \in Before(r, n, i) /\ Before(r, n, j) \subseteq Before(r, n, i) \ {j}
    <2>1. Rank[j] \in Nat /\ Rank[i] \in Nat /\ \A k \in Fitting(r, n) : Rank[k] \in Nat
      BY <1>1, ReservationsAssumption DEF Fitting, Candidates, Ready
    <2> QED
      BY <2>1 DEF Before
  <1> HIDE DEF f, need, first, second
  <1>7. first = f[j] + SumFunctionOnSet(f, Before(r, n, i) \ {j})
    BY <1>2, <1>4, <1>6, SumRemove
  <1>8. second <= SumFunctionOnSet(f, Before(r, n, i) \ {j})
    <2>1. IsFiniteSet(Before(r, n, i) \ {j})
      BY <1>2, FS_RemoveElement
    <2> QED
      BY <1>2, <1>4, <1>6, <2>1, SumSubset
  <1>9. SumFunctionOnSet(f, Before(r, n, i) \ {j}) \in Nat
    <2>1. IsFiniteSet(Before(r, n, i) \ {j})
      BY <1>2, FS_RemoveElement
    <2> QED
      BY <1>4, <2>1, SumNat
  <1>10. Share(r, n, taken, j) = Free(r, taken, j)
    <2>1. Share(r, n, taken, j) = Least(Free(r, taken, j), NonNeg(need - second))
      BY ShareIs DEF need, second
    <2> QED
      BY <1>2, <1>3, <1>5, <1>7, <1>8, <1>9, <2>1 DEF Least, NonNeg
  <1> QED
    BY <1>3, <1>10

---------------------------------------------------------------------------
(* What all lines take.                                                    *)

(* What is reserved of every item after line m, and before the first line. *)
Line(r, m, before) == [i \in Items |-> before[i] + Share(r, m, before, i)]
Unreserved(r) == [i \in Items |-> Reserved(seen[r], i)]

(* The recursion over the lines of a plan has a solution.                  *)
LEMMA TakenExists ==
  ASSUME NEW r, NEW last \in Nat
  PROVE  \E g : g = [m \in 0..last |-> IF m = 0 THEN Unreserved(r) ELSE Line(r, m, g[m - 1])]
  <1> DEFINE Body(g, m) == IF m = 0 THEN Unreserved(r) ELSE Line(r, m, g[m - 1])
             T == {n \in Nat : \E g : g = [m \in 0..n |-> Body(g, m)]}
  <1>1. 0 \in T
    <2> DEFINE g == [m \in 0..0 |-> Unreserved(r)]
    <2>1. g = [m \in 0..0 |-> Body(g, m)]
      OBVIOUS
    <2> QED
      BY <2>1
  <1>2. ASSUME NEW n \in Nat, n \in T PROVE n + 1 \in T
    <2>1. PICK g : g = [m \in 0..n |-> Body(g, m)]
      BY <1>2
    <2> DEFINE h == [m \in 0..(n + 1) |-> Body(g, m)]
    <2>2. \A m \in 0..n : h[m] = g[m]
      <3> SUFFICES ASSUME NEW m \in 0..n PROVE h[m] = g[m]
        OBVIOUS
      <3>1. m \in 0..(n + 1)
        OBVIOUS
      <3>2. h[m] = Body(g, m)
        BY <3>1
      <3> HIDE DEF h, Body
      <3> QED
        BY <2>1, <3>2
    <2>3. ASSUME NEW m \in 0..(n + 1) PROVE Body(g, m) = Body(h, m)
      <3>1. m # 0 => m - 1 \in 0..n
        OBVIOUS
      <3>2. m # 0 => h[m - 1] = g[m - 1]
        BY <2>2, <3>1
      <3> HIDE DEF h
      <3> QED
        BY <3>2
    <2>4. h = [m \in 0..(n + 1) |-> Body(h, m)]
      <3>1. h = [m \in 0..(n + 1) |-> Body(g, m)]
        OBVIOUS
      <3> HIDE DEF Body, h
      <3> QED
        BY <2>3, <3>1
    <2>5. \E k : k = [m \in 0..(n + 1) |-> Body(k, m)]
      <3> HIDE DEF Body, h
      <3> QED
        BY <2>4
    <2> HIDE DEF Body, h
    <2> QED
      BY <2>5
  <1>3. last \in T
    <2> HIDE DEF T
    <2>1. Nat \subseteq T
      BY <1>1, <1>2, NatSetInduction
    <2> QED
      BY <2>1
  <1> QED
    BY <1>3

(* Taken is that solution.                                                 *)
LEMMA TakenIs ==
  ASSUME NEW r, NEW last \in Nat, last = Len(menu[r])
  PROVE  /\ Taken(r)[0] = Unreserved(r)
         /\ \A m \in 1..last : Taken(r)[m] = Line(r, m, Taken(r)[m - 1])
  <1> DEFINE R(g) == g = [m \in 0..last |-> IF m = 0 THEN Unreserved(r) ELSE Line(r, m, g[m - 1])]
  <1>1. Taken(r) = CHOOSE g : R(g)
    BY DEF Taken, Line, Unreserved
  <1>2. R(Taken(r))
    <2>1. \E g : R(g)
      BY TakenExists, ZenonT(40)
    <2> HIDE DEF R
    <2> QED
      BY <1>1, <2>1
  <1> DEFINE t == Taken(r)
  <1>3. t = [m \in 0..last |-> IF m = 0 THEN Unreserved(r) ELSE Line(r, m, t[m - 1])]
    BY <1>2
  <1> HIDE DEF t
  <1>4. 0 \in 0..last /\ \A m \in 1..last : m \in 0..last /\ m # 0
    OBVIOUS
  <1>5. t[0] = Unreserved(r) /\ \A m \in 1..last : t[m] = Line(r, m, t[m - 1])
    BY <1>3, <1>4
  <1> QED
    BY <1>5 DEF t

(* Line by line, what is reserved of an item grows by the line's share.    *)
LEMMA TakenFacts ==
  ASSUME NEW r \in Reqs, Ready(r)
  PROVE  LET last == Len(menu[r])
             taken == Taken(r)
         IN  /\ last \in Nat /\ DOMAIN menu[r] = 1..last
             /\ \A n \in 0..last : taken[n] \in [Items -> Nat]
             /\ \A i \in Items : taken[0][i] = Reserved(seen[r], i)
             /\ \A n \in 1..last : \A i \in Items :
                  taken[n][i] = taken[n - 1][i] + Share(r, n, taken[n - 1], i)
  <1> DEFINE last == Len(menu[r])
             taken == Taken(r)
  <1>1. last \in Nat /\ DOMAIN menu[r] = 1..last
    BY DEF Ready
  <1>2. taken[0] = Unreserved(r) /\ \A m \in 1..last : taken[m] = Line(r, m, taken[m - 1])
    BY <1>1, TakenIs
  <1>3. Unreserved(r) \in [Items -> Nat] /\ \A i \in Items : Unreserved(r)[i] = Reserved(seen[r], i)
    BY ReservedCounted DEF Unreserved, Ready
  <1> HIDE DEF last, taken
  <1> DEFINE T == {n \in Nat : n <= last => taken[n] \in [Items -> Nat]}
  <1>4. 0 \in T
    BY <1>2, <1>3
  <1>5. ASSUME NEW n \in Nat, n \in T PROVE n + 1 \in T
    <2> SUFFICES ASSUME n + 1 <= last PROVE taken[n + 1] \in [Items -> Nat]
      OBVIOUS
    <2>1. n + 1 \in 1..last /\ n <= last /\ (n + 1) - 1 = n
      BY <1>1
    <2>2. taken[n] \in [Items -> Nat]
      BY <1>5, <2>1
    <2>3. taken[n + 1] = Line(r, n + 1, taken[n])
      BY <1>2, <2>1
    <2>4. \A i \in Items : Share(r, n + 1, taken[n], i) \in Nat
      BY <1>1, <2>1, <2>2, ShareBounds
    <2> QED
      BY <2>2, <2>3, <2>4 DEF Line
  <1>6. \A n \in 0..last : taken[n] \in [Items -> Nat]
    <2> HIDE DEF T
    <2>1. Nat \subseteq T
      BY <1>4, <1>5, NatSetInduction
    <2> QED
      BY <1>1, <2>1 DEF T
  <1>7. \A n \in 1..last : \A i \in Items : taken[n][i] = taken[n - 1][i] + Share(r, n, taken[n - 1], i)
    BY <1>2 DEF Line
  <1> QED
    BY <1>1, <1>2, <1>3, <1>6, <1>7 DEF last, taken

(* The same for one line and one item, with the types of its terms.        *)
LEMMA TakenGrows ==
  ASSUME NEW r \in Reqs, Ready(r), NEW n \in 1..Len(menu[r]), NEW i \in Items
  PROVE  /\ n - 1 \in 0..Len(menu[r]) /\ n \in 0..Len(menu[r])
         /\ Taken(r)[n - 1] \in [Items -> Nat]
         /\ Taken(r)[n - 1][i] \in Nat /\ Taken(r)[n][i] \in Nat
         /\ Taken(r)[n][i] - Taken(r)[n - 1][i] = Share(r, n, Taken(r)[n - 1], i)
         /\ Share(r, n, Taken(r)[n - 1], i) \in Nat
         /\ Taken(r)[n][i] = Taken(r)[n - 1][i] + Share(r, n, Taken(r)[n - 1], i)
  <1> DEFINE last == Len(menu[r])
             taken == Taken(r)
  <1>1. /\ last \in Nat /\ DOMAIN menu[r] = 1..last
        /\ \A m \in 0..last : taken[m] \in [Items -> Nat]
        /\ taken[n][i] = taken[n - 1][i] + Share(r, n, taken[n - 1], i)
    BY TakenFacts
  <1> HIDE DEF taken, last
  <1>2. n \in 1..last
    BY DEF last
  <1>3. n - 1 \in 0..last /\ n \in 0..last /\ n \in DOMAIN menu[r]
    BY <1>1, <1>2
  <1>4. taken[n - 1] \in [Items -> Nat] /\ taken[n] \in [Items -> Nat]
    BY <1>1, <1>3
  <1>5. Share(r, n, taken[n - 1], i) \in Nat
    BY <1>3, <1>4, ShareBounds
  <1>6. taken[n - 1][i] \in Nat /\ taken[n][i] \in Nat
    BY <1>4
  <1> DEFINE a == taken[n - 1][i]
             b == taken[n][i]
             s == Share(r, n, taken[n - 1], i)
  <1>7. b - a = s
    <2>1. a \in Nat /\ s \in Nat /\ b = a + s
      BY <1>1, <1>5, <1>6
    <2> HIDE DEF a, b, s
    <2> QED
      BY <2>1
  <1> QED
    BY <1>1, <1>3, <1>4, <1>5, <1>6, <1>7 DEF taken, last

(* From line to line nothing is given back.                                *)
LEMMA TakenMonotone ==
  ASSUME NEW r \in Reqs, Ready(r), NEW n \in 0..Len(menu[r]), NEW i \in Items
  PROVE  \A m \in n..Len(menu[r]) : Taken(r)[n][i] <= Taken(r)[m][i]
  <1> DEFINE last == Len(menu[r])
             T == {m \in Nat : n <= m /\ m <= last => Taken(r)[n][i] <= Taken(r)[m][i]}
  <1>0. last \in Nat /\ n \in 0..last /\ \A m \in 0..last : Taken(r)[m][i] \in Nat
    BY TakenFacts
  <1>1. 0 \in T
    BY <1>0
  <1>2. ASSUME NEW m \in Nat, m \in T PROVE m + 1 \in T
    <2> SUFFICES ASSUME n <= m + 1, m + 1 <= last PROVE Taken(r)[n][i] <= Taken(r)[m + 1][i]
      OBVIOUS
    <2>1. CASE n = m + 1
      BY <1>0, <2>1
    <2>2. CASE n # m + 1
      <3>1. n <= m /\ m <= last /\ m + 1 \in 1..last /\ (m + 1) - 1 = m
        BY <1>0, <2>2
      <3>2. Taken(r)[n][i] <= Taken(r)[m][i]
        BY <1>2, <3>1
      <3> DEFINE s == Share(r, m + 1, Taken(r)[m], i)
                 a == Taken(r)[n][i]
                 b == Taken(r)[m][i]
                 c == Taken(r)[m + 1][i]
      <3>3. c = b + s /\ s \in Nat /\ b \in Nat
        BY <3>1, TakenGrows
      <3>4. a \in Nat /\ a <= b
        BY <1>0, <3>2
      <3> HIDE DEF s, a, b, c
      <3>5. a <= c
        BY <3>3, <3>4
      <3> QED
        BY <3>5 DEF a, c
    <2> QED
      BY <2>1, <2>2
  <1>3. Nat \subseteq T
    <2> HIDE DEF T
    <2> QED
      BY <1>1, <1>2, NatSetInduction
  <1> QED
    BY <1>0, <1>3

(* A plan that takes from an item stays within what the item holds.        *)
LEMMA TakenBound ==
  ASSUME NEW r \in Reqs, Ready(r), NEW i \in Items
  PROVE  \A n \in 0..Len(menu[r]) :
           \/ Taken(r)[n][i] = Taken(r)[0][i]
           \/ i \in view[r] /\ Taken(r)[n][i] <= Holds(r, i)
  <1> DEFINE last == Len(menu[r])
             Goal(n) == \/ Taken(r)[n][i] = Taken(r)[0][i]
                        \/ i \in view[r] /\ Taken(r)[n][i] <= Holds(r, i)
             T == {n \in Nat : n <= last => Goal(n)}
  <1>0. last \in Nat /\ DOMAIN menu[r] = 1..last
    BY TakenFacts
  <1>1. 0 \in T
    OBVIOUS
  <1>2. ASSUME NEW n \in Nat, n \in T PROVE n + 1 \in T
    <2> SUFFICES ASSUME n + 1 <= last PROVE Goal(n + 1)
      OBVIOUS
    <2>1. n <= last /\ n + 1 \in 1..last /\ (n + 1) - 1 = n
      BY <1>0
    <2>2. Goal(n)
      BY <1>2, <2>1
    <2> DEFINE s == Share(r, n + 1, Taken(r)[n], i)
    <2>3. /\ Taken(r)[n + 1][i] = Taken(r)[n][i] + s /\ s \in Nat
          /\ Taken(r)[n][i] \in Nat /\ Taken(r)[n] \in [Items -> Nat]
      BY <2>1, TakenGrows
    <2>4. s # 0 => i \in view[r] /\ Taken(r)[n][i] + s <= Holds(r, i)
      BY <1>0, <2>1, <2>3, ShareBounds
    <2> HIDE DEF s
    <2>5. CASE s = 0
      <3>1. Taken(r)[n + 1][i] = Taken(r)[n][i]
        BY <2>3, <2>5
      <3> QED
        BY <2>2, <3>1
    <2>6. CASE s # 0
      BY <2>3, <2>4, <2>6
    <2> QED
      BY <2>5, <2>6
  <1>3. Nat \subseteq T
    <2> HIDE DEF T
    <2> QED
      BY <1>1, <1>2, NatSetInduction
  <1> QED
    BY <1>0, <1>3

(* The rows reserve_plan adds.                                             *)
LEMMA NewRows ==
  ASSUME NEW r \in Reqs, Ready(r)
  PROVE  NewReservations(r) =
           {[plan |-> r, line |-> p[1], item |-> p[2],
             quantity |-> Taken(r)[p[1]][p[2]] - Taken(r)[p[1] - 1][p[2]]] :
              p \in {p \in (1..Len(menu[r])) \X view[r] :
                       Taken(r)[p[1]][p[2]] - Taken(r)[p[1] - 1][p[2]] \in Nat \ {0}}}
  BY DEF NewReservations

(* The rows of an item amount to what the plan has taken of it.            *)
LEMMA NewAmount ==
  ASSUME NEW r \in Reqs, Ready(r), NEW i \in Items
  PROVE  /\ Counted({x \in NewReservations(r) : x.item = i})
         /\ Reserved(NewReservations(r), i) = Taken(r)[Len(menu[r])][i] - Taken(r)[0][i]
  <1> DEFINE last == Len(menu[r])
             taken == Taken(r)
             New == NewReservations(r)
             Part(n) == taken[n][i] - taken[n - 1][i]
             Made(n) == [plan |-> r, line |-> n, item |-> i, quantity |-> Part(n)]
             Upto(n) == {x \in New : x.item = i /\ x.line <= n}
             T == {n \in Nat : n <= last => Counted(Upto(n)) /\ Amount(Upto(n)) = taken[n][i] - taken[0][i]}
  <1>0. last \in Nat /\ \A n \in 0..last : taken[n][i] \in Nat
    BY TakenFacts
  <1>1. \A x \in New : x.line \in 1..last
    BY NewRows
  <1>2. \A n \in 1..last : Part(n) \in Nat /\ (i \notin view[r] => Part(n) = 0)
    <2> SUFFICES ASSUME NEW n \in 1..last PROVE Part(n) \in Nat /\ (i \notin view[r] => Part(n) = 0)
      OBVIOUS
    <2>1. Part(n) = Share(r, n, Taken(r)[n - 1], i) /\ Part(n) \in Nat /\ Taken(r)[n - 1] \in [Items -> Nat]
      BY TakenGrows
    <2>2. n \in DOMAIN menu[r]
      BY TakenFacts
    <2> QED
      BY <2>1, <2>2, ShareBounds
  <1>3. \A n \in 1..last : {x \in New : x.item = i /\ x.line = n} = IF Part(n) = 0 THEN {} ELSE {Made(n)}
    <2> SUFFICES ASSUME NEW n \in 1..last
                 PROVE {x \in New : x.item = i /\ x.line = n} = IF Part(n) = 0 THEN {} ELSE {Made(n)}
      OBVIOUS
    <2>1. \A x \in New : x.item = i /\ x.line = n => x = Made(n) /\ Part(n) # 0
      BY NewRows
    <2>2. Part(n) # 0 => Made(n) \in New
      <3> SUFFICES ASSUME Part(n) # 0 PROVE Made(n) \in New
        OBVIOUS
      <3>1. <<n, i>> \in (1..last) \X view[r] /\ Part(n) \in Nat \ {0}
        BY <1>2
      <3>2. <<n, i>>[1] = n /\ <<n, i>>[2] = i
        OBVIOUS
      <3> QED
        BY <3>1, <3>2, NewRows
    <2> QED
      BY <2>1, <2>2
  <1>a. \A n \in 1..last : Part(n) = taken[n][i] - taken[n - 1][i] /\ Made(n).quantity = Part(n)
    OBVIOUS
  <1>b. \A n : Upto(n) = {x \in New : x.item = i /\ x.line <= n}
    OBVIOUS
  <1>c. Reserved(New, i) = Amount({x \in New : x.item = i})
    BY DEF Reserved
  <1> HIDE DEF last, taken, New, Part, Made, Upto
  <1>4. 0 \in T
    <2>1. Upto(0) = {}
      BY <1>0, <1>1, <1>b
    <2>2. taken[0][i] - taken[0][i] = 0
      BY <1>0
    <2> QED
      BY <2>1, <2>2, AmountOfNone
  <1>5. ASSUME NEW n \in Nat, n \in T PROVE n + 1 \in T
    <2> DEFINE U == Upto(n)
               V == Upto(n + 1)
               W == {x \in New : x.item = i /\ x.line = n + 1}
    <2>a. SUFFICES ASSUME n + 1 <= last
                   PROVE Counted(V) /\ Amount(V) = taken[n + 1][i] - taken[0][i]
      OBVIOUS
    <2>1. n + 1 \in 1..last /\ n <= last /\ n \in 0..last /\ n + 1 \in 0..last /\ 0 \in 0..last /\ (n + 1) - 1 = n
      BY <1>0, <2>a
    <2>2. Counted(U) /\ Amount(U) = taken[n][i] - taken[0][i]
      BY <1>5, <2>1
    <2>3. V = U \cup W /\ U \cap W = {}
      BY <1>0, <1>1, <1>b
    <2>4. Part(n + 1) = taken[n + 1][i] - taken[n][i] /\ Made(n + 1).quantity = Part(n + 1)
      BY <1>a, <2>1
    <2>5. W = IF Part(n + 1) = 0 THEN {} ELSE {Made(n + 1)}
      BY <1>3, <2>1
    <2>6. Part(n + 1) \in Nat
      BY <1>2, <2>1
    <2>7. taken[n + 1][i] \in Nat /\ taken[n][i] \in Nat /\ taken[0][i] \in Nat
      BY <1>0, <2>1
    <2> HIDE DEF U, V, W
    <2>8. Counted(W) /\ Amount(W) = Part(n + 1)
      <3>1. CASE Part(n + 1) = 0
        <4>1. W = {}
          BY <2>5, <3>1
        <4> QED
          BY <3>1, <4>1, AmountOfNone
      <3>2. CASE Part(n + 1) # 0
        <4>1. W = {Made(n + 1)}
          BY <2>5, <3>2
        <4> QED
          BY <2>4, <2>6, <4>1, AmountOfOne
      <3> QED
        BY <3>1, <3>2
    <2>9. Counted(V) /\ Amount(V) = Amount(U) + Amount(W)
      BY <2>2, <2>3, <2>8, AmountUnion
    <2>10. Amount(V) = taken[n + 1][i] - taken[0][i]
      BY <2>2, <2>4, <2>7, <2>8, <2>9
    <2> QED
      BY <2>9, <2>10
  <1>6. last \in T
    <2> HIDE DEF T
    <2>1. Nat \subseteq T
      BY <1>4, <1>5, NatSetInduction
    <2> QED
      BY <1>0, <2>1
  <1>7. Upto(last) = {x \in New : x.item = i}
    BY <1>0, <1>1, <1>b
  <1>8. Counted(Upto(last)) /\ Amount(Upto(last)) = taken[last][i] - taken[0][i]
    BY <1>0, <1>6
  <1>9. /\ Counted({x \in New : x.item = i})
        /\ Reserved(New, i) = taken[last][i] - taken[0][i]
    BY <1>7, <1>8, <1>c
  <1> QED
    BY <1>9 DEF New, taken, last

---------------------------------------------------------------------------
(* They are finitely many.                                                 *)
LEMMA NewFinite ==
  ASSUME NEW r \in Reqs, Ready(r)
  PROVE  IsFiniteSet(NewReservations(r))
  <1> DEFINE P == {p \in (1..Len(menu[r])) \X view[r] :
                     Taken(r)[p[1]][p[2]] - Taken(r)[p[1] - 1][p[2]] \in Nat \ {0}}
             f == [p \in P |-> [plan |-> r, line |-> p[1], item |-> p[2],
                                quantity |-> Taken(r)[p[1]][p[2]] - Taken(r)[p[1] - 1][p[2]]]]
  <1>1. IsFiniteSet(P)
    <2>1. Len(menu[r]) \in Nat /\ view[r] \subseteq Items
      BY DEF Ready
    <2>2. IsFiniteSet(1..Len(menu[r]))
      <3> DEFINE last == Len(menu[r])
      <3>1. 1 \in Int /\ last \in Int
        BY <2>1
      <3> HIDE DEF last
      <3>2. IsFiniteSet(1..last)
        BY <3>1, FS_Interval
      <3> QED
        BY <3>2 DEF last
    <2>a. IsFiniteSet(view[r])
      BY <2>1, FS_Subset, ReservationsAssumption
    <2>3. IsFiniteSet((1..Len(menu[r])) \X view[r])
      BY <2>2, <2>a, FS_Product
    <2> QED
      BY <2>3, FS_Subset
  <1>2. NewReservations(r) = {f[p] : p \in P}
    BY NewRows
  <1> HIDE DEF P
  <1>3. f \in Surjection(P, NewReservations(r))
    <2>1. f = [p \in P |-> f[p]]
      OBVIOUS
    <2> HIDE DEF f
    <2> QED
      BY <1>2, <2>1 DEF Surjection
  <1> QED
    BY <1>1, <1>3, FS_Surjection

(* A request that reserves, or has reserved, knows what it needs to.       *)
LEMMA IsReady ==
  ASSUME Shape, AmountsInv, NEW r \in Reqs, pc[r] \in {"reserving", "reserved", "listed"}
  PROVE  Ready(r)
  <1>1. view[r] \subseteq Items /\ \A i \in view[r] : attrs[r][i] \in Row
    BY DEF Shape, AmountsInv
  <1>2. menu[r] \in Seq(Ingredient)
    BY ReservationsAssumption DEF Shape, AmountsInv
  <1>3. seen[r] \subseteq Reservation /\ IsFiniteSet(seen[r])
    BY DEF Shape, AmountsInv
  <1> QED
    BY <1>1, <1>2, <1>3 DEF Ready

(* The invariant of the amounts.                                           *)
LEMMA AmountsInit == Init => AmountsInv
  <1> SUFFICES ASSUME Init PROVE AmountsInv
    OBVIOUS
  <1>1. \A i \in Items : stock[i] # None => convert_to_base(stock[i]).quantity \in Nat
    BY BaseQuantity DEF Init
  <1>2. \A i \in Items : stock[i] # None => convert_to_base(stock[i]).quantity <= most[i]
    BY <1>1 DEF Init
  <1> QED
    BY <1>2, FS_EmptySet DEF Init, AmountsInv, NoItem

(* The stages before a plan has anything.                                  *)
Early == {"idle", "loaded", "locked", "reserving"}

LEMMA AmountsStep == Shape /\ StagesInv /\ AmountsInv /\ [Next]_vars => AmountsInv'
  <1> SUFFICES ASSUME Shape, StagesInv, AmountsInv, [Next]_vars PROVE AmountsInv'
    OBVIOUS
  <1> DEFINE Quiet ==
        /\ UNCHANGED <<stock, attrs, view, menu, seen, got, most, reservations>>
        /\ \A p \in Reqs : \/ pc[p] = pc'[p]
                           \/ pc[p] = "reserved" /\ pc'[p] = "listed"
                           \/ pc'[p] \in {"found", "deleted", "done", "failed"}
  <1>a. ASSUME Quiet PROVE AmountsInv'
    BY <1>a DEF AmountsInv, Early
  <1> USE DEF Advance, Finish
  <1>1. ASSUME NEW r \in Reqs, NEW c \in Calls, Receive(r, c) PROVE AmountsInv'
    BY <1>1 DEF Receive, Shape, AmountsInv
  <1>2. ASSUME NEW r \in Reqs, Replay(r) PROVE AmountsInv'
    BY <1>2, <1>a DEF Replay, Shape, Early, session
  <1>3. ASSUME NEW r \in Reqs, list_active_inventory(r) PROVE AmountsInv'
    BY <1>3 DEF list_active_inventory, Loaded, Usable, Calling, Shape, AmountsInv
  <1>4. ASSUME NEW r \in Reqs, no_matching_recipes(r) PROVE AmountsInv'
    BY <1>4, <1>a DEF no_matching_recipes, Shape, Early, session
  <1>5. ASSUME NEW r \in Reqs, NEW m \in Menus, generate_plan(r, m) PROVE AmountsInv'
    <2>1. IsFiniteSet({x \in reservations : x.plan # r}) /\ m # None
      BY FS_Subset, ReservationsAssumption DEF AmountsInv
    <2> DEFINE others == {x \in reservations : x.plan # r}
    <2>2. /\ UNCHANGED <<stock, reservations, attrs, view, got, most>>
          /\ \A q \in Reqs : pc'[q] = (IF q = r THEN "reserving" ELSE pc[q])
          /\ \A q \in Reqs : menu'[q] = (IF q = r THEN m ELSE menu[q])
          /\ \A q \in Reqs : seen'[q] = (IF q = r THEN others ELSE seen[q])
          /\ pc[r] = "locked"
      BY <1>5 DEF generate_plan, Shape
    <2>3. IsFiniteSet(others) /\ m # None
      BY <2>1
    <2> HIDE DEF others
    <2> QED
      BY <2>2, <2>3 DEF AmountsInv
  <1>6. ASSUME NEW r \in Reqs, refuse_plan(r) PROVE AmountsInv'
    BY <1>6, <1>a DEF refuse_plan, Shape, Early, session
  <1>7. ASSUME NEW r \in Reqs, reserve_plan(r) PROVE AmountsInv'
    <2>1. IsFiniteSet(reservations \cup NewReservations(r))
      <3>1. IsFiniteSet(NewReservations(r))
        BY <1>7, IsReady, NewFinite DEF reserve_plan
      <3> QED
        BY <3>1, FS_Union DEF AmountsInv
    <2>2. \A x \in NewReservations(r) : x.plan = r
      BY NewReservationFields DEF Shape
    <2> QED
      BY <1>7, <2>1, <2>2 DEF reserve_plan, Shape, AmountsInv
  <1>8. ASSUME NEW r \in Reqs, list_gaps(r) PROVE AmountsInv'
    BY <1>8, <1>a DEF list_gaps, Shape, Early, session
  <1>9. ASSUME NEW r \in Reqs, find_plan(r) PROVE AmountsInv'
    BY <1>9, <1>a DEF find_plan, Shape, Early, session
  <1>10. ASSUME NEW r \in Reqs, delete_plan(r) PROVE AmountsInv'
    <2>1. IsFiniteSet({x \in reservations : x.plan # call[r].plan})
      BY FS_Subset DEF AmountsInv
    <2> QED
      BY <1>10, <2>1 DEF delete_plan, Shape, AmountsInv, session
  <1>11. ASSUME NEW r \in Reqs, respond(r) PROVE AmountsInv'
    BY <1>11, <1>a DEF respond, Shape, Early, session
  <1>12. ASSUME NEW r \in Reqs, die(r) PROVE AmountsInv'
    BY <1>12, <1>a DEF die, Shape, Early, session
  <1>13. ASSUME NEW i \in Items, NEW row \in Row, write_item(i, row) PROVE AmountsInv'
    <2> DEFINE q == convert_to_base(row).quantity
    <2>1. q \in Nat /\ most[i] \in Nat
      BY BaseQuantity DEF Shape
    <2>2. \A j \in Items : most'[j] = IF j = i /\ most[i] < q THEN q ELSE most[j]
      BY <1>13 DEF write_item, Shape
    <2>3. \A j \in Items : most[j] \in Nat
      BY DEF Shape
    <2>4. ASSUME NEW j \in Items, NEW old, old # None => old \in Row /\ convert_to_base(old).quantity <= most[j]
          PROVE  old # None => convert_to_base(old).quantity <= most'[j]
      <3> SUFFICES ASSUME old # None PROVE convert_to_base(old).quantity <= most'[j]
        OBVIOUS
      <3> DEFINE o == convert_to_base(old).quantity
      <3>1. o \in Nat /\ o <= most[j]
        BY <2>4, BaseQuantity
      <3> HIDE DEF o, q
      <3> QED
        BY <2>1, <2>2, <2>3, <3>1 DEF o
    <2>5. q <= most'[i]
      BY <2>1, <2>2
    <2>6. \A j \in Items : \A x \in {stock'[j]} \cup {attrs'[r][j] : r \in Reqs} :
            x # None => convert_to_base(x).quantity <= most'[j]
      <3>1. \A j \in Items : stock'[j] = IF j = i THEN row ELSE stock[j]
        BY <1>13 DEF write_item, Shape
      <3>2. attrs' = attrs
        BY <1>13 DEF write_item, session
      <3>3. \A j \in Items : \A x \in {stock[j]} \cup {attrs[r][j] : r \in Reqs} :
              x # None => x \in Row /\ convert_to_base(x).quantity <= most[j]
        BY DEF Shape, AmountsInv
      <3>4. \A j \in Items : \A x \in {stock[j]} \cup {attrs[r][j] : r \in Reqs} :
              x # None => convert_to_base(x).quantity <= most'[j]
        BY <2>4, <3>3
      <3> HIDE DEF q
      <3> QED
        BY <2>5, <3>1, <3>2, <3>4 DEF q
    <2>7. UNCHANGED <<reservations, pc, view, menu, seen, got, attrs>>
      BY <1>13 DEF write_item, session
    <2> QED
      BY <2>6, <2>7 DEF AmountsInv
  <1>14. ASSUME NEW i \in Items, remove_item(i) PROVE AmountsInv'
    BY <1>14 DEF remove_item, Shape, AmountsInv, session
  <1>15. CASE UNCHANGED vars
    BY <1>15, <1>a DEF vars, Early, session
  <1> QED
    BY <1>1, <1>2, <1>3, <1>4, <1>5, <1>6, <1>7, <1>8, <1>9, <1>10, <1>11, <1>12, <1>13, <1>14, <1>15 DEF Next, Step

---------------------------------------------------------------------------
(* Reserved within the most there was: a commit adds, to what was reserved *)
(* of an item, no more than the lines have found free of it.               *)
LEMMA WithinMostInit == Init => ReservedWithinMost
  <1> SUFFICES ASSUME Init, NEW i \in Items PROVE Reserved(reservations, i) <= most[i]
    BY DEF ReservedWithinMost
  <1>1. Reserved(reservations, i) = 0
    <2>1. {x \in reservations : x.item = i} = {}
      BY DEF Init
    <2> QED
      BY <2>1, AmountOfNone DEF Reserved
  <1>2. most[i] \in Nat
    BY ShapeInit DEF Shape
  <1> QED
    BY <1>1, <1>2

LEMMA WithinMostStep ==
  Shape /\ AmountsInv /\ SeenIsComplete /\ ReservedWithinMost /\ [Next]_vars => ReservedWithinMost'
  <1> SUFFICES ASSUME Shape, AmountsInv, SeenIsComplete, ReservedWithinMost, [Next]_vars
               PROVE  ReservedWithinMost'
    OBVIOUS
  <1>a. ASSUME UNCHANGED <<reservations, most>> PROVE ReservedWithinMost'
    BY <1>a DEF ReservedWithinMost, Reserved
  <1>b. \A i \in Items : /\ Counted({x \in reservations : x.item = i})
                         /\ Reserved(reservations, i) \in Nat
                         /\ most[i] \in Nat
                         /\ Reserved(reservations, i) <= most[i]
    <2>1. reservations \subseteq Reservation /\ IsFiniteSet(reservations)
      BY DEF Shape, AmountsInv
    <2> QED
      BY <2>1, ReservedCounted DEF Shape, ReservedWithinMost
  <1>1. ASSUME NEW r \in Reqs, NEW c \in Calls, Receive(r, c) PROVE ReservedWithinMost'
    BY <1>1, <1>a DEF Receive
  <1>2. ASSUME NEW r \in Reqs, Replay(r) PROVE ReservedWithinMost'
    BY <1>2, <1>a DEF Replay
  <1>3. ASSUME NEW r \in Reqs, list_active_inventory(r) PROVE ReservedWithinMost'
    BY <1>3, <1>a DEF list_active_inventory
  <1>4. ASSUME NEW r \in Reqs, no_matching_recipes(r) PROVE ReservedWithinMost'
    BY <1>4, <1>a DEF no_matching_recipes
  <1>5. ASSUME NEW r \in Reqs, NEW m \in Menus, generate_plan(r, m) PROVE ReservedWithinMost'
    BY <1>5, <1>a DEF generate_plan
  <1>6. ASSUME NEW r \in Reqs, refuse_plan(r) PROVE ReservedWithinMost'
    BY <1>6, <1>a DEF refuse_plan
  <1>7. ASSUME NEW r \in Reqs, reserve_plan(r) PROVE ReservedWithinMost'
    <2> SUFFICES ASSUME NEW i \in Items PROVE Reserved(reservations', i) <= most'[i]
      BY DEF ReservedWithinMost
    <2> DEFINE old == {x \in reservations : x.item = i}
               new == {x \in NewReservations(r) : x.item = i}
               known == {x \in seen[r] : x.item = i}
               last == Len(menu[r])
               before == Taken(r)[0][i]
               after == Taken(r)[last][i]
    <2>1. pc[r] = "reserving" /\ reservations' = reservations \cup NewReservations(r) /\ most' = most
      BY <1>7 DEF reserve_plan
    <2>2. Ready(r)
      BY <2>1, IsReady
    <2>3. Reserved(reservations', i) = Amount(old \cup new)
      <3>1. {x \in reservations' : x.item = i} = old \cup new
        BY <2>1
      <3> QED
        BY <3>1, Zenon DEF Reserved
    <2>4. old \cap new = {}
      <3>1. \A x \in NewReservations(r) : x.plan = r
        BY <2>2, NewReservationFields DEF Ready
      <3> QED
        BY <2>1, <3>1 DEF AmountsInv
    <2>5. Counted(new) /\ Amount(new) = after - before
      BY <2>2, NewAmount DEF Reserved
    <2>6. Counted(old) /\ Amount(old) = Reserved(reservations, i)
      BY <1>b DEF Reserved
    <2>7. Reserved(reservations', i) = Reserved(reservations, i) + (after - before)
      <3> HIDE DEF old, new, after, before
      <3> QED
        BY <2>3, <2>4, <2>5, <2>6, AmountUnion
    <2>8. /\ last \in Nat /\ after \in Nat /\ before \in Nat /\ before = Reserved(seen[r], i)
          /\ after = before \/ (i \in view[r] /\ after <= Holds(r, i))
      <3>1. last \in Nat /\ before = Reserved(seen[r], i) /\ \A n \in 0..last : Taken(r)[n] \in [Items -> Nat]
        BY <2>2, TakenFacts
      <3>2. 0 \in 0..last /\ last \in 0..last
        BY <3>1
      <3>3. after = before \/ (i \in view[r] /\ after <= Holds(r, i))
        BY <2>2, <3>2, TakenBound
      <3> QED
        BY <3>1, <3>2, <3>3
    <2>9. i \in view[r] => /\ Reserved(reservations, i) <= before
                           /\ Holds(r, i) <= most[i] /\ Holds(r, i) \in Nat
      <3> SUFFICES ASSUME i \in view[r]
                   PROVE  /\ Reserved(reservations, i) <= before
                          /\ Holds(r, i) <= most[i] /\ Holds(r, i) \in Nat
        OBVIOUS
      <3>1. old \subseteq known
        BY <2>1 DEF SeenIsComplete, AmountsInv
      <3>2. Counted(known)
        BY <2>2, ReservedCounted DEF Ready
      <3>3. Amount(old) <= Amount(known)
        BY <3>1, <3>2, AmountSubset
      <3>4. attrs[r][i] \in Row /\ attrs[r][i] # None
        BY <2>2, ReservationsAssumption DEF Ready
      <3>5. Holds(r, i) <= most[i] /\ Holds(r, i) \in Nat
        BY <3>4, BaseQuantity DEF Holds, AmountsInv
      <3>6. Amount(known) = Reserved(seen[r], i) /\ Amount(old) = Reserved(reservations, i)
        BY DEF Reserved
      <3> QED
        BY <2>8, <3>3, <3>5, <3>6
    <2> HIDE DEF old, new, known, last, before, after
    <2> DEFINE sum == Reserved(reservations, i)
               all == Reserved(reservations', i)
               held == Holds(r, i)
               top == most[i]
    <2>10. /\ sum \in Nat /\ top \in Nat /\ sum <= top /\ after \in Nat /\ before \in Nat
           /\ all = sum + (after - before)
           /\ after = before \/ (sum <= before /\ after <= held /\ held <= top /\ held \in Nat)
      BY <1>b, <2>7, <2>8, <2>9
    <2>11. all <= top
      <3> HIDE DEF sum, all, held, top
      <3> QED
        BY <2>10
    <2> QED
      BY <2>1, <2>11
  <1>8. ASSUME NEW r \in Reqs, list_gaps(r) PROVE ReservedWithinMost'
    BY <1>8, <1>a DEF list_gaps
  <1>9. ASSUME NEW r \in Reqs, find_plan(r) PROVE ReservedWithinMost'
    BY <1>9, <1>a DEF find_plan
  <1>10. ASSUME NEW r \in Reqs, delete_plan(r) PROVE ReservedWithinMost'
    <2> SUFFICES ASSUME NEW i \in Items PROVE Reserved(reservations', i) <= most'[i]
      BY DEF ReservedWithinMost
    <2> DEFINE old == {x \in reservations : x.item = i}
               new == {x \in reservations' : x.item = i}
    <2>1. new \subseteq old /\ most' = most /\ reservations' \subseteq reservations
      BY <1>10 DEF delete_plan
    <2>2. Counted(old) /\ Amount(old) \in Nat /\ most[i] \in Nat /\ Amount(old) <= most[i]
      BY <1>b DEF Reserved
    <2>3. Counted(new)
      BY <2>1, <2>2, AmountIs
    <2>4. Amount(new) <= Amount(old) /\ Amount(new) \in Nat
      BY <2>1, <2>2, <2>3, AmountSubset, AmountNat
    <2>5. Reserved(reservations', i) = Amount(new)
      BY DEF Reserved
    <2> HIDE DEF old, new
    <2> QED
      BY <2>1, <2>2, <2>4, <2>5
  <1>11. ASSUME NEW r \in Reqs, respond(r) PROVE ReservedWithinMost'
    BY <1>11, <1>a DEF respond
  <1>12. ASSUME NEW r \in Reqs, die(r) PROVE ReservedWithinMost'
    BY <1>12, <1>a DEF die
  <1>13. ASSUME NEW i \in Items, NEW row \in Row, write_item(i, row) PROVE ReservedWithinMost'
    <2> DEFINE q == convert_to_base(row).quantity
    <2>1. q \in Nat /\ \A j \in Items : most'[j] = IF j = i /\ most[i] < q THEN q ELSE most[j]
      BY <1>13, BaseQuantity DEF write_item, Shape
    <2> HIDE DEF q
    <2>2. ASSUME NEW j \in Items PROVE Reserved(reservations, j) <= most'[j]
      <3> DEFINE old == most[j]
                 new == most'[j]
                 sum == Reserved(reservations, j)
      <3>1. sum \in Nat /\ old \in Nat /\ sum <= old
        BY <1>b
      <3>2. new = old \/ (old < q /\ new = q)
        BY <2>1
      <3> HIDE DEF old, new, sum
      <3>3. sum <= new
        BY <2>1, <3>1, <3>2
      <3> QED
        BY <3>3 DEF sum, new
    <2>3. \A j \in Items : Reserved(reservations', j) = Reserved(reservations, j)
      BY <1>13 DEF write_item
    <2> QED
      BY <2>2, <2>3 DEF ReservedWithinMost
  <1>14. ASSUME NEW i \in Items, remove_item(i) PROVE ReservedWithinMost'
    BY <1>14, <1>a DEF remove_item
  <1>15. CASE UNCHANGED vars
    BY <1>15, <1>a DEF vars
  <1> QED
    BY <1>1, <1>2, <1>3, <1>4, <1>5, <1>6, <1>7, <1>8, <1>9, <1>10, <1>11, <1>12, <1>13, <1>14, <1>15 DEF Next, Step

(* What expires first is taken first: the commit establishes it, and       *)
(* afterwards the plan's reservations and what it has read stay.           *)
LEMMA ExpiringStep == Shape /\ AmountsInv /\ ExpiringFirst /\ [Next]_vars => ExpiringFirst'
  <1> SUFFICES ASSUME Shape, AmountsInv, ExpiringFirst, [Next]_vars PROVE ExpiringFirst'
    OBVIOUS
  <1> DEFINE Same(q) == /\ got'[q] = got[q] /\ attrs'[q] = attrs[q]
                        /\ view'[q] = view[q] /\ seen'[q] = seen[q]
             InOrder(q) == \A x \in got[q] : \A j \in Candidates(q, NameOf[x.item]) :
                (/\ Rank[j] < Rank[x.item]
                 /\ convert_to_base(attrs[q][j]).unit = convert_to_base(attrs[q][x.item]).unit)
                => convert_to_base(attrs[q][j]).quantity
                     <= Reserved(seen[q], j) + Reserved(got[q], j)
  <1>a. ASSUME NEW q \in Reqs, Same(q) PROVE InOrder(q)'
    <2>1. InOrder(q)
      BY DEF ExpiringFirst
    <2>2. \A name : Candidates(q, name)' = Candidates(q, name)
      BY <1>a DEF Candidates
    <2> QED
      BY <1>a, <2>1, <2>2
  <1>b. ASSUME NEW q \in Reqs, got'[q] = {} PROVE InOrder(q)'
    BY <1>b
  <1>c. ASSUME \A q \in Reqs : Same(q) \/ got'[q] = {} PROVE ExpiringFirst'
    <2>1. \A q \in Reqs : InOrder(q)'
      BY <1>a, <1>b, <1>c
    <2> QED
      BY <2>1 DEF ExpiringFirst
  <1>d. \A q \in Reqs : pc[q] \in Early => got[q] = {}
    BY DEF AmountsInv, Early
  <1> USE DEF Early
  <1>1. ASSUME NEW r \in Reqs, NEW c \in Calls, Receive(r, c) PROVE ExpiringFirst'
    BY <1>1, <1>c, <1>d DEF Receive, Shape
  <1>2. ASSUME NEW r \in Reqs, Replay(r) PROVE ExpiringFirst'
    BY <1>2, <1>c DEF Replay, session
  <1>3. ASSUME NEW r \in Reqs, list_active_inventory(r) PROVE ExpiringFirst'
    BY <1>3, <1>c, <1>d DEF list_active_inventory, Calling, Shape
  <1>4. ASSUME NEW r \in Reqs, no_matching_recipes(r) PROVE ExpiringFirst'
    BY <1>4, <1>c DEF no_matching_recipes, session
  <1>5. ASSUME NEW r \in Reqs, NEW m \in Menus, generate_plan(r, m) PROVE ExpiringFirst'
    BY <1>5, <1>c, <1>d DEF generate_plan, Shape
  <1>6. ASSUME NEW r \in Reqs, refuse_plan(r) PROVE ExpiringFirst'
    BY <1>6, <1>c DEF refuse_plan, session
  <1>7. ASSUME NEW r \in Reqs, reserve_plan(r) PROVE ExpiringFirst'
    <2>1. /\ pc[r] = "reserving" /\ got'[r] = NewReservations(r)
          /\ attrs' = attrs /\ view' = view /\ seen' = seen
          /\ \A q \in Reqs : q # r => Same(q)
      BY <1>7 DEF reserve_plan, Shape
    <2>2. Ready(r)
      BY <2>1, IsReady
    <2>3. ASSUME NEW x \in NewReservations(r), NEW j \in Candidates(r, NameOf[x.item]),
                 Rank[j] < Rank[x.item],
                 convert_to_base(attrs[r][j]).unit = convert_to_base(attrs[r][x.item]).unit
          PROVE  convert_to_base(attrs[r][j]).quantity
                   <= Reserved(seen[r], j) + Reserved(NewReservations(r), j)
      <3> DEFINE last == Len(menu[r])
                 n == x.line
                 i == x.item
      <3>1. /\ n \in 1..last /\ i \in view[r] /\ i \in Items
            /\ Taken(r)[n][i] - Taken(r)[n - 1][i] \in Nat \ {0}
        <4>1. PICK p \in (1..last) \X view[r] :
                /\ Taken(r)[p[1]][p[2]] - Taken(r)[p[1] - 1][p[2]] \in Nat \ {0}
                /\ x = [plan |-> r, line |-> p[1], item |-> p[2],
                        quantity |-> Taken(r)[p[1]][p[2]] - Taken(r)[p[1] - 1][p[2]]]
          BY <2>2, NewRows
        <4>2. n = p[1] /\ i = p[2]
          BY <4>1
        <4> QED
          BY <2>2, <4>1, <4>2 DEF Ready
      <3> HIDE DEF last, n, i
      <3>2. /\ n \in DOMAIN menu[r] /\ last \in Nat /\ n \in 0..last /\ 0 \in 0..last /\ last \in 0..last
            /\ last \in n..last
        <4>1. last \in Nat /\ DOMAIN menu[r] = 1..last
          BY <2>2, TakenFacts DEF last
        <4> QED
          BY <3>1, <4>1
      <3>3. Taken(r)[n - 1] \in [Items -> Nat] /\ Share(r, n, Taken(r)[n - 1], i) # 0
        BY <2>2, <3>1, TakenGrows DEF last
      <3>4. i \in Fitting(r, n)
        BY <2>2, <3>1, <3>2, <3>3, ShareBounds
      <3>5. j \in Fitting(r, n) /\ j \in Items
        BY <2>2, <2>3, <3>4 DEF Fitting, Candidates, Ready, i
      <3>6. Taken(r)[n - 1][j] + Share(r, n, Taken(r)[n - 1], j) >= Holds(r, j)
        BY <2>2, <2>3, <3>1, <3>2, <3>3, <3>5, ShareInOrder DEF i
      <3>7. /\ Taken(r)[n][j] = Taken(r)[n - 1][j] + Share(r, n, Taken(r)[n - 1], j)
            /\ Taken(r)[n][j] \in Nat
        BY <2>2, <3>1, <3>5, TakenGrows DEF last
      <3>8. Taken(r)[n][j] <= Taken(r)[last][j]
        BY <2>2, <3>2, <3>5, TakenMonotone DEF last
      <3>9. /\ Taken(r)[0][j] = Reserved(seen[r], j)
            /\ Taken(r)[0][j] \in Nat /\ Taken(r)[last][j] \in Nat
        <4>1. /\ \A m \in 0..last : Taken(r)[m] \in [Items -> Nat]
              /\ \A k \in Items : Taken(r)[0][k] = Reserved(seen[r], k)
          BY <2>2, TakenFacts DEF last
        <4> QED
          BY <3>2, <3>5, <4>1
      <3>10. Reserved(NewReservations(r), j) = Taken(r)[last][j] - Taken(r)[0][j]
        BY <2>2, <3>5, NewAmount DEF last
      <3>11. Holds(r, j) \in Nat
        BY <2>2, <3>5, BaseQuantity DEF Ready, Fitting, Candidates, Holds
      <3> DEFINE h == Holds(r, j)
                 a == Taken(r)[n][j]
                 b == Taken(r)[last][j]
                 c == Taken(r)[0][j]
                 s == Reserved(seen[r], j)
                 t == Reserved(NewReservations(r), j)
      <3>12. h \in Nat /\ a \in Nat /\ b \in Nat /\ c \in Nat /\ a >= h /\ a <= b /\ c = s /\ t = b - c
        BY <3>6, <3>7, <3>8, <3>9, <3>10, <3>11
      <3>13. h <= s + t
        <4> HIDE DEF h, a, b, c, s, t
        <4> QED
          BY <3>12
      <3> QED
        BY <3>13 DEF Holds
    <2>4. \A name : Candidates(r, name)' = Candidates(r, name)
      BY <2>1 DEF Candidates
    <2>5. InOrder(r)'
      BY <2>1, <2>3, <2>4
    <2>6. \A q \in Reqs : InOrder(q)'
      BY <1>a, <2>1, <2>5
    <2> QED
      BY <2>6 DEF ExpiringFirst
  <1>8. ASSUME NEW r \in Reqs, list_gaps(r) PROVE ExpiringFirst'
    BY <1>8, <1>c DEF list_gaps
  <1>9. ASSUME NEW r \in Reqs, find_plan(r) PROVE ExpiringFirst'
    BY <1>9, <1>c DEF find_plan, session
  <1>10. ASSUME NEW r \in Reqs, delete_plan(r) PROVE ExpiringFirst'
    BY <1>10, <1>c DEF delete_plan, session
  <1>11. ASSUME NEW r \in Reqs, respond(r) PROVE ExpiringFirst'
    BY <1>11, <1>c DEF respond, session
  <1>12. ASSUME NEW r \in Reqs, die(r) PROVE ExpiringFirst'
    BY <1>12, <1>c DEF die, session
  <1>13. ASSUME NEW i \in Items, NEW row \in Row, write_item(i, row) PROVE ExpiringFirst'
    BY <1>13, <1>c DEF write_item, session
  <1>14. ASSUME NEW i \in Items, remove_item(i) PROVE ExpiringFirst'
    BY <1>14, <1>c DEF remove_item, session
  <1>15. CASE UNCHANGED vars
    BY <1>15, <1>c DEF vars, session
  <1> QED
    BY <1>1, <1>2, <1>3, <1>4, <1>5, <1>6, <1>7, <1>8, <1>9, <1>10, <1>11, <1>12, <1>13, <1>14, <1>15 DEF Next, Step

---------------------------------------------------------------------------
(* The terms of the shopping list are natural numbers.                     *)
LEMMA OfNameIsNat ==
  ASSUME NEW res, res \subseteq Reservation, IsFiniteSet(res), NEW name
  PROVE  /\ Counted({x \in res : NameOf[x.item] = name})
         /\ ReservedOfName(res, name) \in Nat
  <1>1. Counted({x \in res : NameOf[x.item] = name})
    BY FS_Subset DEF Counted, Reservation
  <1> QED
    BY <1>1, AmountNat DEF ReservedOfName

LEMMA RequiredIsNat ==
  ASSUME NEW r \in Reqs, Ready(r), NEW name
  PROVE  Required(r, name) \in Nat
  <1> DEFINE lines == {k \in DOMAIN menu[r] : menu[r][k].name = name}
             f == [n \in lines |-> Need(r, n).quantity]
  <1>1. IsFiniteSet(lines)
    <2> DEFINE last == Len(menu[r])
    <2>1. last \in Nat /\ DOMAIN menu[r] = 1..last
      BY DEF Ready
    <2>2. IsFiniteSet(1..last)
      <3> HIDE DEF last
      <3>1. 1 \in Int /\ last \in Int
        BY <2>1
      <3> QED
        BY <3>1, FS_Interval
    <2> QED
      BY <2>1, <2>2, FS_Subset
  <1>2. \A n \in lines : f[n] \in Nat
    BY NeedIsNat
  <1>3. Required(r, name) = SumFunctionOnSet(f, lines)
    BY DEF Required, SumFunction
  <1> HIDE DEF lines, f
  <1> QED
    BY <1>1, <1>2, <1>3, SumNat

LEMMA TotalIsNat ==
  ASSUME NEW r \in Reqs, Ready(r), NEW name
  PROVE  Total(r, name) \in Nat
  <1> DEFINE items == Candidates(r, name)
             f == [i \in items |-> convert_to_base(attrs[r][i]).quantity]
  <1>1. IsFiniteSet(items) /\ items \subseteq view[r]
    BY FS_Subset, ReservationsAssumption DEF Ready, Candidates
  <1>2. \A i \in items : f[i] \in Nat
    BY <1>1, BaseQuantity DEF Ready
  <1>3. Total(r, name) = SumFunctionOnSet(f, items)
    BY DEF Total, SumFunction
  <1> HIDE DEF items, f
  <1> QED
    BY <1>1, <1>2, <1>3, SumNat

(* The shopping list has its type.                                         *)
LEMMA TypesStep == Inv /\ TypeOK /\ [Next]_vars => listed' \in [Reqs -> [Names -> Nat]]
  <1> SUFFICES ASSUME Inv, TypeOK, [Next]_vars PROVE listed' \in [Reqs -> [Names -> Nat]]
    OBVIOUS
  <1> USE DEF TypeOK
  <1>1. ASSUME NEW r \in Reqs, list_gaps(r) PROVE listed' \in [Reqs -> [Names -> Nat]]
    <2>1. Ready(r)
      BY <1>1, IsReady DEF list_gaps, Inv
    <2> DEFINE others == {x \in reservations : x.plan # r}
    <2>2. others \subseteq Reservation /\ IsFiniteSet(others)
      BY FS_Subset DEF Inv, Shape, AmountsInv
    <2>3. \A name \in Names :
            NonNeg(Required(r, name) - NonNeg(Total(r, name) - ReservedOfName(others, name))) \in Nat
      <3> SUFFICES ASSUME NEW name \in Names
                   PROVE NonNeg(Required(r, name) - NonNeg(Total(r, name) - ReservedOfName(others, name))) \in Nat
        OBVIOUS
      <3> DEFINE a == Required(r, name)
                 b == Total(r, name)
                 c == ReservedOfName(others, name)
      <3>1. a \in Nat /\ b \in Nat /\ c \in Nat
        <4> HIDE DEF others
        <4> QED
          BY <2>1, <2>2, RequiredIsNat, TotalIsNat, OfNameIsNat
      <3> HIDE DEF a, b, c
      <3>2. NonNeg(a - NonNeg(b - c)) \in Nat
        BY <3>1 DEF NonNeg
      <3> QED
        BY <3>2 DEF a, b, c
    <2>4. derive_shopping_list(r) \in [Names -> Nat]
      BY <2>3 DEF derive_shopping_list
    <2> HIDE DEF others
    <2> QED
      BY <1>1, <2>4 DEF list_gaps
  <1>2. ASSUME NEW r \in Reqs, Step(r), ~ list_gaps(r) PROVE UNCHANGED listed
    BY <1>2 DEF Step, Replay, list_active_inventory, no_matching_recipes, generate_plan,
                refuse_plan, reserve_plan, find_plan, delete_plan, respond, session
  <1>3. ASSUME NEW r \in Reqs, NEW c \in Calls, Receive(r, c) PROVE UNCHANGED listed
    BY <1>3 DEF Receive
  <1>4. ASSUME NEW r \in Reqs, die(r) PROVE UNCHANGED listed
    BY <1>4 DEF die, session
  <1>5. ASSUME NEW i \in Items, NEW row \in Row, write_item(i, row) PROVE UNCHANGED listed
    BY <1>5 DEF write_item, session
  <1>6. ASSUME NEW i \in Items, remove_item(i) PROVE UNCHANGED listed
    BY <1>6 DEF remove_item, session
  <1>7. CASE UNCHANGED vars
    BY <1>7 DEF vars, session
  <1> QED
    BY <1>1, <1>2, <1>3, <1>4, <1>5, <1>6, <1>7 DEF Next

---------------------------------------------------------------------------
(* More about sums.                                                        *)

(* Smaller values make a smaller sum.                                      *)
LEMMA SumLess ==
  ASSUME NEW f, NEW g, NEW S, IsFiniteSet(S), \A x \in S : f[x] \in Int /\ g[x] \in Int /\ f[x] <= g[x]
  PROVE  SumFunctionOnSet(f, S) <= SumFunctionOnSet(g, S)
  <1> DEFINE T == {s \in SUBSET S : SumFunctionOnSet(f, s) <= SumFunctionOnSet(g, s)}
  <1>1. ASSUME NEW s \in SUBSET S, \A t \in SUBSET s : t # s => t \in T
        PROVE  s \in T
    <2>1. IsFiniteSet(s)
      BY FS_Subset
    <2>2. s # {} => s \ {First(s)} \in T /\ First(s) \in S
      BY <1>1 DEF First
    <2> DEFINE a == SumFunctionOnSet(f, s \ {First(s)})
               b == SumFunctionOnSet(g, s \ {First(s)})
    <2>3. IsFiniteSet(s \ {First(s)}) /\ \A x \in s \ {First(s)} : f[x] \in Int /\ g[x] \in Int
      BY <2>1, FS_RemoveElement
    <2>4. a \in Int /\ b \in Int
      BY <2>3, SumInt
    <2>5. s # {} => a <= b /\ f[First(s)] <= g[First(s)] /\ f[First(s)] \in Int /\ g[First(s)] \in Int
      BY <2>2
    <2>6. SumFunctionOnSet(f, s) = IF s = {} THEN 0 ELSE f[First(s)] + a
      BY <2>1, SumFirst
    <2>7. SumFunctionOnSet(g, s) = IF s = {} THEN 0 ELSE g[First(s)] + b
      BY <2>1, SumFirst
    <2>8. SumFunctionOnSet(f, s) <= SumFunctionOnSet(g, s)
      <3> HIDE DEF a, b, T
      <3> QED
        BY <2>4, <2>5, <2>6, <2>7
    <2> QED
      BY <2>8
  <1>2. T = SUBSET S
    <2> HIDE DEF T
    <2>1. T \subseteq SUBSET S
      BY DEF T
    <2> QED
      BY <1>1, <2>1, SubsetInduction
  <1> QED
    BY <1>2

(* A sum over the members of S is one over what h makes of them, if it     *)
(* makes different things of different members.                            *)
LEMMA SumImage ==
  ASSUME NEW f, NEW h, NEW S, IsFiniteSet(S), NEW g,
         \A x \in S : f[x] \in Int /\ g[h[x]] = f[x],
         \A x, y \in S : h[x] = h[y] => x = y
  PROVE  /\ IsFiniteSet({h[x] : x \in S})
         /\ SumFunctionOnSet(f, S) = SumFunctionOnSet(g, {h[x] : x \in S})
  <1> DEFINE Image(s) == {h[x] : x \in s}
             T == {s \in SUBSET S : IsFiniteSet(Image(s)) /\ SumFunctionOnSet(f, s) = SumFunctionOnSet(g, Image(s))}
  <1>1. ASSUME NEW s \in SUBSET S, \A t \in SUBSET s : t # s => t \in T
        PROVE  s \in T
    <2>1. IsFiniteSet(s)
      BY FS_Subset
    <2>2. CASE s = {}
      <3>1. Image(s) = {} /\ IsFiniteSet({})
        BY <2>2, FS_EmptySet
      <3>2. SumFunctionOnSet(f, {}) = 0 /\ SumFunctionOnSet(g, {}) = 0
        BY <3>1, SumFirst
      <3> QED
        BY <2>2, <3>1, <3>2
    <2>3. CASE s # {}
      <3>1. PICK z : z \in s
        BY <2>3
      <3> DEFINE rest == s \ {z}
      <3>2. rest \in T
        BY <1>1, <3>1
      <3>3. Image(rest) = Image(s) \ {h[z]} /\ h[z] \in Image(s) /\ Image(s) = Image(rest) \cup {h[z]}
        BY <3>1
      <3>a. IsFiniteSet(Image(rest))
        BY <3>2
      <3>4. IsFiniteSet(Image(s))
        <4> HIDE DEF Image, T, rest
        <4> QED
          BY <3>3, <3>a, FS_AddElement
      <3>5. SumFunctionOnSet(f, s) = f[z] + SumFunctionOnSet(f, rest)
        BY <2>1, <3>1, SumRemove
      <3>6. \A y \in Image(s) : g[y] \in Int
        BY <3>1
      <3>7. SumFunctionOnSet(g, Image(s)) = g[h[z]] + SumFunctionOnSet(g, Image(s) \ {h[z]})
        <4> HIDE DEF Image, T, rest
        <4>1. PICK y \in Image(s) : y = h[z]
          BY <3>3
        <4>2. SumFunctionOnSet(g, Image(s)) = g[y] + SumFunctionOnSet(g, Image(s) \ {y})
          BY <3>4, <3>6, SumRemove
        <4> QED
          BY <4>1, <4>2
      <3>8. g[h[z]] = f[z] /\ SumFunctionOnSet(f, rest) = SumFunctionOnSet(g, Image(rest))
        BY <3>1, <3>2
      <3>9. SumFunctionOnSet(f, s) = SumFunctionOnSet(g, Image(s))
        BY <3>3, <3>5, <3>7, <3>8, Zenon
      <3> QED
        BY <3>4, <3>9
    <2> QED
      BY <2>2, <2>3
  <1>2. T = SUBSET S
    <2> HIDE DEF T
    <2>1. T \subseteq SUBSET S
      BY DEF T
    <2> QED
      BY <1>1, <2>1, SubsetInduction
  <1>3. S \in T
    BY <1>2
  <1> QED
    BY <1>3

(* A sum of nothing but zeros.                                             *)
LEMMA SumOfZeros ==
  ASSUME NEW f, NEW S, IsFiniteSet(S), \A x \in S : f[x] = 0
  PROVE  SumFunctionOnSet(f, S) = 0
  <1> DEFINE T == {s \in SUBSET S : SumFunctionOnSet(f, s) = 0}
  <1>1. ASSUME NEW s \in SUBSET S, \A t \in SUBSET s : t # s => t \in T
        PROVE  s \in T
    <2>1. IsFiniteSet(s)
      BY FS_Subset
    <2>2. s # {} => s \ {First(s)} \in T /\ First(s) \in S
      BY <1>1 DEF First
    <2>3. SumFunctionOnSet(f, s) = IF s = {} THEN 0 ELSE f[First(s)] + SumFunctionOnSet(f, s \ {First(s)})
      BY <2>1, SumFirst
    <2> QED
      BY <2>2, <2>3
  <1>2. T = SUBSET S
    <2> HIDE DEF T
    <2>1. T \subseteq SUBSET S
      BY DEF T
    <2> QED
      BY <1>1, <2>1, SubsetInduction
  <1> QED
    BY <1>2

(* If two sums are equal and nothing is larger in the first, nothing is    *)
(* smaller either.                                                         *)
LEMMA SumEqual ==
  ASSUME NEW f, NEW g, NEW S, IsFiniteSet(S), \A x \in S : f[x] \in Int /\ g[x] \in Int /\ f[x] <= g[x],
         SumFunctionOnSet(f, S) = SumFunctionOnSet(g, S), NEW z \in S
  PROVE  f[z] = g[z]
  <1>1. IsFiniteSet(S \ {z}) /\ \A x \in S \ {z} : f[x] \in Int /\ g[x] \in Int /\ f[x] <= g[x]
    BY FS_RemoveElement
  <1>2. SumFunctionOnSet(f, S \ {z}) <= SumFunctionOnSet(g, S \ {z})
    BY <1>1, SumLess
  <1>3. SumFunctionOnSet(f, S) = f[z] + SumFunctionOnSet(f, S \ {z})
    BY SumRemove
  <1>4. SumFunctionOnSet(g, S) = g[z] + SumFunctionOnSet(g, S \ {z})
    BY SumRemove
  <1>5. SumFunctionOnSet(f, S \ {z}) \in Int /\ SumFunctionOnSet(g, S \ {z}) \in Int
    BY <1>1, SumInt
  <1>6. PICK a, b, c, d : /\ a = SumFunctionOnSet(f, S \ {z}) /\ b = SumFunctionOnSet(g, S \ {z})
                          /\ c = f[z] /\ d = g[z]
    OBVIOUS
  <1>7. a \in Int /\ b \in Int /\ c \in Int /\ d \in Int /\ a <= b /\ c <= d /\ c + a = d + b
    BY <1>2, <1>3, <1>4, <1>5, <1>6
  <1>8. c = d
    BY ONLY <1>7
  <1> QED
    BY <1>6, <1>8

(* What rows amount to is the sum of what their groups do: key tells the   *)
(* group of a row.                                                         *)
LEMMA AmountByGroup ==
  ASSUME NEW R, Counted(R), NEW key, NEW G, IsFiniteSet(G)
  PROVE  Amount({x \in R : key[x] \in G}) =
           SumFunctionOnSet([g \in G |-> Amount({x \in R : key[x] = g})], G)
  <1> DEFINE Of(s) == {x \in R : key[x] \in s}
             In(g) == {x \in R : key[x] = g}
             f == [g \in G |-> Amount(In(g))]
             T == {s \in SUBSET G : Amount(Of(s)) = SumFunctionOnSet(f, s)}
  <1>0. \A s : Of(s) \subseteq R /\ Counted(Of(s))
    <2>1. \A s : Of(s) \subseteq R
      OBVIOUS
    <2> HIDE DEF Of
    <2> QED
      BY <2>1, AmountIs
  <1>a. \A g : In(g) \subseteq R /\ Counted(In(g)) /\ Amount(In(g)) \in Nat
    <2>1. \A g : In(g) \subseteq R
      OBVIOUS
    <2> HIDE DEF In
    <2>2. \A g : Counted(In(g))
      BY <2>1, AmountIs
    <2> QED
      BY <2>1, <2>2, AmountNat
  <1>1. ASSUME NEW s \in SUBSET G, \A t \in SUBSET s : t # s => t \in T
        PROVE  s \in T
    <2>1. IsFiniteSet(s)
      BY FS_Subset
    <2>2. CASE s = {}
      <3>1. Of(s) = {}
        BY <2>2
      <3>2. Amount(Of(s)) = 0
        <4> HIDE DEF Of
        <4> QED
          BY <3>1, AmountOfNone
      <3>3. SumFunctionOnSet(f, s) = 0
        <4> HIDE DEF f
        <4> QED
          BY <2>1, <2>2, SumFirst
      <3> QED
        BY <3>2, <3>3
    <2>3. CASE s # {}
      <3>1. PICK z : z \in s
        BY <2>3
      <3>2. s \ {z} \in T
        <4> HIDE DEF T
        <4> QED
          BY <1>1, <3>1
      <3>3. Of(s) = Of(s \ {z}) \cup In(z) /\ Of(s \ {z}) \cap In(z) = {}
        BY <3>1
      <3>4. Amount(Of(s)) = Amount(Of(s \ {z})) + Amount(In(z))
        <4> HIDE DEF Of, In
        <4> QED
          BY <1>0, <1>a, <3>3, AmountUnion
      <3>5. f[z] = Amount(In(z)) /\ \A g \in s : f[g] \in Int
        BY <1>a, <3>1, SMTT(30)
      <3>6. SumFunctionOnSet(f, s) = f[z] + SumFunctionOnSet(f, s \ {z})
        <4> HIDE DEF f, T
        <4> QED
          BY <2>1, <3>1, <3>5, SumRemove
      <3>7. Amount(Of(s \ {z})) = SumFunctionOnSet(f, s \ {z})
        BY <3>2
      <3>8. Amount(Of(s)) = SumFunctionOnSet(f, s)
        <4>1. PICK a, b, c : a = Amount(Of(s \ {z})) /\ b = Amount(In(z)) /\ c = SumFunctionOnSet(f, s)
          OBVIOUS
        <4>2. a \in Nat /\ b \in Nat
          <5> HIDE DEF Of, In
          <5> QED
            BY <1>0, <1>a, <4>1, AmountNat
        <4>3. Amount(Of(s)) = a + b /\ c = b + a
          <5> HIDE DEF Of, In, f
          <5> QED
            BY <3>4, <3>5, <3>6, <3>7, <4>1
        <4>4. a + b = b + a
          BY ONLY <4>2
        <4> QED
          BY <4>1, <4>3, <4>4
      <3> QED
        BY <3>8
    <2> QED
      BY <2>2, <2>3
  <1>2. T = SUBSET G
    <2> HIDE DEF T
    <2>1. T \subseteq SUBSET G
      BY DEF T
    <2> QED
      BY <1>1, <2>1, SubsetInduction
  <1>3. G \in T
    BY <1>2
  <1> QED
    BY <1>3

---------------------------------------------------------------------------
(* What one line takes altogether.                                         *)
SharesOf(r, n, taken) == [i \in Items |-> Share(r, n, taken, i)]
FreesOf(r, taken) == [i \in view[r] |-> Free(r, taken, i)]

(* Of some items one expires last.                                         *)
LEMMA LastToExpire ==
  ASSUME NEW S, S \subseteq Items, S # {}
  PROVE  \E z \in S : \A j \in S : Rank[j] <= Rank[z]
  <1> DEFINE T == {s \in SUBSET Items : s # {} => \E z \in s : \A j \in s : Rank[j] <= Rank[z]}
  <1>0. IsFiniteSet(Items) /\ \A i \in Items : Rank[i] \in Nat
    BY ReservationsAssumption
  <1>1. ASSUME NEW s \in SUBSET Items, \A t \in SUBSET s : t # s => t \in T
        PROVE  s \in T
    <2> SUFFICES ASSUME s # {} PROVE \E z \in s : \A j \in s : Rank[j] <= Rank[z]
      OBVIOUS
    <2>1. PICK y \in s : TRUE
      OBVIOUS
    <2>2. CASE s = {y}
      BY <1>0, <2>2
    <2>3. CASE s # {y}
      <3>1. s \ {y} \in T /\ s \ {y} # {}
        BY <1>1, <2>1, <2>3
      <3>2. PICK z \in s \ {y} : \A j \in s \ {y} : Rank[j] <= Rank[z]
        BY <3>1
      <3>3. Rank[y] \in Nat /\ Rank[z] \in Nat /\ \A j \in s : Rank[j] \in Nat
        BY <1>0
      <3>4. CASE Rank[y] <= Rank[z]
        BY <3>2, <3>4
      <3>5. CASE Rank[z] < Rank[y]
        <4>1. \A j \in s \ {y} : Rank[j] <= Rank[y]
          BY <3>2, <3>3, <3>5
        <4> QED
          BY <3>3, <4>1
      <3> QED
        BY <3>3, <3>4, <3>5
    <2> QED
      BY <2>2, <2>3
  <1>2. T = SUBSET Items
    <2> HIDE DEF T
    <2>1. T \subseteq SUBSET Items
      BY DEF T
    <2> QED
      BY <1>0, <1>1, <2>1, SubsetInduction
  <1>3. S \in T
    BY <1>2
  <1> QED
    BY <1>3

(* What is free of an item, and its share, add up to the least of the need.*)
LEMMA LeastAdds ==
  ASSUME NEW need \in Nat, NEW sum \in Nat, NEW free \in Nat
  PROVE  Least(free, NonNeg(need - sum)) + Least(need, sum) = Least(need, free + sum)
  BY DEF Least, NonNeg

(* A line takes what it needs, or all that is free of the items that fit.  *)
LEMMA LineTakes ==
  ASSUME NEW r \in Reqs, Ready(r), NEW n \in DOMAIN menu[r], NEW taken \in [Items -> Nat]
  PROVE  /\ IsFiniteSet(Fitting(r, n)) /\ Fitting(r, n) \subseteq view[r] /\ Fitting(r, n) \subseteq Items
         /\ SumFunctionOnSet(SharesOf(r, n, taken), Fitting(r, n)) \in Nat
         /\ SumFunctionOnSet(SharesOf(r, n, taken), Fitting(r, n)) <= Need(r, n).quantity
         /\ \/ SumFunctionOnSet(SharesOf(r, n, taken), Fitting(r, n)) = Need(r, n).quantity
            \/ \A i \in Fitting(r, n) : Share(r, n, taken, i) = Free(r, taken, i)
  <1> DEFINE F == Fitting(r, n)
             sh == SharesOf(r, n, taken)
             fr == FreesOf(r, taken)
             Closed(s) == \A j \in s : \A k \in F : Rank[k] < Rank[j] => k \in s
             T == {s \in SUBSET F : Closed(s) => SumFunctionOnSet(sh, s) = Least(Need(r, n).quantity, SumFunctionOnSet(fr, s))}
  <1>1. F \subseteq view[r] /\ F \subseteq Items /\ IsFiniteSet(F)
    <2>1. F \subseteq view[r] /\ F \subseteq Items
      BY DEF Fitting, Candidates, Ready
    <2> HIDE DEF F
    <2> QED
      BY <2>1, FS_Subset, ReservationsAssumption
  <1>2. \A i \in F : /\ sh[i] = Share(r, n, taken, i) /\ fr[i] = Free(r, taken, i)
                     /\ fr[i] \in Nat /\ sh[i] \in Nat /\ sh[i] <= fr[i]
    <2> TAKE i \in F
    <2>1. i \in view[r] /\ i \in Items
      BY <1>1
    <2>2. sh[i] = Share(r, n, taken, i) /\ fr[i] = Free(r, taken, i)
      BY <2>1 DEF SharesOf, FreesOf
    <2>3. Free(r, taken, i) \in Nat /\ Share(r, n, taken, i) \in Nat
      BY <2>1, FreeIsNat, ShareBounds
    <2>4. PICK a, b : a = Free(r, taken, i) /\ b = NonNeg(Need(r, n).quantity - Earlier(r, n, taken, i))
      OBVIOUS
    <2>5. Share(r, n, taken, i) = Least(a, b)
      BY <2>4, ShareIs
    <2>6. b \in Nat
      <3>1. Need(r, n).quantity \in Nat /\ Earlier(r, n, taken, i) \in Nat
        BY <2>1, NeedIsNat, EarlierSum
      <3> QED
        BY <2>4, <3>1 DEF NonNeg
    <2>7. Least(a, b) <= a
      BY <2>3, <2>4, <2>6 DEF Least
    <2> QED
      BY <2>2, <2>3, <2>4, <2>5, <2>7
  <1>3. PICK need \in Nat : need = Need(r, n).quantity
    BY NeedIsNat
  <1> HIDE DEF F, sh, fr
  <1>4. ASSUME NEW s \in SUBSET F, \A t \in SUBSET s : t # s => t \in T
        PROVE  s \in T
    <2> SUFFICES ASSUME Closed(s) PROVE SumFunctionOnSet(sh, s) = Least(need, SumFunctionOnSet(fr, s))
      BY <1>3
    <2>1. IsFiniteSet(s) /\ s \subseteq Items
      BY <1>1, FS_Subset
    <2>2. CASE s = {}
      <3>1. SumFunctionOnSet(sh, s) = 0 /\ SumFunctionOnSet(fr, s) = 0
        BY <2>1, <2>2, SumFirst
      <3> QED
        BY <3>1 DEF Least
    <2>3. CASE s # {}
      <3>1. PICK z \in s : \A j \in s : Rank[j] <= Rank[z]
        BY <2>1, <2>3, LastToExpire
      <3>2. \A j \in F : Rank[j] \in Nat /\ \A k \in F : Rank[j] = Rank[k] => j = k
        BY <1>1, ReservationsAssumption
      <3>3. Closed(s \ {z})
        <4> SUFFICES ASSUME NEW j \in s \ {z}, NEW k \in F, Rank[k] < Rank[j] PROVE k \in s /\ k # z
          OBVIOUS
        <4>1. k \in s
          OBVIOUS
        <4>2. Rank[j] <= Rank[z] /\ Rank[j] \in Nat /\ Rank[k] \in Nat /\ Rank[z] \in Nat
          BY <3>1, <3>2
        <4> QED
          BY <4>1, <4>2
      <3>4. Before(r, n, z) = s \ {z}
        <4>1. Before(r, n, z) = {k \in F : Rank[k] < Rank[z]}
          BY DEF Before, F
        <4>2. \A k \in F : Rank[k] < Rank[z] <=> k \in s \ {z}
          <5> TAKE k \in F
          <5>1. Rank[k] \in Nat /\ Rank[z] \in Nat /\ (Rank[k] = Rank[z] => k = z)
            BY <3>2
          <5>2. Rank[k] < Rank[z] => k \in s /\ k # z
            BY <5>1
          <5>3. k \in s => Rank[k] <= Rank[z]
            BY <3>1
          <5> QED
            BY <5>1, <5>2, <5>3
        <4> QED
          BY <4>1, <4>2
      <3>5. SumFunctionOnSet(sh, s \ {z}) = Least(need, SumFunctionOnSet(fr, s \ {z}))
        <4>1. s \ {z} \in T
          <5> HIDE DEF T, Closed
          <5> QED
            BY <1>4, <3>1
        <4> QED
          BY <1>3, <3>3, <4>1
      <3>6. z \in F /\ z \in Items /\ z \in view[r]
        BY <1>1
      <3>7. Earlier(r, n, taken, z) = SumFunctionOnSet(fr, s \ {z}) /\ SumFunctionOnSet(fr, s \ {z}) \in Nat
        <4> DEFINE g == [j \in Before(r, n, z) |-> Free(r, taken, j)]
        <4>1. Earlier(r, n, taken, z) = SumFunctionOnSet(g, Before(r, n, z))
          BY DEF Earlier, SumFunction
        <4>2. \A j \in s \ {z} : g[j] = fr[j] /\ fr[j] \in Nat
          BY <1>2, <3>4
        <4>3. IsFiniteSet(s \ {z})
          BY <2>1, FS_RemoveElement
        <4> HIDE DEF g
        <4>4. SumFunctionOnSet(g, s \ {z}) = SumFunctionOnSet(fr, s \ {z})
          BY <4>2, <4>3, SumSame
        <4>5. SumFunctionOnSet(fr, s \ {z}) \in Nat
          BY <4>2, <4>3, SumNat
        <4> QED
          BY <3>4, <4>1, <4>4, <4>5
      <3>8. SumFunctionOnSet(sh, s) = sh[z] + SumFunctionOnSet(sh, s \ {z})
        <4>1. \A j \in s : sh[j] \in Int
          BY <1>2
        <4> QED
          BY <2>1, <4>1, SumRemove
      <3>9. SumFunctionOnSet(fr, s) = fr[z] + SumFunctionOnSet(fr, s \ {z})
        <4>1. \A j \in s : fr[j] \in Int
          BY <1>2
        <4> QED
          BY <2>1, <4>1, SumRemove
      <3>10. PICK a, b : a = fr[z] /\ b = SumFunctionOnSet(fr, s \ {z})
        OBVIOUS
      <3>11. sh[z] = Least(a, NonNeg(need - b))
        <4>1. Share(r, n, taken, z) = Least(Free(r, taken, z), NonNeg(Need(r, n).quantity - Earlier(r, n, taken, z)))
          BY <3>6, ShareIs DEF F
        <4>2. sh[z] = Share(r, n, taken, z) /\ a = Free(r, taken, z) /\ b = Earlier(r, n, taken, z)
          BY <1>2, <3>6, <3>7, <3>10
        <4> QED
          BY <1>3, <4>1, <4>2
      <3>12. a \in Nat /\ b \in Nat
        BY <1>2, <3>6, <3>7, <3>10
      <3>13. Least(a, NonNeg(need - b)) + Least(need, b) = Least(need, a + b)
        BY <3>12, LeastAdds
      <3>14. SumFunctionOnSet(sh, s) = Least(a, NonNeg(need - b)) + Least(need, b)
        BY <3>5, <3>8, <3>10, <3>11
      <3>15. SumFunctionOnSet(fr, s) = a + b
        BY <3>9, <3>10
      <3> QED
        BY <3>13, <3>14, <3>15
    <2> QED
      BY <2>2, <2>3
  <1>5. F \in T
    <2>1. T = SUBSET F
      <3> HIDE DEF T
      <3>1. T \subseteq SUBSET F
        BY DEF T
      <3> QED
        BY <1>1, <1>4, <3>1, SubsetInduction
    <2> HIDE DEF T
    <2> QED
      BY <2>1
  <1>6. SumFunctionOnSet(sh, F) = Least(need, SumFunctionOnSet(fr, F))
    BY <1>3, <1>5
  <1>7. PICK a, b : a = SumFunctionOnSet(sh, F) /\ b = SumFunctionOnSet(fr, F)
    OBVIOUS
  <1>8. a \in Nat /\ b \in Nat
    BY <1>1, <1>2, <1>7, SumNat
  <1>9. a <= need /\ (a = need \/ a = b)
    BY <1>6, <1>7, <1>8 DEF Least
  <1>10. a = b => \A i \in F : sh[i] = fr[i]
    <2> SUFFICES ASSUME a = b, NEW i \in F PROVE sh[i] = fr[i]
      OBVIOUS
    <2>1. \A j \in F : sh[j] \in Int /\ fr[j] \in Int /\ sh[j] <= fr[j]
      BY <1>2
    <2>2. SumFunctionOnSet(sh, F) = SumFunctionOnSet(fr, F)
      BY <1>7
    <2> HIDE DEF T, Closed
    <2> QED
      BY ONLY <1>1, <2>1, <2>2, i \in F, SumEqual
  <1>11. a = b => \A i \in F : Share(r, n, taken, i) = Free(r, taken, i)
    BY <1>2, <1>10
  <1>12. /\ IsFiniteSet(F) /\ F \subseteq view[r] /\ F \subseteq Items
         /\ SumFunctionOnSet(sh, F) \in Nat /\ SumFunctionOnSet(sh, F) <= Need(r, n).quantity
         /\ \/ SumFunctionOnSet(sh, F) = Need(r, n).quantity
            \/ \A i \in F : Share(r, n, taken, i) = Free(r, taken, i)
    BY <1>1, <1>3, <1>7, <1>8, <1>9, <1>11
  <1> QED
    BY <1>12 DEF F, sh

---------------------------------------------------------------------------
(* The rows of one line, and of one name.                                  *)
NewOf(r, n) == {x \in NewReservations(r) : x.line = n}
LinesOf(r, name) == {k \in DOMAIN menu[r] : menu[r][k].name = name}

LEMMA NewAreCounted ==
  ASSUME NEW r \in Reqs, Ready(r)
  PROVE  Counted(NewReservations(r)) /\ \A n : Counted(NewOf(r, n)) /\ Amount(NewOf(r, n)) \in Nat
  <1>1. IsFiniteSet(NewReservations(r))
    BY NewFinite
  <1>2. \A x \in NewReservations(r) : x \in Reservation
    BY NewReservationFields DEF Ready
  <1>3. \A x \in NewReservations(r) : x.quantity \in Nat
    BY <1>2 DEF Reservation
  <1>4. Counted(NewReservations(r))
    BY <1>1, <1>3 DEF Counted
  <1>5. \A n : NewOf(r, n) \subseteq NewReservations(r)
    BY DEF NewOf
  <1>6. \A n : Counted(NewOf(r, n))
    BY <1>4, <1>5, AmountIs
  <1> QED
    BY <1>4, <1>6, AmountNat

(* A new row is of an item that fits its line.                             *)
LEMMA NewFits ==
  ASSUME NEW r \in Reqs, Ready(r), NEW x \in NewReservations(r)
  PROVE  /\ x.line \in 1..Len(menu[r]) /\ x.line \in DOMAIN menu[r]
         /\ x.item \in Fitting(r, x.line) /\ NameOf[x.item] = menu[r][x.line].name
         /\ Share(r, x.line, Taken(r)[x.line - 1], x.item) \in Nat \ {0}
         /\ x = [plan |-> r, line |-> x.line, item |-> x.item,
                 quantity |-> Share(r, x.line, Taken(r)[x.line - 1], x.item)]
  <1>1. PICK p \in (1..Len(menu[r])) \X view[r] :
          /\ Taken(r)[p[1]][p[2]] - Taken(r)[p[1] - 1][p[2]] \in Nat \ {0}
          /\ x = [plan |-> r, line |-> p[1], item |-> p[2],
                  quantity |-> Taken(r)[p[1]][p[2]] - Taken(r)[p[1] - 1][p[2]]]
    BY NewRows
  <1>2. PICK n \in 1..Len(menu[r]), i \in view[r] : n = p[1] /\ i = p[2]
    BY <1>1
  <1>3. n \in DOMAIN menu[r] /\ i \in Items
    BY TakenFacts DEF Ready
  <1>4. /\ Taken(r)[n - 1] \in [Items -> Nat]
        /\ Taken(r)[n][i] - Taken(r)[n - 1][i] = Share(r, n, Taken(r)[n - 1], i)
    BY <1>2, <1>3, TakenGrows
  <1>5. Share(r, n, Taken(r)[n - 1], i) \in Nat \ {0} /\ x.line = n /\ x.item = i
    BY <1>1, <1>2, <1>4
  <1>6. i \in Fitting(r, n)
    BY <1>3, <1>4, <1>5, ShareBounds
  <1>7. NameOf[i] = menu[r][n].name
    BY <1>6 DEF Fitting, Candidates
  <1> QED
    BY <1>1, <1>2, <1>3, <1>4, <1>5, <1>6, <1>7

(* The rows of a line amount to the shares.                                *)
LEMMA LineRows ==
  ASSUME NEW r \in Reqs, Ready(r), NEW n \in 1..Len(menu[r])
  PROVE  Amount(NewOf(r, n)) = SumFunctionOnSet(SharesOf(r, n, Taken(r)[n - 1]), Fitting(r, n))
  <1> DEFINE taken == Taken(r)[n - 1]
             sh == SharesOf(r, n, taken)
             F == Fitting(r, n)
             P == {i \in F : sh[i] # 0}
             row == [i \in P |-> [plan |-> r, line |-> n, item |-> i, quantity |-> sh[i]]]
             q == [x \in NewReservations(r) |-> x.quantity]
  <1>1. taken \in [Items -> Nat] /\ n \in DOMAIN menu[r]
    <2>1. n \in DOMAIN menu[r] /\ n - 1 \in 0..Len(menu[r])
      BY TakenFacts
    <2> QED
      BY <2>1, TakenFacts
  <1>2. /\ IsFiniteSet(F) /\ F \subseteq view[r] /\ F \subseteq Items
        /\ \A i \in F : sh[i] \in Nat /\ sh[i] = Share(r, n, taken, i)
    <2> HIDE DEF taken
    <2>1. IsFiniteSet(F) /\ F \subseteq view[r] /\ F \subseteq Items
      BY <1>1, LineTakes
    <2>2. \A i \in Items : Share(r, n, taken, i) \in Nat
      BY <1>1, ShareBounds
    <2> QED
      BY <2>1, <2>2 DEF SharesOf
  <1>3. IsFiniteSet(P) /\ IsFiniteSet(F \ P) /\ P \cap (F \ P) = {} /\ P \cup (F \ P) = F
    BY <1>2, FS_Subset
  <1>4. NewOf(r, n) = {row[i] : i \in P}
    <2>1. ASSUME NEW x \in NewReservations(r), x.line = n PROVE \E i \in P : x = row[i]
      <3>1. /\ x.item \in Fitting(r, x.line)
            /\ Share(r, x.line, Taken(r)[x.line - 1], x.item) \in Nat \ {0}
            /\ x = [plan |-> r, line |-> x.line, item |-> x.item,
                    quantity |-> Share(r, x.line, Taken(r)[x.line - 1], x.item)]
        BY NewFits
      <3>2. PICK i : i = x.item
        OBVIOUS
      <3>3. i \in F /\ sh[i] = Share(r, x.line, Taken(r)[x.line - 1], x.item)
        BY <1>2, <2>1, <3>1, <3>2
      <3>4. i \in P
        BY <3>1, <3>3
      <3>5. x = row[i]
        BY <2>1, <3>1, <3>2, <3>3, <3>4
      <3> QED
        BY <3>4, <3>5
    <2>2. ASSUME NEW i \in P PROVE row[i] \in NewReservations(r) /\ row[i].line = n
      <3>1. i \in view[r] /\ i \in Items
        BY <1>2
      <3>2. Taken(r)[n][i] - Taken(r)[n - 1][i] = Share(r, n, Taken(r)[n - 1], i)
        BY <3>1, TakenGrows
      <3>3. sh[i] = Taken(r)[n][i] - Taken(r)[n - 1][i] /\ sh[i] \in Nat \ {0}
        BY <1>2, <3>2
      <3>4. <<n, i>> \in (1..Len(menu[r])) \X view[r] /\ <<n, i>>[1] = n /\ <<n, i>>[2] = i
        BY <3>1
      <3>5. PICK w : w = Taken(r)[n][i] - Taken(r)[n - 1][i]
        OBVIOUS
      <3>6. w \in Nat \ {0} /\ row[i] = [plan |-> r, line |-> n, item |-> i, quantity |-> w]
        BY <3>3, <3>5
      <3>7. [plan |-> r, line |-> n, item |-> i, quantity |-> w] \in NewReservations(r)
        <4> HIDE DEF P, row
        <4> QED
          BY <3>4, <3>5, <3>6, NewRows
      <3>8. row[i].line = n
        BY <3>6
      <3> HIDE DEF row
      <3> QED
        BY <3>6, <3>7, <3>8
    <2> HIDE DEF row, P
    <2> QED
      BY <2>1, <2>2 DEF NewOf
  <1>5. \A i \in P : row[i] \in NewReservations(r) /\ q[row[i]] = sh[i]
    <2>1. \A i \in P : row[i] \in NewReservations(r)
      <3> HIDE DEF row, P
      <3> QED
        BY <1>4 DEF NewOf
    <2>2. \A i \in P : row[i].quantity = sh[i]
      OBVIOUS
    <2> HIDE DEF row, P, sh
    <2> QED
      BY <2>1, <2>2
  <1>6. \A i, j \in P : row[i] = row[j] => i = j
    <2>1. \A i \in P : row[i].item = i
      OBVIOUS
    <2> HIDE DEF row, P
    <2> QED
      BY <2>1
  <1>7. Amount(NewOf(r, n)) = SumFunctionOnSet(q, NewOf(r, n))
    <2>1. NewOf(r, n) \subseteq NewReservations(r)
      BY DEF NewOf
    <2> QED
      BY <2>1, NewAreCounted, AmountIs
  <1>8. \A i \in P : sh[i] \in Int
    BY <1>2
  <1>9. \A i \in F : sh[i] \in Int
    BY <1>2
  <1>10. \A i \in F \ P : sh[i] = 0
    OBVIOUS
  <1> HIDE DEF taken, sh, F, P, row, q
  <1>11. SumFunctionOnSet(sh, P) = SumFunctionOnSet(q, {row[i] : i \in P})
    BY <1>3, <1>5, <1>6, <1>8, SumImage
  <1>12. SumFunctionOnSet(sh, P \cup (F \ P)) = SumFunctionOnSet(sh, P) + SumFunctionOnSet(sh, F \ P)
    <2>1. \A i \in P \cup (F \ P) : sh[i] \in Int
      BY <1>3, <1>9
    <2> QED
      BY <1>3, <2>1, SumUnion
  <1>13. SumFunctionOnSet(sh, F \ P) = 0
    BY <1>3, <1>10, SumOfZeros
  <1>14. SumFunctionOnSet(sh, P) \in Int
    BY <1>3, <1>8, SumInt
  <1>15. SumFunctionOnSet(sh, F) = SumFunctionOnSet(sh, P)
    <2>1. PICK a : a = SumFunctionOnSet(sh, P)
      OBVIOUS
    <2>2. P \cup (F \ P) = F
      BY <1>3
    <2>3. SumFunctionOnSet(sh, F) = a + SumFunctionOnSet(sh, F \ P)
      BY ONLY <1>12, <2>1, <2>2, Zenon
    <2>4. SumFunctionOnSet(sh, F) = a + 0
      BY ONLY <1>13, <2>3, Zenon
    <2>5. a \in Int
      BY <1>14, <2>1
    <2>6. a + 0 = a
      BY ONLY <2>5
    <2> QED
      BY ONLY <2>1, <2>4, <2>6, Zenon
  <1> QED
    BY <1>4, <1>7, <1>11, <1>15 DEF sh, F, taken

(* What is reserved of a name is what its lines have taken.                *)
LEMMA NameRows ==
  ASSUME NEW r \in Reqs, Ready(r), NEW name
  PROVE  /\ IsFiniteSet(LinesOf(r, name)) /\ LinesOf(r, name) \subseteq 1..Len(menu[r])
         /\ ReservedOfName(NewReservations(r), name) =
              SumFunctionOnSet([n \in LinesOf(r, name) |-> Amount(NewOf(r, n))], LinesOf(r, name))
  <1> DEFINE key == [x \in NewReservations(r) |-> x.line]
             L == LinesOf(r, name)
  <1>1. IsFiniteSet(L) /\ L \subseteq 1..Len(menu[r])
    <2>1. PICK last \in Nat : last = Len(menu[r]) /\ DOMAIN menu[r] = 1..last
      BY TakenFacts
    <2>2. L \subseteq 1..last
      BY <2>1 DEF LinesOf
    <2>3. IsFiniteSet(1..last)
      <3>1. 1 \in Int /\ last \in Int
        OBVIOUS
      <3> QED
        BY <3>1, FS_Interval
    <2> QED
      BY <2>1, <2>2, <2>3, FS_Subset
  <1>2. {x \in NewReservations(r) : NameOf[x.item] = name} = {x \in NewReservations(r) : key[x] \in L}
    BY NewFits DEF LinesOf
  <1>3. \A n : {x \in NewReservations(r) : key[x] = n} = NewOf(r, n)
    BY DEF NewOf
  <1> HIDE DEF key, L
  <1>4. Amount({x \in NewReservations(r) : key[x] \in L}) =
          SumFunctionOnSet([n \in L |-> Amount({x \in NewReservations(r) : key[x] = n})], L)
    BY <1>1, NewAreCounted, AmountByGroup
  <1>5. ReservedOfName(NewReservations(r), name) = SumFunctionOnSet([n \in L |-> Amount(NewOf(r, n))], L)
    BY <1>2, <1>3, <1>4 DEF ReservedOfName
  <1> QED
    BY <1>1, <1>5 DEF L

---------------------------------------------------------------------------
(* What a plan has reserved against what it needs and what there is.       *)

(* A line gets what it needs, or all that is free of what fits it.         *)
LEMMA LineGets ==
  ASSUME NEW r \in Reqs, Ready(r), NEW n \in 1..Len(menu[r])
  PROVE  /\ n \in DOMAIN menu[r] /\ Taken(r)[n - 1] \in [Items -> Nat]
         /\ Need(r, n).quantity \in Nat /\ Amount(NewOf(r, n)) \in Nat
         /\ Amount(NewOf(r, n)) <= Need(r, n).quantity
         /\ \/ Amount(NewOf(r, n)) = Need(r, n).quantity
            \/ \A i \in Fitting(r, n) : Share(r, n, Taken(r)[n - 1], i) = Free(r, Taken(r)[n - 1], i)
  <1>1. n \in DOMAIN menu[r] /\ n - 1 \in 0..Len(menu[r])
    BY TakenFacts
  <1>2. PICK taken : taken = Taken(r)[n - 1] /\ taken \in [Items -> Nat]
    BY <1>1, TakenFacts
  <1>3. Amount(NewOf(r, n)) = SumFunctionOnSet(SharesOf(r, n, taken), Fitting(r, n))
    BY <1>2, LineRows
  <1>4. Need(r, n).quantity \in Nat /\ Amount(NewOf(r, n)) \in Nat
    BY <1>1, NeedIsNat, NewAreCounted
  <1>5. /\ SumFunctionOnSet(SharesOf(r, n, taken), Fitting(r, n)) <= Need(r, n).quantity
        /\ \/ SumFunctionOnSet(SharesOf(r, n, taken), Fitting(r, n)) = Need(r, n).quantity
           \/ \A i \in Fitting(r, n) : Share(r, n, taken, i) = Free(r, taken, i)
    BY <1>1, <1>2, LineTakes
  <1> QED
    BY <1>1, <1>2, <1>3, <1>4, <1>5

(* The lines of a name have reserved no more than they need, and if less,  *)
(* then one of them has.                                                   *)
LEMMA WhatIsReserved ==
  ASSUME NEW r \in Reqs, Ready(r), NEW name
  PROVE  /\ Required(r, name) \in Nat /\ ReservedOfName(NewReservations(r), name) \in Nat
         /\ ReservedOfName(NewReservations(r), name) <= Required(r, name)
         /\ \/ ReservedOfName(NewReservations(r), name) = Required(r, name)
            \/ \E n \in LinesOf(r, name) : Amount(NewOf(r, n)) < Need(r, n).quantity
  <1> DEFINE L == LinesOf(r, name)
             made == [n \in L |-> Amount(NewOf(r, n))]
             needs == [n \in L |-> Need(r, n).quantity]
  <1>1. IsFiniteSet(L) /\ L \subseteq 1..Len(menu[r])
    BY NameRows
  <1>2. ReservedOfName(NewReservations(r), name) = SumFunctionOnSet(made, L)
    BY NameRows
  <1>3. Required(r, name) = SumFunctionOnSet(needs, L)
    <2>1. DOMAIN needs = L
      OBVIOUS
    <2>2. Required(r, name) = SumFunction(needs)
      BY DEF Required, LinesOf
    <2> HIDE DEF needs, L
    <2> QED
      BY <2>1, <2>2 DEF SumFunction
  <1>4. \A n \in L : /\ made[n] = Amount(NewOf(r, n)) /\ needs[n] = Need(r, n).quantity
                     /\ made[n] \in Nat /\ needs[n] \in Nat /\ made[n] <= needs[n]
    <2> TAKE n \in L
    <2>1. n \in 1..Len(menu[r])
      BY <1>1
    <2> QED
      BY <2>1, LineGets
  <1> HIDE DEF L, made, needs
  <1>5. SumFunctionOnSet(made, L) \in Nat /\ SumFunctionOnSet(needs, L) \in Nat
    BY <1>1, <1>4, SumNat
  <1>6. \A n \in L : made[n] \in Int /\ needs[n] \in Int /\ made[n] <= needs[n]
    BY <1>4
  <1>7. SumFunctionOnSet(made, L) <= SumFunctionOnSet(needs, L)
    BY ONLY <1>1, <1>6, SumLess
  <1>8. ASSUME \A n \in L : made[n] = needs[n]
        PROVE  SumFunctionOnSet(made, L) = SumFunctionOnSet(needs, L)
    BY ONLY <1>1, <1>8, SumSame
  <1>9. \A n \in L : made[n] = needs[n] \/ made[n] < needs[n]
    BY <1>4
  <1>10. SumFunctionOnSet(made, L) = SumFunctionOnSet(needs, L) \/ \E n \in L : made[n] < needs[n]
    BY ONLY <1>8, <1>9
  <1>11. (\E n \in L : made[n] < needs[n]) => \E n \in L : Amount(NewOf(r, n)) < Need(r, n).quantity
    BY <1>4
  <1>12. /\ Required(r, name) \in Nat /\ ReservedOfName(NewReservations(r), name) \in Nat
         /\ ReservedOfName(NewReservations(r), name) <= Required(r, name)
         /\ \/ ReservedOfName(NewReservations(r), name) = Required(r, name)
            \/ \E n \in L : Amount(NewOf(r, n)) < Need(r, n).quantity
    BY <1>2, <1>3, <1>5, <1>7, <1>10, <1>11
  <1> QED
    BY <1>12 DEF L

(* What there is of a name is the sum of what the candidates hold.         *)
LEMMA TotalIs ==
  ASSUME NEW r \in Reqs, Ready(r), NEW name
  PROVE  /\ IsFiniteSet(Candidates(r, name)) /\ Candidates(r, name) \subseteq view[r]
         /\ Candidates(r, name) \subseteq Items
         /\ Total(r, name) = SumFunctionOnSet([i \in Candidates(r, name) |-> Holds(r, i)], Candidates(r, name))
         /\ Total(r, name) \in Nat
  <1> DEFINE C == Candidates(r, name)
             holds == [i \in C |-> Holds(r, i)]
  <1>1. C \subseteq view[r] /\ C \subseteq Items
    BY DEF Candidates, Ready
  <1>2. IsFiniteSet(C)
    <2> HIDE DEF C
    <2> QED
      BY <1>1, FS_Subset, ReservationsAssumption
  <1>3. Total(r, name) = SumFunctionOnSet(holds, C)
    <2>1. DOMAIN holds = C
      OBVIOUS
    <2>2. Total(r, name) = SumFunction(holds)
      BY DEF Total, Holds
    <2> HIDE DEF holds, C
    <2> QED
      BY <2>1, <2>2 DEF SumFunction
  <1>4. \A i \in C : holds[i] \in Nat
    <2> TAKE i \in C
    <2>1. attrs[r][i] \in Row
      BY <1>1 DEF Ready
    <2>2. holds[i] = convert_to_base(attrs[r][i]).quantity
      BY DEF Holds
    <2> QED
      BY <2>1, <2>2, BaseQuantity
  <1> HIDE DEF C, holds
  <1>5. SumFunctionOnSet(holds, C) \in Nat
    BY <1>2, <1>4, SumNat
  <1>6. /\ IsFiniteSet(C) /\ C \subseteq view[r] /\ C \subseteq Items
        /\ Total(r, name) = SumFunctionOnSet(holds, C) /\ Total(r, name) \in Nat
    BY <1>1, <1>2, <1>3, <1>5
  <1> QED
    BY <1>6 DEF holds, C

(* If a line goes short, no other plan holds anything of its name, and the *)
(* plan itself has reserved all there is of it.                            *)
LEMMA ShortTakesAll ==
  ASSUME NEW r \in Reqs, Ready(r), NEW name, OneBaseUnit(r, name), ~Insufficient(r),
         NEW n \in LinesOf(r, name), Amount(NewOf(r, n)) < Need(r, n).quantity
  PROVE  Total(r, name) <= ReservedOfName(NewReservations(r), name)
  <1> DEFINE C == Candidates(r, name)
             holds == [i \in C |-> Holds(r, i)]
             made == [i \in C |-> Reserved(NewReservations(r), i)]
             key == [x \in NewReservations(r) |-> x.item]
  <1>1. n \in 1..Len(menu[r]) /\ n \in DOMAIN menu[r] /\ menu[r][n].name = name
    BY TakenFacts DEF LinesOf
  <1>2. /\ IsFiniteSet(C) /\ C \subseteq view[r] /\ C \subseteq Items
        /\ Total(r, name) = SumFunctionOnSet(holds, C)
    BY TotalIs
  <1>3. Fitting(r, n) = C
    BY <1>1 DEF Fitting, OneBaseUnit
  <1>4. \A i \in C : Share(r, n, Taken(r)[n - 1], i) = Free(r, Taken(r)[n - 1], i)
    <2>1. Amount(NewOf(r, n)) # Need(r, n).quantity
      BY <1>1, LineGets
    <2> QED
      BY <1>1, <1>3, <2>1, LineGets
  <1>5. \A i \in C : Reserved(seen[r], i) = 0
    <2>1. \A i \in C : ~(Reserved(seen[r], i) > 0)
      BY <1>1 DEF Insufficient, NewOf
    <2>2. \A i : Reserved(seen[r], i) \in Nat
      BY ReservedCounted DEF Ready
    <2> QED
      BY <2>1, <2>2
  <1>6. \A i \in C : Holds(r, i) \in Nat /\ Reserved(NewReservations(r), i) \in Nat
                     /\ Holds(r, i) <= Reserved(NewReservations(r), i)
    <2> TAKE i \in C
    <2>1. i \in view[r] /\ i \in Items
      BY <1>2
    <2>2. PICK last \in Nat : last = Len(menu[r]) /\ Taken(r)[0][i] = Reserved(seen[r], i)
      BY <2>1, TakenFacts
    <2>3. /\ Taken(r)[n - 1] \in [Items -> Nat] /\ n \in 0..Len(menu[r])
          /\ Taken(r)[n][i] \in Nat
          /\ Taken(r)[n][i] = Taken(r)[n - 1][i] + Share(r, n, Taken(r)[n - 1], i)
      BY <1>1, <2>1, TakenGrows
    <2>4. /\ Holds(r, i) \in Nat
          /\ Taken(r)[n - 1][i] + Free(r, Taken(r)[n - 1], i) >= Holds(r, i)
      BY <2>1, <2>3, FreeIsNat
    <2>5. Taken(r)[n][i] >= Holds(r, i)
      BY <1>4, <2>3, <2>4
    <2>6. last \in n..Len(menu[r]) /\ last \in 0..Len(menu[r])
      BY <1>1, <2>2
    <2>7. Taken(r)[n][i] <= Taken(r)[last][i]
      BY <2>1, <2>3, <2>6, TakenMonotone
    <2>8. Taken(r)[last][i] \in Nat
      <3>1. Taken(r)[last] \in [Items -> Nat]
        BY <2>6, TakenFacts
      <3> QED
        BY <2>1, <3>1
    <2>9. Reserved(NewReservations(r), i) = Taken(r)[last][i] - 0
      BY <1>5, <2>1, <2>2, NewAmount
    <2> QED
      BY <2>3, <2>4, <2>5, <2>7, <2>8, <2>9
  <1>7. \A i : {x \in NewReservations(r) : key[x] = i} = {x \in NewReservations(r) : x.item = i}
    OBVIOUS
  <1>8. {x \in NewReservations(r) : key[x] \in C} \subseteq {x \in NewReservations(r) : NameOf[x.item] = name}
    BY DEF Candidates
  <1>9. \A i \in C : holds[i] \in Int /\ made[i] \in Int /\ holds[i] <= made[i]
    <2> TAKE i \in C
    <2>1. holds[i] = Holds(r, i) /\ made[i] = Reserved(NewReservations(r), i)
      OBVIOUS
    <2>2. PICK a \in Nat, b \in Nat : a = Holds(r, i) /\ b = Reserved(NewReservations(r), i) /\ a <= b
      BY <1>6
    <2>3. holds[i] = a /\ made[i] = b
      BY <2>1, <2>2
    <2>4. a \in Int /\ b \in Int /\ a <= b
      BY <2>2
    <2> QED
      BY <2>3, <2>4
  <1>10. made = [i \in C |-> Amount({x \in NewReservations(r) : key[x] = i})]
    BY <1>7 DEF Reserved
  <1> HIDE DEF C, holds, made, key
  <1>11. Amount({x \in NewReservations(r) : key[x] \in C}) = SumFunctionOnSet(made, C)
    BY <1>2, <1>10, NewAreCounted, AmountByGroup
  <1>12. SumFunctionOnSet(holds, C) <= SumFunctionOnSet(made, C)
    <2>1. IsFiniteSet(C)
      BY <1>2
    <2> QED
      BY ONLY <1>9, <2>1, SumLess
  <1>13. SumFunctionOnSet(made, C) <= ReservedOfName(NewReservations(r), name)
    <2> DEFINE All == {x \in NewReservations(r) : NameOf[x.item] = name}
               Some == {x \in NewReservations(r) : key[x] \in C}
    <2>1. All \subseteq NewReservations(r) /\ Some \subseteq All
      BY <1>8
    <2>2. ReservedOfName(NewReservations(r), name) = Amount(All)
      BY DEF ReservedOfName
    <2>3. Amount(Some) = SumFunctionOnSet(made, C)
      BY <1>11
    <2> HIDE DEF All, Some
    <2>4. Counted(All)
      BY <2>1, NewAreCounted, AmountIs
    <2>5. Amount(Some) <= Amount(All)
      BY <2>1, <2>4, AmountSubset
    <2> QED
      BY <2>2, <2>3, <2>5
  <1>14. SumFunctionOnSet(holds, C) \in Int /\ SumFunctionOnSet(made, C) \in Int
    <2>1. \A i \in C : holds[i] \in Int /\ made[i] \in Int
      BY <1>9
    <2> QED
      BY <1>2, <2>1, SumInt
  <1>15. ReservedOfName(NewReservations(r), name) \in Nat
    BY WhatIsReserved
  <1> QED
    BY <1>2, <1>12, <1>13, <1>14, <1>15

---------------------------------------------------------------------------
(* The shopping list.                                                      *)

(* A step that leaves alone what the list of request q is made from and    *)
(* neither makes it nor answers q.                                         *)
Settled(q) ==
  /\ got'[q] = got[q] /\ listed'[q] = listed[q] /\ menu'[q] = menu[q]
  /\ attrs'[q] = attrs[q] /\ view'[q] = view[q]
  /\ pc'[q] = "reserved" => pc[q] = "reserved"
  /\ pc'[q] # "idle" /\ Planned(q)' => pc[q] # "idle" /\ Planned(q)

Unlisted(q) == pc'[q] \in {"loaded", "locked", "reserving"} /\ code'[q] = None

(* Every step settles a request, takes it to a stage before its list, or   *)
(* is one of the two that reserve and list.                                *)
LEMMA ListFrame ==
  ASSUME Shape, StagesInv, [Next]_vars, NEW q \in Reqs
  PROVE  Settled(q) \/ Unlisted(q) \/ reserve_plan(q) \/ list_gaps(q)
  <1> USE DEF Advance, Finish
  <1>a. /\ pc[q] = "idle" <=> call[q] = None
        /\ pc[q] \in {"idle", "loaded", "locked", "reserving", "reserved", "listed", "found", "deleted"} => code[q] = None
        /\ pc[q] \in {"found", "deleted"} => call[q].op = "delete"
    BY DEF StagesInv
  <1>1. ASSUME NEW r \in Reqs, NEW c \in Calls, Receive(r, c) PROVE Settled(q) \/ Unlisted(q)
    <2>1. CASE q = r
      BY <1>1, <1>a, <2>1 DEF Receive, Shape, Unlisted
    <2>2. CASE q # r
      BY <1>1, <2>2 DEF Receive, Shape, Settled, Planned
    <2> QED
      BY <2>1, <2>2
  <1>2. ASSUME NEW r \in Reqs, Replay(r) PROVE Settled(q)
    BY <1>2, <1>a DEF Replay, Shape, Settled, Planned, session
  <1>3. ASSUME NEW r \in Reqs, list_active_inventory(r) PROVE Settled(q) \/ Unlisted(q)
    <2>1. CASE q = r
      BY <1>3, <1>a, <2>1 DEF list_active_inventory, Calling, Shape, Unlisted
    <2>2. CASE q # r
      BY <1>3, <2>2 DEF list_active_inventory, Shape, Settled, Planned
    <2> QED
      BY <2>1, <2>2
  <1>4. ASSUME NEW r \in Reqs, no_matching_recipes(r) PROVE Settled(q)
    BY <1>4, <1>a DEF no_matching_recipes, Shape, Settled, Planned, session
  <1>5. ASSUME NEW r \in Reqs, NEW m \in Menus, generate_plan(r, m) PROVE Settled(q) \/ Unlisted(q)
    <2>1. CASE q = r
      BY <1>5, <1>a, <2>1 DEF generate_plan, Shape, Unlisted
    <2>2. CASE q # r
      BY <1>5, <2>2 DEF generate_plan, Shape, Settled, Planned
    <2> QED
      BY <2>1, <2>2
  <1>6. ASSUME NEW r \in Reqs, refuse_plan(r) PROVE Settled(q)
    BY <1>6, <1>a DEF refuse_plan, Shape, Settled, Planned, session
  <1>7. ASSUME NEW r \in Reqs, reserve_plan(r) PROVE Settled(q) \/ reserve_plan(q)
    <2>1. CASE q = r
      BY <1>7, <2>1
    <2>2. CASE q # r
      BY <1>7, <2>2 DEF reserve_plan, Shape, Settled, Planned
    <2> QED
      BY <2>1, <2>2
  <1>8. ASSUME NEW r \in Reqs, list_gaps(r) PROVE Settled(q) \/ list_gaps(q)
    <2>1. CASE q = r
      BY <1>8, <2>1
    <2>2. CASE q # r
      BY <1>8, <2>2 DEF list_gaps, Shape, Settled, Planned
    <2> QED
      BY <2>1, <2>2
  <1>9. ASSUME NEW r \in Reqs, find_plan(r) PROVE Settled(q)
    BY <1>9, <1>a DEF find_plan, Calling, Shape, Settled, Planned, session
  <1>10. ASSUME NEW r \in Reqs, delete_plan(r) PROVE Settled(q)
    BY <1>10, <1>a DEF delete_plan, Shape, Settled, Planned, session
  <1>11. ASSUME NEW r \in Reqs, respond(r) PROVE Settled(q)
    <2>1. CASE q = r
      BY <1>11, <1>a, <2>1 DEF respond, Shape, Settled, Planned, session
    <2>2. CASE q # r
      BY <1>11, <2>2 DEF respond, Shape, Settled, Planned, session
    <2> QED
      BY <2>1, <2>2
  <1>12. ASSUME NEW r \in Reqs, die(r) PROVE Settled(q)
    BY <1>12, <1>a DEF die, Shape, Settled, Planned, session
  <1>13. ASSUME NEW i \in Items, NEW row \in Row, write_item(i, row) PROVE Settled(q)
    BY <1>13 DEF write_item, Settled, Planned, session
  <1>14. ASSUME NEW i \in Items, remove_item(i) PROVE Settled(q)
    BY <1>14 DEF remove_item, Settled, Planned, session
  <1>15. CASE UNCHANGED vars
    BY <1>15 DEF vars, Settled, Planned, session
  <1> QED
    BY <1>1, <1>2, <1>3, <1>4, <1>5, <1>6, <1>7, <1>8, <1>9, <1>10, <1>11, <1>12, <1>13, <1>14, <1>15 DEF Next, Step

(* What is measured for a request stays what it is as long as the request *)
(* plans the same from the same items.                                     *)
LEMMA MeasuresKept ==
  ASSUME NEW q \in Reqs, menu'[q] = menu[q], attrs'[q] = attrs[q], view'[q] = view[q], NEW name
  PROVE  /\ Required(q, name)' = Required(q, name) /\ Total(q, name)' = Total(q, name)
         /\ OneBaseUnit(q, name)' = OneBaseUnit(q, name)
  <1>1. Candidates(q, name)' = Candidates(q, name)
    BY DEF Candidates
  <1>2. \A n : Need(q, n)' = Need(q, n)
    BY DEF Need
  <1>4. Required(q, name)' = Required(q, name)
    BY <1>2 DEF Required
  <1>5. Total(q, name)' = Total(q, name)
    BY <1>1 DEF Total
  <1>6. OneBaseUnit(q, name)' = OneBaseUnit(q, name)
    BY <1>1, <1>2 DEF OneBaseUnit
  <1> QED
    BY <1>4, <1>5, <1>6

(* Before the first write to an item nothing has happened to the items,    *)
(* and a plan comes about only where one reserves.                         *)
LEMMA ItemsFrame ==
  ASSUME Shape, [Next]_vars
  PROVE  /\ writes' = 0 => writes = 0 /\ stock' = stock /\ most' = most
         /\ \A q \in Reqs : q \in plans' => q \in plans \/ reserve_plan(q)
         /\ reservations' = reservations \/ (\E r \in Reqs : reserve_plan(r) \/ delete_plan(r))
  <1> USE DEF Advance, Finish
  <1>a. writes \in Nat
    BY DEF Shape
  <1> DEFINE Quiet == UNCHANGED <<stock, most, writes, plans, reservations>>
             Goal == /\ writes' = 0 => writes = 0 /\ stock' = stock /\ most' = most
                     /\ \A q \in Reqs : q \in plans' => q \in plans \/ reserve_plan(q)
                     /\ reservations' = reservations \/ (\E r \in Reqs : reserve_plan(r) \/ delete_plan(r))
  <1>b. ASSUME Quiet PROVE Goal
    BY <1>b
  <1>1. ASSUME NEW r \in Reqs, NEW c \in Calls, Receive(r, c) PROVE Goal
    BY <1>1, <1>b DEF Receive
  <1>2. ASSUME NEW r \in Reqs, Replay(r) PROVE Goal
    BY <1>2, <1>b DEF Replay
  <1>3. ASSUME NEW r \in Reqs, list_active_inventory(r) PROVE Goal
    BY <1>3, <1>b DEF list_active_inventory
  <1>4. ASSUME NEW r \in Reqs, no_matching_recipes(r) PROVE Goal
    BY <1>4, <1>b DEF no_matching_recipes
  <1>5. ASSUME NEW r \in Reqs, NEW m \in Menus, generate_plan(r, m) PROVE Goal
    BY <1>5, <1>b DEF generate_plan
  <1>6. ASSUME NEW r \in Reqs, refuse_plan(r) PROVE Goal
    BY <1>6, <1>b DEF refuse_plan
  <1>7. ASSUME NEW r \in Reqs, reserve_plan(r) PROVE Goal
    <2>1. UNCHANGED <<stock, most, writes>> /\ plans' = plans \cup {r}
      BY <1>7 DEF reserve_plan
    <2> QED
      BY <1>7, <2>1
  <1>8. ASSUME NEW r \in Reqs, list_gaps(r) PROVE Goal
    BY <1>8, <1>b DEF list_gaps
  <1>9. ASSUME NEW r \in Reqs, find_plan(r) PROVE Goal
    BY <1>9, <1>b DEF find_plan
  <1>10. ASSUME NEW r \in Reqs, delete_plan(r) PROVE Goal
    <2>1. UNCHANGED <<stock, most, writes>> /\ plans' \subseteq plans
      BY <1>10 DEF delete_plan
    <2> QED
      BY <1>10, <2>1
  <1>11. ASSUME NEW r \in Reqs, respond(r) PROVE Goal
    BY <1>11, <1>b DEF respond
  <1>12. ASSUME NEW r \in Reqs, die(r) PROVE Goal
    BY <1>12, <1>b DEF die
  <1>13. ASSUME NEW i \in Items, NEW row \in Row, write_item(i, row) PROVE Goal
    BY <1>13, <1>a DEF write_item
  <1>14. ASSUME NEW i \in Items, remove_item(i) PROVE Goal
    BY <1>14, <1>a DEF remove_item
  <1>15. CASE UNCHANGED vars
    BY <1>15, <1>b DEF vars
  <1>16. CASE Next
    <2>1. ASSUME NEW r \in Reqs, Step(r) PROVE Goal
      BY <2>1, <1>2, <1>3, <1>4, <1>5, <1>6, <1>7, <1>8, <1>9, <1>10, <1>11 DEF Step
    <2> QED
      BY <1>16, <2>1, <1>1, <1>12, <1>13, <1>14 DEF Next
  <1>17. Goal
    BY <1>15, <1>16
  <1> QED
    BY <1>17 DEF Goal

(* What a plan has reserved, once it has, keeps within what it needs.      *)
LEMMA MadeStep == Shape /\ StagesInv /\ AmountsInv /\ MadeInv /\ [Next]_vars => MadeInv'
  <1> SUFFICES ASSUME Shape, StagesInv, AmountsInv, MadeInv, [Next]_vars, NEW q \in Reqs, pc'[q] = "reserved"
               PROVE  /\ IsFiniteSet(got'[q])
                      /\ \A name \in Names :
                           /\ ReservedOfName(got'[q], name) <= Required(q, name)'
                           /\ OneBaseUnit(q, name)' =>
                                \/ Required(q, name)' <= ReservedOfName(got'[q], name)
                                \/ Total(q, name)' <= ReservedOfName(got'[q], name)
    BY DEF MadeInv
  <1>1. CASE Settled(q)
    <2>1. pc[q] = "reserved" /\ got'[q] = got[q]
      BY <1>1 DEF Settled
    <2>2. menu'[q] = menu[q] /\ attrs'[q] = attrs[q] /\ view'[q] = view[q]
      BY <1>1 DEF Settled
    <2>3. \A name : /\ Required(q, name)' = Required(q, name) /\ Total(q, name)' = Total(q, name)
                    /\ OneBaseUnit(q, name)' = OneBaseUnit(q, name)
      BY <2>2, MeasuresKept
    <2>4. /\ IsFiniteSet(got[q])
          /\ \A name \in Names :
               /\ ReservedOfName(got[q], name) <= Required(q, name)
               /\ OneBaseUnit(q, name) => \/ Required(q, name) <= ReservedOfName(got[q], name)
                                          \/ Total(q, name) <= ReservedOfName(got[q], name)
      BY <2>1 DEF MadeInv
    <2> QED
      BY <2>1, <2>3, <2>4
  <1>2. CASE reserve_plan(q)
    <2>1. /\ pc[q] = "reserving" /\ ~Insufficient(q) /\ got'[q] = NewReservations(q)
          /\ menu'[q] = menu[q] /\ attrs'[q] = attrs[q] /\ view'[q] = view[q]
      BY <1>2 DEF reserve_plan, Shape
    <2>2. Ready(q)
      BY <2>1, IsReady
    <2>3. IsFiniteSet(NewReservations(q))
      BY <2>2, NewFinite
    <2>4. \A name : /\ Required(q, name)' = Required(q, name) /\ Total(q, name)' = Total(q, name)
                    /\ OneBaseUnit(q, name)' = OneBaseUnit(q, name)
      BY <2>1, MeasuresKept
    <2>5. ASSUME NEW name \in Names
          PROVE  /\ ReservedOfName(NewReservations(q), name) <= Required(q, name)
                 /\ OneBaseUnit(q, name) =>
                      \/ Required(q, name) <= ReservedOfName(NewReservations(q), name)
                      \/ Total(q, name) <= ReservedOfName(NewReservations(q), name)
      <3>1. /\ Required(q, name) \in Nat
            /\ ReservedOfName(NewReservations(q), name) <= Required(q, name)
            /\ \/ ReservedOfName(NewReservations(q), name) = Required(q, name)
               \/ \E n \in LinesOf(q, name) : Amount(NewOf(q, n)) < Need(q, n).quantity
        BY <2>2, WhatIsReserved
      <3>2. CASE ReservedOfName(NewReservations(q), name) = Required(q, name)
        BY <3>1, <3>2
      <3>3. CASE \E n \in LinesOf(q, name) : Amount(NewOf(q, n)) < Need(q, n).quantity
        <4>1. OneBaseUnit(q, name) => Total(q, name) <= ReservedOfName(NewReservations(q), name)
          BY <2>1, <2>2, <3>3, ShortTakesAll
        <4> QED
          BY <3>1, <4>1
      <3> QED
        BY <3>1, <3>2, <3>3
    <2> QED
      BY <2>1, <2>3, <2>4, <2>5
  <1>3. ~Unlisted(q)
    BY DEF Unlisted
  <1>4. ~list_gaps(q)
    BY DEF list_gaps, Advance, Shape
  <1> QED
    BY <1>1, <1>2, <1>3, <1>4, ListFrame

(* What a plan has reserved stays until the plan is deleted.               *)
LEMMA GotStep ==
  Shape /\ Shape' /\ StagesInv /\ PlansInv /\ AmountsInv /\ AmountsInv' /\ GotInv /\ [Next]_vars => GotInv'
  <1> SUFFICES ASSUME Shape, Shape', StagesInv, PlansInv, AmountsInv, AmountsInv', GotInv, [Next]_vars,
                      NEW q \in plans', NEW x \in got'[q]
               PROVE  x \in reservations'
    BY DEF GotInv
  <1>0. q \in Reqs
    BY DEF Shape
  <1>1. CASE reserve_plan(q)
    BY <1>0, <1>1 DEF reserve_plan, Shape
  <1>2. CASE ~reserve_plan(q) /\ got'[q] = got[q]
    <2>1. q \in plans
      BY <1>0, <1>2, ItemsFrame
    <2>2. x \in reservations /\ x.plan = q
      BY <1>0, <1>2, <2>1 DEF GotInv, PlansInv
    <2>3. ASSUME NEW r \in Reqs, reserve_plan(r) PROVE x \in reservations'
      BY <2>2, <2>3 DEF reserve_plan
    <2>4. ASSUME NEW r \in Reqs, delete_plan(r) PROVE x \in reservations'
      BY <2>2, <2>4 DEF delete_plan
    <2> QED
      BY <2>2, <2>3, <2>4, ItemsFrame
  <1>3. CASE Unlisted(q)
    BY <1>0, <1>3 DEF Unlisted, AmountsInv
  <1>4. CASE list_gaps(q)
    <2>1. got'[q] = got[q] /\ pc[q] = "reserved"
      BY <1>4 DEF list_gaps
    <2> QED
      BY <1>1, <1>2, <2>1
  <1>5. CASE Settled(q)
    BY <1>1, <1>2, <1>5 DEF Settled
  <1> QED
    BY <1>0, <1>1, <1>3, <1>4, <1>5, ListFrame

(* What a step makes of the attributes a session holds, and of the items   *)
(* a request has found.                                                    *)
LEMMA SessionFrame ==
  ASSUME Shape, [Next]_vars, NEW q \in Reqs
  PROVE  \/ list_active_inventory(q)
         \/ /\ \A i \in Items : attrs'[q][i] = attrs[q][i] \/ attrs'[q][i] = stock[i]
            /\ pc'[q] \in {"locked", "reserving", "reserved"} =>
                 pc[q] \in {"locked", "reserving", "reserved"} /\ view'[q] = view[q]
  <1> DEFINE Stays == /\ \A i \in Items : attrs'[q][i] = attrs[q][i] \/ attrs'[q][i] = stock[i]
                      /\ pc'[q] \in {"locked", "reserving", "reserved"} =>
                           pc[q] \in {"locked", "reserving", "reserved"} /\ view'[q] = view[q]
             Holding == pc[q] \in {"locked", "reserving", "reserved"}
  <1> USE DEF Advance, Finish
  <1>a. ASSUME attrs' = attrs, view' = view, pc'[q] \in {"locked", "reserving", "reserved"} => Holding PROVE Stays
    BY <1>a
  <1>1. ASSUME NEW r \in Reqs, NEW c \in Calls, Receive(r, c) PROVE Stays
    BY <1>1 DEF Receive, Shape
  <1>2. ASSUME NEW r \in Reqs, Replay(r) PROVE Stays
    BY <1>2 DEF Replay, Shape, session
  <1>3. ASSUME NEW r \in Reqs, list_active_inventory(r) PROVE list_active_inventory(q) \/ Stays
    <2>1. CASE q = r
      BY <1>3, <2>1
    <2>2. CASE q # r
      BY <1>3, <2>2 DEF list_active_inventory, Shape
    <2> QED
      BY <2>1, <2>2
  <1>4. ASSUME NEW r \in Reqs, no_matching_recipes(r) PROVE Stays
    BY <1>4 DEF no_matching_recipes, Shape, session
  <1>5. ASSUME NEW r \in Reqs, NEW m \in Menus, generate_plan(r, m) PROVE Stays
    BY <1>5 DEF generate_plan, Shape
  <1>6. ASSUME NEW r \in Reqs, refuse_plan(r) PROVE Stays
    BY <1>6 DEF refuse_plan, Shape, session
  <1>7. ASSUME NEW r \in Reqs, reserve_plan(r) PROVE Stays
    BY <1>7 DEF reserve_plan, Shape
  <1>8. ASSUME NEW r \in Reqs, list_gaps(r) PROVE Stays
    BY <1>8 DEF list_gaps, Shape
  <1>9. ASSUME NEW r \in Reqs, find_plan(r) PROVE Stays
    BY <1>9 DEF find_plan, Shape, session
  <1>10. ASSUME NEW r \in Reqs, delete_plan(r) PROVE Stays
    BY <1>10 DEF delete_plan, Shape, session
  <1>11. ASSUME NEW r \in Reqs, respond(r) PROVE Stays
    BY <1>11 DEF respond, Shape, session
  <1>12. ASSUME NEW r \in Reqs, die(r) PROVE Stays
    BY <1>12 DEF die, Shape, session
  <1>13. ASSUME NEW i \in Items, NEW row \in Row, write_item(i, row) PROVE Stays
    BY <1>13 DEF write_item, session
  <1>14. ASSUME NEW i \in Items, remove_item(i) PROVE Stays
    BY <1>14 DEF remove_item, session
  <1>15. CASE UNCHANGED vars
    BY <1>15 DEF vars, session
  <1> QED
    BY <1>1, <1>2, <1>3, <1>4, <1>5, <1>6, <1>7, <1>8, <1>9, <1>10, <1>11, <1>12, <1>13, <1>14, <1>15 DEF Next, Step

(* Until the first edit, every session sees the items as they are.         *)
LEMMA UneditedInit == Init => UneditedInv
  BY DEF Init, UneditedInv, NoItem

LEMMA UneditedStep == Shape /\ StagesInv /\ AmountsInv /\ UneditedInv /\ [Next]_vars => UneditedInv'
  <1> SUFFICES ASSUME Shape, StagesInv, AmountsInv, UneditedInv, [Next]_vars, writes' = 0
               PROVE  /\ \A i \in Items : stock'[i] # None => /\ stock'[i].status = "active"
                                                             /\ most'[i] = convert_to_base(stock'[i]).quantity
                      /\ \A r \in Reqs : \A i \in Items : attrs'[r][i] # None => attrs'[r][i] = stock'[i]
                      /\ \A r \in Reqs : pc'[r] \in {"locked", "reserving", "reserved"} =>
                                           view'[r] = {i \in Items : stock'[i] # None}
                      /\ \A x \in reservations' : stock'[x.item] # None
    BY DEF UneditedInv
  <1>1. writes = 0 /\ stock' = stock /\ most' = most
    BY ItemsFrame
  <1>2. /\ \A i \in Items : stock[i] # None => /\ stock[i].status = "active"
                                              /\ most[i] = convert_to_base(stock[i]).quantity
        /\ \A r \in Reqs : \A i \in Items : attrs[r][i] # None => attrs[r][i] = stock[i]
        /\ \A r \in Reqs : pc[r] \in {"locked", "reserving", "reserved"} =>
                             view[r] = {i \in Items : stock[i] # None}
        /\ \A x \in reservations : stock[x.item] # None
    BY <1>1 DEF UneditedInv
  <1>3. \A i \in Items : stock'[i] # None => /\ stock'[i].status = "active"
                                            /\ most'[i] = convert_to_base(stock'[i]).quantity
    BY <1>1, <1>2
  <1>4. ASSUME NEW q \in Reqs
        PROVE  /\ \A i \in Items : attrs'[q][i] # None => attrs'[q][i] = stock'[i]
               /\ pc'[q] \in {"locked", "reserving", "reserved"} => view'[q] = {i \in Items : stock'[i] # None}
    <2>1. CASE list_active_inventory(q)
      <3>1. attrs'[q] = Loaded(q) /\ view'[q] = Usable
        BY <2>1 DEF list_active_inventory, Shape
      <3>2. Usable = {i \in Items : stock[i] # None}
        BY <1>2 DEF Usable
      <3>3. \A i \in Items : Loaded(q)[i] # None => Loaded(q)[i] = stock[i]
        BY <1>2 DEF Loaded
      <3> QED
        BY <1>1, <3>1, <3>2, <3>3
    <2>2. CASE /\ \A i \in Items : attrs'[q][i] = attrs[q][i] \/ attrs'[q][i] = stock[i]
               /\ pc'[q] \in {"locked", "reserving", "reserved"} =>
                    pc[q] \in {"locked", "reserving", "reserved"} /\ view'[q] = view[q]
      BY <1>1, <1>2, <2>2
    <2> QED
      BY <2>1, <2>2, SessionFrame
  <1>5. ASSUME NEW x \in reservations' PROVE stock'[x.item] # None
    <2>1. ASSUME NEW r \in Reqs, reserve_plan(r) PROVE x \in reservations \/ x.item \in view[r]
      <3>1. view[r] \subseteq Items
        BY DEF Shape
      <3> QED
        BY <2>1, <3>1, NewReservationFields DEF reserve_plan
    <2>2. ASSUME NEW r \in Reqs, reserve_plan(r) PROVE view[r] = {i \in Items : stock[i] # None}
      BY <1>2, <2>2 DEF reserve_plan
    <2>3. ASSUME NEW r \in Reqs, delete_plan(r) PROVE x \in reservations
      BY <2>3 DEF delete_plan
    <2> QED
      BY <1>1, <1>2, <2>1, <2>2, <2>3, ItemsFrame
  <1> QED
    BY <1>3, <1>4, <1>5

(* The arithmetic of the shopping list: required, reserved for the plan,   *)
(* there in all, and reserved for others.                                  *)
LEMMA GapsProvide ==
  ASSUME NEW required \in Nat, NEW own \in Nat, NEW total \in Nat, NEW other \in Nat
  PROVE  /\ NonNeg(required - NonNeg(total - other)) \in Nat
         /\ required <= own \/ total <= own => required <= own + NonNeg(required - NonNeg(total - other))
         /\ own <= required /\ own + other <= total => own + NonNeg(required - NonNeg(total - other)) <= required
  BY DEF NonNeg

(* Until the first edit, what a plan and all others have reserved of a name*)
(* is no more than the plan has seen of it.                                *)
LEMMA OthersLeaveRoom ==
  ASSUME Shape, AmountsInv, PlansInv, UneditedInv, ReservedWithinMost, writes = 0,
         NEW r \in Reqs, pc[r] = "reserved", got[r] \subseteq reservations, NEW name
  PROVE  /\ ReservedOfName(got[r], name) \in Nat
         /\ ReservedOfName({x \in reservations : x.plan # r}, name) \in Nat
         /\ ReservedOfName(got[r], name) + ReservedOfName({x \in reservations : x.plan # r}, name) <= Total(r, name)
  <1> DEFINE C == Candidates(r, name)
             key == [x \in reservations |-> x.item]
             held == [i \in C |-> Reserved(reservations, i)]
             holds == [i \in C |-> Holds(r, i)]
             All == {x \in reservations : NameOf[x.item] = name}
             Own == {x \in got[r] : NameOf[x.item] = name}
             Others == {x \in {x \in reservations : x.plan # r} : NameOf[x.item] = name}
  <1>1. Ready(r)
    BY IsReady
  <1>2. Counted(reservations)
    BY DEF Shape, AmountsInv, Counted, Reservation
  <1>3. All \subseteq reservations /\ Own \subseteq All /\ Others \subseteq All /\ Own \cap Others = {}
    BY DEF PlansInv
  <1>4. /\ ReservedOfName(got[r], name) = Amount(Own)
        /\ ReservedOfName({x \in reservations : x.plan # r}, name) = Amount(Others)
    BY DEF ReservedOfName
  <1>5. view[r] = {i \in Items : stock[i] # None}
    BY DEF UneditedInv
  <1>6. \A i \in view[r] : attrs[r][i] = stock[i] /\ stock[i].status = "active" /\ Holds(r, i) = most[i] /\ i \in Items
    <2> TAKE i \in view[r]
    <2>1. i \in Items /\ stock[i] # None /\ attrs[r][i] # None
      BY <1>5 DEF AmountsInv
    <2> QED
      BY <2>1 DEF UneditedInv, Holds
  <1>7. \A x \in reservations : x.item \in view[r]
    BY <1>5 DEF UneditedInv, Shape, Reservation
  <1>8. All = {x \in reservations : key[x] \in C}
    BY <1>6, <1>7 DEF Candidates
  <1>9. held = [i \in C |-> Amount({x \in reservations : key[x] = i})]
    <2>1. \A i : {x \in reservations : key[x] = i} = {x \in reservations : x.item = i}
      OBVIOUS
    <2> QED
      BY <2>1 DEF Reserved
  <1>10. /\ IsFiniteSet(C) /\ C \subseteq view[r]
         /\ Total(r, name) = SumFunctionOnSet(holds, C) /\ Total(r, name) \in Nat
    BY <1>1, TotalIs
  <1>11. \A i \in C : held[i] \in Int /\ holds[i] \in Int /\ held[i] <= holds[i]
    <2> TAKE i \in C
    <2>1. held[i] = Reserved(reservations, i) /\ holds[i] = Holds(r, i)
      OBVIOUS
    <2>2. i \in Items /\ Holds(r, i) = most[i]
      BY <1>6, <1>10
    <2>3. Reserved(reservations, i) \in Nat /\ most[i] \in Nat /\ Reserved(reservations, i) <= most[i]
      BY <2>2, ReservedCounted DEF Shape, AmountsInv, ReservedWithinMost
    <2>4. PICK a \in Nat, b \in Nat : a = Reserved(reservations, i) /\ b = most[i] /\ a <= b
      BY <2>3
    <2>5. held[i] = a /\ holds[i] = b
      BY <2>1, <2>2, <2>4
    <2>6. a \in Int /\ b \in Int /\ a <= b
      BY <2>4
    <2> QED
      BY <2>5, <2>6
  <1> HIDE DEF C, key, held, holds, All, Own, Others
  <1>12. Amount(All) = SumFunctionOnSet(held, C)
    BY <1>2, <1>8, <1>9, <1>10, AmountByGroup
  <1>13. SumFunctionOnSet(held, C) <= SumFunctionOnSet(holds, C)
    <2>1. IsFiniteSet(C)
      BY <1>10
    <2> QED
      BY ONLY <1>11, <2>1, SumLess
  <1>14. Counted(All) /\ Counted(Own) /\ Counted(Others)
    <2>1. All \subseteq reservations /\ Own \subseteq reservations /\ Others \subseteq reservations
      BY <1>3
    <2> QED
      BY <1>2, <2>1, AmountIs
  <1>15. Amount(Own \cup Others) = Amount(Own) + Amount(Others)
    BY <1>3, <1>14, AmountUnion
  <1>16. Amount(Own \cup Others) <= Amount(All)
    <2>1. Own \cup Others \subseteq All
      BY <1>3
    <2> QED
      BY <1>14, <2>1, AmountSubset
  <1>17. PICK a, b, c, d : /\ a = Amount(Own) /\ b = Amount(Others) /\ c = Amount(All) /\ d = Total(r, name)
    OBVIOUS
  <1>18. a \in Nat /\ b \in Nat /\ c \in Nat /\ d \in Nat
    BY <1>10, <1>14, <1>17, AmountNat
  <1>19. a + b <= c
    BY <1>15, <1>16, <1>17
  <1>20. c <= d
    BY <1>10, <1>12, <1>13, <1>17
  <1>21. a + b <= d
    BY ONLY <1>18, <1>19, <1>20
  <1> QED
    BY <1>4, <1>17, <1>18, <1>21

(* Making the list makes it exact.                                         *)
LEMMA ListMade ==
  ASSUME Shape, TypeOK, AmountsInv, PlansInv, MadeInv, GotInv, UneditedInv, ReservedWithinMost,
         NEW r \in Reqs, list_gaps(r), NEW name \in Names
  PROVE  /\ OneBaseUnit(r, name) => Required(r, name) <= ReservedOfName(got[r], name) + listed'[r][name]
         /\ writes = 0 /\ r \in plans =>
              ReservedOfName(got[r], name) + listed'[r][name] <= Required(r, name)
  <1> DEFINE rest == {x \in reservations : x.plan # r}
  <1>1. pc[r] = "reserved" /\ listed'[r] = derive_shopping_list(r)
    BY DEF list_gaps, TypeOK
  <1>2. derive_shopping_list(r)[name] =
          NonNeg(Required(r, name) - NonNeg(Total(r, name) - ReservedOfName(rest, name)))
    BY DEF derive_shopping_list
  <1>3. Ready(r)
    BY <1>1, IsReady
  <1>4. Required(r, name) \in Nat /\ Total(r, name) \in Nat
    BY <1>3, WhatIsReserved, TotalIs
  <1>5. ReservedOfName(rest, name) \in Nat
    <2>1. Counted({x \in rest : NameOf[x.item] = name})
      <3>1. Counted(reservations)
        BY DEF Shape, AmountsInv, Counted, Reservation
      <3>2. {x \in rest : NameOf[x.item] = name} \subseteq reservations
        OBVIOUS
      <3> HIDE DEF rest
      <3> QED
        BY <3>1, <3>2, AmountIs
    <2> HIDE DEF rest
    <2> QED
      BY <2>1, AmountNat DEF ReservedOfName
  <1>6. ReservedOfName(got[r], name) \in Nat
    <2>1. IsFiniteSet(got[r]) /\ got[r] \subseteq Reservation
      BY <1>1 DEF MadeInv, Shape
    <2>2. IsFiniteSet({x \in got[r] : NameOf[x.item] = name})
      BY <2>1, FS_Subset
    <2>3. Counted({x \in got[r] : NameOf[x.item] = name})
      BY <2>1, <2>2 DEF Counted, Reservation
    <2> QED
      BY <2>3, AmountNat DEF ReservedOfName
  <1>7. PICK required \in Nat, own \in Nat, total \in Nat, other \in Nat :
          /\ required = Required(r, name) /\ own = ReservedOfName(got[r], name)
          /\ total = Total(r, name) /\ other = ReservedOfName(rest, name)
    BY <1>4, <1>5, <1>6
  <1>8. listed'[r][name] = NonNeg(required - NonNeg(total - other))
    BY <1>1, <1>2, <1>7
  <1>9. own <= required /\ (OneBaseUnit(r, name) => required <= own \/ total <= own)
    BY <1>1, <1>7 DEF MadeInv
  <1>10. writes = 0 /\ r \in plans => own + other <= total
    <2> SUFFICES ASSUME writes = 0, r \in plans PROVE own + other <= total
      OBVIOUS
    <2>1. got[r] \subseteq reservations
      BY DEF GotInv
    <2>2. ReservedOfName(got[r], name) + ReservedOfName(rest, name) <= Total(r, name)
      BY <1>1, <2>1, OthersLeaveRoom
    <2> QED
      BY <1>7, <2>2
  <1>11. /\ required <= own \/ total <= own => required <= own + NonNeg(required - NonNeg(total - other))
         /\ own <= required /\ own + other <= total => own + NonNeg(required - NonNeg(total - other)) <= required
    BY <1>7, GapsProvide
  <1> HIDE DEF rest
  <1>12. OneBaseUnit(r, name) => required <= own + listed'[r][name]
    BY <1>8, <1>9, <1>11
  <1>13. writes = 0 /\ r \in plans => own + listed'[r][name] <= required
    BY <1>8, <1>9, <1>10, <1>11
  <1> QED
    BY <1>7, <1>12, <1>13

LEMMA ListStep ==
  Shape /\ Shape' /\ TypeOK /\ StagesInv /\ AmountsInv /\ PlansInv /\ MadeInv /\ GotInv /\ UneditedInv
    /\ ReservedWithinMost /\ ListIsExact /\ [Next]_vars => ListIsExact'
  <1> SUFFICES ASSUME Shape, Shape', TypeOK, StagesInv, AmountsInv, PlansInv, MadeInv, GotInv, UneditedInv,
                      ReservedWithinMost, ListIsExact, [Next]_vars
               PROVE  ListIsExact'
    OBVIOUS
  <1>1. ASSUME NEW q \in Reqs, pc'[q] # "idle", Planned(q)', NEW name \in Names
        PROVE  /\ OneBaseUnit(q, name)' => Required(q, name)' <= ReservedOfName(got'[q], name) + listed'[q][name]
               /\ writes' = 0 /\ q \in plans' =>
                    ReservedOfName(got'[q], name) + listed'[q][name] <= Required(q, name)'
    <2>1. CASE Settled(q)
      <3>1. pc[q] # "idle" /\ Planned(q) /\ got'[q] = got[q] /\ listed'[q] = listed[q]
        BY <1>1, <2>1 DEF Settled
      <3>2. Required(q, name)' = Required(q, name) /\ OneBaseUnit(q, name)' = OneBaseUnit(q, name)
        BY <2>1, MeasuresKept DEF Settled
      <3>3. OneBaseUnit(q, name) => Required(q, name) <= ReservedOfName(got[q], name) + listed[q][name]
        BY <3>1 DEF ListIsExact, IngredientsProvided
      <3>4. writes' = 0 /\ q \in plans' => writes = 0 /\ q \in plans
        <4>1. ~reserve_plan(q)
          BY <1>1, ReservationsAssumption DEF reserve_plan, Advance, Shape, Planned, StagesInv, Answers
        <4> QED
          BY <4>1, ItemsFrame
      <3>5. writes = 0 /\ q \in plans => ReservedOfName(got[q], name) + listed[q][name] <= Required(q, name)
        BY <3>1 DEF ListIsExact, ListedOnlyMissing
      <3> QED
        BY <3>1, <3>2, <3>3, <3>4, <3>5
    <2>2. CASE list_gaps(q)
      <3>1. /\ menu'[q] = menu[q] /\ attrs'[q] = attrs[q] /\ view'[q] = view[q] /\ got'[q] = got[q]
            /\ writes' = writes /\ plans' = plans
        BY <2>2 DEF list_gaps
      <3>2. Required(q, name)' = Required(q, name) /\ OneBaseUnit(q, name)' = OneBaseUnit(q, name)
        BY <3>1, MeasuresKept
      <3> QED
        BY <2>2, <3>1, <3>2, ListMade
    <2>3. ~Unlisted(q)
      BY <1>1, ReservationsAssumption DEF Unlisted, Planned, Answers
    <2>4. ~reserve_plan(q)
      BY <1>1, ReservationsAssumption DEF reserve_plan, Advance, Shape, Planned, StagesInv, Answers
    <2> QED
      BY <2>1, <2>2, <2>3, <2>4, ListFrame
  <1>2. IngredientsProvided'
    BY <1>1 DEF IngredientsProvided
  <1>3. ListedOnlyMissing'
    <2> SUFFICES ASSUME writes' = 0, NEW q \in plans', Planned(q)', NEW name \in Names
                 PROVE  ReservedOfName(got'[q], name) + listed'[q][name] <= Required(q, name)'
      BY DEF ListedOnlyMissing
    <2>1. q \in Reqs
      BY DEF Shape
    <2>2. pc'[q] # "idle"
      <3>1. \/ q \in plans
            \/ reserve_plan(q)
        BY <2>1, ItemsFrame
      <3>2. q \in plans => pc[q] # "idle"
        BY DEF StagesInv
      <3>3. reserve_plan(q) => pc'[q] = "reserved"
        BY <2>1 DEF reserve_plan, Advance, Shape
      <3> QED
        BY <2>1, <3>1, <3>2, <3>3, CallsKept
    <2> QED
      BY <1>1, <2>1, <2>2
  <1> QED
    BY <1>2, <1>3 DEF ListIsExact

---------------------------------------------------------------------------
LEMMA InvInit == Init => Inv
  BY ShapeInit, LocksInit, StagesInit, PlansInit, SeenInit, AmountsInit DEF Inv

LEMMA InvStep == Inv /\ [Next]_vars => Inv'
  BY ShapeStep, LocksStep, StagesStep, PlansStep, SeenStep, AmountsStep DEF Inv

(* The inductive invariant: types, locks, stages, committed plans, and what*)
(* a session that reserves can rely on.                                    *)
THEOREM ReservationsInvariant == Spec => []Inv
  BY InvInit, InvStep, PTL DEF Spec

(* While a plan reserves, what it has read of the reservations of its      *)
(* items stays complete until it commits, for any number of requests.      *)
THEOREM SeenComplete == Spec => []SeenIsComplete
  <1>1. Inv => SeenIsComplete
    BY DEF Inv
  <1> QED
    BY <1>1, ReservationsInvariant, PTL

(* An acknowledged plan keeps its reservations, and their items stay, until*)
(* the member who made it asks for its deletion.                           *)
THEOREM AckedKept == Spec => []AckedPlanKept
  <1>1. Inv => AckedPlanKept
    BY DEF Inv
  <1> QED
    BY <1>1, ReservationsInvariant, PTL

(* Every variable keeps its type, the shopping list included.              *)
THEOREM TypeCorrectness == Spec => []TypeOK
  <1>1. Init => TypeOK
    BY InvInit DEF Inv, TypeOK, Init, NothingListed
  <1>2. Inv /\ TypeOK /\ [Next]_vars => Inv' /\ TypeOK'
    <2>1. Inv /\ [Next]_vars => Inv'
      BY InvStep
    <2>2. Inv' => Shape'
      BY DEF Inv
    <2> QED
      BY <2>1, <2>2, TypesStep DEF TypeOK
  <1> QED
    BY <1>1, <1>2, InvInit, PTL DEF Spec

(* Overlapping plans, deletions, edits and crashes never lead to more being*)
(* reserved of an item than there was of it at some time.                  *)
THEOREM NeverOverbooked == Spec => []ReservedWithinMost
  <1>1. Inv /\ ReservedWithinMost /\ [Next]_vars => Inv' /\ ReservedWithinMost'
    BY InvStep, WithinMostStep DEF Inv
  <1> QED
    BY <1>1, InvInit, WithinMostInit, PTL DEF Spec

(* A plan that takes from an item has left nothing free of those that      *)
(* expire before it, over all its lines.                                   *)
THEOREM ExpiringTakenFirst == Spec => []ExpiringFirst
  <1>1. Init => ExpiringFirst
    BY DEF Init, ExpiringFirst
  <1>2. Inv /\ ExpiringFirst /\ [Next]_vars => Inv' /\ ExpiringFirst'
    BY InvStep, ExpiringStep DEF Inv
  <1> QED
    BY <1>1, <1>2, InvInit, PTL DEF Spec

(* Reservations and shopping list make up what a plan needs: every         *)
(* ingredient measured in one base unit is provided for, and until an item *)
(* is edited nothing is listed that has been reserved.                     *)
THEOREM ListsAreExact == Spec => []ListIsExact
  <1>1. Init => ListInv
    <2>1. Init => MadeInv /\ GotInv /\ ListIsExact
      BY ReservationsAssumption DEF Init, MadeInv, GotInv, ListIsExact, IngredientsProvided,
        ListedOnlyMissing
    <2> QED
      BY <2>1, UneditedInit DEF ListInv
  <1>2. Inv /\ TypeOK /\ ReservedWithinMost /\ ListInv /\ [Next]_vars /\ Inv' => ListInv'
    <2> SUFFICES ASSUME Inv, TypeOK, ReservedWithinMost, ListInv, [Next]_vars, Inv' PROVE ListInv'
      OBVIOUS
    <2>1. /\ Shape /\ Shape' /\ StagesInv /\ PlansInv /\ AmountsInv /\ AmountsInv'
          /\ MadeInv /\ GotInv /\ UneditedInv /\ ListIsExact
      BY DEF Inv, ListInv
    <2>2. MadeInv' /\ GotInv'
      BY <2>1, MadeStep, GotStep
    <2>3. UneditedInv' /\ ListIsExact'
      BY <2>1, UneditedStep, ListStep
    <2> QED
      BY <2>2, <2>3 DEF ListInv
  <1>3. ListInv => ListIsExact
    BY DEF ListInv
  <1> QED
    BY <1>1, <1>2, <1>3, ReservationsInvariant, TypeCorrectness, NeverOverbooked, PTL DEF Spec
=============================================================================
