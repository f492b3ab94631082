-------------------------- MODULE MembershipProofs --------------------------
(***************************************************************************)
(* Theorems about Membership, for every number of users, households and    *)
(* requests: the types, what becomes of what a member was told, and that   *)
(* households are in order while requests come one by one.                 *)
(***************************************************************************)
EXTENDS Membership, FiniteSetTheorems, WellFoundedInduction, TLAPS

---------------------------------------------------------------------------
(* The inductive invariant.                                                *)

(* One membership at two moments, whatever its role and activity.          *)
Same(k, m) == k.id = m.id /\ k.user = m.user /\ k.household = m.household

(* A row that a request remembers is that of nobody else by now.           *)
Recognised(k) == k.id <= last /\ \A m \in members : m.id = k.id => Same(k, m)

Ids ==
  /\ \A m \in members : m.id <= last
  /\ \A m, n \in members : m.id = n.id => m = n
  /\ \A r \in Reqs :
       /\ \A k \in held[r] \cup seen[r] : Recognised(k)
       /\ leaving[r] # None => Recognised(leaving[r])

(* A request has gone past what may still refuse it.                       *)
Acts(q) == pc[q] \notin {"idle", "default", "lookup"}

Leaves(r) == call[r].op \in {"leave", "remove"}

(* The user who is to be a member no longer.                               *)
Leaver(r) == IF call[r].op = "leave" THEN call[r].user ELSE call[r].target

(* What is settled at each stage.                                          *)
Staged(r) ==
  /\ pc[r] = "create" => call[r].op = "list"
  /\ pc[r] = "add" => call[r].op = "join" /\ goal[r] = call[r].household
  /\ pc[r] = "activate" => call[r].op \in {"list", "create", "update", "join"} /\ goal[r] # None
  /\ pc[r] \in {"remove", "reactivate", "settle", "promote", "drop"} =>
       /\ Leaves(r) /\ leaving[r] # None
       /\ leaving[r].household = call[r].household /\ leaving[r].user = Leaver(r)
  /\ pc[r] = "drop" => call[r].op = "leave"
  /\ pc[r] = "settle" => call[r].op = "remove"
  /\ pc[r] = "promote" \/ (pc[r] = "reactivate" /\ call[r].op = "leave") => heir[r] # None

(* Where a request is and what it may have answered.                       *)
Progress ==
  \A r \in Reqs :
    /\ (pc[r] = "idle") = (call[r] = None)
    /\ (pc[r] = "done") = (code[r] # None)
    /\ earlier[r] \subseteq {q \in Reqs : pc[q] = "done"}
    /\ call[r] # None /\ call[r].household # None => households[call[r].household] # "none"
    /\ Staged(r)

(* A call answered before is in the cache, so it is not carried out again. *)
NoSecondEffect ==
  \A r \in Reqs :
    /\ code[r] = "200" => call[r].key = None \/ call[r] \in cache
    /\ Acts(r) /\ pc[r] # "done" =>
         call[r].key = None \/ \A p \in earlier[r] : call[p] = call[r] => code[p] # "200"

(* Another call may explain that r's is undone.                            *)
Undone(r) == \E q \in Reqs : MayUndo(q, r) /\ Acts(q) /\ Departure(q, call[r].user, goal[r])
Rejoined(r) == \E q \in Reqs : /\ MayUndo(q, r) /\ Acts(q)
                               /\ call[q].op = "join" /\ call[q].user = Leaver(r)
                               /\ call[q].household = call[r].household

Enters(r) == call[r] # None /\ call[r].op \in {"create", "join", "update"}
                            /\ (pc[r] \in {"activate", "respond"} \/ code[r] = "200")

MemberKept ==
  \A r \in Reqs : Enters(r) =>
    /\ goal[r] # None
    /\ Undone(r) \/ get_membership(goal[r], call[r].user) # {}

(* While r has still to remove it, the membership is the only one.         *)
LeaverKept ==
  \A r \in Reqs : call[r] # None /\ Leaves(r) /\ ~Rejoined(r) =>
    /\ pc[r] = "remove" =>
         \A m \in get_membership(call[r].household, Leaver(r)) : m.id = leaving[r].id
    /\ pc[r] \in {"drop", "reactivate", "settle", "promote", "respond"} \/ code[r] = "200" =>
         get_membership(call[r].household, Leaver(r)) = {}

KeptInvariant == TypeOK /\ Ids /\ Progress /\ NoSecondEffect /\ MemberKept /\ LeaverKept

---------------------------------------------------------------------------
(* Helpers.                                                                *)
LEMMA LeastNumber ==
  ASSUME NEW T, T \subseteq Nat, T # {}
  PROVE  \E u \in T : \A v \in T : u <= v
  <1> DEFINE R == OpToRel(<, Nat)
  <1>1. IsWellFoundedOn(R, Nat)
    BY NatLessThanWellFounded, Zenon
  <1>2. \A x, y \in Nat : ~(<<y, x>> \in R) => x <= y
    BY DEF OpToRel
  <1> HIDE DEF R
  <1>3. PICK u \in T : \A v \in T : ~(<<v, u>> \in R)
    BY <1>1, WFMin
  <1> QED
    BY <1>2, <1>3

LEMMA FirstIsIn == ASSUME NEW R, R \subseteq Membership, R # {} PROVE First(R) \in R
  <1> DEFINE T == {m.id : m \in R}
  <1>1. T \subseteq Nat /\ T # {}
    BY DEF Membership
  <1>2. PICK i \in T : \A j \in T : i <= j
    BY <1>1, LeastNumber
  <1>3. \E m \in R : \A n \in R : m.id <= n.id
    BY <1>2
  <1> QED
    BY <1>3 DEF First

LEMMA Alone == ASSUME NEW R, ~Ambiguous(R), NEW m \in R PROVE R = {m}
  BY DEF Ambiguous

LEMMA CallFields ==
  ASSUME NEW c \in Calls
  PROVE  /\ c.user \in Users /\ c.household \in Households \cup {None}
         /\ c.op \in {"list", "create", "update", "join", "leave", "remove"}
         /\ c.op = "list" => c.key = None
         /\ c.op # "list" => c.key \in Reqs /\ c.key # None
         /\ c.op \in {"update", "join", "leave", "remove"} => c.household \in Households /\ c.household # None
         /\ c.op = "remove" => c.target \in Users
         /\ c # None
  <1>1. (\A k \in Reqs : k # None) /\ (\A h \in Households : h # None)
    BY MembershipAssumption
  <1> QED
    BY <1>1, MembershipAssumption DEF Calls

LEMMA NoneIsNothing ==
  /\ None \notin Answers /\ None \notin Membership /\ None \notin Households /\ None \notin Users
  BY MembershipAssumption

(* What a session knows of a row is that row at another moment.            *)
LEMMA KnownIsSame ==
  ASSUME TypeOK, Ids, NEW r \in Reqs, NEW m \in members
  PROVE  Known(r, m) \in Membership /\ Same(Known(r, m), m)
  <1>1. m \in Membership /\ held[r] \subseteq Membership
    BY DEF TypeOK
  <1>2. CASE \E k \in held[r] : k.id = m.id
    <2>1. Known(r, m) \in held[r] /\ Known(r, m).id = m.id
      BY <1>2 DEF Known
    <2>2. Recognised(Known(r, m))
      BY <2>1 DEF Ids
    <2> QED
      BY <1>1, <2>1, <2>2 DEF Recognised, Same
  <1>3. CASE ~\E k \in held[r] : k.id = m.id
    BY <1>1, <1>3 DEF Known, Same
  <1> QED
    BY <1>2, <1>3

(* A transaction that changes roles or activity keeps the memberships.     *)
Kept(new) ==
  /\ new \subseteq Membership
  /\ \A x \in new : \E m \in members : Same(x, m)
  /\ \A m \in members : \E x \in new : Same(x, m)
  /\ \A x, y \in new : x.id = y.id => x = y

LEMMA ActivatedKeeps ==
  ASSUME TypeOK, Ids, NEW r, NEW u, NEW h PROVE Kept(Activated(r, u, h))
  <1> DEFINE f(m) == IF m.user = u /\ Known(r, m).active # (m.household = h)
                     THEN [m EXCEPT !.active = (m.household = h)] ELSE m
  <1>1. \A m \in Membership : f(m) \in Membership /\ Same(f(m), m)
    BY DEF Membership, Same
  <1>2. Activated(r, u, h) = members \/ Activated(r, u, h) = {f(m) : m \in members}
    BY DEF Activated
  <1>3. members \subseteq Membership /\ \A m, n \in members : m.id = n.id => m = n
    BY DEF TypeOK, Ids
  <1> HIDE DEF f
  <1>4. Kept(members)
    BY <1>3 DEF Kept, Same
  <1>5. Kept({f(m) : m \in members})
    BY <1>1, <1>3 DEF Kept, Same
  <1> QED
    BY <1>2, <1>4, <1>5

LEMMA PromotedKeeps ==
  ASSUME TypeOK, Ids, NEW R
  PROVE  Kept({IF m \in R THEN [m EXCEPT !.role = "owner"] ELSE m : m \in members})
  <1> DEFINE f(m) == IF m \in R THEN [m EXCEPT !.role = "owner"] ELSE m
  <1>1. \A m \in Membership : f(m) \in Membership /\ Same(f(m), m)
    BY DEF Membership, Same
  <1>2. members \subseteq Membership /\ \A m, n \in members : m.id = n.id => m = n
    BY DEF TypeOK, Ids
  <1> HIDE DEF f
  <1>3. Kept({f(m) : m \in members})
    BY <1>1, <1>2 DEF Kept, Same
  <1> QED
    BY <1>3 DEF f

---------------------------------------------------------------------------
(* Requests: a step is the reception of one or handles one, and the tables *)
(* change in four ways.                                                    *)
Handles(s) == Step(s) \/ Fail(s)

LEMMA StepIsOf ==
  [Next]_vars => UNCHANGED vars \/ \E s \in Reqs : (\E c \in Calls : Receive(s, c)) \/ Handles(s)
  BY DEF Next, Handles

LEMMA Received ==
  ASSUME TypeOK, NEW s \in Reqs, NEW c \in Calls, Receive(s, c)
  PROVE  /\ pc[s] = "idle" /\ pc'[s] \in {"default", "lookup"}
         /\ call'[s] = c /\ earlier'[s] = {q \in Reqs : pc[q] = "done"} /\ held'[s] = Of(c.user)
         /\ c.household # None => households[c.household] # "none"
         /\ UNCHANGED <<tables, goal, leaving, seen, heir, code, abandoned>>
         /\ \A q \in Reqs : q # s => /\ pc'[q] = pc[q] /\ held'[q] = held[q]
                                    /\ call'[q] = call[q] /\ earlier'[q] = earlier[q]
  BY DEF Receive, Goto, TypeOK

Adds(s) ==
  \E m \in Membership :
    /\ m.id = last + 1 /\ m.user = call[s].user /\ m.active /\ goal'[s] = m.household
    /\ members' = members \cup {m} /\ last' = last + 1 /\ held'[s] = held[s] \cup {m}
    /\ seen'[s] = seen[s] /\ leaving'[s] = leaving[s] /\ heir'[s] = heir[s]
    /\ \/ /\ <<pc[s], pc'[s]>> \in {<<"default", "lookup">>, <<"lookup", "activate">>, <<"create", "activate">>}
          /\ pc[s] = "lookup" => call[s].op = "create"
          /\ m.role = "owner" /\ households[m.household] = "none"
          /\ households' = [households EXCEPT ![m.household] = "open"]
       \/ /\ pc[s] = "add" /\ pc'[s] = "activate" /\ m.role = "member" /\ m.household = goal[s]
          /\ households[goal[s]] = "open" /\ households' = households

LEMMA FoundAdds ==
  ASSUME TypeOK, NEW s \in Reqs, pc[s] # "idle", call[s] \in Calls, NEW stage, Found(s, stage)
  PROVE  \E m \in Membership :
           /\ m.id = last + 1 /\ m.user = call[s].user /\ m.active /\ goal'[s] = m.household
           /\ members' = members \cup {m} /\ last' = last + 1 /\ held'[s] = held[s] \cup {m}
           /\ seen'[s] = seen[s] /\ leaving'[s] = leaving[s] /\ heir'[s] = heir[s]
           /\ pc'[s] = stage /\ m.role = "owner" /\ households[m.household] = "none"
           /\ households' = [households EXCEPT ![m.household] = "open"]
  <1> DEFINE h == CHOOSE x \in Unused : TRUE
             m == [id |-> last + 1, household |-> h, user |-> call[s].user, role |-> "owner", active |-> TRUE]
  <1>1. h \in Households /\ households[h] = "none"
    <2>1. h \in Unused
      BY DEF Found
    <2> HIDE DEF h
    <2> QED
      BY <2>1 DEF Unused
  <1>2. m \in Membership /\ m.id = last + 1 /\ m.user = call[s].user /\ m.active /\ m.household = h /\ m.role = "owner"
    <2> HIDE DEF h
    <2> QED
      BY <1>1, CallFields DEF TypeOK, Membership
  <1>3. /\ households' = [households EXCEPT ![h] = "open"] /\ members' = members \cup {m}
        /\ last' = last + 1 /\ held' = [held EXCEPT ![s] = @ \cup {m}] /\ goal' = [goal EXCEPT ![s] = h]
        /\ pc' = [pc EXCEPT ![s] = stage] /\ UNCHANGED <<seen, leaving, heir>>
    BY DEF Found, Goto
  <1> HIDE DEF h, m
  <1> QED
    BY <1>1, <1>2, <1>3 DEF TypeOK

LEMMA AddMemberAdds ==
  ASSUME TypeOK, Progress, NEW s \in Reqs, call[s] \in Calls, add_member(s), pc'[s] # "done"
  PROVE  Adds(s)
  <1> USE DEF Goto, At, Close, Answer, tables, session
  <1> DEFINE m == [id |-> last + 1, household |-> goal[s], user |-> call[s].user, role |-> "member", active |-> TRUE]
  <1>1. pc[s] = "add" /\ goal[s] \in Households
    BY CallFields DEF add_member, Progress, Staged
  <1>2. m \in Membership /\ m.id = last + 1 /\ m.user = call[s].user /\ m.active /\ m.household = goal[s]
        /\ m.role = "member"
    BY <1>1, CallFields DEF TypeOK, Membership
  <1>3. households[goal[s]] = "open"
    BY DEF add_member, TypeOK
  <1>4. /\ members' = members \cup {m} /\ last' = last + 1 /\ held' = [held EXCEPT ![s] = @ \cup {m}]
        /\ pc' = [pc EXCEPT ![s] = "activate"] /\ UNCHANGED <<goal, seen, leaving, heir, households>>
    BY <1>3 DEF add_member
  <1> HIDE DEF m
  <1> QED
    BY <1>1, <1>2, <1>3, <1>4 DEF Adds, TypeOK

Removes(s) ==
  /\ pc[s] = "remove" /\ pc'[s] \notin {"idle", "default", "lookup", "remove", "done"}
  /\ members' = {m \in members : m.id # leaving[s].id}
  /\ last' = last /\ UNCHANGED <<households, held, seen, leaving, goal>>

(* The steps of a request which write the tables of households.            *)
LEMMA Handled ==
  ASSUME TypeOK, Progress, NEW s \in Reqs, Handles(s)
  PROVE  /\ pc[s] \notin {"idle", "done"} /\ pc'[s] # "idle"
         /\ Acts(s) => Acts(s)'
         /\ call' = call /\ earlier' = earlier
         /\ \A q \in Reqs : q # s => /\ pc'[q] = pc[q] /\ code'[q] = code[q] /\ held'[q] = held[q]
                                    /\ goal'[q] = goal[q] /\ leaving'[q] = leaving[q]
                                    /\ seen'[q] = seen[q] /\ heir'[q] = heir[q]
         /\ pc'[s] # "done" => code'[s] = code[s]
  <1> USE DEF Goto, At, Close, Answer, Enter, Depart, Found, Calling, tables, session, TypeOK, Acts
  <1>1. CASE _ensure_default_household(s)
    BY <1>1 DEF _ensure_default_household
  <1>2. CASE Replay(s) \/ list_households(s)
    BY <1>2 DEF Replay, list_households
  <1>3. CASE create_household(s)
    BY <1>3 DEF create_household
  <1>4. CASE update_household(s) \/ join_household(s)
    BY <1>4 DEF update_household, join_household
  <1>5. CASE add_member(s)
    BY <1>5 DEF add_member
  <1>6. CASE set_active_membership(s)
    BY <1>6 DEF set_active_membership
  <1>7. CASE leave_household(s)
    BY <1>7 DEF leave_household
  <1>8. CASE remove_member(s)
    BY <1>8 DEF remove_member
  <1>9. CASE remove_membership(s)
    BY <1>9 DEF remove_membership, AfterLeave
  <1>10. CASE reactivate(s)
    BY <1>10 DEF reactivate, AfterLeave
  <1>11. CASE drop_household(s)
    BY <1>11 DEF drop_household, delete_household
  <1>12. CASE settle(s)
    BY <1>12 DEF settle, delete_household
  <1>13. CASE update_member_role(s)
    BY <1>13 DEF update_member_role
  <1>14. CASE respond(s)
    BY <1>14 DEF respond
  <1>15. CASE Fail(s)
    BY <1>15 DEF Fail, InFlight
  <1> QED
    BY <1>1, <1>2, <1>3, <1>4, <1>5, <1>6, <1>7, <1>8, <1>9, <1>10, <1>11, <1>12, <1>13, <1>14, <1>15
       DEF Handles, Step

(* A row is written anew, added or removed.                                *)
LEMMA MembersStep ==
  ASSUME TypeOK, Ids, Progress, NEW s \in Reqs, Handles(s)
  PROVE  \/ /\ Kept(members') /\ last' = last /\ held'[s] \subseteq held[s]
            /\ \A h \in Households : households'[h] = "none" <=> households[h] = "none"
         \/ Adds(s)
         \/ Removes(s)
  <1> USE DEF Goto, At, Close, Answer, Enter, Depart, Calling, tables, session
  <1>0. Kept(members)
    BY DEF Kept, Same, TypeOK, Ids
  <1>a. pc[s] # "idle" /\ call[s] \in Calls
    BY Handled DEF TypeOK, Progress
  <1> DEFINE Same3 == members' = members /\ last' = last /\ held'[s] \subseteq held[s] /\ households' = households
             Kept3 == /\ Kept(members') /\ last' = last /\ held'[s] \subseteq held[s]
                      /\ \A h \in Households : households'[h] = "none" <=> households[h] = "none"
  <1>1. CASE _ensure_default_household(s)
    BY <1>a, <1>1, FoundAdds DEF _ensure_default_household, Adds
  <1>2. CASE Replay(s) \/ list_households(s)
    BY <1>0, <1>2 DEF Replay, list_households, TypeOK
  <1>3. CASE create_household(s)
    BY <1>a, <1>3, FoundAdds DEF create_household, Adds, Progress, Staged
  <1>4. CASE update_household(s) \/ join_household(s)
    BY <1>0, <1>4 DEF update_household, join_household, TypeOK
  <1>5. CASE add_member(s)
    <2>1. CASE households[goal[s]] # "open"
      BY <1>0, <1>5, <2>1 DEF add_member, TypeOK
    <2>2. CASE households[goal[s]] = "open"
      BY <1>a, <1>5, <2>2, AddMemberAdds DEF add_member, TypeOK
    <2> QED
      BY <2>1, <2>2
  <1>6. CASE set_active_membership(s)
    BY <1>6, ActivatedKeeps DEF set_active_membership
  <1>7. CASE leave_household(s)
    BY <1>0, <1>7 DEF leave_household, TypeOK
  <1>8. CASE remove_member(s)
    BY <1>0, <1>8 DEF remove_member, TypeOK
  <1>9. CASE remove_membership(s)
    BY <1>9 DEF remove_membership, AfterLeave, Removes, TypeOK
  <1>10. CASE reactivate(s)
    <2>1. members' = members \/ \E u, h : members' = Activated(s, u, h)
      BY <1>10 DEF reactivate
    <2> QED
      BY <1>0, <1>10, <2>1, ActivatedKeeps DEF reactivate
  <1>b. ASSUME NEW h \in Households, delete_household(s, h), households[h] = "open" PROVE Kept3
    <2>1. members' = members
      BY <1>b DEF delete_household, Deletable
    <2>2. last' = last /\ held'[s] \subseteq held[s]
          /\ (households' = households \/ households' = [households EXCEPT ![h] = "deleted"])
      BY <1>b DEF delete_household, TypeOK
    <2> QED
      BY <1>0, <1>b, <2>1, <2>2 DEF TypeOK
  <1>c. pc[s] \in {"drop", "settle"} => call[s].household \in Households
    BY <1>a, CallFields DEF Progress, Staged, Leaves
  <1>11. CASE drop_household(s)
    BY <1>0, <1>b, <1>c, <1>11 DEF drop_household
  <1>12. CASE settle(s)
    BY <1>0, <1>b, <1>c, <1>12 DEF settle
  <1>13. CASE update_member_role(s)
    <2>1. CASE Ambiguous(get_membership(call[s].household, heir[s]))
      BY <1>0, <1>13, <2>1 DEF update_member_role, TypeOK
    <2>2. CASE ~Ambiguous(get_membership(call[s].household, heir[s]))
      <3>1. \E R : members' = {IF m \in R THEN [m EXCEPT !.role = "owner"] ELSE m : m \in members}
        BY <1>13, <2>2 DEF update_member_role
      <3> QED
        BY <1>13, <2>2, <3>1, PromotedKeeps DEF update_member_role
    <2> QED
      BY <2>1, <2>2
  <1>14. CASE respond(s)
    BY <1>0, <1>14 DEF respond, TypeOK
  <1>15. CASE Fail(s)
    BY <1>0, <1>15 DEF Fail, TypeOK
  <1> QED
    BY <1>1, <1>2, <1>3, <1>4, <1>5, <1>6, <1>7, <1>8, <1>9, <1>10, <1>11, <1>12, <1>13, <1>14, <1>15
       DEF Handles, Step

(* What a request answers, and what the cache keeps of it.                 *)
LEMMA Answering ==
  ASSUME TypeOK, Progress, NEW s \in Reqs, Handles(s)
  PROVE  /\ cache \subseteq cache' /\ cache' \subseteq cache \cup {call[s]}
         /\ pc'[s] = "done" => code'[s] \in Answers
         /\ pc'[s] = "done" /\ code'[s] = "200" => call[s].key = None \/ call[s] \in cache'
         /\ pc'[s] = "done" /\ code'[s] = "200" => pc[s] = "respond" \/ call[s].op = "list"
         /\ pc'[s] = "done" /\ code'[s] \in {"403", "404", "replay"} =>
              (pc[s] = "lookup" /\ call[s].op # "list") \/ call[s].op = "update" \/ code'[s] = "replay"
         /\ pc'[s] = "done" /\ code'[s] = "replay" => pc[s] = "lookup"
         /\ Acts(s)' /\ pc'[s] # "done" /\ ~Acts(s) => call[s].key = None \/ call[s] \notin cache
  <1> USE DEF Goto, At, Close, Answer, Enter, Depart, Found, Calling, Hit, tables, session, TypeOK, Acts, Answers
  <1>0. call[s] \in Calls /\ call[s].op \in {"list", "create", "update", "join", "leave", "remove"}
    BY Handled, CallFields DEF Progress
  <1>1. CASE _ensure_default_household(s)
    BY <1>1 DEF _ensure_default_household
  <1>2. CASE Replay(s) \/ list_households(s)
    BY <1>0, <1>2, CallFields DEF Replay, list_households
  <1>3. CASE create_household(s)
    BY <1>3 DEF create_household
  <1>4. CASE update_household(s) \/ join_household(s)
    BY <1>4 DEF update_household, join_household
  <1>5. CASE add_member(s)
    BY <1>5 DEF add_member
  <1>6. CASE set_active_membership(s)
    BY <1>6 DEF set_active_membership
  <1>7. CASE leave_household(s)
    BY <1>7 DEF leave_household
  <1>8. CASE remove_member(s)
    BY <1>8 DEF remove_member
  <1>9. CASE remove_membership(s)
    BY <1>9 DEF remove_membership, AfterLeave
  <1>10. CASE reactivate(s)
    BY <1>10 DEF reactivate, AfterLeave
  <1>11. CASE drop_household(s)
    BY <1>11 DEF drop_household, delete_household
  <1>12. CASE settle(s)
    BY <1>12 DEF settle, delete_household
  <1>13. CASE update_member_role(s)
    BY <1>13 DEF update_member_role
  <1>14. CASE respond(s)
    BY <1>14 DEF respond
  <1>15. CASE Fail(s)
    BY <1>15 DEF Fail, InFlight
  <1> QED
    BY <1>1, <1>2, <1>3, <1>4, <1>5, <1>6, <1>7, <1>8, <1>9, <1>10, <1>11, <1>12, <1>13, <1>14, <1>15
       DEF Handles, Step

---------------------------------------------------------------------------
(* Types and ids.                                                          *)
LEMMA InvariantInit == Init => KeptInvariant
  <1> SUFFICES ASSUME Init PROVE KeptInvariant
    OBVIOUS
  <1>1. /\ members \subseteq Membership /\ last \in Nat /\ \A m \in members : m.id <= last
        /\ \A m, n \in members : m.id = n.id => m = n
    BY MembershipAssumption, FS_CardinalityType DEF Init
  <1>2. TypeOK
    BY <1>1 DEF Init, TypeOK, Stages
  <1>3. Ids
    BY <1>1 DEF Init, Ids
  <1>4. Progress /\ NoSecondEffect /\ MemberKept /\ LeaverKept
    BY NoneIsNothing DEF Init, Progress, Staged, NoSecondEffect, MemberKept, Enters, LeaverKept, Acts, Answers
  <1> QED
    BY <1>2, <1>3, <1>4 DEF KeptInvariant

LEMMA TypeStep == TypeOK /\ Ids /\ Progress /\ [Next]_vars => TypeOK'
  <1> SUFFICES ASSUME TypeOK, Ids, Progress, [Next]_vars PROVE TypeOK'
    OBVIOUS
  <1> USE DEF Goto, At, Close, Answer, Enter, Calling, tables, session, Stages
  <1>1. ASSUME NEW s \in Reqs, NEW c \in Calls, Receive(s, c) PROVE TypeOK'
    BY <1>1 DEF Receive, Of, TypeOK
  <1>2. ASSUME NEW s \in Reqs, Handles(s) PROVE TypeOK'
    <2>1. call[s] \in Calls /\ pc[s] # "idle"
      BY <1>2, Handled DEF Progress, TypeOK
    <2>2. members' \subseteq Membership /\ last' \in Nat /\ cache' \subseteq Calls
      BY <1>2, <2>1, MembersStep, Answering DEF Kept, Adds, Removes, TypeOK
    <2>3. /\ pc[s] \in {"drop", "settle", "remove", "reactivate", "promote"} \/ call[s].op \in {"update", "join"}
                => call[s].household \in Households
          /\ Unused \subseteq Households
      BY <2>1, CallFields DEF Progress, Staged, Leaves, Unused
    <2>4. \A m \in members : m \in Membership /\ m.user \in Users /\ Known(s, m) \in Membership
      BY KnownIsSame DEF TypeOK, Membership
    <2> DEFINE New(h) == [id |-> last + 1, household |-> h, user |-> call[s].user, role |-> "owner", active |-> TRUE]
    <2>5. ASSUME NEW stage \in Stages, Found(s, stage) PROVE TypeOK'
      <3>0. pc' = [pc EXCEPT ![s] = stage] /\ UNCHANGED <<cache, call, leaving, seen, heir, code, abandoned, earlier>>
        BY <1>2, <2>5, Handled DEF Found
      <3>1. PICK h \in Households :
              /\ households' = [households EXCEPT ![h] = "open"]
              /\ held' = [held EXCEPT ![s] = @ \cup {New(h)}] /\ goal' = [goal EXCEPT ![s] = h]
        BY <2>3, <2>5 DEF Found, Unused
      <3>2. \A x \in Households : New(x) \in Membership
        BY <2>1, CallFields DEF TypeOK, Membership
      <3> HIDE DEF New
      <3> QED
        BY <2>2, <3>0, <3>1, <3>2 DEF TypeOK
    <2>6. CASE _ensure_default_household(s)
      BY <2>5, <2>6 DEF _ensure_default_household
    <2>7. CASE Replay(s) \/ list_households(s)
      BY <2>2, <2>7 DEF Replay, list_households, Answers, TypeOK
    <2>8. CASE create_household(s)
      BY <2>5, <2>8 DEF create_household
    <2>9. CASE update_household(s) \/ join_household(s)
      BY <2>2, <2>3, <2>9 DEF update_household, join_household, Answers, TypeOK
    <2>10. CASE add_member(s)
      <3> DEFINE m == [id |-> last + 1, household |-> goal[s], user |-> call[s].user,
                       role |-> "member", active |-> TRUE]
      <3>1. m \in Membership
        BY <2>1, <2>10, CallFields DEF add_member, Progress, Staged, TypeOK, Membership
      <3> HIDE DEF m
      <3> QED
        BY <2>2, <2>10, <3>1, SMTT(30) DEF add_member, Answers, TypeOK, m
    <2>11. CASE set_active_membership(s)
      BY <2>2, <2>11 DEF set_active_membership, TypeOK
    <2>12. ASSUME NEW m \in members, Depart(s, m), UNCHANGED earlier PROVE TypeOK'
      BY <2>2, <2>4, <2>12 DEF Depart, In, TypeOK
    <2>13. CASE leave_household(s)
      BY <2>2, <2>12, <2>13 DEF leave_household, get_membership, Of, In, Answers, TypeOK
    <2>14. CASE remove_member(s)
      BY <2>2, <2>12, <2>14 DEF remove_member, get_membership, Of, In, Answers, TypeOK
    <2>15. CASE remove_membership(s)
      <3>1. Others(s) # {} => Heir(First(Others(s))) \in Users
        <4>1. Others(s) \subseteq Membership
          BY DEF Others, TypeOK
        <4> QED
          BY <4>1, FirstIsIn DEF Heir, Membership
      <3> QED
        BY <2>2, <2>15, <3>1 DEF remove_membership, AfterLeave, TypeOK
    <2>16. CASE reactivate(s)
      BY <2>2, <2>16 DEF reactivate, AfterLeave, TypeOK
    <2>17. ASSUME NEW h \in Households, delete_household(s, h), UNCHANGED earlier PROVE TypeOK'
      BY <2>2, <2>17 DEF delete_household, Answers, TypeOK
    <2>18. CASE drop_household(s)
      BY <2>2, <2>3, <2>17, <2>18 DEF drop_household, TypeOK
    <2>19. CASE settle(s)
      <3>1. \A m \in In(call[s].household) : Heir(m) \in Users
        BY <2>4 DEF In, Heir
      <3> QED
        BY <2>2, <2>3, <2>17, <2>19, <3>1 DEF settle, TypeOK
    <2>20. CASE update_member_role(s)
      BY <2>2, <2>20 DEF update_member_role, Answers, TypeOK
    <2>21. CASE respond(s)
      BY <2>2, <2>21 DEF respond, Answers, TypeOK
    <2>22. CASE Fail(s)
      BY <2>2, <2>22 DEF Fail, Answers, TypeOK
    <2> QED
      BY <1>2, <2>6, <2>7, <2>8, <2>9, <2>10, <2>11, <2>13, <2>14, <2>15, <2>16, <2>18, <2>19, <2>20, <2>21,
         <2>22 DEF Handles, Step
  <1>3. CASE UNCHANGED vars
    BY <1>3 DEF vars, TypeOK
  <1> QED
    BY <1>1, <1>2, <1>3, StepIsOf

(* What a request remembers are rows it knows.                             *)
LEMMA SessionStep ==
  ASSUME TypeOK, NEW s \in Reqs, Handles(s)
  PROVE  /\ \A k \in seen'[s] : k \in seen[s] \/ \E n \in members : k = Known(s, n)
         /\ leaving'[s] \in {None, leaving[s]} \/ \E m \in members : leaving'[s] = Known(s, m)
  <1> USE DEF Goto, At, Close, Answer, Enter, Calling, tables, session, TypeOK
  <1>1. ASSUME NEW m \in members, Depart(s, m)
        PROVE  /\ \A k \in seen'[s] : k \in seen[s] \/ \E n \in members : k = Known(s, n)
               /\ leaving'[s] = Known(s, m)
    BY <1>1 DEF Depart, In
  <1>2. CASE leave_household(s) \/ remove_member(s)
    BY <1>1, <1>2 DEF leave_household, remove_member, get_membership, Of, In
  <1>3. CASE ~(leave_household(s) \/ remove_member(s))
    <2>1. seen'[s] \in {{}, seen[s]} /\ leaving'[s] \in {None, leaving[s]}
      BY <1>3 DEF Handles, Step, _ensure_default_household, Replay, list_households, create_household,
           update_household, join_household, add_member, set_active_membership, remove_membership, reactivate,
           drop_household, delete_household, settle, update_member_role, respond, Fail, Found
    <2> QED
      BY <2>1
  <1> QED
    BY <1>2, <1>3

LEMMA IdsStep == TypeOK /\ Ids /\ Progress /\ [Next]_vars => Ids'
  <1> SUFFICES ASSUME TypeOK, Ids, Progress, [Next]_vars PROVE Ids'
    OBVIOUS
  <1>0. \A m \in members : m.id \in Nat /\ Recognised(m)
    BY DEF TypeOK, Ids, Recognised, Same, Membership
  <1>1. ASSUME NEW s \in Reqs, NEW c \in Calls, Receive(s, c) PROVE Ids'
    <2>1. UNCHANGED <<members, last, seen, leaving>> /\ \A q \in Reqs : held'[q] = (IF q = s THEN Of(c.user) ELSE held[q])
      BY <1>1, Received DEF tables
    <2>2. \A k : Recognised(k)' <=> Recognised(k)
      BY <2>1 DEF Recognised
    <2>3. Of(c.user) \subseteq members
      BY DEF Of
    <2> QED
      BY <1>0, <2>1, <2>2, <2>3 DEF Ids
  <1>2. ASSUME NEW s \in Reqs, Handles(s) PROVE Ids'
    <2> DEFINE Still(k) == k.id <= last' /\ \A m \in members' : m.id = k.id => Same(k, m)
               Rows == /\ \A m \in members' : m.id <= last'
                       /\ \A m, n \in members' : m.id = n.id => m = n
                       /\ \A k \in Membership : Recognised(k) => Still(k)
                       /\ \A k \in held'[s] : k \in held[s] \/ Still(k)
    <2>1. ASSUME Kept(members'), last' = last, held'[s] \subseteq held[s] PROVE Rows
      <3>1. (\A m \in members' : m.id <= last') /\ (\A m, n \in members' : m.id = n.id => m = n)
        BY <2>1 DEF Kept, Ids, Same
      <3>2. ASSUME NEW k \in Membership, Recognised(k) PROVE Still(k)
        BY <2>1, <3>2 DEF Kept, Recognised, Same
      <3> QED
        BY <2>1, <3>1, <3>2
    <2>2. ASSUME Adds(s) PROVE Rows
      <3>1. PICK m \in Membership :
              m.id = last + 1 /\ members' = members \cup {m} /\ last' = last + 1 /\ held'[s] = held[s] \cup {m}
        BY <2>2 DEF Adds
      <3>2. last \in Nat /\ \A k \in Membership : k.id \in Nat
        BY DEF TypeOK, Membership
      <3>3. \A k \in Membership : Recognised(k) => Still(k)
        BY <3>1, <3>2 DEF Recognised, Ids
      <3>4. Still(m)
        BY <1>0, <3>1, <3>2 DEF Recognised, Ids, Same
      <3>5. (\A x \in members' : x.id <= last') /\ (\A x, y \in members' : x.id = y.id => x = y)
        BY <1>0, <3>1, <3>2 DEF Ids
      <3> QED
        BY <3>1, <3>3, <3>4, <3>5
    <2>3. ASSUME Removes(s) PROVE Rows
      <3>1. members' \subseteq members /\ last' = last /\ held' = held
        BY <2>3 DEF Removes
      <3>2. ASSUME NEW k \in Membership, Recognised(k) PROVE Still(k)
        BY <3>1, <3>2 DEF Recognised
      <3> QED
        BY <3>1, <3>2 DEF Ids
    <2>4. Rows
      BY <1>2, <2>1, <2>2, <2>3, MembersStep
    <2>5. \A n \in members : Known(s, n) \in Membership /\ Recognised(Known(s, n))
      <3> SUFFICES ASSUME NEW n \in members PROVE Known(s, n) \in Membership /\ Recognised(Known(s, n))
        OBVIOUS
      <3>1. Known(s, n) \in Membership /\ Same(Known(s, n), n)
        BY KnownIsSame
      <3> QED
        BY <1>0, <3>1 DEF Recognised, Same
    <2>6. \A q \in Reqs : /\ held[q] \cup seen[q] \subseteq Membership /\ leaving[q] \in Membership \cup {None}
                          /\ \A k \in held[q] \cup seen[q] : Recognised(k)
                          /\ leaving[q] # None => Recognised(leaving[q])
      BY DEF Ids, TypeOK
    <2> HIDE DEF Rows, Still
    <2>7. ASSUME NEW q \in Reqs
          PROVE  /\ \A k \in held'[q] \cup seen'[q] : Still(k)
                 /\ leaving'[q] # None => Still(leaving'[q])
      <3>1. CASE q = s
        BY <1>2, <2>4, <2>5, <2>6, <3>1, SessionStep DEF Rows
      <3>2. CASE q # s
        BY <1>2, <2>4, <2>6, <3>2, Handled DEF Rows
      <3> QED
        BY <3>1, <3>2
    <2> QED
      BY <2>4, <2>7 DEF Ids, Rows, Recognised, Still
  <1>3. CASE UNCHANGED vars
    BY <1>3 DEF vars, tables, session, Ids, Recognised
  <1> QED
    BY <1>1, <1>2, <1>3, StepIsOf

---------------------------------------------------------------------------
(* Where requests are.                                                     *)
LEMMA HouseholdsStay ==
  ASSUME TypeOK, Ids, Progress, NEW s \in Reqs, Handles(s), NEW h \in Households, households[h] # "none"
  PROVE  households'[h] # "none"
  BY MembersStep DEF Adds, Removes, TypeOK

LEMMA StagedStep ==
  ASSUME TypeOK, Ids, Progress, NEW s \in Reqs, Handles(s) PROVE Staged(s)'
  <1> USE DEF Goto, At, Close, Answer, Enter, Calling, tables, session, TypeOK, Staged, Leaves, Leaver
  <1>0. /\ call[s] \in Calls /\ Staged(s) /\ call[s].op \in {"list", "create", "update", "join", "leave", "remove"}
        /\ call[s].op \in {"update", "join", "leave", "remove"} =>
             call[s].household \in Households /\ call[s].household # None
    BY Handled, CallFields DEF Progress
  <1>a. ASSUME NEW stage, stage \in {"lookup", "activate"}, Found(s, stage),
               stage = "activate" => call[s].op \in {"create", "list"}
        PROVE  Staged(s)'
    <2>1. PICK h \in Households : goal' = [goal EXCEPT ![s] = h]
      <3>1. \E h \in Unused : goal' = [goal EXCEPT ![s] = h]
        BY <1>a DEF Found
      <3> QED
        BY <3>1 DEF Unused
    <2>2. goal'[s] # None
      BY <2>1, NoneIsNothing
    <2>3. pc'[s] = stage /\ call' = call
      BY <1>a DEF Found
    <2> QED
      BY <1>a, <2>2, <2>3
  <1>1. CASE _ensure_default_household(s)
    BY <1>a, <1>1 DEF _ensure_default_household
  <1>2. CASE Replay(s) \/ list_households(s)
    BY <1>2 DEF Replay, list_households
  <1>3. CASE create_household(s)
    BY <1>0, <1>a, <1>3 DEF create_household
  <1>4. CASE update_household(s) \/ join_household(s)
    BY <1>0, <1>4 DEF update_household, join_household
  <1>5. CASE add_member(s)
    BY <1>0, <1>5 DEF add_member
  <1>6. CASE set_active_membership(s)
    BY <1>0, <1>6 DEF set_active_membership
  <1>7. ASSUME NEW m \in members, m.household = call[s].household, m.user = Leaver(s), Leaves(s), Depart(s, m)
        PROVE  Staged(s)'
    <2>1. Known(s, m) \in Membership /\ Same(Known(s, m), m)
      BY KnownIsSame
    <2> QED
      BY <1>0, <1>7, <2>1, NoneIsNothing DEF Depart, Same
  <1>8. CASE leave_household(s)
    BY <1>0, <1>7, <1>8 DEF leave_household, get_membership, Of, In
  <1>9. CASE remove_member(s)
    BY <1>0, <1>7, <1>9 DEF remove_member, get_membership, Of, In
  <1>10. CASE remove_membership(s)
    <2>1. Others(s) # {} => Heir(First(Others(s))) # None
      <3>1. Others(s) \subseteq Membership
        BY DEF Others
      <3> QED
        BY <3>1, FirstIsIn, NoneIsNothing DEF Heir, Membership
    <2>2. pc[s] = "remove" /\ UNCHANGED <<call, goal, leaving>>
          /\ heir'[s] = (IF call[s].op = "leave" /\ Others(s) # {} THEN Heir(First(Others(s))) ELSE None)
          /\ pc'[s] = (IF call[s].op = "leave" /\ Others(s) = {} THEN "drop"
                       ELSE IF leaving[s].active THEN "reactivate"
                       ELSE IF call[s].op = "leave" THEN AfterLeave(s) ELSE "settle")
      BY <1>10 DEF remove_membership
    <2> QED
      BY <1>0, <2>1, <2>2 DEF AfterLeave
  <1>11. CASE reactivate(s)
    BY <1>0, <1>11 DEF reactivate, AfterLeave
  <1>12. CASE drop_household(s)
    BY <1>0, <1>12 DEF drop_household, delete_household
  <1>13. CASE settle(s)
    <2>1. \A m \in In(call[s].household) : Heir(m) # None
      BY NoneIsNothing DEF In, Heir, Membership
    <2> QED
      BY <1>0, <1>13, <2>1 DEF settle, delete_household
  <1>14. CASE update_member_role(s)
    BY <1>0, <1>14 DEF update_member_role
  <1>15. CASE respond(s) \/ Fail(s)
    BY <1>15 DEF respond, Fail
  <1> QED
    BY <1>1, <1>2, <1>3, <1>4, <1>5, <1>6, <1>8, <1>9, <1>10, <1>11, <1>12, <1>13, <1>14, <1>15
       DEF Handles, Step

LEMMA ProgressStep == TypeOK /\ Ids /\ Progress /\ [Next]_vars => Progress'
  <1> SUFFICES ASSUME TypeOK, Ids, Progress, [Next]_vars PROVE Progress'
    OBVIOUS
  <1>0. None \notin Answers
    BY NoneIsNothing
  <1>1. ASSUME NEW s \in Reqs, NEW c \in Calls, Receive(s, c) PROVE Progress'
    <2>1. c # None /\ households' = households /\ c.household \in Households \cup {None}
      BY <1>1, Received, CallFields DEF tables
    <2>2. \A q \in Reqs : pc[q] = "done" => pc'[q] = "done"
      BY <1>1, Received
    <2>3. Staged(s)' /\ code[s] = None
      BY <1>1, Received DEF Staged, Progress
    <2>4. ASSUME NEW q \in Reqs, q # s PROVE Staged(q)'
      <3>1. /\ pc'[q] = pc[q] /\ call'[q] = call[q] /\ goal'[q] = goal[q] /\ leaving'[q] = leaving[q]
            /\ heir'[q] = heir[q] /\ Staged(q)
        BY <1>1, <2>4, Received DEF Progress
      <3> QED
        BY <3>1 DEF Staged, Leaves, Leaver
    <2> QED
      BY <1>1, <2>1, <2>2, <2>3, <2>4, Received DEF Progress
  <1>2. ASSUME NEW s \in Reqs, Handles(s) PROVE Progress'
    <2>1. \A q \in Reqs : pc[q] = "done" => pc'[q] = "done"
      BY <1>2, Handled
    <2>2. \A q \in Reqs : call[q] # None /\ call[q].household # None => households'[call[q].household] # "none"
      <3> SUFFICES ASSUME NEW q \in Reqs, call[q] # None, call[q].household # None
                   PROVE  households'[call[q].household] # "none"
        OBVIOUS
      <3>1. call[q].household \in Households /\ households[call[q].household] # "none"
        BY CallFields DEF TypeOK, Progress
      <3> QED
        BY <1>2, <3>1, HouseholdsStay
    <2>3. ASSUME NEW q \in Reqs PROVE Staged(q)'
      <3>1. CASE q = s
        BY <1>2, <3>1, StagedStep
      <3>2. CASE q # s
        <4>1. /\ pc'[q] = pc[q] /\ call'[q] = call[q] /\ goal'[q] = goal[q] /\ leaving'[q] = leaving[q]
              /\ heir'[q] = heir[q] /\ Staged(q)
          BY <1>2, <3>2, Handled DEF Progress
        <4> QED
          BY <4>1 DEF Staged, Leaves, Leaver
      <3> QED
        BY <3>1, <3>2
    <2>4. (pc'[s] = "done") = (code'[s] # None)
      BY <1>0, <1>2, Handled, Answering DEF Progress
    <2> QED
      BY <1>2, <2>1, <2>2, <2>3, <2>4, Handled DEF Progress
  <1>3. CASE UNCHANGED vars
    BY <1>3 DEF vars, tables, session, Progress, Staged, Leaves, Leaver
  <1> QED
    BY <1>1, <1>2, <1>3, StepIsOf

(* An answer, a call and what was answered before it never change.         *)
LEMMA HistoryStep ==
  ASSUME TypeOK, Progress, [Next]_vars, NEW r \in Reqs
  PROVE  /\ call[r] # None => call'[r] = call[r] /\ earlier'[r] = earlier[r]
         /\ code[r] # None => code'[r] = code[r] /\ pc'[r] = pc[r]
  <1>1. CASE UNCHANGED vars
    BY <1>1 DEF vars, session
  <1>2. ASSUME NEW s \in Reqs, NEW c \in Calls, Receive(s, c)
        PROVE  (r # s \/ pc[r] = "idle") /\ code' = code
    BY <1>2, Received
  <1>3. ASSUME NEW s \in Reqs, Handles(s)
        PROVE  call' = call /\ earlier' = earlier /\ (r # s \/ pc[r] # "done")
    BY <1>3, Handled
  <1>4. (pc[r] = "idle") = (call[r] = None) /\ (pc[r] = "done") = (code[r] # None)
    BY DEF Progress
  <1> QED
    BY <1>1, <1>2, <1>3, <1>4, StepIsOf, Received, Handled

(* Only a call that is carried out for the first time has an effect.       *)
LEMMA NoSecondEffectStep == TypeOK /\ Progress /\ NoSecondEffect /\ [Next]_vars => NoSecondEffect'
  <1> SUFFICES ASSUME TypeOK, Progress, NoSecondEffect, [Next]_vars, NEW r \in Reqs
               PROVE  /\ code'[r] = "200" => call'[r].key = None \/ call'[r] \in cache'
                      /\ Acts(r)' /\ pc'[r] # "done" =>
                           \/ call'[r].key = None
                           \/ \A p \in earlier'[r] : call'[p] = call'[r] => code'[p] # "200"
    BY DEF NoSecondEffect
  <1>0. cache \subseteq cache' /\ None # "200"
    BY StepIsOf, Answering, Received, NoneIsNothing DEF vars, tables, Answers
  <1>1. CASE call[r] = None
    <2>1. pc[r] = "idle" /\ code[r] = None
      BY <1>1 DEF Progress
    <2>2. code'[r] # "200" /\ ~Acts(r)'
      BY <1>0, <2>1, StepIsOf, Handled, Received DEF Acts, vars
    <2> QED
      BY <2>2
  <1>2. CASE call[r] # None
    <2>1. call'[r] = call[r] /\ earlier'[r] = earlier[r] /\ pc[r] # "idle"
      BY <1>2, HistoryStep DEF Progress
    <2>2. \A p \in earlier[r] : call'[p] = call[p] /\ code'[p] = code[p] /\ p \in Reqs
      <3>1. \A p \in earlier[r] : p \in Reqs /\ call[p] # None /\ code[p] # None
        BY DEF Progress
      <3> QED
        BY <3>1, HistoryStep
    <2>3. CASE Handles(r)
      <3>1. code'[r] = "200" => call[r].key = None \/ call[r] \in cache'
        BY <1>0, <2>3, Handled, Answering DEF Progress
      <3>2. Acts(r)' /\ pc'[r] # "done" =>
              call[r].key = None \/ \A p \in earlier[r] : call[p] = call[r] => code[p] # "200"
        <4>1. CASE Acts(r)
          BY <2>3, <4>1, Handled DEF NoSecondEffect
        <4>2. CASE ~Acts(r)
          BY <2>2, <2>3, <4>2, Answering DEF NoSecondEffect
        <4> QED
          BY <4>1, <4>2
      <3> QED
        BY <2>1, <2>2, <3>1, <3>2
    <2>4. CASE ~Handles(r)
      <3>1. pc'[r] = pc[r] /\ code'[r] = code[r]
        BY <2>1, <2>4, StepIsOf, Handled, Received DEF vars
      <3> QED
        BY <1>0, <2>1, <2>2, <3>1 DEF NoSecondEffect, Acts
    <2> QED
      BY <2>3, <2>4
  <1> QED
    BY <1>1, <1>2

---------------------------------------------------------------------------
(* What may undo a call: it keeps its standing, and a call that is carried *)
(* out while another has been received may undo that one.                  *)
LEMMA UndoStays ==
  ASSUME TypeOK, Progress, [Next]_vars, NEW q \in Reqs, NEW r \in Reqs, call[r] # None,
         MayUndo(q, r), Acts(q), call[q].op \in {"leave", "remove", "join"}
  PROVE  MayUndo(q, r)' /\ Acts(q)' /\ call'[q] = call[q] /\ earlier'[q] = earlier[q]
  <1>1. call[q] # None /\ earlier[q] \subseteq Reqs
    BY DEF MayUndo, TypeOK
  <1>2. call'[q] = call[q] /\ earlier'[q] = earlier[q] /\ earlier'[r] = earlier[r]
    BY <1>1, HistoryStep
  <1>3. \A p \in earlier[q] : call'[p] = call[p] /\ code'[p] = code[p]
    <2>1. \A p \in earlier[q] : p \in Reqs /\ call[p] # None /\ code[p] # None
      BY <1>1 DEF Progress
    <2> QED
      BY <2>1, HistoryStep
  <1>4. Acts(q)' /\ code'[q] \notin {"403", "404", "replay"}
    <2>1. CASE code[q] # None
      BY <2>1, HistoryStep DEF MayUndo, Progress, Acts
    <2>2. CASE code[q] = None
      <3>1. pc[q] \notin {"idle", "default", "lookup", "done"} /\ None \notin Answers
        BY <2>2, NoneIsNothing DEF Acts, Progress
      <3>2. CASE Handles(q)
        BY <2>2, <3>1, <3>2, Handled, Answering DEF Answers
      <3>3. CASE ~Handles(q)
        <4>1. pc'[q] = pc[q] /\ code'[q] = code[q]
          BY <3>1, <3>3, StepIsOf, Handled, Received DEF vars
        <4> QED
          BY <2>2, <3>1, <4>1 DEF Acts, Answers
      <3> QED
        BY <3>2, <3>3
    <2> QED
      BY <2>1, <2>2
  <1> QED
    BY <1>2, <1>3, <1>4 DEF MayUndo

LEMMA UndoStarts ==
  ASSUME TypeOK, Progress, NoSecondEffect, NEW q \in Reqs, NEW r \in Reqs, q # r, call[r] # None,
         Acts(q), pc[q] # "done", call[q].op # "list"
  PROVE  MayUndo(q, r)
  <1>1. code[q] = None /\ call[q] # None /\ None \notin Answers /\ call[q].key # None
    BY NoneIsNothing, CallFields DEF Progress, Acts, TypeOK
  <1>2. q \notin earlier[r]
    BY DEF Progress
  <1>3. \A p \in earlier[q] : call[p] = call[q] => code[p] # "200"
    BY <1>1 DEF NoSecondEffect
  <1> QED
    BY <1>1, <1>2, <1>3 DEF MayUndo, Answers

LEMMA UndoneStays ==
  ASSUME TypeOK, Progress, [Next]_vars, NEW r \in Reqs, call[r] # None, goal'[r] = goal[r], Undone(r)
  PROVE  Undone(r)'
  <1>1. PICK q \in Reqs : MayUndo(q, r) /\ Acts(q) /\ Departure(q, call[r].user, goal[r])
    BY DEF Undone
  <1>2. MayUndo(q, r)' /\ Acts(q)' /\ call'[q] = call[q] /\ call'[r] = call[r]
    BY <1>1, UndoStays, HistoryStep DEF Departure
  <1> QED
    BY <1>1, <1>2 DEF Undone, Departure

LEMMA RejoinedStays ==
  ASSUME TypeOK, Progress, [Next]_vars, NEW r \in Reqs, call[r] # None, Rejoined(r)
  PROVE  Rejoined(r)'
  <1>1. PICK q \in Reqs : /\ MayUndo(q, r) /\ Acts(q)
                          /\ call[q].op = "join" /\ call[q].user = Leaver(r)
                          /\ call[q].household = call[r].household
    BY DEF Rejoined
  <1>2. MayUndo(q, r)' /\ Acts(q)' /\ call'[q] = call[q] /\ call'[r] = call[r]
    BY <1>1, UndoStays, HistoryStep
  <1> QED
    BY <1>1, <1>2 DEF Rejoined, Leaver

---------------------------------------------------------------------------
(* Who has entered is a member.                                            *)
LEMMA EnterStep ==
  ASSUME TypeOK, Ids, Progress, NEW r \in Reqs, Handles(r), Enters(r)'
  PROVE  \/ Enters(r) /\ goal'[r] = goal[r] /\ ~Adds(r) /\ ~Removes(r)
         \/ Adds(r)
         \/ /\ goal'[r] = call[r].household /\ goal'[r] # None /\ members' = members
            /\ get_membership(call[r].household, call[r].user) # {}
  <1> USE DEF Goto, At, Close, Answer, Enter, Calling, tables, session, TypeOK
  <1>1. /\ call' = call /\ call[r] \in Calls /\ call[r] # None /\ call[r].op \in {"create", "join", "update"}
        /\ pc'[r] \in {"activate", "respond"} \/ code'[r] = "200"
    BY Handled, CallFields DEF Enters, Progress
  <1>2. None # "200" /\ (pc[r] # "done" /\ code[r] = None)
    BY Handled, NoneIsNothing DEF Progress, Answers
  <1>3. CASE pc[r] \in {"activate", "respond"}
    <2>1. set_active_membership(r) \/ respond(r) \/ Fail(r)
      BY <1>1, <1>3 DEF Handles, Step, _ensure_default_household, Replay, list_households, create_household,
           update_household, join_household, add_member, leave_household, remove_member, remove_membership,
           reactivate, drop_household, settle, update_member_role
    <2>2. goal'[r] = goal[r]
      BY <2>1 DEF set_active_membership, respond, Fail
    <2> QED
      BY <1>1, <1>3, <2>2 DEF Enters, Adds, Removes
  <1>4. CASE pc[r] \notin {"activate", "respond"}
    <2>0. pc'[r] \in {"activate", "respond"} /\ pc[r] # "create"
      BY <1>1, <1>2, <1>4, Handled, Answering DEF Progress, Staged
    <2>1. CASE update_household(r) \/ join_household(r)
      <3>1. call[r].household # None
        BY <1>1, <2>1, CallFields DEF update_household, join_household
      <3> QED
        BY <2>0, <2>1, <3>1 DEF update_household, join_household
    <2>2. CASE ~(update_household(r) \/ join_household(r))
      <3>1. create_household(r) \/ add_member(r)
        BY <1>1, <1>4, <2>0, <2>2 DEF Handles, Step, _ensure_default_household, Found, Replay, list_households,
           set_active_membership, leave_household, remove_member, Depart, remove_membership,
           reactivate, drop_household, settle, update_member_role, respond, Fail, Progress, Staged, Leaves
      <3>2. CASE create_household(r)
        <4>1. Found(r, "activate") /\ pc[r] = "lookup" /\ call[r].op = "create"
          BY <2>0, <3>2 DEF create_household
        <4> QED
          BY <1>1, <4>1, FoundAdds DEF Adds
      <3>3. CASE add_member(r)
        BY <1>1, <2>0, <3>3, AddMemberAdds
      <3> QED
        BY <3>1, <3>2, <3>3
    <2> QED
      BY <2>1, <2>2
  <1> QED
    BY <1>3, <1>4

LEMMA MemberKeptStep ==
  TypeOK /\ Ids /\ Progress /\ NoSecondEffect /\ MemberKept /\ [Next]_vars => MemberKept'
  <1> DEFINE Member(h, u) == \E m \in members : m.household = h /\ m.user = u
  <1>a. \A h, u : get_membership(h, u) # {} <=> Member(h, u)
    BY DEF get_membership, Of, In
  <1> SUFFICES ASSUME TypeOK, Ids, Progress, NoSecondEffect, MemberKept, [Next]_vars, NEW r \in Reqs, Enters(r)'
               PROVE  goal'[r] # None /\ (~Undone(r)' => Member(goal[r], call[r].user)')
    BY DEF MemberKept, get_membership, Of, In
  <1>0. None # "200"
    BY NoneIsNothing DEF Answers
  <1>1. call[r] # None
    <2> SUFFICES ASSUME call[r] = None PROVE FALSE
      OBVIOUS
    <2>1. pc[r] = "idle" /\ code[r] = None
      BY DEF Progress
    <2> QED
      BY <1>0, <2>1, StepIsOf, Handled, Received DEF Enters, vars
  <1>2. call'[r] = call[r]
    BY <1>1, HistoryStep
  <1>3. ASSUME Enters(r), goal'[r] = goal[r], ~Undone(r)' PROVE goal[r] # None /\ ~Undone(r) /\ Member(goal[r], call[r].user)
    BY <1>a, <1>1, <1>3, UndoneStays DEF MemberKept
  <1>4. \A h, u : Kept(members') /\ Member(h, u) => Member(h, u)'
    BY DEF Kept, Same
  <1>5. \A h, u, s : Adds(s) /\ Member(h, u) => Member(h, u)'
    BY DEF Adds
  <1>6. CASE Handles(r)
    <2>1. CASE Adds(r)
      <3>1. PICK m \in Membership : m.user = call[r].user /\ goal'[r] = m.household /\ members' = members \cup {m}
        BY <2>1 DEF Adds
      <3>2. m.household # None
        BY NoneIsNothing DEF Membership
      <3> QED
        BY <1>2, <3>1, <3>2
    <2>2. CASE ~Adds(r) /\ Enters(r) /\ goal'[r] = goal[r] /\ ~Removes(r)
      <3>1. Kept(members')
        BY <1>6, <2>2, MembersStep
      <3>2. goal[r] # None
        BY <2>2 DEF MemberKept
      <3> QED
        BY <1>2, <1>3, <1>4, <2>2, <3>1, <3>2
    <2>3. CASE /\ goal'[r] = call[r].household /\ goal'[r] # None /\ members' = members
               /\ get_membership(call[r].household, call[r].user) # {}
      BY <1>2, <1>a, <2>3
    <2> QED
      BY <1>6, <2>1, <2>2, <2>3, EnterStep
  <1>7. CASE ~Handles(r)
    <2>1. Enters(r) /\ goal'[r] = goal[r]
      BY <1>1, <1>2, <1>7, StepIsOf, Handled, Received DEF Enters, Progress, vars, session
    <2>2. goal[r] # None
      BY <2>1 DEF MemberKept
    <2>3. CASE UNCHANGED members
      BY <1>2, <1>3, <2>1, <2>2, <2>3
    <2>4. ASSUME NEW s \in Reqs, Handles(s), ~Undone(r)' PROVE Member(goal[r], call[r].user)'
      <3>1. Member(goal[r], call[r].user) /\ ~Undone(r) /\ s # r
        BY <1>3, <1>7, <2>1, <2>4
      <3>2. CASE Kept(members')
        BY <1>2, <1>4, <2>1, <3>1, <3>2
      <3>3. CASE Adds(s)
        BY <1>2, <1>5, <2>1, <3>1, <3>3
      <3>4. CASE Removes(s)
        <4>1. PICK m \in members : m.household = goal[r] /\ m.user = call[r].user
          BY <3>1
        <4>2. m \in members'
          <5> SUFFICES ASSUME m.id = leaving[s].id PROVE FALSE
            BY <3>4 DEF Removes
          <5>1. pc[s] = "remove" /\ Leaves(s) /\ leaving[s].household = call[s].household /\ leaving[s].user = Leaver(s)
                /\ leaving[s] # None
            BY <3>4 DEF Removes, Progress, Staged
          <5>2. Same(leaving[s], m)
            BY <5>1 DEF Ids, Recognised
          <5>3. Departure(s, call[r].user, goal[r])
            BY <4>1, <5>1, <5>2 DEF Departure, Same, Leaver, Leaves
          <5>4. MayUndo(s, r) /\ Acts(s)
            BY <1>1, <3>1, <5>1, UndoStarts DEF Acts, Leaves
          <5> QED
            BY <3>1, <5>3, <5>4 DEF Undone
        <4> QED
          BY <1>2, <2>1, <4>1, <4>2
      <3> QED
        BY <2>4, <3>2, <3>3, <3>4, MembersStep
    <2>5. UNCHANGED members \/ \E s \in Reqs : Handles(s)
      BY StepIsOf, Received DEF vars, tables
    <2> QED
      BY <1>2, <2>1, <2>2, <2>3, <2>4, <2>5
  <1> QED
    BY <1>6, <1>7

(* Who has left is out.                                                    *)
Later == {"drop", "reactivate", "settle", "promote", "respond"}

LEMMA LeaveStep ==
  ASSUME TypeOK, Ids, Progress, NEW r \in Reqs, Handles(r), Leaves(r)
  PROVE  /\ pc'[r] = "remove" =>
              /\ members' = members
              /\ \A m \in get_membership(call[r].household, Leaver(r)) : m.id = leaving'[r].id
         /\ pc'[r] \in Later \/ code'[r] = "200" => Removes(r) \/ (pc[r] \in Later /\ Kept(members'))
  <1> USE DEF Goto, At, Close, Answer, Enter, Calling, tables, session, TypeOK
  <1>0. /\ call' = call /\ call[r] \in Calls /\ call[r].op \in {"leave", "remove"}
        /\ pc[r] \notin {"idle", "done"} /\ code[r] = None /\ None # "200"
    BY Handled, CallFields, NoneIsNothing DEF Leaves, Progress, Answers
  <1>1. ASSUME NEW R, R \subseteq members, ~Ambiguous(R), \E m \in R : Depart(r, m)
        PROVE  members' = members /\ \A n \in R : n.id = leaving'[r].id
    <2>1. PICK m \in R : Depart(r, m)
      BY <1>1
    <2>2. members' = members /\ leaving'[r] = Known(r, m)
      BY <2>1 DEF Depart
    <2>3. Same(Known(r, m), m)
      BY <1>1, KnownIsSame
    <2>4. R = {m}
      BY <1>1, Alone
    <2> QED
      BY <2>2, <2>3, <2>4 DEF Same
  <1>2. CASE leave_household(r)
    <2>1. pc'[r] # "done" => /\ ~Ambiguous(get_membership(call[r].household, call[r].user))
                             /\ \E m \in get_membership(call[r].household, call[r].user) : Depart(r, m)
      BY <1>2 DEF leave_household
    <2>2. Leaver(r) = call[r].user
      BY <1>2 DEF leave_household, Leaver
    <2>3. get_membership(call[r].household, call[r].user) \subseteq members
      BY DEF get_membership, Of
    <2>4. pc'[r] \in {"done", "remove"} /\ code'[r] # "200"
      BY <1>0, <1>2 DEF leave_household, Depart
    <2> QED
      BY <1>1, <2>1, <2>2, <2>3, <2>4 DEF Later
  <1>3. CASE remove_member(r)
    <2>1. pc'[r] # "done" => /\ ~Ambiguous(get_membership(call[r].household, call[r].target))
                             /\ \E m \in get_membership(call[r].household, call[r].target) : Depart(r, m)
      BY <1>3 DEF remove_member
    <2>2. Leaver(r) = call[r].target
      BY <1>3 DEF remove_member, Leaver
    <2>3. get_membership(call[r].household, call[r].target) \subseteq members
      BY DEF get_membership, Of
    <2>4. pc'[r] \in {"done", "remove"} /\ code'[r] # "200"
      BY <1>0, <1>3 DEF remove_member, Depart
    <2> QED
      BY <1>1, <2>1, <2>2, <2>3, <2>4 DEF Later
  <1>4. CASE ~(leave_household(r) \/ remove_member(r))
    <2>1. pc'[r] # "remove"
      BY <1>0, <1>4 DEF Handles, Step, _ensure_default_household, Found, Replay, list_households, create_household,
           update_household, join_household, add_member, set_active_membership, remove_membership, AfterLeave,
           reactivate, drop_household, delete_household, settle, update_member_role, respond, Fail
    <2>2. pc'[r] \in Later \/ code'[r] = "200" => pc[r] \in Later \cup {"remove"}
      <3>1. code'[r] = "200" => pc[r] = "respond"
        BY <1>0, Handled, Answering
      <3>2. pc'[r] \in Later => pc[r] \in Later \cup {"remove"}
        BY <1>0, <1>4 DEF Later, Handles, Step, _ensure_default_household, Found, Replay, list_households,
             create_household, update_household, join_household, add_member, set_active_membership,
             remove_membership, reactivate, drop_household, delete_household, settle, update_member_role,
             respond, Fail, Progress, Staged
      <3> QED
        BY <3>1, <3>2 DEF Later
    <2>3. pc[r] = "remove" => Removes(r) \/ (pc'[r] = "done" /\ code'[r] # "200")
      BY <1>0, <1>4, MembersStep, Answering DEF Handles, Step, _ensure_default_household, Found, Replay,
           list_households, create_household, update_household, join_household, add_member,
           set_active_membership, remove_membership, reactivate, drop_household, settle,
           update_member_role, respond, Fail, Removes, AfterLeave
    <2>4. pc[r] \in Later => Kept(members')
      BY MembersStep DEF Later, Adds, Removes
    <2> QED
      BY <2>1, <2>2, <2>3, <2>4 DEF Later
  <1> QED
    BY <1>2, <1>3, <1>4

LEMMA LeaverKeptStep ==
  TypeOK /\ Ids /\ Progress /\ NoSecondEffect /\ LeaverKept /\ [Next]_vars => LeaverKept'
  <1> DEFINE Member(M, h, u) == \E m \in M : m.household = h /\ m.user = u
             Only(M, h, u, i) == \A m \in M : m.household = h /\ m.user = u => m.id = i
             Out(q) == pc[q] \in Later \/ code[q] = "200"
  <1>a. \A q : LET R == get_membership(call[q].household, Leaver(q))
               IN  /\ R = {} <=> ~Member(members, call[q].household, Leaver(q))
                   /\ \A i : (\A m \in R : m.id = i) <=> Only(members, call[q].household, Leaver(q), i)
    BY DEF get_membership, Of, In
  <1> SUFFICES ASSUME TypeOK, Ids, Progress, NoSecondEffect, LeaverKept, [Next]_vars,
                      NEW r \in Reqs, call'[r] # None, Leaves(r)', ~Rejoined(r)'
               PROVE  /\ pc'[r] = "remove" => Only(members', call'[r].household, Leaver(r)', leaving'[r].id)
                      /\ Out(r)' => ~Member(members', call'[r].household, Leaver(r)')
    BY DEF LeaverKept, Later, get_membership, Of, In
  <1>0. None # "200" /\ Later \subseteq Stages \ {"idle", "default", "lookup", "remove", "done"}
    BY NoneIsNothing DEF Answers, Later, Stages
  <1>1. CASE call[r] = None
    <2>1. pc[r] = "idle" /\ code[r] = None
      BY <1>1 DEF Progress
    <2>2. pc'[r] \in {"idle", "default", "lookup"} /\ code'[r] = None
      BY <2>1, StepIsOf, Handled, Received DEF vars
    <2> QED
      BY <1>0, <2>2
  <1>2. CASE call[r] # None
    <2> DEFINE h == call[r].household
               u == Leaver(r)
               Still == /\ ~Member(members, h, u) => ~Member(members', h, u)
                        /\ \A i : Only(members, h, u, i) => Only(members', h, u, i)
    <2>1. call'[r] = call[r] /\ Leaver(r)' = u /\ Leaves(r) /\ call[r] \in Calls /\ h \in Households
          /\ households[h] # "none" /\ pc[r] # "idle"
      BY <1>2, HistoryStep, CallFields DEF Leaver, Leaves, TypeOK, Progress
    <2>2. ~Rejoined(r)
      BY <1>2, RejoinedStays
    <2>3. /\ pc[r] = "remove" => Only(members, h, u, leaving[r].id)
          /\ Out(r) => ~Member(members, h, u)
      BY <1>a, <1>2, <2>1, <2>2, ZenonT(40) DEF LeaverKept, Later
    <2>4. ASSUME Kept(members') PROVE Still
      BY <2>4 DEF Kept, Same
    <2>5. ASSUME NEW s \in Reqs, Handles(s), Adds(s), s # r
          PROVE  Still
      <3>1. PICK m : members' = members \cup {m} /\ m.user = call[s].user
                     /\ \/ households[m.household] = "none"
                        \/ pc[s] = "add" /\ m.household = goal[s]
        BY <2>5 DEF Adds
      <3>2. ~(m.household = h /\ m.user = u)
        <4> SUFFICES ASSUME m.household = h, m.user = u PROVE FALSE
          OBVIOUS
        <4>1. pc[s] = "add" /\ call[s].op = "join" /\ call[s].household = h /\ call[s].user = u
          BY <2>1, <3>1 DEF Progress, Staged
        <4>2. MayUndo(s, r) /\ Acts(s)
          BY <1>2, <2>5, <4>1, UndoStarts DEF Acts
        <4> QED
          BY <2>2, <4>1, <4>2 DEF Rejoined
      <3> QED
        BY <3>1, <3>2
    <2>6. ASSUME NEW s, Removes(s) PROVE Still
      BY <2>6 DEF Removes
    <2>7. CASE Handles(r)
      <3>1. pc'[r] = "remove" => Only(members', h, u, leaving'[r].id)
        BY <2>1, <2>7, LeaveStep DEF get_membership, Of, In
      <3>2. ASSUME Removes(r) PROVE ~Member(members', h, u)
        BY <2>3, <3>2 DEF Removes
      <3>3. ASSUME pc[r] \in Later, Kept(members') PROVE ~Member(members', h, u)
        BY <2>3, <2>4, <3>3
      <3>4. Out(r)' => ~Member(members', h, u)
        BY <2>1, <2>7, <3>2, <3>3, LeaveStep
      <3> QED
        BY <2>1, <3>1, <3>4
    <2>8. CASE ~Handles(r)
      <3>1. pc'[r] = pc[r] /\ code'[r] = code[r] /\ leaving'[r] = leaving[r]
        BY <2>1, <2>8, StepIsOf, Handled, Received DEF vars, session
      <3>2. Still
        <4>1. UNCHANGED members \/ \E s \in Reqs : Handles(s) /\ s # r
          BY <2>8, StepIsOf, Received DEF vars, tables
        <4> QED
          BY <2>4, <2>5, <2>6, <4>1, MembersStep
      <3> QED
        BY <2>1, <2>3, <3>1, <3>2
    <2> QED
      BY <2>7, <2>8
  <1> QED
    BY <1>1, <1>2

---------------------------------------------------------------------------
(* Theorems.                                                               *)

(* What keeps the promises below holds in every state that can be reached. *)
THEOREM KeptInvariantHolds == Spec => []KeptInvariant
  <1>1. KeptInvariant /\ [Next]_vars => KeptInvariant'
    BY TypeStep, IdsStep, ProgressStep, NoSecondEffectStep, MemberKeptStep, LeaverKeptStep DEF KeptInvariant
  <1> QED
    BY InvariantInit, <1>1, PTL DEF Spec

(* The tables and what each request remembers keep their types: a session   *)
(* holds memberships, and only a departure names an heir (service.py).      *)
THEOREM TypeCorrectness == Spec => []TypeOK
  <1>1. KeptInvariant => TypeOK
    BY DEF KeptInvariant
  <1> QED
    BY KeptInvariantHolds, <1>1, PTL

(* What a member was told of a membership stays true until somebody asks   *)
(* for something else, however many requests overlap or die.               *)
THEOREM AckedChangesAreKept == Spec => []AckedChangesStay
  <1>1. KeptInvariant => AckedChangesStay
    <2> SUFFICES ASSUME KeptInvariant PROVE AckedMemberStays /\ AckedLeaverStaysOut
      BY DEF AckedChangesStay
    <2>0. \A r \in Reqs : code[r] = "200" => call[r] # None
      BY NoneIsNothing DEF KeptInvariant, Progress, Answers
    <2>1. AckedMemberStays
      <3> SUFFICES ASSUME NEW r \in Reqs, code[r] = "200", call[r].op \in {"create", "join", "update"}
                   PROVE  Undone(r) \/ get_membership(goal[r], call[r].user) # {}
        BY DEF AckedMemberStays, Undone
      <3> QED
        BY <2>0 DEF KeptInvariant, MemberKept, Enters
    <2>2. AckedLeaverStaysOut
      <3> SUFFICES ASSUME NEW r \in Reqs, NEW u \in Users, code[r] = "200", Leaves(r),
                          Departure(r, u, call[r].household)
                   PROVE  \/ get_membership(call[r].household, u) = {}
                          \/ \E q \in Reqs : /\ MayUndo(q, r)
                                             /\ call[q].op = "join" /\ call[q].user = u
                                             /\ call[q].household = call[r].household
        BY DEF AckedLeaverStaysOut, Leaves
      <3>1. Leaver(r) = u
        BY DEF Departure, Leaver
      <3>2. Rejoined(r) \/ get_membership(call[r].household, u) = {}
        BY <2>0, <3>1 DEF KeptInvariant, LeaverKept
      <3> QED
        BY <3>1, <3>2 DEF Rejoined
    <2> QED
      BY <2>1, <2>2
  <1> QED
    BY KeptInvariantHolds, <1>1, PTL

---------------------------------------------------------------------------
(* Requests one by one: what the request in flight still owes to the owner *)
(* of its household and to the activity of a user, and that all the rest   *)
(* is in order.                                                            *)
SingleMembership == \A m, n \in members : m.user = n.user /\ m.household = n.household => m = n
Housed == \A m \in members : households[m.household] = "open"

NoOwner(h) == \A m \in In(h) : m.role # "owner"
Owned(h) ==
  households[h] = "open" /\ h \notin abandoned =>
    \E m \in In(h) : m.role = "owner" /\ \A n \in In(h) : n.role = "owner" => n = m

AtMostOneActive(u) == \A m, n \in Of(u) : m.active /\ n.active => m = n
NoneActive(u) == \A m \in Of(u) : ~m.active
Settled(u) == AtMostOneActive(u) /\ (NoneActive(u) => Of(u) = {} \/ LeftLast(u))

Endows(r, h) ==
  /\ h = call[r].household
  /\ pc[r] = "drop" \/ (pc[r] \in {"reactivate", "settle", "promote"} /\ leaving[r].role = "owner")

Rouses(r, u) ==
  \/ pc[r] \in {"activate", "drop"} /\ u = call[r].user
  \/ pc[r] = "reactivate" /\ u = leaving[r].user
  \/ pc[r] = "respond" /\ call[r].op = "leave" /\ u = call[r].user /\ households[call[r].household] = "deleted"

(* The session holds rows as they are.                                     *)
Agrees(r) == \A k \in held[r] : \A m \in members : k.id = m.id => k = m
RolesAgree(r) == \A k \in held[r] : \A m \in members : k.id = m.id => k.role = m.role

(* What the tables look like to the request at each stage.                 *)
InOrder(r) ==
  LET u == call[r].user
      h == call[r].household
  IN  /\ pc[r] # "create"
      /\ pc[r] \in {"default", "lookup", "add", "activate", "remove", "reactivate"} => Agrees(r)
      /\ pc[r] = "settle" => RolesAgree(r)
      /\ pc[r] = "default" => Of(u) = {}
      /\ pc[r] = "lookup" => Of(u) # {}
      /\ pc[r] = "add" => households[goal[r]] = "open" /\ get_membership(goal[r], u) = {}
      /\ pc[r] = "activate" => get_membership(goal[r], u) # {}
      /\ pc[r] = "remove" => leaving[r] \in members /\ (call[r].op = "leave" => seen[r] = In(h))
      /\ pc[r] = "drop" => households[h] = "open" /\ In(h) = {} /\ AtMostOneActive(u)
      /\ pc[r] = "reactivate" => /\ NoneActive(leaving[r].user)
                                 /\ call[r].op = "leave" => Others(r) = In(h) /\ In(h) # {}
      /\ pc[r] \in {"reactivate", "settle", "promote"} =>
           leaving[r].role # "owner" \/ h \in abandoned \/ NoOwner(h)
      /\ pc[r] = "promote" => leaving[r].role = "owner"
      /\ pc[r] = "promote" \/ (pc[r] = "reactivate" /\ call[r].op = "leave") =>
           get_membership(h, heir[r]) # {}
      /\ pc[r] = "respond" => ~Lost(r) /\ AtMostOneActive(u)

Excused(r) == code[r] = "500" => Leaves(r) /\ call[r].household \in abandoned

(* All is in order but for what r still owes.                              *)
Order(r) ==
  /\ SingleMembership /\ Housed
  /\ \A h \in Households : Owned(h) \/ Endows(r, h)
  /\ \A u \in Users : Settled(u) \/ Rouses(r, u)
  /\ pc[r] # "done" => InOrder(r)
  /\ Excused(r)

CalmInvariant ==
  Calm =>
    /\ SingleMembership /\ Housed
    /\ Rest => (\A h \in Households : Owned(h)) /\ (\A u \in Users : Settled(u))
    /\ \A r \in InFlight : Order(r)
    /\ \A r \in Reqs : Excused(r)

---------------------------------------------------------------------------
(* Calm: at most one request is in flight.                                 *)
LEMMA CalmIsSerial ==
  ASSUME TypeOK, Progress, Calm, NEW q \in InFlight, NEW r \in InFlight PROVE q = r
  <1>1. \A x \in InFlight : x \in Reqs /\ x \in Nat /\ pc[x] # "done" /\ earlier[x] = {y \in Reqs : y < x}
    BY MembershipAssumption DEF InFlight, Calm, Overlapping, Progress
  <1>2. ASSUME NEW x \in InFlight, NEW y \in InFlight PROVE ~(x < y)
    BY <1>1 DEF Progress
  <1> QED
    BY <1>1, <1>2

LEMMA CalmReception ==
  ASSUME TypeOK, Progress, NEW s \in Reqs, NEW c \in Calls, Receive(s, c), Calm' PROVE InFlight = {} /\ InFlight' = {s}
  <1>1. /\ pc[s] = "idle" /\ \A q \in Reqs : pc[q] = "idle" => s <= q
        /\ pc'[s] \notin {"idle", "done"} /\ \A q \in Reqs : q # s => pc'[q] = pc[q]
    BY Received DEF Receive
  <1>2. ASSUME NEW r \in InFlight PROVE FALSE
    <2>1. r \in Reqs /\ r # s /\ pc[r] \notin {"idle", "done"} /\ call[r] # None
      BY <1>1 DEF InFlight, Progress
    <2>2. call'[r] # None /\ earlier'[r] = earlier[r] /\ call'[s] = c /\ earlier'[s] = {q \in Reqs : pc[q] = "done"}
          /\ c # None
      BY <2>1, Received, CallFields
    <2>3. earlier[r] = {q \in Reqs : q < r} /\ {q \in Reqs : pc[q] = "done"} = {q \in Reqs : q < s}
      BY <2>1, <2>2 DEF Calm, Overlapping
    <2>4. ~(s < r) /\ ~(r < s)
      <3>1. pc[s] # "done"
        BY <1>1
      <3> QED
        BY <2>1, <2>3, <3>1 DEF Progress
    <2> QED
      BY <2>1, <2>4, MembershipAssumption
  <1>3. InFlight = {}
    BY <1>2
  <1> QED
    BY <1>1, <1>3 DEF InFlight

LEMMA CalmBefore == TypeOK /\ Progress /\ [Next]_vars /\ Calm' => Calm
  <1> SUFFICES ASSUME TypeOK, Progress, [Next]_vars, Calm' PROVE Calm
    OBVIOUS
  <1>1. \A r \in Reqs : call[r] # None => call'[r] = call[r] /\ earlier'[r] = earlier[r]
    BY HistoryStep
  <1>2. \A r \in Reqs : code[r] # None => code'[r] = code[r]
    BY HistoryStep
  <1>3. Overlapping = {}
    BY <1>1 DEF Calm, Overlapping
  <1>4. Failed = {}
    BY <1>2, NoneIsNothing DEF Calm, Failed, Answers
  <1> QED
    BY <1>3, <1>4 DEF Calm

---------------------------------------------------------------------------
(* What stays in order.                                                    *)
LEMMA HistoryGrows ==
  ASSUME TypeOK, Progress, NEW s \in Reqs, Handles(s)
  PROVE  /\ abandoned \subseteq abandoned'
         /\ \A h \in Households : households[h] = "deleted" => households'[h] = "deleted"
         /\ \A u : LeftLast(u) => LeftLast(u)'
  <1> USE DEF Goto, At, Close, Answer, Enter, Depart, Found, Calling, tables, session, TypeOK
  <1>1. \/ abandoned' = abandoned /\ households' = households
        \/ \E h \in Households : abandoned' = abandoned /\ households' = [households EXCEPT ![h] = "deleted"]
        \/ \E h : households[h] = "none" /\ abandoned' = abandoned /\ households' = [households EXCEPT ![h] = "open"]
        \/ \E h : abandoned' = abandoned \cup {h} /\ households' = households
    <2>1. CASE _ensure_default_household(s) \/ create_household(s)
      <3>1. Unused # {} /\ abandoned' = abandoned
            /\ households' = [households EXCEPT ![CHOOSE x \in Unused : TRUE] = "open"]
        BY <2>1 DEF _ensure_default_household, create_household
      <3>2. (CHOOSE x \in Unused : TRUE) \in Unused
        BY <3>1
      <3> QED
        BY <3>1, <3>2 DEF Unused
    <2>2. CASE drop_household(s) \/ settle(s)
      <3>1. call[s].household \in Households
        BY <2>2, Handled, CallFields DEF drop_household, settle, Progress, Staged, Leaves
      <3> QED
        BY <2>2, <3>1 DEF drop_household, settle, delete_household
    <2>3. CASE ~(_ensure_default_household(s) \/ create_household(s) \/ drop_household(s) \/ settle(s))
      BY <2>3 DEF Handles, Step, Replay, list_households, update_household, join_household, add_member,
           set_active_membership, leave_household, remove_member, remove_membership, reactivate,
           update_member_role, respond, Fail
    <2> QED
      BY <2>1, <2>2, <2>3
  <1>2. abandoned \subseteq abandoned' /\ \A h \in Households : households[h] = "deleted" => households'[h] = "deleted"
    BY <1>1
  <1>3. ASSUME NEW u, LeftLast(u) PROVE LeftLast(u)'
    <2>1. PICK r \in Reqs : /\ pc[r] = "done" /\ call[r].op = "leave" /\ call[r].user = u
                            /\ households[call[r].household] = "deleted" \/ call[r].household \in abandoned
      BY <1>3 DEF LeftLast
    <2>2. r # s /\ pc'[r] = pc[r] /\ call'[r] = call[r] /\ call[r].household \in Households
      BY <2>1, Handled, CallFields DEF Progress
    <2> QED
      BY <1>2, <2>1, <2>2 DEF LeftLast
  <1> QED
    BY <1>2, <1>3

(* Nothing but the request itself has moved.                               *)
LEMMA TablesStay ==
  ASSUME TypeOK, Progress, NEW s \in Reqs, Handles(s), UNCHANGED <<households, members>>
  PROVE  /\ SingleMembership => SingleMembership'
         /\ Housed => Housed'
         /\ \A h \in Households : Owned(h) => Owned(h)'
         /\ \A u \in Users : (Settled(u) => Settled(u)') /\ (AtMostOneActive(u) => AtMostOneActive(u)')
  <1>1. SingleMembership => SingleMembership'
    BY DEF SingleMembership
  <1>2. Housed => Housed'
    BY DEF Housed
  <1>3. abandoned \subseteq abandoned' /\ \A u : LeftLast(u) => LeftLast(u)'
    BY HistoryGrows
  <1>4. \A h \in Households : Owned(h) => Owned(h)'
    BY <1>3 DEF Owned, In
  <1>5. \A u \in Users : (Settled(u) => Settled(u)') /\ (AtMostOneActive(u) => AtMostOneActive(u)')
    BY <1>3 DEF Settled, AtMostOneActive, NoneActive, Of
  <1> QED
    BY <1>1, <1>2, <1>4, <1>5

(* A stage which owes nothing to anyone.                                   *)
LEMMA NothingOwed ==
  ASSUME NEW r \in Reqs, Order(r), pc[r] \in {"default", "lookup", "add", "remove"}
  PROVE  /\ SingleMembership /\ Housed /\ InOrder(r)
         /\ \A h \in Households : Owned(h)
         /\ \A u \in Users : Settled(u)
  BY DEF Order, Endows, Rouses

(* Rows in agreement with the session are known as they are.               *)
LEMMA KnownAsIs ==
  ASSUME NEW r, Agrees(r), NEW m \in members PROVE Known(r, m) = m
  <1>1. CASE \E k \in held[r] : k.id = m.id
    <2>1. Known(r, m) \in held[r] /\ Known(r, m).id = m.id
      BY <1>1 DEF Known
    <2> QED
      BY <2>1 DEF Agrees
  <1>2. CASE ~\E k \in held[r] : k.id = m.id
    BY <1>2 DEF Known
  <1> QED
    BY <1>1, <1>2

LEMMA KnownRole ==
  ASSUME NEW r, RolesAgree(r), NEW m \in members PROVE Known(r, m).role = m.role
  <1>1. CASE \E k \in held[r] : k.id = m.id
    <2>1. Known(r, m) \in held[r] /\ Known(r, m).id = m.id
      BY <1>1 DEF Known
    <2> QED
      BY <2>1 DEF RolesAgree
  <1>2. CASE ~\E k \in held[r] : k.id = m.id
    BY <1>2 DEF Known
  <1> QED
    BY <1>1, <1>2

LEMMA NeverAmbiguous ==
  ASSUME SingleMembership, NEW h, NEW u PROVE ~Ambiguous(get_membership(h, u))
  BY DEF SingleMembership, Ambiguous, get_membership, Of, In

---------------------------------------------------------------------------
(* Each step of the request in flight keeps order: new rows.               *)
LEMMA RowAdded ==
  ASSUME TypeOK, Ids, Progress, NEW s \in Reqs, Handles(s), Order(s), pc[s] \in {"default", "lookup", "add"},
         NEW m \in Membership, m.id = last + 1, m.user = call[s].user,
         members' = members \cup {m}, held'[s] = held[s] \cup {m},
         get_membership(m.household, m.user) = {}, households'[m.household] = "open",
         \A h \in Households : h # m.household => households'[h] = households[h]
  PROVE  /\ SingleMembership' /\ Housed' /\ Agrees(s)'
         /\ \A h \in Households : h # m.household => Owned(h)'
         /\ \A u \in Users : u # m.user => Settled(u)'
         /\ m \in get_membership(m.household, m.user)'
  <1>1. SingleMembership /\ Housed /\ Agrees(s) /\ (\A h \in Households : Owned(h)) /\ (\A u \in Users : Settled(u))
    BY NothingOwed DEF InOrder
  <1>2. SingleMembership'
    BY <1>1 DEF SingleMembership, get_membership, Of, In
  <1>3. Housed'
    BY <1>1 DEF Housed, TypeOK, Membership
  <1>4. last \in Nat /\ (\A x \in members : x.id \in Nat /\ x.id <= last)
        /\ (\A k \in held[s] : k.id \in Nat /\ k.id <= last)
    <2>1. last \in Nat /\ members \subseteq Membership /\ held[s] \subseteq Membership
      BY DEF TypeOK
    <2>2. \A k \in Membership : k.id \in Nat
      BY DEF Membership
    <2> QED
      BY <2>1, <2>2 DEF Ids, Recognised
  <1>5. Agrees(s)'
    BY <1>1, <1>4 DEF Agrees
  <1>6. abandoned \subseteq abandoned' /\ \A u : LeftLast(u) => LeftLast(u)'
    BY HistoryGrows
  <1>7. ASSUME NEW h \in Households, h # m.household PROVE Owned(h)'
    <2>1. In(h)' = In(h)
      BY <1>7 DEF In
    <2> QED
      BY <1>1, <1>6, <1>7, <2>1 DEF Owned
  <1>8. ASSUME NEW u \in Users, u # m.user PROVE Settled(u)'
    <2>1. Of(u)' = Of(u)
      BY <1>8 DEF Of
    <2> QED
      BY <1>1, <1>6, <2>1 DEF Settled, AtMostOneActive, NoneActive
  <1>9. m \in get_membership(m.household, m.user)'
    BY DEF get_membership, Of, In
  <1> QED
    BY <1>2, <1>3, <1>5, <1>7, <1>8, <1>9

LEMMA FoundInOrder ==
  ASSUME TypeOK, Ids, Progress, NEW s \in Reqs, Handles(s), Order(s), NEW stage,
         \/ pc[s] = "default" /\ stage = "lookup"
         \/ pc[s] = "lookup" /\ stage = "activate",
         Found(s, stage)
  PROVE  Order(s)'
  <1>0. call' = call /\ call[s] \in Calls /\ pc[s] # "idle" /\ call[s].user \in Users
    BY Handled, CallFields DEF Progress, TypeOK
  <1>1. PICK m \in Membership :
           /\ m.id = last + 1 /\ m.user = call[s].user /\ m.active /\ goal'[s] = m.household
           /\ members' = members \cup {m} /\ held'[s] = held[s] \cup {m}
           /\ pc'[s] = stage /\ m.role = "owner" /\ households[m.household] = "none"
           /\ households' = [households EXCEPT ![m.household] = "open"]
    BY <1>0, FoundAdds
  <1>2. m.household \in Households /\ m \notin members
    BY <1>1 DEF Membership, Ids, TypeOK
  <1>3. In(m.household) = {}
    BY <1>1 DEF Order, Housed, In
  <1>4. households'[m.household] = "open" /\ \A h \in Households : h # m.household => households'[h] = households[h]
    BY <1>1, <1>2 DEF TypeOK
  <1>5. /\ SingleMembership' /\ Housed' /\ Agrees(s)'
        /\ \A h \in Households : h # m.household => Owned(h)'
        /\ \A u \in Users : u # m.user => Settled(u)'
        /\ m \in get_membership(m.household, m.user)'
    BY <1>1, <1>3, <1>4, RowAdded DEF get_membership
  <1>6. Owned(m.household)'
    <2>1. In(m.household)' = {m}
      BY <1>1, <1>3 DEF In
    <2> QED
      BY <1>1, <2>1 DEF Owned
  <1>7. Excused(s)'
    BY <1>1, Handled, NoneIsNothing DEF Excused, Progress, Answers
  <1>8. CASE stage = "lookup"
    <2>0. pc[s] = "default" /\ \A n \in members : n.user # call[s].user
      BY <1>8 DEF Order, InOrder, Of
    <2>1. Of(call[s].user)' = {m} /\ Of(m.user)' = {m}
      BY <1>0, <1>1, <2>0 DEF Of
    <2>2. Settled(m.user)'
      BY <1>1, <2>1 DEF Settled, AtMostOneActive, NoneActive
    <2>3. InOrder(s)'
      BY <1>0, <1>1, <1>5, <1>8, <2>1 DEF InOrder
    <2> QED
      BY <1>5, <1>6, <1>7, <2>2, <2>3 DEF Order
  <1>9. CASE stage = "activate"
    <2>1. InOrder(s)'
      BY <1>0, <1>1, <1>5, <1>9 DEF InOrder
    <2>2. Rouses(s, m.user)'
      BY <1>0, <1>1, <1>9 DEF Rouses
    <2> QED
      BY <1>5, <1>6, <1>7, <2>1, <2>2 DEF Order
  <1> QED
    BY <1>8, <1>9

LEMMA AddMemberInOrder ==
  ASSUME TypeOK, Ids, Progress, NEW s \in Reqs, Handles(s), Order(s), add_member(s)
  PROVE  Order(s)'
  <1>0. call' = call /\ call[s] \in Calls /\ pc[s] = "add"
    BY Handled DEF add_member, At, Progress, TypeOK
  <1>1. households[goal[s]] = "open" /\ get_membership(goal[s], call[s].user) = {}
    BY <1>0 DEF Order, InOrder
  <1>2. Adds(s)
    BY <1>0, <1>1, AddMemberAdds DEF add_member, Goto, TypeOK
  <1>3. PICK m \in Membership :
          /\ m.id = last + 1 /\ m.user = call[s].user /\ m.active /\ goal'[s] = m.household
          /\ members' = members \cup {m} /\ last' = last + 1 /\ held'[s] = held[s] \cup {m}
          /\ pc'[s] = "activate" /\ m.role = "member" /\ m.household = goal[s]
          /\ households' = households
    BY <1>0, <1>2 DEF Adds
  <1>4. /\ SingleMembership' /\ Housed' /\ Agrees(s)'
        /\ \A h \in Households : h # m.household => Owned(h)'
        /\ \A u \in Users : u # m.user => Settled(u)'
        /\ m \in get_membership(m.household, m.user)'
    BY <1>0, <1>1, <1>3, RowAdded
  <1>5. Owned(m.household)'
    <2>1. In(m.household)' = In(m.household) \cup {m} /\ m.household \in Households
      BY <1>3 DEF In, Membership
    <2>2. Owned(m.household) /\ abandoned \subseteq abandoned'
      BY <1>0, <2>1, NothingOwed, HistoryGrows
    <2> QED
      BY <1>3, <2>1, <2>2 DEF Owned
  <1>6. Excused(s)'
    BY <1>3, Handled, NoneIsNothing DEF Excused, Progress, Answers
  <1>7. InOrder(s)'
    BY <1>0, <1>3, <1>4 DEF InOrder
  <1>8. Rouses(s, m.user)'
    BY <1>0, <1>3 DEF Rouses
  <1> QED
    BY <1>4, <1>5, <1>6, <1>7, <1>8 DEF Order

---------------------------------------------------------------------------
(* Lookups and answers.                                                    *)
LEMMA AnswerInOrder ==
  ASSUME TypeOK, Progress, NEW s \in Reqs, Handles(s), Order(s), pc[s] \in {"default", "lookup", "add", "remove"},
         UNCHANGED <<households, members>>, pc'[s] = "done", code'[s] # "500"
  PROVE  Order(s)'
  <1>1. Excused(s)'
    BY DEF Excused
  <1> QED
    BY <1>1, NothingOwed, TablesStay DEF Order

LEMMA LookupInOrder ==
  ASSUME TypeOK, Ids, Progress, NEW s \in Reqs, Handles(s), Order(s),
         Replay(s) \/ list_households(s) \/ update_household(s) \/ join_household(s)
  PROVE  Order(s)'
  <1> USE DEF Goto, At, Close, Answer, Calling, tables, session
  <1>0. /\ call' = call /\ pc[s] = "lookup" /\ code[s] = None /\ None # "500"
        /\ SingleMembership /\ InOrder(s) /\ (\A h \in Households : Owned(h)) /\ (\A u \in Users : Settled(u))
    BY Handled, NothingOwed, NoneIsNothing
       DEF Replay, list_households, update_household, join_household, Progress, Answers
  <1>1. CASE pc'[s] = "done"
    <2>1. UNCHANGED <<households, members>> /\ code'[s] # "500"
      BY <1>0, <1>1, NeverAmbiguous
         DEF Replay, list_households, update_household, join_household, Enter, TypeOK, Progress
    <2> QED
      BY <1>0, <1>1, <2>1, AnswerInOrder
  <1>2. CASE pc'[s] # "done"
    <2> DEFINE own == get_membership(call[s].household, call[s].user)
    <2>1. Of(call[s].user) # {} /\ Agrees(s)
      BY <1>0 DEF InOrder
    <2>2. /\ UNCHANGED <<households, members, held, code>> /\ goal'[s] = call[s].household
          /\ \/ pc'[s] = "activate" /\ own # {}
             \/ pc'[s] = "add" /\ own = {} /\ households[call[s].household] = "open"
      BY <1>0, <1>2, <2>1 DEF Replay, list_households, update_household, join_household, Enter, TypeOK
    <2>3. Agrees(s)' /\ get_membership(call[s].household, call[s].user)' = own
      BY <1>0, <2>1, <2>2 DEF Agrees, get_membership, Of, In
    <2> HIDE DEF own
    <2>4. InOrder(s)'
      BY <1>0, <2>2, <2>3 DEF InOrder, own
    <2>5. Excused(s)'
      BY <1>0, <2>2 DEF Excused
    <2> QED
      BY <1>0, <2>2, <2>4, <2>5, TablesStay DEF Order
  <1> QED
    BY <1>1, <1>2

(* A departure is decided on the rows as they are.                         *)
LEMMA DepartInOrder ==
  ASSUME TypeOK, Ids, Progress, NEW s \in Reqs, Handles(s), Order(s), leave_household(s) \/ remove_member(s)
  PROVE  Order(s)'
  <1> USE DEF Goto, At, Close, Answer, Calling, tables, session
  <1>0. /\ call' = call /\ pc[s] = "lookup" /\ code[s] = None /\ None # "500"
        /\ SingleMembership /\ InOrder(s) /\ (\A h \in Households : Owned(h)) /\ (\A u \in Users : Settled(u))
    BY Handled, NothingOwed, NoneIsNothing DEF leave_household, remove_member, Progress, Answers
  <1>1. CASE pc'[s] = "done"
    <2>1. UNCHANGED <<households, members>> /\ code'[s] # "500"
      BY <1>0, <1>1, NeverAmbiguous DEF leave_household, remove_member, Depart, TypeOK
    <2> QED
      BY <1>0, <1>1, <2>1, AnswerInOrder
  <1>2. CASE pc'[s] # "done"
    <2>1. PICK m \in members : Depart(s, m)
      BY <1>0, <1>2 DEF leave_household, remove_member, TypeOK, get_membership, Of, In
    <2>2. Agrees(s)
      BY <1>0 DEF InOrder
    <2>3. Known(s, m) = m /\ \A n \in In(call[s].household) : Known(s, n) = n
      BY <2>2, KnownAsIs DEF In
    <2>4. /\ UNCHANGED <<households, members, held, code>> /\ pc'[s] = "remove" /\ leaving'[s] = m
          /\ call[s].op = "leave" => seen'[s] = In(call[s].household)
      BY <2>1, <2>3 DEF Depart, TypeOK
    <2>5. Agrees(s)' /\ In(call[s].household)' = In(call[s].household)
      BY <1>0, <2>2, <2>4 DEF Agrees, In
    <2>6. InOrder(s)'
      BY <1>0, <2>4, <2>5 DEF InOrder
    <2>7. Excused(s)'
      BY <1>0, <2>4 DEF Excused
    <2> QED
      BY <1>0, <2>4, <2>6, <2>7, NothingOwed, TablesStay DEF Order
  <1> QED
    BY <1>1, <1>2

---------------------------------------------------------------------------
(* Roles and activity.                                                     *)
SameRole(x, m) == Same(x, m) /\ x.role = m.role

RolesKept(new) ==
  /\ Kept(new)
  /\ \A x \in new : \E m \in members : SameRole(x, m)
  /\ \A m \in members : \E x \in new : SameRole(x, m)

(* Of the memberships of u the one in h is active, of other users nothing  *)
(* changes.                                                                *)
OnlyActive(new, u, h) ==
  /\ \A x \in new : x.user = u => (x.active <=> x.household = h)
  /\ \A x : x \in new /\ x.user # u <=> x \in members /\ x.user # u

LEMMA ActivatedAsIs ==
  ASSUME TypeOK, Ids, NEW r, Agrees(r), NEW u, NEW h
  PROVE  /\ RolesKept(Activated(r, u, h))
         /\ get_membership(h, u) # {} => OnlyActive(Activated(r, u, h), u, h)
  <1> DEFINE f(m) == IF m.user = u /\ m.active # (m.household = h)
                     THEN [m EXCEPT !.active = (m.household = h)] ELSE m
             g(m) == IF m.user = u /\ Known(r, m).active # (m.household = h)
                     THEN [m EXCEPT !.active = (m.household = h)] ELSE m
  <1>1. \A m \in Membership : f(m) \in Membership /\ SameRole(f(m), m)
    BY DEF Membership, Same, SameRole
  <1>2. \A m \in Membership : (m.user = u => (f(m).active <=> m.household = h)) /\ (m.user # u => f(m) = m)
    BY DEF Membership
  <1>3. Activated(r, u, h) = IF get_membership(h, u) = {} THEN members ELSE {f(m) : m \in members}
    <2>1. \A m \in members : f(m) = g(m)
      BY KnownAsIs
    <2>2. Activated(r, u, h) = IF get_membership(h, u) = {} THEN members ELSE {g(m) : m \in members}
      BY DEF Activated
    <2> HIDE DEF f, g
    <2> QED
      BY <2>1, <2>2
  <1>4. members \subseteq Membership
    BY DEF TypeOK
  <1> HIDE DEF f
  <1>5. RolesKept(members)
    BY <1>4 DEF RolesKept, Kept, SameRole, Same, Ids
  <1>6. RolesKept({f(m) : m \in members})
    <2>1. Kept({f(m) : m \in members})
      BY <1>1, <1>4 DEF Kept, SameRole, Same, Ids
    <2> QED
      BY <1>1, <1>4, <2>1 DEF RolesKept
  <1>7. OnlyActive({f(m) : m \in members}, u, h)
    BY <1>1, <1>2, <1>4 DEF OnlyActive, SameRole, Same
  <1> QED
    BY <1>3, <1>5, <1>6, <1>7

LEMMA RolesStay ==
  ASSUME TypeOK, Ids, Progress, NEW s \in Reqs, Handles(s), RolesKept(members'), households' = households
  PROVE  /\ SingleMembership => SingleMembership'
         /\ Housed => Housed'
         /\ \A h \in Households : (Owned(h) => Owned(h)') /\ (NoOwner(h) => NoOwner(h)')
         /\ \A h, u : get_membership(h, u) # {} => get_membership(h, u)' # {}
  <1>1. SingleMembership => SingleMembership'
    BY DEF SingleMembership, RolesKept, Kept, Same
  <1>2. Housed => Housed'
    <2> SUFFICES ASSUME Housed, NEW x \in members' PROVE households[x.household] = "open"
      BY DEF Housed
    <2>1. PICK m \in members : Same(x, m)
      BY DEF RolesKept, Kept
    <2> QED
      BY <2>1 DEF Same, Housed
  <1>3. abandoned \subseteq abandoned'
    BY HistoryGrows
  <1>4. ASSUME NEW h \in Households, Owned(h) PROVE Owned(h)'
    <2>1. SUFFICES ASSUME households[h] = "open", h \notin abandoned
                   PROVE  \E x \in In(h)' : x.role = "owner" /\ \A y \in In(h)' : y.role = "owner" => y = x
      BY <1>3 DEF Owned
    <2>2. PICK m \in members : m.household = h /\ m.role = "owner"
                               /\ \A n \in members : n.household = h /\ n.role = "owner" => n = m
      BY <1>4, <2>1 DEF Owned, In
    <2>3. PICK x \in members' : SameRole(x, m)
      BY <2>2 DEF RolesKept
    <2>4. ASSUME NEW y \in members', y.household = h, y.role = "owner" PROVE y = x
      <3>1. PICK n \in members : SameRole(y, n)
        BY DEF RolesKept
      <3>2. n = m
        BY <2>2, <2>4, <3>1 DEF SameRole, Same
      <3> QED
        BY <2>3, <3>1, <3>2 DEF SameRole, Same, RolesKept, Kept
    <2> QED
      BY <2>2, <2>3, <2>4 DEF In, SameRole, Same
  <1>5. \A h \in Households : NoOwner(h) => NoOwner(h)'
    BY DEF NoOwner, In, RolesKept, SameRole, Same
  <1>6. ASSUME NEW h, NEW u, get_membership(h, u) # {} PROVE get_membership(h, u)' # {}
    <2>1. PICK m \in members : m.household = h /\ m.user = u
      BY <1>6 DEF get_membership, Of, In
    <2>2. PICK x \in members' : Same(x, m)
      BY DEF RolesKept, Kept
    <2> QED
      BY <2>1, <2>2 DEF get_membership, Of, In, Same
  <1> QED
    BY <1>1, <1>2, <1>4, <1>5, <1>6

LEMMA ActiveSettles ==
  ASSUME TypeOK, Progress, NEW s \in Reqs, Handles(s), SingleMembership', NEW u, NEW h,
         OnlyActive(members', u, h), get_membership(h, u)' # {}
  PROVE  /\ Settled(u)'
         /\ \A v \in Users : v # u => (Settled(v) => Settled(v)') /\ (AtMostOneActive(v) => AtMostOneActive(v)')
  <1>1. Settled(u)'
    <2>1. AtMostOneActive(u)'
      BY DEF AtMostOneActive, Of, OnlyActive, SingleMembership
    <2>2. ~NoneActive(u)'
      BY DEF NoneActive, OnlyActive, get_membership, Of, In
    <2> QED
      BY <2>1, <2>2 DEF Settled
  <1>2. ASSUME NEW v \in Users, v # u PROVE (Settled(v) => Settled(v)') /\ (AtMostOneActive(v) => AtMostOneActive(v)')
    <2>1. Of(v)' = Of(v)
      BY <1>2 DEF Of, OnlyActive
    <2> QED
      BY <2>1, HistoryGrows DEF Settled, AtMostOneActive, NoneActive
  <1> QED
    BY <1>1, <1>2

LEMMA SetActiveInOrder ==
  ASSUME TypeOK, Ids, Progress, NEW s \in Reqs, Handles(s), Order(s), set_active_membership(s)
  PROVE  Order(s)'
  <1>0. PICK u, h : u = call[s].user /\ h = goal[s]
    OBVIOUS
  <1>1. /\ pc[s] = "activate" /\ pc'[s] = "respond" /\ members' = Activated(s, u, h)
        /\ UNCHANGED <<call, goal, code, households>> /\ u \in Users
        /\ call[s].op \in {"list", "create", "update", "join"}
    BY <1>0, Handled, CallFields DEF set_active_membership, At, Goto, session, Progress, Staged, TypeOK
  <1>2. Agrees(s) /\ get_membership(h, u) # {} /\ SingleMembership /\ Housed
    BY <1>0, <1>1 DEF Order, InOrder
  <1>3. \A x \in Households : Owned(x)
    BY <1>0, <1>1 DEF Order, Endows
  <1>4. \A v \in Users : v # u => Settled(v)
    BY <1>0, <1>1 DEF Order, Rouses
  <1>5. RolesKept(members') /\ OnlyActive(members', u, h)
    BY <1>1, <1>2, ActivatedAsIs
  <1>6. /\ SingleMembership' /\ Housed' /\ (\A x \in Households : Owned(x)')
        /\ get_membership(h, u)' # {}
    BY <1>1, <1>2, <1>3, <1>5, RolesStay
  <1>7. \A v \in Users : Settled(v)'
    BY <1>4, <1>5, <1>6, ActiveSettles
  <1>8. InOrder(s)'
    <2>1. households[h] = "open"
      BY <1>2 DEF Housed, get_membership, Of, In
    <2>2. ~Lost(s)'
      BY <1>0, <1>1, <2>1 DEF Lost
    <2>3. AtMostOneActive(u)'
      BY <1>1, <1>7 DEF Settled
    <2> QED
      BY <1>0, <1>1, <2>2, <2>3 DEF InOrder, AtMostOneActive, Of
  <1>9. Excused(s)'
    BY <1>1, NoneIsNothing DEF Excused, Progress, Answers
  <1> QED
    BY <1>6, <1>7, <1>8, <1>9 DEF Order

LEMMA ReactivateInOrder ==
  ASSUME TypeOK, Ids, Progress, NEW s \in Reqs, Handles(s), Order(s), reactivate(s)
  PROVE  Order(s)'
  <1>0. PICK u, h : u = leaving[s].user /\ h = call[s].household
    OBVIOUS
  <1>1. /\ pc[s] = "reactivate" /\ members' = IF Of(u) = {} THEN members ELSE Activated(s, u, First(Of(u)).household)
        /\ pc'[s] = (IF call[s].op = "leave" THEN AfterLeave(s) ELSE "settle")
        /\ UNCHANGED <<call, held, goal, leaving, seen, heir, code, households, abandoned>>
    BY <1>0 DEF reactivate, At, Goto, tables, session, TypeOK
  <1>2. Leaves(s) /\ leaving[s] # None /\ call[s] \in Calls /\ h \in Households /\ u \in Users
    BY <1>0, <1>1, CallFields DEF Progress, Staged, Leaves, TypeOK, Membership
  <1>3. /\ Agrees(s) /\ NoneActive(u) /\ SingleMembership /\ Housed
        /\ call[s].op = "leave" => Others(s) = In(h) /\ get_membership(h, heir[s]) # {}
        /\ leaving[s].role # "owner" \/ h \in abandoned \/ NoOwner(h)
    BY <1>0, <1>1 DEF Order, InOrder
  <1>4. \A x \in Households : Owned(x) \/ (x = h /\ leaving[s].role = "owner")
    BY <1>0, <1>1 DEF Order, Endows
  <1>5. \A v \in Users : v # u => Settled(v)
    BY <1>0, <1>1 DEF Order, Rouses
  <1>6. RolesKept(members')
    <2>1. RolesKept(members)
      BY DEF RolesKept, Kept, SameRole, Same, Ids, TypeOK
    <2> QED
      BY <1>1, <1>3, <2>1, ActivatedAsIs
  <1>7. /\ SingleMembership' /\ Housed'
        /\ \A x \in Households : (Owned(x) => Owned(x)') /\ (NoOwner(x) => NoOwner(x)')
        /\ get_membership(h, heir[s]) # {} => get_membership(h, heir[s])' # {}
    BY <1>1, <1>3, <1>6, RolesStay
  <1>8. \A v \in Users : Settled(v)'
    <2>1. CASE Of(u) = {}
      <3>1. Settled(u)
        BY <2>1 DEF Settled, AtMostOneActive
      <3> QED
        BY <1>1, <1>5, <2>1, <3>1, TablesStay
    <2>2. CASE Of(u) # {}
      <3> DEFINE x == First(Of(u)).household
      <3>1. get_membership(x, u) # {}
        <4>1. Of(u) \subseteq Membership
          BY DEF Of, TypeOK
        <4>2. First(Of(u)) \in Of(u)
          BY <2>2, <4>1, FirstIsIn
        <4> QED
          BY <4>2 DEF get_membership, Of, In
      <3> HIDE DEF x
      <3>2. members' = Activated(s, u, x)
        BY <1>1, <2>2 DEF x
      <3>3. PICK y : y = x
        OBVIOUS
      <3>4. OnlyActive(members', u, y) /\ get_membership(y, u) # {}
        BY <1>3, <3>1, <3>2, <3>3, ActivatedAsIs
      <3>5. PICK v \in Users : v = u
        BY <1>2
      <3>6. get_membership(y, v)' # {}
        BY <1>1, <1>6, <3>4, <3>5, RolesStay
      <3> QED
        BY <1>5, <1>7, <3>4, <3>5, <3>6, ActiveSettles
    <2> QED
      BY <2>1, <2>2
  <1>9. Excused(s)'
    BY <1>1, NoneIsNothing DEF Excused, Progress, Answers
  <1>10. leaving[s].role # "owner" \/ h \in abandoned \/ NoOwner(h)'
    BY <1>2, <1>3, <1>7
  <1>11. CASE pc'[s] = "respond"
    <2>1. call[s].op = "leave" /\ ~InheritsSeen(s)
      BY <1>1, <1>11 DEF AfterLeave
    <2>2. Owned(h)
      BY <1>2, <1>3, <1>4, <2>1 DEF InheritsSeen, HasOwner, NoOwner, Owned
    <2>3. \A x \in Households : Owned(x)'
      BY <1>4, <1>7, <2>2
    <2>4. ~Lost(s)'
      BY <1>1, <2>1 DEF Lost
    <2>5. AtMostOneActive(call[s].user)'
      BY <1>1, <1>2, <1>8, CallFields DEF Settled, AtMostOneActive, Of
    <2>6. InOrder(s)'
      BY <1>1, <1>11, <2>4, <2>5 DEF InOrder
    <2> QED
      BY <1>7, <1>8, <1>9, <2>3, <2>6 DEF Order
  <1>12. CASE pc'[s] # "respond"
    <2>1. pc'[s] \in {"settle", "promote"} /\ (pc'[s] = "promote" => call[s].op = "leave" /\ leaving[s].role = "owner")
      BY <1>1, <1>12 DEF AfterLeave, InheritsSeen
    <2>2. \A x \in Households : Owned(x)' \/ Endows(s, x)'
      BY <1>0, <1>1, <1>4, <1>7, <2>1 DEF Endows
    <2>3. RolesAgree(s)'
      BY <1>1, <1>3, <1>6 DEF RolesAgree, Agrees, RolesKept, SameRole, Same
    <2>4. get_membership(h, heir[s])' # {} \/ pc'[s] = "settle"
      BY <1>3, <1>7, <2>1
    <2>5. InOrder(s)'
      BY <1>0, <1>1, <1>10, <2>1, <2>3, <2>4 DEF InOrder, get_membership, NoOwner, Of, In
    <2> QED
      BY <1>7, <1>8, <1>9, <2>2, <2>5 DEF Order
  <1> QED
    BY <1>11, <1>12

LEMMA UpdateMemberRoleInOrder ==
  ASSUME TypeOK, Ids, Progress, NEW s \in Reqs, Handles(s), Order(s), update_member_role(s)
  PROVE  Order(s)'
  <1>0. PICK h, next : h = call[s].household /\ next = get_membership(call[s].household, heir[s])
    OBVIOUS
  <1>1. pc[s] = "promote" /\ SingleMembership /\ Housed /\ next # {}
        /\ (h \in abandoned \/ NoOwner(h))
    BY <1>0 DEF update_member_role, At, Order, InOrder
  <1>2. \A x \in Households : x # h => Owned(x)
    BY <1>0, <1>1 DEF Order, Endows
  <1>3. \A v \in Users : Settled(v)
    BY <1>1 DEF Order, Rouses
  <1>4. PICK p \in members : next = {p} /\ p.household = h
    <2>1. ~Ambiguous(next)
      BY <1>0, <1>1, NeverAmbiguous
    <2> QED
      BY <1>0, <1>1, <2>1, Alone DEF get_membership, Of, In
  <1> DEFINE f(m) == IF m \in next THEN [m EXCEPT !.role = "owner"] ELSE m
  <1>5. /\ pc'[s] = "respond" /\ UNCHANGED <<call, goal, code, households, abandoned>>
        /\ members' = {f(m) : m \in members}
    BY <1>0, <1>1, NeverAmbiguous DEF update_member_role, At, Goto, session, TypeOK
  <1>6. \A m \in Membership : /\ f(m) \in Membership /\ Same(f(m), m) /\ f(m).active = m.active
                              /\ m \in next => f(m).role = "owner"
                              /\ m \notin next => f(m) = m
    BY DEF Membership, Same
  <1>7. members \subseteq Membership /\ (\A m, n \in members : m.id = n.id => m = n) /\ Leaves(s)
    BY <1>1 DEF TypeOK, Ids, Progress, Staged
  <1> HIDE DEF f
  <1>8. SingleMembership'
    BY <1>1, <1>5, <1>6, <1>7 DEF SingleMembership, Same
  <1>9. Housed'
    BY <1>1, <1>5, <1>6, <1>7 DEF Housed, Same
  <1>10. \A v \in Users : Settled(v)'
    <2> SUFFICES ASSUME NEW v \in Users PROVE Settled(v)'
      OBVIOUS
    <2>1. AtMostOneActive(v)'
      BY <1>3, <1>5, <1>6, <1>7 DEF Settled, AtMostOneActive, Of, Same
    <2>2. NoneActive(v)' => NoneActive(v)
      BY <1>5, <1>6, <1>7 DEF NoneActive, Of, Same
    <2>3. Of(v) = {} => Of(v)' = {}
      BY <1>5, <1>6, <1>7 DEF Of, Same
    <2> QED
      BY <1>3, <2>1, <2>2, <2>3, HistoryGrows DEF Settled
  <1>11. ASSUME NEW x \in Households PROVE Owned(x)'
    <2>1. CASE x # h
      <3>1. In(x)' = In(x)
        BY <1>4, <1>5, <1>6, <1>7, <2>1 DEF In, Same
      <3> QED
        BY <1>2, <1>5, <2>1, <3>1 DEF Owned
    <2>2. CASE x = h
      <3> SUFFICES ASSUME h \notin abandoned PROVE Owned(x)'
        BY <1>5, <2>2 DEF Owned
      <3>1. f(p) \in In(x)' /\ f(p).role = "owner"
        BY <1>4, <1>5, <1>6, <1>7, <2>2 DEF In, Same
      <3>2. \A n \in In(x)' : n.role = "owner" => n = f(p)
        <4> SUFFICES ASSUME NEW m \in members, f(m).household = h, f(m).role = "owner" PROVE f(m) = f(p)
          BY <1>5, <2>2 DEF In
        <4>1. m \in next
          BY <1>1, <1>6, <1>7 DEF NoOwner, In, Same
        <4> QED
          BY <1>4, <4>1
      <3> QED
        BY <3>1, <3>2 DEF Owned
    <2> QED
      BY <2>1, <2>2
  <1>12. InOrder(s)'
    <2>1. ~Lost(s)'
      BY <1>5, <1>7 DEF Lost, Leaves
    <2>2. call[s].user \in Users /\ call' = call
      BY <1>1, <1>5, CallFields DEF Progress, TypeOK
    <2>3. AtMostOneActive(call[s].user)'
      BY <1>10, <2>2 DEF Settled, AtMostOneActive, Of
    <2> QED
      BY <1>5, <2>1, <2>2, <2>3 DEF InOrder
  <1>13. Excused(s)'
    BY <1>1, <1>5, NoneIsNothing DEF Excused, Progress, Answers
  <1> QED
    BY <1>8, <1>9, <1>10, <1>11, <1>12, <1>13 DEF Order

LEMMA RespondInOrder ==
  ASSUME TypeOK, Ids, Progress, NEW s \in Reqs, Handles(s), Order(s), respond(s)
  PROVE  Order(s)'
  <1>1. /\ pc[s] = "respond" /\ pc'[s] = "done" /\ UNCHANGED <<households, members, call>>
        /\ code'[s] = IF ~Lost(s) THEN "200" ELSE IF call[s].op = "update" THEN "404" ELSE "500"
    BY DEF respond, At, Close, Goto, TypeOK
  <1>2. ~Lost(s) /\ AtMostOneActive(call[s].user) /\ SingleMembership /\ Housed /\ \A h \in Households : Owned(h)
    BY <1>1 DEF Order, InOrder, Endows
  <1>3. SingleMembership' /\ Housed' /\ \A h \in Households : Owned(h)'
    BY <1>1, <1>2, TablesStay
  <1>4. ASSUME NEW u \in Users PROVE Settled(u)'
    <2>1. CASE Settled(u)
      BY <1>1, <2>1, TablesStay
    <2>2. CASE ~Settled(u)
      <3>1. /\ call[s].op = "leave" /\ u = call[s].user /\ households[call[s].household] = "deleted"
            /\ AtMostOneActive(u)
        BY <1>1, <1>2, <2>2 DEF Order, Rouses
      <3>2. LeftLast(u)'
        BY <1>1, <3>1 DEF LeftLast
      <3>3. AtMostOneActive(u)'
        BY <1>1, <3>1, TablesStay
      <3> QED
        BY <3>2, <3>3 DEF Settled
    <2> QED
      BY <2>1, <2>2
  <1>5. Excused(s)'
    BY <1>1, <1>2 DEF Excused
  <1> QED
    BY <1>1, <1>3, <1>4, <1>5 DEF Order

LEMMA DropInOrder ==
  ASSUME TypeOK, Ids, Progress, NEW s \in Reqs, Handles(s), Order(s), drop_household(s)
  PROVE  Order(s)'
  <1>0. PICK h, u : h = call[s].household /\ u = call[s].user
    OBVIOUS
  <1>1. /\ pc[s] = "drop" /\ households[h] = "open" /\ In(h) = {} /\ AtMostOneActive(u)
        /\ SingleMembership /\ Housed /\ delete_household(s, h)
    BY <1>0 DEF drop_household, At, Order, InOrder
  <1>2. call' = call /\ call[s].op = "leave" /\ u \in Users /\ h \in Households /\ code[s] = None /\ code[s] # "500"
    BY <1>0, <1>1, Handled, CallFields, NoneIsNothing DEF Progress, Staged, TypeOK, Answers
  <1>3. (\A x \in Households : x # h => Owned(x)) /\ (\A v \in Users : v # u => Settled(v))
    BY <1>0, <1>1 DEF Order, Endows, Rouses
  <1>4. members' = members
    BY <1>1 DEF delete_household, Close
  <1>5. SingleMembership' /\ AtMostOneActive(u)'
    BY <1>1, <1>4 DEF SingleMembership, AtMostOneActive, Of
  <1>6. \A v \in Users : v # u => Settled(v)'
    BY <1>3, <1>4, HistoryGrows DEF Settled, AtMostOneActive, NoneActive, Of
  <1>7. CASE households' = [households EXCEPT ![h] = "deleted"] /\ pc'[s] = "respond" /\ UNCHANGED <<code, abandoned>>
    <2>1. households'[h] = "deleted" /\ \A x \in Households : x # h => households'[x] = households[x]
      BY <1>2, <1>7 DEF TypeOK
    <2>2. \A x \in Households : Owned(x)'
      BY <1>3, <1>4, <1>7, <2>1 DEF Owned, In
    <2>3. Housed'
      BY <1>1, <1>4, <2>1 DEF Housed, In, TypeOK, Membership
    <2>4. Rouses(s, u)'
      BY <1>0, <1>2, <1>7, <2>1 DEF Rouses
    <2>5. InOrder(s)'
      BY <1>0, <1>2, <1>5, <1>7 DEF InOrder, Lost, AtMostOneActive, Of
    <2>6. Excused(s)'
      BY <1>2, <1>7 DEF Excused
    <2> QED
      BY <1>5, <1>6, <2>2, <2>3, <2>4, <2>5, <2>6 DEF Order
  <1>8. CASE pc'[s] = "done" /\ abandoned' = abandoned \cup {h} /\ UNCHANGED households
    <2>1. \A x \in Households : Owned(x)'
      BY <1>3, <1>4, <1>8 DEF Owned, In
    <2>2. Housed'
      BY <1>1, <1>4, <1>8 DEF Housed
    <2>3. LeftLast(u)'
      BY <1>0, <1>2, <1>8 DEF LeftLast
    <2>4. Settled(u)'
      BY <1>5, <2>3 DEF Settled
    <2>5. Excused(s)'
      BY <1>0, <1>2, <1>8 DEF Excused, Leaves
    <2> QED
      BY <1>5, <1>6, <1>8, <2>1, <2>2, <2>4, <2>5 DEF Order
  <1> QED
    BY <1>1, <1>7, <1>8 DEF delete_household, Close, Goto, TypeOK

LEMMA SettleInOrder ==
  ASSUME TypeOK, Ids, Progress, NEW s \in Reqs, Handles(s), Order(s), settle(s)
  PROVE  Order(s)'
  <1>0. PICK h, u : h = call[s].household /\ u = call[s].user
    OBVIOUS
  <1>1. /\ pc[s] = "settle" /\ RolesAgree(s) /\ SingleMembership /\ Housed
        /\ leaving[s].role # "owner" \/ h \in abandoned \/ NoOwner(h)
    BY <1>0 DEF settle, At, Order, InOrder
  <1>2. /\ call' = call /\ call[s].op = "remove" /\ u \in Users /\ h \in Households
        /\ code[s] = None /\ code[s] # "500"
    BY <1>0, <1>1, Handled, CallFields, NoneIsNothing DEF Progress, Staged, TypeOK, Answers
  <1>3. /\ \A x \in Households : Owned(x) \/ (x = h /\ leaving[s].role = "owner")
        /\ \A v \in Users : Settled(v)
    BY <1>0, <1>1 DEF Order, Endows, Rouses
  <1>4. members' = members
    BY <1>1 DEF settle, delete_household, Deletable, Close, tables
  <1>5. SingleMembership' /\ \A v \in Users : Settled(v)'
    BY <1>1, <1>3, <1>4, HistoryGrows DEF SingleMembership, Settled, AtMostOneActive, NoneActive, Of
  <1>6. pc'[s] = "respond" => InOrder(s)'
    BY <1>0, <1>2, <1>5 DEF InOrder, Lost, Settled, AtMostOneActive, Of
  <1>7. CASE households[h] = "open" /\ In(h) = {}
    <2>1. delete_household(s, h)
      BY <1>0, <1>7 DEF settle
    <2>2. CASE households' = [households EXCEPT ![h] = "deleted"] /\ pc'[s] = "respond" /\ UNCHANGED <<code, abandoned>>
      <3>1. households'[h] = "deleted" /\ \A x \in Households : x # h => households'[x] = households[x]
        BY <1>2, <2>2 DEF TypeOK
      <3>2. \A x \in Households : Owned(x)'
        BY <1>3, <1>4, <2>2, <3>1 DEF Owned, In
      <3>3. Housed'
        BY <1>1, <1>4, <1>7, <3>1 DEF Housed, In, TypeOK, Membership
      <3> QED
        BY <1>2, <1>5, <1>6, <2>2, <3>2, <3>3 DEF Order, Excused
    <2>3. CASE pc'[s] = "done" /\ abandoned' = abandoned \cup {h} /\ UNCHANGED households
      <3>1. \A x \in Households : Owned(x)'
        BY <1>3, <1>4, <2>3 DEF Owned, In
      <3>2. Housed'
        BY <1>1, <1>4, <2>3 DEF Housed
      <3>3. Excused(s)'
        BY <1>0, <1>2, <2>3 DEF Excused, Leaves
      <3> QED
        BY <1>5, <2>3, <3>1, <3>2, <3>3 DEF Order
    <2> QED
      BY <2>1, <2>2, <2>3 DEF delete_household, Close, Goto, TypeOK
  <1>8. CASE ~(households[h] = "open" /\ In(h) = {})
    <2> DEFINE now == {Known(s, m) : m \in In(h)}
               Promotes == leaving[s].role = "owner" /\ In(h) # {} /\ ~HasOwner(now)
    <2>1. /\ UNCHANGED <<households, leaving, code, abandoned>>
          /\ IF Promotes THEN pc'[s] = "promote" /\ \E m \in In(h) : heir'[s] = m.user
             ELSE pc'[s] = "respond"
      BY <1>0, <1>8 DEF settle, Goto, Heir, tables, TypeOK
    <2>2. HasOwner(now) => ~NoOwner(h)
      BY <1>1, KnownRole DEF HasOwner, NoOwner, In
    <2>3. Housed' /\ Excused(s)' /\ \A x \in Households : Owned(x) => Owned(x)'
      BY <1>1, <1>2, <1>4, <2>1, TablesStay DEF Excused
    <2>4. CASE Promotes
      <3>1. get_membership(h, heir'[s]) # {}
        BY <2>1, <2>4 DEF get_membership, Of, In
      <3>2. InOrder(s)'
        BY <1>0, <1>1, <1>2, <1>4, <2>1, <2>4, <3>1 DEF InOrder, get_membership, NoOwner, Of, In
      <3>3. \A x \in Households : Owned(x)' \/ Endows(s, x)'
        BY <1>0, <1>2, <1>3, <2>1, <2>3, <2>4 DEF Endows
      <3> QED
        BY <1>5, <2>3, <3>2, <3>3 DEF Order
    <2>5. CASE ~Promotes
      <3>1. Owned(h)
        BY <1>1, <1>2, <1>3, <1>8, <2>2, <2>5 DEF Owned
      <3> HIDE DEF now
      <3>2. \A x \in Households : Owned(x)'
        BY <1>3, <2>3, <3>1
      <3> QED
        BY <1>5, <1>6, <2>1, <2>3, <2>5, <3>2 DEF Order
    <2> QED
      BY <2>4, <2>5
  <1> QED
    BY <1>7, <1>8

LEMMA RemoveInOrder ==
  ASSUME TypeOK, Ids, Progress, NEW s \in Reqs, Handles(s), Order(s), remove_membership(s)
  PROVE  Order(s)'
  <1>0. PICK h, k, u, w : h = call[s].household /\ k = leaving[s] /\ u = k.user /\ w = heir'[s]
    OBVIOUS
  <1>1. /\ pc[s] = "remove" /\ UNCHANGED <<call, held, goal, leaving, seen, code, households, abandoned>>
        /\ members' = {m \in members : m.id # k.id}
        /\ heir'[s] = (IF call[s].op = "leave" /\ Others(s) # {} THEN First(Others(s)).user ELSE None)
        /\ pc'[s] = (IF call[s].op = "leave" /\ Others(s) = {} THEN "drop"
                     ELSE IF k.active THEN "reactivate"
                     ELSE IF call[s].op = "leave" THEN AfterLeave(s) ELSE "settle")
    BY <1>0 DEF remove_membership, At, Goto, Heir, TypeOK
  <1>2. /\ SingleMembership /\ Housed /\ Agrees(s) /\ k \in members
        /\ (\A x \in Households : Owned(x)) /\ (\A v \in Users : Settled(v))
        /\ call[s].op = "leave" => seen[s] = In(h)
    BY <1>0, <1>1, NothingOwed DEF InOrder
  <1>3. /\ call[s] \in Calls /\ call[s].op \in {"leave", "remove"} /\ call[s].user \in Users /\ u \in Users
        /\ k.household = h /\ h \in Households /\ (call[s].op = "leave" => u = call[s].user)
        /\ code[s] = None /\ code[s] # "500"
    BY <1>0, <1>1, <1>2, CallFields, NoneIsNothing
       DEF Progress, Staged, Leaves, Leaver, TypeOK, Membership, Answers
  <1>4. members' = members \ {k}
    BY <1>1, <1>2 DEF Ids
  <1>5. households[h] = "open"
    BY <1>2, <1>3 DEF Housed
  <1>6. SingleMembership' /\ Housed' /\ Agrees(s)' /\ RolesAgree(s)'
    BY <1>1, <1>2, <1>4 DEF SingleMembership, Housed, Agrees, RolesAgree
  <1>7. \A x \in Households : x # h \/ k.role # "owner" => Owned(x)'
    <2> SUFFICES ASSUME NEW x \in Households, x # h \/ k.role # "owner", households[x] = "open", x \notin abandoned
                 PROVE  \E m \in In(x)' : m.role = "owner" /\ \A n \in In(x)' : n.role = "owner" => n = m
      BY <1>1 DEF Owned
    <2>1. PICK m \in In(x) : m.role = "owner" /\ \A n \in In(x) : n.role = "owner" => n = m
      BY <1>2 DEF Owned
    <2>2. m \in In(x)' /\ In(x)' \subseteq In(x)
      BY <1>3, <1>4, <2>1 DEF In
    <2> QED
      BY <2>1, <2>2
  <1>8. k.role # "owner" \/ h \in abandoned \/ NoOwner(h)'
    <2> SUFFICES ASSUME k.role = "owner", h \notin abandoned PROVE NoOwner(h)'
      OBVIOUS
    <2>1. PICK m \in In(h) : m.role = "owner" /\ \A n \in In(h) : n.role = "owner" => n = m
      BY <1>2, <1>3, <1>5 DEF Owned
    <2>2. m = k
      BY <1>2, <1>3, <2>1 DEF In
    <2> QED
      BY <1>4, <2>1, <2>2 DEF NoOwner, In
  <1>9. \A v \in Users : AtMostOneActive(v)'
    BY <1>2, <1>4 DEF Settled, AtMostOneActive, Of
  <1>10. \A v \in Users : v # u \/ ~k.active => Settled(v)'
    <2> SUFFICES ASSUME NEW v \in Users, v # u \/ ~k.active PROVE NoneActive(v)' => Of(v)' = {} \/ LeftLast(v)'
      BY <1>9 DEF Settled
    <2>1. NoneActive(v)' => NoneActive(v)
      BY <1>0, <1>4 DEF NoneActive, Of
    <2>2. Of(v) = {} => Of(v)' = {}
      BY <1>4 DEF Of
    <2> QED
      BY <1>2, <2>1, <2>2, HistoryGrows DEF Settled
  <1>11. k.active => NoneActive(u)'
    BY <1>0, <1>2, <1>3, <1>4 DEF Settled, AtMostOneActive, NoneActive, Of
  <1>12. call[s].op = "leave" => Others(s) = In(h)' /\ Others(s)' = Others(s)
    BY <1>0, <1>1, <1>2, <1>3, <1>4 DEF Others, In, SingleMembership
  <1>13. call[s].op = "leave" /\ Others(s) # {} => get_membership(h, w)' # {}
    <2> SUFFICES ASSUME call[s].op = "leave", Others(s) # {}
                 PROVE  \E m \in members' : m.household = h /\ m.user = w
      BY DEF get_membership, Of, In
    <2>1. Others(s) \subseteq Membership
      BY DEF Others, TypeOK
    <2>2. First(Others(s)) \in Others(s)
      BY <2>1, FirstIsIn
    <2> QED
      BY <1>0, <1>1, <1>12, <2>2 DEF In
  <1>14. Excused(s)'
    BY <1>1, <1>3 DEF Excused
  <1>15. CASE call[s].op = "leave" /\ Others(s) = {}
    <2>1. InOrder(s)'
      BY <1>0, <1>1, <1>3, <1>5, <1>9, <1>12, <1>15 DEF InOrder, AtMostOneActive, Of, In
    <2>2. (\A x \in Households : Owned(x)' \/ Endows(s, x)') /\ (\A v \in Users : Settled(v)' \/ Rouses(s, v)')
      BY <1>0, <1>1, <1>3, <1>7, <1>10, <1>15 DEF Endows, Rouses
    <2> QED
      BY <1>6, <1>14, <2>1, <2>2 DEF Order
  <1>16. CASE ~(call[s].op = "leave" /\ Others(s) = {}) /\ k.active
    <2>1. pc'[s] = "reactivate"
      BY <1>1, <1>16
    <2>2. InOrder(s)'
      BY <1>0, <1>1, <1>3, <1>6, <1>8, <1>11, <1>12, <1>13, <1>16, <2>1
         DEF InOrder, NoneActive, NoOwner, get_membership, Of, In
    <2>3. (\A x \in Households : Owned(x)' \/ Endows(s, x)') /\ (\A v \in Users : Settled(v)' \/ Rouses(s, v)')
      BY <1>0, <1>1, <1>7, <1>10, <2>1 DEF Endows, Rouses
    <2> QED
      BY <1>6, <1>14, <2>2, <2>3 DEF Order
  <1>17. CASE ~(call[s].op = "leave" /\ Others(s) = {}) /\ ~k.active /\ pc'[s] = "respond"
    <2>1. call[s].op = "leave" /\ ~InheritsSeen(s)
      BY <1>1, <1>17 DEF AfterLeave
    <2>2. Owned(h)'
      BY <1>0, <1>1, <1>3, <1>7, <1>8, <1>12, <2>1 DEF InheritsSeen, HasOwner, NoOwner, Owned
    <2>3. InOrder(s)'
      BY <1>0, <1>1, <1>3, <1>9, <1>17 DEF InOrder, Lost, AtMostOneActive, Of
    <2> QED
      BY <1>6, <1>7, <1>10, <1>14, <1>17, <2>2, <2>3 DEF Order
  <1>18. CASE ~(call[s].op = "leave" /\ Others(s) = {}) /\ ~k.active /\ pc'[s] # "respond"
    <2>1. /\ pc'[s] \in {"settle", "promote"}
          /\ pc'[s] = "promote" => call[s].op = "leave" /\ k.role = "owner"
      BY <1>0, <1>1, <1>18 DEF AfterLeave, InheritsSeen
    <2>2. InOrder(s)'
      BY <1>0, <1>1, <1>3, <1>6, <1>8, <1>13, <1>18, <2>1 DEF InOrder, NoOwner, get_membership, Of, In
    <2>3. \A x \in Households : Owned(x)' \/ Endows(s, x)'
      BY <1>0, <1>1, <1>7, <2>1 DEF Endows
    <2> QED
      BY <1>6, <1>10, <1>14, <1>18, <2>2, <2>3 DEF Order
  <1> QED
    BY <1>15, <1>16, <1>17, <1>18

---------------------------------------------------------------------------
(* The invariant of calm times.                                            *)

LEMMA CalmInit == Orderly /\ Init => CalmInvariant
  <1> SUFFICES ASSUME Orderly, Init PROVE CalmInvariant
    OBVIOUS
  <1>1. members \in Starts /\ members \subseteq Membership
    BY MembershipAssumption DEF Init
  <1>2. SingleMembership
    BY <1>1 DEF SingleMembership, Orderly
  <1>3. Housed
    BY <1>1 DEF Init, Housed, Membership
  <1>4. \A h \in Households : Owned(h)
    <2> SUFFICES ASSUME NEW h \in Households, households[h] = "open"
                 PROVE  \E m \in In(h) : m.role = "owner" /\ \A n \in In(h) : n.role = "owner" => n = m
      BY DEF Owned
    <2>1. PICK m \in members : m.household = h
      BY DEF Init
    <2> QED
      BY <1>1, <2>1, SMTT(30) DEF Orderly, In
  <1>5. \A u \in Users : Settled(u)
    BY <1>1 DEF Orderly, Settled, AtMostOneActive, NoneActive, Of
  <1>6. InFlight = {} /\ \A r \in Reqs : Excused(r)
    BY NoneIsNothing DEF Init, InFlight, Excused, Answers
  <1> QED
    BY <1>2, <1>3, <1>4, <1>5, <1>6 DEF CalmInvariant

LEMMA ReceivedInOrder ==
  ASSUME TypeOK, Ids, Progress, NEW s \in Reqs, NEW c \in Calls, Receive(s, c), SingleMembership, Housed,
         \A h \in Households : Owned(h), \A u \in Users : Settled(u)
  PROVE  Order(s)'
  <1>1. /\ UNCHANGED <<households, members, code, abandoned>> /\ call'[s] = c /\ held'[s] = Of(c.user)
        /\ pc'[s] = (IF Of(c.user) = {} THEN "default" ELSE "lookup") /\ pc[s] = "idle"
    BY Received DEF Receive, Goto, tables, TypeOK
  <1>2. \A q \in Reqs : pc[q] = "done" => pc'[q] = "done" /\ call'[q] = call[q]
    BY Received
  <1>3. \A u : LeftLast(u) => LeftLast(u)'
    BY <1>1, <1>2 DEF LeftLast
  <1>4. SingleMembership' /\ Housed'
    BY <1>1 DEF SingleMembership, Housed
  <1>5. (\A h \in Households : Owned(h)') /\ (\A u \in Users : Settled(u)')
    BY <1>1, <1>3 DEF Owned, Settled, AtMostOneActive, NoneActive, Of, In
  <1>6. Agrees(s)'
    BY <1>1 DEF Agrees, Ids, Of
  <1>7. Of(c.user)' = Of(c.user)
    BY <1>1 DEF Of
  <1>8. InOrder(s)'
    BY <1>1, <1>6, <1>7 DEF InOrder
  <1>9. Excused(s)'
    BY <1>1, NoneIsNothing DEF Excused, Progress, Answers
  <1> QED
    BY <1>4, <1>5, <1>8, <1>9 DEF Order

LEMMA StepInOrder ==
  ASSUME TypeOK, Ids, Progress, NEW s \in Reqs, Step(s), Order(s) PROVE Order(s)'
  <1>1. Handles(s)
    BY DEF Handles
  <1>2. CASE _ensure_default_household(s)
    BY <1>1, <1>2, FoundInOrder DEF _ensure_default_household, At
  <1>3. CASE Replay(s) \/ list_households(s) \/ update_household(s) \/ join_household(s)
    BY <1>1, <1>3, LookupInOrder
  <1>4. CASE create_household(s)
    <2>1. pc[s] = "lookup" /\ Found(s, "activate")
      BY <1>4 DEF create_household, Calling, At, Order, InOrder
    <2> QED
      BY <1>1, <2>1, FoundInOrder
  <1>5. CASE add_member(s)
    BY <1>1, <1>5, AddMemberInOrder
  <1>6. CASE set_active_membership(s)
    BY <1>1, <1>6, SetActiveInOrder
  <1>7. CASE leave_household(s) \/ remove_member(s)
    BY <1>1, <1>7, DepartInOrder
  <1>8. CASE remove_membership(s)
    BY <1>1, <1>8, RemoveInOrder
  <1>9. CASE reactivate(s)
    BY <1>1, <1>9, ReactivateInOrder
  <1>10. CASE drop_household(s)
    BY <1>1, <1>10, DropInOrder
  <1>11. CASE settle(s)
    BY <1>1, <1>11, SettleInOrder
  <1>12. CASE update_member_role(s)
    BY <1>1, <1>12, UpdateMemberRoleInOrder
  <1>13. CASE respond(s)
    BY <1>1, <1>13, RespondInOrder
  <1> QED
    BY <1>2, <1>3, <1>4, <1>5, <1>6, <1>7, <1>8, <1>9, <1>10, <1>11, <1>12, <1>13 DEF Step

LEMMA CalmStep == KeptInvariant /\ CalmInvariant /\ [Next]_vars => CalmInvariant'
  <1> SUFFICES ASSUME KeptInvariant, CalmInvariant, [Next]_vars, Calm' PROVE CalmInvariant'
    BY DEF CalmInvariant
  <1>0. TypeOK /\ Ids /\ Progress
    BY DEF KeptInvariant
  <1>1. Calm
    BY <1>0, CalmBefore
  <1>2. SingleMembership /\ Housed /\ (\A r \in InFlight : Order(r)) /\ (\A r \in Reqs : Excused(r))
        /\ (Rest => (\A h \in Households : Owned(h)) /\ (\A u \in Users : Settled(u)))
    BY <1>1 DEF CalmInvariant
  <1>3. ASSUME NEW s \in Reqs, Order(s)', InFlight' \subseteq {s}, abandoned \subseteq abandoned',
               \A q \in Reqs : q # s => code'[q] = code[q] /\ call'[q] = call[q]
        PROVE  CalmInvariant'
    <2>1. \A q \in Reqs : Excused(q)'
      <3> SUFFICES ASSUME NEW q \in Reqs, q # s PROVE Excused(q)'
        BY <1>3 DEF Order
      <3> QED
        BY <1>2, <1>3 DEF Excused, Leaves
    <2>2. Rest' => (\A h \in Households : Owned(h)') /\ (\A u \in Users : Settled(u)')
      <3> SUFFICES ASSUME Rest' PROVE (\A h \in Households : Owned(h)') /\ (\A u \in Users : Settled(u)')
        OBVIOUS
      <3>1. pc'[s] \in {"idle", "done"}
        BY DEF Rest, InFlight
      <3>2. \A h, u : ~Endows(s, h)' /\ ~Rouses(s, u)'
        BY <3>1 DEF Endows, Rouses
      <3> QED
        BY <1>3, <3>2 DEF Order
    <2> QED
      BY <1>3, <2>1, <2>2 DEF CalmInvariant, Order
  <1>4. ASSUME NEW s \in Reqs, NEW c \in Calls, Receive(s, c) PROVE CalmInvariant'
    <2>1. InFlight = {} /\ InFlight' = {s}
      BY <1>0, <1>1, <1>4, CalmReception
    <2>2. Order(s)'
      BY <1>0, <1>2, <1>4, <2>1, ReceivedInOrder DEF Rest
    <2> QED
      BY <1>0, <1>3, <1>4, <2>1, <2>2, Received
  <1>5. ASSUME NEW s \in Reqs, Handles(s) PROVE CalmInvariant'
    <2>1. s \in InFlight
      BY <1>0, <1>5, Handled DEF InFlight
    <2>2. InFlight = {s}
      BY <1>0, <1>1, <2>1, CalmIsSerial
    <2>3. InFlight' \subseteq {s}
      BY <1>0, <1>5, <2>2, Handled DEF InFlight
    <2>4. Step(s)
      <3>1. ~Fail(s)
        BY <1>0 DEF Fail, Close, Calm, Failed, TypeOK
      <3> QED
        BY <1>5, <3>1 DEF Handles
    <2>5. Order(s)'
      BY <1>0, <1>2, <2>1, <2>4, StepInOrder
    <2> QED
      BY <1>0, <1>3, <1>5, <2>3, <2>5, Handled, HistoryGrows
  <1>6. CASE UNCHANGED vars
    BY <1>1, <1>2, <1>6 DEF vars, tables, session, CalmInvariant, SingleMembership, Housed, Rest, InFlight, Owned, In,
         Settled, AtMostOneActive, NoneActive, Of, LeftLast, Order, Endows, Rouses, InOrder, Agrees, RolesAgree,
         get_membership, NoOwner, Others, Lost, Excused, Leaves
  <1> QED
    BY <1>4, <1>5, <1>6, StepIsOf

(* While requests do not overlap or die, and households were in order at   *)
(* the start: one owner for each household, one membership in it for each  *)
(* user, one active household for each user who did not leave as the last  *)
(* member, and no errors (service.py:35-150, repository.py:48-55).         *)
THEOREM CalmHouseholdsStayInOrder == Orderly /\ Spec => []CalmHouseholds
  <1>1. CalmInvariant => CalmHouseholds
    <2> SUFFICES ASSUME CalmInvariant, Calm PROVE CalmHouseholds
      BY DEF CalmHouseholds, CalmOneOwner, CalmOneMembership, CalmOneActive, CalmSucceeds
    <2>1. CalmOneMembership
      BY DEF CalmInvariant, CalmOneMembership, SingleMembership
    <2>2. CalmSucceeds
      BY DEF CalmInvariant, CalmSucceeds, Excused, Leaves
    <2>3. CalmOneOwner
      <3> SUFFICES ASSUME Rest, NEW h \in Households \ abandoned, households[h] = "open"
                   PROVE  Cardinality(Owners(h)) = 1
        BY DEF CalmOneOwner
      <3>1. \E m : Owners(h) = {m}
        BY DEF CalmInvariant, Owned, Owners
      <3> QED
        BY <3>1, FS_Singleton
    <2>4. CalmOneActive
      <3> SUFFICES ASSUME Rest, NEW u \in Users, Of(u) # {}
                   PROVE  LET on == {m \in Of(u) : m.active}
                          IN  Cardinality(on) = 1 \/ (on = {} /\ LeftLast(u))
        BY DEF CalmOneActive
      <3> DEFINE on == {m \in Of(u) : m.active}
      <3>1. Settled(u)
        BY DEF CalmInvariant
      <3>2. CASE on = {}
        BY <3>1, <3>2 DEF Settled, NoneActive
      <3>3. CASE on # {}
        <4>1. \E m : on = {m}
          BY <3>1, <3>3 DEF Settled, AtMostOneActive
        <4> QED
          BY <4>1, FS_Singleton
      <3> QED
        BY <3>2, <3>3
    <2> QED
      BY <2>1, <2>2, <2>3, <2>4 DEF CalmHouseholds
  <1>2. KeptInvariant /\ CalmInvariant /\ [Next]_vars => CalmInvariant'
    BY CalmStep
  <1>3. Orderly /\ Init => CalmInvariant
    BY CalmInit
  <1> QED
    BY KeptInvariantHolds, <1>1, <1>2, <1>3, PTL DEF Spec
=============================================================================
