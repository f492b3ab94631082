------------------------ MODULE InventoryRefinement ------------------------
(***************************************************************************)
(* Inventory implements AtomicInventory as long as its requests do not     *)
(* overlap, none dies and no item is reserved.  A change takes effect with *)
(* the second of the two transactions that write it: the event of a change *)
(* that is already committed, the deletion of an item already logged as    *)
(* removed.                                                                *)
(***************************************************************************)
EXTENDS Inventory

Halfway(i) == {r \in Reqs : pc[r] \in {"written", "refreshed"} /\ Item(r) = i}

RowsSeen == [i \in Items |-> IF Halfway(i) = {} THEN rows[i]
                             ELSE snap[CHOOSE r \in Halfway(i) : TRUE]]

LogSeen ==
  LET Pending(e) == pc[e.req] \in {"announced", "deleting", "removing"}
      n == IF \E k \in DOMAIN events : Pending(events[k])
           THEN Len(events) - 1 ELSE Len(events)
  IN  [k \in 1..n |-> [id |-> events[k].id, user |-> events[k].user,
                       action |-> events[k].action,
                       prev |-> events[k].prev, new |-> events[k].new]]

Atomic == INSTANCE AtomicInventory WITH rows <- RowsSeen, log <- LogSeen

(* Every behaviour of the request handlers is one of the inventory whose   *)
(* items and activity log change together.                                 *)
ImplementsAtomicInventory == Atomic!Spec
=============================================================================
