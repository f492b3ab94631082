-------------------------- MODULE AtomicInventory --------------------------
(***************************************************************************)
(* What the inventory promises its household: an item and its activity log *)
(* change together, in one step.  Every change of an item is in the log    *)
(* with the states it led from and to, and undo takes an item back to what *)
(* it was before the member's own latest change.                           *)
(***************************************************************************)
EXTENDS Naturals, Sequences

CONSTANTS Users, Items, Contents, Statuses, Seeded, None

VARIABLES rows, log

vars == <<rows, log>>

NewRow(c) == [content |-> c, status |-> "active", version |-> 1]

Init == /\ rows \in [Items -> {None} \cup {NewRow(c) : c \in Contents}]
        /\ \A i \in Items : rows[i] # None <=> i \in Seeded
        /\ log = <<>>

(* The item takes the state new, and the log tells of it.                  *)
Record(u, i, action, prev, new) ==
  /\ rows' = [rows EXCEPT ![i] = new]
  /\ log' = Append(log, [id |-> i, user |-> u, action |-> action,
                         prev |-> prev, new |-> new])

Mentioned(i) == \E k \in DOMAIN log : log[k].id = i

Add(u, i) ==
  /\ rows[i] = None /\ ~Mentioned(i)
  /\ \E c \in Contents : Record(u, i, "added", None, NewRow(c))

Change(u, i) ==
  /\ rows[i] # None
  /\ \/ \E c \in Contents :
          Record(u, i, "updated", rows[i],
                 [rows[i] EXCEPT !.content = c, !.version = @ + 1])
     \/ \E s \in Statuses :
          Record(u, i, "status_updated", rows[i],
                 [rows[i] EXCEPT !.status = s, !.version = @ + 1])

Remove(u, i) == rows[i] # None /\ Record(u, i, "removed", rows[i], None)

(* Undoing a removal goes on from the version of the item removed, undoing *)
(* any other change from the version of the item as it is now.             *)
Own(u, i) == {k \in DOMAIN log : log[k].user = u /\ log[k].id = i}

Undo(u, i) ==
  \E k \in Own(u, i) :
    /\ \A j \in Own(u, i) : j <= k
    /\ log[k].prev # None
    /\ rows[i] = None <=> log[k].action = "removed"
    /\ LET now == IF rows[i] = None THEN log[k].prev ELSE rows[i]
       IN  Record(u, i, "undone", log[k].new,
                  [log[k].prev EXCEPT !.version = now.version + 1])

Next == \E u \in Users, i \in Items :
          Add(u, i) \/ Change(u, i) \/ Remove(u, i) \/ Undo(u, i)

Spec == Init /\ [][Next]_vars
=============================================================================
