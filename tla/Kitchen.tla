------------------------------ MODULE Kitchen ------------------------------
(***************************************************************************)
(* The catalog and the suggestions together: what is scanned and added is  *)
(* in the house when recipes are ranked and meals are planned.             *)
(*                                                                         *)
(* A suggestion reads the inventory once and writes nothing but the record *)
(* of what it showed, so that what happens after its reading does not      *)
(* concern it: one suggestion ends a behaviour.                            *)
(***************************************************************************)
EXTENDS Catalog, Suggestions

CONSTANT MaxBefore  \* bound on the requests received before the suggestion

(* The words of the catalog are those of the recipes.                      *)
ASSUME KitchenAssumption == Words \subseteq STRING

vars == <<catalog, suggesting>>

Init == CatalogInit /\ SuggestionsInit

Added == {[id |-> 100 + i.id, name |-> i.name, unit |-> "unit", quantity |-> 1,
           days |-> i.days, active |-> TRUE] : i \in items}

(* Asked at the start, or once something has been added.                   *)
Ask ==
  /\ \A r \in Reqs : ~ Running(r) /\ (r > MaxBefore => tx[r].at = "idle")
  /\ items # {} \/ \A r \in Reqs : tx[r].at = "idle"
  /\ \E q \in Queries : \E S \in Stocks : list_inventory_items(q, S \cup Added)

Next ==
  \/ stage = "idle" /\ CatalogNext /\ UNCHANGED suggesting
  \/ (Ask \/ Suggest) /\ UNCHANGED catalog

(* The event loop runs every coroutine on, the services answer or time out *)
(* (the clients of httpx wait 10, 15 and 45 seconds), and a transaction    *)
(* that another waits for ends.                                            *)
Spec ==
  /\ Init /\ [][Next]_vars
  /\ \A r \in Reqs : WF_vars(Step(r) /\ UNCHANGED suggesting)

TypeOK == CatalogTypeOK /\ SuggestionsTypeOK

(* Every scan and every new item is answered or dies, also when several    *)
(* wait for the rows the others have written.                              *)
EveryoneIsAnswered == \A r \in Reqs : Running(r) ~> ~ Running(r)
=============================================================================
