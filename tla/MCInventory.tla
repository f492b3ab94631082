---------------------------- MODULE MCInventory ----------------------------
(* Instances of Inventory for TLC. *)
EXTENDS InventoryRefinement, TLC

(* Requests, keys and contents are only compared, never ordered or named,  *)
(* so permuting them keeps the safety properties.                          *)
Symmetric == Permutations(Reqs) \cup Permutations(Keys) \cup Permutations(Users)
             \cup Permutations(Contents)
=============================================================================
