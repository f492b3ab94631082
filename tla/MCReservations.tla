--------------------------- MODULE MCReservations ---------------------------
(* Values of the constants of Reservations for the runs.                   *)
EXTENDS Reservations, TLC

CONSTANTS i1, i2, flour

OneName == [i \in Items |-> flour]
ByExpiry == [i \in Items |-> IF i = i1 THEN 1 ELSE 2]

(* Kilograms stand for two grams here.                                     *)
Base == [u \in Units |-> IF u = "kg" THEN "g" ELSE u]
Factors == [u \in Units |-> IF u = "kg" THEN 2 ELSE 1]

Line(q, u) == [name |-> flour, quantity |-> q, unit |-> u]

(* A small plan, one that takes its ingredient on two days, and one that   *)
(* asks for more than there may be.                                        *)
GramMenus == {<<Line(1, "g")>>, <<Line(1, "g"), Line(1, "kg")>>}
TwoMenus == {<<Line(2, "g")>>, <<Line(1, "g"), Line(1, "g")>>}

Interchangeable == Permutations(Reqs) \cup Permutations(Keys) \cup Permutations(Users)
=============================================================================
