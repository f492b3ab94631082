----------------------------- MODULE MCKitchen -----------------------------
(* Values of the constants of Kitchen for the run.                         *)
EXTENDS Kitchen

Milk == Word("milk", "")
OatMilk == Word("oat milk", "")
SoyMilk == Word("almond milk", "")
Apple == Word("appl", "e")
Apples == Word("appl", "es")
Flour == Word("flour", "")

Branded(name, brands) == [name EXCEPT !.brands = brands, !.sized = TRUE]

(* A product with two brands in its name, one whose name has changed.      *)
SomeProducts ==
  [b \in Barcodes |-> IF b = "b1" THEN {Branded(Milk, <<"tesco", "heinz">>)}
                      ELSE {Milk, Branded(Word("tomato", ""), <<"heinz">>)}]

Draft(name, canonical) == [display_name |-> name, canonical_name |-> canonical]
SomePhotos == {[parsed |-> <<Draft(Branded(Milk, <<>>), Null), Draft(Null, Milk)>>, content |-> Null],
               [parsed |-> Null, content |-> Null]}

Rule(name, place, days) == [name |-> name, place |-> place, days |-> days]
SomeBuiltin == <<Rule(Milk, "fridge", 7), Rule(Milk, "freezer", 90), Rule(Word("tomato", "es"), "pantry", 5)>>
SomeDbRules == <<Rule(Word("tomato", "es"), "fridge", 10), Rule(Milk, "freezer", 30)>>

Stock(id, name, unit, quantity, days) ==
  [id |-> id, name |-> name, unit |-> unit, quantity |-> quantity, days |-> days, active |-> TRUE]

SomeStocks ==
  {{}, {Stock(1, Milk, "ml", 500, 1), Stock(2, Milk, "l", 1, 9), Stock(3, Apple, "unit", 3, 8)},
   {Stock(1, Flour, "kg", 1, 730), Stock(2, OatMilk, "l", 1, 0), Stock(3, SoyMilk, "l", 1, 20),
    [Stock(4, Milk, "l", 9, 1) EXCEPT !.active = FALSE]},
   {Stock(1, Apples, "units", 2, -1), Stock(2, Milk, "unit", 1, 3), Stock(3, Milk, "ml", 250, 2)},
   {Stock(1, Flour, "g", 300, 8), Stock(2, Apple, "unit", 2, 8), Stock(3, Milk, "l", 1, 8)}}

Use(name, quantity, unit) == [name |-> name, quantity |-> quantity, unit |-> unit]

SomeRecipes ==
  <<[id |-> "porridge", tags |-> {"vegan"}, prep |-> 10, ingredients |-> <<Use(Milk, 200, "ml")>>],
    [id |-> "pancakes", tags |-> {"quick"}, prep |-> 20,
     ingredients |-> <<Use(Flour, 150, "g"), Use(Milk, 1, "cup")>>],
    [id |-> "pie", tags |-> {"vegan", "quick"}, prep |-> 60,
     ingredients |-> <<Use(Apple, 2, "unit"), Use(Flour, 1, "kg"), Use(Flour, 20, "g")>>],
    [id |-> "salad", tags |-> {"vegan"}, prep |-> 20, ingredients |-> <<Use(Apples, 1, "unit")>>]>>

SomeSubstitutions == Milk :> {OatMilk, SoyMilk}

Plan(days, servings, tags, max_prep) ==
  [op |-> "plan", source |-> "mock", days |-> days, servings |-> servings,
   tags |-> tags, max_prep |-> max_prep, excluded |-> {}]
Recommend(from, tags, max_prep, excluded) ==
  [op |-> "recommend", source |-> from, days |-> 0, servings |-> 2,
   tags |-> tags, max_prep |-> max_prep, excluded |-> excluded]

SomeQueries ==
  {Plan(4, 3, {}, None), Plan(3, 2, {}, 60), Plan(2, 1, {"vegan"}, None), Plan(1, 2, {"keto"}, None),
   Recommend("mock", {"quick"}, 30, {}), Recommend("spoonacular", {}, None, {Apple}),
   [Recommend("mock", {}, None, {}) EXCEPT !.op = "detail"],
   Recommend("spoonacular", {"vegan"}, None, {}), Recommend("opensearch", {"vegan"}, None, {})}
=============================================================================
