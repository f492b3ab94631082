---------------------------- MODULE Suggestions ----------------------------
(***************************************************************************)
(* What to cook: POST /v1/recommendations, which ranks the recipes of a    *)
(* source by what is in the house, and the planner behind POST /v1/plans,  *)
(* which chooses a recipe for every day and lists what is missing.  What a *)
(* plan then reserves is the subject of the module Reservations.           *)
(*                                                                         *)
(* A name is a record, not a string: the brands before the word, its stem, *)
(* the ending by which it is made singular, and whether a size follows.    *)
(* Names are in lower case and trimmed.  The scores are the sums of the    *)
(* code in whole numbers: planner points are hundredths, ranking points    *)
(* are 1/6000, exact for recipes of at most six ingredients.  Amounts are  *)
(* counted in halves of the units of Units, for the servings.              *)
(***************************************************************************)
EXTENDS Units, Expiry, SequencesExt

CONSTANTS
  Recipes,        \* the recipes of the household's sources, in their order
  SUBSTITUTIONS,  \* the names that can stand for a name
  Stocks,         \* the inventories there may be
  Queries,        \* what may be asked
  Shown,          \* the most recipes shown (10 in the code)
  None            \* None and null

Food == [brands : Seq(STRING), stem : STRING, ending : STRING, sized : BOOLEAN]

Item == [id : Nat, name : Food, unit : STRING, quantity : Nat, days : Int, active : BOOLEAN]

Ingredient == [name : Food, quantity : Nat, unit : STRING]
Recipe == [id : STRING, tags : SUBSET STRING, prep : Nat, ingredients : Seq(Ingredient)]

Sources == {"mock", "spoonacular", "opensearch"}

(* No name has more than two substitutes; a recipe that is looked at alone *)
(* is asked for without tags.                                              *)
ASSUME SuggestionsAssumption ==
  /\ Recipes \in Seq(Recipe)
  /\ \A i, j \in DOMAIN Recipes : Recipes[i].id = Recipes[j].id => i = j
  /\ \A i \in DOMAIN Recipes : Len(Recipes[i].ingredients) \in 1..6 /\ IsFiniteSet(Recipes[i].tags)
  /\ \A name \in DOMAIN SUBSTITUTIONS :
       IsFiniteSet(SUBSTITUTIONS[name]) /\ Cardinality(SUBSTITUTIONS[name]) <= 2
  /\ \A S \in Stocks : S \subseteq Item /\ IsFiniteSet(S) /\ \A a, b \in S : a.id = b.id => a = b
  /\ \A q \in Queries : /\ q.op \in {"plan", "recommend", "detail"} /\ q.source \in Sources
                         /\ q.servings \in Nat \ {0} /\ (q.op = "detail" => q.tags = {})
  /\ None \notin Queries /\ Shown \in Nat \ {0}

(* A literal is a string, which a proof has to be told.                    *)
ASSUME UnitAssumption == "unit" \in STRING

VARIABLES
  query,      \* what is asked
  stock,      \* the items the session has read
  stage,      \* where the request is
  recipes,    \* the recipes the planner or the ranking works with
  remaining,  \* planner: what is left of each name
  chosen,     \* planner: the recipe of each day
  source,     \* ranking: the source named in the answer
  ranked,     \* ranking: the recipes shown
  outcome     \* the status code answered

suggesting == <<query, stock, stage, recipes, remaining, chosen, source, ranked, outcome>>

Usable(S) == {i \in S : i.active}
Named(S, name) == {i \in Usable(S) : i.name = name}
NamesIn(r) == {r.ingredients[k].name : k \in DOMAIN r.ingredients}

----------------------------------------------------------------------------
(* The planner.                                                            *)
DEFAULT_BASE_SERVINGS == 2

Amount(quantity, unit, times) ==
  LET base == convert_to_base(quantity, unit)
  IN  [quantity |-> base.quantity * times, unit |-> base.unit]

Held(i) == Amount(i.quantity, i.unit, DEFAULT_BASE_SERVINGS)
Needed(g, servings) == Amount(g.quantity, g.unit, servings)

(* Items of a name that are measured in another base unit than the first   *)
(* to expire are passed over.                                              *)
_build_remaining_inventory(S) ==
  [name \in {i.name : i \in Usable(S)} |->
     LET first == CHOOSE i \in Named(S, name) : \A j \in Named(S, name) :
                    i.days < j.days \/ (i.days = j.days /\ i.id <= j.id)
         alike == {i \in Named(S, name) : Held(i).unit = Held(first).unit}
     IN  [quantity |-> SumFunction([i \in alike |-> Held(i).quantity]),
          unit |-> Held(first).unit, days |-> first.days]]

(* Of the members of S the k-th, if R says which comes before which; and   *)
(* what a sequence has at the places S, in its order.                      *)
Nth(S, R, k) == CHOOSE a \in S : Cardinality({b \in S : <<b, a>> \in R}) = k - 1

Picked(q, S) ==
  LET Less == {ab \in S \X S : ab[1] < ab[2]}
  IN  [k \in 1..Cardinality(S) |-> q[Nth(S, Less, k)]]

_filter_recipes(rs, tags, max_prep) ==
  Picked(rs, {k \in DOMAIN rs : tags \subseteq rs[k].tags /\ (max_prep = None \/ rs[k].prep <= max_prep)})

(* The ingredient can be taken, at least in part, from what remains.       *)
Takes(rem, g) ==
  /\ g.name \in DOMAIN rem
  /\ rem[g.name].unit = convert_to_base(g.quantity, g.unit).unit
  /\ rem[g.name].quantity > 0

(* Slip: the points of food that keeps for long go below zero.             *)
unbounded(n) == n

AtLeastZero(n) == IF n < 0 THEN 0 ELSE n

Urgency == [expired |-> 500, today |-> 400, this_week |-> 200, safe_later |-> 100]

_score_recipe(r, rem, used, servings) ==
  LET taken == {k \in DOMAIN r.ingredients : Takes(rem, r.ingredients[k])}
      Left(k) == rem[r.ingredients[k].name]
      whole == {k \in taken : Left(k).quantity >= Needed(r.ingredients[k], servings).quantity}
  IN  <<SumFunction([k \in taken |-> Urgency[get_urgency_bucket(Left(k).days)] + AtLeastZero(30 - Left(k).days)]),
        Cardinality(whole), Cardinality(taken),
        IF r.id \in used THEN 0 ELSE 1, - r.prep>>

Beats(a, b) ==
  \E k \in DOMAIN a : a[k] > b[k] /\ \A j \in 1..(k - 1) : a[j] = b[j]

(* The sort is stable: of the best, the first.                             *)
_pick_best_recipe(rs, rem, used, servings) ==
  LET Score(k) == _score_recipe(rs[k], rem, used, servings)
  IN  rs[CHOOSE k \in DOMAIN rs :
           /\ \A j \in DOMAIN rs : ~ Beats(Score(j), Score(k))
           /\ \A j \in 1..(k - 1) : Beats(Score(k), Score(j))]

_reserve_ingredient(left, g, servings) ==
  IF Takes(left, g)
  THEN [left EXCEPT ![g.name].quantity = AtLeastZero(@ - Needed(g, servings).quantity)]
  ELSE left

(* Slip: what is reserved is not multiplied by the servings.               *)
reserve_base_servings(r, rem, servings) ==
  FoldLeft(LAMBDA left, g : _reserve_ingredient(left, g, DEFAULT_BASE_SERVINGS), rem, r.ingredients)

_reserve_ingredients(r, rem, servings) ==
  FoldLeft(LAMBDA left, g : _reserve_ingredient(left, g, servings), rem, r.ingredients)

(* Amounts of all the items and all the ingredients of a name are added    *)
(* up, whatever their base unit; no other plan has reserved anything yet.  *)
Required(days, servings, name) ==
  LET lines == {dk \in (DOMAIN days) \X (1..6) :
                  /\ dk[2] \in DOMAIN days[dk[1]].ingredients
                  /\ days[dk[1]].ingredients[dk[2]].name = name}
  IN  SumFunction([dk \in lines |-> Needed(days[dk[1]].ingredients[dk[2]], servings).quantity])

derive_shopping_list(days, servings, S) ==
  LET Have(name) == SumFunction([i \in Named(S, name) |-> Held(i).quantity])
      Gap(name) == Required(days, servings, name) - Have(name)
  IN  [name \in {n \in UNION {NamesIn(days[d]) : d \in DOMAIN days} : Gap(n) > 0} |-> Gap(name)]

----------------------------------------------------------------------------
(* The ranking.                                                            *)

(* What remains of each ending: "ies" is replaced by "y", "ves" by "f".    *)
Endings == [ies |-> "y", ves |-> "f", ses |-> "s", ches |-> "ch", shes |-> "sh",
            es |-> "e", s |-> ""]

_normalize_ingredient(name) ==
  IF name.ending \in DOMAIN Endings
  THEN [name EXCEPT !.ending = Endings[name.ending]] ELSE name

(* Slip: the singular is looked for among the names as they are.           *)
present_singular(S, name) == _normalize_ingredient(name) \in {i.name : i \in Usable(S)}

Present(S, name) ==
  LET names == {i.name : i \in Usable(S)}
  IN  \/ name \in names
      \/ _normalize_ingredient(name) \in {_normalize_ingredient(n) : n \in names}

Covered(r, S) == {name \in NamesIn(r) : Present(S, name)}

_urgency_bonus(S, covered) ==
  LET singulars == {_normalize_ingredient(c) : c \in covered}
      Bonus(i) == IF get_urgency_bucket(i.days) \in {"expired", "today"} THEN 1800
                  ELSE IF get_urgency_bucket(i.days) = "this_week" THEN 900 ELSE 0
      matching == {i \in Usable(S) : i.name \in covered \/ _normalize_ingredient(i.name) \in singulars}
      total == SumFunction([i \in matching |-> Bonus(i)])
  IN  IF total > 2400 THEN 2400 ELSE total

Substitutes(S, name) ==
  IF name \in DOMAIN SUBSTITUTIONS THEN {s \in SUBSTITUTIONS[name] : Present(S, s)} ELSE {}

_dietary_fit_bonus(r, preferences) ==
  LET points == 300 * Cardinality(preferences \cap r.tags)
  IN  IF points > 1200 THEN 1200 ELSE points

score_breakdown(r, S, preferences) ==
  LET covered == Covered(r, S)
      lacking == {k \in DOMAIN r.ingredients : r.ingredients[k].name \notin covered}
      Stand(k) == Substitutes(S, r.ingredients[k].name)
      standing == SumFunction([k \in lacking |-> 300 * Cardinality(Stand(k))])
  IN  [score |-> (3000 * Cardinality(covered)) \div Cardinality(NamesIn(r))
                   + _urgency_bonus(S, covered)
                   + AtLeastZero(600 - 6 * r.prep)
                   + _dietary_fit_bonus(r, preferences)
                   + (IF standing > 900 THEN 900 ELSE standing),
       missing |-> {r.ingredients[k].name : k \in {j \in lacking : Stand(j) = {}}}]

(* A recipe as its source tells it: Spoonacular's search tells neither the *)
(* tags nor the time, the index of OpenSearch keeps no quantities.         *)
_map_recipe(r) == [r EXCEPT !.tags = {}, !.prep = 0]

_map_hit_to_recipe(r) ==
  [r EXCEPT !.ingredients = [k \in DOMAIN @ |-> [@[k] EXCEPT !.quantity = 0, !.unit = "unit"]]]

(* OpenSearch is asked for recipes with an ingredient in the house, or for *)
(* any if there is nothing.                                                *)
build_recipe_search_query(S, r) == S = {} \/ NamesIn(r) \cap {i.name : i \in S} # {}

Matches(r, q) ==
  /\ q.tags \subseteq r.tags
  /\ q.max_prep = None \/ r.prep <= q.max_prep
  /\ NamesIn(r) \cap q.excluded = {}

(* The best first; recipes with one score keep the order of the source.    *)
Ranking(rs, S, q) ==
  LET fit == {k \in DOMAIN rs : Matches(rs[k], q)}
      score == [k \in fit |-> score_breakdown(rs[k], S, q.tags).score]
      Before == {ab \in fit \X fit : \/ score[ab[1]] > score[ab[2]]
                                     \/ score[ab[1]] = score[ab[2]] /\ ab[1] < ab[2]}
      top == IF Cardinality(fit) < Shown THEN Cardinality(fit) ELSE Shown
      Best(n) == rs[Nth(fit, Before, n)]
  IN  [n \in 1..top |-> [recipe |-> Best(n), missing |-> score_breakdown(Best(n), S, q.tags).missing]]

----------------------------------------------------------------------------
(* One request.                                                            *)
SuggestionsInit ==
  /\ query = None /\ stock = {} /\ stage = "idle" /\ recipes = <<>>
  /\ remaining = <<>> /\ chosen = <<>> /\ source = None /\ ranked = <<>> /\ outcome = None

(* The session reads the items that are neither used nor discarded.        *)
list_inventory_items(q, S) ==
  /\ stage = "idle"
  /\ query' = q /\ stock' = Usable(S) /\ stage' = "asked"
  /\ UNCHANGED <<recipes, remaining, chosen, source, ranked, outcome>>

generate_plan ==
  /\ stage = "asked" /\ query.op = "plan"
  /\ LET fit == _filter_recipes(Recipes, query.tags, query.max_prep)
     IN  IF fit = <<>>
         THEN /\ stage' = "done" /\ outcome' = "422"
              /\ UNCHANGED <<recipes, remaining>>
         ELSE /\ recipes' = fit
              /\ remaining' = _build_remaining_inventory(stock)
              /\ stage' = "planning" /\ UNCHANGED outcome
  /\ UNCHANGED <<query, stock, chosen, source, ranked>>

Used == {chosen[d].id : d \in DOMAIN chosen}

PlanDay ==
  /\ stage = "planning" /\ Len(chosen) < query.days
  /\ LET r == _pick_best_recipe(recipes, remaining, Used, query.servings)
     IN  /\ chosen' = Append(chosen, r)
         /\ remaining' = _reserve_ingredients(r, remaining, query.servings)
  /\ UNCHANGED <<query, stock, stage, recipes, source, ranked, outcome>>

FinishPlan ==
  /\ stage = "planning" /\ Len(chosen) = query.days
  /\ stage' = "done" /\ outcome' = "200"
  /\ UNCHANGED <<query, stock, recipes, remaining, chosen, source, ranked>>

(* The recipes of the query's source, or "mock" ones.                      *)
_load_recipes(rs, from) ==
  /\ stage = "asked" /\ query.op = "recommend"
  /\ recipes' = rs /\ source' = from /\ stage' = "loaded"
  /\ UNCHANGED <<query, stock, remaining, chosen, ranked, outcome>>

(* A search finds some of the recipes, in their order.                     *)
Found(hits) == Picked(Recipes, hits)

search_mock == stage = "asked" /\ query.source = "mock" /\ _load_recipes(Recipes, "live")

(* The fixed recipes stand in for a source that fails.                     *)
search_spoonacular ==
  /\ stage = "asked" /\ query.source = "spoonacular"
  /\ \/ \E hits \in SUBSET DOMAIN Recipes :
          _load_recipes([k \in 1..Cardinality(hits) |-> _map_recipe(Found(hits)[k])], "live")
     \/ _load_recipes(Recipes, "mock")

(* Of its failure this client makes an answer without recipes.             *)
search_opensearch ==
  /\ stage = "asked" /\ query.source = "opensearch"
  /\ \E hits \in SUBSET {k \in DOMAIN Recipes : build_recipe_search_query(stock, Recipes[k])} :
       _load_recipes([k \in 1..Cardinality(hits) |-> _map_hit_to_recipe(Found(hits)[k])], "live")

Rank ==
  /\ stage = "loaded"
  /\ ranked' = Ranking(recipes, stock, query) /\ stage' = "ranked"
  /\ UNCHANGED <<query, stock, recipes, remaining, chosen, source, outcome>>

(* If what was shown cannot be recorded, the rollback expires the user too, *)
(* whose id the answer is cached under, and the request fails after all.   *)
Record ==
  /\ stage = "ranked"
  /\ stage' = "done" /\ outcome' \in {"200", "500"}
  /\ UNCHANGED <<query, stock, recipes, remaining, chosen, source, ranked>>

(* One recipe, rated without preferences.                                  *)
get_recipe_detail ==
  /\ stage = "asked" /\ query.op = "detail"
  /\ \/ \E k \in DOMAIN Recipes :
          ranked' = <<[recipe |-> Recipes[k],
                       missing |-> score_breakdown(Recipes[k], stock, {}).missing]>>
        /\ outcome' = "200"
     \/ outcome' = "404" /\ UNCHANGED ranked
  /\ stage' = "done"
  /\ UNCHANGED <<query, stock, recipes, remaining, chosen, source>>

Suggest == generate_plan \/ PlanDay \/ FinishPlan \/ search_mock \/ search_spoonacular
             \/ search_opensearch \/ Rank \/ Record \/ get_recipe_detail

----------------------------------------------------------------------------
SuggestionsTypeOK ==
  /\ query \in Queries \cup {None} /\ stock \subseteq Item
  /\ stage \in {"idle", "asked", "planning", "loaded", "ranked", "done"}
  /\ \A name \in DOMAIN remaining : remaining[name].quantity \in Nat
  /\ Len(ranked) <= Shown
  /\ \A k \in DOMAIN ranked : ranked[k].missing \subseteq NamesIn(ranked[k].recipe)
  /\ source \in {"live", "mock", None} /\ outcome \in {"200", "404", "422", "500", None}

(* What a plan takes from the house and what it lists to buy are together  *)
(* what its recipes need, no more and no less, as long as a name is        *)
(* measured in one base unit throughout: the loop over the days of         *)
(* MealPlanner.generate_plan and derive_shopping_list, which starts again  *)
(* from the whole inventory, agree.                                        *)
PlanIsCovered ==
  stage = "done" /\ query.op = "plan" /\ outcome = "200" =>
    LET lines == {dk \in (DOMAIN chosen) \X (1..6) : dk[2] \in DOMAIN chosen[dk[1]].ingredients}
        Line(dk) == chosen[dk[1]].ingredients[dk[2]]
        BaseUnits(name) == {Held(i).unit : i \in Named(stock, name)}
                             \cup {Needed(Line(dk), 1).unit : dk \in {x \in lines : Line(x).name = name}}
        before == _build_remaining_inventory(stock)
        list == derive_shopping_list(chosen, query.servings, stock)
        Taken(name) == IF name \in DOMAIN before
                       THEN before[name].quantity - remaining[name].quantity ELSE 0
        Bought(name) == IF name \in DOMAIN list THEN list[name] ELSE 0
    IN  \A name \in UNION {NamesIn(chosen[d]) : d \in DOMAIN chosen} :
          Cardinality(BaseUnits(name)) = 1 =>
            Required(chosen, query.servings, name) = Taken(name) + Bought(name)

NamesTaken(r) == {r.ingredients[k].name : k \in {j \in DOMAIN r.ingredients : Takes(remaining, r.ingredients[j])}}

(* A day's recipe is never one that uses a part only of the food another   *)
(* recipe would use (_score_recipe), unless it names an ingredient twice,  *)
(* for which it is rewarded twice.                                         *)
NothingPassedOver ==
  [][ stage = "planning" /\ chosen' # chosen =>
        LET r == Last(chosen')
        IN  Cardinality(NamesIn(r)) = Len(r.ingredients) =>
              \A c \in Range(recipes) : ~ (NamesTaken(r) \subseteq NamesTaken(c) /\ NamesTaken(r) # NamesTaken(c))
    ]_suggesting

(* A recipe comes back on another day only to use up food, or because      *)
(* every recipe has had its day.                                           *)
RepeatsOnlyToUseUp ==
  [][ stage = "planning" /\ chosen' # chosen /\ Last(chosen') \in Range(chosen)
        => NamesTaken(Last(chosen')) # {} \/ Range(recipes) \subseteq Range(chosen)
    ]_suggesting

(* The two ways of matching names agree in one direction: what the planner *)
(* can take for a recipe (exact names) the ranking counts as covered       *)
(* (singulars as well), so it is not among the missing items.              *)
AvailableIsCovered ==
  stage # "idle" =>
    \A r \in Range(Recipes) : \A k \in DOMAIN r.ingredients :
      Takes(_build_remaining_inventory(stock), r.ingredients[k])
        => /\ r.ingredients[k].name \in Covered(r, stock)
           /\ r.ingredients[k].name \notin score_breakdown(r, stock, {}).missing

(* More food in the house never makes a recipe of at most five different   *)
(* ingredients rank lower: an ingredient that arrives is worth at least    *)
(* what its two substitutes were (score_breakdown).                        *)
FoodNeverHurts ==
  stage # "idle" =>
    \A r \in Range(Recipes) : \A i \in stock :
      Len(r.ingredients) <= 5 /\ Cardinality(NamesIn(r)) = Len(r.ingredients) =>
        score_breakdown(r, stock \ {i}, {}).score <= score_breakdown(r, stock, {}).score

(* Whatever the source told of it, a recipe shown really has every dietary *)
(* tag asked for: a source that tells no tags shows nothing instead.       *)
DietIsKept ==
  \A k \in DOMAIN ranked : \A r \in Range(Recipes) :
    ranked[k].recipe.id = r.id => query.tags \subseteq r.tags

(* Each day takes the recipe that uses up most, and none for a second time *)
(* without need.                                                           *)
DaysAreWellChosen == NothingPassedOver /\ RepeatsOnlyToUseUp

(* A ranking agrees with the planner on what there is, never punishes food *)
(* and never breaks a diet.                                                *)
RankingIsRight == AvailableIsCovered /\ FoodNeverHurts /\ DietIsKept
=============================================================================
