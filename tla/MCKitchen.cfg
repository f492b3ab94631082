SPECIFICATION Spec
CONSTANTS
  Reqs = {1, 2, 3}
  Users = {u1}
  Allowed = {u1}
  Barcodes = {"b1", "b2"}
  Products <- SomeProducts
  Photos <- SomePhotos
  Words = {"", "e", "es", "ketchup", "tomato", "milk", "tesco", "heinz", "fridge", "freezer", "pantry"}
  Places = {"fridge", "freezer"}
  Builtin <- SomeBuiltin
  DbRules <- SomeDbRules
  MaxTrouble = 1
  MaxBefore = 2
  Null = None
  None = None
  Recipes <- SomeRecipes
  SUBSTITUTIONS <- SomeSubstitutions
  Stocks <- SomeStocks
  Queries <- SomeQueries
  Shown = 2
INVARIANTS TypeOK AnswersAreRight NamesAgree PlanIsCovered RankingIsRight
PROPERTIES DaysAreWellChosen EveryoneIsAnswered
CHECK_DEADLOCK FALSE
