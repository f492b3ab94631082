-------------------------------- MODULE Units --------------------------------
(***************************************************************************)
(* Units of measure: their spellings and their base units.                 *)
(* A factor is counted in ten-thousandths, so that every                   *)
(* one of the code's is a whole number; a spelling is in lower case and    *)
(* trimmed, as the code makes it before it looks it up.                    *)
(***************************************************************************)
EXTENDS Integers

UNIT_ALIASES ==
  [g |-> "g", gram |-> "g", grams |-> "g",
   kg |-> "kg", kilogram |-> "kg", kilograms |-> "kg",
   ml |-> "ml", milliliter |-> "ml", milliliters |-> "ml",
   millilitre |-> "ml", millilitres |-> "ml",
   l |-> "l", liter |-> "l", liters |-> "l", litre |-> "l", litres |-> "l",
   oz |-> "oz", ounce |-> "oz", ounces |-> "oz",
   lb |-> "lb", lbs |-> "lb", pound |-> "lb", pounds |-> "lb",
   cup |-> "cup", cups |-> "cup",
   tbsp |-> "tbsp", tablespoon |-> "tbsp", tablespoons |-> "tbsp",
   tsp |-> "tsp", teaspoon |-> "tsp", teaspoons |-> "tsp",
   gallon |-> "gallon", gallons |-> "gallon", pint |-> "pint", pints |-> "pint",
   piece |-> "piece", pieces |-> "piece", unit |-> "unit", units |-> "unit",
   pack |-> "pack", packs |-> "pack", pk |-> "pack", bunch |-> "bunch",
   can |-> "can", cans |-> "can", bottle |-> "bottle", bottles |-> "bottle",
   slice |-> "slice", slices |-> "slice"]

One == 10000

CONVERSION_TO_BASE ==
  [g |-> <<"g", One>>, kg |-> <<"g", 1000 * One>>,
   oz |-> <<"g", 283495>>, lb |-> <<"g", 4535920>>,
   ml |-> <<"ml", One>>, l |-> <<"ml", 1000 * One>>,
   gallon |-> <<"ml", 37854100>>, pint |-> <<"ml", 4731760>>, cup |-> <<"ml", 2365880>>,
   tbsp |-> <<"ml", 147870>>, tsp |-> <<"ml", 49290>>]

normalize_unit(raw_unit) ==
  IF raw_unit \in DOMAIN UNIT_ALIASES THEN UNIT_ALIASES[raw_unit] ELSE raw_unit

(* A unit that cannot be converted is its own base unit.                   *)
Base(raw_unit) ==
  LET normalized == normalize_unit(raw_unit)
  IN  IF normalized \in DOMAIN CONVERSION_TO_BASE
      THEN CONVERSION_TO_BASE[normalized] ELSE <<normalized, One>>

convert_to_base(quantity, unit) ==
  [quantity |-> quantity * Base(unit)[2], unit |-> Base(unit)[1]]
=============================================================================
