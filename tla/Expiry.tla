------------------------------- MODULE Expiry -------------------------------
(***************************************************************************)
(* How long food keeps, and how urgent it is.  A date is a number of days  *)
(* from today.  The rules are a sequence, because the first rule of a name *)
(* stands in for a place that has none; names and places are in lower case *)
(* and trimmed.  The confidence of a rule is left out.                     *)
(***************************************************************************)
EXTENDS Integers, SequencesExt

DEFAULT_SHELF_LIFE == 7

SameKey(a, b) == a.name = b.name /\ a.place = b.place

(* A rule replaces the one of its name and place where that is, or follows *)
(* the others: so do the rules of the database, one after the other.       *)
Updated(rules, rule) ==
  IF \E i \in DOMAIN rules : SameKey(rules[i], rule)
  THEN [i \in DOMAIN rules |-> IF SameKey(rules[i], rule) THEN rule ELSE rules[i]]
  ELSE Append(rules, rule)

Merged(builtin, db) == FoldLeft(Updated, builtin, db)

get_shelf_life_days(rules, name, place) ==
  LET OfName == {i \in DOMAIN rules : rules[i].name = name}
      Exact == {i \in OfName : rules[i].place = place}
      FirstOf(S) == rules[CHOOSE i \in S : \A j \in S : i <= j].days
  IN  IF Exact # {} THEN FirstOf(Exact)
      ELSE IF OfName # {} THEN FirstOf(OfName) ELSE DEFAULT_SHELF_LIFE

calculate_expiry(rules, name, place) == get_shelf_life_days(rules, name, place)

get_urgency_bucket(days_left) ==
  IF days_left < 0 THEN "expired"
  ELSE IF days_left <= 1 THEN "today"
  ELSE IF days_left <= 7 THEN "this_week" ELSE "safe_later"
=============================================================================
