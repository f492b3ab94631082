--------------------------- MODULE KitchenProofs ---------------------------
(* Theorems about Kitchen for all values of the constants.  The catalog:   *)
(* an answer is right whatever runs beside it and whatever fails, and the  *)
(* names and dates of scans, items and rules agree.  The suggestions: a    *)
(* plan takes and lists what its recipes need, its days are well chosen,   *)
(* and a ranking agrees with the planner, for all recipes and inventories. *)
EXTENDS Kitchen, SequenceTheorems, WellFoundedInduction, FiniteSetTheorems, TLAPS

----------------------------------------------------------------------------
(* Sequences.                                                              *)
LEMMA Indices ==
  ASSUME NEW S, NEW q \in Seq(S)
  PROVE  /\ Len(q) \in Nat /\ DOMAIN q = 1..Len(q)
         /\ \A k \in DOMAIN q : q[k] \in S
  BY LenProperties, ElementOfSeq

LEMMA Appended ==
  ASSUME NEW S, NEW q \in Seq(S), NEW e \in S
  PROVE  /\ Append(q, e) \in Seq(S)
         /\ DOMAIN Append(q, e) = DOMAIN q \cup {Len(q) + 1}
         /\ \A k \in DOMAIN q : Append(q, e)[k] = q[k]
         /\ Append(q, e)[Len(q) + 1] = e
         /\ Len(q) + 1 \notin DOMAIN q
  <1>1. /\ Append(q, e) \in Seq(S) /\ Len(Append(q, e)) = Len(q) + 1
        /\ \A i \in 1..Len(q) : Append(q, e)[i] = q[i]
        /\ Append(q, e)[Len(q) + 1] = e
    BY AppendProperties
  <1>2. Len(q) \in Nat /\ DOMAIN q = 1..Len(q) /\ DOMAIN Append(q, e) = 1..Len(Append(q, e))
    BY <1>1, Indices
  <1>3. 1..(Len(q) + 1) = 1..Len(q) \cup {Len(q) + 1}
    BY <1>2
  <1> QED
    BY <1>1, <1>2, <1>3

(* Of some indices there is a first.                                       *)
LEMMA FirstExists ==
  ASSUME NEW S \in SUBSET Nat, S # {}
  PROVE  (CHOOSE i \in S : \A j \in S : i <= j) \in S
  <1>1. PICK n \in S : \A m \in S : ~ (<<m, n>> \in OpToRel(<, Nat))
    BY NatLessThanWellFounded, WFMin
  <1>2. \A m \in S : ~ (m < n)
    BY <1>1 DEF OpToRel
  <1>3. \A m \in S : m \in Nat
    OBVIOUS
  <1>4. \A m \in S : n <= m
    BY <1>2, <1>3
  <1> QED
    BY <1>4

----------------------------------------------------------------------------
(* Names.                                                                  *)
LEMMA WordIsName ==
  ASSUME NEW stem \in Words, NEW ending \in Words
  PROVE  Word(stem, ending) \in Name
  <1>1. <<>> \in Seq(Words)
    BY EmptySeq
  <1> QED
    BY <1>1 DEF Word, Name

LEMMA NormalizedIsName ==
  ASSUME NEW name \in Name
  PROVE  normalize_ingredient_name(name) \in Name
  <1> DEFINE brands == IF name.brands = <<>> THEN <<>> ELSE Tail(name.brands)
             sizeless == [name EXCEPT !.sized = FALSE]
             plain == [sizeless EXCEPT !.brands = brands]
  <1>1. name.brands \in Seq(Words)
    BY DEF Name
  <1>2. brands \in Seq(Words)
    BY <1>1, HeadTailProperties, EmptySeq
  <1>3. sizeless \in Name
    BY DEF Name
  <1> HIDE DEF brands, sizeless
  <1>4. plain \in Name
    BY <1>2, <1>3 DEF Name
  <1>5. Word("ketchup", "") \in Name /\ Word("tomato", "es") \in Name
    BY WordIsName, CatalogAssumption
  <1> HIDE DEF plain
  <1>6. EXACT_VARIANTS(plain) \in Name
    BY <1>4, <1>5, Zenon DEF EXACT_VARIANTS
  <1>7. normalize_ingredient_name(name) \in {Word("ketchup", ""), EXACT_VARIANTS(plain)}
    BY Zenon DEF normalize_ingredient_name, brands, sizeless, plain
  <1> QED
    BY <1>5, <1>6, <1>7

LEMMA DraftNamesAreNames ==
  ASSUME NEW raw \in Seq(Drafts)
  PROVE  DraftNames(raw) \in SUBSET Name
  <1> SUFFICES ASSUME NEW k \in DOMAIN raw, raw[k].display_name # Null
               PROVE  (IF raw[k].canonical_name # Null THEN raw[k].canonical_name
                       ELSE normalize_ingredient_name(raw[k].display_name)) \in Name
    BY DEF DraftNames
  <1>1. raw[k] \in Drafts
    BY Indices
  <1>2. /\ raw[k].display_name \in Name
        /\ raw[k].canonical_name \in Name \cup {Null}
    BY <1>1 DEF Drafts
  <1> QED
    BY <1>2, NormalizedIsName

LEMMA PhotoNamesAreNames ==
  ASSUME NEW message \in Photos
  PROVE  DraftNames(_extract_content(message)) \in SUBSET Name
  <1>1. message.parsed \in Seq(Drafts) \cup {Null} /\ message.content \in Seq(Drafts) \cup {Null}
    BY CatalogAssumption
  <1>2. <<>> \in Seq(Drafts)
    BY EmptySeq
  <1>3. _extract_content(message) \in Seq(Drafts)
    BY <1>1, <1>2 DEF _extract_content
  <1> QED
    BY <1>3, DraftNamesAreNames
----------------------------------------------------------------------------
(* Rules: the merged ones are those of the database and the built-in ones  *)
(* that they do not replace.                                               *)
LEMMA UpdatedIs ==
  ASSUME NEW rules \in Seq(RuleRows), NEW rule \in RuleRows,
         NEW new, new = Updated(rules, rule)
  PROVE  /\ new \in Seq(RuleRows)
         /\ \A k \in DOMAIN new : \/ new[k] = rule
                                  \/ /\ k \in DOMAIN rules /\ new[k] = rules[k]
                                     /\ ~ SameKey(rules[k], rule)
         /\ \E k \in DOMAIN new : new[k] = rule
         /\ \A k \in DOMAIN rules : k \in DOMAIN new /\ SameKey(new[k], rules[k])
  <1>1. CASE \E i \in DOMAIN rules : SameKey(rules[i], rule)
    <2>1. new = [i \in DOMAIN rules |-> IF SameKey(rules[i], rule) THEN rule ELSE rules[i]]
      BY <1>1, Zenon DEF Updated
    <2>2. DOMAIN rules = 1..Len(rules) /\ Len(rules) \in Nat /\ \A k \in DOMAIN rules : rules[k] \in RuleRows
      BY Indices
    <2>3. /\ DOMAIN new = DOMAIN rules
          /\ \A k \in DOMAIN rules : new[k] = IF SameKey(rules[k], rule) THEN rule ELSE rules[k]
      BY <2>1
    <2>4. new \in [1..Len(rules) -> RuleRows]
      <3>1. \A k \in DOMAIN rules : new[k] \in RuleRows
        BY <2>2, <2>3
      <3>2. new = [k \in 1..Len(rules) |-> new[k]]
        BY <2>1, <2>2
      <3> QED
        BY <2>2, <3>1, <3>2
    <2>5. new \in Seq(RuleRows)
      BY <2>2, <2>4, SeqDef
    <2>6. \A k \in DOMAIN rules : SameKey(rules[k], rule) => SameKey(rule, rules[k])
      BY DEF SameKey
    <2>7. \A k \in DOMAIN rules : SameKey(rules[k], rules[k])
      BY DEF SameKey
    <2> QED
      BY <1>1, <2>3, <2>5, <2>6, <2>7, Zenon
  <1>2. CASE ~ \E i \in DOMAIN rules : SameKey(rules[i], rule)
    <2>1. new = Append(rules, rule)
      BY <1>2, Zenon DEF Updated
    <2>2. /\ new \in Seq(RuleRows) /\ DOMAIN new = DOMAIN rules \cup {Len(rules) + 1}
          /\ \A k \in DOMAIN rules : new[k] = rules[k]
          /\ new[Len(rules) + 1] = rule
      BY <2>1, Appended
    <2>3. \A k \in DOMAIN rules : SameKey(rules[k], rules[k])
      BY DEF SameKey
    <2> QED
      BY <1>2, <2>2, <2>3, Zenon
  <1> QED
    BY <1>1, <1>2

(* The greatest of some indices of a sequence.                             *)
LEMMA GreatestIsMember ==
  ASSUME NEW n \in Nat, NEW s \in SUBSET (1..n), s # {}
  PROVE  Max(s) \in s
  <1> DEFINE U == {m \in Nat : \A k \in s : k <= m}
  <1>1. U # {} /\ U \subseteq Nat
    <2>1. n \in U
      OBVIOUS
    <2> QED
      BY <2>1
  <1> HIDE DEF U
  <1>2. PICK u \in U : \A m \in U : ~ (<<m, u>> \in OpToRel(<, Nat))
    BY <1>1, NatLessThanWellFounded, WFMin
  <1>3. \A m \in U : ~ (m < u)
    BY <1>1, <1>2 DEF OpToRel
  <1>4. u \in Nat /\ \A k \in s : k \in Nat \ {0} /\ k <= u
    BY <1>1 DEF U
  <1>5. u \in s
    <2> SUFFICES ASSUME u \notin s PROVE FALSE
      OBVIOUS
    <2>1. \A k \in s : k <= u - 1
      <3> SUFFICES ASSUME NEW k \in s PROVE k <= u - 1
        OBVIOUS
      <3>1. k \in Nat /\ k <= u /\ k # u /\ u \in Nat
        BY <1>4
      <3> QED
        BY <3>1
    <2>2. u # 0
      <3>1. PICK k \in s : k \in Nat \ {0} /\ k <= u
        BY <1>4
      <3> QED
        BY <1>4, <3>1
    <2>3. u - 1 \in U
      BY <1>4, <2>1, <2>2 DEF U
    <2> QED
      BY <1>3, <1>4, <2>2, <2>3
  <1>6. \A k \in s : u >= k
    BY <1>4
  <1> QED
    BY <1>5, <1>6 DEF Max

(* The table by which the library folds over the indices of a sequence.    *)
Fill(filled, ms, g) ==
  g = [s \in SUBSET (DOMAIN ms) |-> IF s = {} THEN filled
                                    ELSE Updated(g[s \ {Max(s)}], ms[Max(s)])]

LEMMA FillDef ==
  ASSUME NEW filled, NEW ms
  PROVE  FoldLeft(Updated, filled, ms) = (CHOOSE g : Fill(filled, ms, g))[DOMAIN ms]
  BY DEF FoldLeft, MapThenFoldSet, Fill

(* Induction over the natural numbers, and over the subsets of a finite    *)
(* set, the facts given as a set.                                          *)
LEMMA NatSetInduction ==
  ASSUME NEW T, 0 \in T, \A n \in Nat : n \in T => n + 1 \in T
  PROVE  Nat \subseteq T
  <1> SUFFICES ASSUME ~ (Nat \subseteq T) PROVE FALSE
    OBVIOUS
  <1> DEFINE U == Nat \ T
  <1>1. U # {} /\ U \subseteq Nat
    OBVIOUS
  <1> HIDE DEF U
  <1>2. PICK n \in U : \A m \in U : ~ (<<m, n>> \in OpToRel(<, Nat))
    BY <1>1, NatLessThanWellFounded, WFMin
  <1>3. \A m \in U : ~ (m < n)
    BY <1>1, <1>2 DEF OpToRel
  <1>4. n \in Nat /\ n # 0
    BY <1>1 DEF U
  <1>5. n - 1 \in T
    BY <1>3, <1>4 DEF U
  <1>6. n - 1 \in Nat /\ (n - 1) + 1 = n
    BY <1>4
  <1> QED
    BY <1>5, <1>6 DEF U

LEMMA SubsetInduction ==
  ASSUME NEW S, IsFiniteSet(S), NEW T, T \subseteq SUBSET S,
         \A s \in SUBSET S : (\A t \in SUBSET s : t # s => t \in T) => s \in T
  PROVE  T = SUBSET S
  <1> SUFFICES ASSUME T # SUBSET S PROVE FALSE
    OBVIOUS
  <1> DEFINE U == (SUBSET S) \ T
  <1>1. U # {} /\ U \subseteq FiniteSubsetsOf(S)
    BY FS_FiniteSubsetsOfFinite, Zenon
  <1>2. IsWellFoundedOn(StrictSubsetOrdering(S), FiniteSubsetsOf(S))
    BY FS_StrictSubsetOrderingWellFounded
  <1> HIDE DEF U
  <1>3. PICK s \in U : \A t \in U : ~ (<<t, s>> \in StrictSubsetOrdering(S))
    BY <1>1, <1>2, WFMin
  <1>4. \A t \in SUBSET s : t # s => t \in T
    BY <1>3 DEF U, StrictSubsetOrdering
  <1> QED
    BY <1>3, <1>4 DEF U

LEMMA FillExists ==
  ASSUME NEW filled, NEW n \in Nat, NEW ms, DOMAIN ms = 1..n
  PROVE  \E g : Fill(filled, ms, g)
  <1> DEFINE S == 1..n
             Level(l) == {t \in SUBSET S : Cardinality(t) <= l}
             Body(g, s) == IF s = {} THEN filled ELSE Updated(g[s \ {Max(s)}], ms[Max(s)])
             T == {l \in Nat : \E g : g = [s \in Level(l) |-> Body(g, s)]}
  <1>a. \A s \in SUBSET S : /\ IsFiniteSet(s) /\ Cardinality(s) \in Nat
                            /\ s # {} => Cardinality(s \ {Max(s)}) = Cardinality(s) - 1
                            /\ s = {} <=> Cardinality(s) = 0
    <2>1. IsFiniteSet(S)
      BY FS_Interval
    <2>2. \A s \in SUBSET S : s # {} => Max(s) \in s
      BY GreatestIsMember
    <2> HIDE DEF S
    <2> QED
      BY <2>1, <2>2, FS_Subset, FS_RemoveElement, FS_CardinalityType, FS_EmptySet
  <1>b. \A s \in SUBSET S : Cardinality(s) \in Nat /\ (s = {} <=> Cardinality(s) = 0)
    BY <1>a
  <1> HIDE DEF S
  <1>1. 0 \in T
    <2> DEFINE g == [s \in Level(0) |-> filled]
    <2>1. \A s \in Level(0) : s = {}
      <3> SUFFICES ASSUME NEW s \in SUBSET S, Cardinality(s) <= 0 PROVE s = {}
        OBVIOUS
      <3> QED
        BY <1>b
    <2>2. g = [s \in Level(0) |-> Body(g, s)]
      BY <2>1
    <2> QED
      BY <2>2
  <1>2. ASSUME NEW l \in Nat, l \in T PROVE l + 1 \in T
    <2>1. PICK g : g = [s \in Level(l) |-> Body(g, s)]
      BY <1>2
    <2> DEFINE h == [s \in Level(l + 1) |-> Body(g, s)]
    <2>2. \A s \in Level(l) : h[s] = g[s]
      <3> SUFFICES ASSUME NEW s \in Level(l) PROVE h[s] = g[s]
        OBVIOUS
      <3>1. s \in Level(l + 1)
        <4>1. s \in SUBSET S /\ Cardinality(s) <= l
          OBVIOUS
        <4> QED
          BY <1>b, <4>1
      <3>2. h[s] = Body(g, s)
        BY <3>1
      <3> HIDE DEF h, Body
      <3> QED
        BY <2>1, <3>2
    <2>3. ASSUME NEW s \in Level(l + 1) PROVE Body(g, s) = Body(h, s)
      <3>1. CASE s = {}
        BY <3>1
      <3>2. CASE s # {}
        <4>1. s \ {Max(s)} \in Level(l)
          <5>1. s \in SUBSET S /\ Cardinality(s) <= l + 1 /\ Cardinality(s \ {Max(s)}) = Cardinality(s) - 1
            BY <1>a, <3>2
          <5> QED
            BY <1>b, <5>1
        <4> HIDE DEF h, Level
        <4> QED
          BY <2>2, <4>1, <3>2
      <3> QED
        BY <3>1, <3>2
    <2>4. h = [s \in Level(l + 1) |-> Body(h, s)]
      <3>1. h = [s \in Level(l + 1) |-> Body(g, s)]
        OBVIOUS
      <3> HIDE DEF Body, Level, h
      <3> QED
        BY <2>3, <3>1
    <2>5. \E g1 : g1 = [s \in Level(l + 1) |-> Body(g1, s)]
      <3> HIDE DEF Body, Level, h
      <3> QED
        BY <2>4
    <2> HIDE DEF Body, Level, h
    <2> QED
      BY <2>5
  <1>3. Nat \subseteq T
    <2> HIDE DEF T
    <2> QED
      BY <1>1, <1>2, NatSetInduction
  <1>c. IsFiniteSet(S)
    BY <1>a
  <1>4. Cardinality(S) \in T
    BY <1>3, <1>a
  <1>5. Level(Cardinality(S)) = SUBSET S
    BY FS_Subset, <1>a, <1>c
  <1>6. PICK g : g = [s \in Level(Cardinality(S)) |-> Body(g, s)]
    BY <1>4
  <1>7. g = [s \in SUBSET S |-> Body(g, s)]
    BY <1>5, <1>6
  <1> QED
    BY <1>7 DEF Fill, S

(* What has become of the built-in rules once those of the database at     *)
(* some places have been merged with them.                                 *)
MergedTo(rules, builtin, db, s) ==
  /\ rules \in Seq(RuleRows)
  /\ \A k \in DOMAIN rules :
       \/ \E j \in s : rules[k] = db[j]
       \/ \E i \in DOMAIN builtin : rules[k] = builtin[i] /\ \A j \in s : ~ SameKey(builtin[i], db[j])
  /\ \A j \in s : \E k \in DOMAIN rules : SameKey(rules[k], db[j])
  /\ \A i \in DOMAIN builtin : \E k \in DOMAIN rules : SameKey(rules[k], builtin[i])

LEMMA MergedStep ==
  ASSUME NEW builtin, NEW db \in Seq(RuleRows), NEW s \in SUBSET (DOMAIN db), NEW m \in s,
         NEW rules, MergedTo(rules, builtin, db, s \ {m}), NEW new, new = Updated(rules, db[m])
  PROVE  MergedTo(new, builtin, db, s)
  <1>1. rules \in Seq(RuleRows) /\ db[m] \in RuleRows
    BY Indices DEF MergedTo
  <1>a. ASSUME NEW row \in RuleRows, new = Updated(rules, row)
        PROVE  /\ new \in Seq(RuleRows)
               /\ \A k \in DOMAIN new : \/ new[k] = row
                                        \/ /\ k \in DOMAIN rules /\ new[k] = rules[k]
                                           /\ ~ SameKey(rules[k], row)
               /\ \E k \in DOMAIN new : new[k] = row
               /\ \A k \in DOMAIN rules : k \in DOMAIN new /\ SameKey(new[k], rules[k])
    <2>1. rules \in Seq(RuleRows)
      BY <1>1
    <2> QED
      BY <1>a, <2>1, UpdatedIs
  <1>2. /\ new \in Seq(RuleRows)
        /\ \A k \in DOMAIN new : \/ new[k] = db[m]
                                 \/ /\ k \in DOMAIN rules /\ new[k] = rules[k]
                                    /\ ~ SameKey(rules[k], db[m])
        /\ \E k \in DOMAIN new : new[k] = db[m]
        /\ \A k \in DOMAIN rules : k \in DOMAIN new /\ SameKey(new[k], rules[k])
    BY <1>1, <1>a
  <1>3. ASSUME NEW k \in DOMAIN new
        PROVE  \/ \E j \in s : new[k] = db[j]
               \/ \E i \in DOMAIN builtin : new[k] = builtin[i] /\ \A j \in s : ~ SameKey(builtin[i], db[j])
    <2>1. CASE new[k] = db[m]
      BY <2>1
    <2>2. CASE k \in DOMAIN rules /\ new[k] = rules[k] /\ ~ SameKey(rules[k], db[m])
      <3>1. CASE \E j \in s \ {m} : rules[k] = db[j]
        BY <2>2, <3>1
      <3>2. CASE \E i \in DOMAIN builtin : rules[k] = builtin[i] /\ \A j \in s \ {m} : ~ SameKey(builtin[i], db[j])
        BY <2>2, <3>2, Zenon
      <3> QED
        BY <2>2, <3>1, <3>2, Zenon DEF MergedTo
    <2> QED
      BY <1>2, <2>1, <2>2
  <1>4. ASSUME NEW row, \E k \in DOMAIN rules : SameKey(rules[k], row)
        PROVE  \E k \in DOMAIN new : SameKey(new[k], row)
    <2>1. PICK k \in DOMAIN rules : SameKey(rules[k], row)
      BY <1>4
    <2>2. k \in DOMAIN new /\ SameKey(new[k], row)
      BY <1>2, <2>1 DEF SameKey
    <2> QED
      BY <2>2
  <1>5. \A j \in s : \E k \in DOMAIN new : SameKey(new[k], db[j])
    <2> SUFFICES ASSUME NEW j \in s PROVE \E k \in DOMAIN new : SameKey(new[k], db[j])
      OBVIOUS
    <2>1. CASE j = m
      BY <1>2, <2>1 DEF SameKey
    <2>2. CASE j # m
      BY <1>4, <2>2, Zenon DEF MergedTo
    <2> QED
      BY <2>1, <2>2
  <1>6. \A i \in DOMAIN builtin : \E k \in DOMAIN new : SameKey(new[k], builtin[i])
    BY <1>4, Zenon DEF MergedTo
  <1> QED
    BY <1>2, <1>3, <1>5, <1>6, Zenon DEF MergedTo

LEMMA MergedIs ==
  ASSUME NEW builtin \in Seq(RuleRows), NEW db \in Seq(RuleRows)
  PROVE  MergedTo(Merged(builtin, db), builtin, db, DOMAIN db)
  <1>1. PICK n \in Nat : DOMAIN db = 1..n
    BY Indices
  <1> DEFINE g == CHOOSE h : Fill(builtin, db, h)
             S == 1..n
             T == {s \in SUBSET S : MergedTo(g[s], builtin, db, s)}
  <1>2. Fill(builtin, db, g)
    BY <1>1, FillExists
  <1>3. Merged(builtin, db) = g[S]
    BY <1>1, FillDef DEF Merged
  <1> HIDE DEF g
  <1>4. \A s \in SUBSET S : g[s] = IF s = {} THEN builtin ELSE Updated(g[s \ {Max(s)}], db[Max(s)])
    BY <1>1, <1>2 DEF Fill
  <1>5. ASSUME NEW s \in SUBSET S, \A t \in SUBSET s : t # s => t \in T
        PROVE  s \in T
    <2>1. CASE s = {}
      <3>1. g[s] = builtin
        BY <1>4, <2>1
      <3>2. \A k \in DOMAIN builtin : SameKey(builtin[k], builtin[k])
        BY DEF SameKey
      <3>3. MergedTo(builtin, builtin, db, s)
        BY <2>1, <3>2, Zenon DEF MergedTo
      <3> QED
        BY <3>1, <3>3
    <2>2. CASE s # {}
      <3>1. Max(s) \in s
        BY <2>2, GreatestIsMember
      <3>2. s \ {Max(s)} \in T
        BY <1>5, <3>1
      <3>3. g[s] = Updated(g[s \ {Max(s)}], db[Max(s)])
        BY <1>4, <2>2
      <3>4. MergedTo(g[s \ {Max(s)}], builtin, db, s \ {Max(s)})
        BY <3>2
      <3> HIDE DEF T
      <3>5. MergedTo(g[s], builtin, db, s)
        BY <1>1, <3>1, <3>3, <3>4, MergedStep
      <3> QED
        BY <3>5 DEF T
    <2> QED
      BY <2>1, <2>2
  <1>6. T = SUBSET S
    <2>1. IsFiniteSet(S) /\ T \subseteq SUBSET S
      BY FS_Interval
    <2> HIDE DEF S, T
    <2> QED
      BY <1>5, <2>1, SubsetInduction
  <1>7. S \in T
    BY <1>6
  <1> QED
    BY <1>1, <1>3, <1>7

(* The day an item is given: the most exact rule of its name and place.    *)
DaysIn(rules, name, place) ==
  {rules[k].days : k \in {j \in DOMAIN rules : rules[j].name = name /\ rules[j].place = place}}
DaysOf(rules, name) == {rules[k].days : k \in {j \in DOMAIN rules : rules[j].name = name}}

LEMMA FirstOfRules ==
  ASSUME NEW rules \in Seq(RuleRows), NEW name, NEW place
  PROVE  /\ DaysIn(rules, name, place) # {} =>
              get_shelf_life_days(rules, name, place) \in DaysIn(rules, name, place)
         /\ DaysIn(rules, name, place) = {} /\ DaysOf(rules, name) # {} =>
              get_shelf_life_days(rules, name, place) \in DaysOf(rules, name)
         /\ DaysOf(rules, name) = {} => get_shelf_life_days(rules, name, place) = DEFAULT_SHELF_LIFE
  <1> DEFINE OfName == {i \in DOMAIN rules : rules[i].name = name}
             Exact == {i \in OfName : rules[i].place = place}
             First(S) == CHOOSE i \in S : \A j \in S : i <= j
             days == get_shelf_life_days(rules, name, place)
  <1>1. DOMAIN rules = 1..Len(rules) /\ Len(rules) \in Nat
    BY Indices
  <1>2. OfName \in SUBSET Nat /\ Exact \in SUBSET Nat /\ Exact \subseteq OfName
    BY <1>1
  <1>3. days = IF Exact # {} THEN rules[First(Exact)].days
               ELSE IF OfName # {} THEN rules[First(OfName)].days ELSE DEFAULT_SHELF_LIFE
    BY Zenon DEF get_shelf_life_days
  <1>4. DaysIn(rules, name, place) = {rules[i].days : i \in Exact}
    BY DEF DaysIn
  <1>5. DaysOf(rules, name) = {rules[i].days : i \in OfName}
    BY DEF DaysOf
  <1> HIDE DEF OfName, Exact, days
  <1>6. Exact # {} => First(Exact) \in Exact
    BY <1>2, FirstExists
  <1>7. OfName # {} => First(OfName) \in OfName
    BY <1>2, FirstExists
  <1> HIDE DEF First
  <1>8. days \in {rules[i].days : i \in Exact} \/ Exact = {}
    BY <1>3, <1>6
  <1>9. days \in {rules[i].days : i \in OfName} \/ Exact # {} \/ OfName = {}
    BY <1>3, <1>7
  <1>10. OfName = {} => days = DEFAULT_SHELF_LIFE
    BY <1>2, <1>3
  <1>11. (DaysIn(rules, name, place) = {}) <=> (Exact = {})
    <2> DEFINE Day(i) == rules[i].days
    <2>1. DaysIn(rules, name, place) = {Day(i) : i \in Exact}
      BY <1>4
    <2> HIDE DEF Day
    <2> QED
      BY <2>1
  <1>12. (DaysOf(rules, name) = {}) <=> (OfName = {})
    <2> DEFINE Day(i) == rules[i].days
    <2>1. DaysOf(rules, name) = {Day(i) : i \in OfName}
      BY <1>5
    <2> HIDE DEF Day
    <2> QED
      BY <2>1
  <1> QED
    BY <1>4, <1>5, <1>8, <1>9, <1>10, <1>11, <1>12 DEF days

LEMMA DatedRight ==
  ASSUME NEW name, NEW place
  PROVE  /\ calculate_expiry(Rules, name, place) \in Int
         /\ calculate_expiry(Rules, name, place) \in
              (IF DaysIn(DbRules, name, place) # {} THEN DaysIn(DbRules, name, place)
               ELSE IF DaysIn(Builtin, name, place) # {} THEN DaysIn(Builtin, name, place)
               ELSE IF DaysOf(Rules, name) # {} THEN DaysOf(Rules, name) ELSE {DEFAULT_SHELF_LIFE})
  <1> DEFINE days == calculate_expiry(Rules, name, place)
  <1> SUFFICES /\ days \in Int
               /\ days \in (IF DaysIn(DbRules, name, place) # {} THEN DaysIn(DbRules, name, place)
                            ELSE IF DaysIn(Builtin, name, place) # {} THEN DaysIn(Builtin, name, place)
                            ELSE IF DaysOf(Rules, name) # {} THEN DaysOf(Rules, name)
                            ELSE {DEFAULT_SHELF_LIFE})
    BY Zenon
  <1>a. days = get_shelf_life_days(Rules, name, place)
    BY Zenon DEF calculate_expiry
  <1> HIDE DEF days
  <1>1. MergedTo(Rules, Builtin, DbRules, DOMAIN DbRules)
    BY CatalogAssumption, MergedIs DEF Rules
  <1>2. /\ Rules \in Seq(RuleRows)
        /\ \A k \in DOMAIN Rules :
             \/ \E j \in DOMAIN DbRules : Rules[k] = DbRules[j]
             \/ \E i \in DOMAIN Builtin : Rules[k] = Builtin[i]
                                          /\ \A j \in DOMAIN DbRules : ~ SameKey(Builtin[i], DbRules[j])
        /\ \A j \in DOMAIN DbRules : \E k \in DOMAIN Rules : SameKey(Rules[k], DbRules[j])
        /\ \A i \in DOMAIN Builtin : \E k \in DOMAIN Rules : SameKey(Rules[k], Builtin[i])
    BY <1>1, Zenon DEF MergedTo
  <1> HIDE DEF Rules
  <1>3. /\ DaysIn(Rules, name, place) # {} => days \in DaysIn(Rules, name, place)
        /\ DaysIn(Rules, name, place) = {} /\ DaysOf(Rules, name) # {} => days \in DaysOf(Rules, name)
        /\ DaysOf(Rules, name) = {} => days = DEFAULT_SHELF_LIFE
    <2>1. Rules \in Seq(RuleRows)
      BY <1>2
    <2>2. /\ DaysIn(Rules, name, place) # {} =>
               get_shelf_life_days(Rules, name, place) \in DaysIn(Rules, name, place)
          /\ DaysIn(Rules, name, place) = {} /\ DaysOf(Rules, name) # {} =>
               get_shelf_life_days(Rules, name, place) \in DaysOf(Rules, name)
          /\ DaysOf(Rules, name) = {} => get_shelf_life_days(Rules, name, place) = DEFAULT_SHELF_LIFE
      BY <2>1, FirstOfRules
    <2> QED
      BY <1>a, <2>2
  <1>4. \A k \in DOMAIN Rules : Rules[k].days \in Int
    <2>1. Rules \in Seq(RuleRows)
      BY <1>2
    <2>2. \A k \in DOMAIN Rules : Rules[k] \in RuleRows
      BY <2>1, Indices
    <2>3. \A row \in RuleRows : row.days \in Int
      BY DEF RuleRows
    <2> QED
      BY <2>2, <2>3
  <1>5. DaysIn(Rules, name, place) \subseteq Int /\ DaysOf(Rules, name) \subseteq Int
    BY <1>4 DEF DaysIn, DaysOf
  <1>6. days \in Int
    BY <1>3, <1>5 DEF DEFAULT_SHELF_LIFE
  <1>7. CASE DaysIn(DbRules, name, place) # {}
    <2>1. PICK d \in DOMAIN DbRules : DbRules[d].name = name /\ DbRules[d].place = place
      BY <1>7 DEF DaysIn
    <2>2. PICK e \in DOMAIN Rules : SameKey(Rules[e], DbRules[d])
      BY <1>2
    <2>3. DaysIn(Rules, name, place) # {}
      BY <2>1, <2>2 DEF DaysIn, SameKey
    <2>4. PICK k \in DOMAIN Rules : Rules[k].name = name /\ Rules[k].place = place /\ days = Rules[k].days
      BY <1>3, <2>3 DEF DaysIn
    <2>5. SameKey(Rules[k], DbRules[d])
      BY <2>1, <2>4 DEF SameKey
    <2>6. PICK j \in DOMAIN DbRules : Rules[k] = DbRules[j]
      BY <1>2, <2>5
    <2>7. days \in DaysIn(DbRules, name, place)
      BY <2>4, <2>6 DEF DaysIn
    <2> QED
      BY <1>6, <1>7, <2>7, Zenon
  <1>8. CASE DaysIn(DbRules, name, place) = {} /\ DaysIn(Builtin, name, place) # {}
    <2>1. PICK d \in DOMAIN Builtin : Builtin[d].name = name /\ Builtin[d].place = place
      BY <1>8 DEF DaysIn
    <2>2. PICK e \in DOMAIN Rules : SameKey(Rules[e], Builtin[d])
      BY <1>2
    <2>3. DaysIn(Rules, name, place) # {}
      BY <2>1, <2>2 DEF DaysIn, SameKey
    <2>4. PICK k \in DOMAIN Rules : Rules[k].name = name /\ Rules[k].place = place /\ days = Rules[k].days
      BY <1>3, <2>3 DEF DaysIn
    <2>5. ~ \E j \in DOMAIN DbRules : Rules[k] = DbRules[j]
      BY <1>8, <2>4 DEF DaysIn
    <2>6. PICK i \in DOMAIN Builtin : Rules[k] = Builtin[i]
      BY <1>2, <2>5
    <2>7. days \in DaysIn(Builtin, name, place)
      BY <2>4, <2>6 DEF DaysIn
    <2> QED
      BY <1>6, <1>8, <2>7, Zenon
  <1>9. CASE DaysIn(DbRules, name, place) = {} /\ DaysIn(Builtin, name, place) = {}
    <2>1. DaysIn(Rules, name, place) = {}
      <3> SUFFICES ASSUME NEW k \in DOMAIN Rules, Rules[k].name = name, Rules[k].place = place
                   PROVE  FALSE
        BY DEF DaysIn
      <3>1. CASE \E j \in DOMAIN DbRules : Rules[k] = DbRules[j]
        BY <1>9, <3>1 DEF DaysIn
      <3>2. CASE \E i \in DOMAIN Builtin : Rules[k] = Builtin[i]
        BY <1>9, <3>2 DEF DaysIn
      <3> QED
        BY <1>2, <3>1, <3>2
    <2> QED
      BY <1>3, <1>6, <1>9, <2>1, SetExtensionality, Zenon
  <1> QED
    BY <1>6, <1>7, <1>8, <1>9

----------------------------------------------------------------------------
(* The invariant behind the theorems, of one request at a time.            *)
Started(r) == tx[r].at # "idle"
Is(r, op) == Started(r) /\ tx[r].call.op = op

(* Requests with one key are one call, which is why a replay tells of what *)
(* the first of them did.                                                  *)
KeyOf(r) ==
  IF Started(r)
  THEN /\ tx[r].call \in Calls /\ (tx[r].code # Null <=> tx[r].at = "done")
       /\ Started(tx[r].call.key) /\ tx[tx[r].call.key].call = tx[r].call
  ELSE tx[r] = Idle

EntriesInv ==
  \A key \in DOMAIN entries :
    tx[entries[key]].code = "200" /\ key = _scoped_key(tx[entries[key]].call)

(* A scan has the ingredient of the name it tells, and leaves it behind.   *)
ScanOf(r) ==
  LET t == tx[r]
      found == products[t.call.barcode] # Null
  IN  Is(r, "barcode") =>
        IF t.told = {}
        THEN t.name = Null /\ ~ t.wrote /\ ~ t.fresh /\ t.at \in {"lookup", "commit", "store", "done"}
        ELSE /\ \E name \in t.told : t.told = {name} /\ t.name = normalize_ingredient_name(name)
             /\ t.at \in {"select", "insert", "row", "upsert", "commit", "store", "done"}
             /\ t.at \in {"row", "upsert", "commit"} => t.fresh \/ t.name \in canonicals
             /\ t.at = "upsert" /\ t.loaded # Null => found
             /\ t.at = "commit" => t.wrote \/ found
             /\ t.at = "store" \/ Acked(r) => found /\ t.name \in canonicals

(* An item is of a name that an answer told.                               *)
NamedAfter(name, call) ==
  /\ Acked(call.from)
  /\ \E told \in tx[call.from].told : name = normalize_ingredient_name(told)

ItemOf(r) ==
  LET t == tx[r]
  IN  Is(r, "item") /\ (Running(r) \/ Acked(r)) =>
        /\ NamedAfter(t.name, t.call) /\ t.at \in {"select", "insert", "add", "store", "done"}
        /\ t.at = "add" => t.fresh \/ t.name \in canonicals
        /\ t.at = "store" => \E i \in items : i.id = r
        /\ Acked(r) => \E i \in items : i.name = t.name /\ tx[i.id].call = t.call

RightItem(i) ==
  LET t == tx[i.id]
  IN  /\ Is(i.id, "item") /\ t.at \in {"store", "done"}
      /\ i.name = t.name /\ i.place = t.call.place
      /\ NamedAfter(i.name, t.call) /\ i.days = calculate_expiry(Rules, i.name, i.place)

PhotoOf(r) ==
  /\ Is(r, "photo") => tx[r].at \in {"parse", "store", "done"}
  /\ Is(r, "upload") =>
       /\ tx[r].at \in {"upload", "url", "store", "done"}
       /\ tx[r].at \in {"url", "store"} => r \in files
       /\ Acked(r) => \E s \in files : tx[s].call = tx[r].call

(* What a calm request has read is still so.                               *)
CalmOf(r) ==
  tx[r].calm =>
    /\ Running(r) => up /\ \A s \in Reqs \ {r} : ~ Running(s)
    /\ tx[r].at = "insert" => tx[r].name \notin canonicals
    /\ tx[r].at = "upsert" => tx[r].loaded = products[tx[r].call.barcode]
    /\ tx[r].at = "done" => Acked(r) \/ (tx[r].code = "403" /\ tx[r].call.user \notin Allowed)

CatalogInv ==
  /\ \A r \in Reqs : KeyOf(r) /\ ScanOf(r) /\ ItemOf(r) /\ PhotoOf(r) /\ CalmOf(r)
  /\ EntriesInv /\ (\A i \in items : RightItem(i)) /\ (\A s \in files : Started(s))

(* The invariant, and what every step leaves as it was: what a request has *)
(* done stays done, tables only grow, and beside the request that moves    *)
(* the others at most lose their calm.                                     *)
Fine == CatalogTypeOK /\ CatalogInv

Onward ==
  /\ canonicals \subseteq canonicals' /\ items \subseteq items' /\ files \subseteq files'
  /\ \A b \in Barcodes : products[b] # Null => products'[b] # Null
  /\ \A s \in Reqs : /\ Started(s) => tx'[s].at # "idle" /\ tx'[s].call = tx[s].call
                     /\ Is(s, "item") => tx'[s].name = tx[s].name
                     /\ tx[s].at \in {"store", "done"} => tx'[s].at \in {"store", "done"}
                     /\ tx[s].at = "done" => tx'[s] = tx[s]

Beside(s) == tx'[s] = tx[s] \/ (Running(s) /\ tx'[s] = [tx[s] EXCEPT !.calm = FALSE])

LEMMA NullIsNoCode == \A code \in Codes : code # Null
  BY CatalogAssumption

LEMMA TxFields ==
  ASSUME CatalogTypeOK, NEW r \in Reqs
  PROVE  /\ tx[r] \in Tx
         /\ tx[r].at \in Stages
         /\ tx[r].call \in Calls \cup {Null} /\ tx[r].told \in SUBSET Name
         /\ tx[r].name \in Name \cup {Null} /\ tx[r].loaded \in Name \cup {Null}
         /\ tx[r].fresh \in BOOLEAN /\ tx[r].wrote \in BOOLEAN
         /\ tx[r].code \in Codes \cup {Null} /\ tx[r].calm \in BOOLEAN
  <1>1. tx[r] \in Tx
    BY DEF CatalogTypeOK
  <1> QED
    BY <1>1 DEF Tx

LEMMA CallFields ==
  ASSUME NEW c \in Calls
  PROVE  /\ c.user \in Users /\ c.key \in Reqs
         /\ c.op \in {"barcode", "photo", "upload", "item"}
         /\ c.op = "barcode" => c.barcode \in Barcodes
         /\ c.op = "item" => c.from \in Reqs /\ c.place \in Places
  BY DEF Calls

LEMMA StartedCall ==
  ASSUME Fine, NEW r \in Reqs, Started(r)
  PROVE  tx[r].call \in Calls
  BY DEF Fine, CatalogInv, KeyOf

LEMMA AckedIsDone ==
  ASSUME Fine, NEW r \in Reqs, Acked(r)
  PROVE  tx[r].at = "done" /\ Started(r)
  <1>1. tx[r].code # Null
    BY NullIsNoCode DEF Acked, Codes
  <1>2. Started(r)
    BY <1>1 DEF Fine, CatalogInv, KeyOf, Idle
  <1> QED
    BY <1>1, <1>2 DEF Fine, CatalogInv, KeyOf

LEMMA AckedStays ==
  ASSUME Fine, Onward, NEW r \in Reqs, Acked(r)
  PROVE  tx'[r] = tx[r] /\ Acked(r)'
  <1>1. tx'[r] = tx[r]
    BY AckedIsDone DEF Onward
  <1> QED
    BY <1>1 DEF Acked

LEMMA NamedStays ==
  ASSUME Fine, Onward, NEW name, NEW call, call.from \in Reqs, NamedAfter(name, call)
  PROVE  NamedAfter(name, call)'
  <1>1. Acked(call.from)' /\ tx'[call.from] = tx[call.from]
    BY AckedStays DEF NamedAfter
  <1> QED
    BY <1>1 DEF NamedAfter

LEMMA OthersStay ==
  ASSUME Fine, Onward, NEW s \in Reqs, Beside(s)
  PROVE  KeyOf(s)' /\ ScanOf(s)' /\ ItemOf(s)' /\ PhotoOf(s)'
  <1>1. /\ tx'[s].at = tx[s].at /\ tx'[s].call = tx[s].call /\ tx'[s].told = tx[s].told
        /\ tx'[s].name = tx[s].name /\ tx'[s].loaded = tx[s].loaded /\ tx'[s].fresh = tx[s].fresh
        /\ tx'[s].wrote = tx[s].wrote /\ tx'[s].code = tx[s].code
    <2>1. CASE tx'[s] = tx[s]
      BY <2>1
    <2>2. CASE Running(s) /\ tx'[s] = [tx[s] EXCEPT !.calm = FALSE]
      BY <2>2
    <2> QED
      BY <2>1, <2>2 DEF Beside
  <1>2. /\ Started(s)' <=> Started(s)
        /\ Running(s)' <=> Running(s)
        /\ Acked(s)' <=> Acked(s)
        /\ \A op : Is(s, op)' <=> Is(s, op)
    BY <1>1 DEF Started, Running, Acked, Is
  <1>3. KeyOf(s) /\ ScanOf(s) /\ ItemOf(s) /\ PhotoOf(s)
    BY DEF Fine, CatalogInv
  <1>4. KeyOf(s)'
    <2>1. CASE Started(s)
      <3>1. /\ tx[s].call \in Calls /\ (tx[s].code # Null <=> tx[s].at = "done")
            /\ Started(tx[s].call.key) /\ tx[tx[s].call.key].call = tx[s].call
        BY <1>3, <2>1 DEF KeyOf
      <3>2. tx[s].call.key \in Reqs
        BY <3>1, CallFields
      <3>3. tx'[tx[s].call.key].at # "idle" /\ tx'[tx[s].call.key].call = tx[s].call
        BY <3>1, <3>2 DEF Onward
      <3> QED
        BY <1>1, <1>2, <2>1, <3>1, <3>3 DEF KeyOf, Started
    <2>2. CASE ~ Started(s)
      <3>1. tx'[s] = tx[s]
        BY <2>2 DEF Beside, Started, Running
      <3> QED
        BY <1>2, <1>3, <2>2, <3>1 DEF KeyOf, Idle
    <2> QED
      BY <2>1, <2>2
  <1>5. ScanOf(s)'
    <2> SUFFICES ASSUME Is(s, "barcode") PROVE ScanOf(s)'
      BY <1>2 DEF ScanOf
    <2>1. tx[s].call.barcode \in Barcodes
      BY StartedCall, CallFields DEF Is
    <2>2. /\ products[tx[s].call.barcode] # Null => products'[tx[s].call.barcode] # Null
          /\ tx[s].name \in canonicals => tx[s].name \in canonicals'
      BY <2>1 DEF Onward
    <2> QED
      BY <1>1, <1>2, <1>3, <2>2 DEF ScanOf
  <1>6. ItemOf(s)'
    <2> SUFFICES ASSUME Is(s, "item"), Running(s) \/ Acked(s) PROVE ItemOf(s)'
      BY <1>2 DEF ItemOf
    <2>1. tx[s].call \in Calls /\ tx[s].call.from \in Reqs
      BY StartedCall, CallFields DEF Is
    <2>2. /\ NamedAfter(tx[s].name, tx[s].call)
          /\ tx[s].at \in {"select", "insert", "add", "store", "done"}
          /\ tx[s].at = "add" => tx[s].fresh \/ tx[s].name \in canonicals
          /\ tx[s].at = "store" => \E i \in items : i.id = s
          /\ Acked(s) => \E i \in items : i.name = tx[s].name /\ tx[i.id].call = tx[s].call
      BY <1>3 DEF ItemOf
    <2>3. PICK name, call : name = tx[s].name /\ call = tx[s].call
      OBVIOUS
    <2>4. NamedAfter(name, call)'
      BY <2>1, <2>2, <2>3, NamedStays
    <2>5. NamedAfter(tx[s].name, tx[s].call)'
      BY <1>1, <2>3, <2>4 DEF NamedAfter, Acked
    <2>6. items \subseteq items' /\ canonicals \subseteq canonicals'
      BY DEF Onward
    <2>7. Acked(s) => \E i \in items' : i.name = tx'[s].name /\ tx'[i.id].call = tx'[s].call
      <3> SUFFICES ASSUME Acked(s)
                   PROVE  \E i \in items' : i.name = tx'[s].name /\ tx'[i.id].call = tx'[s].call
        OBVIOUS
      <3>1. PICK i \in items : i.name = tx[s].name /\ tx[i.id].call = tx[s].call
        BY <2>2
      <3>2. i.id \in Reqs /\ Started(i.id)
        BY <3>1 DEF Fine, CatalogInv, RightItem, CatalogTypeOK, Is
      <3>3. tx'[i.id].call = tx[i.id].call
        BY <3>2 DEF Onward
      <3> QED
        BY <1>1, <2>6, <3>1, <3>3
    <2> QED
      BY <1>1, <1>2, <2>2, <2>5, <2>6, <2>7 DEF ItemOf
  <1>7. PhotoOf(s)'
    <2>1. Is(s, "upload") /\ Acked(s) => \E f \in files' : tx'[f].call = tx'[s].call
      <3> SUFFICES ASSUME Is(s, "upload"), Acked(s) PROVE \E f \in files' : tx'[f].call = tx'[s].call
        OBVIOUS
      <3>1. PICK f \in files : tx[f].call = tx[s].call
        BY <1>3 DEF PhotoOf
      <3>2. f \in Reqs /\ Started(f)
        BY <3>1 DEF Fine, CatalogInv, CatalogTypeOK
      <3> QED
        BY <1>1, <3>1, <3>2 DEF Onward
    <2>2. files \subseteq files'
      BY DEF Onward
    <2> QED
      BY <1>1, <1>2, <1>3, <2>1, <2>2 DEF PhotoOf
  <1> QED
    BY <1>4, <1>5, <1>6, <1>7

LEMMA ItemStays ==
  ASSUME Fine, Onward, NEW i \in items
  PROVE  RightItem(i)'
  <1>1. /\ Is(i.id, "item") /\ tx[i.id].at \in {"store", "done"}
        /\ i.name = tx[i.id].name /\ i.place = tx[i.id].call.place
        /\ NamedAfter(i.name, tx[i.id].call) /\ i.days = calculate_expiry(Rules, i.name, i.place)
    BY DEF Fine, CatalogInv, RightItem
  <1>2. i.id \in Reqs
    BY DEF Fine, CatalogTypeOK
  <1>3. Started(i.id) /\ tx[i.id].call.from \in Reqs
    BY <1>1, <1>2, StartedCall, CallFields DEF Is
  <1>4. PICK name, call : name = i.name /\ call = tx[i.id].call
    OBVIOUS
  <1>5. NamedAfter(name, call)'
    BY <1>1, <1>3, <1>4, NamedStays
  <1>6. /\ tx'[i.id].at \in {"store", "done"} /\ tx'[i.id].call = call
        /\ tx'[i.id].name = tx[i.id].name
    BY <1>1, <1>2, <1>3, <1>4 DEF Onward
  <1>7. NamedAfter(i.name, tx[i.id].call)'
    BY <1>4, <1>5, <1>6 DEF NamedAfter
  <1>8. Is(i.id, "item")'
    BY <1>1, <1>4, <1>6 DEF Is, Started
  <1>9. i.days = calculate_expiry(Rules, i.name, i.place)
    BY <1>1
  <1> QED
    BY <1>1, <1>4, <1>6, <1>7, <1>8, <1>9 DEF RightItem

LEMMA EntryStays ==
  ASSUME Fine, Onward, NEW key \in DOMAIN entries
  PROVE  tx'[entries[key]].code = "200" /\ key = _scoped_key(tx'[entries[key]].call)
  <1>1. /\ tx[entries[key]].code = "200" /\ key = _scoped_key(tx[entries[key]].call)
        /\ entries[key] \in Reqs
    BY DEF Fine, CatalogInv, EntriesInv, CatalogTypeOK
  <1>2. tx'[entries[key]] = tx[entries[key]]
    BY <1>1, AckedIsDone DEF Acked, Onward
  <1> QED
    BY <1>1, <1>2

(* The calm of the others at a step of a running request: there are no     *)
(* others running that are calm.                                           *)
LEMMA CalmStays ==
  ASSUME Fine, NEW r \in Reqs, Running(r), NEW s \in Reqs \ {r}, tx'[s] = tx[s]
  PROVE  CalmOf(s)'
  <1> SUFFICES ASSUME tx[s].calm PROVE CalmOf(s)'
    BY DEF CalmOf
  <1>1. CalmOf(s)
    BY DEF Fine, CatalogInv
  <1>2. ~ Running(s)
    BY <1>1 DEF CalmOf
  <1> QED
    BY <1>1, <1>2 DEF CalmOf, Running, Acked

(* A step of one running request: what it must do to keep the invariant.   *)
LEMMA StepKeeps ==
  ASSUME Fine, NEW r \in Reqs, Running(r), NEW u \in Tx, tx' = [tx EXCEPT ![r] = u],
         u.call = tx[r].call, u.at # "idle", (u.code # Null) <=> (u.at = "done"),
         Is(r, "item") => u.name = tx[r].name, tx[r].at = "store" => u.at = "done",
         u.fresh => u.at \in {"row", "upsert", "commit", "add"}, u.wrote => u.at = "commit",
         canonicals \subseteq canonicals', items \subseteq items', files \subseteq files',
         \A b \in Barcodes : products[b] # Null => products'[b] # Null
  PROVE  /\ Onward /\ tx'[r] = u /\ Started(r)' /\ KeyOf(r)' /\ tx' \in [Reqs -> Tx]
         /\ \A s \in Reqs : /\ tx'[s].fresh => tx'[s].at \in {"row", "upsert", "commit", "add"}
                            /\ tx'[s].wrote => tx'[s].at = "commit"
         /\ \A s \in Reqs \ {r} : KeyOf(s)' /\ ScanOf(s)' /\ ItemOf(s)' /\ PhotoOf(s)' /\ CalmOf(s)'
  <1>1. /\ tx \in [Reqs -> Tx]
        /\ \A s \in Reqs : /\ tx[s].fresh => tx[s].at \in {"row", "upsert", "commit", "add"}
                           /\ tx[s].wrote => tx[s].at = "commit"
    BY DEF Fine, CatalogTypeOK
  <1>2. /\ tx'[r] = u /\ tx' \in [Reqs -> Tx]
        /\ \A s \in Reqs \ {r} : tx'[s] = tx[s]
    BY <1>1
  <1>3. tx[r].at \notin {"idle", "done"}
    BY DEF Running
  <1>4. Onward
    <2>1. ASSUME NEW s \in Reqs
          PROVE  /\ Started(s) => tx'[s].at # "idle" /\ tx'[s].call = tx[s].call
                 /\ Is(s, "item") => tx'[s].name = tx[s].name
                 /\ tx[s].at \in {"store", "done"} => tx'[s].at \in {"store", "done"}
                 /\ tx[s].at = "done" => tx'[s] = tx[s]
      <3>1. CASE s = r
        BY <1>2, <1>3, <3>1
      <3>2. CASE s # r
        <4>1. tx'[s] = tx[s]
          BY <1>2, <3>2
        <4> QED
          BY <4>1 DEF Started
      <3> QED
        BY <3>1, <3>2
    <2> QED
      BY <2>1 DEF Onward
  <1>5. Started(r)' /\ KeyOf(r)'
    <2>1. /\ tx[r].call \in Calls /\ Started(tx[r].call.key) /\ tx[tx[r].call.key].call = tx[r].call
      BY <1>3 DEF Fine, CatalogInv, KeyOf, Started
    <2>2. tx[r].call.key \in Reqs
      BY <2>1, CallFields
    <2>3. tx'[tx[r].call.key].at # "idle" /\ tx'[tx[r].call.key].call = tx[r].call
      BY <1>4, <2>1, <2>2 DEF Onward
    <2> QED
      BY <1>2, <2>1, <2>3 DEF KeyOf, Started
  <1>6. ASSUME NEW s \in Reqs \ {r}
        PROVE  KeyOf(s)' /\ ScanOf(s)' /\ ItemOf(s)' /\ PhotoOf(s)' /\ CalmOf(s)'
    BY <1>2, <1>4, OthersStay, CalmStays DEF Beside
  <1>7. ASSUME NEW s \in Reqs
        PROVE  /\ tx'[s].fresh => tx'[s].at \in {"row", "upsert", "commit", "add"}
               /\ tx'[s].wrote => tx'[s].at = "commit"
    <2>1. CASE s = r
      BY <1>2, <2>1
    <2>2. CASE s # r
      BY <1>1, <1>2, <2>2
    <2> QED
      BY <2>1, <2>2
  <1> QED
    BY <1>2, <1>4, <1>5, <1>6, <1>7

(* The same for a step that writes no table.                               *)
Quiet == UNCHANGED <<canonicals, products, items, files, entries, up>>

LEMMA QuietStep ==
  ASSUME Fine, Quiet, NEW r \in Reqs, Running(r), NEW u \in Tx, tx' = [tx EXCEPT ![r] = u],
         u.call = tx[r].call, u.at # "idle", (u.code # Null) <=> (u.at = "done"),
         Is(r, "item") => u.name = tx[r].name, tx[r].at = "store" => u.at = "done",
         u.fresh => u.at \in {"row", "upsert", "commit", "add"}, u.wrote => u.at = "commit",
         ScanOf(r)', ItemOf(r)', PhotoOf(r)', CalmOf(r)'
  PROVE  Fine'
  <1>1. /\ canonicals' = canonicals /\ products' = products /\ items' = items /\ files' = files
        /\ entries' = entries /\ up' = up
    BY DEF Quiet
  <1>2. /\ Onward /\ KeyOf(r)' /\ tx' \in [Reqs -> Tx]
        /\ \A s \in Reqs : /\ tx'[s].fresh => tx'[s].at \in {"row", "upsert", "commit", "add"}
                           /\ tx'[s].wrote => tx'[s].at = "commit"
        /\ \A s \in Reqs \ {r} : KeyOf(s)' /\ ScanOf(s)' /\ ItemOf(s)' /\ PhotoOf(s)' /\ CalmOf(s)'
    BY <1>1, StepKeeps
  <1>3. CatalogTypeOK'
    BY <1>1, <1>2 DEF Fine, CatalogTypeOK
  <1>4. EntriesInv'
    BY <1>1, <1>2, EntryStays DEF EntriesInv
  <1>5. \A i \in items' : RightItem(i)'
    BY <1>1, <1>2, ItemStays
  <1>6. \A s \in files' : Started(s)'
    BY <1>1, <1>2 DEF Fine, CatalogInv, CatalogTypeOK, Started, Onward
  <1>7. \A s \in Reqs : (KeyOf(s) /\ ScanOf(s) /\ ItemOf(s) /\ PhotoOf(s) /\ CalmOf(s))'
    BY <1>2
  <1> QED
    BY <1>3, <1>4, <1>5, <1>6, <1>7 DEF Fine, CatalogInv

----------------------------------------------------------------------------
(* Requests that end without an answer.                                    *)
LEMMA EndedFields ==
  ASSUME NEW t \in Tx, NEW code \in Codes, NEW u,
         \/ u = Ended(t, code)
         \/ u = [Ended(t, code) EXCEPT !.calm = FALSE]
  PROVE  /\ u \in Tx /\ u.at = "done" /\ u.code = code /\ ~ u.fresh /\ ~ u.wrote
         /\ u.call = t.call /\ u.told = t.told /\ u.name = t.name /\ u.loaded = t.loaded
         /\ u.calm => t.calm
         /\ u = [Ended(t, code) EXCEPT !.calm = FALSE] => ~ u.calm
  <1> DEFINE a == [t EXCEPT !.at = "done"]
             b == [a EXCEPT !.code = code]
             c == [b EXCEPT !.fresh = FALSE]
             d == [c EXCEPT !.wrote = FALSE]
             e == [d EXCEPT !.calm = FALSE]
  <1>1. a \in Tx /\ a.at = "done" /\ a.call = t.call /\ a.told = t.told /\ a.name = t.name
          /\ a.loaded = t.loaded /\ a.calm = t.calm
    BY DEF Tx, Stages
  <1> HIDE DEF a
  <1>2. b \in Tx /\ b.at = "done" /\ b.call = t.call /\ b.told = t.told /\ b.name = t.name
          /\ b.loaded = t.loaded /\ b.calm = t.calm /\ b.code = code
    BY <1>1 DEF Tx
  <1> HIDE DEF b
  <1>3. c \in Tx /\ c.at = "done" /\ c.call = t.call /\ c.told = t.told /\ c.name = t.name
          /\ c.loaded = t.loaded /\ c.calm = t.calm /\ c.code = code /\ c.fresh = FALSE
    BY <1>2 DEF Tx
  <1> HIDE DEF c
  <1>4. d \in Tx /\ d.at = "done" /\ d.call = t.call /\ d.told = t.told /\ d.name = t.name
          /\ d.loaded = t.loaded /\ d.calm = t.calm /\ d.code = code /\ d.fresh = FALSE /\ d.wrote = FALSE
    BY <1>3 DEF Tx
  <1> HIDE DEF d
  <1>5. e \in Tx /\ e.at = "done" /\ e.call = t.call /\ e.told = t.told /\ e.name = t.name
          /\ e.loaded = t.loaded /\ e.calm = FALSE /\ e.code = code /\ e.fresh = FALSE /\ e.wrote = FALSE
    BY <1>4 DEF Tx
  <1>6. Ended(t, code) = d
    BY DEF Ended, d, c, b, a
  <1>7. u = d \/ u = e
    BY <1>6
  <1>8. u = [Ended(t, code) EXCEPT !.calm = FALSE] => u = e
    BY <1>6
  <1> HIDE DEF e
  <1> QED
    BY <1>4, <1>5, <1>7, <1>8

LEMMA EndsBadly ==
  ASSUME Fine, Quiet, NEW r \in Reqs, Running(r), NEW code \in Codes \ {"200", "replay"},
         NEW u, tx' = [tx EXCEPT ![r] = u], ~ u.calm,
         \/ u = Ended(tx[r], code)
         \/ u = [Ended(tx[r], code) EXCEPT !.calm = FALSE]
  PROVE  Fine'
  <1>1. /\ u \in Tx /\ u.at = "done" /\ u.code = code /\ ~ u.fresh /\ ~ u.wrote
        /\ u.call = tx[r].call /\ u.told = tx[r].told /\ u.name = tx[r].name /\ u.loaded = tx[r].loaded
    <2>1. tx[r] \in Tx
      BY TxFields DEF Fine
    <2>2. PICK t : t = tx[r]
      OBVIOUS
    <2> QED
      BY <2>1, <2>2, EndedFields
  <1>2. code # Null
    BY NullIsNoCode
  <1>3. tx'[r] = u
    BY DEF Fine, CatalogTypeOK
  <1>4. ~ Acked(r)' /\ ~ Running(r)'
    BY <1>1, <1>3 DEF Acked, Running
  <1>5. ScanOf(r)'
    BY <1>1, <1>3, <1>4 DEF Fine, CatalogInv, ScanOf, Is, Started, Running
  <1>6. ItemOf(r)' /\ CalmOf(r)'
    BY <1>3, <1>4 DEF ItemOf, CalmOf
  <1>7. PhotoOf(r)'
    BY <1>1, <1>3, <1>4 DEF PhotoOf
  <1> QED
    BY <1>1, <1>2, <1>5, <1>6, <1>7, QuietStep

LEMMA FailsKeeps ==
  ASSUME Fine, Quiet, NEW r \in Reqs, Running(r), NEW code \in {"422", "500", "failed"}, Fails(r, code)
  PROVE  Fine'
  <1>1. PICK u : u = [Ended(tx[r], code) EXCEPT !.calm = FALSE]
    OBVIOUS
  <1>2. tx' = [tx EXCEPT ![r] = u]
    BY <1>1 DEF Fails
  <1>3. tx[r] \in Tx /\ code \in Codes \ {"200", "replay"}
    BY TxFields DEF Fine, Codes
  <1>4. ~ u.calm
    <2>1. PICK t : t = tx[r]
      OBVIOUS
    <2> QED
      BY <1>1, <1>3, <2>1, EndedFields
  <1> QED
    BY <1>1, <1>2, <1>3, <1>4, EndsBadly

LEMMA DieKeeps ==
  ASSUME Fine, NEW r \in Reqs, Die(r)
  PROVE  Fine'
  BY FailsKeeps DEF Die, Quiet

----------------------------------------------------------------------------
(* What a move changes of a request.                                       *)
LEMMA Moved ==
  ASSUME NEW t \in Tx, NEW at \in Stages, NEW u, u = [t EXCEPT !.at = at]
  PROVE  /\ u \in Tx /\ u.at = at /\ u.call = t.call /\ u.told = t.told /\ u.name = t.name
         /\ u.loaded = t.loaded /\ u.fresh = t.fresh /\ u.wrote = t.wrote
         /\ u.code = t.code /\ u.calm = t.calm
  BY DEF Tx

(* What is known of a running request, and of its calm as it moves.        *)
LEMMA RunningIs ==
  ASSUME Fine, NEW r \in Reqs, Running(r)
  PROVE  /\ tx[r] \in Tx /\ tx[r].call \in Calls /\ Started(r) /\ ~ Acked(r)
         /\ tx[r].code = Null /\ tx[r].at # "done"
         /\ tx[r].at \in {"lookup", "row", "upsert", "commit"} => Is(r, "barcode")
         /\ tx[r].at \in {"select", "insert"} => Is(r, "barcode") \/ Is(r, "item")
         /\ tx[r].at = "parse" => Is(r, "photo")
         /\ tx[r].at \in {"upload", "url"} => Is(r, "upload")
         /\ tx[r].at = "add" => Is(r, "item")
  <1>1. Started(r) /\ tx[r].at # "done"
    BY DEF Running, Started
  <1>2. tx[r].call \in Calls /\ tx[r].code = Null
    BY <1>1 DEF Fine, CatalogInv, KeyOf
  <1>3. ~ Acked(r)
    BY <1>2, NullIsNoCode DEF Acked, Codes
  <1>4. tx[r].call.op \in {"barcode", "photo", "upload", "item"}
    BY <1>2, CallFields
  <1>5. tx[r] \in Tx
    BY TxFields DEF Fine
  <1>6. ScanOf(r) /\ ItemOf(r) /\ PhotoOf(r)
    BY DEF Fine, CatalogInv
  <1> QED
    BY <1>1, <1>2, <1>3, <1>4, <1>5, <1>6 DEF ScanOf, ItemOf, PhotoOf, Is

LEMMA CalmMoves ==
  ASSUME Fine, NEW r \in Reqs, Running(r), NEW u, tx' = [tx EXCEPT ![r] = u], up' = up,
         u.calm => tx[r].calm,
         u.calm /\ u.at = "insert" => u.name \notin canonicals',
         u.calm /\ u.at = "upsert" => u.loaded = products'[u.call.barcode],
         u.calm /\ u.at = "done" => u.code = "200"
  PROVE  CalmOf(r)'
  <1>1. tx'[r] = u /\ \A s \in Reqs \ {r} : tx'[s] = tx[s]
    BY DEF Fine, CatalogTypeOK
  <1>2. tx[r].calm => up /\ \A s \in Reqs \ {r} : ~ Running(s)
    BY DEF Fine, CatalogInv, CalmOf
  <1>3. \A s \in Reqs \ {r} : Running(s)' <=> Running(s)
    BY <1>1 DEF Running
  <1> QED
    BY <1>1, <1>2, <1>3 DEF CalmOf, Acked

----------------------------------------------------------------------------
(* The steps that write no table.                                          *)
LEMMA GotoMoves ==
  ASSUME NEW r \in Reqs, NEW at, Goto(r, at), NEW t, t = tx[r], tx \in [Reqs -> Tx]
  PROVE  tx' = [tx EXCEPT ![r] = [t EXCEPT !.at = at]]
  BY DEF Goto

(* A scan goes on without a product.                                       *)
LEMMA LookupMisses ==
  ASSUME Fine, Quiet, NEW r \in Reqs, tx[r].at = "lookup", Goto(r, "commit")
  PROVE  Fine'
  <1>1. PICK t, u : t = tx[r] /\ u = [t EXCEPT !.at = "commit"]
    OBVIOUS
  <1>2. Running(r)
    BY DEF Running
  <1>3. tx' = [tx EXCEPT ![r] = u]
    BY <1>1, GotoMoves DEF Fine, CatalogTypeOK
  <1>4. /\ tx[r] \in Tx /\ Started(r) /\ ~ Acked(r) /\ tx[r].code = Null /\ Is(r, "barcode")
    BY <1>2, RunningIs
  <1>5. /\ u \in Tx /\ u.at = "commit" /\ u.call = t.call /\ u.told = t.told /\ u.name = t.name
        /\ u.fresh = t.fresh /\ u.wrote = t.wrote /\ u.code = t.code /\ u.calm = t.calm
    BY <1>1, <1>4, Moved DEF Stages
  <1>6. t.told = {} /\ t.name = Null /\ ~ t.wrote /\ ~ t.fresh
    BY <1>1, <1>4 DEF Fine, CatalogInv, ScanOf
  <1>7. tx'[r] = u
    BY <1>3 DEF Fine, CatalogTypeOK
  <1>8. ScanOf(r)' /\ ItemOf(r)' /\ PhotoOf(r)'
    BY <1>1, <1>4, <1>5, <1>6, <1>7 DEF ScanOf, ItemOf, PhotoOf, Is
  <1>9. CalmOf(r)'
    BY <1>1, <1>2, <1>3, <1>5, CalmMoves DEF Quiet
  <1> QED
    BY <1>1, <1>2, <1>3, <1>4, <1>5, <1>6, <1>8, <1>9, QuietStep

LEMMA LookupFinds ==
  ASSUME Fine, Quiet, NEW r \in Reqs, tx[r].at = "lookup", NEW told \in Name,
         tx' = [tx EXCEPT ![r] = [@ EXCEPT !.at = "select", !.told = {told},
                                           !.name = normalize_ingredient_name(told)]]
  PROVE  Fine'
  <1>1. PICK t, u, name : /\ t = tx[r] /\ name = normalize_ingredient_name(told)
                          /\ u = [t EXCEPT !.at = "select", !.told = {told}, !.name = name]
    OBVIOUS
  <1>2. Running(r)
    BY DEF Running
  <1>3. tx' = [tx EXCEPT ![r] = u]
    BY <1>1
  <1>4. /\ tx[r] \in Tx /\ Started(r) /\ ~ Acked(r) /\ tx[r].code = Null /\ Is(r, "barcode")
    BY <1>2, RunningIs
  <1>5. /\ u \in Tx /\ u.at = "select" /\ u.call = t.call /\ u.told = {told} /\ u.name = name
        /\ u.fresh = t.fresh /\ u.wrote = t.wrote /\ u.code = t.code /\ u.calm = t.calm
    <2>1. t \in Tx /\ "select" \in Stages
      BY <1>1, <1>4 DEF Stages
    <2>2. name \in Name
      BY <1>1, NormalizedIsName
    <2>3. PICK all : all = {told}
      OBVIOUS
    <2>4. all \in SUBSET Name
      BY <2>3
    <2>5. u = [t EXCEPT !.at = "select", !.told = all, !.name = name]
      BY <1>1, <2>3, Zenon
    <2> QED
      BY <2>1, <2>2, <2>3, <2>4, <2>5 DEF Tx
  <1>6. ~ t.wrote /\ ~ t.fresh
    BY <1>1, <1>4 DEF Fine, CatalogInv, ScanOf
  <1>7. tx'[r] = u
    BY <1>3 DEF Fine, CatalogTypeOK
  <1>8. ~ Acked(r)'
    BY <1>1, <1>4, <1>5, <1>7 DEF Acked
  <1>9. ScanOf(r)'
    <2>1. \E n \in u.told : u.told = {n} /\ u.name = normalize_ingredient_name(n)
      BY <1>1, <1>5
    <2> QED
      BY <1>5, <1>7, <1>8, <2>1 DEF ScanOf
  <1>10. ItemOf(r)' /\ PhotoOf(r)'
    BY <1>1, <1>4, <1>5, <1>7 DEF ItemOf, PhotoOf, Is
  <1>11. CalmOf(r)'
    <2>1. /\ u.calm => tx[r].calm /\ up' = up
          /\ u.at # "insert" /\ u.at # "upsert" /\ u.at # "done"
      BY <1>1, <1>5 DEF Quiet
    <2>2. up' = up
      BY DEF Quiet
    <2> QED
      BY <1>2, <1>3, <2>1, <2>2, CalmMoves, Zenon
  <1>12. ~ Is(r, "item")
    BY <1>4, SMTT(30) DEF Is
  <1> QED
    BY <1>1, <1>2, <1>3, <1>4, <1>5, <1>6, <1>9, <1>10, <1>11, <1>12, QuietStep

LEMMA LookupKeeps ==
  ASSUME Fine, NEW r \in Reqs, lookup_barcode(r)
  PROVE  Fine'
  <1>1. Quiet /\ tx[r].at = "lookup" /\ Running(r)
    BY DEF lookup_barcode, Quiet, Running
  <1>2. tx[r].call.barcode \in Barcodes
    BY <1>1, RunningIs, CallFields DEF Is
  <1>3. ASSUME NEW raw \in Products[tx[r].call.barcode], NEW told, told = _map_product(raw),
               tx' = [tx EXCEPT ![r] = [@ EXCEPT !.at = "select", !.told = {told},
                                           !.name = normalize_ingredient_name(told)]]
        PROVE  Fine'
    <2>1. raw \in Name
      BY <1>2, CatalogAssumption
    <2>2. told \in Name
      BY <1>3, <2>1, NormalizedIsName DEF _map_product
    <2> QED
      BY <1>1, <1>3, <2>2, LookupFinds
  <1>4. \/ \E raw \in Products[tx[r].call.barcode] :
             tx' = [tx EXCEPT ![r] = [@ EXCEPT !.at = "select", !.told = {_map_product(raw)},
                                         !.name = normalize_ingredient_name(_map_product(raw))]]
        \/ Goto(r, "commit") \/ Fails(r, "500")
    BY Zenon DEF lookup_barcode
  <1>5. CASE \E raw \in Products[tx[r].call.barcode] :
               tx' = [tx EXCEPT ![r] = [@ EXCEPT !.at = "select", !.told = {_map_product(raw)},
                                           !.name = normalize_ingredient_name(_map_product(raw))]]
    BY <1>3, <1>5
  <1> QED
    BY <1>1, <1>4, <1>5, LookupMisses, FailsKeeps

LEMMA ParseKeeps ==
  ASSUME Fine, NEW r \in Reqs, parse_image(r)
  PROVE  Fine'
  <1>1. Quiet /\ tx[r].at = "parse" /\ Running(r)
    BY DEF parse_image, Quiet, Running
  <1>2. ASSUME NEW message \in Photos, NEW told, told = DraftNames(_extract_content(message)),
               tx' = [tx EXCEPT ![r] = [@ EXCEPT !.at = "store", !.told = told]]
        PROVE  Fine'
    <2>1. PICK t, u : t = tx[r] /\ u = [t EXCEPT !.at = "store", !.told = told]
      OBVIOUS
    <2>2. tx' = [tx EXCEPT ![r] = u]
      BY <1>2, <2>1
    <2>3. /\ tx[r] \in Tx /\ Started(r) /\ ~ Acked(r) /\ tx[r].code = Null /\ Is(r, "photo")
      BY <1>1, RunningIs
    <2>4. told \in SUBSET Name
      BY <1>2, PhotoNamesAreNames, Zenon
    <2>5. /\ u \in Tx /\ u.at = "store" /\ u.call = t.call /\ u.name = t.name
          /\ u.fresh = t.fresh /\ u.wrote = t.wrote /\ u.code = t.code /\ u.calm = t.calm
      BY <2>1, <2>3, <2>4 DEF Tx, Stages
    <2>6. ~ t.wrote /\ ~ t.fresh
      BY <1>1, <2>1 DEF Fine, CatalogTypeOK
    <2>7. tx'[r] = u
      BY <2>2 DEF Fine, CatalogTypeOK
    <2>8. ScanOf(r)' /\ ItemOf(r)' /\ PhotoOf(r)'
      BY <2>1, <2>3, <2>5, <2>7 DEF ScanOf, ItemOf, PhotoOf, Is
    <2>9. CalmOf(r)'
      <3>1. /\ u.calm => tx[r].calm
            /\ u.at # "insert" /\ u.at # "upsert" /\ u.at # "done"
        BY <2>1, <2>5
      <3>2. up' = up
        BY <1>1 DEF Quiet
      <3> QED
        BY <1>1, <2>2, <3>1, <3>2, CalmMoves, Zenon
    <2>10. ~ Is(r, "item")
      BY <2>3 DEF Is
    <2> QED
      BY <1>1, <2>1, <2>2, <2>3, <2>5, <2>6, <2>8, <2>9, <2>10, QuietStep
  <1>3. CASE \E message \in Photos :
               tx' = [tx EXCEPT ![r] = [@ EXCEPT !.at = "store",
                                                 !.told = DraftNames(_extract_content(message))]]
    BY <1>2, <1>3
  <1>4. CASE Fails(r, "422")
    BY <1>1, <1>4, FailsKeeps
  <1> QED
    BY <1>3, <1>4, Zenon DEF parse_image

(* A request that only goes on to another place.                           *)
LEMMA GotoKeeps ==
  ASSUME Fine, Quiet, NEW r \in Reqs, Running(r), NEW at \in Stages \ {"idle", "done"}, Goto(r, at),
         tx[r].at # "store",
         tx[r].fresh => at \in {"row", "upsert", "commit", "add"}, tx[r].wrote => at = "commit",
         tx[r].calm /\ at = "insert" => tx[r].name \notin canonicals,
         tx[r].calm /\ at = "upsert" => tx[r].loaded = products[tx[r].call.barcode],
         ScanOf(r)', ItemOf(r)', PhotoOf(r)'
  PROVE  Fine'
  <1>1. PICK t, u : t = tx[r] /\ u = [t EXCEPT !.at = at]
    OBVIOUS
  <1>2. tx' = [tx EXCEPT ![r] = u]
    BY <1>1, GotoMoves DEF Fine, CatalogTypeOK
  <1>3. tx[r] \in Tx /\ tx[r].code = Null
    BY RunningIs
  <1>4. /\ u \in Tx /\ u.at = at /\ u.call = t.call /\ u.name = t.name /\ u.loaded = t.loaded
        /\ u.fresh = t.fresh /\ u.wrote = t.wrote /\ u.code = t.code /\ u.calm = t.calm
    BY <1>1, <1>3, Moved
  <1>5. CalmOf(r)'
    <2>1. /\ up' = up /\ canonicals' = canonicals /\ products' = products
      BY DEF Quiet
    <2>2. /\ u.calm => tx[r].calm
          /\ u.calm /\ u.at = "insert" => u.name \notin canonicals'
          /\ u.calm /\ u.at = "upsert" => u.loaded = products'[u.call.barcode]
          /\ u.at # "done"
      BY <1>1, <1>4, <2>1
    <2> QED
      BY <1>2, <2>1, <2>2, CalmMoves
  <1> QED
    BY <1>1, <1>2, <1>3, <1>4, <1>5, QuietStep, ZenonT(40)

LEMMA UrlKeeps ==
  ASSUME Fine, Quiet, NEW r \in Reqs, generate_signed_url(r)
  PROVE  Fine'
  <1>1. tx[r].at = "url" /\ Running(r)
    BY DEF generate_signed_url, Running
  <1>2. CASE Goto(r, "store")
    <2>1. tx'[r] = [tx[r] EXCEPT !.at = "store"]
      BY <1>2 DEF Goto, Fine, CatalogTypeOK
    <2>2. tx[r] \in Tx /\ ~ Acked(r) /\ Is(r, "upload")
      BY <1>1, RunningIs
    <2>3. PICK u : u = tx'[r]
      OBVIOUS
    <2>4. u.at = "store" /\ u.call = tx[r].call /\ u.code = tx[r].code
      BY <2>1, <2>2, <2>3 DEF Tx
    <2>5. r \in files
      BY <1>1, <2>2 DEF Fine, CatalogInv, PhotoOf
    <2>6. ScanOf(r)' /\ ItemOf(r)' /\ PhotoOf(r)'
      BY <2>2, <2>3, <2>4, <2>5 DEF ScanOf, ItemOf, PhotoOf, Is, Acked, Quiet
    <2>7. ~ tx[r].fresh /\ ~ tx[r].wrote
      BY <1>1 DEF Fine, CatalogTypeOK
    <2> QED
      BY <1>1, <1>2, <2>6, <2>7, GotoKeeps DEF Stages
  <1> QED
    BY <1>1, <1>2, FailsKeeps DEF generate_signed_url

LEMMA FindCanonicalKeeps ==
  ASSUME Fine, NEW r \in Reqs, FindCanonical(r)
  PROVE  Fine'
  <1>1. Quiet /\ tx[r].at = "select" /\ Running(r)
    BY DEF FindCanonical, Quiet, Running
  <1>2. PICK at : at = IF tx[r].name \in canonicals THEN AfterCanonical(r) ELSE "insert"
    OBVIOUS
  <1>3. Goto(r, at)
    BY <1>2, Zenon DEF FindCanonical
  <1>4. tx[r] \in Tx /\ Started(r) /\ ~ Acked(r) /\ (Is(r, "barcode") \/ Is(r, "item"))
    BY <1>1, RunningIs
  <1>5. /\ at \in {"add", "row", "insert"} /\ at \in Stages \ {"idle", "done"}
        /\ at = "add" => Is(r, "item") /\ tx[r].name \in canonicals
        /\ at = "row" => Is(r, "barcode") /\ tx[r].name \in canonicals
        /\ at = "insert" => tx[r].name \notin canonicals
    BY <1>2, <1>4 DEF AfterCanonical, Stages, Is
  <1>6. tx'[r] = [tx[r] EXCEPT !.at = at]
    BY <1>3 DEF Goto, Fine, CatalogTypeOK
  <1>7. PICK u : u = tx'[r]
    OBVIOUS
  <1>8. /\ u.at = at /\ u.call = tx[r].call /\ u.code = tx[r].code /\ u.told = tx[r].told
        /\ u.name = tx[r].name /\ u.fresh = tx[r].fresh /\ u.wrote = tx[r].wrote /\ u.loaded = tx[r].loaded
    BY <1>4, <1>6, <1>7 DEF Tx
  <1>9. ~ Acked(r)' /\ canonicals' = canonicals /\ products' = products /\ items' = items
    BY <1>1, <1>4, <1>7, <1>8 DEF Acked, Quiet
  <1>10. ScanOf(r)'
    BY <1>1, <1>4, <1>5, <1>7, <1>8, <1>9 DEF Fine, CatalogInv, ScanOf, Is, Started
  <1>11. ItemOf(r)'
    <2> SUFFICES ASSUME Is(r, "item") PROVE ItemOf(r)'
      BY <1>4, <1>5, <1>7, <1>8 DEF ItemOf, Is, Started
    <2>1. NamedAfter(tx[r].name, tx[r].call) /\ tx[r].call.from \in Reqs
      BY <1>1, <1>4, StartedCall, CallFields DEF Fine, CatalogInv, ItemOf, Is
    <2>2. tx'[tx[r].call.from] = tx[tx[r].call.from]
      <3>1. tx[r].call.from # r
        BY <1>4, <2>1 DEF NamedAfter
      <3> QED
        BY <1>3, <2>1, <3>1 DEF Goto, Fine, CatalogTypeOK
    <2>3. NamedAfter(tx[r].name, tx[r].call)'
      BY <1>7, <1>8, <2>1, <2>2 DEF NamedAfter, Acked
    <2>4. at \in {"add", "insert"}
      BY <1>5 DEF Is
    <2> QED
      BY <1>5, <1>7, <1>8, <1>9, <2>3, <2>4 DEF ItemOf
  <1>12. PhotoOf(r)'
    BY <1>4, <1>7, <1>8 DEF PhotoOf, Is
  <1>13. ~ tx[r].fresh /\ ~ tx[r].wrote
    BY <1>1 DEF Fine, CatalogTypeOK
  <1> QED
    BY <1>1, <1>3, <1>5, <1>10, <1>11, <1>12, <1>13, GotoKeeps

(* An item that is being added keeps the name it was told.                 *)
LEMMA NamedMoves ==
  ASSUME Fine, NEW r \in Reqs, Running(r), Is(r, "item"), NEW u, tx' = [tx EXCEPT ![r] = u],
         u.call = tx[r].call, u.name = tx[r].name
  PROVE  NamedAfter(tx[r].name, tx[r].call) /\ NamedAfter(tx[r].name, tx[r].call)'
         /\ tx[r].name \in Name
  <1>1. /\ tx[r].call \in Calls /\ tx[r].call.from \in Reqs /\ ~ Acked(r)
        /\ NamedAfter(tx[r].name, tx[r].call)
    BY RunningIs, StartedCall, CallFields DEF Fine, CatalogInv, ItemOf, Is
  <1>2. tx'[r] = u /\ tx'[tx[r].call.from] = tx[tx[r].call.from]
    <2>1. tx[r].call.from # r
      BY <1>1 DEF NamedAfter
    <2> QED
      BY <1>1, <2>1 DEF Fine, CatalogTypeOK
  <1>3. NamedAfter(tx[r].name, tx[r].call)'
    BY <1>1, <1>2 DEF NamedAfter, Acked
  <1>4. PICK told \in tx[tx[r].call.from].told : tx[r].name = normalize_ingredient_name(told)
    BY <1>1 DEF NamedAfter
  <1>5. told \in Name
    BY <1>1, TxFields DEF Fine
  <1>6. normalize_ingredient_name(told) \in Name
    BY <1>5, NormalizedIsName
  <1> QED
    BY <1>1, <1>3, <1>4, <1>6

(* A scan has a name once it has told one.                                 *)
LEMMA ScanName ==
  ASSUME Fine, NEW r \in Reqs, Is(r, "barcode"), tx[r].told # {}
  PROVE  tx[r].name \in Name /\ tx[r].name # Null
  <1>1. PICK told \in tx[r].told : tx[r].name = normalize_ingredient_name(told)
    BY DEF Fine, CatalogInv, ScanOf
  <1>2. told \in Name
    BY TxFields DEF Fine
  <1>3. normalize_ingredient_name(told) \in Name
    BY <1>2, NormalizedIsName
  <1> QED
    BY <1>1, <1>3, CatalogAssumption

LEMMA InsertCanonicalKeeps ==
  ASSUME Fine, NEW r \in Reqs, InsertCanonical(r)
  PROVE  Fine'
  <1>1. Quiet /\ tx[r].at = "insert" /\ Running(r)
    BY DEF InsertCanonical, Quiet, Running
  <1>2. tx[r] \in Tx /\ Started(r) /\ ~ Acked(r) /\ tx[r].code = Null /\ (Is(r, "barcode") \/ Is(r, "item"))
    BY <1>1, RunningIs
  <1>3. CASE tx[r].name \in canonicals
    <2>1. PICK u : u = Ended(tx[r], "500")
      OBVIOUS
    <2>2. tx' = [tx EXCEPT ![r] = u]
      BY <1>3, <2>1 DEF InsertCanonical, End
    <2>3. ~ u.calm
      <3>1. ~ tx[r].calm
        BY <1>1, <1>3 DEF Fine, CatalogInv, CalmOf
      <3>2. PICK t : t = tx[r]
        OBVIOUS
      <3> QED
        BY <1>2, <2>1, <3>1, <3>2, EndedFields DEF Codes
    <2> QED
      BY <1>1, <2>1, <2>2, <2>3, EndsBadly DEF Codes
  <1>4. CASE tx[r].name \notin canonicals
    <2>1. PICK t, u, at : t = tx[r] /\ at = AfterCanonical(r) /\ u = [t EXCEPT !.at = at, !.fresh = TRUE]
      OBVIOUS
    <2>2. tx' = [tx EXCEPT ![r] = u]
      BY <1>4, <2>1 DEF InsertCanonical
    <2>3. /\ at \in {"add", "row"} /\ at \in Stages
          /\ at = "add" => Is(r, "item")
          /\ at = "row" => Is(r, "barcode")
      BY <1>2, <2>1 DEF AfterCanonical, Stages, Is
    <2>4. /\ u \in Tx /\ u.at = at /\ u.call = t.call /\ u.told = t.told /\ u.name = t.name
          /\ u.loaded = t.loaded /\ u.fresh = TRUE /\ u.wrote = t.wrote /\ u.code = t.code /\ u.calm = t.calm
      BY <1>2, <2>1, <2>3 DEF Tx
    <2>5. tx'[r] = u /\ ~ t.wrote
      BY <1>1, <2>1, <2>2 DEF Fine, CatalogTypeOK
    <2>6. ~ Acked(r)' /\ canonicals' = canonicals /\ products' = products /\ up' = up
      BY <1>1, <1>2, <2>1, <2>4, <2>5 DEF Acked, Quiet
    <2>7. ScanOf(r)'
      BY <1>1, <1>2, <2>1, <2>3, <2>4, <2>5, <2>6 DEF Fine, CatalogInv, ScanOf, Is, Started
    <2>8. ItemOf(r)'
      <3> SUFFICES ASSUME Is(r, "item") PROVE ItemOf(r)'
        BY <1>2, <2>1, <2>4, <2>5 DEF ItemOf, Is, Started
      <3>1. NamedAfter(tx[r].name, tx[r].call)'
        BY <1>1, <2>1, <2>2, <2>4, NamedMoves
      <3>2. at = "add"
        BY <2>3 DEF Is
      <3> QED
        BY <2>1, <2>4, <2>5, <2>6, <3>1, <3>2 DEF ItemOf, NamedAfter
    <2>9. PhotoOf(r)'
      BY <1>2, <2>1, <2>4, <2>5 DEF PhotoOf, Is
    <2>10. CalmOf(r)'
      <3>1. u.at # "insert" /\ u.at # "upsert" /\ u.at # "done" /\ (u.calm => tx[r].calm)
        BY <2>1, <2>3, <2>4
      <3> QED
        BY <1>1, <2>2, <2>6, <3>1, CalmMoves
    <2>11. /\ u.call = tx[r].call /\ u.at # "idle" /\ ((u.code # Null) <=> (u.at = "done"))
           /\ u.name = tx[r].name /\ tx[r].at # "store"
           /\ u.fresh => u.at \in {"row", "upsert", "commit", "add"}
           /\ u.wrote => u.at = "commit"
      BY <1>1, <1>2, <2>1, <2>3, <2>4, <2>5
    <2> QED
      BY <1>1, <2>2, <2>4, <2>7, <2>8, <2>9, <2>10, <2>11, QuietStep
  <1> QED
    BY <1>3, <1>4

LEMMA FindBarcodeKeeps ==
  ASSUME Fine, NEW r \in Reqs, FindBarcode(r)
  PROVE  Fine'
  <1>1. Quiet /\ tx[r].at = "row" /\ Running(r)
    BY DEF FindBarcode, Quiet, Running
  <1>2. tx[r] \in Tx /\ Started(r) /\ ~ Acked(r) /\ tx[r].code = Null /\ Is(r, "barcode")
    BY <1>1, RunningIs
  <1>3. PICK t, u, loaded : /\ t = tx[r] /\ loaded = products[t.call.barcode]
                            /\ u = [t EXCEPT !.at = "upsert", !.loaded = loaded]
    OBVIOUS
  <1>4. tx' = [tx EXCEPT ![r] = u]
    BY <1>3 DEF FindBarcode
  <1>5. loaded \in Name \cup {Null}
    <2>1. t.call.barcode \in Barcodes
      BY <1>2, <1>3, StartedCall, CallFields DEF Is
    <2>2. products \in [Barcodes -> Name \cup {Null}]
      BY DEF Fine, CatalogTypeOK
    <2> QED
      BY <1>3, <2>1, <2>2
  <1>6. /\ u \in Tx /\ u.at = "upsert" /\ u.call = t.call /\ u.told = t.told /\ u.name = t.name
        /\ u.loaded = loaded /\ u.fresh = t.fresh /\ u.wrote = t.wrote /\ u.code = t.code /\ u.calm = t.calm
    BY <1>2, <1>3, <1>5, ZenonT(40) DEF Tx, Stages
  <1>7. tx'[r] = u /\ ~ t.wrote
    BY <1>1, <1>3, <1>4 DEF Fine, CatalogTypeOK
  <1>8. ~ Acked(r)' /\ canonicals' = canonicals /\ products' = products /\ up' = up
    BY <1>1, <1>2, <1>3, <1>6, <1>7 DEF Acked, Quiet
  <1>9. ScanOf(r)'
    BY <1>1, <1>2, <1>3, <1>6, <1>7, <1>8 DEF Fine, CatalogInv, ScanOf, Is, Started
  <1>10. ItemOf(r)' /\ PhotoOf(r)'
    BY <1>2, <1>3, <1>6, <1>7 DEF ItemOf, PhotoOf, Is
  <1>11. CalmOf(r)'
    <2>1. u.at = "upsert" /\ u.loaded = products'[u.call.barcode] /\ (u.calm => tx[r].calm)
      BY <1>3, <1>6, <1>8
    <2> QED
      BY <1>1, <1>4, <1>8, <2>1, CalmMoves
  <1>12. ~ Is(r, "item")
    BY <1>2 DEF Is
  <1>13. /\ Quiet /\ Running(r) /\ u \in Tx /\ u.call = tx[r].call /\ u.at # "idle"
         /\ ((u.code # Null) <=> (u.at = "done")) /\ tx[r].at # "store"
         /\ u.fresh => u.at \in {"row", "upsert", "commit", "add"}
         /\ ~ u.wrote
    BY <1>1, <1>2, <1>3, <1>6, <1>7
  <1> QED
    BY <1>4, <1>9, <1>10, <1>11, <1>12, <1>13, QuietStep

LEMMA WriteBarcodeKeeps ==
  ASSUME Fine, NEW r \in Reqs, WriteBarcode(r)
  PROVE  Fine'
  <1>1. Quiet /\ tx[r].at = "upsert" /\ Running(r)
    BY DEF WriteBarcode, Quiet, Running
  <1>2. tx[r] \in Tx /\ Started(r) /\ ~ Acked(r) /\ tx[r].code = Null /\ Is(r, "barcode") /\ ~ Is(r, "item")
    BY <1>1, RunningIs DEF Is
  <1>3. /\ tx[r].told # {} /\ (tx[r].loaded # Null => products[tx[r].call.barcode] # Null)
        /\ tx[r].fresh \/ tx[r].name \in canonicals
        /\ \E name \in tx[r].told : tx[r].told = {name} /\ tx[r].name = normalize_ingredient_name(name)
    BY <1>1, <1>2 DEF Fine, CatalogInv, ScanOf
  <1>4. tx[r].name # Null
    BY <1>2, <1>3, ScanName
  <1>5. ~ tx[r].wrote
    BY <1>1 DEF Fine, CatalogTypeOK
  <1>6. CASE tx[r].loaded = tx[r].name /\ Goto(r, "commit")
    <2>1. tx'[r] = [tx[r] EXCEPT !.at = "commit"]
      BY <1>6 DEF Goto, Fine, CatalogTypeOK
    <2>2. PICK u : u = tx'[r]
      OBVIOUS
    <2>3. /\ u.at = "commit" /\ u.call = tx[r].call /\ u.code = tx[r].code /\ u.told = tx[r].told
          /\ u.name = tx[r].name /\ u.fresh = tx[r].fresh /\ u.wrote = tx[r].wrote
      BY <1>2, <2>1, <2>2 DEF Tx
    <2>4. ~ Acked(r)' /\ canonicals' = canonicals /\ products' = products
      BY <1>1, <1>2, <2>2, <2>3 DEF Acked, Quiet
    <2>5. ScanOf(r)'
      BY <1>3, <1>4, <1>6, <2>2, <2>3, <2>4 DEF ScanOf
    <2>6. ItemOf(r)' /\ PhotoOf(r)'
      BY <1>2, <2>2, <2>3 DEF ItemOf, PhotoOf, Is
    <2> QED
      BY <1>1, <1>5, <1>6, <2>5, <2>6, GotoKeeps DEF Stages
  <1>7. CASE tx[r].loaded = Null /\ products[tx[r].call.barcode] # Null /\ End(r, "500")
    <2>1. PICK u : u = Ended(tx[r], "500")
      OBVIOUS
    <2>2. tx' = [tx EXCEPT ![r] = u]
      BY <1>7, <2>1 DEF End
    <2>3. ~ u.calm
      <3>1. ~ tx[r].calm
        BY <1>1, <1>7 DEF Fine, CatalogInv, CalmOf
      <3>2. PICK t : t = tx[r]
        OBVIOUS
      <3> QED
        BY <1>2, <2>1, <3>1, <3>2, EndedFields DEF Codes
    <2> QED
      BY <1>1, <2>1, <2>2, <2>3, EndsBadly DEF Codes
  <1>8. CASE tx' = [tx EXCEPT ![r] = [@ EXCEPT !.at = "commit", !.wrote = TRUE]]
    <2>1. PICK t, u : t = tx[r] /\ u = [t EXCEPT !.at = "commit", !.wrote = TRUE]
      OBVIOUS
    <2>2. tx' = [tx EXCEPT ![r] = u]
      BY <1>8, <2>1
    <2>3. /\ u \in Tx /\ u.at = "commit" /\ u.call = t.call /\ u.told = t.told /\ u.name = t.name
          /\ u.fresh = t.fresh /\ u.wrote = TRUE /\ u.code = t.code /\ u.calm = t.calm
      BY <1>2, <2>1 DEF Tx, Stages
    <2>4. tx'[r] = u
      BY <2>2 DEF Fine, CatalogTypeOK
    <2>5. ~ Acked(r)' /\ canonicals' = canonicals /\ products' = products /\ up' = up
      BY <1>1, <1>2, <2>1, <2>3, <2>4 DEF Acked, Quiet
    <2>6. ScanOf(r)'
      BY <1>3, <2>1, <2>3, <2>4, <2>5 DEF ScanOf
    <2>7. ItemOf(r)' /\ PhotoOf(r)'
      BY <1>2, <2>1, <2>3, <2>4 DEF ItemOf, PhotoOf, Is
    <2>8. CalmOf(r)'
      <3>1. u.at # "insert" /\ u.at # "upsert" /\ u.at # "done" /\ (u.calm => tx[r].calm)
        BY <2>1, <2>3
      <3> QED
        BY <1>1, <2>2, <2>5, <3>1, CalmMoves
    <2> QED
      BY <1>1, <1>2, <2>1, <2>2, <2>3, <2>6, <2>7, <2>8, QuietStep
  <1>9. \/ tx[r].loaded = tx[r].name /\ Goto(r, "commit")
        \/ tx[r].loaded = Null /\ products[tx[r].call.barcode] # Null /\ End(r, "500")
        \/ tx' = [tx EXCEPT ![r] = [@ EXCEPT !.at = "commit", !.wrote = TRUE]]
    BY Zenon DEF WriteBarcode
  <1> QED
    BY <1>6, <1>7, <1>8, <1>9

----------------------------------------------------------------------------
(* The steps that write a table, the cache or a file.                      *)
LEMMA TableStep ==
  ASSUME Fine, NEW r \in Reqs, Running(r), NEW u \in Tx, tx' = [tx EXCEPT ![r] = u],
         u.call = tx[r].call, u.at # "idle", (u.code # Null) <=> (u.at = "done"),
         Is(r, "item") => u.name = tx[r].name, tx[r].at = "store" => u.at = "done",
         u.fresh => u.at \in {"row", "upsert", "commit", "add"}, u.wrote => u.at = "commit",
         canonicals \subseteq canonicals', canonicals' \subseteq Name,
         products' \in [Barcodes -> canonicals' \cup {Null}],
         \A b \in Barcodes : products[b] # Null => products'[b] # Null,
         items \subseteq items',
         items' \subseteq [id : Reqs, name : Name, place : Places, days : Int],
         \A i \in items' \ items : RightItem(i)',
         files \subseteq files', files' \subseteq files \cup {r},
         \A key \in DOMAIN entries' :
           \/ key \in DOMAIN entries /\ entries'[key] = entries[key]
           \/ entries'[key] = r /\ u.code = "200" /\ key = _scoped_key(u.call),
         up' = up, ScanOf(r)', ItemOf(r)', PhotoOf(r)', CalmOf(r)'
  PROVE  Fine'
  <1>1. /\ Onward /\ tx'[r] = u /\ Started(r)' /\ KeyOf(r)' /\ tx' \in [Reqs -> Tx]
        /\ \A s \in Reqs : /\ tx'[s].fresh => tx'[s].at \in {"row", "upsert", "commit", "add"}
                           /\ tx'[s].wrote => tx'[s].at = "commit"
        /\ \A s \in Reqs \ {r} : KeyOf(s)' /\ ScanOf(s)' /\ ItemOf(s)' /\ PhotoOf(s)' /\ CalmOf(s)'
    BY StepKeeps
  <1>2. CatalogTypeOK'
    <2>1. files' \subseteq Reqs /\ up' \in BOOLEAN
      BY DEF Fine, CatalogTypeOK
    <2>2. \A key \in DOMAIN entries' : entries'[key] \in Reqs
      BY DEF Fine, CatalogTypeOK
    <2> QED
      BY <1>1, <2>1, <2>2 DEF CatalogTypeOK
  <1>3. EntriesInv'
    <2> SUFFICES ASSUME NEW key \in DOMAIN entries'
                 PROVE  tx'[entries'[key]].code = "200" /\ key = _scoped_key(tx'[entries'[key]].call)
      BY DEF EntriesInv, _scoped_key
    <2>1. CASE key \in DOMAIN entries /\ entries'[key] = entries[key]
      BY <1>1, <2>1, EntryStays
    <2>2. CASE entries'[key] = r /\ u.code = "200" /\ key = _scoped_key(u.call)
      BY <1>1, <2>2
    <2> QED
      BY <2>1, <2>2
  <1>4. \A i \in items' : RightItem(i)'
    <2> SUFFICES ASSUME NEW i \in items' PROVE RightItem(i)'
      OBVIOUS
    <2>1. CASE i \in items
      BY <1>1, <2>1, ItemStays
    <2> QED
      BY <2>1
  <1>5. \A s \in files' : Started(s)'
    BY <1>1 DEF Fine, CatalogInv, CatalogTypeOK, Started, Onward
  <1>6. \A s \in Reqs : (KeyOf(s) /\ ScanOf(s) /\ ItemOf(s) /\ PhotoOf(s) /\ CalmOf(s))'
    BY <1>1
  <1> QED
    BY <1>2, <1>3, <1>4, <1>5, <1>6 DEF Fine, CatalogInv

LEMMA UploadKeeps ==
  ASSUME Fine, NEW r \in Reqs, upload_photo(r)
  PROVE  Fine'
  <1>1. CASE files' = files \cup {r} /\ Goto(r, "url") /\ upload(r)
    <2>1. tx[r].at = "upload" /\ Running(r)
      BY <1>1 DEF upload, Running
    <2>2. /\ tx[r] \in Tx /\ Started(r) /\ ~ Acked(r) /\ tx[r].code = Null
          /\ Is(r, "upload") /\ ~ Is(r, "item")
      BY <2>1, RunningIs DEF Is
    <2>3. /\ canonicals' = canonicals /\ products' = products /\ items' = items
          /\ entries' = entries /\ up' = up
      BY DEF upload_photo
    <2>4. PICK t, u : t = tx[r] /\ u = [t EXCEPT !.at = "url"]
      OBVIOUS
    <2>5. tx' = [tx EXCEPT ![r] = u]
      BY <1>1, <2>4, GotoMoves DEF Fine, CatalogTypeOK
    <2>6. /\ u \in Tx /\ u.at = "url" /\ u.call = t.call /\ u.told = t.told /\ u.name = t.name
          /\ u.fresh = t.fresh /\ u.wrote = t.wrote /\ u.code = t.code /\ u.calm = t.calm
      BY <2>2, <2>4, Moved DEF Stages
    <2>7. tx'[r] = u /\ ~ t.fresh /\ ~ t.wrote
      BY <2>1, <2>4, <2>5 DEF Fine, CatalogTypeOK
    <2>8. ScanOf(r)' /\ ItemOf(r)'
      BY <2>2, <2>4, <2>6, <2>7 DEF ScanOf, ItemOf, Is
    <2>9. PhotoOf(r)'
      BY <1>1, <2>2, <2>4, <2>6, <2>7 DEF PhotoOf, Is, Acked
    <2>10. CalmOf(r)'
      <3>1. u.at # "insert" /\ u.at # "upsert" /\ u.at # "done" /\ (u.calm => tx[r].calm)
        BY <2>4, <2>6
      <3> QED
        BY <2>1, <2>3, <2>5, <3>1, CalmMoves
    <2>11. /\ u.call = tx[r].call /\ u.at # "idle" /\ ((u.code # Null) <=> (u.at = "done"))
           /\ tx[r].at # "store" /\ ~ u.fresh /\ ~ u.wrote
      BY <2>1, <2>2, <2>4, <2>6, <2>7
    <2>12. /\ canonicals' \subseteq Name /\ products' \in [Barcodes -> canonicals' \cup {Null}]
           /\ items' \subseteq [id : Reqs, name : Name, place : Places, days : Int]
      BY <2>3 DEF Fine, CatalogTypeOK
    <2> QED
      BY <1>1, <2>1, <2>2, <2>3, <2>5, <2>6, <2>8, <2>9, <2>10, <2>11, <2>12, TableStep
  <1>2. CASE upload(r) /\ Fails(r, "500") /\ UNCHANGED files
    <2>1. Quiet /\ Running(r)
      BY <1>2 DEF upload_photo, upload, Quiet, Running
    <2> QED
      BY <1>2, <2>1, FailsKeeps
  <1>3. CASE generate_signed_url(r)
    <2>1. Quiet
      BY <1>3 DEF upload_photo, generate_signed_url, Quiet
    <2> QED
      BY <1>3, <2>1, UrlKeeps
  <1> QED
    BY <1>1, <1>2, <1>3 DEF upload_photo, upload

LEMMA StoreKeeps ==
  ASSUME Fine, NEW r \in Reqs, store_cached(r)
  PROVE  Fine'
  <1>1. tx[r].at = "store" /\ Running(r)
    BY DEF store_cached, Running
  <1>2. tx[r] \in Tx /\ tx[r].call \in Calls /\ Started(r) /\ ~ Acked(r) /\ tx[r].code = Null
    BY <1>1, RunningIs
  <1>3. /\ canonicals' = canonicals /\ products' = products /\ items' = items
        /\ files' = files /\ up' = up
    BY DEF store_cached
  <1>4. CASE ~ up
    <2>1. PICK u : u = Ended(tx[r], "500")
      OBVIOUS
    <2>2. tx' = [tx EXCEPT ![r] = u] /\ Quiet
      BY <1>3, <1>4, <2>1 DEF store_cached, End, Quiet
    <2>3. ~ u.calm
      <3>1. ~ tx[r].calm
        BY <1>1, <1>4 DEF Fine, CatalogInv, CalmOf
      <3>2. PICK t : t = tx[r]
        OBVIOUS
      <3> QED
        BY <1>2, <2>1, <3>1, <3>2, EndedFields DEF Codes
    <2> QED
      BY <1>1, <2>1, <2>2, <2>3, EndsBadly DEF Codes
  <1>5. CASE up
    <2>1. PICK t, u, own : t = tx[r] /\ u = Ended(t, "200") /\ own = _scoped_key(t.call)
      OBVIOUS
    <2>2. /\ tx' = [tx EXCEPT ![r] = u]
          /\ entries' = [key \in DOMAIN entries \cup {own} |-> IF key = own THEN r ELSE entries[key]]
      BY <1>5, <2>1 DEF store_cached, End
    <2>3. /\ u \in Tx /\ u.at = "done" /\ u.code = "200" /\ ~ u.fresh /\ ~ u.wrote
          /\ u.call = t.call /\ u.told = t.told /\ u.name = t.name /\ (u.calm => t.calm)
      BY <1>2, <2>1, EndedFields DEF Codes
    <2>4. tx'[r] = u /\ Acked(r)'
      BY <2>2, <2>3 DEF Fine, CatalogTypeOK, Acked
    <2>5. ScanOf(r)'
      BY <1>1, <1>2, <1>3, <2>1, <2>3, <2>4 DEF Fine, CatalogInv, ScanOf, Is, Started
    <2>6. ItemOf(r)'
      <3> SUFFICES ASSUME Is(r, "item") PROVE ItemOf(r)'
        BY <1>2, <2>1, <2>3, <2>4 DEF ItemOf, Is, Started
      <3>1. NamedAfter(tx[r].name, tx[r].call)'
        BY <1>1, <2>1, <2>2, <2>3, NamedMoves
      <3>2. PICK i \in items : i.id = r
        BY <1>1 DEF Fine, CatalogInv, ItemOf
      <3>3. i.name = t.name /\ tx'[i.id].call = u.call
        BY <2>1, <2>4, <3>2 DEF Fine, CatalogInv, RightItem
      <3> QED
        BY <1>3, <2>1, <2>3, <2>4, <3>1, <3>2, <3>3 DEF ItemOf, NamedAfter
    <2>7. PhotoOf(r)'
      <3>1. Is(r, "upload") => r \in files
        BY <1>1 DEF Fine, CatalogInv, PhotoOf
      <3> QED
        BY <1>2, <1>3, <2>1, <2>3, <2>4, <3>1 DEF PhotoOf, Is
    <2>8. CalmOf(r)'
      <3>1. u.at # "insert" /\ u.at # "upsert" /\ u.code = "200" /\ (u.calm => tx[r].calm)
        BY <2>1, <2>3
      <3> QED
        BY <1>1, <1>3, <2>2, <3>1, CalmMoves
    <2>9. \A key \in DOMAIN entries' :
            \/ key \in DOMAIN entries /\ entries'[key] = entries[key]
            \/ entries'[key] = r /\ u.code = "200" /\ key = _scoped_key(u.call)
      BY <2>1, <2>2, <2>3
    <2>10. /\ u.call = tx[r].call /\ u.at = "done" /\ u.code # Null /\ u.name = tx[r].name
      BY <2>1, <2>3, NullIsNoCode DEF Codes
    <2>11. /\ canonicals' \subseteq Name /\ products' \in [Barcodes -> canonicals' \cup {Null}]
           /\ items' \subseteq [id : Reqs, name : Name, place : Places, days : Int]
      BY <1>3 DEF Fine, CatalogTypeOK
    <2> QED
      BY <1>1, <1>3, <2>2, <2>3, <2>5, <2>6, <2>7, <2>8, <2>9, <2>10, <2>11, TableStep
  <1> QED
    BY <1>4, <1>5 DEF Fine, CatalogTypeOK

LEMMA ScanKeeps ==
  ASSUME Fine, NEW r \in Reqs, scan_barcode(r)
  PROVE  Fine'
  <1>1. tx[r].at = "commit" /\ Running(r)
    BY DEF scan_barcode, Running
  <1>2. /\ tx[r] \in Tx /\ Started(r) /\ ~ Acked(r) /\ tx[r].code = Null
        /\ Is(r, "barcode") /\ ~ Is(r, "item") /\ tx[r].call.barcode \in Barcodes
    BY <1>1, RunningIs, CallFields DEF Is
  <1>3. items' = items /\ files' = files /\ entries' = entries /\ up' = up
    BY DEF scan_barcode
  <1>4. PICK t, u, b : /\ t = tx[r] /\ b = t.call.barcode
                       /\ u = [t EXCEPT !.at = "store", !.fresh = FALSE, !.wrote = FALSE]
    OBVIOUS
  <1>5. /\ tx' = [tx EXCEPT ![r] = u]
        /\ canonicals' = canonicals \cup (IF t.fresh THEN {t.name} ELSE {})
        /\ products' = IF t.wrote THEN [products EXCEPT ![b] = t.name] ELSE products
    BY <1>4 DEF scan_barcode, Committed
  <1>6. /\ u \in Tx /\ u.at = "store" /\ u.call = t.call /\ u.told = t.told /\ u.name = t.name
        /\ u.fresh = FALSE /\ u.wrote = FALSE /\ u.code = t.code /\ u.calm = t.calm
    BY <1>2, <1>4, ZenonT(40) DEF Tx, Stages
  <1>7. tx'[r] = u
    BY <1>5 DEF Fine, CatalogTypeOK
  <1>8. ~ Acked(r)'
    BY <1>2, <1>4, <1>6, <1>7 DEF Acked
  <1>9. /\ t.told = {} => t.name = Null /\ ~ t.wrote /\ ~ t.fresh
        /\ t.told # {} =>
             /\ \E name \in t.told : t.told = {name} /\ t.name = normalize_ingredient_name(name)
             /\ t.fresh \/ t.name \in canonicals
             /\ t.wrote \/ products[b] # Null
             /\ t.name \in Name /\ t.name # Null
    <2>1. t.told # {} => t.name \in Name /\ t.name # Null
      BY <1>2, <1>4, ScanName
    <2> QED
      BY <1>1, <1>2, <1>4, <2>1 DEF Fine, CatalogInv, ScanOf
  <1>10. canonicals \subseteq Name /\ products \in [Barcodes -> canonicals \cup {Null}]
    BY DEF Fine, CatalogTypeOK
  <1>11. /\ canonicals \subseteq canonicals' /\ canonicals' \subseteq Name
         /\ t.told # {} => t.name \in canonicals'
    BY <1>5, <1>9, <1>10
  <1>12. /\ products' \in [Barcodes -> canonicals' \cup {Null}]
         /\ \A c \in Barcodes : products[c] # Null => products'[c] # Null
         /\ t.told # {} => products'[b] # Null
    <2>1. b \in Barcodes
      BY <1>2, <1>4
    <2>2. CASE t.wrote
      <3>1. t.name \in canonicals' /\ t.name # Null
        BY <1>9, <1>11, <2>2
      <3>2. products' = [products EXCEPT ![b] = t.name]
        BY <1>5, <2>2
      <3>3. products \in [Barcodes -> canonicals' \cup {Null}]
        BY <1>10, <1>11
      <3> QED
        BY <2>1, <3>1, <3>2, <3>3
    <2>3. CASE ~ t.wrote
      <3>1. products' = products
        BY <1>5, <2>3
      <3>2. products \in [Barcodes -> canonicals' \cup {Null}]
        BY <1>10, <1>11
      <3> QED
        BY <1>9, <2>3, <3>1, <3>2
    <2> QED
      BY <2>2, <2>3
  <1>13. ScanOf(r)'
    BY <1>4, <1>6, <1>7, <1>8, <1>9, <1>11, <1>12 DEF ScanOf
  <1>14. ItemOf(r)' /\ PhotoOf(r)'
    BY <1>2, <1>4, <1>6, <1>7 DEF ItemOf, PhotoOf, Is
  <1>15. CalmOf(r)'
    <2>1. u.at # "insert" /\ u.at # "upsert" /\ u.at # "done" /\ (u.calm => tx[r].calm)
      BY <1>4, <1>6
    <2> QED
      BY <1>1, <1>3, <1>5, <2>1, CalmMoves
  <1>16. /\ u.call = tx[r].call /\ u.at # "idle" /\ ((u.code # Null) <=> (u.at = "done"))
         /\ tx[r].at # "store" /\ ~ u.fresh /\ ~ u.wrote
    BY <1>1, <1>2, <1>4, <1>6
  <1>17. items' \subseteq [id : Reqs, name : Name, place : Places, days : Int]
    BY <1>3 DEF Fine, CatalogTypeOK
  <1> QED
    BY <1>1, <1>2, <1>3, <1>5, <1>6, <1>11, <1>12, <1>13, <1>14, <1>15, <1>16, <1>17, TableStep

LEMMA CreateKeeps ==
  ASSUME Fine, NEW r \in Reqs, create_item(r)
  PROVE  Fine'
  <1>1. tx[r].at = "add" /\ Running(r)
    BY DEF create_item, Running
  <1>2. /\ tx[r] \in Tx /\ Started(r) /\ ~ Acked(r) /\ tx[r].code = Null
        /\ Is(r, "item") /\ tx[r].call.place \in Places
    BY <1>1, RunningIs, CallFields DEF Is
  <1>3. products' = products /\ files' = files /\ entries' = entries /\ up' = up
    BY DEF create_item
  <1>4. PICK t, u, item : /\ t = tx[r] /\ u = [t EXCEPT !.at = "store", !.fresh = FALSE]
                          /\ item = [id |-> r, name |-> t.name, place |-> t.call.place,
                                     days |-> calculate_expiry(Rules, t.name, t.call.place)]
    OBVIOUS
  <1>5. /\ tx' = [tx EXCEPT ![r] = u] /\ items' = items \cup {item}
        /\ canonicals' = canonicals \cup (IF t.fresh THEN {t.name} ELSE {})
    BY <1>4 DEF create_item, Committed
  <1>6. /\ u \in Tx /\ u.at = "store" /\ u.call = t.call /\ u.told = t.told /\ u.name = t.name
        /\ u.fresh = FALSE /\ u.wrote = t.wrote /\ u.code = t.code /\ u.calm = t.calm
    BY <1>2, <1>4, ZenonT(40) DEF Tx, Stages
  <1>7. tx'[r] = u /\ ~ t.wrote
    BY <1>1, <1>4, <1>5 DEF Fine, CatalogTypeOK
  <1>8. ~ Acked(r)'
    BY <1>2, <1>4, <1>6, <1>7 DEF Acked
  <1>9. NamedAfter(tx[r].name, tx[r].call)' /\ t.name \in Name
    BY <1>1, <1>2, <1>4, <1>5, <1>6, NamedMoves
  <1>10. /\ canonicals \subseteq canonicals' /\ canonicals' \subseteq Name
         /\ products' \in [Barcodes -> canonicals' \cup {Null}]
         /\ \A b \in Barcodes : products[b] # Null => products'[b] # Null
    BY <1>3, <1>5, <1>9 DEF Fine, CatalogTypeOK
  <1>11. /\ item.id = r /\ item.name = t.name /\ item.place = t.call.place
         /\ item.days = calculate_expiry(Rules, item.name, item.place)
         /\ item \in [id : Reqs, name : Name, place : Places, days : Int]
    <2>1. calculate_expiry(Rules, t.name, t.call.place) \in Int
      BY DatedRight
    <2>2. PICK days \in Int : days = calculate_expiry(Rules, t.name, t.call.place)
      BY <2>1
    <2>3. item = [id |-> r, name |-> t.name, place |-> t.call.place, days |-> days]
      BY <1>4, <2>2, Zenon
    <2>4. item.id = r /\ item.name = t.name /\ item.place = t.call.place /\ item.days = days
      BY <2>3
    <2>5. item \in [id : Reqs, name : Name, place : Places, days : Int]
      BY <1>2, <1>4, <1>9, <2>3
    <2> QED
      BY <2>2, <2>4, <2>5, Zenon
  <1>12. RightItem(item)'
    <2>1. PICK name, call, place : name = t.name /\ call = t.call /\ place = t.call.place
      OBVIOUS
    <2>2. NamedAfter(name, call)'
      BY <1>4, <1>6, <1>7, <1>9, <2>1 DEF NamedAfter
    <2>3. Is(r, "item")'
      BY <1>2, <1>4, <1>6, <1>7 DEF Is, Started
    <2>4. item.id = r /\ item.name = name /\ item.place = place
          /\ tx'[item.id].at = "store" /\ tx'[item.id].name = name /\ tx'[item.id].call = call
          /\ call.place = place
      BY <1>6, <1>7, <1>11, <2>1
    <2>5. NamedAfter(item.name, tx[item.id].call)'
      BY <2>2, <2>4 DEF NamedAfter
    <2>6. Is(item.id, "item")'
      BY <2>3, <2>4
    <2> QED
      BY <1>11, <2>4, <2>5, <2>6 DEF RightItem
  <1>13. ScanOf(r)' /\ PhotoOf(r)'
    BY <1>2, <1>4, <1>6, <1>7 DEF ScanOf, PhotoOf, Is
  <1>14. ItemOf(r)'
    <2>1. item \in items' /\ item.id = r
      BY <1>5, <1>11
    <2> QED
      BY <1>4, <1>6, <1>7, <1>8, <1>9, <2>1 DEF ItemOf, NamedAfter
  <1>15. CalmOf(r)'
    <2>1. u.at # "insert" /\ u.at # "upsert" /\ u.at # "done" /\ (u.calm => tx[r].calm)
      BY <1>4, <1>6
    <2> QED
      BY <1>1, <1>3, <1>5, <2>1, CalmMoves
  <1>16. /\ u.call = tx[r].call /\ u.at # "idle" /\ ((u.code # Null) <=> (u.at = "done"))
         /\ u.name = tx[r].name /\ tx[r].at # "store" /\ ~ u.fresh /\ ~ u.wrote
    BY <1>1, <1>2, <1>4, <1>6, <1>7
  <1>17. /\ items \subseteq items' /\ \A i \in items' \ items : RightItem(i)'
         /\ items' \subseteq [id : Reqs, name : Name, place : Places, days : Int]
    BY <1>5, <1>11, <1>12 DEF Fine, CatalogTypeOK
  <1> QED
    BY <1>1, <1>3, <1>5, <1>6, <1>10, <1>13, <1>14, <1>15, <1>16, <1>17, TableStep

----------------------------------------------------------------------------
(* A request is received: whatever it begins with, the others keep what    *)
(* they have.                                                              *)
Received(r, begun) ==
  tx' = [s \in Reqs |-> IF s = r THEN begun
           ELSE IF Running(s) THEN [tx[s] EXCEPT !.calm = FALSE] ELSE tx[s]]

LEMMA ReceivedOthers ==
  ASSUME Fine, NEW r \in Reqs, NEW u \in Tx, Received(r, u), NEW s \in Reqs \ {r}
  PROVE  /\ Beside(s) /\ tx'[s] \in Tx /\ tx'[s].at = tx[s].at
         /\ tx'[s].fresh = tx[s].fresh /\ tx'[s].wrote = tx[s].wrote
         /\ tx[s].at = "done" => tx'[s] = tx[s]
         /\ tx'[s].call = tx[s].call /\ tx'[s].name = tx[s].name
         /\ Running(s) => tx'[s].calm = FALSE
         /\ ~ Running(s) => tx'[s] = tx[s]
  <1>1. tx[s] \in Tx
    BY TxFields DEF Fine
  <1>2. CASE Running(s)
    <2>1. PICK t, v : t = tx[s] /\ v = [t EXCEPT !.calm = FALSE]
      OBVIOUS
    <2>2. tx'[s] = v
      BY <1>2, <2>1 DEF Received
    <2>3. /\ v \in Tx /\ v.at = t.at /\ v.fresh = t.fresh /\ v.wrote = t.wrote
          /\ v.call = t.call /\ v.name = t.name /\ v.calm = FALSE
      BY <1>1, <2>1 DEF Tx
    <2>4. tx[s].at # "done"
      BY <1>2 DEF Running
    <2>5. Beside(s)
      BY <1>2, <2>1, <2>2, Zenon DEF Beside
    <2> QED
      BY <1>2, <2>1, <2>2, <2>3, <2>4, <2>5
  <1>3. CASE ~ Running(s)
    <2>1. tx'[s] = tx[s]
      BY <1>3 DEF Received
    <2> QED
      BY <1>1, <1>3, <2>1 DEF Beside
  <1> QED
    BY <1>2, <1>3

LEMMA ReceiveStep ==
  ASSUME Fine, Quiet, NEW r \in Reqs, NEW u \in Tx, Received(r, u), tx[r].at = "idle",
         NEW c \in Calls, KeyDiscipline(r, c), \A s \in Reqs : s < r => tx[s].at # "idle",
         u.call = c, u.at # "idle", (u.code # Null) <=> (u.at = "done"), ~ u.fresh, ~ u.wrote,
         Onward => ScanOf(r)' /\ ItemOf(r)' /\ PhotoOf(r)', CalmOf(r)'
  PROVE  Fine'
  <1>1. /\ canonicals' = canonicals /\ products' = products /\ items' = items /\ files' = files
        /\ entries' = entries /\ up' = up
    BY DEF Quiet
  <1>2. tx'[r] = u
    BY DEF Received
  <1>3. Onward
    <2>1. ASSUME NEW s \in Reqs
          PROVE  /\ Started(s) => tx'[s].at # "idle" /\ tx'[s].call = tx[s].call
                 /\ Is(s, "item") => tx'[s].name = tx[s].name
                 /\ tx[s].at \in {"store", "done"} => tx'[s].at \in {"store", "done"}
                 /\ tx[s].at = "done" => tx'[s] = tx[s]
      <3>1. CASE s = r
        BY <3>1 DEF Started, Is
      <3>2. CASE s # r
        <4>1. /\ tx'[s].at = tx[s].at /\ tx'[s].call = tx[s].call /\ tx'[s].name = tx[s].name
              /\ tx[s].at = "done" => tx'[s] = tx[s]
          BY <3>2, ReceivedOthers
        <4> QED
          BY <4>1 DEF Started
      <3> QED
        BY <3>1, <3>2
    <2> QED
      BY <1>1, <2>1 DEF Onward
  <1>4. KeyOf(r)'
    <2>1. c.key \in Reqs
      BY CallFields
    <2>2. CASE c.key = r
      BY <1>2, <2>2 DEF KeyOf, Started
    <2>3. CASE c.key # r
      <3>1. c.key < r /\ tx[c.key].call = c /\ Started(c.key)
        BY <2>1, <2>3 DEF KeyDiscipline, Started
      <3>2. tx'[c.key].call = c /\ tx'[c.key].at # "idle"
        BY <1>3, <2>1, <3>1 DEF Onward
      <3> QED
        BY <1>2, <3>2 DEF KeyOf, Started
    <2> QED
      BY <2>2, <2>3
  <1>5. ASSUME NEW s \in Reqs \ {r}
        PROVE  KeyOf(s)' /\ ScanOf(s)' /\ ItemOf(s)' /\ PhotoOf(s)' /\ CalmOf(s)'
    <2>1. KeyOf(s)' /\ ScanOf(s)' /\ ItemOf(s)' /\ PhotoOf(s)'
      BY <1>3, <1>5, ReceivedOthers, OthersStay
    <2>2. CalmOf(s)'
      <3>1. CASE Running(s)
        BY <3>1, ReceivedOthers DEF CalmOf
      <3>2. CASE ~ Running(s)
        <4>1. tx'[s] = tx[s]
          BY <3>2, ReceivedOthers
        <4> QED
          BY <3>2, <4>1 DEF Fine, CatalogInv, CalmOf, Running, Acked
      <3> QED
        BY <3>1, <3>2
    <2> QED
      BY <2>1, <2>2
  <1>6. CatalogTypeOK'
    <2>1. tx' \in [Reqs -> Tx]
      <3>1. \A s \in Reqs : tx'[s] \in Tx
        BY <1>2, ReceivedOthers
      <3>2. tx' = [s \in Reqs |-> tx'[s]]
        BY DEF Received
      <3> QED
        BY <3>1, <3>2
    <2>2. ASSUME NEW s \in Reqs
          PROVE  /\ tx'[s].fresh => tx'[s].at \in {"row", "upsert", "commit", "add"}
                 /\ tx'[s].wrote => tx'[s].at = "commit"
      <3>1. CASE s = r
        BY <1>2, <3>1
      <3>2. CASE s # r
        <4>1. /\ tx'[s].at = tx[s].at /\ tx'[s].fresh = tx[s].fresh /\ tx'[s].wrote = tx[s].wrote
          BY <3>2, ReceivedOthers
        <4>2. /\ tx[s].fresh => tx[s].at \in {"row", "upsert", "commit", "add"}
              /\ tx[s].wrote => tx[s].at = "commit"
          BY DEF Fine, CatalogTypeOK
        <4> QED
          BY <4>1, <4>2
      <3> QED
        BY <3>1, <3>2
    <2> QED
      BY <1>1, <2>1, <2>2 DEF Fine, CatalogTypeOK
  <1>7. EntriesInv'
    BY <1>1, <1>3, EntryStays DEF EntriesInv
  <1>8. \A i \in items' : RightItem(i)'
    BY <1>1, <1>3, ItemStays
  <1>9. \A s \in files' : Started(s)'
    BY <1>1, <1>3 DEF Fine, CatalogInv, CatalogTypeOK, Started, Onward
  <1>10. \A s \in Reqs : (KeyOf(s) /\ ScanOf(s) /\ ItemOf(s) /\ PhotoOf(s) /\ CalmOf(s))'
    BY <1>3, <1>4, <1>5
  <1> QED
    BY <1>6, <1>7, <1>8, <1>9, <1>10 DEF Fine, CatalogInv


LEMMA StartsBadly ==
  ASSUME Fine, Quiet, NEW r \in Reqs, NEW u \in Tx, Received(r, u), tx[r].at = "idle",
         NEW c \in Calls, KeyDiscipline(r, c), \A s \in Reqs : s < r => tx[s].at # "idle",
         u.call = c, u.at = "done", u.code \in {"403", "500"}, ~ u.fresh, ~ u.wrote,
         u.told = {}, u.name = Null,
         u.calm => u.code = "403" /\ c.user \notin Allowed
  PROVE  Fine'
  <1>1. tx'[r] = u
    BY DEF Received
  <1>2. u.code # Null
    BY NullIsNoCode DEF Codes
  <1>3. ScanOf(r)' /\ ItemOf(r)' /\ PhotoOf(r)'
    BY <1>1 DEF ScanOf, ItemOf, PhotoOf, Running, Acked
  <1>4. CalmOf(r)'
    BY <1>1, SMTT(30) DEF CalmOf, Running
  <1> QED
    BY <1>2, <1>3, <1>4, ReceiveStep

(* The request whose answer is replayed sent the same call.                *)
LEMMA SameCall ==
  ASSUME Fine, NEW r \in Reqs, tx[r].at = "idle", NEW c \in Calls, KeyDiscipline(r, c),
         _scoped_key(c) \in DOMAIN entries, NEW o, o = entries[_scoped_key(c)]
  PROVE  o \in Reqs /\ tx[o].code = "200" /\ Acked(o) /\ Started(o) /\ tx[o].at = "done" /\ tx[o].call = c
  <1>1. o \in Reqs /\ tx[o].code = "200" /\ _scoped_key(c) = _scoped_key(tx[o].call)
    BY DEF Fine, CatalogInv, EntriesInv, CatalogTypeOK
  <1>2. Acked(o) /\ Started(o) /\ tx[o].at = "done"
    BY <1>1, AckedIsDone DEF Acked
  <1>3. /\ Started(tx[o].call.key) /\ tx[tx[o].call.key].call = tx[o].call
    BY <1>1, <1>2, SMTT(30) DEF Fine, CatalogInv, KeyOf
  <1>4. tx[o].call.key = c.key
    BY <1>1 DEF _scoped_key
  <1>5. c.key # r
    BY <1>3, <1>4 DEF Started
  <1> QED
    BY <1>1, <1>2, <1>3, <1>4, <1>5 DEF KeyDiscipline

LEMMA StartsAgain ==
  ASSUME Fine, Quiet, NEW r \in Reqs, NEW u \in Tx, Received(r, u), tx[r].at = "idle",
         NEW c \in Calls, KeyDiscipline(r, c), \A s \in Reqs : s < r => tx[s].at # "idle",
         NEW o \in Reqs, Acked(o), tx[o].call = c,
         u.call = c, u.at = "done", u.code = "replay", ~ u.fresh, ~ u.wrote,
         u.told = tx[o].told, u.name = tx[o].name
  PROVE  Fine'
  <1>1. /\ tx'[r] = u /\ canonicals' = canonicals /\ products' = products
        /\ items' = items /\ files' = files
    BY DEF Received, Quiet
  <1>2. u.code # Null
    BY NullIsNoCode DEF Codes
  <1>3. Started(o) /\ tx[o].at = "done" /\ ScanOf(o) /\ ItemOf(o) /\ PhotoOf(o)
    BY AckedIsDone DEF Fine, CatalogInv
  <1>4. ScanOf(r)'
    <2> SUFFICES ASSUME c.op = "barcode" PROVE ScanOf(r)'
      BY <1>1 DEF ScanOf, Is
    <2>1. Is(o, "barcode")
      BY <1>3 DEF Is
    <2>2. CASE u.told = {}
      BY <1>1, <1>3, <2>1, <2>2 DEF ScanOf
    <2>3. CASE u.told # {}
      <3>1. /\ \E name \in u.told : u.told = {name} /\ u.name = normalize_ingredient_name(name)
            /\ products[c.barcode] # Null /\ u.name \in canonicals
        BY <1>3, <2>1, <2>3 DEF ScanOf
      <3> QED
        BY <1>1, <2>3, <3>1 DEF ScanOf
    <2> QED
      BY <2>2, <2>3
  <1>5. ASSUME Onward, c.op = "item" PROVE ItemOf(r)'
    <2>1. /\ NamedAfter(tx[o].name, c)
          /\ \E i \in items : i.name = tx[o].name /\ tx[i.id].call = c
      BY <1>3, <1>5 DEF ItemOf, Is
    <2>2. PICK i \in items : i.name = tx[o].name /\ tx[i.id].call = c
      BY <2>1
    <2>3. i.id \in Reqs /\ Started(i.id)
      BY <2>2 DEF Fine, CatalogInv, RightItem, CatalogTypeOK, Is
    <2>4. tx'[i.id].call = c /\ i \in items'
      BY <1>1, <1>5, <2>2, <2>3 DEF Onward
    <2>5. c.from \in Reqs
      BY <1>5, CallFields
    <2>6. PICK name : name = tx[o].name
      OBVIOUS
    <2>7. NamedAfter(name, c)'
      BY <1>5, <2>1, <2>5, <2>6, NamedStays
    <2>8. tx'[r].name = name /\ tx'[r].call = c /\ tx'[r].at = "done" /\ i.name = name
      BY <1>1, <2>2, <2>6
    <2>9. NamedAfter(tx[r].name, tx[r].call)'
      BY <2>7, <2>8 DEF NamedAfter
    <2> QED
      BY <2>4, <2>8, <2>9 DEF ItemOf
  <1>6. ASSUME Onward PROVE PhotoOf(r)'
    <2>1. ASSUME c.op = "upload" PROVE \E f \in files' : tx'[f].call = c
      <3>1. PICK f \in files : tx[f].call = c
        BY <1>3, <2>1 DEF PhotoOf, Is
      <3>2. f \in Reqs /\ Started(f)
        BY <3>1 DEF Fine, CatalogInv, CatalogTypeOK
      <3> QED
        BY <1>1, <1>6, <3>1, <3>2 DEF Onward
    <2> QED
      BY <1>1, <2>1 DEF PhotoOf, Is
  <1>7. Onward => ItemOf(r)'
    <2>1. c.op # "item" => ItemOf(r)'
      BY <1>1 DEF ItemOf, Is
    <2> QED
      BY <1>5, <2>1
  <1>8. CalmOf(r)'
    BY <1>1 DEF CalmOf, Running, Acked
  <1> QED
    BY <1>2, <1>4, <1>6, <1>7, <1>8, ReceiveStep

LEMMA StartsFresh ==
  ASSUME Fine, Quiet, NEW r \in Reqs, NEW u \in Tx, Received(r, u), tx[r].at = "idle",
         NEW c \in Calls, KeyDiscipline(r, c), \A s \in Reqs : s < r => tx[s].at # "idle",
         u.call = c, u.at = FirstStep[c.op], u.code = Null, ~ u.fresh, ~ u.wrote, u.told = {},
         c.op # "item" => u.name = Null,
         c.op = "item" => NamedAfter(u.name, c),
         u.calm => up /\ \A s \in Reqs \ {r} : ~ Running(s)
  PROVE  Fine'
  <1>1. tx'[r] = u /\ up' = up
    BY DEF Received, Quiet
  <1>2. c.op \in {"barcode", "photo", "upload", "item"}
    BY CallFields
  <1>3. /\ c.op = "barcode" => u.at = "lookup"
        /\ c.op = "item" => u.at = "select"
        /\ c.op = "photo" => u.at = "parse"
        /\ c.op = "upload" => u.at = "upload"
    BY DEF FirstStep
  <1>4. u.at \in {"lookup", "select", "parse", "upload"}
    BY <1>2, <1>3
  <1>5. ~ Acked(r)'
    BY <1>1, NullIsNoCode DEF Acked, Codes
  <1>6. ScanOf(r)'
    BY <1>1, <1>3 DEF ScanOf, Is
  <1>7. ASSUME Onward, c.op = "item" PROVE ItemOf(r)'
    <2>1. c.from \in Reqs
      BY <1>7, CallFields
    <2>2. PICK name : name = u.name
      OBVIOUS
    <2>3. NamedAfter(name, c)'
      BY <1>7, <2>1, <2>2, NamedStays
    <2>4. tx'[r].name = name /\ tx'[r].call = c /\ tx'[r].at = "select"
      BY <1>1, <1>3, <1>7, <2>2
    <2>5. NamedAfter(tx[r].name, tx[r].call)'
      BY <2>3, <2>4 DEF NamedAfter
    <2> QED
      BY <1>5, <2>4, <2>5 DEF ItemOf
  <1>8. Onward => ItemOf(r)'
    <2>1. c.op # "item" => ItemOf(r)'
      BY <1>1 DEF ItemOf, Is
    <2> QED
      BY <1>7, <2>1
  <1>9. PhotoOf(r)'
    BY <1>1, <1>3, <1>5 DEF PhotoOf, Is
  <1>10. CalmOf(r)'
    <2>1. \A s \in Reqs \ {r} : Running(s)' <=> Running(s)
      BY ReceivedOthers DEF Running
    <2> QED
      BY <1>1, <1>4, <2>1 DEF CalmOf
  <1> QED
    BY <1>4, <1>6, <1>8, <1>9, <1>10, <1>1, ReceiveStep

(* A new request: it goes to work only if there is no answer for it.       *)
Begins(r, c) ==
  /\ tx'[r].call = c /\ tx'[r].at # "idle" /\ tx'[r].code # "200"
  /\ tx'[r].at # "done" => _scoped_key(c) \notin DOMAIN entries
  /\ \A s \in Reqs \ {r} : /\ tx'[s].at = tx[s].at /\ tx'[s].call = tx[s].call
                           /\ tx[s].at = "done" => tx'[s] = tx[s]

LEMMA ReceiveKeeps ==
  ASSUME Fine, NEW r \in Reqs, NEW c \in Calls, Receive(r, c)
  PROVE  Fine' /\ Begins(r, c)
  <1> DEFINE others == {s \in Reqs \ {r} : Running(s)}
             start == [Idle EXCEPT !.call = c, !.calm = (others = {} /\ up)]
             origin == tx[entries[_scoped_key(c)]]
             Begun(name) ==
               IF ~ _check_photo_scan_allowlist(c) THEN Ended(start, "403")
               ELSE IF get_cached(c) = "raises" THEN Ended(start, "500")
               ELSE IF get_cached(c) = "hit" THEN [Ended(start, "replay") EXCEPT !.told = origin.told, !.name = origin.name]
               ELSE [start EXCEPT !.at = FirstStep[c.op],
                       !.name = IF c.op = "item" THEN normalize_ingredient_name(name) ELSE Null]
  <1>1. /\ Quiet /\ tx[r].at = "idle" /\ \A s \in Reqs : s < r => tx[s].at # "idle"
        /\ KeyDiscipline(r, c) /\ Knows(c)
    BY ZenonT(40) DEF Receive, Quiet
  <1>2. PICK name \in IF c.op = "item" THEN tx[c.from].told ELSE {Null} : Received(r, Begun(name))
    BY DEF Receive, Received
  <1>3. PICK a : a = start
    OBVIOUS
  <1>4. PICK b \in BOOLEAN : b = (others = {} /\ up)
    BY Zenon
  <1>5. /\ a \in Tx /\ a.call = c /\ a.told = {} /\ a.name = Null
        /\ ~ a.fresh /\ ~ a.wrote /\ a.code = Null /\ a.loaded = Null /\ a.calm = b
    <2>1. a = [Idle EXCEPT !.call = c, !.calm = b]
      BY <1>3, <1>4, Zenon
    <2>2. c \in Calls /\ b \in BOOLEAN
      BY <1>4
    <2> HIDE DEF start
    <2> QED
      BY <2>1, <2>2 DEF Idle, Tx, Stages
  <1>6. /\ a.calm => up
        /\ a.calm => \A s \in Reqs \ {r} : ~ Running(s)
    BY <1>4, <1>5, ZenonT(40)
  <1>7. PICK u : u = Begun(name)
    OBVIOUS
  <1>8. Received(r, u)
    BY <1>2, <1>7
  <1>14. ASSUME u \in Tx, u.call = c, u.at # "idle", u.code # "200",
                u.at # "done" => _scoped_key(c) \notin DOMAIN entries
         PROVE  Begins(r, c)
    <2>1. tx'[r] = u
      BY <1>8 DEF Received
    <2>2. \A s \in Reqs \ {r} : /\ tx'[s].at = tx[s].at /\ tx'[s].call = tx[s].call
                                /\ tx[s].at = "done" => tx'[s] = tx[s]
      BY <1>8, <1>14, ReceivedOthers
    <2>3. tx'[r].call = c /\ tx'[r].at # "idle" /\ tx'[r].code # "200"
      BY <1>14, <2>1
    <2>4. tx'[r].at # "done" => _scoped_key(c) \notin DOMAIN entries
      BY <1>14, <2>1
    <2> QED
      BY <2>2, <2>3, <2>4 DEF Begins
  <1>9. CASE ~ _check_photo_scan_allowlist(c)
    <2>1. u = Ended(a, "403")
      BY <1>3, <1>7, <1>9
    <2>2. "403" \in Codes
      BY DEF Codes
    <2>3. /\ u \in Tx /\ u.at = "done" /\ u.code = "403" /\ ~ u.fresh /\ ~ u.wrote
          /\ u.call = a.call /\ u.told = a.told /\ u.name = a.name
      BY <1>5, <2>1, <2>2, EndedFields
    <2>4. c.user \notin Allowed
      BY <1>9 DEF _check_photo_scan_allowlist
    <2> QED
      BY <1>1, <1>5, <1>8, <1>14, <2>3, <2>4, StartsBadly
  <1>10. CASE _check_photo_scan_allowlist(c) /\ get_cached(c) = "raises"
    <2>1. u = Ended(a, "500")
      BY <1>3, <1>7, <1>10
    <2>2. "500" \in Codes
      BY DEF Codes
    <2>3. /\ u \in Tx /\ u.at = "done" /\ u.code = "500" /\ ~ u.fresh /\ ~ u.wrote
          /\ u.call = a.call /\ u.told = a.told /\ u.name = a.name /\ (u.calm => a.calm)
      BY <1>5, <2>1, <2>2, EndedFields
    <2>4. ~ up
      BY <1>10 DEF get_cached
    <2> QED
      BY <1>1, <1>5, <1>6, <1>8, <1>14, <2>3, <2>4, StartsBadly
  <1>11. CASE _check_photo_scan_allowlist(c) /\ get_cached(c) = "hit"
    <2>1. PICK o : o = entries[_scoped_key(c)]
      OBVIOUS
    <2>2. _scoped_key(c) \in DOMAIN entries
      BY <1>11 DEF get_cached
    <2>3. o \in Reqs /\ Acked(o) /\ tx[o].call = c
      BY <1>1, <2>1, <2>2, SameCall
    <2>4. PICK e : e = Ended(a, "replay")
      OBVIOUS
    <2>5. "replay" \in Codes
      BY DEF Codes
    <2>6. /\ e \in Tx /\ e.at = "done" /\ e.code = "replay" /\ ~ e.fresh /\ ~ e.wrote /\ e.call = a.call
      BY <1>5, <2>4, <2>5, EndedFields
    <2>7. PICK told, called : told = tx[o].told /\ called = tx[o].name
      OBVIOUS
    <2>8. told \in SUBSET Name /\ called \in Name \cup {Null}
      BY <2>3, <2>7, TxFields DEF Fine
    <2>9. u = [e EXCEPT !.told = told, !.name = called]
      BY <1>3, <1>7, <1>11, <2>1, <2>4, <2>7
    <2>10. /\ u \in Tx /\ u.at = "done" /\ u.code = "replay" /\ ~ u.fresh /\ ~ u.wrote /\ u.call = c
           /\ u.told = tx[o].told /\ u.name = tx[o].name
      BY <1>5, <2>6, <2>7, <2>8, <2>9 DEF Tx
    <2> QED
      BY <1>1, <1>8, <1>14, <2>3, <2>10, StartsAgain
  <1>12. CASE _check_photo_scan_allowlist(c) /\ get_cached(c) = "miss"
    <2>1. PICK at, called : at = FirstStep[c.op]
                            /\ called = IF c.op = "item" THEN normalize_ingredient_name(name) ELSE Null
      OBVIOUS
    <2>2. u = [a EXCEPT !.at = at, !.name = called]
      BY <1>3, <1>7, <1>12, <2>1
    <2>3. c.op \in {"barcode", "photo", "upload", "item"}
      BY CallFields
    <2>4. at \in Stages
      BY <2>1, <2>3 DEF FirstStep, Stages
    <2>5. c.op = "item" => called \in Name /\ NamedAfter(called, c)
      <3> SUFFICES ASSUME c.op = "item" PROVE called \in Name /\ NamedAfter(called, c)
        OBVIOUS
      <3>1. name \in tx[c.from].told /\ Acked(c.from) /\ c.from \in Reqs
        BY <1>1, <1>2, CallFields DEF Knows, Acked
      <3>2. name \in Name
        BY <3>1, TxFields DEF Fine
      <3> QED
        BY <2>1, <3>1, <3>2, NormalizedIsName DEF NamedAfter
    <2>6. c.op # "item" => called = Null
      BY <2>1
    <2>7. /\ u \in Tx /\ u.at = at /\ u.name = called /\ u.call = c /\ u.code = Null /\ ~ u.fresh
          /\ ~ u.wrote /\ u.told = {} /\ u.calm = a.calm
      BY <1>5, <2>2, <2>4, <2>5, <2>6 DEF Tx
    <2>8. _scoped_key(c) \notin DOMAIN entries /\ at # "idle" /\ u.code # "200"
      BY <1>12, <2>1, <2>3, <2>7, NullIsNoCode DEF get_cached, FirstStep, Codes
    <2> QED
      BY <1>1, <1>6, <1>8, <1>14, <2>1, <2>5, <2>6, <2>7, <2>8, StartsFresh
  <1>13. get_cached(c) \in {"raises", "hit", "miss"}
    BY DEF get_cached
  <1> QED
    BY <1>9, <1>10, <1>11, <1>12, <1>13


----------------------------------------------------------------------------
(* Steps beside the requests: an outage, its end, an answer forgotten.     *)
LEMMA AsideKeeps ==
  ASSUME Fine, UNCHANGED <<canonicals, products, items, files>>, up' \in BOOLEAN,
         tx' = [s \in Reqs |-> tx'[s]],
         DOMAIN entries' \subseteq DOMAIN entries,
         \A key \in DOMAIN entries' : entries'[key] = entries[key],
         \A s \in Reqs : Beside(s) /\ CalmOf(s)'
  PROVE  Fine'
  <1>1. ASSUME NEW s \in Reqs
        PROVE  /\ tx'[s] \in Tx /\ tx'[s].at = tx[s].at /\ tx'[s].call = tx[s].call
               /\ tx'[s].fresh = tx[s].fresh /\ tx'[s].wrote = tx[s].wrote
               /\ tx'[s].name = tx[s].name /\ (tx[s].at = "done" => tx'[s] = tx[s])
    <2>1. tx[s] \in Tx
      BY TxFields DEF Fine
    <2>2. CASE Running(s) /\ tx'[s] = [tx[s] EXCEPT !.calm = FALSE]
      <3>1. PICK t, v : t = tx[s] /\ v = [t EXCEPT !.calm = FALSE]
        OBVIOUS
      <3>2. /\ v \in Tx /\ v.at = t.at /\ v.call = t.call /\ v.fresh = t.fresh
            /\ v.wrote = t.wrote /\ v.name = t.name
        BY <2>1, <3>1 DEF Tx
      <3> QED
        BY <2>2, <3>1, <3>2 DEF Running
    <2>3. CASE tx'[s] = tx[s]
      BY <2>1, <2>3
    <2> QED
      BY <2>2, <2>3 DEF Beside
  <1>2. Onward
    <2>1. ASSUME NEW s \in Reqs
          PROVE  /\ Started(s) => tx'[s].at # "idle" /\ tx'[s].call = tx[s].call
                 /\ Is(s, "item") => tx'[s].name = tx[s].name
                 /\ tx[s].at \in {"store", "done"} => tx'[s].at \in {"store", "done"}
                 /\ tx[s].at = "done" => tx'[s] = tx[s]
      BY <1>1 DEF Started
    <2> QED
      BY <2>1 DEF Onward
  <1>3. \A s \in Reqs : (KeyOf(s) /\ ScanOf(s) /\ ItemOf(s) /\ PhotoOf(s) /\ CalmOf(s))'
    BY <1>2, OthersStay
  <1>4. CatalogTypeOK'
    <2>1. tx' \in [Reqs -> Tx]
      BY <1>1
    <2>2. \A s \in Reqs : /\ tx'[s].fresh => tx'[s].at \in {"row", "upsert", "commit", "add"}
                          /\ tx'[s].wrote => tx'[s].at = "commit"
      <3>1. \A s \in Reqs : /\ tx[s].fresh => tx[s].at \in {"row", "upsert", "commit", "add"}
                            /\ tx[s].wrote => tx[s].at = "commit"
        BY DEF Fine, CatalogTypeOK
      <3> QED
        BY <1>1, <3>1
    <2>3. \A key \in DOMAIN entries' : entries'[key] \in Reqs
      BY DEF Fine, CatalogTypeOK
    <2> QED
      BY <2>1, <2>2, <2>3 DEF Fine, CatalogTypeOK
  <1>5. EntriesInv'
    <2> SUFFICES ASSUME NEW key \in DOMAIN entries'
                 PROVE  tx'[entries'[key]].code = "200" /\ key = _scoped_key(tx'[entries'[key]].call)
      BY DEF EntriesInv
    <2>1. key \in DOMAIN entries /\ entries'[key] = entries[key]
      OBVIOUS
    <2>2. tx'[entries[key]].code = "200" /\ key = _scoped_key(tx'[entries[key]].call)
      BY <1>2, <2>1, EntryStays
    <2> QED
      BY <2>1, <2>2
  <1>6. \A i \in items' : RightItem(i)'
    BY <1>2, ItemStays
  <1>7. \A s \in files' : Started(s)'
    BY <1>2 DEF Fine, CatalogInv, CatalogTypeOK, Started, Onward
  <1> QED
    BY <1>3, <1>4, <1>5, <1>6, <1>7 DEF Fine, CatalogInv

LEMMA TxIsFunction ==
  ASSUME Fine
  PROVE  tx = [s \in Reqs |-> tx[s]]
  BY DEF Fine, CatalogTypeOK

LEMMA OutageKeeps ==
  ASSUME Fine, Outage
  PROVE  Fine'
  <1>1. /\ UNCHANGED <<canonicals, products, items, files>> /\ entries' = entries /\ up' \in BOOLEAN
        /\ tx' = [s \in Reqs |-> IF Running(s) THEN [tx[s] EXCEPT !.calm = FALSE] ELSE tx[s]]
    BY DEF Outage
  <1>2. ASSUME NEW s \in Reqs
        PROVE  Beside(s) /\ CalmOf(s)'
    <2>1. CASE Running(s)
      <3>1. PICK t, v : t = tx[s] /\ v = [t EXCEPT !.calm = FALSE]
        OBVIOUS
      <3>2. tx'[s] = v
        BY <1>1, <2>1, <3>1
      <3>3. v.calm = FALSE
        <4>1. t \in Tx
          BY <3>1, TxFields DEF Fine
        <4> QED
          BY <3>1, <4>1 DEF Tx
      <3>4. Beside(s)
        BY <2>1, <3>1, <3>2, Zenon DEF Beside
      <3> QED
        BY <3>2, <3>3, <3>4 DEF CalmOf
    <2>2. CASE ~ Running(s)
      <3>1. tx'[s] = tx[s]
        BY <1>1, <2>2
      <3>2. CalmOf(s)
        BY DEF Fine, CatalogInv
      <3> QED
        BY <1>1, <2>2, <3>1, <3>2 DEF Beside, CalmOf, Running, Acked
    <2> QED
      BY <2>1, <2>2
  <1>3. tx' = [s \in Reqs |-> tx'[s]]
    BY <1>1
  <1> QED
    BY <1>1, <1>2, <1>3, AsideKeeps

LEMMA ReturnKeeps ==
  ASSUME Fine, Return
  PROVE  Fine'
  <1>1. /\ UNCHANGED <<canonicals, products, items, files>> /\ entries' = entries /\ up' = TRUE
        /\ tx' = tx
    BY DEF Return
  <1>2. ASSUME NEW s \in Reqs
        PROVE  Beside(s) /\ CalmOf(s)'
    <2>1. CalmOf(s)
      BY DEF Fine, CatalogInv
    <2> QED
      BY <1>1, <2>1 DEF Beside, CalmOf, Running, Acked
  <1>3. tx' = [s \in Reqs |-> tx'[s]]
    BY <1>1, TxIsFunction
  <1> QED
    BY <1>1, <1>2, <1>3, AsideKeeps

LEMMA ExpireKeeps ==
  ASSUME Fine, NEW key, Expire(key)
  PROVE  Fine'
  <1>1. /\ UNCHANGED <<canonicals, products, items, files>> /\ up' = up /\ tx' = tx
        /\ entries' = [k \in DOMAIN entries \ {key} |-> entries[k]]
    BY DEF Expire
  <1>2. ASSUME NEW s \in Reqs
        PROVE  Beside(s) /\ CalmOf(s)'
    <2>1. CalmOf(s)
      BY DEF Fine, CatalogInv
    <2> QED
      BY <1>1, <2>1 DEF Beside, CalmOf, Running, Acked
  <1>3. tx' = [s \in Reqs |-> tx'[s]]
    BY <1>1, TxIsFunction
  <1>4. /\ DOMAIN entries' \subseteq DOMAIN entries
        /\ \A k \in DOMAIN entries' : entries'[k] = entries[k]
    BY <1>1
  <1>5. up' \in BOOLEAN
    BY <1>1 DEF Fine, CatalogTypeOK
  <1> QED
    BY <1>1, <1>2, <1>3, <1>4, <1>5, AsideKeeps

LEMMA StillKeeps ==
  ASSUME Fine, UNCHANGED catalog
  PROVE  Fine'
  <1>1. /\ canonicals' = canonicals /\ products' = products /\ items' = items /\ files' = files
        /\ entries' = entries /\ up' = up /\ tx' = tx
    BY DEF catalog
  <1>2. ASSUME NEW s \in Reqs
        PROVE  Beside(s) /\ CalmOf(s)'
    <2>1. CalmOf(s)
      BY DEF Fine, CatalogInv
    <2> QED
      BY <1>1, <2>1 DEF Beside, CalmOf, Running, Acked
  <1>3. tx' = [s \in Reqs |-> tx'[s]]
    BY <1>1, TxIsFunction
  <1>4. up' \in BOOLEAN
    BY <1>1 DEF Fine, CatalogTypeOK
  <1> QED
    BY <1>1, <1>2, <1>3, <1>4, AsideKeeps

----------------------------------------------------------------------------
LEMMA CatalogInitIsFine ==
  ASSUME CatalogInit
  PROVE  Fine
  <1>1. /\ canonicals = {} /\ products = [b \in Barcodes |-> Null] /\ items = {} /\ files = {}
        /\ entries = <<>> /\ up = TRUE /\ tx = [r \in Reqs |-> Idle]
    BY DEF CatalogInit
  <1>2. DOMAIN entries = {}
    BY <1>1
  <1>3. Idle \in Tx /\ Idle.at = "idle" /\ ~ Idle.fresh /\ ~ Idle.wrote /\ Idle.code = Null
    BY DEF Idle, Tx, Stages
  <1>4. \A r \in Reqs : tx[r] = Idle
    BY <1>1
  <1>5. CatalogTypeOK
    BY <1>1, <1>2, <1>3, <1>4 DEF CatalogTypeOK
  <1>6. ASSUME NEW r \in Reqs
        PROVE  KeyOf(r) /\ ScanOf(r) /\ ItemOf(r) /\ PhotoOf(r) /\ CalmOf(r)
    <2>1. ~ Started(r) /\ ~ Running(r)
      BY <1>3, <1>4 DEF Started, Running
    <2> QED
      BY <1>3, <1>4, <2>1 DEF KeyOf, ScanOf, ItemOf, PhotoOf, CalmOf, Is
  <1>7. EntriesInv /\ (\A i \in items : RightItem(i)) /\ (\A s \in files : Started(s))
    BY <1>1, <1>2 DEF EntriesInv
  <1> QED
    BY <1>5, <1>6, <1>7 DEF Fine, CatalogInv

LEMMA CatalogNextKeeps ==
  ASSUME Fine, CatalogNext
  PROVE  Fine'
  <1>1. ASSUME NEW r \in Reqs, NEW c \in Calls, Receive(r, c) PROVE Fine'
    BY <1>1, ReceiveKeeps
  <1>2. ASSUME NEW r \in Reqs, Step(r) PROVE Fine'
    <2>1. CASE lookup_barcode(r)
      BY <2>1, LookupKeeps
    <2>2. CASE parse_image(r)
      BY <2>2, ParseKeeps
    <2>3. CASE upload_photo(r)
      BY <2>3, UploadKeeps
    <2>4. CASE resolve_canonical(r)
      BY <2>4, FindCanonicalKeeps, InsertCanonicalKeeps DEF resolve_canonical
    <2>5. CASE _upsert_product_barcode(r)
      BY <2>5, FindBarcodeKeeps, WriteBarcodeKeeps DEF _upsert_product_barcode
    <2>6. CASE scan_barcode(r)
      BY <2>6, ScanKeeps
    <2>7. CASE create_item(r)
      BY <2>7, CreateKeeps
    <2>8. CASE store_cached(r)
      BY <2>8, StoreKeeps
    <2> QED
      BY <1>2, <2>1, <2>2, <2>3, <2>4, <2>5, <2>6, <2>7, <2>8 DEF Step
  <1>3. ASSUME NEW r \in Reqs, Die(r) PROVE Fine'
    BY <1>3, DieKeeps
  <1> QED
    BY <1>1, <1>2, <1>3, OutageKeeps, ReturnKeeps, ExpireKeeps DEF CatalogNext


----------------------------------------------------------------------------
(* Types, and the invariant of requests, answers and items, hold in every  *)
(* state of the catalog, a suggestion running or not.                      *)
THEOREM CatalogInvariantHolds == Spec => [](CatalogTypeOK /\ CatalogInv)
  <1>1. Init => Fine
    BY CatalogInitIsFine DEF Init
  <1>2. Fine /\ [Next]_vars => Fine'
    BY CatalogNextKeeps, StillKeeps DEF Next, vars
  <1> QED
    BY <1>1, <1>2, PTL DEF Spec, Fine

----------------------------------------------------------------------------
(* The invariant behind AddedOnce: requests come in order, an answer with  *)
(* success is stored until it expires, and who is at work under a key      *)
(* before which there was another with it found no answer to that one.     *)
NotAnswered(s, r) ==
  s < r /\ Started(r) /\ tx[s].call = tx[r].call /\ (Running(r) \/ \E i \in items : i.id = r)
    => _scoped_key(tx[r].call) \in excused \/ (~ Running(s) /\ tx[s].code # "200")

RepeatsInv ==
  /\ \A s, r \in Reqs : s < r /\ Started(r) => Started(s)
  /\ \A r \in Reqs : tx[r].code = "200" => _scoped_key(tx[r].call) \in DOMAIN entries \cup excused
  /\ \A s, r \in Reqs : NotAnswered(s, r)

(* What a step of a running request does to the others and to the answers. *)
Alone(r) ==
  /\ \A s \in Reqs \ {r} : tx'[s] = tx[s]
  /\ tx'[r].call = tx[r].call /\ tx'[r].at # "idle"
  /\ \A i \in items' : i \in items \/ i.id = r
  /\ DOMAIN entries \subseteq DOMAIN entries' /\ excused' = excused
  /\ tx'[r].code = "200" => _scoped_key(tx[r].call) \in DOMAIN entries'

LEMMA AloneIs ==
  ASSUME Fine, NEW r \in Reqs, NEW u, tx' = [tx EXCEPT ![r] = u], excused' = excused,
         u.call = tx[r].call, u.at # "idle", u.code # "200",
         entries' = entries, \A i \in items' : i \in items \/ i.id = r
  PROVE  Alone(r)
  <1>1. tx'[r] = u /\ \A s \in Reqs \ {r} : tx'[s] = tx[s]
    BY DEF Fine, CatalogTypeOK
  <1> QED
    BY <1>1 DEF Alone

LEMMA StepRuns ==
  ASSUME NEW r, Step(r) \/ Die(r)
  PROVE  Running(r)
  BY DEF Step, Die, lookup_barcode, parse_image, upload_photo, upload, generate_signed_url, resolve_canonical,
         FindCanonical, InsertCanonical, _upsert_product_barcode, FindBarcode, WriteBarcode, scan_barcode,
         create_item, store_cached, Running

LEMMA StepAlone ==
  ASSUME Fine, NEW r \in Reqs, Step(r) \/ Die(r)
  PROVE  Alone(r)
  <1>1. Running(r)
    BY StepRuns
  <1>2. PICK t : t = tx[r]
    OBVIOUS
  <1>3. t \in Tx /\ t.code = Null /\ t.code # "200" /\ tx \in [Reqs -> Tx]
    BY <1>1, <1>2, RunningIs, NullIsNoCode DEF Fine, CatalogTypeOK, Codes
  <1>4. ASSUME NEW at, at # "idle", Goto(r, at), items' = items /\ entries' = entries /\ excused' = excused
        PROVE  Alone(r)
    <2>1. PICK u : u = [t EXCEPT !.at = at]
      OBVIOUS
    <2>2. u.call = t.call /\ u.at # "idle" /\ u.code # "200" /\ tx' = [tx EXCEPT ![r] = u]
      BY <1>2, <1>3, <1>4, <2>1 DEF Goto, Tx
    <2> QED
      BY <1>2, <1>4, <2>2, AloneIs
  <1>5. ASSUME NEW code \in Codes \ {"200"}, items' = items /\ entries' = entries /\ excused' = excused, NEW u, tx' = [tx EXCEPT ![r] = u],
               u = Ended(t, code) \/ u = [Ended(t, code) EXCEPT !.calm = FALSE]
        PROVE  Alone(r)
    <2>1. u.call = t.call /\ u.at # "idle" /\ u.code # "200"
      BY <1>3, <1>5, EndedFields
    <2> QED
      BY <1>2, <1>5, <2>1, AloneIs
  <1>6. ASSUME NEW code \in {"422", "500", "failed"}, Fails(r, code), items' = items /\ entries' = entries
        PROVE  Alone(r)
    <2>1. PICK u : u = [Ended(t, code) EXCEPT !.calm = FALSE]
      OBVIOUS
    <2>2. tx' = [tx EXCEPT ![r] = u] /\ excused' = excused
      BY <1>2, <1>6, <2>1 DEF Fails, Trouble
    <2> QED
      BY <1>5, <1>6, <2>1, <2>2 DEF Codes
  <1>7. ASSUME NEW code \in Codes \ {"200"}, End(r, code), items' = items /\ entries' = entries /\ excused' = excused
        PROVE  Alone(r)
    <2>1. PICK u : u = Ended(t, code)
      OBVIOUS
    <2>2. tx' = [tx EXCEPT ![r] = u]
      BY <1>2, <1>7, <2>1 DEF End
    <2> QED
      BY <1>5, <1>7, <2>1, <2>2
  <1>8. CASE lookup_barcode(r)
    <2>1. ASSUME NEW raw \in Products[tx[r].call.barcode], NEW told, told = _map_product(raw), NoTrouble,
                 tx' = [tx EXCEPT ![r] = [@ EXCEPT !.at = "select", !.told = {told},
                                                   !.name = normalize_ingredient_name(told)]]
          PROVE  Alone(r)
      <3>1. PICK u, name : u = [t EXCEPT !.at = "select", !.told = {told}, !.name = name]
                             /\ name = normalize_ingredient_name(told)
        OBVIOUS
      <3>2. tx' = [tx EXCEPT ![r] = u]
        BY <1>2, <1>3, <2>1, <3>1, Zenon
      <3>3. u.call = t.call /\ u.at # "idle" /\ u.code # "200"
        BY <1>3, <3>1 DEF Tx
      <3> QED
        BY <1>2, <1>8, <2>1, <3>2, <3>3, AloneIs DEF lookup_barcode, NoTrouble
    <2>2. items' = items /\ entries' = entries
      BY <1>8 DEF lookup_barcode
    <2> QED
      BY <1>4, <1>6, <1>8, <2>1, <2>2, Zenon DEF lookup_barcode, NoTrouble
  <1>9. CASE parse_image(r)
    <2>1. ASSUME NEW raw, NoTrouble,
                 tx' = [tx EXCEPT ![r] = [@ EXCEPT !.at = "store", !.told = DraftNames(_extract_content(raw))]]
          PROVE  Alone(r)
      <3>1. PICK u, told : u = [t EXCEPT !.at = "store", !.told = told] /\ told = DraftNames(_extract_content(raw))
        OBVIOUS
      <3>2. tx' = [tx EXCEPT ![r] = u]
        BY <1>2, <1>3, <2>1, <3>1, Zenon
      <3>3. u.call = t.call /\ u.at # "idle" /\ u.code # "200"
        BY <1>3, <3>1 DEF Tx
      <3> QED
        BY <1>2, <1>9, <2>1, <3>2, <3>3, AloneIs DEF parse_image, NoTrouble
    <2>2. items' = items /\ entries' = entries
      BY <1>9 DEF parse_image
    <2> QED
      BY <1>6, <1>9, <2>1, <2>2, Zenon DEF parse_image
  <1>10. CASE upload_photo(r)
    BY <1>4, <1>6, <1>10, Zenon DEF upload_photo, upload, generate_signed_url, NoTrouble
  <1>11. CASE FindCanonical(r)
    <2>1. PICK at : at = (IF tx[r].name \in canonicals THEN AfterCanonical(r) ELSE "insert")
      OBVIOUS
    <2>2. at # "idle" /\ Goto(r, at) /\ items' = items /\ entries' = entries /\ excused' = excused
      BY <1>11, <2>1 DEF FindCanonical, AfterCanonical, NoTrouble
    <2> QED
      BY <1>4, <2>2
  <1>12. CASE InsertCanonical(r)
    <2>1. items' = items /\ entries' = entries /\ excused' = excused
      BY <1>12 DEF InsertCanonical, NoTrouble
    <2>2. ASSUME tx' = [tx EXCEPT ![r] = [@ EXCEPT !.at = AfterCanonical(r), !.fresh = TRUE]]
          PROVE  Alone(r)
      <3>1. PICK u, at : u = [t EXCEPT !.at = at, !.fresh = TRUE] /\ at = AfterCanonical(r)
        OBVIOUS
      <3>2. tx' = [tx EXCEPT ![r] = u]
        BY <1>2, <1>3, <2>2, <3>1, Zenon
      <3>3. u.call = t.call /\ u.at # "idle" /\ u.code # "200"
        BY <1>3, <3>1 DEF Tx, AfterCanonical
      <3> QED
        BY <1>2, <2>1, <3>2, <3>3, AloneIs
    <2> QED
      BY <1>7, <1>12, <2>1, <2>2 DEF InsertCanonical, Codes
  <1>13. CASE FindBarcode(r)
    <2>1. PICK u, at : u = [t EXCEPT !.at = "upsert", !.loaded = at] /\ at = products[t.call.barcode]
      OBVIOUS
    <2>2. tx' = [tx EXCEPT ![r] = u] /\ items' = items /\ entries' = entries /\ excused' = excused
      BY <1>2, <1>3, <1>13, <2>1 DEF FindBarcode, NoTrouble
    <2>3. u.call = t.call /\ u.at # "idle" /\ u.code # "200"
      BY <1>3, <2>1 DEF Tx
    <2> QED
      BY <1>2, <2>2, <2>3, AloneIs
  <1>14. CASE WriteBarcode(r)
    <2>1. items' = items /\ entries' = entries /\ excused' = excused
      BY <1>14 DEF WriteBarcode, NoTrouble
    <2>2. ASSUME tx' = [tx EXCEPT ![r] = [@ EXCEPT !.at = "commit", !.wrote = TRUE]]
          PROVE  Alone(r)
      <3>1. PICK u : u = [t EXCEPT !.at = "commit", !.wrote = TRUE]
        OBVIOUS
      <3>2. tx' = [tx EXCEPT ![r] = u]
        BY <1>2, <1>3, <2>2, <3>1, Zenon
      <3>3. u.call = t.call /\ u.at # "idle" /\ u.code # "200"
        BY <1>3, <3>1 DEF Tx
      <3> QED
        BY <1>2, <2>1, <3>2, <3>3, AloneIs
    <2> QED
      BY <1>4, <1>7, <1>14, <2>1, <2>2 DEF WriteBarcode, Codes
  <1>15. CASE scan_barcode(r)
    <2>1. PICK u : u = [t EXCEPT !.at = "store", !.fresh = FALSE, !.wrote = FALSE]
      OBVIOUS
    <2>2. tx' = [tx EXCEPT ![r] = u] /\ items' = items /\ entries' = entries /\ excused' = excused
      BY <1>2, <1>3, <1>15, <2>1 DEF scan_barcode, NoTrouble
    <2>3. u.call = t.call /\ u.at # "idle" /\ u.code # "200"
      BY <1>3, <2>1 DEF Tx
    <2> QED
      BY <1>2, <2>2, <2>3, AloneIs
  <1>16. CASE create_item(r)
    <2>1. PICK u : u = [t EXCEPT !.at = "store", !.fresh = FALSE]
      OBVIOUS
    <2>2. /\ tx' = [tx EXCEPT ![r] = u] /\ entries' = entries /\ excused' = excused
          /\ \E i : i.id = r /\ items' = items \cup {i}
      BY <1>2, <1>3, <1>16, <2>1 DEF create_item, NoTrouble
    <2>3. u.call = t.call /\ u.at # "idle" /\ u.code # "200"
      BY <1>3, <2>1 DEF Tx
    <2> QED
      BY <1>2, <2>2, <2>3, AloneIs
  <1>17. CASE store_cached(r)
    <2>1. CASE ~ up
      BY <1>7, <1>17, <2>1 DEF store_cached, NoTrouble, Codes
    <2>2. CASE up
      <3>1. PICK u : u = Ended(t, "200")
        OBVIOUS
      <3>2. /\ tx' = [tx EXCEPT ![r] = u] /\ items' = items /\ excused' = excused
            /\ DOMAIN entries' = DOMAIN entries \cup {_scoped_key(t.call)}
        BY <1>2, <1>17, <2>2, <3>1 DEF store_cached, End, NoTrouble
      <3>3. u.call = t.call /\ u.at # "idle"
        BY <1>3, <3>1, EndedFields DEF Codes
      <3>4. tx'[r] = u /\ \A s \in Reqs \ {r} : tx'[s] = tx[s]
        BY <1>3, <3>2
      <3> QED
        BY <1>2, <3>2, <3>3, <3>4 DEF Alone
    <2> QED
      BY <2>1, <2>2
  <1>18. CASE Die(r)
    BY <1>6, <1>18 DEF Die
  <1> QED
    BY <1>8, <1>9, <1>10, <1>11, <1>12, <1>13, <1>14, <1>15, <1>16, <1>17, <1>18
    DEF Step, resolve_canonical, _upsert_product_barcode

LEMMA StepRepeats ==
  ASSUME Fine, Fine', RepeatsInv, NEW r \in Reqs, Running(r), Alone(r)
  PROVE  RepeatsInv'
  <1>1. /\ \A s \in Reqs \ {r} : tx'[s] = tx[s]
        /\ tx'[r].call = tx[r].call /\ Started(r)'
        /\ \A i \in items' : i \in items \/ i.id = r
        /\ DOMAIN entries \subseteq DOMAIN entries' /\ excused' = excused
        /\ tx'[r].code = "200" => _scoped_key(tx[r].call) \in DOMAIN entries'
    BY DEF Alone, Started
  <1>2. Started(r) /\ r \in Reqs
    BY DEF Running, Started
  <1>3. \A s \in Reqs : (Started(s)' <=> Started(s)) /\ tx'[s].call = tx[s].call
    BY <1>1, <1>2 DEF Started
  <1>4. \A s, q \in Reqs : s < q /\ Started(q)' => Started(s)'
    BY <1>3 DEF RepeatsInv
  <1>5. \A s \in Reqs : tx'[s].code = "200" => _scoped_key(tx'[s].call) \in DOMAIN entries' \cup excused'
    BY <1>1 DEF RepeatsInv
  <1>6. ASSUME NEW s \in Reqs, NEW q \in Reqs, s < q, Started(q)', tx'[s].call = tx'[q].call,
               Running(q)' \/ \E i \in items' : i.id = q, _scoped_key(tx'[q].call) \notin excused'
        PROVE  ~ Running(s)' /\ tx'[s].code # "200"
    <2>1. Running(q) \/ \E i \in items : i.id = q
      BY <1>1, <1>6 DEF Running
    <2>2. ~ Running(s) /\ tx[s].code # "200"
      BY <1>1, <1>3, <1>6, <2>1 DEF RepeatsInv, NotAnswered
    <2>3. s # r
      BY <2>2
    <2> QED
      BY <1>1, <2>2, <2>3 DEF Running
  <1> QED
    BY <1>4, <1>5, <1>6 DEF RepeatsInv, NotAnswered

LEMMA ReceiveRepeats ==
  ASSUME Fine, Fine', RepeatsInv, NEW r \in Reqs, NEW c \in Calls, Receive(r, c), Begins(r, c)
  PROVE  RepeatsInv'
  <1>1. /\ items' = items /\ entries' = entries /\ tx[r].at = "idle" /\ \A s \in Reqs : s < r => tx[s].at # "idle"
        /\ excused' = excused \cup {_scoped_key(c) : s \in {s \in {s \in Reqs \ {r} : Running(s)} : tx[s].call = c}}
    BY ZenonT(40) DEF Receive
  <1>2. /\ tx'[r].call = c /\ tx'[r].at # "idle" /\ tx'[r].code # "200"
        /\ tx'[r].at # "done" => _scoped_key(c) \notin DOMAIN entries
        /\ \A s \in Reqs \ {r} : /\ tx'[s].at = tx[s].at /\ tx'[s].call = tx[s].call
                                 /\ tx[s].at = "done" => tx'[s] = tx[s]
    BY DEF Begins
  <1>3. \A s \in Reqs \ {r} : (Started(s)' <=> Started(s)) /\ (Running(s)' <=> Running(s))
    BY <1>2 DEF Started, Running
  <1>4. ~ Started(r) /\ Started(r)' /\ Reqs \subseteq Nat
    BY <1>1, <1>2, CatalogAssumption DEF Started
  <1>5. \A s, q \in Reqs : s < q /\ Started(q)' => Started(s)'
    <2> SUFFICES ASSUME NEW s \in Reqs, NEW q \in Reqs, s < q, Started(q)' PROVE Started(s)'
      OBVIOUS
    <2>1. CASE s = r
      BY <1>4, <2>1
    <2>2. CASE s # r
      <3>1. Started(s)
        BY <1>1, <1>3, <2>2 DEF RepeatsInv, Started
      <3> QED
        BY <1>3, <2>2, <3>1
    <2> QED
      BY <2>1, <2>2
  <1>6. ASSUME NEW s \in Reqs, tx'[s].code = "200"
        PROVE  s # r /\ tx[s].code = "200" /\ tx'[s].call = tx[s].call
    <2>1. s # r
      BY <1>2, <1>6
    <2>2. Started(s)
      BY <1>3, <1>6, <2>1, NullIsNoCode DEF Fine, CatalogInv, KeyOf, Idle, Codes
    <2>3. tx'[s].at = "done"
      BY <1>3, <1>6, <2>1, <2>2, NullIsNoCode DEF Fine, CatalogInv, KeyOf, Codes
    <2> QED
      BY <1>2, <1>6, <2>1, <2>3
  <1>7. \A s \in Reqs : tx'[s].code = "200" => _scoped_key(tx'[s].call) \in DOMAIN entries' \cup excused'
    BY <1>1, <1>6 DEF RepeatsInv
  <1>8. ASSUME NEW s \in Reqs, NEW q \in Reqs, s < q, Started(q)', tx'[s].call = tx'[q].call,
               Running(q)' \/ \E i \in items' : i.id = q, _scoped_key(tx'[q].call) \notin excused'
        PROVE  ~ Running(s)' /\ tx'[s].code # "200"
    <2>1. CASE q = r
      <3>1. s # r /\ tx'[s].call = c /\ tx[s].call = c
        BY <1>2, <1>4, <1>8, <2>1
      <3>2. ~ Running(s)
        BY <1>1, <1>2, <1>8, <2>1, <3>1
      <3>3. Running(r)'
        <4>1. \A i \in items : i.id # r
          BY <1>4 DEF Fine, CatalogInv, RightItem, Is
        <4> QED
          BY <1>1, <1>8, <2>1, <4>1
      <3>4. _scoped_key(c) \notin DOMAIN entries /\ _scoped_key(c) \notin excused
        BY <1>1, <1>2, <1>8, <2>1, <3>3 DEF Running
      <3>5. tx[s].code # "200"
        BY <3>1, <3>4 DEF RepeatsInv
      <3> QED
        BY <1>3, <1>6, <3>1, <3>2, <3>5
    <2>2. CASE q # r
      <3>1. Started(q) /\ s # r
        BY <1>3, <1>4, <1>8, <2>2 DEF RepeatsInv
      <3>2. tx[s].call = tx[q].call /\ (Running(q) \/ \E i \in items : i.id = q) /\ _scoped_key(tx[q].call) \notin excused
        BY <1>1, <1>2, <1>3, <1>8, <2>2, <3>1
      <3>3. ~ Running(s) /\ tx[s].code # "200"
        BY <1>8, <3>1, <3>2 DEF RepeatsInv, NotAnswered
      <3> QED
        BY <1>3, <1>6, <3>1, <3>3
    <2> QED
      BY <2>1, <2>2
  <1> QED
    BY <1>5, <1>7, <1>8 DEF RepeatsInv, NotAnswered

(* An outage, its end, and an answer that expires.                         *)
LEMMA AsideRepeats ==
  ASSUME Fine, Fine', RepeatsInv, items' = items, tx' = [s \in Reqs |-> tx'[s]],
         DOMAIN entries \cup excused \subseteq DOMAIN entries' \cup excused', excused \subseteq excused',
         \A s \in Reqs : Beside(s)
  PROVE  RepeatsInv'
  <1>1. ASSUME NEW s \in Reqs
        PROVE  /\ tx'[s].at = tx[s].at /\ tx'[s].call = tx[s].call /\ tx'[s].code = tx[s].code
    <2>1. tx[s] \in Tx
      BY TxFields DEF Fine
    <2>2. PICK t, v : t = tx[s] /\ v = [t EXCEPT !.calm = FALSE]
      OBVIOUS
    <2>3. v.at = t.at /\ v.call = t.call /\ v.code = t.code
      BY <2>1, <2>2 DEF Tx
    <2> QED
      BY <2>2, <2>3 DEF Beside
  <1> QED
    BY <1>1 DEF RepeatsInv, NotAnswered, Started, Running

LEMMA CatalogNextRepeats ==
  ASSUME Fine, Fine', RepeatsInv, CatalogNext
  PROVE  RepeatsInv'
  <1>1. ASSUME NEW r \in Reqs, NEW c \in Calls, Receive(r, c) PROVE RepeatsInv'
    BY <1>1, ReceiveKeeps, ReceiveRepeats
  <1>2. ASSUME NEW r \in Reqs, Step(r) \/ Die(r) PROVE RepeatsInv'
    BY <1>2, StepRuns, StepAlone, StepRepeats
  <1>3. CASE Outage
    <2>1. /\ items' = items /\ entries' = entries /\ excused' = excused
          /\ tx' = [s \in Reqs |-> IF Running(s) THEN [tx[s] EXCEPT !.calm = FALSE] ELSE tx[s]]
      BY <1>3 DEF Outage, Trouble
    <2>2. tx' = [s \in Reqs |-> tx'[s]] /\ \A s \in Reqs : Beside(s)
      BY <2>1, Zenon DEF Beside
    <2> QED
      BY <2>1, <2>2, AsideRepeats
  <1>4. CASE Return
    <2>1. items' = items /\ entries' = entries /\ excused' = excused /\ tx' = tx
      BY <1>4 DEF Return, NoTrouble
    <2> QED
      BY <2>1, TxIsFunction, AsideRepeats DEF Beside
  <1>5. ASSUME NEW key \in DOMAIN entries, Expire(key) PROVE RepeatsInv'
    <2>1. /\ items' = items /\ tx' = tx /\ excused' = excused \cup {key}
          /\ entries' = [k \in DOMAIN entries \ {key} |-> entries[k]]
      BY <1>5 DEF Expire
    <2> QED
      BY <2>1, TxIsFunction, AsideRepeats DEF Beside
  <1> QED
    BY <1>1, <1>2, <1>3, <1>4, <1>5 DEF CatalogNext

LEMMA FineAnswersAreKept ==
  ASSUME Fine
  PROVE  AnswersAreKept
  <1> SUFFICES ASSUME NEW r \in Reqs, Acked(r)
               PROVE  /\ tx[r].call.op = "barcode" /\ tx[r].told # {} =>
                           tx[r].name \in canonicals /\ products[tx[r].call.barcode] \in canonicals
                      /\ tx[r].call.op = "item" =>
                           \E i \in items : i.name = tx[r].name /\ tx[i.id].call = tx[r].call
                      /\ tx[r].call.op = "upload" => \E s \in files : tx[s].call = tx[r].call
    BY DEF AnswersAreKept
  <1>1. Started(r) /\ ScanOf(r) /\ ItemOf(r) /\ PhotoOf(r)
    BY AckedIsDone DEF Fine, CatalogInv
  <1>2. tx[r].call \in Calls
    BY <1>1, StartedCall
  <1>3. ASSUME tx[r].call.op = "barcode", tx[r].told # {}
        PROVE  tx[r].name \in canonicals /\ products[tx[r].call.barcode] \in canonicals
    <2>1. tx[r].name \in canonicals /\ products[tx[r].call.barcode] # Null
      BY <1>1, <1>3 DEF ScanOf, Is
    <2>2. tx[r].call.barcode \in Barcodes
      BY <1>2, <1>3, CallFields
    <2> QED
      BY <2>1, <2>2 DEF Fine, CatalogTypeOK
  <1>4. tx[r].call.op = "item" => \E i \in items : i.name = tx[r].name /\ tx[i.id].call = tx[r].call
    BY <1>1 DEF ItemOf, Is
  <1>5. tx[r].call.op = "upload" => \E s \in files : tx[s].call = tx[r].call
    BY <1>1 DEF PhotoOf, Is
  <1> QED
    BY <1>3, <1>4, <1>5

(* An answer tells of what is stored, however many requests, deaths and    *)
(* outages there are, and a request that runs alone, with nothing failing  *)
(* around it, is not answered with an error (scan/router.py, resolver.py,  *)
(* inventory/router.py, core/idempotency.py).                              *)
THEOREM AnswersTellOfWhatIsStored == Spec => []AnswersAreRight
  <1>1. Fine => AnswersAreKept
    BY FineAnswersAreKept
  <1>2. Fine => CalmRequestSucceeds
    BY DEF Fine, CatalogInv, CalmOf, CalmRequestSucceeds
  <1>3. Fine /\ RepeatsInv => AddedOnce
    <2> SUFFICES ASSUME Fine, RepeatsInv, NEW i \in items, NEW j \in items, i.id < j.id,
                        tx[i.id].call = tx[j.id].call, _scoped_key(tx[i.id].call) \notin excused
                 PROVE  tx[i.id].code # "200"
      BY DEF AddedOnce
    <2>1. i.id \in Reqs /\ j.id \in Reqs /\ Started(j.id)
      BY DEF Fine, CatalogTypeOK, CatalogInv, RightItem, Is
    <2> QED
      BY <2>1 DEF RepeatsInv, NotAnswered
  <1>4. Init => RepeatsInv
    BY NullIsNoCode DEF Init, CatalogInit, RepeatsInv, NotAnswered, Started, Idle, Codes
  <1>5. Fine /\ Fine' /\ RepeatsInv /\ [Next]_vars => RepeatsInv'
    <2> SUFFICES ASSUME Fine, Fine', RepeatsInv, [Next]_vars PROVE RepeatsInv'
      OBVIOUS
    <2>1. CASE CatalogNext
      BY <2>1, CatalogNextRepeats
    <2>2. CASE UNCHANGED catalog
      BY <2>2 DEF catalog, RepeatsInv, NotAnswered, Started, Running
    <2> QED
      BY <2>1, <2>2 DEF Next, vars
  <1> QED
    BY <1>1, <1>2, <1>3, <1>4, <1>5, CatalogInvariantHolds, PTL DEF Spec, Fine, AnswersAreRight

LEMMA FineScansAgree ==
  ASSUME Fine
  PROVE  ScanAndItemAgree
  <1> SUFFICES ASSUME NEW i \in items, tx[tx[i.id].call.from].call.op = "barcode"
               PROVE  i.name = tx[tx[i.id].call.from].name
    BY DEF ScanAndItemAgree
  <1>1. RightItem(i) /\ i.id \in Reqs
    BY DEF Fine, CatalogInv, CatalogTypeOK
  <1>2. Is(i.id, "item") /\ NamedAfter(i.name, tx[i.id].call)
    BY <1>1 DEF RightItem
  <1>3. PICK from : from = tx[i.id].call.from
    OBVIOUS
  <1>4. from \in Reqs
    BY <1>1, <1>2, <1>3, StartedCall, CallFields DEF Is
  <1>5. PICK told \in tx[from].told : i.name = normalize_ingredient_name(told)
    BY <1>2, <1>3 DEF NamedAfter
  <1>6. Acked(from)
    BY <1>2, <1>3 DEF NamedAfter
  <1>7. Is(from, "barcode") /\ ScanOf(from)
    BY <1>3, <1>4, <1>6, AckedIsDone DEF Fine, CatalogInv, Is
  <1>8. PICK name \in tx[from].told :
          tx[from].told = {name} /\ tx[from].name = normalize_ingredient_name(name)
    BY <1>5, <1>7 DEF ScanOf
  <1>9. told = name
    BY <1>5, <1>8
  <1> QED
    BY <1>3, <1>5, <1>8, <1>9

LEMMA FineItemsAreDated ==
  ASSUME Fine
  PROVE  DatedByItsName
  <1> SUFFICES ASSUME NEW i \in items
               PROVE  i.days \in
                        (IF DaysIn(DbRules, i.name, i.place) # {} THEN DaysIn(DbRules, i.name, i.place)
                         ELSE IF DaysIn(Builtin, i.name, i.place) # {} THEN DaysIn(Builtin, i.name, i.place)
                         ELSE IF DaysOf(Rules, i.name) # {} THEN DaysOf(Rules, i.name)
                         ELSE {DEFAULT_SHELF_LIFE})
    BY Zenon DEF DatedByItsName, DaysIn, DaysOf
  <1>1. i.days = calculate_expiry(Rules, i.name, i.place)
    BY DEF Fine, CatalogInv, RightItem
  <1> QED
    BY <1>1, DatedRight, Zenon

(* An item has the ingredient of the scan it was made from, and the day of *)
(* the most exact rule of its ingredient, for all rules and all names      *)
(* (resolver.py, expiry/rules.py).                                         *)
THEOREM NamesAlwaysAgree == Spec => []NamesAgree
  <1>1. Fine => NamesAgree
    BY FineScansAgree, FineItemsAreDated DEF NamesAgree
  <1> QED
    BY <1>1, CatalogInvariantHolds, PTL DEF Fine

----------------------------------------------------------------------------
(* Sums.                                                                   *)
(* The table of partial sums by which the library defines a sum: g maps a  *)
(* set to the value at one of its members plus the sum over the others.    *)
Rec(f, S, g) ==
  g = [s \in SUBSET S |-> IF s = {} THEN 0
                          ELSE f[CHOOSE x \in s : TRUE] + g[s \ {CHOOSE x \in s : TRUE}]]

(* A sum is read off the table.                                            *)
LEMMA SumDef ==
  ASSUME NEW f, NEW S
  PROVE  SumFunctionOnSet(f, S) = (CHOOSE g : Rec(f, S, g))[S]
  BY DEF SumFunctionOnSet, FoldFunctionOnSet, MapThenFoldSet, Rec

(* Over a finite set the table exists.                                     *)
LEMMA SumRec ==
  ASSUME NEW f, NEW S, IsFiniteSet(S)
  PROVE  \E g : Rec(f, S, g)
  <1> DEFINE Level(n) == {t \in SUBSET S : Cardinality(t) <= n}
             Some(s) == CHOOSE x \in s : TRUE
             Body(g, s) == IF s = {} THEN 0 ELSE f[Some(s)] + g[s \ {Some(s)}]
             T == {n \in Nat : \E g : g = [s \in Level(n) |-> Body(g, s)]}
  <1>a. \A s \in SUBSET S : /\ IsFiniteSet(s) /\ Cardinality(s) \in Nat
                            /\ s # {} => Cardinality(s \ {Some(s)}) = Cardinality(s) - 1
                            /\ s = {} <=> Cardinality(s) = 0
    BY FS_Subset, FS_RemoveElement, FS_CardinalityType, FS_EmptySet
  <1>b. \A s \in SUBSET S : Cardinality(s) \in Nat /\ (s = {} <=> Cardinality(s) = 0)
    BY <1>a
  <1>1. 0 \in T
    <2> DEFINE g == [s \in Level(0) |-> 0]
    <2>1. \A s \in Level(0) : s = {}
      <3> SUFFICES ASSUME NEW s \in SUBSET S, Cardinality(s) <= 0 PROVE s = {}
        OBVIOUS
      <3> QED
        BY <1>b
    <2>2. g = [s \in Level(0) |-> Body(g, s)]
      BY <2>1
    <2> QED
      BY <2>2
  <1>2. ASSUME NEW n \in Nat, n \in T PROVE n + 1 \in T
    <2>1. PICK g : g = [s \in Level(n) |-> Body(g, s)]
      BY <1>2
    <2> DEFINE h == [s \in Level(n + 1) |-> Body(g, s)]
    <2>2. \A s \in Level(n) : h[s] = g[s]
      <3> SUFFICES ASSUME NEW s \in Level(n) PROVE h[s] = g[s]
        OBVIOUS
      <3>1. s \in Level(n + 1)
        <4>1. s \in SUBSET S /\ Cardinality(s) <= n
          OBVIOUS
        <4> QED
          BY <1>b, <4>1
      <3>2. h[s] = Body(g, s)
        BY <3>1
      <3> HIDE DEF h, Body
      <3> QED
        BY <2>1, <3>2
    <2>3. ASSUME NEW s \in Level(n + 1) PROVE Body(g, s) = Body(h, s)
      <3>1. CASE s = {}
        BY <3>1
      <3>2. CASE s # {}
        <4>1. s \ {Some(s)} \in Level(n)
          <5>1. s \in SUBSET S /\ Cardinality(s) <= n + 1 /\ Cardinality(s \ {Some(s)}) = Cardinality(s) - 1
            BY <1>a, <3>2
          <5> QED
            BY <1>b, <5>1
        <4> HIDE DEF h, Level, Some
        <4> QED
          BY <2>2, <4>1, <3>2
      <3> QED
        BY <3>1, <3>2
    <2>4. h = [s \in Level(n + 1) |-> Body(h, s)]
      <3>1. h = [s \in Level(n + 1) |-> Body(g, s)]
        OBVIOUS
      <3> HIDE DEF Body, Level, h
      <3> QED
        BY <2>3, <3>1
    <2>5. \E g1 : g1 = [s \in Level(n + 1) |-> Body(g1, s)]
      <3> HIDE DEF Body, Level, h
      <3> QED
        BY <2>4
    <2> HIDE DEF Body, Level, h
    <2> QED
      BY <2>5
  <1>3. Nat \subseteq T
    <2> HIDE DEF T
    <2> QED
      BY <1>1, <1>2, NatSetInduction
  <1>4. Cardinality(S) \in T
    BY <1>3, <1>a
  <1>5. Level(Cardinality(S)) = SUBSET S
    BY FS_Subset, <1>a
  <1>6. PICK g : g = [s \in Level(Cardinality(S)) |-> Body(g, s)]
    BY <1>4
  <1>7. g = [s \in SUBSET S |-> Body(g, s)]
    BY <1>5, <1>6
  <1> QED
    BY <1>7 DEF Rec

(* The member with which the table starts.                                 *)
First(s) == CHOOSE x \in s : TRUE

(* The table of partial sums over S.                                       *)
Table(f, S) == CHOOSE g : Rec(f, S, g)

(* What the table says of a subset.                                        *)
LEMMA TableRec ==
  ASSUME NEW f, NEW S, IsFiniteSet(S)
  PROVE  /\ SumFunctionOnSet(f, S) = Table(f, S)[S]
         /\ \A s \in SUBSET S : Table(f, S)[s] = IF s = {} THEN 0 ELSE f[First(s)] + Table(f, S)[s \ {First(s)}]
  <1>1. Rec(f, S, Table(f, S))
    BY SumRec DEF Table
  <1>2. SumFunctionOnSet(f, S) = Table(f, S)[S]
    BY SumDef DEF Table
  <1> DEFINE g == Table(f, S)
  <1>3. g = [s \in SUBSET S |-> IF s = {} THEN 0 ELSE f[First(s)] + g[s \ {First(s)}]]
    BY <1>1 DEF Rec, First
  <1> HIDE DEF g
  <1>4. \A s \in SUBSET S : g[s] = IF s = {} THEN 0 ELSE f[First(s)] + g[s \ {First(s)}]
    BY <1>3
  <1> QED
    BY <1>2, <1>4 DEF g

(* The tables over S and over a subset of S agree.                         *)
LEMMA TableOfSubset ==
  ASSUME NEW f, NEW S, IsFiniteSet(S), NEW R \in SUBSET S
  PROVE  Table(f, S)[R] = Table(f, R)[R]
  <1>1. IsFiniteSet(R)
    BY FS_Subset
  <1>a. \A s \in SUBSET S : Table(f, S)[s] = IF s = {} THEN 0 ELSE f[First(s)] + Table(f, S)[s \ {First(s)}]
    BY TableRec
  <1> DEFINE T == {s \in SUBSET R : Table(f, S)[s] = Table(f, R)[s]}
  <1>2. ASSUME NEW s \in SUBSET R, \A t \in SUBSET s : t # s => t \in T
        PROVE  s \in T
    <2>1. /\ Table(f, S)[s] = IF s = {} THEN 0 ELSE f[First(s)] + Table(f, S)[s \ {First(s)}]
          /\ Table(f, R)[s] = IF s = {} THEN 0 ELSE f[First(s)] + Table(f, R)[s \ {First(s)}]
      <3>1. s \in SUBSET S
        OBVIOUS
      <3>2. Table(f, S)[s] = IF s = {} THEN 0 ELSE f[First(s)] + Table(f, S)[s \ {First(s)}]
        BY <1>a, <3>1
      <3>3. Table(f, R)[s] = IF s = {} THEN 0 ELSE f[First(s)] + Table(f, R)[s \ {First(s)}]
        BY <1>1, TableRec
      <3> QED
        BY <3>2, <3>3
    <2>2. s # {} => s \ {First(s)} \in T
      BY <1>2 DEF First
    <2> QED
      BY <2>1, <2>2
  <1>3. T = SUBSET R
    <2> HIDE DEF T
    <2>1. T \subseteq SUBSET R
      BY DEF T
    <2> QED
      BY <1>1, <1>2, <2>1, SubsetInduction
  <1> QED
    BY <1>3

(* A sum is the value at one member plus the sum over the others.          *)
LEMMA SumFirst ==
  ASSUME NEW f, NEW S, IsFiniteSet(S)
  PROVE  SumFunctionOnSet(f, S) =
           IF S = {} THEN 0 ELSE f[First(S)] + SumFunctionOnSet(f, S \ {First(S)})
  <1>1. Table(f, S)[S] = IF S = {} THEN 0 ELSE f[First(S)] + Table(f, S)[S \ {First(S)}]
    BY TableRec
  <1>2. IsFiniteSet(S \ {First(S)})
    BY FS_RemoveElement
  <1>3. Table(f, S)[S \ {First(S)}] = Table(f, S \ {First(S)})[S \ {First(S)}]
    BY TableOfSubset
  <1> QED
    BY <1>1, <1>2, <1>3, TableRec

(* A sum of integers is an integer.                                        *)
LEMMA SumInt ==
  ASSUME NEW f, NEW S, IsFiniteSet(S), \A x \in S : f[x] \in Int
  PROVE  SumFunctionOnSet(f, S) \in Int
  <1> DEFINE T == {s \in SUBSET S : SumFunctionOnSet(f, s) \in Int}
  <1>1. ASSUME NEW s \in SUBSET S, \A t \in SUBSET s : t # s => t \in T
        PROVE  s \in T
    <2>1. IsFiniteSet(s)
      BY FS_Subset
    <2>2. s # {} => s \ {First(s)} \in T /\ First(s) \in S
      BY <1>1 DEF First
    <2> DEFINE a == SumFunctionOnSet(f, s \ {First(s)})
    <2>3. s # {} => a \in Int /\ f[First(s)] \in Int
      BY <2>2
    <2>4. SumFunctionOnSet(f, s) = IF s = {} THEN 0 ELSE f[First(s)] + a
      BY <2>1, SumFirst
    <2> HIDE DEF a
    <2> QED
      BY <2>3, <2>4
  <1>2. T = SUBSET S
    <2> HIDE DEF T
    <2>1. T \subseteq SUBSET S
      BY DEF T
    <2> QED
      BY <1>1, <2>1, SubsetInduction
  <1> QED
    BY <1>2

(* The member that is taken out first does not matter.                     *)
LEMMA SumRemove ==
  ASSUME NEW f, NEW S, IsFiniteSet(S), \A x \in S : f[x] \in Int, NEW x \in S
  PROVE  SumFunctionOnSet(f, S) = f[x] + SumFunctionOnSet(f, S \ {x})
  <1> DEFINE Q(s, z) == SumFunctionOnSet(f, s) = f[z] + SumFunctionOnSet(f, s \ {z})
             T == {s \in SUBSET S : \A z \in s : Q(s, z)}
  <1>1. ASSUME NEW s \in SUBSET S, \A t \in SUBSET s : t # s => t \in T
        PROVE  s \in T
    <2> SUFFICES ASSUME NEW z \in s PROVE Q(s, z)
      OBVIOUS
    <2> DEFINE y == First(s)
    <2>1. y \in s
      BY DEF First
    <2>2. /\ IsFiniteSet(s) /\ IsFiniteSet(s \ {y}) /\ IsFiniteSet((s \ {y}) \ {z})
          /\ IsFiniteSet(s \ {z}) /\ IsFiniteSet((s \ {z}) \ {y})
      BY FS_Subset, FS_RemoveElement
    <2> HIDE DEF y
    <2>3. SumFunctionOnSet(f, s) = f[y] + SumFunctionOnSet(f, s \ {y})
      BY <2>2, SumFirst DEF y
    <2>4. CASE z = y
      BY <2>3, <2>4
    <2>5. CASE z # y
      <3>1. s \ {y} \in T /\ s \ {z} \in T
        BY <1>1, <2>1
      <3>2. Q(s \ {y}, z) /\ Q(s \ {z}, y)
        BY <2>1, <2>5, <3>1
      <3> DEFINE rest == SumFunctionOnSet(f, (s \ {y}) \ {z})
      <3>3. (s \ {y}) \ {z} = (s \ {z}) \ {y}
        OBVIOUS
      <3>4. f[y] \in Int /\ f[z] \in Int /\ rest \in Int
        BY <2>1, <2>2, SumInt
      <3>5. /\ SumFunctionOnSet(f, s \ {y}) = f[z] + rest
            /\ SumFunctionOnSet(f, s \ {z}) = f[y] + rest
        BY <3>2, <3>3
      <3> HIDE DEF rest
      <3> QED
        BY <2>3, <3>4, <3>5
    <2> QED
      BY <2>4, <2>5
  <1>2. T = SUBSET S
    <2> HIDE DEF T
    <2>1. T \subseteq SUBSET S
      BY DEF T
    <2> QED
      BY <1>1, <2>1, SubsetInduction
  <1> QED
    BY <1>2

(* Functions that agree on a set have the same sum over it.                *)
LEMMA SumSame ==
  ASSUME NEW f, NEW g, NEW S, IsFiniteSet(S), \A x \in S : f[x] = g[x]
  PROVE  SumFunctionOnSet(f, S) = SumFunctionOnSet(g, S)
  <1> DEFINE T == {s \in SUBSET S : SumFunctionOnSet(f, s) = SumFunctionOnSet(g, s)}
  <1>1. ASSUME NEW s \in SUBSET S, \A t \in SUBSET s : t # s => t \in T
        PROVE  s \in T
    <2>1. IsFiniteSet(s)
      BY FS_Subset
    <2>2. s # {} => s \ {First(s)} \in T /\ First(s) \in S
      BY <1>1 DEF First
    <2>3. SumFunctionOnSet(f, s) = IF s = {} THEN 0 ELSE f[First(s)] + SumFunctionOnSet(f, s \ {First(s)})
      BY <2>1, SumFirst
    <2>4. SumFunctionOnSet(g, s) = IF s = {} THEN 0 ELSE g[First(s)] + SumFunctionOnSet(g, s \ {First(s)})
      BY <2>1, SumFirst
    <2> QED
      BY <2>2, <2>3, <2>4
  <1>2. T = SUBSET S
    <2> HIDE DEF T
    <2>1. T \subseteq SUBSET S
      BY DEF T
    <2> QED
      BY <1>1, <2>1, SubsetInduction
  <1> QED
    BY <1>2

(* The sum over two disjoint sets.                                         *)
LEMMA SumUnion ==
  ASSUME NEW f, NEW S, NEW R, IsFiniteSet(S), IsFiniteSet(R), S \cap R = {},
         \A x \in S \cup R : f[x] \in Int
  PROVE  SumFunctionOnSet(f, S \cup R) = SumFunctionOnSet(f, S) + SumFunctionOnSet(f, R)
  <1> DEFINE T == {s \in SUBSET S : SumFunctionOnSet(f, s \cup R) = SumFunctionOnSet(f, s) + SumFunctionOnSet(f, R)}
  <1>a. SumFunctionOnSet(f, R) \in Int
    BY SumInt
  <1>1. ASSUME NEW s \in SUBSET S, \A t \in SUBSET s : t # s => t \in T
        PROVE  s \in T
    <2>1. IsFiniteSet(s) /\ IsFiniteSet(s \cup R)
      BY FS_Subset, FS_Union
    <2>2. CASE s = {}
      <3>1. SumFunctionOnSet(f, s) = 0
        BY <2>1, <2>2, SumFirst
      <3>2. s \cup R = R
        BY <2>2
      <3>3. SumFunctionOnSet(f, s \cup R) = SumFunctionOnSet(f, R)
        BY <3>2, Zenon
      <3> QED
        BY <1>a, <3>1, <3>3
    <2>3. CASE s # {}
      <3>1. PICK z : z \in s
        BY <2>3
      <3>2. s \ {z} \in T /\ (s \cup R) \ {z} = (s \ {z}) \cup R
        BY <1>1, <3>1
      <3>3. SumFunctionOnSet(f, s) = f[z] + SumFunctionOnSet(f, s \ {z})
        BY <2>1, <3>1, SumRemove
      <3>4. SumFunctionOnSet(f, s \cup R) = f[z] + SumFunctionOnSet(f, (s \ {z}) \cup R)
        <4>1. SumFunctionOnSet(f, s \cup R) = f[z] + SumFunctionOnSet(f, (s \cup R) \ {z})
          BY <2>1, <3>1, SumRemove
        <4> QED
          BY <3>2, <4>1
      <3>5. IsFiniteSet(s \ {z}) /\ f[z] \in Int
        BY <2>1, <3>1, FS_RemoveElement
      <3>6. SumFunctionOnSet(f, s \ {z}) \in Int
        BY <3>5, SumInt
      <3>7. SumFunctionOnSet(f, (s \ {z}) \cup R) = SumFunctionOnSet(f, s \ {z}) + SumFunctionOnSet(f, R)
        BY <3>2
      <3> QED
        BY <1>a, <3>3, <3>4, <3>5, <3>6, <3>7
    <2> QED
      BY <2>2, <2>3
  <1>2. T = SUBSET S
    <2> HIDE DEF T
    <2>1. T \subseteq SUBSET S
      BY DEF T
    <2> QED
      BY <1>1, <2>1, SubsetInduction
  <1> QED
    BY <1>2

(* A sum of natural numbers is one.                                        *)
LEMMA SumNat ==
  ASSUME NEW f, NEW S, IsFiniteSet(S), \A x \in S : f[x] \in Nat
  PROVE  SumFunctionOnSet(f, S) \in Nat
  <1> DEFINE T == {s \in SUBSET S : SumFunctionOnSet(f, s) \in Nat}
  <1>1. ASSUME NEW s \in SUBSET S, \A t \in SUBSET s : t # s => t \in T
        PROVE  s \in T
    <2>1. IsFiniteSet(s)
      BY FS_Subset
    <2>2. s # {} => s \ {First(s)} \in T /\ First(s) \in S
      BY <1>1 DEF First
    <2> DEFINE a == SumFunctionOnSet(f, s \ {First(s)})
    <2>3. s # {} => a \in Nat /\ f[First(s)] \in Nat
      BY <2>2
    <2>4. SumFunctionOnSet(f, s) = IF s = {} THEN 0 ELSE f[First(s)] + a
      BY <2>1, SumFirst
    <2> HIDE DEF a
    <2> QED
      BY <2>3, <2>4
  <1>2. T = SUBSET S
    <2> HIDE DEF T
    <2>1. T \subseteq SUBSET S
      BY DEF T
    <2> QED
      BY <1>1, <2>1, SubsetInduction
  <1> QED
    BY <1>2

(* A sum over fewer members is no larger.                                  *)
LEMMA SumSubset ==
  ASSUME NEW f, NEW S, IsFiniteSet(S), \A x \in S : f[x] \in Nat, NEW R \in SUBSET S
  PROVE  SumFunctionOnSet(f, R) <= SumFunctionOnSet(f, S)
  <1>1. IsFiniteSet(R) /\ IsFiniteSet(S \ R) /\ R \cap (S \ R) = {} /\ R \cup (S \ R) = S
    BY FS_Subset
  <1>2. SumFunctionOnSet(f, R) \in Nat /\ SumFunctionOnSet(f, S \ R) \in Nat
    BY <1>1, SumNat
  <1>3. SumFunctionOnSet(f, R \cup (S \ R)) = SumFunctionOnSet(f, R) + SumFunctionOnSet(f, S \ R)
    <2>1. \A x \in R \cup (S \ R) : f[x] \in Int
      OBVIOUS
    <2> QED
      BY <1>1, <2>1, SumUnion
  <1>4. SumFunctionOnSet(f, S) = SumFunctionOnSet(f, R) + SumFunctionOnSet(f, S \ R)
    BY <1>1, <1>3, Zenon
  <1> QED
    BY <1>2, <1>4

(* Smaller values make a smaller sum.                                      *)
LEMMA SumLess ==
  ASSUME NEW f, NEW g, NEW S, IsFiniteSet(S), \A x \in S : f[x] \in Int /\ g[x] \in Int /\ f[x] <= g[x]
  PROVE  SumFunctionOnSet(f, S) <= SumFunctionOnSet(g, S)
  <1> DEFINE T == {s \in SUBSET S : SumFunctionOnSet(f, s) <= SumFunctionOnSet(g, s)}
  <1>1. ASSUME NEW s \in SUBSET S, \A t \in SUBSET s : t # s => t \in T
        PROVE  s \in T
    <2>1. IsFiniteSet(s)
      BY FS_Subset
    <2>2. s # {} => s \ {First(s)} \in T /\ First(s) \in S
      BY <1>1 DEF First
    <2> DEFINE a == SumFunctionOnSet(f, s \ {First(s)})
               b == SumFunctionOnSet(g, s \ {First(s)})
    <2>3. IsFiniteSet(s \ {First(s)}) /\ \A x \in s \ {First(s)} : f[x] \in Int /\ g[x] \in Int
      BY <2>1, FS_RemoveElement
    <2>4. a \in Int /\ b \in Int
      BY <2>3, SumInt
    <2>5. s # {} => a <= b /\ f[First(s)] <= g[First(s)] /\ f[First(s)] \in Int /\ g[First(s)] \in Int
      BY <2>2
    <2>6. SumFunctionOnSet(f, s) = IF s = {} THEN 0 ELSE f[First(s)] + a
      BY <2>1, SumFirst
    <2>7. SumFunctionOnSet(g, s) = IF s = {} THEN 0 ELSE g[First(s)] + b
      BY <2>1, SumFirst
    <2>8. SumFunctionOnSet(f, s) <= SumFunctionOnSet(g, s)
      <3> HIDE DEF a, b, T
      <3> QED
        BY <2>4, <2>5, <2>6, <2>7
    <2> QED
      BY <2>8
  <1>2. T = SUBSET S
    <2> HIDE DEF T
    <2>1. T \subseteq SUBSET S
      BY DEF T
    <2> QED
      BY <1>1, <2>1, SubsetInduction
  <1> QED
    BY <1>2

(* A sum over the members of S is one over what h makes of them, if it     *)
(* makes different things of different members.                            *)
LEMMA SumImage ==
  ASSUME NEW f, NEW h, NEW S, IsFiniteSet(S), NEW g,
         \A x \in S : f[x] \in Int /\ g[h[x]] = f[x],
         \A x, y \in S : h[x] = h[y] => x = y
  PROVE  /\ IsFiniteSet({h[x] : x \in S})
         /\ SumFunctionOnSet(f, S) = SumFunctionOnSet(g, {h[x] : x \in S})
  <1> DEFINE Image(s) == {h[x] : x \in s}
             T == {s \in SUBSET S : IsFiniteSet(Image(s)) /\ SumFunctionOnSet(f, s) = SumFunctionOnSet(g, Image(s))}
  <1>1. ASSUME NEW s \in SUBSET S, \A t \in SUBSET s : t # s => t \in T
        PROVE  s \in T
    <2>1. IsFiniteSet(s)
      BY FS_Subset
    <2>2. CASE s = {}
      <3>1. Image(s) = {} /\ IsFiniteSet({})
        BY <2>2, FS_EmptySet
      <3>2. SumFunctionOnSet(f, {}) = 0 /\ SumFunctionOnSet(g, {}) = 0
        BY <3>1, SumFirst
      <3> QED
        BY <2>2, <3>1, <3>2
    <2>3. CASE s # {}
      <3>1. PICK z : z \in s
        BY <2>3
      <3> DEFINE rest == s \ {z}
      <3>2. rest \in T
        BY <1>1, <3>1
      <3>3. Image(rest) = Image(s) \ {h[z]} /\ h[z] \in Image(s) /\ Image(s) = Image(rest) \cup {h[z]}
        BY <3>1
      <3>a. IsFiniteSet(Image(rest))
        BY <3>2
      <3>4. IsFiniteSet(Image(s))
        <4> HIDE DEF Image, T, rest
        <4> QED
          BY <3>3, <3>a, FS_AddElement
      <3>5. SumFunctionOnSet(f, s) = f[z] + SumFunctionOnSet(f, rest)
        BY <2>1, <3>1, SumRemove
      <3>6. \A y \in Image(s) : g[y] \in Int
        BY <3>1
      <3>7. SumFunctionOnSet(g, Image(s)) = g[h[z]] + SumFunctionOnSet(g, Image(s) \ {h[z]})
        <4> HIDE DEF Image, T, rest
        <4>1. PICK y \in Image(s) : y = h[z]
          BY <3>3
        <4>2. SumFunctionOnSet(g, Image(s)) = g[y] + SumFunctionOnSet(g, Image(s) \ {y})
          BY <3>4, <3>6, SumRemove
        <4> QED
          BY <4>1, <4>2
      <3>8. g[h[z]] = f[z] /\ SumFunctionOnSet(f, rest) = SumFunctionOnSet(g, Image(rest))
        BY <3>1, <3>2
      <3>9. SumFunctionOnSet(f, s) = SumFunctionOnSet(g, Image(s))
        BY <3>3, <3>5, <3>7, <3>8, Zenon
      <3> QED
        BY <3>4, <3>9
    <2> QED
      BY <2>2, <2>3
  <1>2. T = SUBSET S
    <2> HIDE DEF T
    <2>1. T \subseteq SUBSET S
      BY DEF T
    <2> QED
      BY <1>1, <2>1, SubsetInduction
  <1>3. S \in T
    BY <1>2
  <1> QED
    BY <1>3

----------------------------------------------------------------------------
(* Amounts.                                                                *)
LEMMA FactorIsNat ==
  ASSUME NEW unit
  PROVE  Base(unit)[2] \in Nat
  <1>1. One \in Nat
    BY DEF One
  <1>2. DOMAIN CONVERSION_TO_BASE = {"g", "kg", "oz", "lb", "ml", "l", "gallon", "pint", "cup", "tbsp", "tsp"}
    BY DEF CONVERSION_TO_BASE
  <1>3. ASSUME NEW u \in DOMAIN CONVERSION_TO_BASE PROVE CONVERSION_TO_BASE[u][2] \in Nat
    BY <1>2, <1>3 DEF CONVERSION_TO_BASE, One
  <1>4. PICK u : u = normalize_unit(unit)
    OBVIOUS
  <1>5. CASE u \in DOMAIN CONVERSION_TO_BASE
    <2>1. Base(unit) = CONVERSION_TO_BASE[u]
      BY <1>4, <1>5 DEF Base
    <2> QED
      BY <1>3, <1>5, <2>1
  <1>6. CASE u \notin DOMAIN CONVERSION_TO_BASE
    <2>1. Base(unit) = <<u, One>>
      BY <1>4, <1>6 DEF Base
    <2> QED
      BY <1>1, <2>1
  <1> QED
    BY <1>5, <1>6

LEMMA AmountIsNat ==
  ASSUME NEW n \in Nat, NEW unit, NEW times \in Nat
  PROVE  Amount(n, unit, times).quantity \in Nat /\ Amount(n, unit, times).unit = Base(unit)[1]
  <1>1. Base(unit)[2] \in Nat
    BY FactorIsNat
  <1> DEFINE f == Base(unit)[2]
             b == Base(unit)[1]
  <1>2. Amount(n, unit, times) = [quantity |-> (n * f) * times, unit |-> b]
    BY DEF Amount, convert_to_base
  <1>3. f \in Nat
    BY <1>1
  <1> HIDE DEF f
  <1>4. (n * f) * times \in Nat
    <2>1. n * f \in Nat
      BY <1>3
    <2> QED
      BY <2>1
  <1> QED
    BY <1>2, <1>4

LEMMA HeldIsNat ==
  ASSUME NEW i, i.quantity \in Nat
  PROVE  Held(i).quantity \in Nat
  BY AmountIsNat DEF Held, DEFAULT_BASE_SERVINGS

LEMMA NeededIsNat ==
  ASSUME NEW g, g.quantity \in Nat, NEW servings \in Nat
  PROVE  Needed(g, servings).quantity \in Nat /\ Needed(g, servings).unit = Base(g.unit)[1]
  BY AmountIsNat DEF Needed

(* Stocks that can be counted.                                             *)
Stocked(S) == IsFiniteSet(S) /\ S \subseteq Item

LEMMA NamedIs ==
  ASSUME NEW S, Stocked(S), NEW name
  PROVE  /\ IsFiniteSet(Usable(S)) /\ IsFiniteSet(Named(S, name))
         /\ Usable(S) \subseteq S /\ Named(S, name) \subseteq S
         /\ \A i \in S : i.quantity \in Nat /\ i.days \in Int /\ i.id \in Nat /\ Held(i).quantity \in Nat
  <1>1. Usable(S) \subseteq S /\ Named(S, name) \subseteq S
    BY DEF Usable, Named
  <1>2. IsFiniteSet(Usable(S)) /\ IsFiniteSet(Named(S, name))
    BY <1>1, FS_Subset DEF Stocked
  <1>3. \A i \in S : i.quantity \in Nat /\ i.days \in Int /\ i.id \in Nat
    BY DEF Stocked, Item
  <1> QED
    BY <1>1, <1>2, <1>3, HeldIsNat

(* The first to expire of some items.                                      *)
Sooner(i, j) == i.days < j.days \/ (i.days = j.days /\ i.id <= j.id)
Soonest(S) == CHOOSE i \in S : \A j \in S : Sooner(i, j)

LEMMA SoonestIsMember ==
  ASSUME NEW S, IsFiniteSet(S), S # {}, \A i \in S : i.days \in Int /\ i.id \in Nat
  PROVE  Soonest(S) \in S
  <1> DEFINE T == {s \in SUBSET S : s # {} => \E i \in s : \A j \in s : Sooner(i, j)}
  <1>1. ASSUME NEW s \in SUBSET S, \A t \in SUBSET s : t # s => t \in T
        PROVE  s \in T
    <2> SUFFICES ASSUME s # {} PROVE \E i \in s : \A j \in s : Sooner(i, j)
      OBVIOUS
    <2>1. PICK z : z \in s
      OBVIOUS
    <2>2. CASE s = {z}
      BY <2>1, <2>2 DEF Sooner
    <2>3. CASE s # {z}
      <3>0. s \ {z} # {}
        BY <2>1, <2>3
      <3>1. s \ {z} \in T /\ s \ {z} # {}
        <4>1. s \ {z} \in SUBSET s /\ s \ {z} # s
          BY <2>1
        <4> HIDE DEF T
        <4> QED
          BY <1>1, <3>0, <4>1
      <3>2. PICK i \in s \ {z} : \A j \in s \ {z} : Sooner(i, j)
        BY <3>1
      <3>3. /\ i.days \in Int /\ i.id \in Nat /\ z.days \in Int /\ z.id \in Nat
            /\ \A j \in s : j.days \in Int /\ j.id \in Nat
        BY <2>1
      <3>4. CASE Sooner(i, z)
        <4>1. \A j \in s : j = z \/ j \in s \ {z}
          OBVIOUS
        <4> HIDE DEF T
        <4> QED
          BY <3>2, <3>4, <4>1
      <3>5. CASE ~ Sooner(i, z)
        <4>1. Sooner(z, z) /\ Sooner(z, i)
          BY <3>3, <3>5 DEF Sooner
        <4>2. \A j \in s \ {z} : Sooner(z, j)
          <5> TAKE j \in s \ {z}
          <5>1. Sooner(i, j) /\ j.days \in Int /\ j.id \in Nat
            BY <3>2, <3>3
          <5> QED
            BY <3>3, <4>1, <5>1 DEF Sooner
        <4> QED
          BY <2>1, <4>1, <4>2
      <3> QED
        BY <3>4, <3>5
    <2> QED
      BY <2>2, <2>3
  <1>2. T = SUBSET S
    <2> HIDE DEF T
    <2>1. T \subseteq SUBSET S
      BY DEF T
    <2> QED
      BY <1>1, <2>1, SubsetInduction
  <1>3. S \in T
    BY <1>2
  <1> QED
    BY <1>3 DEF Soonest

(* What is left of each name at the beginning.                             *)
Alike(S, name) == {i \in Named(S, name) : Held(i).unit = Held(Soonest(Named(S, name))).unit}

LEMMA BeginningIs ==
  ASSUME NEW S, Stocked(S)
  PROVE  LET rem == _build_remaining_inventory(S)
         IN  /\ DOMAIN rem = {i.name : i \in Usable(S)}
             /\ \A name \in DOMAIN rem :
                  /\ rem[name].quantity = SumFunctionOnSet([i \in Alike(S, name) |-> Held(i).quantity], Alike(S, name))
                  /\ rem[name].quantity \in Nat /\ rem[name].days \in Int
                  /\ rem[name].unit = Held(Soonest(Named(S, name))).unit
                  /\ Soonest(Named(S, name)) \in Named(S, name) /\ IsFiniteSet(Alike(S, name))
                  /\ rem[name] = [quantity |-> rem[name].quantity, unit |-> rem[name].unit, days |-> rem[name].days]
  <1> DEFINE rem == _build_remaining_inventory(S)
  <1>1. rem = [name \in {i.name : i \in Usable(S)} |->
                [quantity |-> SumFunction([i \in Alike(S, name) |-> Held(i).quantity]),
                 unit |-> Held(Soonest(Named(S, name))).unit, days |-> Soonest(Named(S, name)).days]]
    BY Zenon DEF _build_remaining_inventory, Alike, Soonest, Sooner
  <1> SUFFICES /\ DOMAIN rem = {i.name : i \in Usable(S)}
               /\ \A name \in DOMAIN rem :
                  /\ rem[name].quantity = SumFunctionOnSet([i \in Alike(S, name) |-> Held(i).quantity], Alike(S, name))
                  /\ rem[name].quantity \in Nat /\ rem[name].days \in Int
                  /\ rem[name].unit = Held(Soonest(Named(S, name))).unit
                  /\ Soonest(Named(S, name)) \in Named(S, name) /\ IsFiniteSet(Alike(S, name))
                  /\ rem[name] = [quantity |-> rem[name].quantity, unit |-> rem[name].unit, days |-> rem[name].days]
    OBVIOUS
  <1> HIDE DEF rem
  <1>2. DOMAIN rem = {i.name : i \in Usable(S)}
    BY <1>1
  <1>3. ASSUME NEW name \in DOMAIN rem
        PROVE  /\ rem[name].quantity = SumFunctionOnSet([i \in Alike(S, name) |-> Held(i).quantity], Alike(S, name))
               /\ rem[name].quantity \in Nat /\ rem[name].days \in Int
               /\ rem[name].unit = Held(Soonest(Named(S, name))).unit
               /\ Soonest(Named(S, name)) \in Named(S, name) /\ IsFiniteSet(Alike(S, name))
               /\ rem[name] = [quantity |-> rem[name].quantity, unit |-> rem[name].unit, days |-> rem[name].days]
    <2> DEFINE alike == Alike(S, name)
               first == Soonest(Named(S, name))
               f == [i \in alike |-> Held(i).quantity]
    <2>1. rem[name] = [quantity |-> SumFunction(f), unit |-> Held(first).unit, days |-> first.days]
      BY <1>1, <1>2
    <2>2. SumFunction(f) = SumFunctionOnSet(f, alike)
      BY DEF SumFunction
    <2>3. IsFiniteSet(alike) /\ \A i \in alike : f[i] \in Nat
      <3>1. alike \subseteq Named(S, name)
        BY DEF Alike
      <3>2. IsFiniteSet(alike)
        BY <3>1, NamedIs, FS_Subset
      <3>3. \A i \in alike : Held(i).quantity \in Nat
        BY <3>1, NamedIs
      <3> QED
        BY <3>2, <3>3
    <2>4. first \in Named(S, name) /\ first.days \in Int
      <3>1. Named(S, name) # {}
        BY <1>2 DEF Named
      <3>2. first \in Named(S, name)
        BY <3>1, NamedIs, SoonestIsMember
      <3> QED
        BY <3>2, NamedIs
    <2>5. SumFunctionOnSet(f, alike) \in Nat
      <3> HIDE DEF f, alike
      <3> QED
        BY <2>3, SumNat
    <2> HIDE DEF f, alike, first
    <2>6. /\ rem[name].quantity = SumFunctionOnSet(f, alike) /\ rem[name].unit = Held(first).unit
          /\ rem[name].days = first.days
      BY <2>1, <2>2
    <2>7. rem[name] = [quantity |-> rem[name].quantity, unit |-> rem[name].unit, days |-> rem[name].days]
      BY <2>1
    <2> QED
      BY <2>3, <2>4, <2>5, <2>6, <2>7 DEF f, alike, first
  <1> QED
    BY <1>2, <1>3

(* The ingredients of a recipe are reserved one after the other.           *)
Reserving(rem, servings, ms, g) ==
  g = [s \in SUBSET (DOMAIN ms) |->
         IF s = {} THEN rem ELSE _reserve_ingredient(g[s \ {Max(s)}], ms[Max(s)], servings)]

LEMMA ReservingDef ==
  ASSUME NEW r, NEW rem, NEW servings
  PROVE  _reserve_ingredients(r, rem, servings) =
           (CHOOSE g : Reserving(rem, servings, r.ingredients, g))[DOMAIN r.ingredients]
  BY DEF _reserve_ingredients, FoldLeft, MapThenFoldSet, Reserving

LEMMA ReservingExists ==
  ASSUME NEW rem, NEW servings, NEW n \in Nat, NEW ms, DOMAIN ms = 1..n
  PROVE  \E g : Reserving(rem, servings, ms, g)
  <1> DEFINE S == 1..n
             Level(l) == {t \in SUBSET S : Cardinality(t) <= l}
             Body(g, s) == IF s = {} THEN rem
                           ELSE _reserve_ingredient(g[s \ {Max(s)}], ms[Max(s)], servings)
             T == {l \in Nat : \E g : g = [s \in Level(l) |-> Body(g, s)]}
  <1>a. \A s \in SUBSET S : /\ IsFiniteSet(s) /\ Cardinality(s) \in Nat
                            /\ s # {} => Cardinality(s \ {Max(s)}) = Cardinality(s) - 1
                            /\ s = {} <=> Cardinality(s) = 0
    <2>1. IsFiniteSet(S)
      BY FS_Interval
    <2>2. \A s \in SUBSET S : s # {} => Max(s) \in s
      BY GreatestIsMember
    <2> HIDE DEF S
    <2> QED
      BY <2>1, <2>2, FS_Subset, FS_RemoveElement, FS_CardinalityType, FS_EmptySet
  <1>b. \A s \in SUBSET S : Cardinality(s) \in Nat /\ (s = {} <=> Cardinality(s) = 0)
    BY <1>a
  <1> HIDE DEF S
  <1>1. 0 \in T
    <2> DEFINE g == [s \in Level(0) |-> rem]
    <2>1. \A s \in Level(0) : s = {}
      <3> SUFFICES ASSUME NEW s \in SUBSET S, Cardinality(s) <= 0 PROVE s = {}
        OBVIOUS
      <3> QED
        BY <1>b
    <2>2. g = [s \in Level(0) |-> Body(g, s)]
      BY <2>1
    <2> QED
      BY <2>2
  <1>2. ASSUME NEW l \in Nat, l \in T PROVE l + 1 \in T
    <2>1. PICK g : g = [s \in Level(l) |-> Body(g, s)]
      BY <1>2
    <2> DEFINE h == [s \in Level(l + 1) |-> Body(g, s)]
    <2>2. \A s \in Level(l) : h[s] = g[s]
      <3> SUFFICES ASSUME NEW s \in Level(l) PROVE h[s] = g[s]
        OBVIOUS
      <3>1. s \in Level(l + 1)
        <4>1. s \in SUBSET S /\ Cardinality(s) <= l
          OBVIOUS
        <4> QED
          BY <1>b, <4>1
      <3>2. h[s] = Body(g, s)
        BY <3>1
      <3> HIDE DEF h, Body
      <3> QED
        BY <2>1, <3>2
    <2>3. ASSUME NEW s \in Level(l + 1) PROVE Body(g, s) = Body(h, s)
      <3>1. CASE s = {}
        BY <3>1
      <3>2. CASE s # {}
        <4>1. s \ {Max(s)} \in Level(l)
          <5>1. s \in SUBSET S /\ Cardinality(s) <= l + 1 /\ Cardinality(s \ {Max(s)}) = Cardinality(s) - 1
            BY <1>a, <3>2
          <5> QED
            BY <1>b, <5>1
        <4> HIDE DEF h, Level
        <4> QED
          BY <2>2, <4>1, <3>2
      <3> QED
        BY <3>1, <3>2
    <2>4. h = [s \in Level(l + 1) |-> Body(h, s)]
      <3>1. h = [s \in Level(l + 1) |-> Body(g, s)]
        OBVIOUS
      <3> HIDE DEF Body, Level, h
      <3> QED
        BY <2>3, <3>1
    <2>5. \E g1 : g1 = [s \in Level(l + 1) |-> Body(g1, s)]
      <3> HIDE DEF Body, Level, h
      <3> QED
        BY <2>4
    <2> HIDE DEF Body, Level, h
    <2> QED
      BY <2>5
  <1>3. Nat \subseteq T
    <2> HIDE DEF T
    <2> QED
      BY <1>1, <1>2, NatSetInduction
  <1>c. IsFiniteSet(S)
    BY <1>a
  <1>4. Cardinality(S) \in T
    BY <1>3, <1>a
  <1>5. Level(Cardinality(S)) = SUBSET S
    BY FS_Subset, <1>a, <1>c
  <1>6. PICK g : g = [s \in Level(Cardinality(S)) |-> Body(g, s)]
    BY <1>4
  <1>7. g = [s \in SUBSET S |-> Body(g, s)]
    BY <1>5, <1>6
  <1> QED
    BY <1>7 DEF Reserving, S

LEMMA ReservedInOrder ==
  ASSUME NEW r, NEW rem, NEW servings, NEW n \in Nat, DOMAIN r.ingredients = 1..n
  PROVE  \E h : /\ h[0] = rem /\ h[n] = _reserve_ingredients(r, rem, servings)
                /\ \A k \in 1..n : h[k] = _reserve_ingredient(h[k - 1], r.ingredients[k], servings)
  <1> DEFINE ms == r.ingredients
             g == CHOOSE f : Reserving(rem, servings, ms, f)
             h == [k \in 0..n |-> g[1..k]]
  <1>1. Reserving(rem, servings, ms, g)
    <2>1. \E f : Reserving(rem, servings, ms, f)
      BY ReservingExists
    <2> QED
      BY <2>1
  <1>2. _reserve_ingredients(r, rem, servings) = g[1..n]
    BY ReservingDef
  <1> HIDE DEF g
  <1>3. \A s \in SUBSET (1..n) :
          g[s] = IF s = {} THEN rem ELSE _reserve_ingredient(g[s \ {Max(s)}], ms[Max(s)], servings)
    BY <1>1 DEF Reserving
  <1>4. h[0] = rem
    <2>1. 1..0 = {} /\ 1..0 \in SUBSET (1..n)
      OBVIOUS
    <2>2. g[1..0] = rem
      BY <1>3, <2>1
    <2> QED
      BY <2>2
  <1>5. h[n] = _reserve_ingredients(r, rem, servings)
    BY <1>2
  <1>6. ASSUME NEW k \in 1..n PROVE h[k] = _reserve_ingredient(h[k - 1], ms[k], servings)
    <2>1. 1..k \in SUBSET (1..n) /\ 1..k # {} /\ (1..k) \ {k} = 1..(k - 1) /\ k \in 0..n /\ k - 1 \in 0..n
      <3>1. k \in Nat /\ 1 <= k /\ k <= n
        OBVIOUS
      <3>2. 1..k \in SUBSET (1..n) /\ k \in 1..k
        BY <3>1
      <3>3. (1..k) \ {k} = 1..(k - 1)
        BY <3>1
      <3> QED
        BY <3>1, <3>2, <3>3
    <2>2. Max(1..k) = k
      <3>1. k \in Nat /\ 1..k \in SUBSET (1..k)
        OBVIOUS
      <3>2. PICK m : m = Max(1..k)
        OBVIOUS
      <3>3. m \in 1..k
        BY <2>1, <3>1, <3>2, GreatestIsMember
      <3>4. \A j \in 1..k : m >= j
        <4>1. \E x \in 1..k : \A y \in 1..k : x >= y
          <5>1. k \in 1..k /\ \A y \in 1..k : k >= y
            OBVIOUS
          <5> QED
            BY <5>1
        <4> QED
          BY <3>2, <4>1 DEF Max
      <3> QED
        BY <3>2, <3>3, <3>4
    <2>3. g[1..k] = _reserve_ingredient(g[1..(k - 1)], ms[k], servings)
      BY <1>3, <2>1, <2>2
    <2>4. h[k] = g[1..k] /\ h[k - 1] = g[1..(k - 1)]
      BY <2>1
    <2> QED
      BY <2>3, <2>4
  <1> HIDE DEF h
  <1> QED
    BY <1>4, <1>5, <1>6

(* What is left has the names, the units and the days of the beginning.    *)
Left(rem, begun) ==
  /\ DOMAIN rem = DOMAIN begun
  /\ \A name \in DOMAIN rem : /\ rem[name].quantity \in Nat /\ rem[name].days \in Int
                              /\ rem[name].unit = begun[name].unit /\ rem[name].days = begun[name].days
                              /\ rem[name] = [quantity |-> rem[name].quantity, unit |-> rem[name].unit,
                                             days |-> rem[name].days]

LEMMA ZeroOrMore == ASSUME NEW n \in Int PROVE AtLeastZero(n) \in Nat
  BY DEF AtLeastZero

(* What one ingredient takes.                                              *)
LEMMA ReserveOne ==
  ASSUME NEW rem, NEW begun, Left(rem, begun), NEW g \in Ingredient, NEW servings \in Nat,
         NEW next, next = _reserve_ingredient(rem, g, servings)
  PROVE  /\ Left(next, begun)
         /\ \A name \in DOMAIN rem :
              next[name].quantity = IF name = g.name /\ rem[name].unit = Base(g.unit)[1]
                                    THEN AtLeastZero(rem[name].quantity - Needed(g, servings).quantity)
                                    ELSE rem[name].quantity
  <1>1. Needed(g, servings).quantity \in Nat /\ convert_to_base(g.quantity, g.unit).unit = Base(g.unit)[1]
    BY NeededIsNat DEF Ingredient, convert_to_base
  <1> DEFINE x == Needed(g, servings).quantity
  <1>2. CASE Takes(rem, g)
    <2>1. /\ g.name \in DOMAIN rem /\ rem[g.name].unit = Base(g.unit)[1] /\ rem[g.name].quantity > 0
      BY <1>1, <1>2 DEF Takes
    <2>2. next = [rem EXCEPT ![g.name].quantity = AtLeastZero(@ - x)]
      BY <1>2 DEF _reserve_ingredient
    <2>3. PICK q : q = AtLeastZero(rem[g.name].quantity - x)
      OBVIOUS
    <2>4. q \in Nat
      BY <1>1, <2>1, <2>3, ZeroOrMore DEF Left
    <2>5. next = [rem EXCEPT ![g.name] = [rem[g.name] EXCEPT !.quantity = q]]
      BY <2>2, <2>3
    <2>6. [rem[g.name] EXCEPT !.quantity = q] = [quantity |-> q, unit |-> rem[g.name].unit, days |-> rem[g.name].days]
      <3>1. PICK a, b, c : a = rem[g.name].quantity /\ b = rem[g.name].unit /\ c = rem[g.name].days
        OBVIOUS
      <3>2. rem[g.name] = [quantity |-> a, unit |-> b, days |-> c]
        BY <2>1, <3>1 DEF Left
      <3>3. [rem[g.name] EXCEPT !.quantity = q] = [quantity |-> q, unit |-> b, days |-> c]
        BY <3>2
      <3> QED
        BY <3>1, <3>3
    <2>7. \A name \in DOMAIN rem :
            next[name] = IF name = g.name THEN [quantity |-> q, unit |-> rem[g.name].unit, days |-> rem[g.name].days]
                         ELSE rem[name]
      BY <2>1, <2>5, <2>6
    <2>8. DOMAIN next = DOMAIN rem
      BY <2>5
    <2> HIDE DEF x
    <2> QED
      BY <1>1, <2>1, <2>3, <2>4, <2>7, <2>8 DEF Left, x
  <1>3. CASE ~ Takes(rem, g)
    <2>1. next = rem
      BY <1>3 DEF _reserve_ingredient
    <2>2. ASSUME NEW name \in DOMAIN rem, name = g.name, rem[name].unit = Base(g.unit)[1]
          PROVE  AtLeastZero(rem[name].quantity - x) = rem[name].quantity
      <3>1. ~ (rem[name].quantity > 0)
        BY <1>1, <1>3, <2>2 DEF Takes
      <3>2. rem[name].quantity = 0
        BY <3>1 DEF Left
      <3> QED
        BY <1>1, <3>2 DEF AtLeastZero
    <2> QED
      BY <2>1, <2>2
  <1> QED
    BY <1>2, <1>3

LEMMA ReserveLeaves ==
  ASSUME NEW rem, NEW begun, Left(rem, begun), NEW r \in Recipe, NEW servings \in Nat
  PROVE  Left(_reserve_ingredients(r, rem, servings), begun)
  <1>1. /\ r.ingredients \in Seq(Ingredient)
        /\ Len(r.ingredients) \in Nat /\ DOMAIN r.ingredients = 1..Len(r.ingredients)
        /\ \A k \in DOMAIN r.ingredients : r.ingredients[k] \in Ingredient
    BY Indices DEF Recipe
  <1>2. PICK n \in Nat : n = Len(r.ingredients)
    BY <1>1
  <1>3. PICK h : /\ h[0] = rem /\ h[n] = _reserve_ingredients(r, rem, servings)
                 /\ \A k \in 1..n : h[k] = _reserve_ingredient(h[k - 1], r.ingredients[k], servings)
    BY <1>1, <1>2, ReservedInOrder
  <1> DEFINE T == {k \in Nat : k <= n => Left(h[k], begun)}
  <1>4. 0 \in T
    BY <1>3
  <1>5. ASSUME NEW k \in Nat, k \in T PROVE k + 1 \in T
    <2> SUFFICES ASSUME k + 1 <= n PROVE Left(h[k + 1], begun)
      OBVIOUS
    <2>1. Left(h[k], begun) /\ k + 1 \in 1..n /\ (k + 1) - 1 = k
      BY <1>2, <1>5
    <2>2. h[k + 1] = _reserve_ingredient(h[k], r.ingredients[k + 1], servings)
      BY <1>3, <2>1
    <2>3. r.ingredients[k + 1] \in Ingredient
      BY <1>1, <1>2, <2>1
    <2> QED
      BY <2>1, <2>2, <2>3, ReserveOne
  <1>6. Nat \subseteq T
    <2> HIDE DEF T
    <2> QED
      BY <1>4, <1>5, NatSetInduction
  <1>7. n \in T
    BY <1>6
  <1> QED
    BY <1>3, <1>7

----------------------------------------------------------------------------
(* Places in an order.                                                     *)
Orders(R, S) ==
  /\ \A a, b \in S : a # b => <<a, b>> \in R \/ <<b, a>> \in R
  /\ \A a \in S : <<a, a>> \notin R
  /\ \A a, b, c \in S : <<a, b>> \in R /\ <<b, c>> \in R => <<a, c>> \in R

LEMMA LastExists ==
  ASSUME NEW S, IsFiniteSet(S), NEW R, Orders(R, S), S # {}
  PROVE  \E m \in S : \A b \in S \ {m} : <<b, m>> \in R
  <1> DEFINE Ends(s, m) == m \in s /\ \A b \in s \ {m} : <<b, m>> \in R
             T == {s \in SUBSET S : s # {} => \E m : Ends(s, m)}
  <1>1. ASSUME NEW s \in SUBSET S, \A t \in SUBSET s : t # s => t \in T
        PROVE  s \in T
    <2> SUFFICES ASSUME s # {} PROVE \E m : Ends(s, m)
      OBVIOUS
    <2>1. PICK z : z \in s
      OBVIOUS
    <2>2. CASE s = {z}
      <3>1. Ends(s, z)
        BY <2>1, <2>2
      <3> QED
        BY <3>1
    <2>3. CASE s # {z}
      <3>1. s \ {z} # {} /\ s \ {z} \in SUBSET s /\ s \ {z} # s
        BY <2>1, <2>3
      <3>2. s \ {z} \in T
        BY <1>1, <3>1
      <3>3. PICK m : Ends(s \ {z}, m)
        BY <3>1, <3>2
      <3>4. m \in s /\ m # z /\ m \in S /\ z \in S /\ s \subseteq S
        BY <2>1, <3>3
      <3>5. CASE <<z, m>> \in R
        <4>1. Ends(s, m)
          BY <3>3, <3>4, <3>5
        <4> QED
          BY <4>1
      <3>6. CASE <<m, z>> \in R
        <4>1. \A b \in s \ {z} : b = m \/ <<b, m>> \in R
          BY <3>3
        <4>2. Ends(s, z)
          BY <2>1, <3>4, <3>6, <4>1 DEF Orders
        <4> QED
          BY <4>2
      <3> QED
        BY <3>4, <3>5, <3>6 DEF Orders
    <2> QED
      BY <2>2, <2>3
  <1>2. T = SUBSET S
    <2> HIDE DEF T
    <2>1. T \subseteq SUBSET S
      BY DEF T
    <2> QED
      BY <1>1, <2>1, SubsetInduction
  <1>3. S \in T
    BY <1>2
  <1> QED
    BY <1>3

LEMMA NthExists ==
  ASSUME NEW S, IsFiniteSet(S), NEW R, Orders(R, S), NEW k \in 1..Cardinality(S)
  PROVE  Nth(S, R, k) \in S
  <1> DEFINE Below(s, a) == {b \in s : <<b, a>> \in R}
             T == {s \in SUBSET S : \A n \in 1..Cardinality(s) : \E a \in s : Cardinality(Below(s, a)) = n - 1}
  <1>1. ASSUME NEW s \in SUBSET S, \A t \in SUBSET s : t # s => t \in T
        PROVE  s \in T
    <2> SUFFICES ASSUME NEW n \in 1..Cardinality(s) PROVE \E a \in s : Cardinality(Below(s, a)) = n - 1
      OBVIOUS
    <2>1. IsFiniteSet(s) /\ Cardinality(s) \in Nat
      BY FS_Subset, FS_CardinalityType
    <2>2. s # {}
      BY <2>1, FS_EmptySet
    <2>3. Orders(R, s)
      BY DEF Orders
    <2>4. PICK m \in s : \A b \in s \ {m} : <<b, m>> \in R
      BY <2>1, <2>2, <2>3, LastExists
    <2>5. IsFiniteSet(s \ {m}) /\ Cardinality(s \ {m}) = Cardinality(s) - 1
      BY <2>1, FS_RemoveElement
    <2>6. CASE n = Cardinality(s)
      <3>1. Below(s, m) = s \ {m}
        BY <2>3, <2>4 DEF Orders
      <3> QED
        BY <2>5, <2>6, <3>1
    <2>7. CASE n # Cardinality(s)
      <3>1. n \in 1..Cardinality(s \ {m})
        BY <2>1, <2>5, <2>7
      <3>2. s \ {m} \in T
        BY <1>1
      <3>3. PICK a \in s \ {m} : Cardinality(Below(s \ {m}, a)) = n - 1
        BY <3>1, <3>2
      <3>4. <<m, a>> \notin R
        BY <2>3, <2>4, <3>3 DEF Orders
      <3>5. Below(s \ {m}, a) = Below(s, a)
        BY <3>4
      <3> QED
        BY <3>3, <3>5
    <2> QED
      BY <2>6, <2>7
  <1>2. T = SUBSET S
    <2> HIDE DEF T
    <2>1. T \subseteq SUBSET S
      BY DEF T
    <2> QED
      BY <1>1, <2>1, SubsetInduction
  <1>3. PICK a \in S : Cardinality({b \in S : <<b, a>> \in R}) = k - 1
    <2>1. S \in T
      BY <1>2
    <2> QED
      BY <2>1
  <1> QED
    BY <1>3, Zenon DEF Nth

(* Every member of what is picked is in the sequence.                      *)
LEMMA PickedIs ==
  ASSUME NEW q, NEW n \in Nat, DOMAIN q = 1..n, NEW S \in SUBSET (1..n)
  PROVE  /\ IsFiniteSet(S) /\ Cardinality(S) \in Nat
         /\ DOMAIN Picked(q, S) = 1..Cardinality(S)
         /\ \A k \in DOMAIN Picked(q, S) : \E i \in S : Picked(q, S)[k] = q[i]
         /\ Picked(q, S) = <<>> <=> S = {}
  <1>1. IsFiniteSet(S) /\ Cardinality(S) \in Nat /\ (Cardinality(S) = 0 <=> S = {})
    <2>1. IsFiniteSet(1..n)
      BY FS_Interval
    <2> QED
      BY <2>1, FS_Subset, FS_CardinalityType, FS_EmptySet
  <1> DEFINE Less == {ab \in S \X S : ab[1] < ab[2]}
  <1>2. Orders(Less, S)
    <2>1. \A a, b \in S : a \in Int /\ b \in Int /\ (<<a, b>> \in Less <=> a < b)
      OBVIOUS
    <2> HIDE DEF Less
    <2>2. \A a, b \in S : a # b => <<a, b>> \in Less \/ <<b, a>> \in Less
      BY <2>1
    <2>3. \A a \in S : <<a, a>> \notin Less
      BY <2>1
    <2>4. \A a, b, c \in S : <<a, b>> \in Less /\ <<b, c>> \in Less => <<a, c>> \in Less
      BY <2>1
    <2> QED
      BY <2>2, <2>3, <2>4 DEF Orders
  <1>3. Picked(q, S) = [k \in 1..Cardinality(S) |-> q[Nth(S, Less, k)]]
    BY DEF Picked
  <1> HIDE DEF Less
  <1>4. \A k \in 1..Cardinality(S) : Nth(S, Less, k) \in S
    BY <1>1, <1>2, NthExists
  <1>5. Picked(q, S) = <<>> <=> S = {}
    <2>1. Picked(q, S) = <<>> <=> 1..Cardinality(S) = {}
      BY <1>3
    <2> QED
      BY <1>1, <2>1
  <1> QED
    BY <1>1, <1>3, <1>4, <1>5

LEMMA PickedSeq ==
  ASSUME NEW q \in Seq(Recipe), NEW S \in SUBSET (DOMAIN q)
  PROVE  /\ Picked(q, S) \in Seq(Recipe)
         /\ DOMAIN Picked(q, S) = 1..Cardinality(S) /\ Cardinality(S) \in Nat
         /\ \A k \in DOMAIN Picked(q, S) : \E i \in S : Picked(q, S)[k] = q[i]
         /\ Picked(q, S) = <<>> <=> S = {}
  <1>1. PICK n \in Nat : DOMAIN q = 1..n /\ \A i \in 1..n : q[i] \in Recipe
    BY Indices
  <1>2. /\ DOMAIN Picked(q, S) = 1..Cardinality(S) /\ Cardinality(S) \in Nat
        /\ \A k \in DOMAIN Picked(q, S) : \E i \in S : Picked(q, S)[k] = q[i]
        /\ Picked(q, S) = <<>> <=> S = {}
    BY <1>1, PickedIs
  <1>3. Picked(q, S) = [k \in 1..Cardinality(S) |-> Picked(q, S)[k]]
    BY <1>2 DEF Picked
  <1>4. \A k \in 1..Cardinality(S) : Picked(q, S)[k] \in Recipe
    BY <1>1, <1>2
  <1>5. Picked(q, S) \in [1..Cardinality(S) -> Recipe]
    BY <1>3, <1>4
  <1>6. \A m \in Nat : \A f \in [1..m -> Recipe] : f \in Seq(Recipe)
    BY SeqDef
  <1> QED
    BY <1>2, <1>5, <1>6

----------------------------------------------------------------------------
(* The ranking.                                                            *)

LEMMA SameLength ==
  ASSUME NEW m \in Nat, NEW n \in Nat, 1..m = 1..n
  PROVE  m = n
  <1>1. m >= 1 => m \in 1..n
    <2>1. m >= 1 => m \in 1..m
      OBVIOUS
    <2> QED
      BY <2>1
  <1>2. n >= 1 => n \in 1..m
    <2>1. n >= 1 => n \in 1..n
      OBVIOUS
    <2> QED
      BY <2>1
  <1>3. m <= n
    BY <1>1
  <1>4. n <= m
    BY <1>2
  <1> QED
    BY <1>3, <1>4

(* A recipe a source can tell of.                                          *)
Sound(r) ==
  /\ r \in Recipe /\ IsFiniteSet(r.tags) /\ Len(r.ingredients) \in 1..6
  /\ \E j \in DOMAIN Recipes : r.id = Recipes[j].id /\ r.tags \subseteq Recipes[j].tags

LEMMA NamesAreFinite ==
  ASSUME NEW r \in Recipe, Len(r.ingredients) \in 1..6
  PROVE  /\ IsFiniteSet(NamesIn(r)) /\ IsFiniteSet(DOMAIN r.ingredients)
         /\ Cardinality(NamesIn(r)) \in Nat \ {0} /\ Cardinality(NamesIn(r)) <= 6
         /\ \A k \in DOMAIN r.ingredients : r.ingredients[k] \in Ingredient /\ r.ingredients[k].name \in NamesIn(r)
  <1> DEFINE n == Len(r.ingredients)
             Name1(k) == r.ingredients[k].name
  <1>1. /\ n \in 1..6 /\ DOMAIN r.ingredients = 1..n
        /\ \A k \in 1..n : r.ingredients[k] \in Ingredient
    BY Indices DEF Recipe
  <1> HIDE DEF n
  <1>2. IsFiniteSet(1..n) /\ Cardinality(1..n) = n
    <2>1. 1 \in Int /\ n \in Int /\ n >= 1
      BY <1>1
    <2>2. IsFiniteSet(1..n) /\ Cardinality(1..n) = IF 1 > n THEN 0 ELSE n - 1 + 1
      BY <2>1, FS_Interval
    <2> QED
      BY <2>1, <2>2
  <1>3. NamesIn(r) = {Name1(k) : k \in 1..n}
    BY <1>1 DEF NamesIn
  <1>4. NamesIn(r) # {}
    <2>1. 1 \in 1..n
      BY <1>1
    <2>2. Name1(1) \in NamesIn(r)
      BY <1>3, <2>1
    <2> QED
      BY <2>2
  <1>5. IsFiniteSet(NamesIn(r)) /\ Cardinality(NamesIn(r)) <= n
    <2> DEFINE f == [k \in 1..n |-> Name1(k)]
    <2>1. f \in Surjection(1..n, NamesIn(r))
      BY <1>3 DEF Surjection
    <2> HIDE DEF f
    <2> QED
      BY <1>2, <2>1, FS_Surjection
  <1>6. Cardinality(NamesIn(r)) \in Nat /\ Cardinality(NamesIn(r)) # 0
    BY <1>4, <1>5, FS_CardinalityType, FS_EmptySet
  <1> QED
    BY <1>1, <1>2, <1>3, <1>5, <1>6

LEMMA CoveredIs ==
  ASSUME NEW r \in Recipe, Len(r.ingredients) \in 1..6, NEW S
  PROVE  /\ Covered(r, S) \subseteq NamesIn(r) /\ IsFiniteSet(Covered(r, S))
         /\ Cardinality(Covered(r, S)) \in Nat /\ Cardinality(Covered(r, S)) <= Cardinality(NamesIn(r))
  <1>1. Covered(r, S) \subseteq NamesIn(r)
    BY DEF Covered
  <1> QED
    BY <1>1, NamesAreFinite, FS_Subset, FS_CardinalityType

(* The points of an urgent item, and the items that count.                 *)
Points(i) == IF get_urgency_bucket(i.days) \in {"expired", "today"} THEN 1800
             ELSE IF get_urgency_bucket(i.days) = "this_week" THEN 900 ELSE 0
Matching(S, covered) ==
  {i \in Usable(S) : \/ i.name \in covered
                     \/ _normalize_ingredient(i.name) \in {_normalize_ingredient(c) : c \in covered}}

Urgent(S, covered) == SumFunctionOnSet([i \in Matching(S, covered) |-> Points(i)], Matching(S, covered))

LEMMA UrgencyBonusIs ==
  ASSUME NEW S, Stocked(S), NEW covered
  PROVE  /\ Urgent(S, covered) \in Nat /\ IsFiniteSet(Matching(S, covered))
         /\ _urgency_bonus(S, covered) = IF Urgent(S, covered) > 2400 THEN 2400 ELSE Urgent(S, covered)
         /\ _urgency_bonus(S, covered) \in Nat
  <1> DEFINE M == Matching(S, covered)
             f == [i \in M |-> Points(i)]
             total == SumFunctionOnSet(f, M)
  <1>1. IsFiniteSet(M)
    <2>1. M \subseteq Usable(S)
      BY DEF Matching
    <2> QED
      BY <2>1, NamedIs, FS_Subset
  <1>2. \A i \in M : f[i] \in Nat
    BY DEF Points
  <1>3. total \in Nat
    <2> HIDE DEF f, M
    <2> QED
      BY <1>1, <1>2, SumNat
  <1>4. _urgency_bonus(S, covered) = IF total > 2400 THEN 2400 ELSE total
    <2>1. _urgency_bonus(S, covered) = IF SumFunction(f) > 2400 THEN 2400 ELSE SumFunction(f)
      BY Zenon DEF _urgency_bonus, Matching, Points
    <2>2. SumFunction(f) = total
      BY DEF SumFunction
    <2> HIDE DEF f, total
    <2> QED
      BY <2>1, <2>2
  <1>5. _urgency_bonus(S, covered) \in Nat
    <2> HIDE DEF total
    <2> QED
      BY <1>3, <1>4
  <1> QED
    BY <1>1, <1>3, <1>4, <1>5 DEF Urgent

(* What stands for an ingredient.                                          *)
LEMMA SubstitutesAre ==
  ASSUME NEW S, NEW name
  PROVE  /\ IsFiniteSet(Substitutes(S, name)) /\ Cardinality(Substitutes(S, name)) \in Nat
         /\ Cardinality(Substitutes(S, name)) <= 2
  <1>1. CASE name \in DOMAIN SUBSTITUTIONS
    <2>1. Substitutes(S, name) \subseteq SUBSTITUTIONS[name]
      BY <1>1 DEF Substitutes
    <2>2. IsFiniteSet(SUBSTITUTIONS[name]) /\ Cardinality(SUBSTITUTIONS[name]) <= 2
      BY <1>1, SuggestionsAssumption
    <2>3. IsFiniteSet(Substitutes(S, name)) /\ Cardinality(Substitutes(S, name)) <= Cardinality(SUBSTITUTIONS[name])
      BY <2>1, <2>2, FS_Subset
    <2>4. Cardinality(Substitutes(S, name)) \in Nat /\ Cardinality(SUBSTITUTIONS[name]) \in Nat
      BY <2>2, <2>3, FS_CardinalityType
    <2> QED
      BY <2>2, <2>3, <2>4
  <1>2. CASE name \notin DOMAIN SUBSTITUTIONS
    BY <1>2, FS_EmptySet DEF Substitutes
  <1> QED
    BY <1>1, <1>2

Lacking(r, S) == {k \in DOMAIN r.ingredients : r.ingredients[k].name \notin Covered(r, S)}
Stands(r, S) == [k \in Lacking(r, S) |-> 300 * Cardinality(Substitutes(S, r.ingredients[k].name))]
Standing(r, S) == SumFunctionOnSet(Stands(r, S), Lacking(r, S))

LEMMA StandingIs ==
  ASSUME NEW r \in Recipe, Len(r.ingredients) \in 1..6, NEW S
  PROVE  /\ Standing(r, S) \in Nat /\ IsFiniteSet(Lacking(r, S))
         /\ SumFunction(Stands(r, S)) = Standing(r, S)
         /\ \A k \in Lacking(r, S) : Stands(r, S)[k] \in Nat /\ Stands(r, S)[k] <= 600
  <1>1. IsFiniteSet(Lacking(r, S))
    <2>1. Lacking(r, S) \subseteq DOMAIN r.ingredients
      BY DEF Lacking
    <2> QED
      BY <2>1, NamesAreFinite, FS_Subset
  <1>2. ASSUME NEW k \in Lacking(r, S) PROVE Stands(r, S)[k] \in Nat /\ Stands(r, S)[k] <= 600
    <2>1. Stands(r, S)[k] = 300 * Cardinality(Substitutes(S, r.ingredients[k].name))
      BY DEF Stands
    <2>2. PICK n \in Nat : n = Cardinality(Substitutes(S, r.ingredients[k].name)) /\ n <= 2
      BY SubstitutesAre
    <2> QED
      BY <2>1, <2>2
  <1>3. Standing(r, S) \in Nat
    BY <1>1, <1>2, SumNat DEF Standing
  <1>4. SumFunction(Stands(r, S)) = Standing(r, S)
    <2>1. DOMAIN Stands(r, S) = Lacking(r, S)
      BY DEF Stands
    <2> QED
      BY <2>1 DEF SumFunction, Standing
  <1> QED
    BY <1>1, <1>2, <1>3, <1>4

LEMMA ScoreIs ==
  ASSUME NEW r \in Recipe, Len(r.ingredients) \in 1..6, NEW S, NEW preferences
  PROVE  /\ score_breakdown(r, S, preferences).score =
              (3000 * Cardinality(Covered(r, S))) \div Cardinality(NamesIn(r))
                + _urgency_bonus(S, Covered(r, S)) + AtLeastZero(600 - 6 * r.prep)
                + _dietary_fit_bonus(r, preferences)
                + (IF Standing(r, S) > 900 THEN 900 ELSE Standing(r, S))
         /\ score_breakdown(r, S, preferences).missing =
              {r.ingredients[k].name : k \in {j \in Lacking(r, S) : Substitutes(S, r.ingredients[j].name) = {}}}
  <1> DEFINE standing == SumFunction(Stands(r, S))
  <1>1. score_breakdown(r, S, preferences) =
          [score |-> (3000 * Cardinality(Covered(r, S))) \div Cardinality(NamesIn(r))
                + _urgency_bonus(S, Covered(r, S)) + AtLeastZero(600 - 6 * r.prep)
                + _dietary_fit_bonus(r, preferences)
                + (IF standing > 900 THEN 900 ELSE standing),
           missing |-> {r.ingredients[k].name : k \in {j \in Lacking(r, S) : Substitutes(S, r.ingredients[j].name) = {}}}]
    BY Zenon DEF score_breakdown, Stands, Lacking
  <1>2. standing = Standing(r, S)
    BY StandingIs
  <1> HIDE DEF standing
  <1> QED
    BY <1>1, <1>2

LEMMA ScoreIsInt ==
  ASSUME NEW r \in Recipe, Len(r.ingredients) \in 1..6, IsFiniteSet(r.tags), NEW S, Stocked(S), NEW preferences
  PROVE  /\ score_breakdown(r, S, preferences).score \in Int
         /\ score_breakdown(r, S, preferences).missing \subseteq NamesIn(r)
  <1>1. _dietary_fit_bonus(r, preferences) \in Int
    <2>1. IsFiniteSet(preferences \cap r.tags)
      BY FS_Subset
    <2>2. Cardinality(preferences \cap r.tags) \in Nat
      BY <2>1, FS_CardinalityType
    <2>3. PICK n \in Nat : n = Cardinality(preferences \cap r.tags)
      BY <2>2
    <2> QED
      BY <2>3 DEF _dietary_fit_bonus
  <1>2. PICK c \in Nat, n \in Nat \ {0} : c = Cardinality(Covered(r, S)) /\ n = Cardinality(NamesIn(r))
    BY CoveredIs, NamesAreFinite
  <1>3. (3000 * c) \div n \in Int
    BY <1>2
  <1>4. AtLeastZero(600 - 6 * r.prep) \in Int
    <2>1. r.prep \in Nat
      BY DEF Recipe
    <2> QED
      BY <2>1 DEF AtLeastZero
  <1>5. _urgency_bonus(S, Covered(r, S)) \in Int
    <2>1. PICK covered : covered = Covered(r, S)
      OBVIOUS
    <2>2. _urgency_bonus(S, covered) \in Nat
      BY UrgencyBonusIs
    <2> QED
      BY <2>1, <2>2
  <1>6. Standing(r, S) \in Int
    <2>1. Standing(r, S) \in Nat
      BY StandingIs
    <2> QED
      BY <2>1
  <1>7. score_breakdown(r, S, preferences).score \in Int
    <2>1. PICK a, b, d, e, f : /\ a = (3000 * c) \div n /\ b = _urgency_bonus(S, Covered(r, S))
                               /\ d = AtLeastZero(600 - 6 * r.prep) /\ e = _dietary_fit_bonus(r, preferences)
                               /\ f = Standing(r, S)
      OBVIOUS
    <2>2. score_breakdown(r, S, preferences).score = a + b + d + e + (IF f > 900 THEN 900 ELSE f)
      BY <1>2, <2>1, ScoreIs
    <2>3. a \in Int /\ b \in Int /\ d \in Int /\ e \in Int /\ f \in Int
      BY <1>1, <1>3, <1>4, <1>5, <1>6, <2>1
    <2> QED
      BY <2>2, <2>3
  <1>8. score_breakdown(r, S, preferences).missing \subseteq NamesIn(r)
    <2>1. PICK m : m = score_breakdown(r, S, preferences).missing
      OBVIOUS
    <2>2. m = {r.ingredients[k].name : k \in {j \in Lacking(r, S) : Substitutes(S, r.ingredients[j].name) = {}}}
      BY <2>1, ScoreIs
    <2> QED
      BY <2>1, <2>2 DEF Lacking, NamesIn
  <1> QED
    BY <1>7, <1>8

(* What a ranking shows.                                                   *)
LEMMA RankingIs ==
  ASSUME NEW rs \in Seq(Recipe), \A k \in DOMAIN rs : Sound(rs[k]), NEW S, Stocked(S), NEW q, NEW R, R = Ranking(rs, S, q)
  PROVE  /\ \E top \in Nat : top <= Shown /\ DOMAIN R = 1..top /\ Len(R) = top
         /\ \A n \in DOMAIN R : /\ Sound(R[n].recipe) /\ q.tags \subseteq R[n].recipe.tags
                                /\ R[n].missing \subseteq NamesIn(R[n].recipe)
  <1> DEFINE fit == {k \in DOMAIN rs : Matches(rs[k], q)}
             score == [k \in fit |-> score_breakdown(rs[k], S, q.tags).score]
             Before == {ab \in fit \X fit : \/ score[ab[1]] > score[ab[2]]
                                            \/ score[ab[1]] = score[ab[2]] /\ ab[1] < ab[2]}
             top == IF Cardinality(fit) < Shown THEN Cardinality(fit) ELSE Shown
             Best(n) == rs[Nth(fit, Before, n)]
  <1>1. R = [n \in 1..top |-> [recipe |-> Best(n), missing |-> score_breakdown(Best(n), S, q.tags).missing]]
    BY Zenon DEF Ranking
  <1>2. PICK m \in Nat : DOMAIN rs = 1..m
    BY Indices
  <1>3. IsFiniteSet(fit) /\ Cardinality(fit) \in Nat
    <2>1. fit \in SUBSET (1..m) /\ IsFiniteSet(1..m)
      BY <1>2, FS_Interval
    <2> QED
      BY <2>1, FS_Subset, FS_CardinalityType
  <1>4. \A k \in fit : k \in Int /\ score[k] \in Int /\ Sound(rs[k]) /\ q.tags \subseteq rs[k].tags
    <2> TAKE k \in fit
    <2>1. k \in 1..m /\ Sound(rs[k]) /\ q.tags \subseteq rs[k].tags
      BY <1>2 DEF Matches
    <2>2. score_breakdown(rs[k], S, q.tags).score \in Int
      BY <2>1, ScoreIsInt DEF Sound
    <2> QED
      BY <2>1, <2>2
  <1>5. Orders(Before, fit)
    <2>1. \A a, b \in fit : <<a, b>> \in Before <=> score[a] > score[b] \/ (score[a] = score[b] /\ a < b)
      OBVIOUS
    <2> HIDE DEF Before, fit, score
    <2>2. \A a, b \in fit : a # b => <<a, b>> \in Before \/ <<b, a>> \in Before
      BY <1>4, <2>1
    <2>3. \A a \in fit : <<a, a>> \notin Before
      BY <1>4, <2>1
    <2>4. \A a, b, c \in fit : <<a, b>> \in Before /\ <<b, c>> \in Before => <<a, c>> \in Before
      BY <1>4, <2>1
    <2> QED
      BY <2>2, <2>3, <2>4 DEF Orders
  <1>6. top \in Nat /\ top <= Shown /\ top <= Cardinality(fit)
    <2> HIDE DEF fit
    <2> QED
      BY <1>3, SuggestionsAssumption
  <1> HIDE DEF Before, fit, score, top
  <1>7. DOMAIN R = 1..top
    BY <1>1
  <1>8. Len(R) = top
    <2> DEFINE V == {R[n] : n \in 1..top}
    <2>1. R \in [1..top -> V]
      BY <1>1
    <2>2. R \in Seq(V)
      <3>1. \A l \in Nat : \A f \in [1..l -> V] : f \in Seq(V)
        <4> HIDE DEF V
        <4> QED
          BY SeqDef
      <3> HIDE DEF V
      <3> QED
        BY <1>6, <2>1, <3>1
    <2>3. Len(R) \in Nat /\ DOMAIN R = 1..Len(R)
      BY <2>2, Indices
    <2>4. PICK n : n = Len(R)
      OBVIOUS
    <2> HIDE DEF V
    <2>5. n \in Nat /\ 1..n = 1..top
      BY <1>7, <2>3, <2>4
    <2> QED
      BY <1>6, <2>4, <2>5, SameLength
  <1>9. ASSUME NEW n \in DOMAIN R
        PROVE  /\ Sound(R[n].recipe) /\ q.tags \subseteq R[n].recipe.tags
               /\ R[n].missing \subseteq NamesIn(R[n].recipe)
    <2>1. n \in 1..Cardinality(fit)
      BY <1>3, <1>6, <1>7
    <2>2. Nth(fit, Before, n) \in fit
      BY <1>3, <1>5, <2>1, NthExists
    <2>3. Sound(Best(n)) /\ q.tags \subseteq Best(n).tags
      BY <1>4, <2>2
    <2> HIDE DEF Best
    <2>4. R[n] = [recipe |-> Best(n), missing |-> score_breakdown(Best(n), S, q.tags).missing]
      BY <1>1, <1>7
    <2>5. PICK r : r = Best(n)
      OBVIOUS
    <2>6. score_breakdown(r, S, q.tags).missing \subseteq NamesIn(r)
      BY <2>3, <2>5, ScoreIsInt DEF Sound
    <2> QED
      BY <2>3, <2>4, <2>5, <2>6
  <1> QED
    BY <1>6, <1>7, <1>8, <1>9

----------------------------------------------------------------------------
(* The planner's choice.                                                   *)
Tuple5(a) == DOMAIN a = 1..5 /\ \A k \in 1..5 : a[k] \in Int

LEMMA BeatsIs ==
  ASSUME NEW a, NEW b, Tuple5(a), Tuple5(b)
  PROVE  Beats(a, b) <=> \/ a[1] > b[1]
                         \/ a[1] = b[1] /\ a[2] > b[2]
                         \/ a[1] = b[1] /\ a[2] = b[2] /\ a[3] > b[3]
                         \/ a[1] = b[1] /\ a[2] = b[2] /\ a[3] = b[3] /\ a[4] > b[4]
                         \/ a[1] = b[1] /\ a[2] = b[2] /\ a[3] = b[3] /\ a[4] = b[4] /\ a[5] > b[5]
  <1> DEFINE At(k) == a[k] > b[k] /\ \A j \in 1..(k - 1) : a[j] = b[j]
  <1>1. Beats(a, b) <=> \E k \in 1..5 : At(k)
    BY DEF Beats, Tuple5
  <1>2. 1..5 = {1, 2, 3, 4, 5}
    OBVIOUS
  <1>3. Beats(a, b) <=> At(1) \/ At(2) \/ At(3) \/ At(4) \/ At(5)
    <2> HIDE DEF At
    <2> QED
      BY <1>1, <1>2
  <1>4. At(1) <=> a[1] > b[1]
    <2>1. 1..(1 - 1) = {}
      OBVIOUS
    <2> QED
      BY <2>1
  <1>5. At(2) <=> a[1] = b[1] /\ a[2] > b[2]
    <2>1. 1..(2 - 1) = {1}
      OBVIOUS
    <2> QED
      BY <2>1
  <1>6. At(3) <=> a[1] = b[1] /\ a[2] = b[2] /\ a[3] > b[3]
    <2>1. 1..(3 - 1) = {1, 2}
      OBVIOUS
    <2> QED
      BY <2>1
  <1>7. At(4) <=> a[1] = b[1] /\ a[2] = b[2] /\ a[3] = b[3] /\ a[4] > b[4]
    <2>1. 1..(4 - 1) = {1, 2, 3}
      OBVIOUS
    <2> QED
      BY <2>1
  <1>8. At(5) <=> a[1] = b[1] /\ a[2] = b[2] /\ a[3] = b[3] /\ a[4] = b[4] /\ a[5] > b[5]
    <2>1. 1..(5 - 1) = {1, 2, 3, 4}
      OBVIOUS
    <2> QED
      BY <2>1
  <1> HIDE DEF At
  <1> QED
    BY <1>3, <1>4, <1>5, <1>6, <1>7, <1>8

(* Who beats one that another does not beat, beats the other.              *)
LEMMA BeatsInOrder ==
  ASSUME NEW a, NEW b, NEW c, Tuple5(a), Tuple5(b), Tuple5(c)
  PROVE  /\ ~ Beats(a, a)
         /\ Beats(a, b) /\ ~ Beats(c, b) => Beats(a, c) /\ ~ Beats(c, a)
  <1> DEFINE B(x, y) == \/ x[1] > y[1]
                        \/ x[1] = y[1] /\ x[2] > y[2]
                        \/ x[1] = y[1] /\ x[2] = y[2] /\ x[3] > y[3]
                        \/ x[1] = y[1] /\ x[2] = y[2] /\ x[3] = y[3] /\ x[4] > y[4]
                        \/ x[1] = y[1] /\ x[2] = y[2] /\ x[3] = y[3] /\ x[4] = y[4] /\ x[5] > y[5]
  <1>1. /\ Beats(a, a) <=> B(a, a)
        /\ Beats(a, b) <=> B(a, b)
        /\ Beats(c, b) <=> B(c, b)
        /\ Beats(a, c) <=> B(a, c)
        /\ Beats(c, a) <=> B(c, a)
    BY BeatsIs
  <1>2. /\ a[1] \in Int /\ a[2] \in Int /\ a[3] \in Int /\ a[4] \in Int /\ a[5] \in Int
        /\ b[1] \in Int /\ b[2] \in Int /\ b[3] \in Int /\ b[4] \in Int /\ b[5] \in Int
        /\ c[1] \in Int /\ c[2] \in Int /\ c[3] \in Int /\ c[4] \in Int /\ c[5] \in Int
    BY DEF Tuple5
  <1>3. ~ B(a, a) /\ (B(a, b) /\ ~ B(c, b) => B(a, c) /\ ~ B(c, a))
    BY <1>2
  <1> HIDE DEF B
  <1> QED
    BY <1>1, <1>3

LEMMA FirstBest ==
  ASSUME NEW sc, NEW n \in Nat \ {0}, \A k \in 1..n : Tuple5(sc[k])
  PROVE  \E k \in 1..n : /\ \A j \in 1..n : ~ Beats(sc[j], sc[k])
                         /\ \A j \in 1..(k - 1) : Beats(sc[k], sc[j])
  <1> DEFINE Q(m, k) == /\ k \in 1..m /\ \A j \in 1..m : ~ Beats(sc[j], sc[k])
                        /\ \A j \in 1..(k - 1) : Beats(sc[k], sc[j])
             T == {m \in Nat : m # 0 /\ m <= n => \E k : Q(m, k)}
  <1>1. 0 \in T
    OBVIOUS
  <1>2. ASSUME NEW m \in Nat, m \in T PROVE m + 1 \in T
    <2> SUFFICES ASSUME m + 1 <= n PROVE \E k : Q(m + 1, k)
      OBVIOUS
    <2>1. m + 1 \in 1..n /\ 1..(m + 1) = 1..m \cup {m + 1} /\ m <= n /\ 1..m \subseteq 1..n
      OBVIOUS
    <2>2. CASE m = 0
      <3>1. 1..(m + 1) = {m + 1} /\ 1..((m + 1) - 1) = {}
        BY <2>2
      <3>2. ~ Beats(sc[m + 1], sc[m + 1])
        BY <2>1, BeatsInOrder
      <3>3. Q(m + 1, m + 1)
        BY <3>1, <3>2
      <3> HIDE DEF Q
      <3> QED
        BY <3>3
    <2>3. CASE m # 0
      <3>1. PICK k : Q(m, k)
        BY <1>2, <2>1, <2>3
      <3>2. k \in 1..m /\ k \in 1..n /\ k \in 1..(m + 1)
        BY <2>1, <3>1
      <3>3. CASE Beats(sc[m + 1], sc[k])
        <4>1. ASSUME NEW j \in 1..m PROVE Beats(sc[m + 1], sc[j]) /\ ~ Beats(sc[j], sc[m + 1])
          <5>1. ~ Beats(sc[j], sc[k])
            BY <3>1
          <5>2. Tuple5(sc[j]) /\ Tuple5(sc[k]) /\ Tuple5(sc[m + 1])
            BY <2>1, <3>2
          <5> QED
            BY <3>3, <5>1, <5>2, BeatsInOrder
        <4>2. ~ Beats(sc[m + 1], sc[m + 1])
          BY <2>1, BeatsInOrder
        <4>3. (m + 1) - 1 = m /\ m + 1 \in 1..(m + 1)
          OBVIOUS
        <4>4. Q(m + 1, m + 1)
          BY <2>1, <4>1, <4>2, <4>3
        <4> HIDE DEF Q
        <4> QED
          BY <4>4
      <3>4. CASE ~ Beats(sc[m + 1], sc[k])
        <4>1. Q(m + 1, k)
          BY <2>1, <3>1, <3>2, <3>4
        <4> HIDE DEF Q
        <4> QED
          BY <4>1
      <3> QED
        BY <3>3, <3>4
    <2> QED
      BY <2>2, <2>3
  <1>3. Nat \subseteq T
    <2> HIDE DEF T
    <2> QED
      BY <1>1, <1>2, NatSetInduction
  <1>4. n \in T
    BY <1>3
  <1>5. PICK k : Q(n, k)
    BY <1>4
  <1> QED
    BY <1>5

(* What the recipe can take of what is left, and what it gains by it.      *)
TakenBy(r, rem) == {k \in DOMAIN r.ingredients : Takes(rem, r.ingredients[k])}
Gain(r, rem, k) == Urgency[get_urgency_bucket(rem[r.ingredients[k].name].days)]
                     + AtLeastZero(30 - rem[r.ingredients[k].name].days)
Gains(r, rem) == SumFunctionOnSet([k \in TakenBy(r, rem) |-> Gain(r, rem, k)], TakenBy(r, rem))

LEMMA UrgencyIs ==
  ASSUME NEW days \in Int
  PROVE  /\ Urgency[get_urgency_bucket(days)] + AtLeastZero(30 - days) \in Nat
         /\ Urgency[get_urgency_bucket(days)] + AtLeastZero(30 - days) > 0
  <1>1. AtLeastZero(30 - days) \in Nat
    BY ZeroOrMore
  <1>2. Urgency[get_urgency_bucket(days)] \in {500, 400, 200, 100}
    <2>1. get_urgency_bucket(days) \in {"expired", "today", "this_week", "safe_later"}
      BY DEF get_urgency_bucket
    <2> QED
      BY <2>1 DEF Urgency
  <1>3. PICK a, b : a = Urgency[get_urgency_bucket(days)] /\ b = AtLeastZero(30 - days)
    OBVIOUS
  <1>4. a + b \in Nat /\ a + b > 0
    BY <1>1, <1>2, <1>3
  <1> QED
    BY <1>3, <1>4

LEMMA DayScoreIs ==
  ASSUME NEW r \in Recipe, Len(r.ingredients) \in 1..6, NEW rem, NEW begun, Left(rem, begun), NEW used, NEW servings,
         NEW score, score = _score_recipe(r, rem, used, servings)
  PROVE  /\ Tuple5(score) /\ score[1] = Gains(r, rem)
         /\ score[3] = Cardinality(TakenBy(r, rem)) /\ score[4] = IF r.id \in used THEN 0 ELSE 1
         /\ score[2] \in Nat /\ score[2] <= score[3]
         /\ IsFiniteSet(TakenBy(r, rem)) /\ \A k \in TakenBy(r, rem) : Gain(r, rem, k) \in Nat /\ Gain(r, rem, k) > 0
  <1> DEFINE f == [k \in TakenBy(r, rem) |-> Gain(r, rem, k)]
             whole == {k \in TakenBy(r, rem) : rem[r.ingredients[k].name].quantity >= Needed(r.ingredients[k], servings).quantity}
  <1>1. score = <<SumFunction(f), Cardinality(whole), Cardinality(TakenBy(r, rem)),
                  IF r.id \in used THEN 0 ELSE 1, - r.prep>>
    BY Zenon DEF _score_recipe, TakenBy, Gain
  <1>2. IsFiniteSet(TakenBy(r, rem)) /\ IsFiniteSet(whole) /\ Cardinality(whole) <= Cardinality(TakenBy(r, rem))
    <2>1. TakenBy(r, rem) \subseteq DOMAIN r.ingredients
      BY DEF TakenBy
    <2>2. IsFiniteSet(TakenBy(r, rem))
      BY <2>1, NamesAreFinite, FS_Subset
    <2>3. whole \subseteq TakenBy(r, rem)
      OBVIOUS
    <2> QED
      BY <2>2, <2>3, FS_Subset
  <1>3. ASSUME NEW k \in TakenBy(r, rem) PROVE Gain(r, rem, k) \in Nat /\ Gain(r, rem, k) > 0
    <2>1. rem[r.ingredients[k].name].days \in Int
      BY DEF TakenBy, Takes, Left
    <2> QED
      BY <2>1, UrgencyIs DEF Gain
  <1>4. SumFunction(f) = Gains(r, rem)
    <2>1. DOMAIN f = TakenBy(r, rem)
      OBVIOUS
    <2>2. SumFunction(f) = SumFunctionOnSet(f, DOMAIN f)
      BY DEF SumFunction
    <2> QED
      BY <2>1, <2>2 DEF Gains
  <1>5. Gains(r, rem) \in Nat
    <2>1. \A k \in TakenBy(r, rem) : f[k] \in Nat
      BY <1>3
    <2> HIDE DEF f
    <2>2. SumFunctionOnSet(f, TakenBy(r, rem)) \in Nat
      BY <1>2, <2>1, SumNat
    <2> QED
      BY <2>2 DEF Gains, f
  <1>6. Cardinality(whole) \in Nat /\ Cardinality(TakenBy(r, rem)) \in Nat
    BY <1>2, FS_CardinalityType
  <1>7. r.prep \in Nat
    BY DEF Recipe
  <1> HIDE DEF f, whole
  <1>8. PICK a, b, c, d, e : /\ a = Gains(r, rem) /\ b = Cardinality(whole) /\ c = Cardinality(TakenBy(r, rem))
                             /\ d = (IF r.id \in used THEN 0 ELSE 1) /\ e = - r.prep
    OBVIOUS
  <1>9. score = <<a, b, c, d, e>>
    BY <1>1, <1>4, <1>8
  <1>10. a \in Int /\ b \in Int /\ c \in Int /\ d \in Int /\ e \in Int
    BY <1>5, <1>6, <1>7, <1>8
  <1>11. Tuple5(score)
    BY <1>9, <1>10 DEF Tuple5
  <1>12. score[1] = a /\ score[2] = b /\ score[3] = c /\ score[4] = d
    BY <1>9
  <1> QED
    BY <1>2, <1>3, <1>6, <1>8, <1>11, <1>12

(* The planner takes a recipe that no other beats.                         *)
LEMMA BestIs ==
  ASSUME NEW rs \in Seq(Recipe), rs # <<>>, \A k \in DOMAIN rs : Len(rs[k].ingredients) \in 1..6,
         NEW rem, NEW begun, Left(rem, begun), NEW used, NEW servings
  PROVE  \E k \in DOMAIN rs :
           /\ _pick_best_recipe(rs, rem, used, servings) = rs[k]
           /\ \A j \in DOMAIN rs : ~ Beats(_score_recipe(rs[j], rem, used, servings),
                                           _score_recipe(rs[k], rem, used, servings))
  <1> DEFINE sc == [k \in DOMAIN rs |-> _score_recipe(rs[k], rem, used, servings)]
             Fit(k) == /\ \A j \in DOMAIN rs : ~ Beats(sc[j], sc[k])
                       /\ \A j \in 1..(k - 1) : Beats(sc[k], sc[j])
             Fits(k) == /\ \A j \in DOMAIN rs : ~ Beats(_score_recipe(rs[j], rem, used, servings), _score_recipe(rs[k], rem, used, servings))
                        /\ \A j \in 1..(k - 1) : Beats(_score_recipe(rs[k], rem, used, servings), _score_recipe(rs[j], rem, used, servings))
  <1>1. PICK n \in Nat \ {0} : DOMAIN rs = 1..n /\ \A k \in 1..n : rs[k] \in Recipe
    <2>1. Len(rs) \in Nat /\ DOMAIN rs = 1..Len(rs) /\ \A k \in DOMAIN rs : rs[k] \in Recipe
      BY Indices
    <2>2. Len(rs) # 0
      BY EmptySeq
    <2> QED
      BY <2>1, <2>2
  <1>2. \A k \in 1..n : Tuple5(sc[k])
    <2> TAKE k \in 1..n
    <2>1. rs[k] \in Recipe /\ Len(rs[k].ingredients) \in 1..6
      BY <1>1
    <2>2. PICK s : s = _score_recipe(rs[k], rem, used, servings)
      OBVIOUS
    <2>3. Tuple5(s)
      BY <2>1, <2>2, DayScoreIs
    <2> QED
      BY <1>1, <2>2, <2>3
  <1>3. PICK k \in 1..n : /\ \A j \in 1..n : ~ Beats(sc[j], sc[k])
                          /\ \A j \in 1..(k - 1) : Beats(sc[k], sc[j])
    <2> HIDE DEF sc
    <2> QED
      BY <1>2, FirstBest
  <1>4. \A i \in 1..n : Fit(i) <=> Fits(i)
    <2> TAKE i \in 1..n
    <2>1. 1..(i - 1) \subseteq 1..n
      OBVIOUS
    <2>2. \A j \in 1..n : sc[j] = _score_recipe(rs[j], rem, used, servings)
      BY <1>1
    <2> HIDE DEF sc
    <2> QED
      BY <1>1, <2>1, <2>2
  <1>5. Fits(k)
    BY <1>1, <1>3, <1>4
  <1>6. _pick_best_recipe(rs, rem, used, servings) = rs[CHOOSE i \in DOMAIN rs : Fits(i)]
    BY Zenon DEF _pick_best_recipe
  <1>7. (CHOOSE i \in DOMAIN rs : Fits(i)) \in DOMAIN rs /\ Fits(CHOOSE i \in DOMAIN rs : Fits(i))
    <2> HIDE DEF Fits
    <2> QED
      BY <1>1, <1>5
  <1>8. PICK i \in DOMAIN rs : _pick_best_recipe(rs, rem, used, servings) = rs[i] /\ Fits(i)
    <2> HIDE DEF Fits
    <2> QED
      BY <1>6, <1>7
  <1> QED
    BY <1>8, SMTT(30)

----------------------------------------------------------------------------
(* What the days of a plan need of a name.                                 *)
Uses(r, name) == {k \in DOMAIN r.ingredients : r.ingredients[k].name = name}
UseOf(r, servings) == [k \in DOMAIN r.ingredients |-> Needed(r.ingredients[k], servings).quantity]
DayNeeds(r, servings, name) == SumFunctionOnSet(UseOf(r, servings), Uses(r, name))

UsedIn(r, name, unit) == \A k \in Uses(r, name) : Base(r.ingredients[k].unit)[1] = unit

LEMMA UsesAre ==
  ASSUME NEW r \in Recipe, Len(r.ingredients) \in 1..6, NEW servings \in Nat, NEW name
  PROVE  /\ IsFiniteSet(Uses(r, name)) /\ Uses(r, name) \subseteq DOMAIN r.ingredients
         /\ \A k \in DOMAIN r.ingredients : UseOf(r, servings)[k] \in Nat
         /\ DayNeeds(r, servings, name) \in Nat
  <1>1. IsFiniteSet(Uses(r, name)) /\ Uses(r, name) \subseteq DOMAIN r.ingredients
    <2>1. Uses(r, name) \subseteq DOMAIN r.ingredients
      BY DEF Uses
    <2> QED
      BY <2>1, NamesAreFinite, FS_Subset
  <1>2. ASSUME NEW k \in DOMAIN r.ingredients PROVE UseOf(r, servings)[k] \in Nat
    <2>1. r.ingredients[k] \in Ingredient
      BY NamesAreFinite
    <2>2. r.ingredients[k].quantity \in Nat
      BY <2>1 DEF Ingredient
    <2>3. Needed(r.ingredients[k], servings).quantity \in Nat
      BY <2>2, NeededIsNat
    <2> QED
      BY <2>3 DEF UseOf
  <1>3. DayNeeds(r, servings, name) \in Nat
    BY <1>1, <1>2, SumNat DEF DayNeeds
  <1> QED
    BY <1>1, <1>2, <1>3

LEMMA TakenTwice ==
  ASSUME NEW b \in Int, NEW s \in Int, NEW x \in Nat
  PROVE  AtLeastZero(AtLeastZero(b - s) - x) = AtLeastZero(b - (s + x))
  BY DEF AtLeastZero

(* What remains of b if n is taken.                                        *)
Rest(b, n) == AtLeastZero(b - n)

(* A day takes what it needs, or all there is.                             *)
LEMMA DayTakes ==
  ASSUME NEW r \in Recipe, Len(r.ingredients) \in 1..6, NEW servings \in Nat,
         NEW rem, NEW begun, Left(rem, begun), NEW name \in DOMAIN rem, NEW b \in Int, NEW s \in Int,
         rem[name].quantity = Rest(b, s),
         UsedIn(r, name, begun[name].unit),
         NEW next, next = _reserve_ingredients(r, rem, servings),
         NEW n, n = s + DayNeeds(r, servings, name)
  PROVE  next[name].quantity = Rest(b, n)
  <1> DEFINE f == UseOf(r, servings)
             U == Uses(r, name)
  <1>1. PICK l \in Nat : DOMAIN r.ingredients = 1..l
    BY Indices DEF Recipe
  <1>2. PICK h : /\ h[0] = rem /\ h[l] = next
                 /\ \A k \in 1..l : h[k] = _reserve_ingredient(h[k - 1], r.ingredients[k], servings)
    BY <1>1, ReservedInOrder
  <1>3. /\ IsFiniteSet(U) /\ U \subseteq 1..l /\ \A k \in 1..l : f[k] \in Nat
        /\ \A k \in 1..l : r.ingredients[k] \in Ingredient
    BY <1>1, UsesAre, NamesAreFinite
  <1>4. \A k \in 1..l : f[k] = Needed(r.ingredients[k], servings).quantity
    BY <1>1 DEF UseOf
  <1>5. \A k \in 1..l : k \in U <=> r.ingredients[k].name = name
    BY <1>1 DEF Uses
  <1>6. \A k \in U : Base(r.ingredients[k].unit)[1] = begun[name].unit
    BY DEF UsedIn
  <1> HIDE DEF f, U
  <1> DEFINE Sum(k) == SumFunctionOnSet(f, U \cap (1..k))
             T == {k \in Nat : k <= l => Left(h[k], begun) /\ h[k][name].quantity = AtLeastZero(b - (s + Sum(k)))}
  <1>7. 0 \in T
    <2>1. U \cap (1..0) = {}
      OBVIOUS
    <2>2. IsFiniteSet({})
      BY FS_EmptySet
    <2>3. SumFunctionOnSet(f, {}) = 0
      BY <2>2, SumFirst
    <2>4. Sum(0) = 0
      BY <2>1, <2>3
    <2>5. s + Sum(0) = s
      BY <2>4
    <2> HIDE DEF Sum
    <2> QED
      BY <1>2, <2>5 DEF Rest
  <1>8. ASSUME NEW k \in Nat, k \in T PROVE k + 1 \in T
    <2> SUFFICES ASSUME k + 1 <= l
                 PROVE  Left(h[k + 1], begun) /\ h[k + 1][name].quantity = AtLeastZero(b - (s + Sum(k + 1)))
      OBVIOUS
    <2>1. /\ Left(h[k], begun) /\ h[k][name].quantity = AtLeastZero(b - (s + Sum(k)))
          /\ k + 1 \in 1..l /\ (k + 1) - 1 = k
      BY <1>8
    <2>2. PICK g \in Ingredient : g = r.ingredients[k + 1]
      BY <1>3, <2>1
    <2>3. PICK old, new : old = h[k] /\ new = h[k + 1]
      OBVIOUS
    <2>4. new = _reserve_ingredient(old, g, servings)
      BY <1>2, <2>1, <2>2, <2>3
    <2>5. Left(old, begun)
      BY <2>1, <2>3
    <2>6. /\ Left(new, begun) /\ name \in DOMAIN old /\ old[name].unit = begun[name].unit
          /\ new[name].quantity = IF name = g.name /\ old[name].unit = Base(g.unit)[1]
                                  THEN AtLeastZero(old[name].quantity - Needed(g, servings).quantity)
                                  ELSE old[name].quantity
      <3>1. name \in DOMAIN old /\ old[name].unit = begun[name].unit
        BY <2>5 DEF Left
      <3> QED
        BY <2>4, <2>5, <3>1, ReserveOne
    <2>7. U \cap (1..k) \subseteq U /\ IsFiniteSet(U \cap (1..k)) /\ \A j \in U \cap (1..k) : f[j] \in Int
      <3>1. IsFiniteSet(U \cap (1..k))
        BY <1>3, FS_Subset
      <3>2. \A j \in U \cap (1..k) : f[j] \in Int
        BY <1>3
      <3> QED
        BY <3>1, <3>2
    <2>8. Sum(k) \in Int
      BY <2>7, SumInt
    <2>9. 1..(k + 1) = (1..k) \cup {k + 1} /\ k + 1 \notin 1..k
      OBVIOUS
    <2>10. CASE k + 1 \in U
      <3>1. /\ U \cap (1..(k + 1)) = (U \cap (1..k)) \cup {k + 1}
            /\ (U \cap (1..k)) \cap {k + 1} = {}
        BY <2>9, <2>10
      <3>2. IsFiniteSet({k + 1}) /\ {k + 1} \ {k + 1} = {}
        BY FS_Singleton
      <3>3. f[k + 1] \in Nat /\ f[k + 1] = Needed(g, servings).quantity /\ g.name = name
        BY <1>3, <1>4, <1>5, <2>1, <2>2, <2>10
      <3>4. SumFunctionOnSet(f, {k + 1}) = f[k + 1]
        <4>1. \A j \in {k + 1} : f[j] \in Int
          BY <3>3
        <4>2. SumFunctionOnSet(f, {k + 1}) = f[k + 1] + SumFunctionOnSet(f, {k + 1} \ {k + 1})
          BY <3>2, <4>1, SumRemove
        <4>3. IsFiniteSet({}) /\ SumFunctionOnSet(f, {}) = 0
          <5>1. IsFiniteSet({})
            BY FS_EmptySet
          <5> QED
            BY <5>1, SumFirst
        <4>4. SumFunctionOnSet(f, {k + 1} \ {k + 1}) = 0
          BY <3>2, <4>3
        <4>5. PICK x, y : x \in Nat /\ x = f[k + 1] /\ y = SumFunctionOnSet(f, {k + 1})
          BY <3>3
        <4>6. y = x + 0
          BY <4>2, <4>4, <4>5
        <4> QED
          BY <4>5, <4>6
      <3>5. Sum(k + 1) = Sum(k) + f[k + 1]
        <4>1. \A j \in (U \cap (1..k)) \cup {k + 1} : f[j] \in Int
          BY <2>7, <3>3
        <4>2. SumFunctionOnSet(f, (U \cap (1..k)) \cup {k + 1})
                = SumFunctionOnSet(f, U \cap (1..k)) + SumFunctionOnSet(f, {k + 1})
          BY <2>7, <3>1, <3>2, <4>1, SumUnion
        <4> QED
          BY <3>1, <3>4, <4>2
      <3>6. Base(g.unit)[1] = begun[name].unit
        BY <1>6, <2>2, <2>10
      <3>7. new[name].quantity = AtLeastZero(old[name].quantity - f[k + 1])
        BY <2>6, <3>3, <3>6
      <3>8. PICK x \in Nat, t \in Int : x = f[k + 1] /\ t = Sum(k)
        BY <2>8, <3>3
      <3>9. new[name].quantity = AtLeastZero(AtLeastZero(b - (s + t)) - x)
        BY <2>1, <2>3, <3>7, <3>8
      <3>10. AtLeastZero(AtLeastZero(b - (s + t)) - x) = AtLeastZero(b - ((s + t) + x)) /\ (s + t) + x = s + (t + x)
        <4>1. PICK u \in Int : u = s + t
          BY <3>8
        <4>2. AtLeastZero(AtLeastZero(b - u) - x) = AtLeastZero(b - (u + x))
          BY <3>8, <4>1, TakenTwice, ZenonT(40)
        <4>3. (s + t) + x = s + (t + x)
          BY <3>8
        <4> QED
          BY <4>1, <4>2, <4>3
      <3>11. Sum(k + 1) = t + x
        BY <3>5, <3>8
      <3> HIDE DEF Sum
      <3> QED
        BY <2>3, <2>6, <3>9, <3>10, <3>11
    <2>11. CASE k + 1 \notin U
      <3>1. U \cap (1..(k + 1)) = U \cap (1..k)
        BY <2>9, <2>11
      <3>2. g.name # name
        BY <1>5, <2>1, <2>2, <2>11
      <3>3. Sum(k + 1) = Sum(k)
        BY <3>1
      <3> HIDE DEF Sum
      <3> QED
        BY <2>1, <2>3, <2>6, <3>2, <3>3
    <2> QED
      BY <2>10, <2>11
  <1>9. Nat \subseteq T
    <2> HIDE DEF T
    <2> QED
      BY <1>7, <1>8, NatSetInduction
  <1>10. h[l][name].quantity = AtLeastZero(b - (s + Sum(l)))
    <2>1. l \in T
      BY <1>9
    <2> HIDE DEF Sum
    <2> QED
      BY <2>1
  <1>11. Sum(l) = DayNeeds(r, servings, name)
    <2>1. U \cap (1..l) = U
      BY <1>3
    <2> QED
      BY <2>1 DEF DayNeeds, f, U
  <1> QED
    BY <1>2, <1>10, <1>11 DEF Rest

(* The lines of a plan.                                                    *)
LinesOf(days, name) ==
  {dk \in (DOMAIN days) \X (1..6) :
     dk[2] \in DOMAIN days[dk[1]].ingredients /\ days[dk[1]].ingredients[dk[2]].name = name}
LineNeeds(days, servings, dk) == Needed(days[dk[1]].ingredients[dk[2]], servings).quantity

PlanOfRecipes(days) == days \in Seq(Recipe) /\ \A d \in DOMAIN days : Len(days[d].ingredients) \in 1..6

LEMMA LinesAre ==
  ASSUME NEW days, PlanOfRecipes(days), NEW servings \in Nat, NEW name
  PROVE  /\ IsFiniteSet(LinesOf(days, name))
         /\ \A dk \in LinesOf(days, name) : LineNeeds(days, servings, dk) \in Nat
         /\ Required(days, servings, name) =
              SumFunctionOnSet([dk \in LinesOf(days, name) |-> LineNeeds(days, servings, dk)], LinesOf(days, name))
         /\ Required(days, servings, name) \in Nat
  <1>1. PICK n \in Nat : DOMAIN days = 1..n /\ \A d \in 1..n : days[d] \in Recipe /\ Len(days[d].ingredients) \in 1..6
    BY Indices DEF PlanOfRecipes
  <1>2. IsFiniteSet(LinesOf(days, name))
    <2>1. IsFiniteSet(1..n) /\ IsFiniteSet(1..6)
      <3>1. 1 \in Int /\ n \in Int /\ 6 \in Int
        OBVIOUS
      <3> QED
        BY <3>1, FS_Interval
    <2>2. IsFiniteSet((1..n) \X (1..6))
      BY <2>1, FS_Product
    <2>3. LinesOf(days, name) \subseteq (1..n) \X (1..6)
      BY <1>1 DEF LinesOf
    <2> QED
      BY <2>2, <2>3, FS_Subset
  <1>3. ASSUME NEW dk \in LinesOf(days, name) PROVE LineNeeds(days, servings, dk) \in Nat
    <2>1. dk[1] \in 1..n /\ dk[2] \in DOMAIN days[dk[1]].ingredients
      BY <1>1 DEF LinesOf
    <2>2. PICK r \in Recipe : r = days[dk[1]] /\ Len(r.ingredients) \in 1..6
      BY <1>1, <2>1
    <2>3. r.ingredients[dk[2]] \in Ingredient
      BY <2>1, <2>2, NamesAreFinite
    <2>4. r.ingredients[dk[2]].quantity \in Nat
      BY <2>3 DEF Ingredient
    <2> QED
      BY <2>2, <2>4, NeededIsNat DEF LineNeeds
  <1> DEFINE f == [dk \in LinesOf(days, name) |-> LineNeeds(days, servings, dk)]
  <1>4. Required(days, servings, name) = SumFunctionOnSet(f, LinesOf(days, name))
    <2>1. Required(days, servings, name) = SumFunction(f)
      BY Zenon DEF Required, LinesOf, LineNeeds
    <2>2. SumFunction(f) = SumFunctionOnSet(f, DOMAIN f)
      BY DEF SumFunction
    <2>3. DOMAIN f = LinesOf(days, name)
      OBVIOUS
    <2> QED
      BY <2>1, <2>2, <2>3
  <1>5. Required(days, servings, name) \in Nat
    <2>1. \A dk \in LinesOf(days, name) : f[dk] \in Nat
      BY <1>3
    <2> HIDE DEF f
    <2> QED
      BY <1>2, <1>4, <2>1, SumNat
  <1> QED
    BY <1>2, <1>3, <1>4, <1>5

(* One day more.                                                           *)
LEMMA RequiredByMore ==
  ASSUME NEW days, PlanOfRecipes(days), NEW r \in Recipe, Len(r.ingredients) \in 1..6, NEW servings \in Nat, NEW name
  PROVE  /\ PlanOfRecipes(Append(days, r))
         /\ Required(Append(days, r), servings, name) = Required(days, servings, name) + DayNeeds(r, servings, name)
  <1>1. PICK n \in Nat : DOMAIN days = 1..n /\ n = Len(days)
    BY Indices DEF PlanOfRecipes
  <1>2. PICK more : more = Append(days, r)
    OBVIOUS
  <1>3. /\ more \in Seq(Recipe) /\ DOMAIN more = (1..n) \cup {n + 1}
        /\ \A d \in 1..n : more[d] = days[d]
        /\ more[n + 1] = r /\ n + 1 \notin 1..n
    BY <1>1, <1>2, Appended DEF PlanOfRecipes
  <1>4. PlanOfRecipes(more)
    BY <1>1, <1>3 DEF PlanOfRecipes
  <1> DEFINE Old == LinesOf(days, name)
             New == {<<n + 1, k>> : k \in Uses(r, name)}
             All == LinesOf(more, name)
             f == [dk \in All |-> LineNeeds(more, servings, dk)]
             g == [dk \in Old |-> LineNeeds(days, servings, dk)]
             Tagged(k) == <<n + 1, k>>
  <1>5. /\ IsFiniteSet(Old) /\ IsFiniteSet(All) /\ \A dk \in All : f[dk] \in Nat
        /\ Required(days, servings, name) = SumFunctionOnSet(g, Old)
        /\ Required(more, servings, name) = SumFunctionOnSet(f, All)
    BY <1>4, LinesAre
  <1>6. DOMAIN r.ingredients \subseteq 1..6
    <2>1. PICK l \in 1..6 : DOMAIN r.ingredients = 1..l
      BY Indices DEF Recipe
    <2> QED
      BY <2>1
  <1>7. Old \subseteq All
    BY <1>1, <1>3 DEF LinesOf
  <1>8. New \subseteq All
    <2> SUFFICES ASSUME NEW k \in Uses(r, name) PROVE <<n + 1, k>> \in All
      OBVIOUS
    <2>1. k \in DOMAIN r.ingredients /\ r.ingredients[k].name = name /\ k \in 1..6
      BY <1>6 DEF Uses
    <2> QED
      BY <1>3, <2>1 DEF LinesOf
  <1>9. All \subseteq Old \cup New
    <2> SUFFICES ASSUME NEW dk \in All, dk \notin Old PROVE dk \in New
      OBVIOUS
    <2>1. /\ dk = <<dk[1], dk[2]>> /\ dk[1] \in DOMAIN more /\ dk[2] \in 1..6
          /\ dk[2] \in DOMAIN more[dk[1]].ingredients /\ more[dk[1]].ingredients[dk[2]].name = name
      BY DEF LinesOf
    <2>2. dk[1] \notin 1..n
      BY <1>1, <1>3, <2>1 DEF LinesOf
    <2>3. dk[1] = n + 1 /\ dk[2] \in Uses(r, name)
      BY <1>3, <2>1, <2>2 DEF Uses
    <2> QED
      BY <2>1, <2>3
  <1>10. Old \cap New = {}
    BY <1>1, <1>3 DEF LinesOf
  <1>11. All = Old \cup New
    BY <1>7, <1>8, <1>9
  <1>12. SumFunctionOnSet(g, Old) = SumFunctionOnSet(f, Old)
    <2>1. \A dk \in Old : g[dk] = f[dk]
      <3> TAKE dk \in Old
      <3>1. dk \in All /\ dk[1] \in 1..n
        BY <1>1, <1>7 DEF LinesOf
      <3>2. LineNeeds(more, servings, dk) = LineNeeds(days, servings, dk)
        BY <1>3, <3>1 DEF LineNeeds
      <3> QED
        BY <3>1, <3>2
    <2> HIDE DEF f, g, Old
    <2> QED
      BY <1>5, <2>1, SumSame
  <1>13. IsFiniteSet(New) /\ DayNeeds(r, servings, name) = SumFunctionOnSet(f, New)
    <2> DEFINE u == UseOf(r, servings)
               t == [k \in Uses(r, name) |-> <<n + 1, k>>]
    <2>1. IsFiniteSet(Uses(r, name)) /\ \A k \in Uses(r, name) : u[k] \in Int
      BY UsesAre
    <2>2. \A k \in Uses(r, name) : f[t[k]] = u[k]
      <3> TAKE k \in Uses(r, name)
      <3>1. <<n + 1, k>> \in All /\ k \in DOMAIN r.ingredients
        BY <1>8 DEF Uses
      <3>2. LineNeeds(more, servings, <<n + 1, k>>) = Needed(r.ingredients[k], servings).quantity
        BY <1>3 DEF LineNeeds
      <3> QED
        BY <3>1, <3>2 DEF UseOf
    <2>3. \A k, j \in Uses(r, name) : t[k] = t[j] => k = j
      OBVIOUS
    <2>4. {t[k] : k \in Uses(r, name)} = New
      OBVIOUS
    <2> HIDE DEF f, u, t, New, All
    <2>5. \A k \in Uses(r, name) : u[k] \in Int /\ f[t[k]] = u[k]
      BY <2>1, <2>2
    <2>6. IsFiniteSet({t[k] : k \in Uses(r, name)}) /\ SumFunctionOnSet(u, Uses(r, name)) = SumFunctionOnSet(f, {t[k] : k \in Uses(r, name)})
      BY <2>1, <2>3, <2>5, SumImage
    <2> QED
      BY <2>4, <2>6 DEF DayNeeds, u
  <1>14. SumFunctionOnSet(f, Old \cup New) = SumFunctionOnSet(f, Old) + SumFunctionOnSet(f, New)
    <2>1. \A dk \in Old \cup New : f[dk] \in Int
      BY <1>5, <1>11
    <2> HIDE DEF f, Old, New, All
    <2> QED
      BY <1>5, <1>10, <1>13, <2>1, SumUnion
  <1> HIDE DEF f, g, Old, New, All
  <1> QED
    BY <1>2, <1>4, <1>5, <1>11, <1>12, <1>13, <1>14

----------------------------------------------------------------------------
(* What the planner takes and what it lists are what the plan needs.       *)
LEMMA ImageIsFinite ==
  ASSUME NEW S, IsFiniteSet(S), NEW f
  PROVE  IsFiniteSet({f[x] : x \in S})
  <1> DEFINE T == {f[x] : x \in S}
             g == [x \in S |-> f[x]]
  <1>1. g \in Surjection(S, T)
    BY DEF Surjection
  <1> HIDE DEF T, g
  <1>2. IsFiniteSet(T)
    BY <1>1, FS_Surjection
  <1> QED
    BY <1>2 DEF T

(* While a plan is made, what is left of a name that is measured in one    *)
(* base unit throughout is what there was without what the days need.      *)
Covering(rem, begun, days, servings) ==
  /\ Left(rem, begun)
  /\ \A name \in DOMAIN begun : begun[name].quantity \in Nat
  /\ \A name \in DOMAIN begun :
       (\A dk \in LinesOf(days, name) : Base(days[dk[1]].ingredients[dk[2]].unit)[1] = begun[name].unit)
         => rem[name].quantity = Rest(begun[name].quantity, Required(days, servings, name))

LEMMA CoveringAtFirst ==
  ASSUME NEW S, Stocked(S), NEW servings \in Nat, NEW begun, begun = _build_remaining_inventory(S)
  PROVE  Covering(begun, begun, <<>>, servings)
  <1>1. Left(begun, begun)
    BY BeginningIs DEF Left
  <1>2. ASSUME NEW name \in DOMAIN begun
        PROVE  begun[name].quantity = Rest(begun[name].quantity, Required(<<>>, servings, name))
    <2>1. LinesOf(<<>>, name) = {}
      BY DEF LinesOf
    <2>2. PlanOfRecipes(<<>>)
      BY EmptySeq DEF PlanOfRecipes
    <2> DEFINE f == [dk \in LinesOf(<<>>, name) |-> LineNeeds(<<>>, servings, dk)]
    <2>3. Required(<<>>, servings, name) = SumFunctionOnSet(f, LinesOf(<<>>, name))
      BY <2>2, LinesAre
    <2> HIDE DEF f
    <2>4. SumFunctionOnSet(f, {}) = 0
      <3>1. IsFiniteSet({})
        BY FS_EmptySet
      <3> QED
        BY <3>1, SumFirst
    <2>5. Required(<<>>, servings, name) = 0
      BY <2>1, <2>3, <2>4
    <2>6. begun[name].quantity \in Nat
      BY <1>1 DEF Left
    <2> QED
      BY <2>5, <2>6 DEF AtLeastZero, Rest
  <1> QED
    BY <1>1, <1>2 DEF Covering, Left

LEMMA CoveringByDay ==
  ASSUME NEW rem, NEW begun, NEW days, NEW servings \in Nat, Covering(rem, begun, days, servings),
         PlanOfRecipes(days), NEW r \in Recipe, Len(r.ingredients) \in 1..6,
         NEW next, next = _reserve_ingredients(r, rem, servings), NEW more, more = Append(days, r)
  PROVE  Covering(next, begun, more, servings)
  <1>1. Left(rem, begun) /\ Left(next, begun)
    BY ReserveLeaves DEF Covering
  <1>2. PICK n \in Nat : DOMAIN days = 1..n /\ n = Len(days)
    BY Indices DEF PlanOfRecipes
  <1>3. /\ DOMAIN more = (1..n) \cup {n + 1}
        /\ \A d \in 1..n : more[d] = days[d]
        /\ more[n + 1] = r
    BY <1>2, Appended DEF PlanOfRecipes
  <1>4. DOMAIN r.ingredients \subseteq 1..6
    <2>1. PICK l \in 1..6 : DOMAIN r.ingredients = 1..l
      BY Indices DEF Recipe
    <2> QED
      BY <2>1
  <1>5. ASSUME NEW name \in DOMAIN begun,
               \A dk \in LinesOf(more, name) : Base(more[dk[1]].ingredients[dk[2]].unit)[1] = begun[name].unit
        PROVE  next[name].quantity = Rest(begun[name].quantity, Required(more, servings, name))
    <2>1. \A dk \in LinesOf(days, name) : Base(days[dk[1]].ingredients[dk[2]].unit)[1] = begun[name].unit
      <3> TAKE dk \in LinesOf(days, name)
      <3>1. dk \in LinesOf(more, name) /\ more[dk[1]] = days[dk[1]]
        BY <1>2, <1>3 DEF LinesOf
      <3> QED
        BY <1>5, <3>1
    <2>2. UsedIn(r, name, begun[name].unit)
      <3> SUFFICES ASSUME NEW k \in Uses(r, name)
                   PROVE  Base(r.ingredients[k].unit)[1] = begun[name].unit
        BY DEF UsedIn
      <3>1. <<n + 1, k>> \in LinesOf(more, name)
        BY <1>3, <1>4 DEF LinesOf, Uses
      <3>2. Base(more[<<n + 1, k>>[1]].ingredients[<<n + 1, k>>[2]].unit)[1] = begun[name].unit
        BY <1>5, <3>1
      <3> QED
        BY <1>3, <3>2
    <2>3. PICK b, s : b = begun[name].quantity /\ s = Required(days, servings, name)
      OBVIOUS
    <2>4. rem[name].quantity = Rest(b, s)
      BY <2>1, <2>3 DEF Covering
    <2>5. s \in Nat
      BY <2>3, LinesAre
    <2>6. name \in DOMAIN rem /\ rem[name].quantity \in Nat
      BY <1>1 DEF Left
    <2>7. b \in Int
      <3>1. b \in Nat
        BY <2>3 DEF Covering
      <3> QED
        BY <3>1
    <2>8. PICK t : t = s + DayNeeds(r, servings, name)
      OBVIOUS
    <2>9. next[name].quantity = Rest(b, t)
      <3>1. s \in Int
        BY <2>5
      <3>2. Left(rem, begun) /\ name \in DOMAIN rem
        BY <1>1, <2>6
      <3>3. /\ r \in Recipe /\ Len(r.ingredients) \in 1..6 /\ servings \in Nat
            /\ next = _reserve_ingredients(r, rem, servings)
        OBVIOUS
      <3> QED
        BY ONLY <2>2, <2>4, <2>7, <2>8, <3>1, <3>2, <3>3, DayTakes
    <2>10. Required(more, servings, name) = t
      BY <2>3, <2>8, RequiredByMore
    <2> QED
      BY <2>3, <2>9, <2>10
  <1> QED
    <2>1. \A name \in DOMAIN begun : begun[name].quantity \in Nat
      BY DEF Covering
    <2> QED
      BY <1>1, <1>5, <2>1, Zenon DEF Covering

LEMMA NoMoreThanThere ==
  ASSUME NEW b \in Nat, NEW n \in Nat
  PROVE  n = (b - AtLeastZero(b - n)) + (IF n - b > 0 THEN n - b ELSE 0)
  BY DEF AtLeastZero

(* The base units a name is measured in, in the house and in the plan.     *)
HouseUnits(S, name) == {Held(i).unit : i \in Named(S, name)}
PlanUnits(days, name) == {Needed(days[dk[1]].ingredients[dk[2]], 1).unit : dk \in LinesOf(days, name)}

LEMMA OneUnitThroughout ==
  ASSUME NEW S, Stocked(S), NEW days, PlanOfRecipes(days), NEW name,
         Cardinality(HouseUnits(S, name) \cup PlanUnits(days, name)) = 1
  PROVE  \E u : /\ \A i \in Named(S, name) : Held(i).unit = u
                /\ \A dk \in LinesOf(days, name) : Base(days[dk[1]].ingredients[dk[2]].unit)[1] = u
  <1> DEFINE f == [i \in Named(S, name) |-> Held(i).unit]
             g == [dk \in LinesOf(days, name) |-> Needed(days[dk[1]].ingredients[dk[2]], 1).unit]
  <1>1. IsFiniteSet(Named(S, name)) /\ IsFiniteSet(LinesOf(days, name))
    BY NamedIs, LinesAre
  <1>2. IsFiniteSet(HouseUnits(S, name))
    <2>1. HouseUnits(S, name) = {f[i] : i \in Named(S, name)}
      BY DEF HouseUnits
    <2> HIDE DEF f
    <2> QED
      BY <1>1, <2>1, ImageIsFinite
  <1>3. IsFiniteSet(PlanUnits(days, name))
    <2>1. PlanUnits(days, name) = {g[dk] : dk \in LinesOf(days, name)}
      BY DEF PlanUnits
    <2> HIDE DEF g
    <2> QED
      BY <1>1, <2>1, ImageIsFinite
  <1>4. IsFiniteSet(HouseUnits(S, name) \cup PlanUnits(days, name))
    BY <1>2, <1>3, FS_Union
  <1>5. PICK u : HouseUnits(S, name) \cup PlanUnits(days, name) = {u}
    BY <1>4, FS_Singleton
  <1>6. \A i \in Named(S, name) : Held(i).unit = u
    BY <1>5 DEF HouseUnits
  <1>7. ASSUME NEW dk \in LinesOf(days, name) PROVE Base(days[dk[1]].ingredients[dk[2]].unit)[1] = u
    <2>1. Needed(days[dk[1]].ingredients[dk[2]], 1).unit = u
      BY <1>5 DEF PlanUnits
    <2> QED
      BY <2>1 DEF Needed, Amount, convert_to_base
  <1> QED
    BY <1>6, <1>7

(* What the house has of a name, all its items counted.                    *)
Have(S, name) == SumFunctionOnSet([i \in Named(S, name) |-> Held(i).quantity], Named(S, name))

LEMMA ListedIs ==
  ASSUME NEW days, PlanOfRecipes(days), NEW servings, NEW S, Stocked(S),
         NEW name, name \in UNION {NamesIn(days[d]) : d \in DOMAIN days}, NEW list, list = derive_shopping_list(days, servings, S),
         NEW n \in Nat, n = Required(days, servings, name), NEW h \in Nat, h = Have(S, name)
  PROVE  (IF name \in DOMAIN list THEN list[name] ELSE 0) = IF n - h > 0 THEN n - h ELSE 0
  <1> DEFINE f(m) == [i \in Named(S, m) |-> Held(i).quantity]
             Gap(m) == Required(days, servings, m) - SumFunction(f(m))
             N == UNION {NamesIn(days[d]) : d \in DOMAIN days}
  <1>1. list = [m \in {x \in N : Gap(x) > 0} |-> Gap(m)]
    BY Zenon DEF derive_shopping_list
  <1>2. SumFunction(f(name)) = h
    <2>1. DOMAIN f(name) = Named(S, name)
      OBVIOUS
    <2>2. SumFunction(f(name)) = SumFunctionOnSet(f(name), DOMAIN f(name))
      BY DEF SumFunction
    <2> QED
      BY <2>1, <2>2 DEF Have
  <1>3. Gap(name) = n - h
    <2> HIDE DEF f
    <2> QED
      BY <1>2
  <1> HIDE DEF Gap
  <1>4. name \in DOMAIN list <=> n - h > 0
    BY <1>1, <1>3
  <1>5. name \in DOMAIN list => list[name] = n - h
    BY <1>1, <1>3
  <1> QED
    BY <1>4, <1>5

LEMMA PlanCovers ==
  ASSUME NEW S, Stocked(S), NEW days, PlanOfRecipes(days), NEW servings \in Nat,
         NEW begun, begun = _build_remaining_inventory(S), NEW rem, Covering(rem, begun, days, servings),
         NEW list, list = derive_shopping_list(days, servings, S),
         NEW name, name \in UNION {NamesIn(days[d]) : d \in DOMAIN days},
         Cardinality(HouseUnits(S, name) \cup PlanUnits(days, name)) = 1
  PROVE  Required(days, servings, name) =
           (IF name \in DOMAIN begun THEN begun[name].quantity - rem[name].quantity ELSE 0)
             + (IF name \in DOMAIN list THEN list[name] ELSE 0)
  <1>1. PICK u : /\ \A i \in Named(S, name) : Held(i).unit = u
                 /\ \A dk \in LinesOf(days, name) : Base(days[dk[1]].ingredients[dk[2]].unit)[1] = u
    BY OneUnitThroughout, SMTT(30)
  <1>2. PICK n \in Nat : n = Required(days, servings, name)
    BY LinesAre
  <1> DEFINE f == [i \in Named(S, name) |-> Held(i).quantity]
  <1>3. IsFiniteSet(Named(S, name)) /\ \A i \in Named(S, name) : f[i] \in Nat
    BY NamedIs
  <1>4. Have(S, name) = SumFunctionOnSet(f, Named(S, name))
    BY DEF Have
  <1>5. Have(S, name) \in Nat
    <2> HIDE DEF f
    <2> QED
      BY <1>3, <1>4, SumNat
  <1>6. PICK h \in Nat : h = Have(S, name)
    BY <1>5
  <1>7. (IF name \in DOMAIN list THEN list[name] ELSE 0) = IF n - h > 0 THEN n - h ELSE 0
    BY <1>2, <1>6, ListedIs
  <1>8. DOMAIN begun = {i.name : i \in Usable(S)}
    BY BeginningIs
  <1>9. CASE name \in DOMAIN begun
    <2>1. /\ begun[name].quantity = SumFunctionOnSet([i \in Alike(S, name) |-> Held(i).quantity], Alike(S, name))
          /\ begun[name].unit = Held(Soonest(Named(S, name))).unit
          /\ Soonest(Named(S, name)) \in Named(S, name)
      BY <1>9, BeginningIs
    <2>2. Alike(S, name) = Named(S, name)
      BY <1>1, <2>1 DEF Alike
    <2>3. begun[name].quantity = h /\ begun[name].unit = u
      BY <1>1, <1>6, <2>1, <2>2 DEF Have
    <2>4. rem[name].quantity = AtLeastZero(h - n)
      <3>1. rem[name].quantity = Rest(h, n)
        BY <1>1, <1>2, <1>9, <2>3 DEF Covering
      <3> QED
        BY <3>1 DEF Rest
    <2> QED
      BY <1>2, <1>6, <1>7, <1>9, <2>3, <2>4, NoMoreThanThere
  <1>10. CASE name \notin DOMAIN begun
    <2>1. Named(S, name) = {}
      BY <1>8, <1>10 DEF Named
    <2>2. h = 0
      <3>1. IsFiniteSet({})
        BY FS_EmptySet
      <3>2. SumFunctionOnSet(f, {}) = 0
        BY <3>1, SumFirst
      <3> HIDE DEF f
      <3> QED
        BY <1>4, <1>6, <2>1, <3>2
    <2> QED
      BY <1>2, <1>7, <1>10, <2>2
  <1> QED
    BY <1>9, <1>10

----------------------------------------------------------------------------
(* The invariant of a suggestion.                                          *)
Own(r) == \E j \in DOMAIN Recipes : r = Recipes[j]

(* What has been read, and where the request is.                           *)
AskInv ==
  /\ IsFiniteSet(items) /\ Stocked(stock)
  /\ query \in Queries \cup {None} /\ (stage # "idle" => query \in Queries)
  /\ stage \in {"idle", "asked", "planning", "loaded", "ranked", "done"}
  /\ source \in {"live", "mock", None} /\ outcome \in {"200", "404", "422", "500", None}
  /\ stage = "planning" => query.op = "plan"
  /\ stage \in {"loaded", "ranked"} => query.op = "recommend"

(* The days planned, and what is left of the house.                        *)
PlanInv ==
  /\ chosen \in Seq(Recipe) /\ \A d \in DOMAIN chosen : Own(chosen[d])
  /\ stage \in {"idle", "asked", "loaded", "ranked"} => chosen = <<>>
  /\ stage = "planning" => recipes # <<>> /\ \A k \in DOMAIN recipes : Own(recipes[k])
  /\ stage = "planning" \/ (stage = "done" /\ query.op = "plan" /\ outcome = "200")
       => Covering(remaining, _build_remaining_inventory(stock), chosen, query.servings)
  /\ \A name \in DOMAIN remaining : remaining[name].quantity \in Nat

(* The recipes of a source, and those shown.                               *)
RankInv ==
  /\ recipes \in Seq(Recipe) /\ \A k \in DOMAIN recipes : Sound(recipes[k])
  /\ Len(ranked) <= Shown
  /\ stage \in {"idle", "asked"} => ranked = <<>>
  /\ \A k \in DOMAIN ranked : /\ Sound(ranked[k].recipe) /\ query.tags \subseteq ranked[k].recipe.tags
                              /\ ranked[k].missing \subseteq NamesIn(ranked[k].recipe)

SuggestInv == AskInv /\ PlanInv /\ RankInv

LEMMA OwnIsSound ==
  ASSUME NEW r, Own(r)
  PROVE  r \in Recipe /\ Sound(r) /\ Len(r.ingredients) \in 1..6
  <1>1. PICK j \in DOMAIN Recipes : r = Recipes[j]
    BY DEF Own
  <1>2. Recipes[j] \in Recipe
    BY SuggestionsAssumption, Indices
  <1>3. Len(Recipes[j].ingredients) \in 1..6 /\ IsFiniteSet(Recipes[j].tags)
    BY SuggestionsAssumption
  <1> QED
    BY <1>1, <1>2, <1>3 DEF Sound

(* What has been added is food.                                            *)
LEMMA NamesAreFood == Name \subseteq Food
  <1>1. Words \subseteq STRING
    BY KitchenAssumption
  <1>2. ASSUME NEW q \in Seq(Words) PROVE q \in Seq(STRING)
    <2>1. PICK n \in Nat : q \in [1..n -> Words]
      BY SeqDef
    <2>2. q \in [1..n -> STRING]
      BY <1>1, <2>1
    <2>3. \A m \in Nat : \A f \in [1..m -> STRING] : f \in Seq(STRING)
      BY SeqDef
    <2> QED
      BY <2>2, <2>3
  <1> QED
    BY <1>1, <1>2 DEF Name, Food

LEMMA AddedIsStocked ==
  ASSUME CatalogTypeOK, IsFiniteSet(items), NEW S \in Stocks
  PROVE  Stocked(S \cup Added) /\ Stocked(Usable(S \cup Added))
  <1> DEFINE A(i) == [id |-> 100 + i.id, name |-> i.name, unit |-> "unit", quantity |-> 1,
                      days |-> i.days, active |-> TRUE]
             f == [i \in items |-> A(i)]
  <1>1. Added = {f[i] : i \in items}
    BY DEF Added
  <1>2. IsFiniteSet(Added)
    <2> HIDE DEF f
    <2> QED
      BY <1>1, ImageIsFinite
  <1>3. ASSUME NEW i \in items PROVE A(i) \in Item
    <2>1. i \in [id : Reqs, name : Name, place : Places, days : Int]
      BY DEF CatalogTypeOK
    <2>2. i.id \in Nat /\ i.name \in Food /\ i.days \in Int
      <3>1. i.id \in Reqs /\ i.name \in Name /\ i.days \in Int
        BY <2>1
      <3>2. Reqs \subseteq Nat
        BY CatalogAssumption
      <3> QED
        BY <3>1, <3>2, NamesAreFood
    <2>3. 100 + i.id \in Nat
      BY <2>2
    <2>4. PICK n, m, d : n = 100 + i.id /\ m = i.name /\ d = i.days
      OBVIOUS
    <2>5. A(i) = [id |-> n, name |-> m, unit |-> "unit", quantity |-> 1, days |-> d, active |-> TRUE]
      BY <2>4
    <2>6. n \in Nat /\ m \in Food /\ d \in Int
      BY <2>2, <2>3, <2>4
    <2> HIDE DEF A
    <2>7. "unit" \in STRING /\ 1 \in Nat
      BY UnitAssumption
    <2>8. \A u \in STRING, o \in Nat :
            [id |-> n, name |-> m, unit |-> u, quantity |-> o, days |-> d, active |-> TRUE] \in Item
      BY <2>6, Zenon DEF Item
    <2> QED
      BY <2>5, <2>7, <2>8
  <1>4. Added \subseteq Item
    BY <1>1, <1>3
  <1>5. S \subseteq Item /\ IsFiniteSet(S)
    BY SuggestionsAssumption
  <1>6. IsFiniteSet(S \cup Added)
    BY <1>2, <1>5, FS_Union
  <1>7. Stocked(S \cup Added)
    BY <1>4, <1>5, <1>6 DEF Stocked
  <1>8. Usable(S \cup Added) \subseteq S \cup Added
    BY DEF Usable
  <1>9. IsFiniteSet(Usable(S \cup Added))
    BY <1>6, <1>8, FS_Subset
  <1> QED
    BY <1>7, <1>8, <1>9 DEF Stocked

(* One item is added at a time.                                            *)
LEMMA ItemsAreCounted ==
  ASSUME IsFiniteSet(items), [CatalogNext]_catalog
  PROVE  IsFiniteSet(items')
  <1>1. CASE UNCHANGED catalog
    BY <1>1 DEF catalog
  <1>2. ASSUME NEW r \in Reqs, create_item(r) PROVE IsFiniteSet(items')
    <2>1. PICK i : items' = items \cup {i}
      BY <1>2 DEF create_item
    <2> QED
      BY <2>1, FS_AddElement
  <1>3. ASSUME NEW r \in Reqs, NEW c \in Calls, Receive(r, c) PROVE items' = items
    BY <1>3 DEF Receive
  <1>4. ASSUME NEW r \in Reqs, Step(r), ~ create_item(r) PROVE items' = items
    BY <1>4 DEF Step, lookup_barcode, parse_image, upload_photo, resolve_canonical, FindCanonical, InsertCanonical,
                _upsert_product_barcode, FindBarcode, WriteBarcode, scan_barcode, store_cached
  <1>5. ASSUME NEW r \in Reqs, Die(r) PROVE items' = items
    BY <1>5 DEF Die
  <1>6. ASSUME Outage \/ Return PROVE items' = items
    BY <1>6 DEF Outage, Return
  <1>7. ASSUME NEW key \in DOMAIN entries, Expire(key) PROVE items' = items
    BY <1>7 DEF Expire
  <1> QED
    BY <1>1, <1>2, <1>3, <1>4, <1>5, <1>6, <1>7 DEF CatalogNext

LEMMA SuggestInit ==
  ASSUME Init
  PROVE  SuggestInv
  <1>1. /\ items = {} /\ query = None /\ stock = {} /\ stage = "idle" /\ recipes = <<>>
        /\ remaining = <<>> /\ chosen = <<>> /\ source = None /\ ranked = <<>> /\ outcome = None
    BY DEF Init, CatalogInit, SuggestionsInit
  <1>2. IsFiniteSet({})
    BY FS_EmptySet
  <1>3. <<>> \in Seq(Recipe) /\ DOMAIN <<>> = {} /\ Len(<<>>) = 0
    BY EmptySeq
  <1>4. AskInv
    BY <1>1, <1>2 DEF AskInv, Stocked
  <1>5. PlanInv
    BY <1>1, <1>3 DEF PlanInv
  <1>6. RankInv
    BY <1>1, <1>3, SuggestionsAssumption DEF RankInv
  <1> QED
    BY <1>4, <1>5, <1>6 DEF SuggestInv

LEMMA SuggestWaits ==
  ASSUME SuggestInv, UNCHANGED suggesting, [CatalogNext]_catalog
  PROVE  SuggestInv'
  <1>1. /\ query' = query /\ stock' = stock /\ stage' = stage /\ recipes' = recipes /\ remaining' = remaining
        /\ chosen' = chosen /\ source' = source /\ ranked' = ranked /\ outcome' = outcome
    BY DEF suggesting
  <1>2. IsFiniteSet(items')
    BY ItemsAreCounted DEF SuggestInv, AskInv
  <1>3. AskInv'
    BY <1>1, <1>2 DEF SuggestInv, AskInv
  <1>4. PlanInv'
    BY <1>1 DEF SuggestInv, PlanInv
  <1>5. RankInv'
    BY <1>1 DEF SuggestInv, RankInv
  <1> QED
    BY <1>3, <1>4, <1>5 DEF SuggestInv

LEMMA AskKeeps ==
  ASSUME SuggestInv, CatalogTypeOK, Ask, UNCHANGED catalog
  PROVE  SuggestInv'
  <1>1. PICK q \in Queries, S \in Stocks : list_inventory_items(q, S \cup Added)
    BY DEF Ask
  <1>2. /\ stage = "idle" /\ query' = q /\ stock' = Usable(S \cup Added) /\ stage' = "asked" /\ items' = items
        /\ recipes' = recipes /\ remaining' = remaining /\ chosen' = chosen /\ source' = source
        /\ ranked' = ranked /\ outcome' = outcome
    BY <1>1 DEF list_inventory_items, catalog
  <1>3. Stocked(stock')
    BY <1>2, AddedIsStocked DEF SuggestInv, AskInv
  <1>4. AskInv'
    BY <1>2, <1>3 DEF SuggestInv, AskInv
  <1>5. PlanInv'
    BY <1>2 DEF SuggestInv, PlanInv
  <1>6. RankInv'
    <2>1. ranked = <<>> /\ DOMAIN ranked = {}
      BY <1>2 DEF SuggestInv, RankInv
    <2> QED
      BY <1>2, <2>1 DEF SuggestInv, RankInv
  <1> QED
    BY <1>4, <1>5, <1>6 DEF SuggestInv

LEMMA PlanBegins ==
  ASSUME SuggestInv, generate_plan, UNCHANGED catalog
  PROVE  SuggestInv'
  <1>1. PICK fit : fit = _filter_recipes(Recipes, query.tags, query.max_prep)
    OBVIOUS
  <1>2. /\ stage = "asked" /\ query.op = "plan" /\ items' = items /\ query' = query /\ stock' = stock
        /\ chosen' = chosen /\ source' = source /\ ranked' = ranked
    BY DEF generate_plan, catalog
  <1>3. /\ fit \in Seq(Recipe) /\ \A k \in DOMAIN fit : Own(fit[k])
    <2> DEFINE D == {k \in DOMAIN Recipes : query.tags \subseteq Recipes[k].tags
                                               /\ (query.max_prep = None \/ Recipes[k].prep <= query.max_prep)}
    <2>1. fit = Picked(Recipes, D)
      BY <1>1 DEF _filter_recipes
    <2>2. D \in SUBSET (DOMAIN Recipes)
      OBVIOUS
    <2> HIDE DEF D
    <2>3. Recipes \in Seq(Recipe)
      BY SuggestionsAssumption
    <2> QED
      BY <2>1, <2>2, <2>3, PickedSeq DEF Own
  <1>4. CASE fit = <<>>
    <2>1. stage' = "done" /\ outcome' = "422" /\ recipes' = recipes /\ remaining' = remaining
      BY <1>1, <1>4 DEF generate_plan
    <2>2. AskInv'
      BY <1>2, <2>1 DEF SuggestInv, AskInv
    <2>3. PlanInv'
      BY <1>2, <2>1 DEF SuggestInv, PlanInv
    <2>4. RankInv'
      BY <1>2, <2>1 DEF SuggestInv, RankInv
    <2> QED
      BY <2>2, <2>3, <2>4 DEF SuggestInv
  <1>5. CASE fit # <<>>
    <2>1. /\ stage' = "planning" /\ outcome' = outcome /\ recipes' = fit
          /\ remaining' = _build_remaining_inventory(stock)
      BY <1>1, <1>5 DEF generate_plan
    <2>2. AskInv'
      BY <1>2, <2>1 DEF SuggestInv, AskInv
    <2>3. PICK begun : begun = _build_remaining_inventory(stock)
      OBVIOUS
    <2>4. query.servings \in Nat /\ Stocked(stock)
      BY <1>2, SuggestionsAssumption DEF SuggestInv, AskInv
    <2>5. Covering(begun, begun, <<>>, query.servings)
      BY <2>3, <2>4, CoveringAtFirst
    <2>6. chosen = <<>> /\ DOMAIN chosen = {}
      BY <1>2 DEF SuggestInv, PlanInv
    <2>7. _build_remaining_inventory(stock)' = begun /\ remaining' = begun
      BY <1>2, <2>1, <2>3
    <2>8. Covering(remaining, _build_remaining_inventory(stock), chosen, query.servings)'
      BY <1>2, <2>5, <2>6, <2>7
    <2>9. \A name \in DOMAIN begun : begun[name].quantity \in Nat
      BY <2>5 DEF Covering
    <2>10. PlanInv'
      BY <1>2, <1>3, <1>5, <2>1, <2>6, <2>7, <2>8, <2>9 DEF SuggestInv, PlanInv
    <2>11. RankInv'
      BY <1>2, <1>3, <2>1, OwnIsSound DEF SuggestInv, RankInv
    <2> QED
      BY <2>2, <2>10, <2>11 DEF SuggestInv
  <1> QED
    BY <1>4, <1>5

LEMMA PlanGoesOn ==
  ASSUME SuggestInv, PlanDay, UNCHANGED catalog
  PROVE  SuggestInv'
  <1>1. PICK r : r = _pick_best_recipe(recipes, remaining, Used, query.servings)
    OBVIOUS
  <1>2. /\ stage = "planning" /\ items' = items /\ query' = query /\ stock' = stock /\ stage' = stage
        /\ recipes' = recipes /\ source' = source /\ ranked' = ranked /\ outcome' = outcome
        /\ chosen' = Append(chosen, r) /\ remaining' = _reserve_ingredients(r, remaining, query.servings)
    BY <1>1 DEF PlanDay, catalog
  <1>3. PICK begun, days, rem, rs, servings, used :
          /\ begun = _build_remaining_inventory(stock) /\ days = chosen /\ rem = remaining
          /\ rs = recipes /\ servings = query.servings /\ used = Used
    OBVIOUS
  <1>4. /\ Covering(rem, begun, days, servings) /\ Left(rem, begun) /\ servings \in Nat
        /\ days \in Seq(Recipe) /\ \A d \in DOMAIN days : Own(days[d])
        /\ rs \in Seq(Recipe) /\ rs # <<>> /\ \A k \in DOMAIN rs : Own(rs[k])
    BY <1>2, <1>3, SuggestionsAssumption DEF SuggestInv, AskInv, PlanInv, RankInv, Covering
  <1>5. Own(r)
    <2>1. \A k \in DOMAIN rs : Len(rs[k].ingredients) \in 1..6
      BY <1>4, OwnIsSound
    <2>2. \E k \in DOMAIN rs : _pick_best_recipe(rs, rem, used, servings) = rs[k]
      BY <1>4, <2>1, BestIs
    <2> QED
      BY <1>1, <1>3, <1>4, <2>2
  <1>6. r \in Recipe /\ Len(r.ingredients) \in 1..6
    BY <1>5, OwnIsSound
  <1>7. PlanOfRecipes(days)
    BY <1>4, OwnIsSound DEF PlanOfRecipes
  <1>8. PICK more, next : more = Append(days, r) /\ next = _reserve_ingredients(r, rem, servings)
    OBVIOUS
  <1>9. Covering(next, begun, more, servings)
    BY <1>4, <1>6, <1>7, <1>8, CoveringByDay
  <1>10. more \in Seq(Recipe) /\ \A d \in DOMAIN more : Own(more[d])
    <2>1. /\ more \in Seq(Recipe) /\ DOMAIN more = DOMAIN days \cup {Len(days) + 1}
          /\ \A d \in DOMAIN days : more[d] = days[d]
          /\ more[Len(days) + 1] = r
      BY <1>4, <1>6, <1>8, Appended
    <2> QED
      BY <1>4, <1>5, <2>1
  <1>11. \A name \in DOMAIN next : next[name].quantity \in Nat
    BY <1>9 DEF Covering, Left
  <1>12. chosen' = more /\ remaining' = next /\ _build_remaining_inventory(stock)' = begun
    BY <1>2, <1>3, <1>8
  <1>13. Covering(remaining, _build_remaining_inventory(stock), chosen, query.servings)'
    BY <1>2, <1>3, <1>9, <1>12
  <1>14. AskInv'
    BY <1>2 DEF SuggestInv, AskInv
  <1>15. PlanInv'
    BY <1>2, <1>10, <1>11, <1>12, <1>13 DEF SuggestInv, PlanInv
  <1>16. RankInv'
    BY <1>2 DEF SuggestInv, RankInv
  <1> QED
    BY <1>14, <1>15, <1>16 DEF SuggestInv

LEMMA PlanEnds ==
  ASSUME SuggestInv, FinishPlan, UNCHANGED catalog
  PROVE  SuggestInv'
  <1>1. /\ stage = "planning" /\ stage' = "done" /\ outcome' = "200" /\ items' = items
        /\ query' = query /\ stock' = stock /\ recipes' = recipes /\ remaining' = remaining
        /\ chosen' = chosen /\ source' = source /\ ranked' = ranked
    BY DEF FinishPlan, catalog
  <1>2. AskInv'
    BY <1>1 DEF SuggestInv, AskInv
  <1>3. PlanInv'
    BY <1>1 DEF SuggestInv, PlanInv
  <1>4. RankInv'
    BY <1>1 DEF SuggestInv, RankInv
  <1> QED
    BY <1>2, <1>3, <1>4 DEF SuggestInv

(* What a source tells of a recipe is sound.                               *)
LEMMA ToldIsSound ==
  ASSUME NEW r, Own(r)
  PROVE  Sound(_map_recipe(r)) /\ Sound(_map_hit_to_recipe(r))
  <1>1. PICK j \in DOMAIN Recipes : r = Recipes[j]
    BY DEF Own
  <1>2. r \in Recipe /\ Len(r.ingredients) \in 1..6
    BY OwnIsSound
  <1>3. PICK id, tags, prep, ms : id = r.id /\ tags = r.tags /\ prep = r.prep /\ ms = r.ingredients
    OBVIOUS
  <1>4. /\ r = [id |-> id, tags |-> tags, prep |-> prep, ingredients |-> ms]
        /\ id \in STRING /\ tags \in SUBSET STRING /\ prep \in Nat /\ ms \in Seq(Ingredient)
    BY <1>2, <1>3 DEF Recipe
  <1>5. Sound(_map_recipe(r))
    <2>1. _map_recipe(r) = [id |-> id, tags |-> {}, prep |-> 0, ingredients |-> ms]
      <3>1. PICK s : s = [r EXCEPT !.tags = {}]
        OBVIOUS
      <3>2. s = [id |-> id, tags |-> {}, prep |-> prep, ingredients |-> ms]
        BY <1>4, <3>1
      <3>3. [s EXCEPT !.prep = 0] = [id |-> id, tags |-> {}, prep |-> 0, ingredients |-> ms]
        BY <3>2
      <3>4. _map_recipe(r) = [s EXCEPT !.prep = 0]
        BY <3>1 DEF _map_recipe
      <3> QED
        BY <3>3, <3>4
    <2>2. IsFiniteSet({})
      BY FS_EmptySet
    <2>3. [id |-> id, tags |-> {}, prep |-> 0, ingredients |-> ms] \in Recipe
      BY <1>4 DEF Recipe
    <2> QED
      BY <1>1, <1>2, <1>3, <2>1, <2>2, <2>3 DEF Sound
  <1>6. Sound(_map_hit_to_recipe(r))
    <2> DEFINE bare == [k \in DOMAIN ms |-> [ms[k] EXCEPT !.quantity = 0, !.unit = "unit"]]
    <2>1. PICK n \in Nat : DOMAIN ms = 1..n /\ n = Len(ms) /\ \A k \in 1..n : ms[k] \in Ingredient
      BY <1>4, Indices
    <2>2. ASSUME NEW k \in 1..n PROVE bare[k] \in Ingredient
      <3>1. PICK name, quantity, unit : ms[k] = [name |-> name, quantity |-> quantity, unit |-> unit] /\ name \in Food
        BY <2>1 DEF Ingredient
      <3>2. PICK g : g = [ms[k] EXCEPT !.quantity = 0]
        OBVIOUS
      <3>3. g = [name |-> name, quantity |-> 0, unit |-> unit]
        BY <3>1, <3>2
      <3>4. [g EXCEPT !.unit = "unit"] = [name |-> name, quantity |-> 0, unit |-> "unit"]
        BY <3>3
      <3>5. bare[k] = [g EXCEPT !.unit = "unit"]
        BY <2>1, <3>2
      <3>6. [name |-> name, quantity |-> 0, unit |-> "unit"] \in Ingredient
        <4>1. 0 \in Nat
          OBVIOUS
        <4> QED
          BY <3>1, <4>1, UnitAssumption DEF Ingredient
      <3> QED
        BY <3>4, <3>5, <3>6
    <2>3. bare \in [1..n -> Ingredient]
      BY <2>1, <2>2
    <2>4. bare \in Seq(Ingredient)
      <3>1. \A m \in Nat : \A f \in [1..m -> Ingredient] : f \in Seq(Ingredient)
        BY SeqDef
      <3> HIDE DEF bare
      <3> QED
        BY <2>1, <2>3, <3>1
    <2>5. Len(bare) = n
      <3> HIDE DEF bare
      <3>1. PICK m : m = Len(bare)
        OBVIOUS
      <3>2. m \in Nat /\ 1..m = 1..n
        BY <2>3, <2>4, <3>1, Indices
      <3> QED
        BY <3>1, <3>2, SameLength
    <2>6. _map_hit_to_recipe(r) = [id |-> id, tags |-> tags, prep |-> prep, ingredients |-> bare]
      <3>1. _map_hit_to_recipe(r) = [r EXCEPT !.ingredients = [k \in DOMAIN r.ingredients |->
                                                                [r.ingredients[k] EXCEPT !.quantity = 0, !.unit = "unit"]]]
        BY DEF _map_hit_to_recipe
      <3>2. _map_hit_to_recipe(r) = [r EXCEPT !.ingredients = bare]
        BY <1>3, <3>1
      <3> HIDE DEF bare
      <3>3. [r EXCEPT !.ingredients = bare] = [id |-> id, tags |-> tags, prep |-> prep, ingredients |-> bare]
        BY <1>4
      <3> QED
        BY <3>2, <3>3
    <2> HIDE DEF bare
    <2>7. [id |-> id, tags |-> tags, prep |-> prep, ingredients |-> bare] \in Recipe
      BY <1>4, <2>4 DEF Recipe
    <2>8. IsFiniteSet(tags) /\ n \in 1..6
      BY <1>1, <1>2, <1>3, <2>1, SuggestionsAssumption
    <2>9. PICK h : h = _map_hit_to_recipe(r)
      OBVIOUS
    <2>10. h.id = id /\ h.tags = tags /\ h.ingredients = bare /\ h \in Recipe
      BY <2>6, <2>7, <2>9
    <2>11. h.id = Recipes[j].id /\ h.tags \subseteq Recipes[j].tags
      BY <1>1, <1>3, <2>10
    <2> QED
      BY <2>5, <2>8, <2>9, <2>10, <2>11 DEF Sound
  <1> QED
    BY <1>5, <1>6

LEMMA LoadKeeps ==
  ASSUME SuggestInv, NEW rs, NEW from \in {"live", "mock"}, _load_recipes(rs, from), UNCHANGED catalog,
         rs \in Seq(Recipe), \A k \in DOMAIN rs : Sound(rs[k])
  PROVE  SuggestInv'
  <1>1. /\ stage = "asked" /\ query.op = "recommend" /\ stage' = "loaded" /\ recipes' = rs /\ source' = from
        /\ items' = items /\ query' = query /\ stock' = stock /\ remaining' = remaining
        /\ chosen' = chosen /\ ranked' = ranked /\ outcome' = outcome
    BY DEF _load_recipes, catalog
  <1>2. AskInv'
    BY <1>1 DEF SuggestInv, AskInv
  <1>3. PlanInv'
    BY <1>1 DEF SuggestInv, PlanInv
  <1>4. RankInv'
    BY <1>1 DEF SuggestInv, RankInv
  <1> QED
    BY <1>2, <1>3, <1>4 DEF SuggestInv

LEMMA FoundAreOwn ==
  ASSUME NEW hits \in SUBSET (DOMAIN Recipes)
  PROVE  /\ Cardinality(hits) \in Nat /\ DOMAIN Found(hits) = 1..Cardinality(hits)
         /\ \A k \in 1..Cardinality(hits) : Own(Found(hits)[k])
  <1>1. Recipes \in Seq(Recipe)
    BY SuggestionsAssumption
  <1> QED
    BY <1>1, PickedSeq DEF Found, Own

LEMMA SearchKeeps ==
  ASSUME SuggestInv, search_mock \/ search_spoonacular \/ search_opensearch, UNCHANGED catalog
  PROVE  SuggestInv'
  <1>1. Recipes \in Seq(Recipe) /\ \A k \in DOMAIN Recipes : Sound(Recipes[k])
    BY OwnIsSound, SuggestionsAssumption DEF Own
  <1>2. ASSUME NEW from \in {"live", "mock"}, _load_recipes(Recipes, from) PROVE SuggestInv'
    BY <1>1, <1>2, LoadKeeps
  <1>a. \A m \in Nat : \A f \in [1..m -> Recipe] : f \in Seq(Recipe)
    BY SeqDef
  <1>3. ASSUME NEW hits \in SUBSET DOMAIN Recipes,
               _load_recipes([k \in 1..Cardinality(hits) |-> _map_recipe(Found(hits)[k])], "live")
        PROVE  SuggestInv'
    <2>1. PICK rs : rs = [k \in 1..Cardinality(hits) |-> _map_recipe(Found(hits)[k])]
      OBVIOUS
    <2>2. PICK n \in Nat : n = Cardinality(hits)
      BY FoundAreOwn
    <2>3. \A k \in 1..n : Sound(rs[k]) /\ rs[k] \in Recipe
      BY <2>1, <2>2, FoundAreOwn, ToldIsSound DEF Sound
    <2>4. DOMAIN rs = 1..n /\ rs \in [1..n -> Recipe]
      BY <2>1, <2>2, <2>3
    <2>5. rs \in Seq(Recipe)
      BY <1>a, <2>4
    <2>6. _load_recipes(rs, "live")
      BY <1>3, <2>1
    <2> QED
      BY <2>3, <2>4, <2>5, <2>6, LoadKeeps
  <1>4. ASSUME NEW hits \in SUBSET DOMAIN Recipes,
               _load_recipes([k \in 1..Cardinality(hits) |-> _map_hit_to_recipe(Found(hits)[k])], "live")
        PROVE  SuggestInv'
    <2>1. PICK rs : rs = [k \in 1..Cardinality(hits) |-> _map_hit_to_recipe(Found(hits)[k])]
      OBVIOUS
    <2>2. PICK n \in Nat : n = Cardinality(hits)
      BY FoundAreOwn
    <2>3. \A k \in 1..n : Sound(rs[k]) /\ rs[k] \in Recipe
      BY <2>1, <2>2, FoundAreOwn, ToldIsSound DEF Sound
    <2>4. DOMAIN rs = 1..n /\ rs \in [1..n -> Recipe]
      BY <2>1, <2>2, <2>3
    <2>5. rs \in Seq(Recipe)
      BY <1>a, <2>4
    <2>6. _load_recipes(rs, "live")
      BY <1>4, <2>1
    <2> QED
      BY <2>3, <2>4, <2>5, <2>6, LoadKeeps
  <1>5. CASE search_mock
    BY <1>2, <1>5 DEF search_mock
  <1>6. CASE search_spoonacular
    BY <1>2, <1>3, <1>6 DEF search_spoonacular
  <1>7. CASE search_opensearch
    <2>1. PICK hits \in SUBSET {k \in DOMAIN Recipes : build_recipe_search_query(stock, Recipes[k])} :
            _load_recipes([k \in 1..Cardinality(hits) |-> _map_hit_to_recipe(Found(hits)[k])], "live")
      BY <1>7 DEF search_opensearch
    <2>2. hits \in SUBSET DOMAIN Recipes
      OBVIOUS
    <2> QED
      BY <1>4, <2>1, <2>2
  <1> QED
    BY <1>5, <1>6, <1>7

LEMMA RankKeeps ==
  ASSUME SuggestInv, Rank, UNCHANGED catalog
  PROVE  SuggestInv'
  <1>1. PICK R : R = Ranking(recipes, stock, query)
    OBVIOUS
  <1>2. /\ stage = "loaded" /\ stage' = "ranked" /\ ranked' = R
        /\ items' = items /\ query' = query /\ stock' = stock /\ recipes' = recipes /\ remaining' = remaining
        /\ chosen' = chosen /\ source' = source /\ outcome' = outcome
    BY <1>1 DEF Rank, catalog
  <1>3. PICK rs, S, q : rs = recipes /\ S = stock /\ q = query
    OBVIOUS
  <1>4. rs \in Seq(Recipe) /\ (\A k \in DOMAIN rs : Sound(rs[k])) /\ Stocked(S) /\ R = Ranking(rs, S, q)
    BY <1>1, <1>3 DEF SuggestInv, AskInv, RankInv
  <1>5. /\ \E top \in Nat : top <= Shown /\ DOMAIN R = 1..top /\ Len(R) = top
        /\ \A n \in DOMAIN R : /\ Sound(R[n].recipe) /\ q.tags \subseteq R[n].recipe.tags
                               /\ R[n].missing \subseteq NamesIn(R[n].recipe)
    BY <1>4, RankingIs
  <1>6. AskInv'
    BY <1>2 DEF SuggestInv, AskInv
  <1>7. PlanInv'
    BY <1>2 DEF SuggestInv, PlanInv
  <1>8. RankInv'
    BY <1>2, <1>3, <1>5 DEF SuggestInv, RankInv
  <1> QED
    BY <1>6, <1>7, <1>8 DEF SuggestInv

LEMMA RecordKeeps ==
  ASSUME SuggestInv, Record, UNCHANGED catalog
  PROVE  SuggestInv'
  <1>1. /\ stage = "ranked" /\ stage' = "done" /\ outcome' \in {"200", "500"} /\ query.op = "recommend"
        /\ items' = items /\ query' = query /\ stock' = stock /\ recipes' = recipes /\ remaining' = remaining
        /\ chosen' = chosen /\ source' = source /\ ranked' = ranked
    BY DEF Record, catalog, SuggestInv, AskInv
  <1>2. AskInv'
    BY <1>1 DEF SuggestInv, AskInv
  <1>3. PlanInv'
    BY <1>1 DEF SuggestInv, PlanInv
  <1>4. RankInv'
    BY <1>1 DEF SuggestInv, RankInv
  <1> QED
    BY <1>2, <1>3, <1>4 DEF SuggestInv

LEMMA DetailKeeps ==
  ASSUME SuggestInv, get_recipe_detail, UNCHANGED catalog
  PROVE  SuggestInv'
  <1>1. /\ stage = "asked" /\ query.op = "detail" /\ stage' = "done" /\ outcome' \in {"200", "404"}
        /\ items' = items /\ query' = query /\ stock' = stock /\ recipes' = recipes /\ remaining' = remaining
        /\ chosen' = chosen /\ source' = source
    BY DEF get_recipe_detail, catalog
  <1>2. AskInv'
    BY <1>1 DEF SuggestInv, AskInv
  <1>3. PlanInv'
    BY <1>1 DEF SuggestInv, PlanInv
  <1>4. query.tags = {} /\ Stocked(stock)
    BY <1>1, SuggestionsAssumption DEF SuggestInv, AskInv
  <1>5. ASSUME ranked' = ranked PROVE RankInv'
    <2>1. recipes' = recipes /\ stage' = "done" /\ query' = query /\ ranked' = ranked
      BY <1>1, <1>5
    <2> QED
      BY <2>1 DEF SuggestInv, RankInv
  <1>6. ASSUME NEW k \in DOMAIN Recipes,
               ranked' = <<[recipe |-> Recipes[k], missing |-> score_breakdown(Recipes[k], stock, {}).missing]>>
        PROVE  RankInv'
    <2>1. PICK r, S, m : r = Recipes[k] /\ S = stock /\ m = score_breakdown(Recipes[k], stock, {}).missing
      OBVIOUS
    <2>2. Own(r) /\ r \in Recipe /\ Sound(r) /\ Len(r.ingredients) \in 1..6 /\ IsFiniteSet(r.tags) /\ Stocked(S)
      BY <1>4, <2>1, OwnIsSound DEF Own, Sound
    <2>3. m = score_breakdown(r, S, {}).missing
      BY <2>1
    <2>4. m \subseteq NamesIn(r)
      BY <2>2, <2>3, ScoreIsInt
    <2>5. ranked' = <<[recipe |-> r, missing |-> m]>>
      BY <1>6, <2>1
    <2>6. Len(ranked') = 1 /\ DOMAIN ranked' = {1} /\ ranked'[1] = [recipe |-> r, missing |-> m]
      BY <2>5
    <2>7. 1 <= Shown
      BY SuggestionsAssumption
    <2> QED
      BY <1>1, <1>4, <2>2, <2>4, <2>6, <2>7 DEF SuggestInv, RankInv
  <1>7. \/ ranked' = ranked
        \/ \E k \in DOMAIN Recipes :
             ranked' = <<[recipe |-> Recipes[k], missing |-> score_breakdown(Recipes[k], stock, {}).missing]>>
    BY DEF get_recipe_detail
  <1>8. RankInv'
    BY <1>5, <1>6, <1>7
  <1> QED
    BY <1>2, <1>3, <1>8 DEF SuggestInv

LEMMA SuggestNextKeeps ==
  ASSUME SuggestInv, CatalogTypeOK, [Next]_vars
  PROVE  SuggestInv'
  <1>1. CASE UNCHANGED suggesting /\ [CatalogNext]_catalog
    BY <1>1, SuggestWaits
  <1>2. CASE Ask /\ UNCHANGED catalog
    BY <1>2, AskKeeps
  <1>3. ASSUME Suggest, UNCHANGED catalog PROVE SuggestInv'
    <2>1. CASE generate_plan
      BY <1>3, <2>1, PlanBegins
    <2>2. CASE PlanDay
      BY <1>3, <2>2, PlanGoesOn
    <2>3. CASE FinishPlan
      BY <1>3, <2>3, PlanEnds
    <2>4. CASE search_mock \/ search_spoonacular \/ search_opensearch
      BY <1>3, <2>4, SearchKeeps
    <2>5. CASE Rank
      BY <1>3, <2>5, RankKeeps
    <2>6. CASE Record
      BY <1>3, <2>6, RecordKeeps
    <2>7. CASE get_recipe_detail
      BY <1>3, <2>7, DetailKeeps
    <2> QED
      BY <1>3, <2>1, <2>2, <2>3, <2>4, <2>5, <2>6, <2>7 DEF Suggest
  <1>4. CASE UNCHANGED vars
    BY <1>4, SuggestWaits DEF vars
  <1> QED
    BY <1>1, <1>2, <1>3, <1>4 DEF Next

(* What a suggestion has read and made of it is as it should be, whatever  *)
(* is scanned and added before it, for all recipes and all inventories.    *)
THEOREM SuggestionInvariantHolds == Spec => []SuggestInv
  <1>1. Init => SuggestInv
    BY SuggestInit
  <1>2. SuggestInv /\ CatalogTypeOK /\ [Next]_vars => SuggestInv'
    BY SuggestNextKeeps
  <1>3. Spec => []CatalogTypeOK
    BY CatalogInvariantHolds, PTL
  <1> QED
    BY <1>1, <1>2, <1>3, PTL DEF Spec

(* Scans, items, plans and rankings have their types in every state.       *)
THEOREM KitchenTypeCorrect == Spec => []TypeOK
  <1>1. SuggestInv => SuggestionsTypeOK
    BY DEF SuggestInv, AskInv, PlanInv, RankInv, SuggestionsTypeOK, Stocked
  <1> QED
    BY <1>1, CatalogInvariantHolds, SuggestionInvariantHolds, PTL DEF TypeOK

LEMMA CoveredInv ==
  ASSUME SuggestInv
  PROVE  PlanIsCovered
  <1> SUFFICES ASSUME stage = "done", query.op = "plan", outcome = "200" PROVE PlanIsCovered
    BY DEF PlanIsCovered
  <1>1. PICK days, rem, S, servings, begun, list :
          /\ days = chosen /\ rem = remaining /\ S = stock /\ servings = query.servings
          /\ begun = _build_remaining_inventory(stock)
          /\ list = derive_shopping_list(chosen, query.servings, stock)
    OBVIOUS
  <1>2. /\ Stocked(S) /\ servings \in Nat /\ Covering(rem, begun, days, servings)
        /\ days \in Seq(Recipe) /\ \A d \in DOMAIN days : Own(days[d])
    BY <1>1, SuggestionsAssumption DEF SuggestInv, AskInv, PlanInv
  <1>3. PlanOfRecipes(days)
    BY <1>2, OwnIsSound DEF PlanOfRecipes
  <1>4. begun = _build_remaining_inventory(S) /\ list = derive_shopping_list(days, servings, S)
    BY <1>1
  <1>5. ASSUME NEW name \in UNION {NamesIn(days[d]) : d \in DOMAIN days},
               Cardinality(HouseUnits(S, name) \cup PlanUnits(days, name)) = 1
        PROVE  Required(days, servings, name) =
                 (IF name \in DOMAIN begun THEN begun[name].quantity - rem[name].quantity ELSE 0)
                   + (IF name \in DOMAIN list THEN list[name] ELSE 0)
    <2>1. Stocked(S) /\ servings \in Nat /\ Covering(rem, begun, days, servings)
      BY <1>2
    <2> QED
      BY ONLY <1>3, <1>4, <1>5, <2>1, PlanCovers
  <1> DEFINE lines == {dk \in (DOMAIN days) \X (1..6) : dk[2] \in DOMAIN days[dk[1]].ingredients}
             Line(dk) == days[dk[1]].ingredients[dk[2]]
  <1>6. \A name : {x \in lines : Line(x).name = name} = LinesOf(days, name)
    BY DEF LinesOf
  <1>7. \A name : {Held(i).unit : i \in Named(S, name)} \cup {Needed(Line(dk), 1).unit : dk \in {x \in lines : Line(x).name = name}}
                    = HouseUnits(S, name) \cup PlanUnits(days, name)
    BY <1>6 DEF HouseUnits, PlanUnits
  <1>8. \A name \in UNION {NamesIn(days[d]) : d \in DOMAIN days} :
          Cardinality({Held(i).unit : i \in Named(S, name)} \cup {Needed(Line(dk), 1).unit : dk \in {x \in lines : Line(x).name = name}}) = 1
            => Required(days, servings, name) =
                 (IF name \in DOMAIN begun THEN begun[name].quantity - rem[name].quantity ELSE 0)
                   + (IF name \in DOMAIN list THEN list[name] ELSE 0)
    BY <1>5, <1>7
  <1> QED
    BY <1>1, <1>8, Zenon DEF PlanIsCovered

(* A plan takes and lists exactly what its recipes need, for all           *)
(* inventories, recipes, days and servings (MealPlanner.generate_plan,     *)
(* derive_shopping_list).                                                  *)
THEOREM PlansAreCovered == Spec => []PlanIsCovered
  BY CoveredInv, SuggestionInvariantHolds, PTL

----------------------------------------------------------------------------
(* More food makes no recipe rank lower.                                   *)
LEMMA SumAtMost ==
  ASSUME NEW f, NEW S, IsFiniteSet(S), \A x \in S : f[x] \in Nat /\ f[x] <= 600
  PROVE  Cardinality(S) \in Nat /\ SumFunctionOnSet(f, S) <= 600 * Cardinality(S)
  <1> DEFINE T == {s \in SUBSET S : SumFunctionOnSet(f, s) <= 600 * Cardinality(s)}
  <1>1. ASSUME NEW s \in SUBSET S, \A t \in SUBSET s : t # s => t \in T
        PROVE  s \in T
    <2>1. IsFiniteSet(s) /\ Cardinality(s) \in Nat
      BY FS_Subset, FS_CardinalityType
    <2>2. CASE s = {}
      <3>1. SumFunctionOnSet(f, s) = 0
        BY <2>1, <2>2, SumFirst
      <3>2. Cardinality(s) = 0
        BY <2>2, FS_EmptySet
      <3>3. SumFunctionOnSet(f, s) <= 600 * Cardinality(s)
        BY <3>1, <3>2
      <3> QED
        BY <3>3
    <2>3. CASE s # {}
      <3>1. PICK z : z \in s
        BY <2>3
      <3>2. s \ {z} \in SUBSET s /\ s \ {z} # s
        BY <3>1
      <3>3. IsFiniteSet(s \ {z}) /\ Cardinality(s \ {z}) = Cardinality(s) - 1
        BY <2>1, <3>1, FS_RemoveElement
      <3>4. s \ {z} \in T
        <4> HIDE DEF T
        <4> QED
          BY <1>1, <3>2
      <3>5. SumFunctionOnSet(f, s \ {z}) <= 600 * Cardinality(s \ {z})
        BY <3>4
      <3>6. SumFunctionOnSet(f, s) = f[z] + SumFunctionOnSet(f, s \ {z})
        <4>1. \A x \in s : f[x] \in Int
          OBVIOUS
        <4> HIDE DEF T
        <4> QED
          BY <2>1, <3>1, <4>1, SumRemove
      <3>7. SumFunctionOnSet(f, s \ {z}) \in Nat
        <4>1. \A x \in s \ {z} : f[x] \in Nat
          OBVIOUS
        <4> HIDE DEF T
        <4> QED
          BY <3>3, <4>1, SumNat
      <3>8. f[z] \in Nat /\ f[z] <= 600
        BY <3>1
      <3>9. PICK a, b, c, d : a = f[z] /\ b = SumFunctionOnSet(f, s \ {z}) /\ c = Cardinality(s) /\ d = Cardinality(s \ {z})
        OBVIOUS
      <3>10. a + b <= 600 * c
        <4>1. a \in Nat /\ b \in Nat /\ c \in Nat /\ a <= 600 /\ b <= 600 * d /\ d = c - 1
          BY <2>1, <3>3, <3>5, <3>7, <3>8, <3>9
        <4> QED
          BY <4>1
      <3>11. SumFunctionOnSet(f, s) <= 600 * Cardinality(s)
        BY <3>6, <3>9, <3>10
      <3> QED
        BY <3>11
    <2> QED
      BY <2>2, <2>3
  <1>2. T = SUBSET S
    <2> HIDE DEF T
    <2>1. T \subseteq SUBSET S
      BY DEF T
    <2> QED
      BY <1>1, <2>1, SubsetInduction
  <1>3. S \in T
    BY <1>2
  <1> QED
    BY <1>3, FS_CardinalityType

LEMMA PresentStays ==
  ASSUME NEW S, NEW R, R \subseteq S
  PROVE  /\ Usable(R) \subseteq Usable(S)
         /\ \A name : Present(R, name) => Present(S, name)
         /\ \A name : Substitutes(R, name) \subseteq Substitutes(S, name)
         /\ \A r : Covered(r, R) \subseteq Covered(r, S) /\ Lacking(r, S) \subseteq Lacking(r, R)
  <1>1. Usable(R) \subseteq Usable(S)
    BY DEF Usable
  <1> DEFINE N(U) == {i.name : i \in Usable(U)}
  <1>2. N(R) \subseteq N(S) /\ {_normalize_ingredient(n) : n \in N(R)} \subseteq {_normalize_ingredient(n) : n \in N(S)}
    BY <1>1
  <1>3. \A name : Present(R, name) => Present(S, name)
    <2> TAKE name
    <2>1. Present(R, name) <=> \/ name \in N(R)
                               \/ _normalize_ingredient(name) \in {_normalize_ingredient(n) : n \in N(R)}
      BY Zenon DEF Present
    <2>2. Present(S, name) <=> \/ name \in N(S)
                               \/ _normalize_ingredient(name) \in {_normalize_ingredient(n) : n \in N(S)}
      BY Zenon DEF Present
    <2> HIDE DEF N
    <2> QED
      BY <1>2, <2>1, <2>2
  <1>4. \A name : Substitutes(R, name) \subseteq Substitutes(S, name)
    BY <1>3 DEF Substitutes
  <1>5. \A r : Covered(r, R) \subseteq Covered(r, S)
    BY <1>3 DEF Covered
  <1>6. \A r : Lacking(r, S) \subseteq Lacking(r, R)
    BY <1>5 DEF Lacking
  <1> QED
    BY <1>1, <1>3, <1>4, <1>5, <1>6

LEMMA UrgencyGrows ==
  ASSUME NEW S, Stocked(S), NEW R, R \subseteq S, NEW C, NEW B, B \subseteq C
  PROVE  _urgency_bonus(R, B) <= _urgency_bonus(S, C)
  <1>1. Stocked(R)
    BY FS_Subset DEF Stocked
  <1>2. Matching(R, B) \subseteq Matching(S, C)
    <2>1. Usable(R) \subseteq Usable(S)
      BY PresentStays
    <2>2. {_normalize_ingredient(c) : c \in B} \subseteq {_normalize_ingredient(c) : c \in C}
      OBVIOUS
    <2> QED
      BY <2>1, <2>2 DEF Matching
  <1> DEFINE f == [i \in Matching(R, B) |-> Points(i)]
             g == [i \in Matching(S, C) |-> Points(i)]
  <1>3. IsFiniteSet(Matching(R, B)) /\ IsFiniteSet(Matching(S, C))
    BY <1>1, UrgencyBonusIs
  <1>4. \A i \in Matching(S, C) : g[i] \in Nat
    BY DEF Points
  <1>5. \A i \in Matching(R, B) : f[i] = g[i]
    BY <1>2
  <1>6. Urgent(R, B) = SumFunctionOnSet(f, Matching(R, B)) /\ Urgent(S, C) = SumFunctionOnSet(g, Matching(S, C))
    BY DEF Urgent
  <1> HIDE DEF f, g
  <1>7. SumFunctionOnSet(f, Matching(R, B)) = SumFunctionOnSet(g, Matching(R, B))
    BY <1>3, <1>5, SumSame
  <1>8. SumFunctionOnSet(g, Matching(R, B)) <= SumFunctionOnSet(g, Matching(S, C))
    BY <1>2, <1>3, <1>4, SumSubset
  <1>9. PICK a, b : a = Urgent(R, B) /\ b = Urgent(S, C)
    OBVIOUS
  <1>10. a <= b
    BY <1>6, <1>7, <1>8, <1>9
  <1>11. /\ a \in Nat /\ _urgency_bonus(R, B) = IF a > 2400 THEN 2400 ELSE a
         /\ b \in Nat /\ _urgency_bonus(S, C) = IF b > 2400 THEN 2400 ELSE b
    BY <1>1, <1>9, UrgencyBonusIs
  <1>12. (IF a > 2400 THEN 2400 ELSE a) <= (IF b > 2400 THEN 2400 ELSE b)
    BY <1>10, <1>11
  <1> QED
    BY <1>11, <1>12

(* Different ingredients have different names.                             *)
LEMMA NamedOnce ==
  ASSUME NEW r \in Recipe, Len(r.ingredients) \in 1..6, Cardinality(NamesIn(r)) = Len(r.ingredients)
  PROVE  \A k, j \in DOMAIN r.ingredients : r.ingredients[k].name = r.ingredients[j].name => k = j
  <1> DEFINE D == DOMAIN r.ingredients
             h == [k \in D |-> r.ingredients[k].name]
  <1>1. PICK n \in 1..6 : n = Len(r.ingredients) /\ D = 1..n
    BY Indices DEF Recipe
  <1>2. IsFiniteSet(D) /\ Cardinality(D) = n
    <2>1. n \in 1..6
      OBVIOUS
    <2>2. 1 \in Int /\ n \in Int /\ n >= 1
      BY ONLY <2>1
    <2>3. IsFiniteSet(1..n) /\ Cardinality(1..n) = IF 1 > n THEN 0 ELSE n - 1 + 1
      BY <2>2, FS_Interval
    <2> QED
      BY <1>1, <2>2, <2>3
  <1>3. h \in Surjection(D, NamesIn(r))
    BY DEF Surjection, NamesIn
  <1>4. h \in Injection(D, NamesIn(r))
    <2> HIDE DEF h, D
    <2> QED
      BY <1>1, <1>2, <1>3, FS_Surjection
  <1> QED
    BY <1>4 DEF Injection, IsInjective

(* Of different ingredients those that are not lacking are the covered.    *)
LEMMA CoveredCount ==
  ASSUME NEW r \in Recipe, Len(r.ingredients) \in 1..6, Cardinality(NamesIn(r)) = Len(r.ingredients), NEW S
  PROVE  /\ IsFiniteSet((DOMAIN r.ingredients) \ Lacking(r, S))
         /\ Cardinality((DOMAIN r.ingredients) \ Lacking(r, S)) = Cardinality(Covered(r, S))
  <1> DEFINE D == DOMAIN r.ingredients
             E == D \ Lacking(r, S)
             g == [k \in E |-> r.ingredients[k].name]
  <1>2. IsFiniteSet(D)
    BY NamesAreFinite
  <1>5. \A k, j \in D : r.ingredients[k].name = r.ingredients[j].name => k = j
    BY NamedOnce
  <1>6. IsFiniteSet(E)
    BY <1>2, FS_Subset
  <1>7. g \in Surjection(E, Covered(r, S))
    <2>1. \A k \in E : g[k] \in Covered(r, S)
      BY DEF Lacking
    <2>2. \A name \in Covered(r, S) : \E k \in E : g[k] = name
      <3> TAKE name \in Covered(r, S)
      <3>1. PICK k \in D : r.ingredients[k].name = name
        BY DEF Covered, NamesIn
      <3>2. k \in E
        BY <3>1 DEF Lacking
      <3> QED
        BY <3>1, <3>2
    <2>3. g \in [E -> Covered(r, S)]
      BY <2>1
    <2> HIDE DEF g, E
    <2> QED
      BY <2>2, <2>3 DEF Surjection
  <1>8. g \in Injection(E, Covered(r, S))
    <2>1. g \in [E -> Covered(r, S)]
      BY <1>7 DEF Surjection
    <2>2. \A k, j \in E : g[k] = g[j] => k = j
      BY <1>5
    <2> HIDE DEF g, E
    <2> QED
      BY <2>1, <2>2 DEF Injection, IsInjective
  <1> HIDE DEF g, E, D
  <1>9. Cardinality(Covered(r, S)) = Cardinality(E)
    BY <1>6, <1>7, <1>8, FS_Surjection
  <1> QED
    BY <1>6, <1>9 DEF E, D

LEMMA StandingShrinks ==
  ASSUME NEW r \in Recipe, Len(r.ingredients) \in 1..6, Cardinality(NamesIn(r)) = Len(r.ingredients),
         NEW S, NEW R, R \subseteq S
  PROVE  \E m \in Nat : /\ Cardinality(Covered(r, S)) = Cardinality(Covered(r, R)) + m
                        /\ Standing(r, R) <= Standing(r, S) + 600 * m
  <1> DEFINE X == Lacking(r, R) \ Lacking(r, S)
             D == DOMAIN r.ingredients
             f == Stands(r, R)
             g == Stands(r, S)
  <1>1. Lacking(r, S) \subseteq Lacking(r, R) /\ \A name : Substitutes(R, name) \subseteq Substitutes(S, name)
    BY PresentStays
  <1>2. /\ IsFiniteSet(Lacking(r, R)) /\ IsFiniteSet(Lacking(r, S))
        /\ Standing(r, R) \in Nat /\ Standing(r, S) \in Nat
        /\ \A k \in Lacking(r, R) : f[k] \in Nat /\ f[k] <= 600
        /\ \A k \in Lacking(r, S) : g[k] \in Nat
    BY StandingIs
  <1>3. IsFiniteSet(X)
    BY <1>2, FS_Subset
  <1>4. PICK m \in Nat : m = Cardinality(X)
    BY <1>3, FS_CardinalityType
  <1>5. Cardinality(Covered(r, S)) = Cardinality(Covered(r, R)) + m
    <2>1. /\ IsFiniteSet(D \ Lacking(r, S)) /\ Cardinality(D \ Lacking(r, S)) = Cardinality(Covered(r, S))
          /\ IsFiniteSet(D \ Lacking(r, R)) /\ Cardinality(D \ Lacking(r, R)) = Cardinality(Covered(r, R))
      BY CoveredCount
    <2>2. (D \ Lacking(r, R)) \cup X = D \ Lacking(r, S) /\ (D \ Lacking(r, R)) \cap X = {}
      BY <1>1 DEF Lacking
    <2>3. Cardinality((D \ Lacking(r, R)) \cup X) = Cardinality(D \ Lacking(r, R)) + Cardinality(X)
      <3>1. PICK A, B : A = D \ Lacking(r, R) /\ B = X
        OBVIOUS
      <3>2. IsFiniteSet(A) /\ IsFiniteSet(B) /\ A \cap B = {}
        BY <1>3, <2>1, <2>2, <3>1
      <3>3. Cardinality(A \cup B) = Cardinality(A) + Cardinality(B)
        <4>1. Cardinality(A \cup B) = Cardinality(A) + Cardinality(B) - Cardinality(A \cap B)
          BY ONLY <3>2, FS_Union
        <4>2. Cardinality(A \cap B) = 0
          BY <3>2, FS_EmptySet
        <4>3. Cardinality(A) \in Nat /\ Cardinality(B) \in Nat
          BY <3>2, FS_CardinalityType
        <4>4. PICK a, b, c, d : a = Cardinality(A) /\ b = Cardinality(B) /\ c = Cardinality(A \cap B) /\ d = Cardinality(A \cup B)
          OBVIOUS
        <4>5. a \in Nat /\ b \in Nat /\ c = 0 /\ d = a + b - c
          BY ONLY <4>1, <4>2, <4>3, <4>4
        <4>6. d = a + b
          BY <4>5
        <4> QED
          BY <4>4, <4>6
      <3> QED
        BY <3>1, <3>3
    <2> QED
      BY <1>4, <2>1, <2>2, <2>3
  <1> HIDE DEF f, g
  <1>6. SumFunctionOnSet(f, Lacking(r, R)) = SumFunctionOnSet(f, Lacking(r, S)) + SumFunctionOnSet(f, X)
    <2>1. Lacking(r, S) \cup X = Lacking(r, R) /\ Lacking(r, S) \cap X = {}
      BY <1>1
    <2>2. \A k \in Lacking(r, S) \cup X : f[k] \in Int
      BY <1>2, <2>1
    <2> HIDE DEF X
    <2>3. SumFunctionOnSet(f, Lacking(r, S) \cup X) = SumFunctionOnSet(f, Lacking(r, S)) + SumFunctionOnSet(f, X)
      BY <1>2, <1>3, <2>1, <2>2, SumUnion
    <2> QED
      BY <2>1, <2>3
  <1>7. SumFunctionOnSet(f, X) <= 600 * m
    <2>1. \A k \in X : f[k] \in Nat /\ f[k] <= 600
      BY <1>2
    <2> HIDE DEF X
    <2> QED
      BY <1>3, <1>4, <2>1, SumAtMost
  <1>8. SumFunctionOnSet(f, Lacking(r, S)) <= SumFunctionOnSet(g, Lacking(r, S))
    <2>1. ASSUME NEW k \in Lacking(r, S) PROVE f[k] \in Int /\ g[k] \in Int /\ f[k] <= g[k]
      <3>1. k \in Lacking(r, R)
        BY <1>1
      <3>2. PICK A, B : A = Substitutes(R, r.ingredients[k].name) /\ B = Substitutes(S, r.ingredients[k].name)
        OBVIOUS
      <3>3. A \subseteq B /\ IsFiniteSet(B) /\ Cardinality(A) \in Nat /\ Cardinality(B) \in Nat
        BY <1>1, <3>2, SubstitutesAre
      <3>4. Cardinality(A) <= Cardinality(B)
        BY <3>3, FS_Subset
      <3>5. f[k] = 300 * Cardinality(A) /\ g[k] = 300 * Cardinality(B)
        BY <3>1, <3>2 DEF f, g, Stands
      <3> QED
        BY <3>3, <3>4, <3>5
    <2> QED
      BY <1>2, <2>1, SumLess
  <1>9. Standing(r, R) = SumFunctionOnSet(f, Lacking(r, R)) /\ Standing(r, S) = SumFunctionOnSet(g, Lacking(r, S))
    BY DEF Standing, f, g
  <1>10. Standing(r, R) <= Standing(r, S) + 600 * m
    <2>1. PICK a, b, c : a = SumFunctionOnSet(f, Lacking(r, S)) /\ b = SumFunctionOnSet(f, X) /\ c = Standing(r, S)
      OBVIOUS
    <2>2. a \in Nat /\ b \in Nat
      <3>1. \A k \in Lacking(r, S) : f[k] \in Nat
        BY <1>1, <1>2
      <3>2. \A k \in X : f[k] \in Nat
        BY <1>2
      <3> HIDE DEF X
      <3> QED
        BY <1>2, <1>3, <2>1, <3>1, <3>2, SumNat
    <2>3. a <= c /\ b <= 600 * m /\ c \in Nat
      BY <1>2, <1>7, <1>8, <1>9, <2>1
    <2>4. a + b <= c + 600 * m
      BY <2>2, <2>3
    <2> QED
      BY <1>6, <1>9, <2>1, <2>4
  <1> QED
    BY <1>5, <1>10

LEMMA CoverageGrows ==
  ASSUME NEW n \in 1..5, NEW c \in Nat, NEW m \in Nat
  PROVE  (3000 * c) \div n \in Nat /\ (3000 * (c + m)) \div n >= (3000 * c) \div n + 600 * m
         /\ (3000 * (c + m)) \div n \in Nat
  <1>1. CASE n = 1
    BY <1>1
  <1>2. CASE n = 2
    BY <1>2
  <1>3. CASE n = 3
    BY <1>3
  <1>4. CASE n = 4
    BY <1>4
  <1>5. CASE n = 5
    BY <1>5
  <1> QED
    BY <1>1, <1>2, <1>3, <1>4, <1>5

LEMMA FoodHelps ==
  ASSUME NEW r \in Recipe, Len(r.ingredients) \in 1..6, IsFiniteSet(r.tags), Len(r.ingredients) <= 5,
         Cardinality(NamesIn(r)) = Len(r.ingredients), NEW S, Stocked(S), NEW R, R \subseteq S
  PROVE  score_breakdown(r, R, {}).score <= score_breakdown(r, S, {}).score
  <1>1. Stocked(R)
    BY FS_Subset DEF Stocked
  <1>2. PICK m \in Nat : /\ Cardinality(Covered(r, S)) = Cardinality(Covered(r, R)) + m
                         /\ Standing(r, R) <= Standing(r, S) + 600 * m
    BY StandingShrinks
  <1>3. PICK c \in Nat : c = Cardinality(Covered(r, R))
    BY CoveredIs
  <1>4. PICK n \in 1..5 : n = Cardinality(NamesIn(r))
    <2>1. PICK l : l = Len(r.ingredients)
      OBVIOUS
    <2>2. l \in 1..6 /\ l <= 5 /\ l = Cardinality(NamesIn(r))
      BY <2>1
    <2>3. l \in 1..6 /\ l <= 5
      BY <2>2
    <2>4. l \in 1..5
      BY ONLY <2>3
    <2> QED
      BY <2>2, <2>4
  <1>5. PICK a, b, d, e, f, g, h, i :
          /\ a = (3000 * c) \div n /\ b = (3000 * (c + m)) \div n
          /\ d = _urgency_bonus(R, Covered(r, R)) /\ e = _urgency_bonus(S, Covered(r, S))
          /\ f = AtLeastZero(600 - 6 * r.prep) /\ g = _dietary_fit_bonus(r, {})
          /\ h = Standing(r, R) /\ i = Standing(r, S)
    OBVIOUS
  <1>6. /\ score_breakdown(r, R, {}).score = a + d + f + g + (IF h > 900 THEN 900 ELSE h)
        /\ score_breakdown(r, S, {}).score = b + e + f + g + (IF i > 900 THEN 900 ELSE i)
    BY <1>2, <1>3, <1>4, <1>5, ScoreIs, SMTT(30)
  <1>7. a \in Nat /\ b \in Nat /\ b >= a + 600 * m
    BY <1>5, CoverageGrows
  <1>8. d \in Nat /\ e \in Nat /\ d <= e
    <2>1. Covered(r, R) \subseteq Covered(r, S)
      BY PresentStays
    <2>2. _urgency_bonus(R, Covered(r, R)) <= _urgency_bonus(S, Covered(r, S))
      BY <2>1, UrgencyGrows
    <2>3. PICK B, C : B = Covered(r, R) /\ C = Covered(r, S)
      OBVIOUS
    <2>4. _urgency_bonus(R, B) \in Nat /\ _urgency_bonus(S, C) \in Nat
      BY <1>1, UrgencyBonusIs
    <2> QED
      BY <1>5, <2>2, <2>3, <2>4
  <1>9. f \in Int /\ g \in Int
    <2>1. r.prep \in Nat
      BY DEF Recipe
    <2>2. f \in Int
      BY <1>5, <2>1 DEF AtLeastZero
    <2>3. {} \cap r.tags = {}
      OBVIOUS
    <2>4. Cardinality({} \cap r.tags) = 0
      BY <2>3, FS_EmptySet
    <2>5. g \in Int
      BY <1>5, <2>4 DEF _dietary_fit_bonus
    <2> QED
      BY <2>2, <2>5
  <1>10. h \in Nat /\ i \in Nat /\ h <= i + 600 * m
    BY <1>2, <1>5, StandingIs
  <1>11. (IF h > 900 THEN 900 ELSE h) <= (IF i > 900 THEN 900 ELSE i) + 600 * m
    BY <1>10
  <1>12. PICK x, y : x = (IF h > 900 THEN 900 ELSE h) /\ y = (IF i > 900 THEN 900 ELSE i)
    OBVIOUS
  <1>13. x \in Int /\ y \in Int /\ x <= y + 600 * m
    BY <1>10, <1>11, <1>12
  <1>14. a + d + f + g + x <= b + e + f + g + y
    BY <1>7, <1>8, <1>9, <1>13
  <1> QED
    BY <1>6, <1>12, <1>14

LEMMA RankingInv ==
  ASSUME SuggestInv
  PROVE  RankingIsRight
  <1>1. ASSUME stage # "idle", NEW r \in Range(Recipes), NEW k \in DOMAIN r.ingredients,
               Takes(_build_remaining_inventory(stock), r.ingredients[k])
        PROVE  /\ r.ingredients[k].name \in Covered(r, stock)
               /\ r.ingredients[k].name \notin score_breakdown(r, stock, {}).missing
    <2>1. PICK S, begun, name : S = stock /\ begun = _build_remaining_inventory(S) /\ name = r.ingredients[k].name
      OBVIOUS
    <2>2. Stocked(S)
      BY <2>1 DEF SuggestInv, AskInv
    <2>3. name \in DOMAIN begun
      BY <1>1, <2>1 DEF Takes
    <2>4. name \in {i.name : i \in Usable(S)}
      BY <2>1, <2>2, <2>3, BeginningIs
    <2>5. name \in Covered(r, S)
      BY <2>1, <2>4 DEF Covered, Present, NamesIn
    <2>6. Own(r)
      BY DEF Range, Own
    <2>7. PICK missing : missing = score_breakdown(r, S, {}).missing
      OBVIOUS
    <2>8. missing = {r.ingredients[j].name : j \in {l \in Lacking(r, S) : Substitutes(S, r.ingredients[l].name) = {}}}
      BY <2>6, <2>7, OwnIsSound, ScoreIs
    <2>9. name \notin missing
      BY <2>5, <2>8 DEF Lacking
    <2> QED
      BY <2>1, <2>5, <2>7, <2>9
  <1>2. ASSUME stage # "idle", NEW r \in Range(Recipes), NEW i \in stock,
               Len(r.ingredients) <= 5, Cardinality(NamesIn(r)) = Len(r.ingredients)
        PROVE  score_breakdown(r, stock \ {i}, {}).score <= score_breakdown(r, stock, {}).score
    <2>1. PICK S, R : S = stock /\ R = stock \ {i}
      OBVIOUS
    <2>2. Stocked(S) /\ R \subseteq S
      BY <2>1 DEF SuggestInv, AskInv
    <2>3. Own(r)
      BY DEF Range, Own
    <2>4. r \in Recipe /\ Len(r.ingredients) \in 1..6 /\ IsFiniteSet(r.tags)
      BY <2>3, OwnIsSound DEF Sound
    <2>5. score_breakdown(r, R, {}).score <= score_breakdown(r, S, {}).score
      BY <1>2, <2>2, <2>4, FoodHelps
    <2> QED
      BY <2>1, <2>5
  <1>3. ASSUME NEW k \in DOMAIN ranked, NEW r \in Range(Recipes), ranked[k].recipe.id = r.id
        PROVE  query.tags \subseteq r.tags
    <2>1. PICK i \in DOMAIN Recipes : r = Recipes[i]
      BY DEF Range
    <2>2. PICK j \in DOMAIN Recipes : /\ ranked[k].recipe.id = Recipes[j].id
                                      /\ ranked[k].recipe.tags \subseteq Recipes[j].tags
      BY DEF SuggestInv, RankInv, Sound
    <2>3. Recipes[i].id = Recipes[j].id
      BY <1>3, <2>1, <2>2
    <2>4. i = j
      BY <2>3, SuggestionsAssumption
    <2>5. query.tags \subseteq ranked[k].recipe.tags
      BY DEF SuggestInv, RankInv
    <2> QED
      BY <2>1, <2>2, <2>4, <2>5
  <1>4. AvailableIsCovered
    BY <1>1, Zenon DEF AvailableIsCovered
  <1>5. FoodNeverHurts
    BY <1>2, Zenon DEF FoodNeverHurts
  <1>6. DietIsKept
    BY <1>3, Zenon DEF DietIsKept
  <1> QED
    BY <1>4, <1>5, <1>6 DEF RankingIsRight

(* What the planner can take the ranking counts as covered, food never     *)
(* makes a recipe rank lower, and diets are kept, for all recipes and all  *)
(* inventories (score_breakdown, _filter_recipe of the ranking, and the    *)
(* clients of the sources).                                                *)
THEOREM RankingsAreRight == Spec => []RankingIsRight
  BY RankingInv, SuggestionInvariantHolds, PTL

----------------------------------------------------------------------------
(* The days of a plan are well chosen.                                     *)

(* What one ingredient gains is what its name gains.                       *)
GainOf(rem, name) == Urgency[get_urgency_bucket(rem[name].days)] + AtLeastZero(30 - rem[name].days)
NamesBy(r, rem) == {r.ingredients[k].name : k \in TakenBy(r, rem)}
GainsOf(rem) == [name \in DOMAIN rem |-> GainOf(rem, name)]

LEMMA GainsAre ==
  ASSUME NEW r \in Recipe, Len(r.ingredients) \in 1..6, NEW rem, NEW begun, Left(rem, begun)
  PROVE  /\ IsFiniteSet(TakenBy(r, rem)) /\ IsFiniteSet(NamesBy(r, rem)) /\ NamesBy(r, rem) \subseteq DOMAIN rem
         /\ \A name \in DOMAIN rem : GainsOf(rem)[name] \in Nat /\ GainsOf(rem)[name] > 0
         /\ \A k \in TakenBy(r, rem) : Gain(r, rem, k) = GainsOf(rem)[r.ingredients[k].name]
  <1>1. TakenBy(r, rem) \subseteq DOMAIN r.ingredients
    BY DEF TakenBy
  <1>2. IsFiniteSet(TakenBy(r, rem))
    BY <1>1, NamesAreFinite, FS_Subset
  <1>3. \A k \in TakenBy(r, rem) : r.ingredients[k].name \in DOMAIN rem
    BY DEF TakenBy, Takes
  <1>4. NamesBy(r, rem) \subseteq DOMAIN rem
    BY <1>3 DEF NamesBy
  <1>5. IsFiniteSet(NamesBy(r, rem))
    <2>1. NamesBy(r, rem) \subseteq NamesIn(r)
      BY <1>1 DEF NamesBy, NamesIn
    <2> QED
      BY <2>1, NamesAreFinite, FS_Subset
  <1>6. ASSUME NEW name \in DOMAIN rem PROVE GainsOf(rem)[name] \in Nat /\ GainsOf(rem)[name] > 0
    <2>1. rem[name].days \in Int
      BY DEF Left
    <2>2. GainOf(rem, name) \in Nat /\ GainOf(rem, name) > 0
      BY <2>1, UrgencyIs DEF GainOf
    <2> QED
      BY <2>2 DEF GainsOf
  <1>7. \A k \in TakenBy(r, rem) : Gain(r, rem, k) = GainsOf(rem)[r.ingredients[k].name]
    BY <1>3 DEF GainsOf, GainOf, Gain
  <1> QED
    BY <1>2, <1>4, <1>5, <1>6, <1>7

LEMMA GainsAreNat ==
  ASSUME NEW r \in Recipe, Len(r.ingredients) \in 1..6, NEW rem, NEW begun, Left(rem, begun)
  PROVE  Gains(r, rem) \in Nat
  <1> DEFINE f == [k \in TakenBy(r, rem) |-> Gain(r, rem, k)]
  <1>1. IsFiniteSet(TakenBy(r, rem)) /\ \A k \in TakenBy(r, rem) : f[k] \in Nat
    <2>1. \A k \in TakenBy(r, rem) : r.ingredients[k].name \in DOMAIN rem
      BY DEF TakenBy, Takes
    <2> QED
      BY <2>1, GainsAre
  <1> HIDE DEF f
  <1>2. SumFunctionOnSet(f, TakenBy(r, rem)) \in Nat
    BY <1>1, SumNat
  <1> QED
    BY <1>2 DEF Gains, f

(* A recipe gains at least what its names do, and as much if it names no   *)
(* ingredient twice.                                                       *)
LEMMA GainsOfNames ==
  ASSUME NEW r \in Recipe, Len(r.ingredients) \in 1..6, NEW rem, NEW begun, Left(rem, begun)
  PROVE  /\ SumFunctionOnSet(GainsOf(rem), NamesBy(r, rem)) <= Gains(r, rem)
         /\ Cardinality(NamesIn(r)) = Len(r.ingredients)
              => SumFunctionOnSet(GainsOf(rem), NamesBy(r, rem)) = Gains(r, rem)
  <1> DEFINE T == TakenBy(r, rem)
             f == [k \in T |-> Gain(r, rem, k)]
             g == GainsOf(rem)
             h == [k \in T |-> r.ingredients[k].name]
             of(name) == CHOOSE k \in T : h[k] = name
             K == {of(name) : name \in NamesBy(r, rem)}
  <1>1. /\ IsFiniteSet(T) /\ IsFiniteSet(NamesBy(r, rem))
        /\ \A k \in T : f[k] \in Nat /\ g[h[k]] = f[k]
    <2>1. \A k \in T : r.ingredients[k].name \in DOMAIN rem
      BY DEF TakenBy, Takes
    <2> QED
      BY <2>1, GainsAre
  <1>2. NamesBy(r, rem) = {h[k] : k \in T}
    BY DEF NamesBy
  <1>3. ASSUME NEW s \in SUBSET T, \A k, j \in s : h[k] = h[j] => k = j
        PROVE  SumFunctionOnSet(f, s) = SumFunctionOnSet(g, {h[k] : k \in s})
    <2>1. IsFiniteSet(s)
      BY <1>1, FS_Subset
    <2>2. \A k \in s : f[k] \in Int /\ g[h[k]] = f[k]
      BY <1>1
    <2> HIDE DEF f, g, h, T
    <2> QED
      BY <1>3, <2>1, <2>2, SumImage
  <1>4. \A name \in NamesBy(r, rem) : of(name) \in T /\ h[of(name)] = name
    <2> HIDE DEF h, T
    <2> QED
      BY <1>2
  <1>5. K \subseteq T /\ \A k, j \in K : h[k] = h[j] => k = j
    <2> HIDE DEF h, T, of
    <2> QED
      BY <1>4
  <1>6. {h[k] : k \in K} = NamesBy(r, rem)
    <2> HIDE DEF h, T, of
    <2> QED
      BY <1>4
  <1>7. SumFunctionOnSet(f, K) <= SumFunctionOnSet(f, T)
    <2> HIDE DEF f, g, h, T, K
    <2> QED
      BY <1>1, <1>5, SumSubset
  <1>8. SumFunctionOnSet(f, T) = Gains(r, rem)
    BY DEF Gains
  <1>9. SumFunctionOnSet(g, NamesBy(r, rem)) <= Gains(r, rem)
    <2> HIDE DEF f, g, h, T, K
    <2>1. SumFunctionOnSet(f, K) = SumFunctionOnSet(g, {h[k] : k \in K})
      BY <1>3, <1>5
    <2> QED
      BY <1>6, <1>7, <1>8, <2>1
  <1>10. ASSUME Cardinality(NamesIn(r)) = Len(r.ingredients)
         PROVE  SumFunctionOnSet(g, NamesBy(r, rem)) = Gains(r, rem)
    <2>1. \A k, j \in DOMAIN r.ingredients : r.ingredients[k].name = r.ingredients[j].name => k = j
      BY <1>10, NamedOnce
    <2>2. \A k, j \in T : h[k] = h[j] => k = j
      BY <2>1 DEF TakenBy
    <2> HIDE DEF f, g, h, T, K
    <2>3. SumFunctionOnSet(f, T) = SumFunctionOnSet(g, {h[k] : k \in T})
      BY <1>3, <2>2
    <2> QED
      BY <1>2, <1>8, <2>3
  <1> QED
    BY <1>9, <1>10

(* Who uses all that another uses and something more gains more.           *)
LEMMA MoreUsedGainsMore ==
  ASSUME NEW r \in Recipe, Len(r.ingredients) \in 1..6, NEW c \in Recipe, Len(c.ingredients) \in 1..6,
         NEW rem, NEW begun, Left(rem, begun), Cardinality(NamesIn(r)) = Len(r.ingredients),
         NamesBy(r, rem) \subseteq NamesBy(c, rem), NamesBy(r, rem) # NamesBy(c, rem)
  PROVE  Gains(r, rem) < Gains(c, rem)
  <1> DEFINE g == GainsOf(rem)
             A == NamesBy(r, rem)
             B == NamesBy(c, rem)
  <1>1. IsFiniteSet(B) /\ B \subseteq DOMAIN rem /\ \A name \in DOMAIN rem : g[name] \in Nat /\ g[name] > 0
    BY GainsAre
  <1>2. PICK z \in B : z \notin A
    OBVIOUS
  <1>3. SumFunctionOnSet(g, A) = Gains(r, rem) /\ SumFunctionOnSet(g, B) <= Gains(c, rem)
    BY GainsOfNames
  <1>4. A \subseteq B \ {z} /\ IsFiniteSet(B \ {z})
    BY <1>1, <1>2, FS_Subset
  <1> HIDE DEF g, A, B
  <1>5. SumFunctionOnSet(g, B) = g[z] + SumFunctionOnSet(g, B \ {z})
    <2>1. \A x \in B : g[x] \in Int
      BY <1>1
    <2> QED
      BY <1>1, <1>2, <2>1, SumRemove
  <1>6. SumFunctionOnSet(g, A) <= SumFunctionOnSet(g, B \ {z})
    <2>1. \A x \in B \ {z} : g[x] \in Nat
      BY <1>1
    <2> QED
      BY <1>4, <2>1, SumSubset
  <1>7. SumFunctionOnSet(g, A) \in Nat /\ SumFunctionOnSet(g, B \ {z}) \in Nat
    <2>1. IsFiniteSet(A)
      BY <1>4, FS_Subset
    <2>2. \A x \in B \ {z} : g[x] \in Nat
      BY <1>1
    <2>3. \A x \in A : g[x] \in Nat
      BY <1>4, <2>2
    <2> QED
      BY <1>4, <2>1, <2>2, <2>3, SumNat
  <1>8. Gains(c, rem) \in Nat
    BY GainsAreNat
  <1>9. PICK a, b, d, e, w : /\ a = SumFunctionOnSet(g, A) /\ b = SumFunctionOnSet(g, B) /\ d = g[z]
                             /\ e = SumFunctionOnSet(g, B \ {z}) /\ w = Gains(c, rem)
    OBVIOUS
  <1>10. a < w
    <2>1. a \in Nat /\ e \in Nat /\ d \in Nat /\ d > 0 /\ w \in Nat /\ b = d + e /\ a <= e /\ b <= w
      BY <1>1, <1>2, <1>3, <1>5, <1>6, <1>7, <1>8, <1>9
    <2> QED
      BY ONLY <2>1
  <1> QED
    BY <1>3, <1>9, <1>10

(* The recipe of a day is one of those that no other beats.                *)
LEMMA DayIsBest ==
  ASSUME SuggestInv, PlanDay
  PROVE  \E r, begun :
           /\ chosen' = Append(chosen, r) /\ Last(chosen') = r /\ r \in Range(recipes) /\ Left(remaining, begun)
           /\ \A c \in Range(recipes) : Own(c)
           /\ \A c \in Range(recipes) : ~ Beats(_score_recipe(c, remaining, Used, query.servings),
                                                _score_recipe(r, remaining, Used, query.servings))
  <1>1. PICK r : r = _pick_best_recipe(recipes, remaining, Used, query.servings)
    OBVIOUS
  <1>2. stage = "planning" /\ chosen' = Append(chosen, r)
    BY <1>1 DEF PlanDay
  <1>3. PICK begun, rem, rs, servings, used :
          /\ begun = _build_remaining_inventory(stock) /\ rem = remaining
          /\ rs = recipes /\ servings = query.servings /\ used = Used
    OBVIOUS
  <1>4. /\ Left(rem, begun) /\ chosen \in Seq(Recipe)
        /\ rs \in Seq(Recipe) /\ rs # <<>> /\ \A k \in DOMAIN rs : Own(rs[k])
    BY <1>2, <1>3 DEF SuggestInv, PlanInv, RankInv, Covering
  <1>5. PICK k \in DOMAIN rs : /\ r = rs[k]
                               /\ \A j \in DOMAIN rs : ~ Beats(_score_recipe(rs[j], rem, used, servings),
                                                               _score_recipe(rs[k], rem, used, servings))
    <2>1. \A k \in DOMAIN rs : Len(rs[k].ingredients) \in 1..6
      BY <1>4, OwnIsSound
    <2> QED
      BY <1>1, <1>3, <1>4, <2>1, BestIs
  <1>6. r \in Recipe
    BY <1>4, <1>5, OwnIsSound
  <1>7. Last(chosen') = r
    <2>1. Len(Append(chosen, r)) = Len(chosen) + 1 /\ Append(chosen, r)[Len(chosen) + 1] = r
      BY <1>4, <1>6, AppendProperties
    <2> QED
      BY <1>2, <2>1 DEF Last
  <1>8. \A c \in Range(rs) : \E j \in DOMAIN rs : c = rs[j]
    BY DEF Range
  <1>9. r \in Range(rs)
    BY <1>5 DEF Range
  <1>10. \A c \in Range(rs) : /\ Own(c)
                              /\ ~ Beats(_score_recipe(c, rem, used, servings), _score_recipe(r, rem, used, servings))
    BY <1>4, <1>5, <1>8
  <1> QED
    BY <1>2, <1>3, <1>4, <1>7, <1>9, <1>10

LEMMA NoneIsPassedOver ==
  ASSUME SuggestInv, PlanDay, NEW c \in Range(recipes),
         Cardinality(NamesIn(Last(chosen'))) = Len(Last(chosen').ingredients)
  PROVE  ~ (NamesTaken(Last(chosen')) \subseteq NamesTaken(c) /\ NamesTaken(Last(chosen')) # NamesTaken(c))
  <1>1. PICK r, begun : /\ Last(chosen') = r /\ r \in Range(recipes) /\ Left(remaining, begun)
                        /\ Own(c) /\ Own(r)
                        /\ ~ Beats(_score_recipe(c, remaining, Used, query.servings),
                                   _score_recipe(r, remaining, Used, query.servings))
    BY DayIsBest
  <1>2. PICK rem, used, servings, a, b : /\ rem = remaining /\ used = Used /\ servings = query.servings
                                         /\ a = _score_recipe(c, rem, used, servings)
                                         /\ b = _score_recipe(r, rem, used, servings)
    OBVIOUS
  <1>3. /\ r \in Recipe /\ Len(r.ingredients) \in 1..6 /\ c \in Recipe /\ Len(c.ingredients) \in 1..6
        /\ Left(rem, begun)
    BY <1>1, <1>2, OwnIsSound
  <1>4. Tuple5(a) /\ a[1] = Gains(c, rem) /\ Tuple5(b) /\ b[1] = Gains(r, rem)
    BY <1>2, <1>3, DayScoreIs
  <1>5. ~ (a[1] > b[1])
    BY <1>1, <1>2, <1>4, BeatsIs
  <1>6. NamesTaken(r) = NamesBy(r, rem) /\ NamesTaken(c) = NamesBy(c, rem)
    BY <1>2 DEF NamesTaken, NamesBy, TakenBy
  <1>7. ASSUME NamesBy(r, rem) \subseteq NamesBy(c, rem), NamesBy(r, rem) # NamesBy(c, rem) PROVE FALSE
    <2>1. Cardinality(NamesIn(r)) = Len(r.ingredients)
      BY <1>1
    <2>2. Gains(r, rem) < Gains(c, rem)
      BY <1>3, <1>7, <2>1, MoreUsedGainsMore
    <2>3. a[1] \in Int /\ b[1] \in Int
      BY <1>4 DEF Tuple5
    <2> QED
      BY <1>4, <1>5, <2>2, <2>3
  <1> QED
    BY <1>1, <1>6, <1>7

LEMMA NoneComesBackInVain ==
  ASSUME SuggestInv, PlanDay, Last(chosen') \in Range(chosen), NamesTaken(Last(chosen')) = {}
  PROVE  Range(recipes) \subseteq Range(chosen)
  <1> SUFFICES ASSUME NEW c \in Range(recipes), c \notin Range(chosen) PROVE FALSE
    OBVIOUS
  <1>1. PICK r, begun : /\ Last(chosen') = r /\ r \in Range(recipes) /\ Left(remaining, begun)
                        /\ Own(c) /\ Own(r)
                        /\ ~ Beats(_score_recipe(c, remaining, Used, query.servings),
                                   _score_recipe(r, remaining, Used, query.servings))
    BY DayIsBest
  <1>2. PICK rem, used, servings, a, b : /\ rem = remaining /\ used = Used /\ servings = query.servings
                                         /\ a = _score_recipe(c, rem, used, servings)
                                         /\ b = _score_recipe(r, rem, used, servings)
    OBVIOUS
  <1>3. /\ r \in Recipe /\ Len(r.ingredients) \in 1..6 /\ c \in Recipe /\ Len(c.ingredients) \in 1..6
        /\ Left(rem, begun)
    BY <1>1, <1>2, OwnIsSound
  <1>4. /\ Tuple5(a) /\ a[1] = Gains(c, rem) /\ a[2] \in Nat /\ a[3] = Cardinality(TakenBy(c, rem))
        /\ a[4] = (IF c.id \in used THEN 0 ELSE 1)
        /\ IsFiniteSet(TakenBy(c, rem))
        /\ Tuple5(b) /\ b[1] = Gains(r, rem) /\ b[2] \in Nat /\ b[2] <= b[3]
        /\ b[3] = Cardinality(TakenBy(r, rem)) /\ b[4] = (IF r.id \in used THEN 0 ELSE 1)
    BY <1>2, <1>3, DayScoreIs
  <1>5. b[1] = 0 /\ b[3] = 0
    <2>1. NamesTaken(r) = NamesBy(r, rem)
      BY <1>2 DEF NamesTaken, NamesBy, TakenBy
    <2>2. TakenBy(r, rem) = {}
      BY <1>1, <2>1 DEF NamesBy
    <2>3. IsFiniteSet({}) /\ Cardinality({}) = 0
      BY FS_EmptySet
    <2>4. Gains(r, rem) = 0
      <3>1. PICK f : Gains(r, rem) = SumFunctionOnSet(f, TakenBy(r, rem))
        BY DEF Gains
      <3> QED
        BY <2>2, <2>3, <3>1, SumFirst
    <2> QED
      BY <1>4, <2>2, <2>3, <2>4
  <1>6. b[4] = 0
    <2>1. PICK d \in DOMAIN chosen : r = chosen[d]
      BY <1>1 DEF Range
    <2>2. r.id \in Used
      BY <2>1 DEF Used
    <2> QED
      BY <1>2, <1>4, <2>2
  <1>7. a[4] = 1
    <2> SUFFICES ASSUME c.id \in Used PROVE FALSE
      BY <1>2, <1>4
    <2>1. PICK d \in DOMAIN chosen : c.id = chosen[d].id
      BY DEF Used
    <2>2. Own(chosen[d])
      BY DEF SuggestInv, PlanInv
    <2>3. PICK i, j \in DOMAIN Recipes : c = Recipes[i] /\ chosen[d] = Recipes[j]
      BY <1>1, <2>2 DEF Own
    <2>4. i = j
      BY <2>1, <2>3, SuggestionsAssumption
    <2>5. c = chosen[d]
      BY <2>3, <2>4
    <2> QED
      BY <2>5 DEF Range
  <1>8. a[1] \in Nat /\ a[3] \in Nat
    BY <1>3, <1>4, GainsAreNat, FS_CardinalityType
  <1>9. Beats(a, b)
    <2>1. b[2] = 0
      BY <1>4, <1>5
    <2>2. \/ a[1] > b[1]
          \/ a[1] = b[1] /\ a[2] > b[2]
          \/ a[1] = b[1] /\ a[2] = b[2] /\ a[3] > b[3]
          \/ a[1] = b[1] /\ a[2] = b[2] /\ a[3] = b[3] /\ a[4] > b[4]
      BY <1>4, <1>5, <1>6, <1>7, <1>8, <2>1
    <2> QED
      BY <1>4, <2>2, BeatsIs
  <1> QED
    BY <1>1, <1>2, <1>9

(* Only the planning of a day adds to a plan.                              *)
LEMMA OnlyDaysAreAdded ==
  ASSUME [Next]_vars, stage = "planning", chosen' # chosen
  PROVE  PlanDay
  BY DEF Next, vars, suggesting, Ask, list_inventory_items, Suggest, generate_plan, FinishPlan, search_mock,
         search_spoonacular, search_opensearch, _load_recipes, Rank, Record, get_recipe_detail

(* Every day takes a recipe that uses all the food another would use, and  *)
(* one comes back only to use up food or when all have had their day, for  *)
(* all recipes and inventories (_score_recipe, _pick_best_recipe, and the  *)
(* loop of generate_plan).                                                 *)
THEOREM EveryDayIsWellChosen == Spec => DaysAreWellChosen
  <1>1. ASSUME SuggestInv, [Next]_vars
        PROVE  stage = "planning" /\ chosen' # chosen =>
                 /\ Cardinality(NamesIn(Last(chosen'))) = Len(Last(chosen').ingredients) =>
                      \A c \in Range(recipes) : ~ (NamesTaken(Last(chosen')) \subseteq NamesTaken(c)
                                                     /\ NamesTaken(Last(chosen')) # NamesTaken(c))
                 /\ Last(chosen') \in Range(chosen)
                      => NamesTaken(Last(chosen')) # {} \/ Range(recipes) \subseteq Range(chosen)
    <2> SUFFICES ASSUME stage = "planning", chosen' # chosen
                 PROVE  /\ Cardinality(NamesIn(Last(chosen'))) = Len(Last(chosen').ingredients) =>
                             \A c \in Range(recipes) : ~ (NamesTaken(Last(chosen')) \subseteq NamesTaken(c)
                                                            /\ NamesTaken(Last(chosen')) # NamesTaken(c))
                        /\ Last(chosen') \in Range(chosen)
                             => NamesTaken(Last(chosen')) # {} \/ Range(recipes) \subseteq Range(chosen)
      OBVIOUS
    <2>1. PlanDay
      BY <1>1, OnlyDaysAreAdded
    <2> QED
      BY <1>1, <2>1, NoneIsPassedOver, NoneComesBackInVain
  <1>2. SuggestInv /\ [Next]_vars =>
          [stage = "planning" /\ chosen' # chosen =>
             LET r == Last(chosen')
             IN  Cardinality(NamesIn(r)) = Len(r.ingredients) =>
                   \A c \in Range(recipes) : ~ (NamesTaken(r) \subseteq NamesTaken(c) /\ NamesTaken(r) # NamesTaken(c))
          ]_suggesting
    BY <1>1
  <1>3. SuggestInv /\ [Next]_vars =>
          [stage = "planning" /\ chosen' # chosen /\ Last(chosen') \in Range(chosen)
             => NamesTaken(Last(chosen')) # {} \/ Range(recipes) \subseteq Range(chosen)]_suggesting
    BY <1>1
  <1>4. Spec => NothingPassedOver
    BY <1>2, SuggestionInvariantHolds, PTL DEF Spec, NothingPassedOver
  <1>5. Spec => RepeatsOnlyToUseUp
    BY <1>3, SuggestionInvariantHolds, PTL DEF Spec, RepeatsOnlyToUseUp
  <1> QED
    BY <1>4, <1>5 DEF DaysAreWellChosen
=============================================================================
