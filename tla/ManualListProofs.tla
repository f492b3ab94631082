-------------------------- MODULE ManualListProofs --------------------------
(* Theorems about ManualList, for all values of its constants.             *)
EXTENDS ManualList, TLAPS

---------------------------------------------------------------------------
(* The rows a request wants to add.                                        *)
LEMMA CreatedFields ==
  ASSUME NEW r \in Reqs, call[r] \in Calls
  PROVE  /\ Created(r) \subseteq Row
         /\ \A x \in Created(r) : x.by = r /\ x.key = call[r].key
         /\ Created(r) # {} => \E x \in Created(r) : x.index = 1
         /\ call[r].batch # <<>> => Created(r) # {}
  <1>1. PICK n \in 0..MaxLen : call[r].batch \in [1..n -> Entries]
    BY DEF Calls, Batches
  <1>2. n \in Nat /\ call[r].key \in Keys
    BY ManualListAssumption DEF Calls
  <1>3. \A m \in 1..n : call[r].batch[m] \in Entries /\ m \in Nat
    BY <1>1, <1>2
  <1>4. DOMAIN call[r].batch = 1..n
    BY <1>1
  <1>5. call[r].batch # <<>> => n >= 1
    <2>1. n = 0 => 1..n = {}
      BY <1>2
    <2>2. call[r].batch \in [{} -> Entries] => call[r].batch = <<>>
      OBVIOUS
    <2> QED
      BY <1>1, <1>2, <2>1, <2>2
  <1>6. n >= 1 => 1 \in DOMAIN call[r].batch
    BY <1>2, <1>4
  <1>7. Created(r) # {} => n >= 1
    BY <1>2, <1>4 DEF Created
  <1>8. \A x \in Created(r) : x.by = r /\ x.key = call[r].key /\ x \in Row
    BY <1>2, <1>3, <1>4 DEF Created, Row
  <1>9. n >= 1 => \E x \in Created(r) : x.index = 1
    <2> SUFFICES ASSUME n >= 1 PROVE \E x \in Created(r) : x.index = 1
      OBVIOUS
    <2> DEFINE w == [key |-> call[r].key, index |-> 1, entry |-> call[r].batch[1], by |-> r]
    <2>1. w \in Created(r)
      BY <1>6 DEF Created
    <2>2. w.index = 1
      OBVIOUS
    <2> QED
      BY <2>1, <2>2
  <1> QED
    BY <1>5, <1>7, <1>8, <1>9

(* Two lists with one key cannot both be stored: their first rows clash.   *)
LEMMA FirstRowsClash ==
  ASSUME NEW r \in Reqs, call[r] \in Calls, NEW q \in Reqs, call[q] \in Calls,
         call[r].key = call[q].key, Created(r) # {}, Created(q) # {}
  PROVE  Clash(r, Created(q))
  <1>1. /\ \E x \in Created(r) : x.index = 1
        /\ \E y \in Created(q) : y.index = 1
        /\ \A x \in Created(r) : x.key = call[r].key
        /\ \A y \in Created(q) : y.key = call[q].key
    BY CreatedFields
  <1> QED
    BY <1>1 DEF Clash, SameUniqueKey

LEMMA StoredKeyClashes ==
  ASSUME Inv, NEW r \in Reqs, pc[r] # "idle", Created(r) # {},
         NEW x \in rows, x.key = call[r].key
  PROVE  Clash(r, rows)
  <1>1. x.by \in Reqs /\ pc[x.by] # "idle" /\ x \in Created(x.by)
    BY DEF Inv, TypeOK, RowsInv, Row
  <1>2. call[r] \in Calls /\ call[x.by] \in Calls
    BY <1>1 DEF Inv, TypeOK
  <1>3. call[x.by].key = call[r].key
    BY <1>1, <1>2, CreatedFields
  <1>4. Clash(r, Created(x.by))
    BY <1>1, <1>2, <1>3, FirstRowsClash
  <1>5. Created(x.by) \subseteq rows
    BY DEF Inv, BatchIsWhole
  <1> QED
    BY <1>4, <1>5 DEF Clash

LEMMA InsertedKeyIsNew ==
  ASSUME Inv, NEW r \in Reqs, pc[r] = "inserted", NEW x \in Created(r), NEW y \in rows
  PROVE  y.key # x.key
  <1>1. ~Clash(r, rows) /\ call[r] \in Calls
    BY DEF Inv, ProgressInv, TypeOK
  <1>2. x.key = call[r].key
    BY <1>1, CreatedFields
  <1> QED
    BY <1>1, <1>2, StoredKeyClashes

---------------------------------------------------------------------------
LEMMA InitInv == Init => Inv
  BY ManualListAssumption
     DEF Init, Inv, TypeOK, Stages, RowsInv, ProgressInv, BatchIsWhole,
         AnswersAgree, ConflictIsReplayed

(* The steps that leave the table alone.                                   *)
LEMMA ReceiveStep ==
  ASSUME Inv, NEW r \in Reqs, NEW c \in Calls, Receive(r, c)
  PROVE  Inv'
  <1> USE DEF Receive, Advance
  <1>1. TypeOK'
    BY ManualListAssumption DEF Inv, TypeOK, Stages
  <1>2. \A q \in Reqs \ {r} : call'[q] = call[q] /\ pc'[q] = pc[q] /\ Created(q)' = Created(q)
    BY DEF Inv, TypeOK, Created
  <1>3. \A x \in rows : x.by \in Reqs \ {r}
    BY DEF Inv, TypeOK, RowsInv, Row
  <1>4. RowsInv'
    BY <1>2, <1>3 DEF Inv, RowsInv
  <1>5. ProgressInv'
    BY <1>2 DEF Inv, TypeOK, ProgressInv, Existing, list_manual_items_by_idempotency, Clash
  <1>6. BatchIsWhole'
    BY <1>2, <1>3 DEF Inv, BatchIsWhole
  <1>7. AnswersAgree' /\ ConflictIsReplayed'
    BY <1>2, ManualListAssumption DEF Inv, TypeOK, ProgressInv, AnswersAgree, ConflictIsReplayed
  <1> QED
    BY <1>1, <1>4, <1>5, <1>6, <1>7 DEF Inv

LEMMA CreatedSame ==
  ASSUME call' = call
  PROVE  \A q : Created(q)' = Created(q)
  BY DEF Created

LEMMA ExistingIsRow ==
  ASSUME Inv, NEW r \in Reqs
  PROVE  /\ Existing(r) \subseteq Row
         /\ Existing(r) = {x \in rows : x.key = call[r].key}
  BY DEF Inv, TypeOK, Existing, list_manual_items_by_idempotency

(* A step of r that changes neither rows nor calls.                        *)
LEMMA QuietStep ==
  ASSUME Inv, NEW r \in Reqs,
         look_up(r) \/ check_recipes(r) \/ insert(r) \/ replay(r) \/ refresh(r) \/ die(r)
  PROVE  Inv'
  <1>a. rows' = rows /\ call' = call /\ pc[r] # "idle" /\ call[r] \in Calls
    BY DEF look_up, check_recipes, insert, replay, refresh, die, Inv, TypeOK
  <1>b. /\ \A q : Created(q)' = Created(q)
        /\ \A q : Existing(q)' = Existing(q)
    BY <1>a DEF Created, Existing, list_manual_items_by_idempotency
  <1>c. Created(r) \subseteq Row /\ (call[r].batch # <<>> => Created(r) # {})
    BY <1>a, CreatedFields
  <1>1. TypeOK'
    BY <1>a, <1>c, ExistingIsRow
       DEF look_up, check_recipes, insert, replay, refresh, die, Advance, Finish,
           Inv, TypeOK, Stages
  <1>2. \A q \in Reqs \ {r} : pc'[q] = pc[q] /\ code'[q] = code[q] /\ answer'[q] = answer[q]
    BY DEF look_up, check_recipes, insert, replay, refresh, die, Advance, Finish, Inv, TypeOK
  <1>3. pc'[r] # "idle"
    BY DEF look_up, check_recipes, insert, replay, refresh, die, Advance, Finish, Inv, TypeOK
  <1>4. RowsInv'
    <2>1. \A x \in rows : x.by \in Reqs
      BY DEF Inv, TypeOK, Row
    <2> QED
      BY <1>a, <1>b, <1>2, <1>3, <2>1 DEF Inv, RowsInv
  <1>5. BatchIsWhole'
    BY <1>a, <1>b DEF Inv, BatchIsWhole
  <1>6. ProgressInv'
    <2>1. CASE insert(r)
      <3>1. pc'[r] = "conflict" => Existing(r) # {}
        <4> SUFFICES ASSUME Clash(r, rows) PROVE Existing(r) # {}
          BY <2>1 DEF insert, Advance, Inv, TypeOK
        <4>1. \E x \in Created(r), y \in rows : x.key = y.key
          BY DEF Clash, SameUniqueKey
        <4> QED
          BY <1>a, <4>1, CreatedFields, ExistingIsRow
      <3>2. pc'[r] = "inserted" => ~Clash(r, rows)
        BY <2>1 DEF insert, Advance, Inv, TypeOK
      <3>3. \A q \in Reqs : pc[q] = "inserted" => ~Clash(r, Created(q)) /\ ~Clash(q, Created(r))
        BY <2>1 DEF insert, Clash, SameUniqueKey
      <3>4. pc'[r] \in {"conflict", "inserted"} /\ code'[r] = None
        BY <2>1 DEF insert, Advance, Inv, TypeOK, ProgressInv
      <3>5. \A q, p \in Reqs : Clash(q, Created(p))' <=> Clash(q, Created(p))
        BY <1>b DEF Clash
      <3>6. \A q \in Reqs : Clash(q, rows)' <=> Clash(q, rows)
        BY <1>a, <1>b DEF Clash
      <3> QED
        BY <1>a, <1>b, <1>2, <3>1, <3>2, <3>3, <3>4, <3>5, <3>6 DEF Inv, ProgressInv
    <2>2. CASE ~insert(r)
      <3>1. \/ pc'[r] \in {"checked", "adding", "failed"} /\ code'[r] = None
            \/ pc'[r] = "done"
        BY <2>2 DEF look_up, check_recipes, replay, refresh, die, Advance, Finish,
                    Inv, TypeOK, Stages, ProgressInv
      <3>5. \A q, p \in Reqs : Clash(q, Created(p))' <=> Clash(q, Created(p))
        BY <1>b DEF Clash
      <3>6. \A q \in Reqs : Clash(q, rows)' <=> Clash(q, rows)
        BY <1>a, <1>b DEF Clash
      <3> QED
        BY <1>a, <1>b, <1>2, <3>1, <3>5, <3>6 DEF Inv, ProgressInv
    <2> QED
      BY <2>1, <2>2
  <1>7. code'[r] = "201" => \/ answer'[r] = Existing(r) /\ Existing(r) # {}
                            \/ pc[r] = "committed" /\ answer'[r] = Created(r)
    BY ManualListAssumption
       DEF look_up, check_recipes, insert, replay, refresh, die, Advance, Finish,
           Inv, TypeOK, Stages, ProgressInv
  <1>8. AnswersAgree'
    <2>1. ASSUME pc[r] = "committed", Created(r) # {} PROVE Created(r) = Existing(r)
      <3>1. Created(r) \subseteq rows /\ \A x \in Created(r) : x.key = call[r].key /\ x.by = r
        BY <1>a, <2>1, CreatedFields DEF Inv, ProgressInv
      <3>2. \A y \in rows : y.key = call[r].key => y \in Created(r)
        BY <2>1, <3>1 DEF Inv, BatchIsWhole, RowsInv
      <3> QED
        BY <3>1, <3>2, ExistingIsRow
    <2> QED
      BY <1>a, <1>c, <1>2, <1>7, <2>1, ExistingIsRow DEF Inv, AnswersAgree
  <1>9. ConflictIsReplayed'
    <2>1. code'[r] # "500"
      BY ManualListAssumption
         DEF look_up, check_recipes, insert, replay, refresh, die, Advance, Finish,
             Inv, TypeOK, ProgressInv, ConflictIsReplayed
    <2> QED
      BY <1>2, <2>1 DEF Inv, ConflictIsReplayed
  <1> QED
    BY <1>1, <1>4, <1>5, <1>6, <1>8, <1>9 DEF Inv

LEMMA CommitStep ==
  ASSUME Inv, NEW r \in Reqs, commit(r)
  PROVE  Inv'
  <1>a. rows' = rows \cup Created(r) /\ call' = call /\ answer' = answer /\ code' = code
    BY DEF commit, Advance
  <1>b. /\ pc[r] = "inserted" /\ pc'[r] = "committed" /\ call[r] \in Calls
        /\ \A q \in Reqs \ {r} : pc'[q] = pc[q]
    BY DEF commit, Advance, Inv, TypeOK
  <1>c. \A q : Created(q)' = Created(q)
    BY <1>a, CreatedSame
  <1>d. Created(r) \subseteq Row /\ \A x \in Created(r) : x.by = r /\ x.key = call[r].key
    BY <1>b, CreatedFields
  <1>e. \A x \in Created(r), y \in rows : x.key # y.key
    BY <1>b, InsertedKeyIsNew
  <1>1. TypeOK'
    BY <1>a, <1>b, <1>d DEF commit, Advance, Inv, TypeOK, Stages
  <1>2. RowsInv'
    <2>1. \A x \in rows : x.by \in Reqs
      BY DEF Inv, TypeOK, Row
    <2> QED
      BY <1>a, <1>b, <1>c, <1>d, <2>1 DEF Inv, RowsInv
  <1>3. BatchIsWhole'
    BY <1>a, <1>c, <1>d, <1>e DEF Inv, BatchIsWhole
  <1>4. ProgressInv'
    <2>1. \A q \in Reqs : Existing(q) \subseteq Existing(q)'
      BY <1>a DEF Existing, list_manual_items_by_idempotency
    <2>2. \A q, p \in Reqs : Clash(q, Created(p))' <=> Clash(q, Created(p))
      BY <1>c DEF Clash
    <2>3. \A q \in Reqs \ {r} : pc[q] = "inserted" => ~Clash(q, rows)'
      <3> SUFFICES ASSUME NEW q \in Reqs \ {r}, pc[q] = "inserted" PROVE ~Clash(q, rows)'
        OBVIOUS
      <3>1. ~Clash(q, rows) /\ ~Clash(q, Created(r))
        BY <1>b DEF Inv, ProgressInv
      <3> QED
        BY <1>a, <1>c, <3>1 DEF Clash
    <2> QED
      BY <1>a, <1>b, <1>c, <2>1, <2>2, <2>3, SMTT(30) DEF Inv, ProgressInv
  <1>5. AnswersAgree'
    <2> SUFFICES ASSUME NEW q \in Reqs, code[q] = "201", call[q].batch # <<>>
                 PROVE  answer[q] # {} /\ answer[q] = {x \in rows' : x.key = call[q].key}
      BY <1>a DEF AnswersAgree
    <2>1. answer[q] # {} /\ answer[q] = {x \in rows : x.key = call[q].key}
      BY DEF Inv, AnswersAgree
    <2>2. \A x \in Created(r) : x.key # call[q].key
      BY <1>e, <2>1
    <2> QED
      BY <1>a, <2>1, <2>2
  <1>6. ConflictIsReplayed'
    BY <1>a DEF Inv, ConflictIsReplayed
  <1> QED
    BY <1>1, <1>2, <1>3, <1>4, <1>5, <1>6 DEF Inv

LEMMA IdleStep == Inv /\ UNCHANGED vars => Inv'
  BY DEF vars, Inv, TypeOK, RowsInv, ProgressInv, BatchIsWhole, AnswersAgree,
         ConflictIsReplayed, Created, Clash, Existing, list_manual_items_by_idempotency

---------------------------------------------------------------------------
(* The inductive invariant of the manual list.                             *)
THEOREM ManualListInvariant == Spec => []Inv
  <1>1. Inv /\ [Next]_vars => Inv'
    BY ReceiveStep, QuietStep, CommitStep, IdleStep DEF Next
  <1> QED
    BY InitInv, <1>1, PTL DEF Spec

(* Lists sent with one key are stored once and whole.                      *)
THEOREM StoredWhole == Spec => []BatchIsWhole
  <1>1. Inv => BatchIsWhole
    BY DEF Inv
  <1> QED
    BY <1>1, ManualListInvariant, PTL

(* All requests with one key are answered the same rows.                   *)
THEOREM SameAnswer == Spec => []AnswersAgree
  <1>1. Inv => AnswersAgree
    BY DEF Inv
  <1> QED
    BY <1>1, ManualListInvariant, PTL

(* No request ends in an error because of another one with its key.        *)
THEOREM AlwaysReplayed == Spec => []ConflictIsReplayed
  <1>1. Inv => ConflictIsReplayed
    BY DEF Inv
  <1> QED
    BY <1>1, ManualListInvariant, PTL
=============================================================================
