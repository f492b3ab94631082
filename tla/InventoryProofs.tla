-------------------------- MODULE InventoryProofs --------------------------
(* Theorems about Inventory, for all values of its constants. *)
EXTENDS InventoryRefinement, FiniteSetTheorems, SequenceTheorems, TLAPS

---------------------------------------------------------------------------
(* What a request carries.                                                 *)
LEMMA CallFields ==
  ASSUME NEW c \in Calls
  PROVE  /\ c.op \in AllOps /\ c.user \in Users /\ c.item \in Items
         /\ c.key \in Keys /\ c # None
         /\ c.op \in {"create", "update"} => c.arg \in Contents
         /\ c.op = "status" => c.arg \in Statuses
  BY ConstantsAssumption DEF Calls, AllOps

LEMMA StartedFields ==
  ASSUME TypeOK, NEW r \in Reqs, pc[r] # "idle"
  PROVE  /\ call[r] \in Calls /\ Item(r) \in Items
         /\ call[r].op \in AllOps /\ call[r].user \in Users
         /\ call[r].op \in {"create", "update"} => call[r].arg \in Contents
         /\ call[r].op = "status" => call[r].arg \in Statuses
  <1>1. call[r] \in Calls
    BY DEF TypeOK
  <1> QED
    BY <1>1, CallFields DEF Item

LEMMA NewRowType ==
  ASSUME NEW c \in Contents
  PROVE  NewRow(c) \in Row /\ NewRow(c) # None
  BY ConstantsAssumption DEF NewRow, Row

LEMMA NoneIsNoRow == None \notin Row
  BY ConstantsAssumption

LEMMA InitType == Init => TypeOK
  BY NewRowType, ConstantsAssumption DEF Init, TypeOK, State, Row, Stages, Codes, Answers

(* The edited attributes and the merged row are a row again.               *)
LEMMA MergeType ==
  ASSUME NEW row \in Row, NEW old \in Row, NEW new \in Row
  PROVE  Merge(row, old, new) \in Row
  BY DEF Merge, Row

LEMMA EditVersion ==
  ASSUME NEW s \in Row, NEW n \in Nat
  PROVE  [s EXCEPT !.version = n] \in Row
  BY DEF Row

LEMMA EditedType ==
  ASSUME TypeOK, NEW r \in Reqs, pc[r] # "idle", snap[r] \in Row,
         call[r].op \in {"update", "status", "undo"},
         call[r].op = "undo" => source[r].prev \in Row
  PROVE  Edited(r) \in Row
  <1> DEFINE n == snap[r].version + 1
  <1>n. n \in Nat
    BY DEF Row
  <1>1. CASE call[r].op = "update"
    <2>1. Edited(r) = [snap[r] EXCEPT !.content = call[r].arg, !.version = n]
      BY <1>1 DEF Edited
    <2>2. call[r].arg \in Contents
      BY <1>1, StartedFields
    <2> DEFINE s == snap[r]
               a == call[r].arg
    <2>3. s \in Row /\ a \in Contents
      BY <2>2
    <2>4. Edited(r) = [s EXCEPT !.content = a, !.version = n]
      BY <2>1
    <2> HIDE DEF s, a, n
    <2>5. [s EXCEPT !.content = a, !.version = n] \in Row
      BY <2>3, <1>n DEF Row
    <2> QED
      BY <2>4, <2>5, Zenon
  <1>2. CASE call[r].op = "status"
    <2>1. Edited(r) = [snap[r] EXCEPT !.status = call[r].arg, !.version = n]
      BY <1>2 DEF Edited
    <2>2. call[r].arg \in Statuses
      BY <1>2, StartedFields
    <2> DEFINE s == snap[r]
               a == call[r].arg
    <2>3. s \in Row /\ a \in Statuses
      BY <2>2
    <2>4. Edited(r) = [s EXCEPT !.status = a, !.version = n]
      BY <2>1
    <2> HIDE DEF s, a, n
    <2>5. [s EXCEPT !.status = a, !.version = n] \in Row
      BY <2>3, <1>n DEF Row
    <2> QED
      BY <2>4, <2>5, Zenon
  <1>3. CASE call[r].op = "undo"
    <2>1. Edited(r) = [source[r].prev EXCEPT !.version = n]
      BY <1>3 DEF Edited
    <2> HIDE DEF n
    <2> QED
      BY <2>1, <1>3, <1>n, EditVersion
  <1> QED
    BY <1>1, <1>2, <1>3

LEMMA RestoredType ==
  ASSUME NEW e, e.prev \in Row, e.new \in State
  PROVE  Restored(e) \in Row
  BY NoneIsNoRow DEF Restored, Row, State, Larger

LEMMA BodyType ==
  ASSUME TypeOK, NEW r \in Reqs, pc[r] # "idle"
  PROVE  ResponseBody(r) \in Body
  BY StartedFields DEF ResponseBody, Body, EmptyBody, TypeOK, State

LEMMA NewEventType ==
  ASSUME TypeOK, NEW r \in Reqs, pc[r] # "idle", NEW prev \in State, NEW new \in State
  PROVE  NewEvent(r, prev, new) \in Event
  <1>1. ActionOf(call[r].op) \in {"added", "updated", "status_updated", "removed", "undone"}
    BY StartedFields DEF ActionOf, AllOps
  <1> QED
    BY <1>1, StartedFields DEF NewEvent, Event

(* The building blocks of the actions leave what they assign typed.        *)
LEMMA SetRowType ==
  ASSUME TypeOK, NEW r \in Reqs, pc[r] # "idle", NEW row \in State, SetRow(r, row)
  PROVE  /\ rows' \in [Items -> State]
         /\ past' \in [Items -> SUBSET Row]
         /\ wrote' \in [Reqs -> BOOLEAN]
  BY StartedFields DEF TypeOK, SetRow, State

LEMMA FinishType ==
  ASSUME TypeOK, NEW r \in Reqs, NEW status \in Codes, Finish(r, status)
  PROVE  pc' \in [Reqs -> Stages] /\ code' \in [Reqs -> Codes]
  BY DEF TypeOK, Finish, Stages

LEMMA AdvanceType ==
  ASSUME TypeOK, NEW r \in Reqs, NEW stage \in Stages, Advance(r, stage)
  PROVE  pc' \in [Reqs -> Stages] /\ code' \in [Reqs -> Codes]
  BY DEF TypeOK, Advance

LEMMA GetByIdType ==
  ASSUME TypeOK, NEW r \in Reqs, pc[r] # "idle"
  PROVE  get_by_id(r) \in State
  BY StartedFields DEF TypeOK, get_by_id, State

LEMMA LoadType ==
  ASSUME TypeOK, NEW r \in Reqs, pc[r] # "idle", Load(r)
  PROVE  snap' \in [Reqs -> State]
  BY GetByIdType DEF TypeOK, Load

LEMMA UnlinkType ==
  ASSUME TypeOK, NEW i \in Items
  PROVE  /\ Unlink(i) \in Seq(Event)
         /\ DOMAIN Unlink(i) = DOMAIN events
         /\ \A k \in DOMAIN events :
              /\ Unlink(i)[k].req = events[k].req
              /\ Unlink(i)[k].id = events[k].id
              /\ Unlink(i)[k].prev = events[k].prev
              /\ Unlink(i)[k].new = events[k].new
              /\ Unlink(i)[k].item \in {None, events[k].item}
  <1>1. events \in Seq(Event)
    BY DEF TypeOK
  <1>2. \A k \in DOMAIN events : events[k] \in Event
    BY <1>1
  <1>3. \A k \in DOMAIN events : Unlink(i)[k] \in Event
    BY <1>2 DEF Unlink, Event
  <1>4. Unlink(i) \in Seq(Event)
    BY <1>1, <1>3 DEF Unlink
  <1> QED
    BY <1>2, <1>4 DEF Unlink, Event

---------------------------------------------------------------------------
(* Type correctness.  TypeOK alone is not inductive: that a request edits  *)
(* and restores states which exist is what StageInv knows.                 *)
TypeInv == TypeOK /\ StageInv

LEMMA TypeReceive ==
  ASSUME TypeInv, NEW r \in Reqs, NEW c \in Calls, Receive(r, c)
  PROVE  TypeInv'
  <1> USE DEF TypeInv
  <1>1. c.item \in Items /\ c # None
    BY CallFields
  <1>2. pc' \in [Reqs -> Stages] /\ code' \in [Reqs -> Codes]
    BY AdvanceType DEF Receive, Stages
  <1>3. call' \in [Reqs -> Calls \cup {None}] /\ snap' \in [Reqs -> State]
    BY <1>1 DEF Receive, TypeOK
  <1>4. before' \in [Reqs -> SUBSET Reqs]
    BY DEF Receive, TypeOK
  <1>5. \A q \in Reqs : pc'[q] # "idle" => call'[q] # None
    BY <1>1 DEF Receive, TypeOK, Advance
  <1>6. TypeOK'
    BY <1>2, <1>3, <1>4, <1>5 DEF Receive, TypeOK, tables
  <1>7. StageInv'
    BY DEF Receive, StageInv, Advance, TypeOK
  <1> QED
    BY <1>6, <1>7

LEMMA TypeReplay ==
  ASSUME TypeInv, NEW r \in Reqs, Replay(r)
  PROVE  TypeInv'
  <1> USE DEF TypeInv
  <1>1. TypeOK'
    BY FinishType DEF Replay, Codes, Answers, TypeOK, tables, Finish
  <1>2. StageInv'
    BY DEF Replay, StageInv, Finish, TypeOK
  <1> QED
    BY <1>1, <1>2

LEMMA TypeCreate ==
  ASSUME TypeInv, NEW r \in Reqs, create_item(r)
  PROVE  TypeInv'
  <1> USE DEF TypeInv
  <1>1. pc[r] = "loaded" /\ call[r].op = "create"
    BY DEF create_item, Calling
  <1>2. NewRow(call[r].arg) \in State
    BY <1>1, StartedFields, NewRowType DEF State
  <1>3. /\ rows' \in [Items -> State]
        /\ past' \in [Items -> SUBSET Row]
        /\ wrote' \in [Reqs -> BOOLEAN]
    BY <1>1, <1>2, SetRowType DEF create_item
  <1>4. pc' \in [Reqs -> Stages] /\ code' \in [Reqs -> Codes]
    BY AdvanceType DEF create_item, Stages
  <1>5. TypeOK'
    BY <1>1, <1>3, <1>4 DEF create_item, TypeOK, Advance
  <1>6. StageInv'
    BY <1>1 DEF create_item, StageInv, Advance, TypeOK
  <1> QED
    BY <1>5, <1>6

LEMMA TypeCheckVersion ==
  ASSUME TypeInv, NEW r \in Reqs, check_version(r)
  PROVE  TypeInv'
  <1> USE DEF TypeInv
  <1>1. pc[r] = "loaded" /\ call[r].op \in {"update", "status"}
    BY DEF check_version, Calling
  <1>2. snap' \in [Reqs -> State]
    BY <1>1, LoadType DEF check_version
  <1>3. snap'[r] # None
    BY DEF check_version, Load, TypeOK
  <1>4. pc' \in [Reqs -> Stages] /\ code' \in [Reqs -> Codes]
    BY AdvanceType, FinishType DEF check_version, Stages, Codes, Answers
  <1>5. TypeOK'
    BY <1>1, <1>2, <1>4 DEF check_version, TypeOK, Advance, Finish, tables
  <1>6. StageInv'
    BY <1>1, <1>3 DEF check_version, Load, StageInv, Advance, Finish, TypeOK
  <1> QED
    BY <1>5, <1>6

(* The item is gone, in not_found, row_vanished and already_deleted.       *)
LEMMA TypeGone ==
  ASSUME TypeInv, NEW r \in Reqs, NEW stage, NEW status \in Codes,
         stage # "idle", Gone(r, stage, status)
  PROVE  TypeInv'
  <1> USE DEF TypeInv
  <1>1. TypeOK'
    BY FinishType DEF Gone, TypeOK, tables, Finish
  <1>2. StageInv'
    BY DEF Gone, StageInv, Finish, TypeOK
  <1> QED
    BY <1>1, <1>2

LEMMA TypeUpdate ==
  ASSUME TypeInv, NEW r \in Reqs, update(r)
  PROVE  TypeInv'
  <1> USE DEF TypeInv
  <1>1. /\ pc[r] = "checked" /\ rows[Item(r)] # None
        /\ call[r].op \in {"update", "status", "undo"} /\ snap[r] # None
        /\ call[r].op = "undo" => source[r].prev # None
    BY DEF update, StageInv
  <1>2. /\ rows[Item(r)] \in Row /\ snap[r] \in Row
        /\ call[r].op = "undo" => source[r].prev \in Row
    BY <1>1, StartedFields DEF TypeOK, State
  <1>3. Merge(rows[Item(r)], snap[r], Edited(r)) \in State
    BY <1>1, <1>2, EditedType, MergeType DEF State
  <1>4. /\ rows' \in [Items -> State]
        /\ past' \in [Items -> SUBSET Row]
        /\ wrote' \in [Reqs -> BOOLEAN]
    BY <1>1, <1>3, SetRowType DEF update
  <1>5. pc' \in [Reqs -> Stages] /\ code' \in [Reqs -> Codes]
    BY AdvanceType DEF update, Stages
  <1>6. TypeOK'
    BY <1>1, <1>4, <1>5 DEF update, TypeOK, Advance
  <1>7. StageInv'
    BY <1>1 DEF update, StageInv, Advance, TypeOK
  <1> QED
    BY <1>6, <1>7

LEMMA TypeRefresh ==
  ASSUME TypeInv, NEW r \in Reqs, refresh(r)
  PROVE  TypeInv'
  <1> USE DEF TypeInv
  <1>1. pc[r] = "written" /\ Item(r) \in Items
    BY StartedFields DEF refresh
  <1>2. pc' \in [Reqs -> Stages] /\ code' \in [Reqs -> Codes]
    BY AdvanceType DEF refresh, Stages
  <1>3. post' \in [Reqs -> State]
    BY <1>1 DEF refresh, TypeOK
  <1>4. TypeOK'
    BY <1>1, <1>2, <1>3 DEF refresh, TypeOK, Advance, tables
  <1>5. StageInv'
    BY <1>1 DEF refresh, StageInv, Advance, TypeOK
  <1> QED
    BY <1>4, <1>5

LEMMA TypeLogEvent ==
  ASSUME TypeInv, NEW r \in Reqs, log_event(r)
  PROVE  TypeInv'
  <1> USE DEF TypeInv
  <1>1. pc[r] = "refreshed"
    BY DEF log_event
  <1>2. PreviousState(r) \in State
    BY DEF PreviousState, TypeOK, State
  <1>3. NewEvent(r, PreviousState(r), post[r]) \in Event
    BY <1>1, <1>2, NewEventType DEF TypeOK
  <1>4. events' \in Seq(Event)
    BY <1>3 DEF log_event, TypeOK
  <1>5. pc' \in [Reqs -> Stages] /\ code' \in [Reqs -> Codes]
    BY AdvanceType DEF log_event, Stages
  <1>6. TypeOK'
    BY <1>1, <1>4, <1>5 DEF log_event, TypeOK, Advance
  <1>7. StageInv'
    BY <1>1 DEF log_event, StageInv, Advance, TypeOK
  <1> QED
    BY <1>6, <1>7

LEMMA TypePublish ==
  ASSUME TypeInv, NEW r \in Reqs, publish(r)
  PROVE  TypeInv'
  <1> USE DEF TypeInv
  <1>1. pc[r] \in {"logged", "announced"}
    BY DEF publish
  <1>2. pc' \in [Reqs -> Stages] /\ code' \in [Reqs -> Codes]
    BY AdvanceType DEF publish, Stages
  <1>3. TypeOK'
    BY <1>1, <1>2 DEF publish, TypeOK, Advance
  <1>4. StageInv'
    BY <1>1 DEF publish, StageInv, Advance, TypeOK
  <1> QED
    BY <1>3, <1>4

LEMMA TypeDeleteItem ==
  ASSUME TypeInv, NEW r \in Reqs, delete_item(r)
  PROVE  TypeInv'
  <1> USE DEF TypeInv
  <1>1. pc[r] = "loaded" /\ call[r].op = "delete"
    BY DEF delete_item, Calling
  <1>2. snap' \in [Reqs -> State]
    BY <1>1, LoadType DEF delete_item
  <1>3. pc' \in [Reqs -> Stages] /\ code' \in [Reqs -> Codes]
    BY AdvanceType DEF delete_item, Stages
  <1>4. TypeOK'
    BY <1>1, <1>2, <1>3 DEF delete_item, TypeOK, Advance, tables
  <1>5. StageInv'
    BY <1>1 DEF delete_item, Load, StageInv, Advance, TypeOK
  <1> QED
    BY <1>4, <1>5

LEMMA TypeLogRemoved ==
  ASSUME TypeInv, NEW r \in Reqs, log_removed(r)
  PROVE  TypeInv'
  <1> USE DEF TypeInv
  <1>1. pc[r] = "announcing"
    BY DEF log_removed
  <1>2. NewEvent(r, snap[r], None) \in Event
    BY <1>1, NewEventType DEF TypeOK, State
  <1>3. events' \in Seq(Event)
    BY <1>2 DEF log_removed, TypeOK
  <1>4. pc' \in [Reqs -> Stages] /\ code' \in [Reqs -> Codes]
    BY AdvanceType DEF log_removed, Stages
  <1>5. TypeOK'
    BY <1>1, <1>3, <1>4 DEF log_removed, TypeOK, Advance
  <1>6. StageInv'
    BY <1>1 DEF log_removed, StageInv, Advance, TypeOK
  <1> QED
    BY <1>5, <1>6

LEMMA TypeFindAgain ==
  ASSUME TypeInv, NEW r \in Reqs, find_again(r)
  PROVE  TypeInv'
  <1> USE DEF TypeInv
  <1>1. pc[r] = "deleting"
    BY DEF find_again
  <1>2. pc' \in [Reqs -> Stages] /\ code' \in [Reqs -> Codes]
    BY AdvanceType DEF find_again, Stages
  <1>3. TypeOK'
    BY <1>1, <1>2 DEF find_again, TypeOK, Advance, tables
  <1>4. StageInv'
    BY <1>1 DEF find_again, StageInv, Advance, TypeOK
  <1> QED
    BY <1>3, <1>4

LEMMA TypeDelete ==
  ASSUME TypeInv, NEW r \in Reqs, delete(r)
  PROVE  TypeInv'
  <1> USE DEF TypeInv
  <1>1. pc[r] = "removing" /\ Item(r) \in Items
    BY StartedFields DEF delete
  <1>2. pc' \in [Reqs -> Stages] /\ code' \in [Reqs -> Codes]
    BY AdvanceType, FinishType DEF delete, Stages, Codes, Answers
  <1>3. /\ rows' \in [Items -> State]
        /\ past' \in [Items -> SUBSET Row]
        /\ wrote' \in [Reqs -> BOOLEAN]
    <2>1. CASE Item(r) \in reserved \/ rows[Item(r)] = None
      BY <2>1 DEF delete, TypeOK
    <2>2. CASE Item(r) \notin reserved /\ rows[Item(r)] # None
      BY <2>2, <1>1, SetRowType DEF delete, State
    <2> QED
      BY <2>1, <2>2
  <1>4. events' \in Seq(Event)
    BY <1>1, UnlinkType DEF delete, TypeOK
  <1>5. TypeOK'
    BY <1>1, <1>2, <1>3, <1>4 DEF delete, TypeOK, Advance, Finish
  <1>6. StageInv'
    BY <1>1 DEF delete, StageInv, Advance, Finish, TypeOK
  <1> QED
    BY <1>5, <1>6

LEMMA TypeNothingToUndo ==
  ASSUME TypeInv, NEW r \in Reqs, nothing_to_undo(r)
  PROVE  TypeInv'
  <1> USE DEF TypeInv
  <1>1. TypeOK'
    BY FinishType DEF nothing_to_undo, Codes, Answers, Calling, TypeOK, tables, Finish
  <1>2. StageInv'
    BY DEF nothing_to_undo, StageInv, Finish, TypeOK
  <1> QED
    BY <1>1, <1>2

LEMMA TypeUndoNothing ==
  ASSUME TypeInv, NEW r \in Reqs, undo_nothing(r)
  PROVE  TypeInv'
  <1> USE DEF TypeInv
  <1>1. pc[r] = "loaded" /\ call[r].op = "undo"
    BY DEF undo_nothing, Calling
  <1>2. snap' \in [Reqs -> State]
    BY <1>1, LoadType DEF undo_nothing
  <1>3. post' \in [Reqs -> State]
    BY <1>1, GetByIdType DEF undo_nothing, TypeOK
  <1>4. pc' \in [Reqs -> Stages] /\ code' \in [Reqs -> Codes]
    BY AdvanceType DEF undo_nothing, Stages
  <1>5. TypeOK'
    BY <1>1, <1>2, <1>3, <1>4 DEF undo_nothing, TypeOK, Advance, tables
  <1>6. StageInv'
    BY <1>1 DEF undo_nothing, Load, StageInv, Advance, TypeOK
  <1> QED
    BY <1>5, <1>6

(* The event an undo picks is one of the table.                            *)
LEMMA PickType ==
  ASSUME TypeOK, NEW r \in Reqs, NEW e \in Newest(call[r]), Pick(r, e)
  PROVE  /\ e \in Event
         /\ source' \in [Reqs -> [prev : State, new : State]]
         /\ source'[r].prev = e.prev
  <1>1. e \in Event
    BY DEF Newest, OwnEvents, TypeOK
  <1> QED
    BY <1>1 DEF Pick, TypeOK, Event

LEMMA TypeUndoChange ==
  ASSUME TypeInv, NEW r \in Reqs, undo_change(r)
  PROVE  TypeInv'
  <1> USE DEF TypeInv
  <1>1. pc[r] = "loaded" /\ call[r].op = "undo"
    BY DEF undo_change, Calling
  <1>2. PICK e \in Newest(call[r]) : e.prev # None /\ Pick(r, e)
    BY DEF undo_change
  <1>3. /\ source' \in [Reqs -> [prev : State, new : State]]
        /\ source'[r].prev # None
    BY <1>2, PickType
  <1>4. snap' \in [Reqs -> State]
    BY <1>1, LoadType DEF undo_change
  <1>5. snap'[r] # None
    BY DEF undo_change, Load, TypeOK
  <1>6. pc' \in [Reqs -> Stages] /\ code' \in [Reqs -> Codes]
    BY AdvanceType DEF undo_change, Stages
  <1>7. TypeOK'
    BY <1>1, <1>3, <1>4, <1>6 DEF undo_change, TypeOK, Advance, tables
  <1>8. StageInv'
    BY <1>1, <1>2, <1>3, <1>5 DEF undo_change, Load, Pick, StageInv, Advance, TypeOK
  <1> QED
    BY <1>7, <1>8

LEMMA TypeUndoRemoval ==
  ASSUME TypeInv, NEW r \in Reqs, undo_removal(r)
  PROVE  TypeInv'
  <1> USE DEF TypeInv
  <1>1. pc[r] = "loaded" /\ call[r].op = "undo"
    BY DEF undo_removal, Calling
  <1>2. PICK e \in Newest(call[r]) : e.prev # None /\ Pick(r, e)
    BY DEF undo_removal
  <1>3. /\ source' \in [Reqs -> [prev : State, new : State]]
        /\ source'[r].prev # None
    BY <1>2, PickType
  <1>4. pc' \in [Reqs -> Stages] /\ code' \in [Reqs -> Codes]
    BY AdvanceType DEF undo_removal, Stages
  <1>5. TypeOK'
    BY <1>1, <1>3, <1>4 DEF undo_removal, TypeOK, Advance, tables
  <1>6. StageInv'
    BY <1>1, <1>2, <1>3 DEF undo_removal, Pick, StageInv, Advance, TypeOK
  <1> QED
    BY <1>5, <1>6

LEMMA TypeRestore ==
  ASSUME TypeInv, NEW r \in Reqs, restore(r)
  PROVE  TypeInv'
  <1> USE DEF TypeInv
  <1>1. pc[r] = "restoring" /\ call[r].op = "undo" /\ source[r].prev # None
    BY DEF restore, StageInv
  <1>2. Restored(source[r]) \in State
    BY <1>1, RestoredType DEF TypeOK, State
  <1>3. pc' \in [Reqs -> Stages] /\ code' \in [Reqs -> Codes]
    BY AdvanceType, FinishType DEF restore, Stages, Codes, Answers
  <1>4. /\ rows' \in [Items -> State]
        /\ past' \in [Items -> SUBSET Row]
        /\ wrote' \in [Reqs -> BOOLEAN]
    <2>1. CASE rows[Item(r)] # None
      BY <2>1 DEF restore, TypeOK
    <2>2. CASE rows[Item(r)] = None
      BY <2>2, <1>1, <1>2, SetRowType DEF restore
    <2> QED
      BY <2>1, <2>2
  <1>5. TypeOK'
    BY <1>1, <1>3, <1>4 DEF restore, TypeOK, Advance, Finish
  <1>6. StageInv'
    BY <1>1 DEF restore, StageInv, Advance, Finish, TypeOK
  <1> QED
    BY <1>5, <1>6

LEMMA TypeRespond ==
  ASSUME TypeInv, NEW r \in Reqs, respond(r)
  PROVE  TypeInv'
  <1> USE DEF TypeInv
  <1>1. pc[r] = "published" /\ call[r] \in Calls
    BY StartedFields DEF respond
  <1>2. cache' \in [Scopes -> Body \cup {None}]
    BY <1>1, BodyType DEF respond, store_cached, TypeOK, Scopes
  <1>3. pc' \in [Reqs -> Stages] /\ code' \in [Reqs -> Codes]
    BY FinishType DEF respond, Codes, Answers
  <1>4. TypeOK'
    BY <1>1, <1>2, <1>3 DEF respond, TypeOK, Finish
  <1>5. StageInv'
    BY <1>1 DEF respond, StageInv, Finish, TypeOK
  <1> QED
    BY <1>4, <1>5

LEMMA TypeFail ==
  ASSUME TypeInv, NEW r \in Reqs, Fail(r)
  PROVE  TypeInv'
  <1> USE DEF TypeInv
  <1>1. pc[r] # "idle"
    BY DEF Fail, InFlight
  <1>2. TypeOK'
    BY <1>1, AdvanceType DEF Fail, Stages, TypeOK, tables, Advance
  <1>3. StageInv'
    BY DEF Fail, StageInv, Advance, TypeOK
  <1> QED
    BY <1>2, <1>3

LEMMA TypeReservation ==
  ASSUME TypeInv, NEW i \in Items, Reserve(i) \/ Release(i)
  PROVE  TypeInv'
  BY DEF TypeInv, TypeOK, StageInv, Reserve, Release

LEMMA TypeStutter ==
  ASSUME TypeInv, UNCHANGED vars
  PROVE  TypeInv'
  BY DEF TypeInv, TypeOK, StageInv, vars, tables

LEMMA TypeHandle ==
  ASSUME TypeInv, NEW r \in Reqs, Handle(r)
  PROVE  TypeInv'
  <1>1. CASE not_found(r)
    BY <1>1, TypeGone DEF not_found, Codes, Answers
  <1>2. CASE row_vanished(r)
    <2>1. PICK stage \in {"checked", "written", "refreshed", "announcing"} :
             Gone(r, stage, "500")
      BY <1>2 DEF row_vanished
    <2> QED
      BY <2>1, TypeGone DEF Codes, Answers
  <1>3. CASE already_deleted(r)
    BY <1>3, TypeGone DEF already_deleted, Codes, Answers
  <1> QED
    BY <1>1, <1>2, <1>3, TypeReplay, TypeCreate, TypeCheckVersion, TypeUpdate,
       TypeRefresh, TypeLogEvent, TypePublish, TypeDeleteItem, TypeLogRemoved,
       TypeFindAgain, TypeDelete, TypeNothingToUndo, TypeUndoNothing, TypeUndoChange,
       TypeUndoRemoval, TypeRestore, TypeRespond DEF Handle

LEMMA TypeStep == TypeInv /\ [Next]_vars => TypeInv'
  <1> SUFFICES ASSUME TypeInv, [Next]_vars PROVE TypeInv'
    OBVIOUS
  <1>1. ASSUME NEW r \in Reqs, NEW c \in Calls, Receive(r, c) PROVE TypeInv'
    BY <1>1, TypeReceive
  <1>2. ASSUME NEW r \in Reqs, Handle(r) PROVE TypeInv'
    BY <1>2, TypeHandle
  <1>3. ASSUME NEW r \in Reqs, Fail(r) PROVE TypeInv'
    BY <1>3, TypeFail
  <1>4. ASSUME NEW i \in Items, Reserve(i) \/ Release(i) PROVE TypeInv'
    BY <1>4, TypeReservation
  <1>5. CASE UNCHANGED vars
    BY <1>5, TypeStutter
  <1> QED
    BY <1>1, <1>2, <1>3, <1>4, <1>5 DEF Next

LEMMA TypeInit == Init => TypeInv
  BY InitType DEF TypeInv, StageInv, Init

(* In every reachable state the tables, the cache and the requests are of  *)
(* their types, and a request holds what its stage uses.                   *)
THEOREM TypeCorrect == Spec => []TypeInv
  BY TypeInit, TypeStep, PTL DEF Spec

THEOREM TypeCorrectness == Spec => []TypeOK
  BY TypeCorrect, PTL DEF TypeInv

---------------------------------------------------------------------------
(* What an insertion does to the activity log and to the bus.              *)
LEMMA AppendLogged ==
  ASSUME TypeOK, NEW e, events' = Append(events, e)
  PROVE  \A q \in Reqs : Logged(q)' <=> Logged(q) \/ q = e.req
  <1>1. events \in Seq(Event)
    BY DEF TypeOK
  <1>2. /\ DOMAIN events' = DOMAIN events \cup {Len(events) + 1}
        /\ \A k \in DOMAIN events : events'[k] = events[k]
        /\ events'[Len(events) + 1] = e
    BY <1>1
  <1> QED
    BY <1>2 DEF Logged

LEMMA AppendPublished ==
  ASSUME TypeOK, NEW r \in Reqs, bus' = Append(bus, r)
  PROVE  \A q \in Reqs : Published(q)' <=> Published(q) \/ q = r
  <1>1. bus \in Seq(Reqs)
    BY DEF TypeOK
  <1>2. /\ DOMAIN bus' = DOMAIN bus \cup {Len(bus) + 1}
        /\ \A k \in DOMAIN bus : bus'[k] = bus[k]
        /\ bus'[Len(bus) + 1] = r
    BY <1>1
  <1> QED
    BY <1>2 DEF Published

LEMMA UnlinkLogged ==
  ASSUME TypeOK, NEW i \in Items, events' = Unlink(i)
  PROVE  \A q \in Reqs : Logged(q)' <=> Logged(q)
  BY UnlinkType DEF Logged

(* Actions that leave log, bus and rows alone keep what a request has done.*)
Quiet == UNCHANGED <<events, bus, wrote>>

LEMMA QuietKeeps ==
  ASSUME Quiet
  PROVE  \A q : /\ wrote'[q] = wrote[q]
                /\ Logged(q)' <=> Logged(q)
                /\ Published(q)' <=> Published(q)
  BY DEF Quiet, Logged, Published

(* No action touches what a request other than its own has done.           *)
Others(r) ==
  \A q \in Reqs \ {r} :
    /\ pc'[q] = pc[q] /\ code'[q] = code[q] /\ call'[q] = call[q]
    /\ wrote'[q] = wrote[q]
    /\ Logged(q)' <=> Logged(q)
    /\ Published(q)' <=> Published(q)

LEMMA TraceOthers ==
  ASSUME TraceInv, NEW r \in Reqs, Others(r), TraceAt(r)'
  PROVE  TraceInv'
  <1> SUFFICES ASSUME NEW q \in Reqs, q # r PROVE TraceAt(q)'
    BY DEF TraceInv
  <1>1. TraceAt(q)
    BY DEF TraceInv
  <1>2. /\ pc'[q] = pc[q] /\ code'[q] = code[q] /\ call'[q] = call[q]
        /\ wrote'[q] = wrote[q]
        /\ Logged(q)' <=> Logged(q)
        /\ Published(q)' <=> Published(q)
    BY DEF Others
  <1> QED
    BY <1>1, <1>2 DEF TraceAt, Silent, Told

(* Requests that move on without leaving a trace.                          *)
LEMMA TraceQuiet ==
  ASSUME TypeInv, TraceInv, NEW r \in Reqs, Quiet, UNCHANGED call,
         \/ \E stage \in Stages : Advance(r, stage)
         \/ \E status \in Codes : Finish(r, status),
         TraceAt(r)'
  PROVE  TraceInv'
  <1>1. Others(r)
    BY QuietKeeps DEF Others, Advance, Finish, TypeInv, TypeOK
  <1> QED
    BY <1>1, TraceOthers

LEMMA TraceReceive ==
  ASSUME TypeInv, TraceInv, NEW r \in Reqs, NEW c \in Calls, Receive(r, c)
  PROVE  TraceInv'
  <1>1. Quiet /\ pc[r] = "idle" /\ TraceAt(r)
    BY DEF Receive, tables, Quiet, TraceInv
  <1>2. Others(r)
    BY <1>1, QuietKeeps DEF Others, Receive, Advance, TypeInv, TypeOK
  <1>3. pc'[r] = "loaded" /\ code'[r] = code[r]
    BY DEF Receive, Advance, TypeInv, TypeOK
  <1>4. Silent(r)' /\ ~Published(r)' /\ code'[r] = None
    BY <1>1, <1>3, QuietKeeps DEF TraceAt, Silent
  <1>5. None \notin Answers
    BY ConstantsAssumption
  <1>6. TraceAt(r)'
    BY <1>3, <1>4, <1>5 DEF TraceAt, Answers
  <1> QED
    BY <1>2, <1>6, TraceOthers

(* The stages before the first commit: the request is silent and stays so. *)
LEMMA TraceBefore ==
  ASSUME TypeInv, TraceInv, NEW r \in Reqs, Quiet, UNCHANGED call,
         pc[r] \in {"loaded", "checked", "restoring", "announcing"},
         \/ \E stage \in {"checked", "restoring", "announcing"} : Advance(r, stage)
         \/ call[r].op = "undo" /\ Advance(r, "published")
         \/ \E status \in {"404", "409", "500", "replay"} : Finish(r, status)
  PROVE  TraceInv'
  <1>1. Silent(r) /\ code[r] = None
    BY DEF TraceInv, TraceAt
  <1>2. Silent(r)' /\ ~Published(r)'
    BY <1>1, QuietKeeps DEF Silent
  <1>3. \/ pc'[r] \in {"checked", "restoring", "announcing"} /\ code'[r] = None
        \/ pc'[r] = "published" /\ code'[r] = None /\ call'[r].op = "undo"
        \/ pc'[r] = "done" /\ code'[r] \in {"404", "409", "500", "replay"}
    BY <1>1 DEF Advance, Finish, TypeInv, TypeOK
  <1>4. None \notin Answers
    BY ConstantsAssumption
  <1>5. TraceAt(r)'
    BY <1>2, <1>3, <1>4 DEF TraceAt, Answers
  <1> QED
    BY <1>5, TraceQuiet DEF Stages, Codes, Answers

(* The stages between the first commit and the answer.                     *)
LEMMA TraceFindAgain ==
  ASSUME TypeInv, TraceInv, NEW r \in Reqs, find_again(r)
  PROVE  TraceInv'
  <1>1. Quiet /\ UNCHANGED call /\ pc[r] = "deleting" /\ Advance(r, "removing")
    BY DEF find_again, tables, Quiet
  <1>2. ~wrote[r] /\ Logged(r) /\ Published(r) /\ code[r] = None
    BY <1>1 DEF TraceInv, TraceAt
  <1>3. pc'[r] = "removing" /\ code'[r] = None
    BY <1>1, <1>2 DEF Advance, TypeInv, TypeOK
  <1>4. ~wrote'[r] /\ Logged(r)' /\ Published(r)'
    BY <1>1, <1>2, QuietKeeps
  <1>5. TraceAt(r)'
    BY <1>3, <1>4, ConstantsAssumption DEF TraceAt, Answers
  <1> QED
    BY <1>1, <1>5, TraceQuiet DEF Stages

LEMMA TraceRefresh ==
  ASSUME TypeInv, TraceInv, NEW r \in Reqs, refresh(r)
  PROVE  TraceInv'
  <1>1. Quiet /\ UNCHANGED call /\ pc[r] = "written" /\ Advance(r, "refreshed")
    BY DEF refresh, tables, Quiet
  <1>2. wrote[r] /\ ~Logged(r) /\ ~Published(r) /\ code[r] = None
    BY <1>1 DEF TraceInv, TraceAt
  <1>3. pc'[r] = "refreshed" /\ code'[r] = None
    BY <1>1, <1>2 DEF Advance, TypeInv, TypeOK
  <1>4. wrote'[r] /\ ~Logged(r)' /\ ~Published(r)'
    BY <1>1, <1>2, QuietKeeps
  <1>5. TraceAt(r)'
    BY <1>3, <1>4, ConstantsAssumption DEF TraceAt, Answers
  <1> QED
    BY <1>1, <1>5, TraceQuiet DEF Stages

(* A request that gives up with 404 or 500, at whatever stage.             *)
LEMMA TraceGiveUp ==
  ASSUME TypeInv, TraceInv, NEW r \in Reqs, Quiet, UNCHANGED call,
         NEW status \in {"404", "500"}, Finish(r, status)
  PROVE  TraceInv'
  <1>1. pc'[r] = "done" /\ code'[r] \in {"404", "500"}
    BY DEF Finish, TypeInv, TypeOK
  <1>2. Published(r)' => Logged(r)'
    BY QuietKeeps DEF TraceInv, TraceAt
  <1>3. TraceAt(r)'
    BY <1>1, <1>2 DEF TraceAt
  <1> QED
    BY <1>3, TraceQuiet DEF Codes, Answers

LEMMA TraceFail ==
  ASSUME TypeInv, TraceInv, NEW r \in Reqs, Fail(r)
  PROVE  TraceInv'
  <1>1. /\ Quiet /\ UNCHANGED call /\ Advance(r, "failed")
        /\ pc[r] \notin {"idle", "done", "failed"}
    BY DEF Fail, InFlight, tables, Quiet
  <1>2. pc'[r] = "failed" /\ code'[r] = None
    BY <1>1 DEF Advance, TypeInv, TypeOK, TraceInv, TraceAt
  <1>3. Published(r)' => Logged(r)'
    BY <1>1, QuietKeeps DEF TraceInv, TraceAt
  <1>4. TraceAt(r)'
    BY <1>2, <1>3, ConstantsAssumption DEF TraceAt, Answers
  <1> QED
    BY <1>1, <1>4, TraceQuiet DEF Stages

LEMMA TraceRespond ==
  ASSUME TypeInv, TraceInv, NEW r \in Reqs, respond(r)
  PROVE  TraceInv'
  <1>1. /\ Quiet /\ UNCHANGED call /\ Finish(r, "200")
        /\ pc[r] = "published"
    BY DEF respond, Quiet
  <1>2. \/ Told(r)
        \/ call[r].op = "undo" /\ Silent(r)
        \/ call[r].op = "delete" /\ ~wrote[r] /\ Logged(r) /\ Published(r)
    BY <1>1 DEF TraceInv, TraceAt
  <1>3. pc'[r] = "done" /\ code'[r] = "200"
    BY <1>1 DEF Finish, TypeInv, TypeOK
  <1>4. /\ \/ Told(r)'
           \/ call'[r].op = "undo" /\ Silent(r)'
           \/ call'[r].op = "delete" /\ ~wrote'[r] /\ Logged(r)' /\ Published(r)'
        /\ Published(r)' => Logged(r)'
    BY <1>1, <1>2, QuietKeeps DEF Told, Silent
  <1>5. TraceAt(r)'
    BY <1>3, <1>4 DEF TraceAt
  <1> QED
    BY <1>1, <1>5, TraceQuiet DEF Codes, Answers

(* The first commit of a request that logs after it.                       *)
LEMMA TraceWrite ==
  ASSUME TypeInv, TraceInv, NEW r \in Reqs, NEW row, SetRow(r, row),
         UNCHANGED <<events, bus, call>>, Advance(r, "written"),
         pc[r] \in {"loaded", "checked", "restoring"}
  PROVE  TraceInv'
  <1>1. Silent(r) /\ code[r] = None
    BY DEF TraceInv, TraceAt
  <1>2. \A q : (Logged(q)' <=> Logged(q)) /\ (Published(q)' <=> Published(q))
    BY DEF Logged, Published
  <1>3. pc'[r] = "written" /\ code'[r] = None /\ wrote'[r]
    BY <1>1 DEF Advance, SetRow, TypeInv, TypeOK
  <1>4. TraceAt(r)'
    BY <1>1, <1>2, <1>3, ConstantsAssumption DEF TraceAt, Silent, Answers
  <1>5. Others(r)
    BY <1>2 DEF Others, Advance, SetRow, TypeInv, TypeOK
  <1> QED
    BY <1>4, <1>5, TraceOthers

(* The insertion of the event, after the commit or before the deletion.    *)
LEMMA TraceLog ==
  ASSUME TypeInv, TraceInv, NEW r \in Reqs,
         NEW prev, NEW new, events' = Append(events, NewEvent(r, prev, new)),
         UNCHANGED <<bus, call, wrote>>,
         \/ pc[r] = "refreshed" /\ Advance(r, "logged")
         \/ pc[r] = "announcing" /\ Advance(r, "announced")
  PROVE  TraceInv'
  <1>1. \A q \in Reqs : Logged(q)' <=> Logged(q) \/ q = r
    BY AppendLogged DEF NewEvent, TypeInv
  <1>2. \A q : Published(q)' <=> Published(q)
    BY DEF Published
  <1>3. /\ pc[r] = "refreshed" => wrote[r]
        /\ pc[r] = "announcing" => ~wrote[r]
        /\ ~Published(r) /\ code[r] = None
    BY DEF TraceInv, TraceAt, Silent
  <1>4. /\ code'[r] = None
        /\ \/ pc'[r] = "logged" /\ wrote'[r]
           \/ pc'[r] = "announced" /\ ~wrote'[r]
    BY <1>3 DEF Advance, TypeInv, TypeOK
  <1>5. TraceAt(r)'
    BY <1>1, <1>2, <1>3, <1>4, ConstantsAssumption DEF TraceAt, Answers
  <1>6. Others(r)
    BY <1>1, <1>2 DEF Others, Advance, TypeInv, TypeOK
  <1> QED
    BY <1>5, <1>6, TraceOthers

LEMMA TracePublish ==
  ASSUME TypeInv, TraceInv, NEW r \in Reqs, publish(r)
  PROVE  TraceInv'
  <1>1. \A q \in Reqs : Published(q)' <=> Published(q) \/ q = r
    BY AppendPublished DEF publish, TypeInv
  <1>2. \A q : Logged(q)' <=> Logged(q)
    BY DEF publish, Logged
  <1>3. /\ Logged(r) /\ code[r] = None
        /\ pc[r] \in {"logged", "announced"}
        /\ pc[r] = "logged" => wrote[r]
        /\ pc[r] = "announced" => ~wrote[r]
    BY DEF publish, TraceInv, TraceAt
  <1>4. /\ code'[r] = None
        /\ \/ pc'[r] = "published" /\ wrote'[r]
           \/ pc'[r] = "deleting" /\ ~wrote'[r]
    BY <1>3 DEF publish, Advance, TypeInv, TypeOK
  <1>5. TraceAt(r)'
    BY <1>1, <1>2, <1>3, <1>4, ConstantsAssumption DEF TraceAt, Told, Answers
  <1>6. Others(r)
    BY <1>1, <1>2 DEF Others, publish, Advance, TypeInv, TypeOK
  <1> QED
    BY <1>5, <1>6, TraceOthers

LEMMA TraceDelete ==
  ASSUME TypeInv, TraceInv, NEW r \in Reqs, delete(r)
  PROVE  TraceInv'
  <1>1. CASE Item(r) \in reserved
    BY <1>1, TraceGiveUp DEF delete, Quiet
  <1>2. CASE Item(r) \notin reserved
    <2>1. /\ pc[r] = "removing" /\ Item(r) \in Items /\ call[r].op = "delete"
          /\ SetRow(r, None) \/ UNCHANGED wrote
          /\ events' = Unlink(Item(r))
          /\ Advance(r, "published") /\ UNCHANGED <<bus, call>>
      BY <1>2, StartedFields DEF delete, TypeInv, StageInv
    <2>2. /\ \A q \in Reqs : Logged(q)' <=> Logged(q)
          /\ \A q : Published(q)' <=> Published(q)
      BY <2>1, UnlinkLogged DEF Published, TypeInv
    <2>3. Logged(r) /\ Published(r) /\ ~wrote[r] /\ code[r] = None
      BY <2>1 DEF TraceInv, TraceAt
    <2>4. pc'[r] = "published" /\ code'[r] = None /\ call'[r].op = "delete"
      BY <2>1, <2>3 DEF Advance, TypeInv, TypeOK
    <2>5. TraceAt(r)'
      BY <2>2, <2>3, <2>4, ConstantsAssumption DEF TraceAt, Told, Answers
    <2>6. Others(r)
      BY <2>1, <2>2 DEF Others, Advance, SetRow, TypeInv, TypeOK
    <2> QED
      BY <2>5, <2>6, TraceOthers
  <1> QED
    BY <1>1, <1>2

LEMMA TraceUnmoved ==
  ASSUME TraceInv, UNCHANGED <<events, bus, wrote, pc, code, call>>
  PROVE  TraceInv'
  BY DEF TraceInv, TraceAt, Silent, Told, Logged, Published

(* Which of these cases each action of a request is.                       *)
LEMMA TraceHandle ==
  ASSUME TypeInv, TraceInv, NEW r \in Reqs, Handle(r)
  PROVE  TraceInv'
  <1>1. CASE Replay(r) \/ nothing_to_undo(r)
    BY <1>1, TraceBefore DEF Replay, nothing_to_undo, Calling, tables, Quiet
  <1>2. CASE check_version(r) \/ delete_item(r)
    BY <1>2, TraceBefore DEF check_version, delete_item, Calling, tables, Quiet
  <1>3. CASE undo_nothing(r) \/ undo_change(r) \/ undo_removal(r)
    BY <1>3, TraceBefore
       DEF undo_nothing, undo_change, undo_removal, Calling, tables, Quiet
  <1>4. CASE not_found(r) \/ row_vanished(r) \/ already_deleted(r)
    BY <1>4, TraceGiveUp
       DEF not_found, row_vanished, already_deleted, Gone, tables, Quiet
  <1>5. CASE create_item(r) \/ update(r)
    BY <1>5, TraceWrite DEF create_item, update, Calling
  <1>6. CASE restore(r)
    <2>1. CASE rows[Item(r)] # None
      BY <1>6, <2>1, TraceGiveUp DEF restore, Quiet
    <2>2. CASE rows[Item(r)] = None
      BY <1>6, <2>2, TraceWrite DEF restore
    <2> QED
      BY <2>1, <2>2
  <1>7. CASE log_event(r) \/ log_removed(r)
    BY <1>7, TraceLog DEF log_event, log_removed
  <1> QED
    BY <1>1, <1>2, <1>3, <1>4, <1>5, <1>6, <1>7, TraceRefresh, TracePublish,
       TraceFindAgain, TraceDelete, TraceRespond DEF Handle

LEMMA TraceStep == TypeInv /\ TraceInv /\ [Next]_vars => TraceInv'
  <1> SUFFICES ASSUME TypeInv, TraceInv, [Next]_vars PROVE TraceInv'
    OBVIOUS
  <1>1. ASSUME NEW r \in Reqs, NEW c \in Calls, Receive(r, c) PROVE TraceInv'
    BY <1>1, TraceReceive
  <1>2. ASSUME NEW r \in Reqs, Handle(r) PROVE TraceInv'
    BY <1>2, TraceHandle
  <1>3. ASSUME NEW r \in Reqs, Fail(r) PROVE TraceInv'
    BY <1>3, TraceFail
  <1>4. ASSUME NEW i \in Items, Reserve(i) \/ Release(i) PROVE TraceInv'
    BY <1>4, TraceUnmoved DEF Reserve, Release
  <1>5. CASE UNCHANGED vars
    BY <1>5, TraceUnmoved DEF vars, tables
  <1> QED
    BY <1>1, <1>2, <1>3, <1>4, <1>5 DEF Next

LEMMA TraceInit == Init => TraceInv
  BY ConstantsAssumption
     DEF Init, TraceInv, TraceAt, Silent, Logged, Published, Answers

---------------------------------------------------------------------------
(* No request logs or publishes twice: it is silent when it comes to it.   *)
LEMMA OnceLog ==
  ASSUME TypeInv, OnceInv, NEW e, events' = Append(events, e), UNCHANGED bus,
         e.req \in Reqs, ~Logged(e.req)
  PROVE  OnceInv'
  <1>1. events \in Seq(Event)
    BY DEF TypeInv, TypeOK
  <1>2. /\ DOMAIN events' = DOMAIN events \cup {Len(events) + 1}
        /\ \A k \in DOMAIN events : events'[k] = events[k]
        /\ events'[Len(events) + 1] = e
    BY <1>1
  <1> QED
    BY <1>2 DEF OnceInv, Logged

LEMMA OncePublish ==
  ASSUME TypeInv, OnceInv, NEW r \in Reqs, bus' = Append(bus, r),
         UNCHANGED events, ~Published(r)
  PROVE  OnceInv'
  <1>1. bus \in Seq(Reqs)
    BY DEF TypeInv, TypeOK
  <1>2. /\ DOMAIN bus' = DOMAIN bus \cup {Len(bus) + 1}
        /\ \A k \in DOMAIN bus : bus'[k] = bus[k]
        /\ bus'[Len(bus) + 1] = r
    BY <1>1
  <1> QED
    BY <1>2 DEF OnceInv, Published

LEMMA OnceUnlink ==
  ASSUME TypeInv, OnceInv, NEW i \in Items, events' = Unlink(i), UNCHANGED bus
  PROVE  OnceInv'
  BY UnlinkType DEF TypeInv, OnceInv

LEMMA OnceUnmoved ==
  ASSUME OnceInv, UNCHANGED <<events, bus>>
  PROVE  OnceInv'
  BY DEF OnceInv

LEMMA OnceHandle ==
  ASSUME TypeInv, TraceInv, OnceInv, NEW r \in Reqs, Handle(r)
  PROVE  OnceInv'
  <1>1. CASE log_event(r) \/ log_removed(r)
    <2>1. ~Logged(r)
      BY <1>1 DEF log_event, log_removed, TraceInv, TraceAt, Silent
    <2>2. PICK prev, new : /\ events' = Append(events, NewEvent(r, prev, new))
                           /\ UNCHANGED bus
      BY <1>1 DEF log_event, log_removed
    <2>3. NewEvent(r, prev, new).req = r
      BY DEF NewEvent
    <2> QED
      BY <2>1, <2>2, <2>3, OnceLog
  <1>2. CASE publish(r)
    <2>1. ~Published(r)
      BY <1>2 DEF publish, TraceInv, TraceAt
    <2> QED
      BY <1>2, <2>1, OncePublish DEF publish
  <1>3. CASE delete(r)
    BY <1>3, OnceUnlink, OnceUnmoved, StartedFields DEF delete, TypeInv
  <1>4. CASE UNCHANGED <<events, bus>>
    BY <1>4, OnceUnmoved
  <1> QED
    BY <1>1, <1>2, <1>3, <1>4
       DEF Handle, Replay, create_item, check_version, not_found, update, refresh,
           row_vanished, delete_item, find_again, already_deleted, nothing_to_undo,
           undo_nothing, undo_change, undo_removal, restore, respond, Gone, tables

LEMMA OnceStep == TypeInv /\ TraceInv /\ OnceInv /\ [Next]_vars => OnceInv'
  <1> SUFFICES ASSUME TypeInv, TraceInv, OnceInv, [Next]_vars PROVE OnceInv'
    OBVIOUS
  <1>1. ASSUME NEW r \in Reqs, Handle(r) PROVE OnceInv'
    BY <1>1, OnceHandle
  <1>2. CASE UNCHANGED <<events, bus>>
    BY <1>2, OnceUnmoved
  <1> QED
    BY <1>1, <1>2 DEF Next, Receive, Fail, Reserve, Release, vars, tables

LEMMA OnceInit == Init => OnceInv
  BY DEF Init, OnceInv

---------------------------------------------------------------------------
LogInv == TypeInv /\ TraceInv /\ OnceInv

LEMMA LogInvariant == Spec => []LogInv
  <1>1. Init => LogInv
    BY TypeInit, TraceInit, OnceInit DEF LogInv
  <1>2. LogInv /\ [Next]_vars => LogInv'
    BY TypeStep, TraceStep, OnceStep DEF LogInv
  <1> QED
    BY <1>1, <1>2, PTL DEF Spec

(* A version conflict and a replayed answer change nothing and tell nobody.*)
THEOREM RefusedNoEffect == Spec => []RefusedHasNoEffect
  <1>1. LogInv => RefusedHasNoEffect
    BY DEF LogInv, TraceInv, TraceAt, RefusedHasNoEffect, Silent
  <1> QED
    BY <1>1, LogInvariant, PTL

(* Members are told only of what the activity log holds.                   *)
THEOREM PublishedLogged == Spec => []PublishedIsLogged
  <1>1. LogInv => PublishedIsLogged
    BY DEF LogInv, TraceInv, TraceAt, PublishedIsLogged
  <1> QED
    BY <1>1, LogInvariant, PTL

---------------------------------------------------------------------------
(* Every state held by a request or told by an event is one the item had:  *)
(* past only grows, and what is copied comes from the table, from an event *)
(* of the same item, or from what the request held.                        *)
HeldBy(q) == /\ call'[q] = call[q] /\ snap'[q] = snap[q]
             /\ post'[q] = post[q] /\ source'[q] = source[q]
             /\ pc'[q] = "idle" <=> pc[q] = "idle"

LEMMA RealKept ==
  ASSUME NEW q, RealRequest(q), HeldBy(q),
         Started(q) => past[Item(q)] \subseteq past'[Item(q)]
  PROVE  RealRequest(q)'
  BY DEF RealRequest, Real, HeldBy, Started, Item

LEMMA PastMove ==
  ASSUME PastInv, UNCHANGED <<rows, past, events>>, NEW r \in Reqs,
         \A q \in Reqs \ {r} : HeldBy(q), RealRequest(r)'
  PROVE  PastInv'
  <1>1. \A q \in Reqs : RealRequest(q)'
    BY RealKept DEF PastInv
  <1>2. RealRows' /\ \A k \in DOMAIN events' : RealEvent(events[k])'
    BY DEF PastInv, RealRows, RealEvent, Real
  <1> QED
    BY <1>1, <1>2 DEF PastInv

(* Moves that change only the stage and the code of a request.             *)
LEMMA PastStage ==
  ASSUME TypeInv, PastInv, NEW r \in Reqs, pc[r] # "idle",
         UNCHANGED <<rows, past, events, call, snap, post, source>>,
         \/ \E stage \in Stages \ {"idle"} : Advance(r, stage)
         \/ \E status : Finish(r, status)
  PROVE  PastInv'
  <1>1. \A q \in Reqs : HeldBy(q)
    BY DEF HeldBy, Advance, Finish, TypeInv, TypeOK
  <1>2. RealRequest(r)'
    BY <1>1, RealKept DEF PastInv
  <1> QED
    BY <1>1, <1>2, PastMove

LEMMA PastUnmoved ==
  ASSUME PastInv, UNCHANGED <<rows, past, events, call, snap, post, source, pc>>
  PROVE  PastInv'
  BY DEF PastInv, RealRows, RealRequest, RealEvent, Real, Started, Item

LEMMA PastReceive ==
  ASSUME TypeInv, PastInv, NEW r \in Reqs, NEW c \in Calls, Receive(r, c)
  PROVE  PastInv'
  <1>1. UNCHANGED <<rows, past, events>> /\ \A q \in Reqs \ {r} : HeldBy(q)
    BY DEF Receive, Advance, HeldBy, TypeInv, TypeOK, tables
  <1>2. /\ call'[r] = c /\ snap'[r] = rows[c.item] /\ pc'[r] = "loaded"
        /\ post'[r] = None /\ source'[r].prev = None /\ source'[r].new = None
    BY DEF Receive, Advance, TypeInv, TypeOK, PastInv, RealRequest, Started
  <1>3. Real(rows[c.item], c.item)
    BY CallFields DEF PastInv, RealRows
  <1>4. RealRequest(r)'
    BY <1>1, <1>2, <1>3 DEF RealRequest, Real, Started, Item
  <1> QED
    BY <1>1, <1>4, PastMove

(* A commit: the new state is recorded, the old ones stay.                 *)
LEMMA PastWrite ==
  ASSUME TypeInv, PastInv, NEW r \in Reqs, pc[r] # "idle",
         NEW row \in State, SetRow(r, row),
         UNCHANGED <<call, snap, post, source>>,
         NEW stage \in Stages \ {"idle"}, Advance(r, stage),
         events' = events \/ events' = Unlink(Item(r))
  PROVE  PastInv'
  <1>1. Item(r) \in Items
    BY StartedFields DEF TypeInv
  <1>2. \A i \in Items : /\ past[i] \subseteq past'[i]
                         /\ rows'[i] = rows[i] \/ (rows'[i] # None => rows'[i] \in past'[i])
    BY <1>1 DEF SetRow, TypeInv, TypeOK
  <1>3. RealRows'
    BY <1>2 DEF RealRows, Real, PastInv
  <1>4. \A q \in Reqs : HeldBy(q)
    BY DEF HeldBy, Advance, TypeInv, TypeOK
  <1>5. \A q \in Reqs : Started(q) => Item(q) \in Items
    BY StartedFields DEF Started, TypeInv
  <1>6. \A q \in Reqs : RealRequest(q)'
    BY <1>2, <1>4, <1>5, RealKept DEF PastInv
  <1>7. \A k \in DOMAIN events :
          /\ events[k].id \in Items /\ events[k].item \in {None, events[k].id}
          /\ Real(events[k].prev, events[k].id) /\ Real(events[k].new, events[k].id)
    <2> SUFFICES ASSUME NEW k \in DOMAIN events
                 PROVE  /\ events[k].id \in Items
                        /\ events[k].item \in {None, events[k].id}
                        /\ Real(events[k].prev, events[k].id)
                        /\ Real(events[k].new, events[k].id)
      OBVIOUS
    <2>1. events[k] \in Event
      BY DEF TypeInv, TypeOK
    <2>2. events[k].id \in Items
      BY <2>1 DEF Event
    <2>3. RealEvent(events[k])
      BY DEF PastInv
    <2> QED
      BY <2>2, <2>3 DEF RealEvent
  <1>8. /\ DOMAIN events' = DOMAIN events
        /\ \A k \in DOMAIN events :
             /\ events'[k].id = events[k].id /\ events'[k].prev = events[k].prev
             /\ events'[k].new = events[k].new
             /\ events'[k].item \in {None, events[k].item}
    BY <1>1, <1>7, UnlinkType DEF TypeInv
  <1>9. \A k \in DOMAIN events' : RealEvent(events[k])'
    BY <1>2, <1>7, <1>8 DEF RealEvent, Real
  <1> QED
    BY <1>3, <1>6, <1>9 DEF PastInv

LEMMA PastLog ==
  ASSUME TypeInv, PastInv, NEW r \in Reqs, pc[r] # "idle",
         NEW prev, NEW new, Real(prev, Item(r)), Real(new, Item(r)),
         events' = Append(events, NewEvent(r, prev, new)),
         UNCHANGED <<rows, past, call, snap, post, source>>,
         NEW stage \in Stages \ {"idle"}, Advance(r, stage)
  PROVE  PastInv'
  <1>1. \A q \in Reqs : RealRequest(q)'
    <2>1. \A q \in Reqs : HeldBy(q)
      BY DEF HeldBy, Advance, TypeInv, TypeOK
    <2> QED
      BY <2>1, RealKept DEF PastInv
  <1>2. RealRows'
    BY DEF RealRows, Real, PastInv
  <1>3. /\ DOMAIN events' = DOMAIN events \cup {Len(events) + 1}
        /\ \A k \in DOMAIN events : events'[k] = events[k]
        /\ events'[Len(events) + 1] = NewEvent(r, prev, new)
    BY DEF TypeInv, TypeOK
  <1>4. \A k \in DOMAIN events : RealEvent(events[k])
    BY DEF PastInv
  <1>5. RealEvent(NewEvent(r, prev, new))
    BY DEF RealEvent, NewEvent
  <1>6. \A k \in DOMAIN events' : RealEvent(events'[k])
    BY <1>3, <1>4, <1>5
  <1>7. \A k \in DOMAIN events' : RealEvent(events[k])'
    BY <1>6 DEF RealEvent, Real
  <1> QED
    BY <1>1, <1>2, <1>7 DEF PastInv

(* Moves that fill the attributes a request holds.                         *)
LEMMA PastFill ==
  ASSUME TypeInv, PastInv, NEW r \in Reqs, pc[r] # "idle",
         UNCHANGED <<rows, past, events, call>>,
         \A q \in Reqs \ {r} : HeldBy(q),
         pc'[r] # "idle",
         Real(snap'[r], Item(r)), Real(post'[r], Item(r)),
         Real(source'[r].prev, Item(r)), Real(source'[r].new, Item(r))
  PROVE  PastInv'
  <1>1. RealRequest(r)'
    BY DEF RealRequest, Real, Started, Item
  <1> QED
    BY <1>1, PastMove

LEMMA PastUnlink ==
  ASSUME TypeInv, PastInv, NEW r \in Reqs, pc[r] # "idle", events' = Unlink(Item(r)),
         UNCHANGED <<rows, past, call, snap, post, source>>,
         \E stage \in Stages \ {"idle"} : Advance(r, stage)
  PROVE  PastInv'
  <1>1. \A q \in Reqs : HeldBy(q)
    BY DEF HeldBy, Advance, TypeInv, TypeOK
  <1>2. \A q \in Reqs : RealRequest(q)'
    BY <1>1, RealKept DEF PastInv
  <1>3. \A k \in DOMAIN events' : RealEvent(events[k])'
    BY UnlinkType, StartedFields DEF PastInv, RealEvent, Real, TypeInv
  <1> QED
    BY <1>2, <1>3 DEF PastInv, RealRows, Real

LEMMA HeldReal ==
  ASSUME TypeInv, PastInv, NEW r \in Reqs, pc[r] # "idle"
  PROVE  /\ Item(r) \in Items
         /\ Real(rows[Item(r)], Item(r))
         /\ Real(get_by_id(r), Item(r)) /\ Real(PreviousState(r), Item(r))
         /\ Real(snap[r], Item(r)) /\ Real(post[r], Item(r))
         /\ Real(source[r].prev, Item(r)) /\ Real(source[r].new, Item(r))
  <1>1. Item(r) \in Items /\ call[r].op \in AllOps
    BY StartedFields DEF TypeInv
  <1>2. /\ Real(rows[Item(r)], Item(r))
        /\ Real(snap[r], Item(r)) /\ Real(post[r], Item(r))
        /\ Real(source[r].prev, Item(r)) /\ Real(source[r].new, Item(r))
    BY <1>1 DEF PastInv, RealRows, RealRequest, Started
  <1>3. Real(get_by_id(r), Item(r))
    BY <1>2 DEF get_by_id, Real
  <1>4. PreviousState(r) \in {None, source[r].new, snap[r]}
    BY <1>1 DEF PreviousState, AllOps
  <1>5. Real(None, Item(r))
    BY DEF Real
  <1> QED
    BY <1>1, <1>2, <1>3, <1>4, <1>5

(* The event an undo picks is one of the item the undo is of.              *)
LEMMA PickReal ==
  ASSUME TypeInv, PastInv, NEW r \in Reqs, pc[r] # "idle",
         NEW e \in Newest(call[r])
  PROVE  Real(e.prev, Item(r)) /\ Real(e.new, Item(r))
  <1>1. PICK k \in DOMAIN events : e = events[k] /\ Concerns(e, Item(r))
    BY DEF Newest, OwnEvents, Item
  <1>2. RealEvent(events[k])
    BY DEF PastInv
  <1>3. Item(r) \in Items /\ Item(r) # None
    BY StartedFields, ConstantsAssumption DEF TypeInv
  <1>4. e.id = Item(r)
    BY <1>1, <1>2, <1>3 DEF Concerns, RealEvent
  <1> QED
    BY <1>1, <1>2, <1>4 DEF RealEvent

LEMMA PickedFields ==
  ASSUME TypeInv, NEW r \in Reqs, NEW e, Pick(r, e)
  PROVE  /\ source'[r].prev = e.prev /\ source'[r].new = e.new
         /\ \A q \in Reqs \ {r} : source'[q] = source[q]
  BY DEF Pick, TypeInv, TypeOK

LEMMA PastLoads ==
  ASSUME TypeInv, PastInv, NEW r \in Reqs,
         check_version(r) \/ delete_item(r) \/ undo_nothing(r) \/ refresh(r)
  PROVE  PastInv'
  <1>1. pc[r] # "idle"
    BY DEF check_version, delete_item, undo_nothing, refresh, Calling
  <1>2. /\ UNCHANGED <<rows, past, events, call, source>>
        /\ \A q \in Reqs \ {r} : HeldBy(q)
        /\ pc'[r] # "idle"
        /\ snap'[r] \in {snap[r], get_by_id(r)}
        /\ post'[r] \in {post[r], get_by_id(r), rows[Item(r)]}
    BY DEF check_version, delete_item, undo_nothing, refresh, Load, Advance,
           Finish, HeldBy, tables, TypeInv, TypeOK
  <1>3. Real(snap'[r], Item(r)) /\ Real(post'[r], Item(r))
    BY <1>1, <1>2, HeldReal
  <1>4. Real(source'[r].prev, Item(r)) /\ Real(source'[r].new, Item(r))
    BY <1>1, <1>2, HeldReal
  <1> QED
    BY <1>1, <1>2, <1>3, <1>4, PastFill

LEMMA PastPick ==
  ASSUME TypeInv, PastInv, NEW r \in Reqs, undo_change(r) \/ undo_removal(r)
  PROVE  PastInv'
  <1>1. pc[r] # "idle"
    BY DEF undo_change, undo_removal, Calling
  <1>2. PICK e \in Newest(call[r]) : Pick(r, e)
    BY DEF undo_change, undo_removal
  <1>3. Real(source'[r].prev, Item(r)) /\ Real(source'[r].new, Item(r))
    BY <1>1, <1>2, PickReal, PickedFields
  <1>4. /\ UNCHANGED <<rows, past, events, call, post>>
        /\ \A q \in Reqs \ {r} : HeldBy(q)
        /\ pc'[r] # "idle"
        /\ snap'[r] \in {snap[r], get_by_id(r)}
    BY <1>2, PickedFields
       DEF undo_change, undo_removal, Load, Advance, HeldBy, tables, TypeInv, TypeOK
  <1>5. Real(snap'[r], Item(r)) /\ Real(post'[r], Item(r))
    BY <1>1, <1>4, HeldReal
  <1> QED
    BY <1>1, <1>3, <1>4, <1>5, PastFill

LEMMA PastWrites ==
  ASSUME TypeInv, PastInv, NEW r \in Reqs,
         create_item(r) \/ update(r) \/ delete(r) \/ restore(r)
  PROVE  PastInv'
  <1>1. CASE create_item(r)
    <2>1. NewRow(call[r].arg) \in State /\ pc[r] # "idle"
      BY <1>1, StartedFields, NewRowType DEF create_item, Calling, State, TypeInv
    <2> QED
      BY <1>1, <2>1, PastWrite DEF create_item, Stages
  <1>2. CASE update(r)
    <2>1. /\ pc[r] = "checked" /\ snap[r] \in Row /\ rows[Item(r)] \in Row
          /\ call[r].op = "undo" => source[r].prev \in Row
      BY <1>2, StartedFields DEF update, TypeInv, TypeOK, StageInv, State
    <2>2. call[r].op \in {"update", "status", "undo"}
      BY <2>1 DEF TypeInv, StageInv
    <2>3. Merge(rows[Item(r)], snap[r], Edited(r)) \in State
      BY <2>1, <2>2, EditedType, MergeType DEF TypeInv, State
    <2> QED
      BY <1>2, <2>1, <2>3, PastWrite DEF update, Stages
  <1>3. CASE delete(r)
    <2>1. pc[r] # "idle" /\ None \in State
      BY <1>3 DEF delete, State
    <2>2. CASE Item(r) \in reserved
      BY <1>3, <2>1, <2>2, PastStage DEF delete
    <2>3. CASE Item(r) \notin reserved /\ rows[Item(r)] # None
      BY <1>3, <2>1, <2>3, PastWrite DEF delete, Stages
    <2>4. CASE Item(r) \notin reserved /\ rows[Item(r)] = None
      BY <1>3, <2>1, <2>4, PastUnlink DEF delete, Stages
    <2> QED
      BY <2>2, <2>3, <2>4
  <1>4. CASE restore(r)
    <2>1. pc[r] = "restoring"
      BY <1>4 DEF restore
    <2>2. source[r].prev \in Row /\ source[r].new \in State
      BY <2>1 DEF TypeInv, TypeOK, StageInv, State
    <2>3. Restored(source[r]) \in State
      BY <2>2, RestoredType DEF State
    <2>4. CASE rows[Item(r)] # None
      BY <1>4, <2>1, <2>4, PastStage DEF restore
    <2>5. CASE rows[Item(r)] = None
      BY <1>4, <2>1, <2>3, <2>5, PastWrite DEF restore, Stages
    <2> QED
      BY <2>4, <2>5
  <1> QED
    BY <1>1, <1>2, <1>3, <1>4

LEMMA PastLogs ==
  ASSUME TypeInv, PastInv, NEW r \in Reqs, log_event(r) \/ log_removed(r)
  PROVE  PastInv'
  <1>1. pc[r] # "idle"
    BY DEF log_event, log_removed
  <1>2. Real(None, Item(r))
    BY DEF Real
  <1>3. CASE log_event(r)
    BY <1>1, <1>3, HeldReal, PastLog DEF log_event, Stages
  <1>4. CASE log_removed(r)
    BY <1>1, <1>2, <1>4, HeldReal, PastLog DEF log_removed, Stages
  <1> QED
    BY <1>3, <1>4

LEMMA PastStays ==
  ASSUME TypeInv, PastInv, NEW r \in Reqs,
         \/ Replay(r) \/ not_found(r) \/ publish(r) \/ row_vanished(r)
         \/ find_again(r) \/ already_deleted(r) \/ nothing_to_undo(r) \/ respond(r) \/ Fail(r)
  PROVE  PastInv'
  <1>1. /\ pc[r] # "idle"
        /\ UNCHANGED <<rows, past, events, call, snap, post, source>>
        /\ \/ \E stage \in Stages \ {"idle"} : Advance(r, stage)
           \/ \E status : Finish(r, status)
    BY DEF Replay, not_found, publish, row_vanished, find_again, already_deleted,
           nothing_to_undo, respond, Fail, Gone, Calling, InFlight, tables, Stages
  <1> QED
    BY <1>1, PastStage

LEMMA PastStep == TypeInv /\ PastInv /\ [Next]_vars => PastInv'
  <1> SUFFICES ASSUME TypeInv, PastInv, [Next]_vars PROVE PastInv'
    OBVIOUS
  <1>1. ASSUME NEW r \in Reqs, Handle(r) \/ Fail(r) PROVE PastInv'
    BY <1>1, PastLoads, PastPick, PastWrites, PastLogs, PastStays DEF Handle
  <1>2. ASSUME NEW r \in Reqs, NEW c \in Calls, Receive(r, c) PROVE PastInv'
    BY <1>2, PastReceive
  <1>3. ASSUME NEW i \in Items, Reserve(i) \/ Release(i) PROVE PastInv'
    BY <1>3, PastUnmoved DEF Reserve, Release
  <1>4. CASE UNCHANGED vars
    BY <1>4, PastUnmoved DEF vars, tables
  <1> QED
    BY <1>1, <1>2, <1>3, <1>4 DEF Next

LEMMA PastInit == Init => PastInv
  BY DEF Init, PastInv, RealRows, RealRequest, Real, Started

LEMMA PastInvariant == Spec => [](TypeInv /\ PastInv)
  <1>1. Init => TypeInv /\ PastInv
    BY TypeInit, PastInit
  <1>2. TypeInv /\ PastInv /\ [Next]_vars => TypeInv' /\ PastInv'
    BY TypeStep, PastStep
  <1> QED
    BY <1>1, <1>2, PTL DEF Spec

(* Every state an event of the activity log reports is one that some       *)
(* commit gave the item.                                                   *)
THEOREM EventsReal == Spec => []EventsReportCommittedStates
  <1>1. PastInv => EventsReportCommittedStates
    BY DEF PastInv, RealEvent, Real, EventsReportCommittedStates
  <1> QED
    BY <1>1, PastInvariant, PTL

---------------------------------------------------------------------------
(* The idempotency cache.  An answered request has an entry that its       *)
(* repetition finds: entries are only added, an entry is overwritten only  *)
(* by an answer of the same operation, and nothing else ends with 200.     *)
LEMMA SameScopeSameOp ==
  ASSUME CacheInv, NEW q \in Reqs, NEW r \in Reqs, Started(q), Started(r),
         Scope(call[q]) = Scope(call[r])
  PROVE  call[q].op = call[r].op
  <1>1. call[q].user = call[r].user /\ call[q].key = call[r].key
    BY DEF Scope
  <1> QED
    BY <1>1 DEF CacheInv

LEMMA HitOfSameOperation ==
  ASSUME CacheInv, NEW q \in Reqs, NEW r \in Reqs,
         code[q] = "200", SameOperation(q, r)
  PROVE  Hit(call[r])
  BY DEF CacheInv, SameOperation, Hit, get_cached

(* Every step of a request but its answer and its receipt.                 *)
LEMMA CacheMove ==
  ASSUME TypeInv, CacheInv, NEW r \in Reqs, pc[r] \notin {"idle", "done"},
         UNCHANGED <<cache, call, before>>,
         pc'[r] # "idle", code'[r] # "200",
         \A q \in Reqs \ {r} : pc'[q] = pc[q] /\ code'[q] = code[q],
         \/ pc[r] \notin {"loaded", "failed"}
         \/ ~Hit(call[r])
         \/ pc'[r] = "failed"
         \/ pc'[r] = "done" /\ code'[r] = "replay"
  PROVE  CacheInv'
  <1>1. \A q \in Reqs : Started(q)' <=> Started(q)
    BY DEF Started
  <1>2. \A q, s \in Reqs :
          (Started(q) /\ Started(s) /\ call[q].user = call[s].user
             /\ call[q].key = call[s].key)' => (call[q].op = call[s].op)'
    BY <1>1 DEF CacheInv
  <1>3. \A q \in Reqs : (code[q] = "200")' => Hit(call[q])'
    BY DEF CacheInv, Hit, get_cached
  <1>4. ASSUME NEW s \in Reqs, NEW q \in before[s]
        PROVE  /\ Started(s)' /\ pc'[q] = "done"
               /\ (code[q] = "200" /\ SameOperation(q, s))'
                    => \/ pc'[s] \in {"loaded", "failed"}
                       \/ pc'[s] = "done" /\ code'[s] = "replay"
    <2>1. q \in Reqs
      BY DEF TypeInv, TypeOK
    <2>2. /\ Started(s) /\ pc[q] = "done"
          /\ (code[q] = "200" /\ SameOperation(q, s))
                    => \/ pc[s] \in {"loaded", "failed"}
                       \/ pc[s] = "done" /\ code[s] = "replay"
      BY DEF CacheInv
    <2>3. q # r /\ pc'[q] = "done" /\ code'[q] = code[q] /\ Started(s)'
      BY <1>1, <2>1, <2>2
    <2>4. SameOperation(q, s)' <=> SameOperation(q, s)
      BY DEF SameOperation, Scope
    <2>5. CASE s # r
      BY <2>2, <2>3, <2>4, <2>5
    <2>6. CASE s = r
      <3>1. (code[q] = "200" /\ SameOperation(q, r)) => Hit(call[r])
        BY <2>1, HitOfSameOperation
      <3> QED
        BY <2>2, <2>3, <2>4, <2>6, <3>1
    <2> QED
      BY <2>5, <2>6
  <1> QED
    BY <1>2, <1>3, <1>4 DEF CacheInv

LEMMA CacheUnmoved ==
  ASSUME CacheInv, UNCHANGED <<cache, call, before, pc, code>>
  PROVE  CacheInv'
  BY DEF CacheInv, Hit, get_cached, SameOperation, Scope, Started

LEMMA CacheReceive ==
  ASSUME TypeInv, TraceInv, CacheInv, NEW r \in Reqs, NEW c \in Calls, Receive(r, c)
  PROVE  CacheInv'
  <1>1. /\ pc[r] = "idle" /\ pc' = [pc EXCEPT ![r] = "loaded"]
        /\ call' = [call EXCEPT ![r] = c] /\ KeyDiscipline(c)
        /\ before' = [before EXCEPT ![r] = {q \in Reqs : pc[q] = "done"}]
        /\ code' = code /\ cache' = cache
    BY DEF Receive, Advance, tables
  <1>2. /\ pc'[r] = "loaded" /\ call'[r] = c /\ before'[r] = {q \in Reqs : pc[q] = "done"}
        /\ \A q \in Reqs \ {r} : pc'[q] = pc[q] /\ call'[q] = call[q] /\ before'[q] = before[q]
    BY <1>1 DEF TypeInv, TypeOK
  <1>3. code[r] = None
    BY <1>1 DEF TraceInv, TraceAt
  <1>4. ASSUME NEW q \in Reqs, NEW s \in Reqs,
               (Started(q) /\ Started(s) /\ call[q].user = call[s].user
                  /\ call[q].key = call[s].key)'
        PROVE  (call[q].op = call[s].op)'
    <2>1. CASE q # r /\ s # r
      BY <1>2, <1>4, <2>1 DEF CacheInv, Started
    <2>2. CASE q = r /\ s # r
      BY <1>1, <1>2, <1>4, <2>2 DEF KeyDiscipline, Started
    <2>3. CASE q # r /\ s = r
      BY <1>1, <1>2, <1>4, <2>3 DEF KeyDiscipline, Started
    <2> QED
      BY <2>1, <2>2, <2>3
  <1>5. \A q \in Reqs : (code[q] = "200")' => Hit(call[q])'
    BY <1>1, <1>2, <1>3, ConstantsAssumption DEF CacheInv, Hit, get_cached, Answers
  <1>6. ASSUME NEW s \in Reqs, NEW q \in before'[s]
        PROVE  /\ Started(s)' /\ pc'[q] = "done"
               /\ (code[q] = "200" /\ SameOperation(q, s))'
                    => \/ pc'[s] \in {"loaded", "failed"}
                       \/ pc'[s] = "done" /\ code'[s] = "replay"
    <2>1. CASE s = r
      BY <1>1, <1>2, <2>1 DEF Started
    <2>2. CASE s # r
      <3>1. q \in before[s] /\ q \in Reqs
        BY <1>2, <2>2 DEF TypeInv, TypeOK
      <3>2. /\ Started(s) /\ pc[q] = "done"
            /\ (code[q] = "200" /\ SameOperation(q, s))
                    => \/ pc[s] \in {"loaded", "failed"}
                       \/ pc[s] = "done" /\ code[s] = "replay"
        BY <3>1 DEF CacheInv
      <3>3. q # r
        BY <1>1, <3>2
      <3>4. SameOperation(q, s)' <=> SameOperation(q, s)
        BY <1>2, <2>2, <3>1, <3>3 DEF SameOperation, Scope
      <3> QED
        BY <1>1, <1>2, <2>2, <3>1, <3>2, <3>3, <3>4 DEF Started
    <2> QED
      BY <2>1, <2>2
  <1> QED
    BY <1>4, <1>5, <1>6 DEF CacheInv

LEMMA BodyIsHit ==
  ASSUME TypeInv, NEW r \in Reqs, pc[r] # "idle"
  PROVE  /\ ResponseBody(r) # None
         /\ call[r].op # "delete" => ResponseBody(r) # EmptyBody
  <1>1. ResponseBody(r) \in Body
    BY BodyType DEF TypeInv
  <1>2. Item(r) \in Items /\ Item(r) # None
    BY StartedFields, ConstantsAssumption DEF TypeInv
  <1> QED
    BY <1>1, <1>2, ConstantsAssumption DEF ResponseBody, EmptyBody

LEMMA ScopeType ==
  ASSUME TypeInv, NEW r \in Reqs, pc[r] # "idle"
  PROVE  Scope(call[r]) \in Scopes
  BY StartedFields DEF TypeInv, Scopes

LEMMA CacheRespond ==
  ASSUME TypeInv, TraceInv, CacheInv, NEW r \in Reqs, respond(r)
  PROVE  CacheInv'
  <1>1. /\ pc[r] = "published" /\ pc' = [pc EXCEPT ![r] = "done"]
        /\ code' = [code EXCEPT ![r] = "200"]
        /\ cache' = [cache EXCEPT ![Scope(call[r])] = ResponseBody(r)]
        /\ UNCHANGED <<call, before>>
    BY DEF respond, Finish, store_cached
  <1>2. /\ pc'[r] = "done"
        /\ \A q \in Reqs \ {r} : pc'[q] = pc[q] /\ code'[q] = code[q]
    BY <1>1 DEF TypeInv, TypeOK
  <1>3. \A q \in Reqs : Started(q)' <=> Started(q)
    BY <1>1, <1>2 DEF Started
  <1>4. \A q, s \in Reqs :
          (Started(q) /\ Started(s) /\ call[q].user = call[s].user
             /\ call[q].key = call[s].key)' => (call[q].op = call[s].op)'
    BY <1>1, <1>3 DEF CacheInv
  <1>5. ASSUME NEW q \in Reqs, code'[q] = "200" PROVE Hit(call[q])'
    <2>1. pc[q] # "idle" /\ (q # r => Hit(call[q]))
      <3>1. CASE q = r
        BY <1>1, <3>1
      <3>2. CASE q # r
        BY <1>2, <1>5, <3>2, ConstantsAssumption DEF CacheInv, TraceInv, TraceAt, Answers
      <3> QED
        BY <3>1, <3>2
    <2>2. cache'[Scope(call[r])] = ResponseBody(r)
      BY <1>1, ScopeType DEF TypeInv, TypeOK
    <2>3. CASE Scope(call[q]) = Scope(call[r])
      <3>1. call[q].op = call[r].op
        BY <1>1, <2>1, <2>3, SameScopeSameOp DEF Started
      <3> QED
        BY <1>1, <2>2, <2>3, <3>1, BodyIsHit DEF Hit, get_cached
    <2>4. CASE Scope(call[q]) # Scope(call[r])
      <3>1. cache'[Scope(call[q])] = cache[Scope(call[q])]
        BY <1>1, <2>1, <2>4, ScopeType DEF TypeInv, TypeOK
      <3> QED
        BY <1>1, <2>1, <2>4, <3>1 DEF Hit, get_cached
    <2> QED
      BY <2>3, <2>4
  <1>6. ASSUME NEW s \in Reqs, NEW q \in before[s]
        PROVE  /\ Started(s)' /\ pc'[q] = "done"
               /\ (code[q] = "200" /\ SameOperation(q, s))'
                    => \/ pc'[s] \in {"loaded", "failed"}
                       \/ pc'[s] = "done" /\ code'[s] = "replay"
    <2>1. q \in Reqs
      BY DEF TypeInv, TypeOK
    <2>2. /\ Started(s) /\ pc[q] = "done"
          /\ (code[q] = "200" /\ SameOperation(q, s))
                    => \/ pc[s] \in {"loaded", "failed"}
                       \/ pc[s] = "done" /\ code[s] = "replay"
      BY DEF CacheInv
    <2>3. q # r /\ pc'[q] = "done" /\ code'[q] = code[q] /\ Started(s)'
      BY <1>1, <1>2, <1>3, <2>1, <2>2
    <2>4. SameOperation(q, s)' <=> SameOperation(q, s)
      BY <1>1 DEF SameOperation, Scope
    <2> QED
      BY <1>1, <1>2, <2>2, <2>3, <2>4
  <1> QED
    BY <1>1, <1>4, <1>5, <1>6 DEF CacheInv

LEMMA CacheHandle ==
  ASSUME TypeInv, TraceInv, CacheInv, NEW r \in Reqs, Handle(r) \/ Fail(r)
  PROVE  CacheInv'
  <1>1. CASE respond(r)
    BY <1>1, CacheRespond
  <1>2. CASE ~respond(r)
    <2>1. code[r] # "200" \/ pc[r] = "done"
      BY ConstantsAssumption DEF TraceInv, TraceAt, Answers
    <2>2. /\ pc[r] \notin {"idle", "done", "failed"}
          /\ UNCHANGED <<cache, call, before>>
          /\ \/ \E stage \in Stages \ {"idle"} : Advance(r, stage)
             \/ \E status \in {"404", "409", "500", "replay"} : Finish(r, status)
      BY <1>2
         DEF Handle, Fail, Replay, create_item, check_version, not_found, update,
             refresh, log_event, publish, row_vanished, delete_item, log_removed,
             find_again, delete, already_deleted, nothing_to_undo, undo_nothing, undo_change,
             undo_removal, restore, Gone, Calling, InFlight, tables, Stages
    <2>3. pc[r] = "loaded" =>
            \/ ~Hit(call[r]) \/ pc'[r] = "failed"
            \/ pc'[r] = "done" /\ code'[r] = "replay"
      BY <1>2
         DEF Handle, Fail, Replay, create_item, check_version, not_found, update,
             refresh, log_event, publish, row_vanished, delete_item, log_removed,
             find_again, delete, already_deleted, nothing_to_undo, undo_nothing, undo_change,
             undo_removal, restore, Gone, Calling, Advance, Finish, TypeInv, TypeOK
    <2>4. /\ pc'[r] # "idle" /\ code'[r] # "200"
          /\ \A q \in Reqs \ {r} : pc'[q] = pc[q] /\ code'[q] = code[q]
      BY <2>1, <2>2 DEF Advance, Finish, TypeInv, TypeOK
    <2> QED
      BY <2>2, <2>3, <2>4, CacheMove
  <1> QED
    BY <1>1, <1>2

LEMMA CacheStep == TypeInv /\ TraceInv /\ CacheInv /\ [Next]_vars => CacheInv'
  <1> SUFFICES ASSUME TypeInv, TraceInv, CacheInv, [Next]_vars PROVE CacheInv'
    OBVIOUS
  <1>1. ASSUME NEW r \in Reqs, Handle(r) \/ Fail(r) PROVE CacheInv'
    BY <1>1, CacheHandle
  <1>2. ASSUME NEW r \in Reqs, NEW c \in Calls, Receive(r, c) PROVE CacheInv'
    BY <1>2, CacheReceive
  <1>3. CASE UNCHANGED <<cache, call, before, pc, code>>
    BY <1>3, CacheUnmoved
  <1> QED
    BY <1>1, <1>2, <1>3 DEF Next, Reserve, Release, vars, tables

LEMMA CacheInit == Init => CacheInv
  BY ConstantsAssumption DEF Init, CacheInv, Started, Answers

LEMMA CacheInvariant == Spec => [](LogInv /\ CacheInv)
  <1>1. Init => LogInv /\ CacheInv
    BY TypeInit, TraceInit, OnceInit, CacheInit DEF LogInv
  <1>2. LogInv /\ CacheInv /\ [Next]_vars => LogInv' /\ CacheInv'
    BY TypeStep, TraceStep, OnceStep, CacheStep DEF LogInv
  <1> QED
    BY <1>1, <1>2, PTL DEF Spec

(* A request sent again after its answer 200 is answered from the cache.   *)
THEOREM RetryReplayed == Spec => []RetryAfterAckIsReplayed
  <1>1. LogInv /\ CacheInv => RetryAfterAckIsReplayed
    <2> SUFFICES ASSUME LogInv, CacheInv, NEW r \in Reqs, NEW q \in before[r],
                        code[q] = "200", SameOperation(q, r)
                 PROVE  code[r] \in {None, "replay"}
      BY DEF RetryAfterAckIsReplayed
    <2>1. \/ pc[r] \in {"loaded", "failed"}
          \/ pc[r] = "done" /\ code[r] = "replay"
      BY DEF CacheInv
    <2> QED
      BY <2>1 DEF LogInv, TraceInv, TraceAt
  <1> QED
    BY <1>1, CacheInvariant, PTL

---------------------------------------------------------------------------
(* Removals.  A DELETE that matches no row was overtaken by another one    *)
(* since its SELECT: the two were in flight together.                      *)
LEMMA OvertakenKept ==
  ASSUME TypeInv, TraceInv, NEW r \in Reqs, Started(r), Overtaken(r),
         \A q \in Reqs : pc[q] # "idle" =>
           call'[q] = call[q] /\ before'[q] = before[q] /\ (wrote[q] => wrote'[q])
  PROVE  Overtaken(r)'
  <1>1. PICK q \in Reqs : /\ wrote[q] /\ call[q].op = "delete" /\ Item(q) = Item(r)
                          /\ q \notin before[r] /\ r \notin before[q]
    BY DEF Overtaken
  <1>2. pc[q] # "idle" /\ pc[r] # "idle"
    BY <1>1 DEF TraceInv, TraceAt, Silent, Started
  <1>3. /\ wrote'[q] /\ call'[q] = call[q] /\ call'[r] = call[r]
        /\ before'[q] = before[q] /\ before'[r] = before[r]
    BY <1>1, <1>2
  <1> QED
    BY <1>1, <1>3 DEF Overtaken, Item

(* Whoever is about to delete the row overtakes the others that are.       *)
LEMMA RemovalOvertakes ==
  ASSUME TypeInv, CacheInv, NEW q \in Reqs, NEW r \in Reqs,
         pc[q] = "removing", pc[r] = "removing"
  PROVE  q \notin before[r] /\ r \notin before[q]
  BY DEF CacheInv

(* A step of r that leaves every row in place.                             *)
Finds(q) == /\ Started(q) /\ call[q].op = "delete" /\ ~wrote[q]
            /\ (pc[q] = "removing" /\ rows[Item(q)] = None) \/ pc[q] = "published" \/ code[q] = "200"

LEMMA RemovalMove ==
  ASSUME TypeInv, TraceInv, RemovalInv, NEW r \in Reqs, pc[r] # "idle",
         UNCHANGED <<call, before>>,
         wrote[r] => wrote'[r],
         \A q \in Reqs \ {r} : pc'[q] = pc[q] /\ code'[q] = code[q] /\ wrote'[q] = wrote[q],
         \A i \in Items : rows'[i] = None => rows[i] = None,
         Finds(r)' => Finds(r)
  PROVE  RemovalInv'
  <1> SUFFICES ASSUME NEW q \in Reqs, Finds(q)' PROVE Overtaken(q)'
    BY DEF RemovalInv, Finds
  <1>1. Finds(q)
    <2>1. CASE q = r
      BY <2>1
    <2>2. CASE q # r
      <3>1. pc'[q] = pc[q] /\ code'[q] = code[q] /\ wrote'[q] = wrote[q] /\ call'[q] = call[q]
        BY <2>2
      <3>2. Started(q)
        BY <3>1 DEF Finds, Started
      <3>3. Item(q)' = Item(q) /\ Item(q) \in Items
        BY <3>1, <3>2, StartedFields DEF Item, Started, TypeInv
      <3> QED
        BY <3>1, <3>2, <3>3 DEF Finds
    <2> QED
      BY <2>1, <2>2
  <1>2. Overtaken(q) /\ Started(q)
    BY <1>1 DEF RemovalInv, Finds
  <1>3. \A p \in Reqs : wrote[p] => wrote'[p]
    OBVIOUS
  <1> QED
    BY <1>2, <1>3, OvertakenKept

LEMMA RemovalDelete ==
  ASSUME TypeInv, TraceInv, CacheInv, RemovalInv, NEW r \in Reqs, delete(r)
  PROVE  RemovalInv'
  <1>1. /\ pc[r] = "removing" /\ UNCHANGED <<call, before>> /\ call[r].op = "delete"
        /\ Item(r) \in Items /\ code[r] = None /\ ~wrote[r]
        /\ \A q \in Reqs \ {r} : pc'[q] = pc[q] /\ code'[q] = code[q]
    BY StartedFields DEF delete, Advance, Finish, TypeInv, TypeOK, StageInv, TraceInv, TraceAt
  <1>2. CASE Item(r) \in reserved
    <2>1. UNCHANGED <<rows, wrote>> /\ pc'[r] = "done" /\ code'[r] = "500"
      BY <1>2 DEF delete, Finish, TypeInv, TypeOK
    <2>2. ~Finds(r)'
      BY <2>1 DEF Finds
    <2> QED
      BY <1>1, <2>1, <2>2, RemovalMove
  <1>3. CASE Item(r) \notin reserved /\ rows[Item(r)] = None
    <2>1. UNCHANGED <<rows, wrote>>
      BY <1>3 DEF delete
    <2>2. Finds(r)
      BY <1>1, <1>3 DEF Finds, Started
    <2> QED
      BY <1>1, <2>1, <2>2, RemovalMove
  <1>4. CASE Item(r) \notin reserved /\ rows[Item(r)] # None
    <2>1. /\ rows' = [rows EXCEPT ![Item(r)] = None]
          /\ wrote'[r] /\ \A q \in Reqs \ {r} : wrote'[q] = wrote[q]
      BY <1>4 DEF delete, SetRow, TypeInv, TypeOK
    <2> SUFFICES ASSUME NEW q \in Reqs, Finds(q)' PROVE Overtaken(q)'
      BY DEF RemovalInv, Finds
    <2>2. q # r /\ pc'[q] = pc[q] /\ code'[q] = code[q] /\ wrote'[q] = wrote[q] /\ Item(q)' = Item(q)
      BY <1>1, <2>1 DEF Finds, Item
    <2>3. Started(q) /\ Item(q) \in Items
      BY <2>2, StartedFields DEF Finds, Started, TypeInv
    <2>4. CASE Finds(q)
      BY <1>1, <2>1, <2>3, <2>4, OvertakenKept DEF RemovalInv, Finds
    <2>5. CASE ~Finds(q)
      <3>1. pc[q] = "removing" /\ rows[Item(q)] # None /\ rows'[Item(q)] = None
        BY <1>1, <2>2, <2>3, <2>5 DEF Finds
      <3>2. Item(q) = Item(r)
        BY <2>1, <2>3, <3>1 DEF TypeInv, TypeOK
      <3> QED
        BY <1>1, <2>1, <2>2, <3>1, <3>2, RemovalOvertakes DEF Overtaken, Item
    <2> QED
      BY <2>4, <2>5
  <1> QED
    BY <1>2, <1>3, <1>4

(* A request that writes a row, and one that only moves on.                *)
LEMMA RemovalWrites ==
  ASSUME TypeInv, TraceInv, RemovalInv, NEW r \in Reqs,
         create_item(r) \/ update(r) \/ restore(r)
  PROVE  RemovalInv'
  <1>1. /\ pc[r] \in {"loaded", "checked", "restoring"} /\ UNCHANGED <<call, before>>
        /\ call[r].op # "delete"
        /\ \A q \in Reqs \ {r} : pc'[q] = pc[q] /\ code'[q] = code[q]
    BY DEF create_item, update, restore, Calling, Advance, Finish, TypeInv, TypeOK, StageInv
  <1>2. /\ wrote[r] => wrote'[r]
        /\ \A q \in Reqs \ {r} : wrote'[q] = wrote[q]
    BY DEF create_item, update, restore, SetRow, TypeInv, TypeOK
  <1>3. \A i \in Items : rows'[i] = None => rows[i] = None
    <2>1. CASE create_item(r)
      <3>1. NewRow(call[r].arg) # None
        BY <2>1, StartedFields, NewRowType DEF create_item, Calling, TypeInv
      <3> QED
        BY <2>1, <3>1 DEF create_item, SetRow, TypeInv, TypeOK
    <2>2. CASE update(r)
      <3>1. /\ pc[r] = "checked" /\ snap[r] \in Row /\ rows[Item(r)] \in Row
            /\ call[r].op = "undo" => source[r].prev \in Row
        BY <2>2, StartedFields DEF update, TypeInv, TypeOK, StageInv, State
      <3>2. call[r].op \in {"update", "status", "undo"}
        BY <3>1 DEF TypeInv, StageInv
      <3>3. Merge(rows[Item(r)], snap[r], Edited(r)) \in Row
        BY <3>1, <3>2, EditedType, MergeType DEF TypeInv
      <3>4. Merge(rows[Item(r)], snap[r], Edited(r)) # None
        BY <3>3, NoneIsNoRow
      <3> QED
        BY <2>2, <3>4 DEF update, SetRow, TypeInv, TypeOK
    <2>3. CASE restore(r)
      <3>1. source[r].prev \in Row /\ source[r].new \in State
        BY <2>3 DEF restore, TypeInv, TypeOK, StageInv, State
      <3>2. Restored(source[r]) # None
        BY <3>1, RestoredType, NoneIsNoRow
      <3> QED
        BY <2>3, <3>2 DEF restore, SetRow, TypeInv, TypeOK
    <2> QED
      BY <2>1, <2>2, <2>3
  <1>4. ~Finds(r)'
    BY <1>1 DEF Finds
  <1> QED
    BY <1>1, <1>2, <1>3, <1>4, RemovalMove

LEMMA RemovalMoves ==
  ASSUME TypeInv, TraceInv, RemovalInv, NEW r \in Reqs,
         \/ Replay(r) \/ check_version(r) \/ not_found(r) \/ refresh(r) \/ log_event(r)
         \/ publish(r) \/ row_vanished(r) \/ delete_item(r) \/ log_removed(r)
         \/ find_again(r) \/ already_deleted(r) \/ nothing_to_undo(r) \/ undo_nothing(r)
         \/ undo_change(r) \/ undo_removal(r) \/ respond(r) \/ Fail(r)
  PROVE  RemovalInv'
  <1>1. /\ pc[r] # "idle" /\ UNCHANGED <<call, before, rows, wrote>>
        /\ \A q \in Reqs \ {r} : pc'[q] = pc[q] /\ code'[q] = code[q]
    BY DEF Replay, check_version, not_found, refresh, log_event, publish, row_vanished, delete_item,
           log_removed, find_again, already_deleted, nothing_to_undo, undo_nothing, undo_change,
           undo_removal, respond, Fail, InFlight, Gone, Calling, Advance, Finish, tables, TypeInv, TypeOK
  <1>2. Finds(r)' => Finds(r)
    <2>0. pc[r] \notin {"done"} => code[r] = None
      BY DEF TraceInv, TraceAt
    <2>1. CASE find_again(r)
      BY <1>1, <2>0, <2>1, ConstantsAssumption
         DEF find_again, Finds, Advance, Item, Started, TypeInv, TypeOK, Answers
    <2>2. CASE publish(r)
      BY <1>1, <2>0, <2>2, ConstantsAssumption
         DEF publish, Finds, Advance, StageInv, Started, TypeInv, TypeOK, Answers
    <2>3. CASE respond(r)
      BY <1>1, <2>3 DEF respond, Finds, Finish, Started, TypeInv, TypeOK
    <2>4. CASE undo_nothing(r)
      BY <1>1, <2>4, <2>0, ConstantsAssumption DEF undo_nothing, Calling, Finds, Advance, TypeInv, TypeOK, Answers
    <2>5. CASE Fail(r)
      BY <1>1, <2>5, <2>0, ConstantsAssumption DEF Fail, InFlight, Finds, Advance, TypeInv, TypeOK, Answers
    <2>6. CASE check_version(r) \/ delete_item(r)
      BY <1>1, <2>6, <2>0, ConstantsAssumption
         DEF check_version, delete_item, Calling, Finds, Advance, Finish, TypeInv, TypeOK, Answers
    <2>7. CASE undo_change(r) \/ undo_removal(r) \/ refresh(r) \/ log_event(r) \/ log_removed(r)
      BY <1>1, <2>7, <2>0, ConstantsAssumption
         DEF undo_change, undo_removal, refresh, log_event, log_removed, Calling, Finds, Advance, TypeInv, TypeOK, Answers
    <2>8. CASE \/ Replay(r) \/ not_found(r) \/ row_vanished(r)
               \/ already_deleted(r) \/ nothing_to_undo(r)
      BY <1>1, <2>8
         DEF Replay, not_found, row_vanished, already_deleted, nothing_to_undo, Gone, Calling, Finds,
             Finish, TypeInv, TypeOK
    <2> QED
      BY <2>1, <2>2, <2>3, <2>4, <2>5, <2>6, <2>7, <2>8
  <1> QED
    BY <1>1, <1>2, RemovalMove

LEMMA RemovalReceive ==
  ASSUME TypeInv, TraceInv, RemovalInv, NEW r \in Reqs, NEW c \in Calls, Receive(r, c)
  PROVE  RemovalInv'
  <1>1. /\ pc[r] = "idle" /\ pc'[r] = "loaded" /\ UNCHANGED <<rows, wrote, code>>
        /\ \A q \in Reqs \ {r} : pc'[q] = pc[q] /\ call'[q] = call[q] /\ before'[q] = before[q]
    BY DEF Receive, Advance, tables, TypeInv, TypeOK
  <1> SUFFICES ASSUME NEW q \in Reqs, Finds(q)' PROVE Overtaken(q)'
    BY DEF RemovalInv, Finds
  <1>2. q # r
    <2>1. code[r] = None
      BY <1>1 DEF TraceInv, TraceAt
    <2> QED
      BY <1>1, <2>1, ConstantsAssumption DEF Finds, Answers
  <1>3. Finds(q)
    BY <1>1, <1>2 DEF Finds, Started, Item
  <1> QED
    BY <1>1, <1>3, OvertakenKept DEF RemovalInv, Finds

LEMMA RemovalUnmoved ==
  ASSUME RemovalInv, UNCHANGED <<rows, wrote, call, before, pc, code>>
  PROVE  RemovalInv'
  BY DEF RemovalInv, Overtaken, Started, Item

LEMMA RemovalStep == TypeInv /\ TraceInv /\ CacheInv /\ RemovalInv /\ [Next]_vars => RemovalInv'
  <1> SUFFICES ASSUME TypeInv, TraceInv, CacheInv, RemovalInv, [Next]_vars PROVE RemovalInv'
    OBVIOUS
  <1>1. ASSUME NEW r \in Reqs, Handle(r) \/ Fail(r) PROVE RemovalInv'
    BY <1>1, RemovalDelete, RemovalWrites, RemovalMoves DEF Handle
  <1>2. ASSUME NEW r \in Reqs, NEW c \in Calls, Receive(r, c) PROVE RemovalInv'
    BY <1>2, RemovalReceive
  <1>3. CASE UNCHANGED <<rows, wrote, call, before, pc, code>>
    BY <1>3, RemovalUnmoved
  <1> QED
    BY <1>1, <1>2, <1>3 DEF Next, Reserve, Release, vars, tables

LEMMA RemovalInit == Init => RemovalInv
  BY DEF Init, RemovalInv, Started

LEMMA RemovalInvariant == Spec => [](LogInv /\ CacheInv /\ RemovalInv)
  <1>1. Init => LogInv /\ CacheInv /\ RemovalInv
    BY TypeInit, TraceInit, OnceInit, CacheInit, RemovalInit DEF LogInv
  <1>2. LogInv /\ CacheInv /\ RemovalInv /\ [Next]_vars => LogInv' /\ CacheInv' /\ RemovalInv'
    BY TypeStep, TraceStep, OnceStep, CacheStep, RemovalStep DEF LogInv
  <1> QED
    BY <1>1, <1>2, PTL DEF Spec

(* An acknowledged change is in the activity log and on the bus exactly    *)
(* once, whatever the other requests do and wherever they die; the one     *)
(* acknowledged request whose entry tells of a change it did not make is a *)
(* removal that another removal overtook between its SELECT and its DELETE.*)
THEOREM AckedLogged == Spec => []AckedIsLogged
  <1>1. LogInv /\ CacheInv /\ RemovalInv => AckedIsLogged
    <2> SUFFICES ASSUME LogInv, CacheInv, RemovalInv PROVE AckedIsLogged
      OBVIOUS
    <2>1. ASSUME NEW r \in Reqs, code[r] = "200"
          PROVE  \/ wrote[r] /\ Logged(r) /\ Published(r)
                 \/ ~wrote[r] /\ call[r].op = "undo" /\ ~Logged(r) /\ ~Published(r)
                 \/ ~wrote[r] /\ call[r].op = "delete" /\ Logged(r) /\ Published(r) /\ Overtaken(r)
      <3>1. \/ Told(r)
            \/ call[r].op = "undo" /\ Silent(r)
            \/ call[r].op = "delete" /\ ~wrote[r] /\ Logged(r) /\ Published(r)
        BY <2>1 DEF LogInv, TraceInv, TraceAt
      <3>2. Started(r)
        BY <2>1, ConstantsAssumption DEF LogInv, TraceInv, TraceAt, Started, Answers
      <3> QED
        BY <2>1, <3>1, <3>2 DEF RemovalInv, Told, Silent
    <2> QED
      BY <2>1 DEF LogInv, OnceInv, AckedIsLogged
  <1> QED
    BY <1>1, RemovalInvariant, PTL

(* The whole invariant, of which each of these is a part.                  *)
THEOREM Invariant == Spec => []Inv
  <1>1. (LogInv /\ CacheInv /\ RemovalInv) /\ (TypeInv /\ PastInv) => Inv
    BY DEF LogInv, TypeInv, Inv
  <1> QED
    BY <1>1, RemovalInvariant, PastInvariant, PTL

---------------------------------------------------------------------------
(* Requests carried out one by one: the handlers implement AtomicInventory *)
(* and the versions of an item grow.                                       *)
Serial == MaxInFlight = 1 /\ MaxFail = 0 /\ Reservable = {}

OneAtATime == /\ \A q, r \in InFlight : q = r
              /\ \A r \in Reqs : pc[r] # "failed"
              /\ reserved = {}

OwnOf(r) == {k \in DOMAIN events : events[k].user = call[r].user /\ events[k].id = Item(r)}

(* The newest change of the member, which an undo reverts: a removal if    *)
(* the item is gone.                                                       *)
Chosen(r) ==
  \E k \in OwnOf(r) :
    /\ \A j \in OwnOf(r) : j <= k
    /\ source[r].prev = events[k].prev /\ source[r].new = events[k].new
    /\ events[k].prev # None
    /\ events[k].action = "removed" <=> snap[r] = None

(* What a request makes of the item.                                       *)
Target(r) == IF call[r].op = "create" THEN NewRow(call[r].arg)
             ELSE IF snap[r] = None THEN Restored(source[r]) ELSE Edited(r)

(* What holds of the request in flight: nothing moved since it was received. *)
SerialAt(r) ==
  /\ pc[r] \in {"loaded", "checked", "restoring", "announcing", "announced", "deleting", "removing"} =>
       snap[r] = rows[Item(r)]
  /\ pc[r] \in {"announcing", "announced", "deleting", "removing"} => snap[r] # None
  /\ pc[r] = "restoring" => snap[r] = None
  /\ pc[r] \in {"announced", "deleting", "removing"} =>
       Len(events) > 0 /\ events[Len(events)] = NewEvent(r, snap[r], None)
  /\ pc[r] \in {"loaded", "written", "refreshed"} /\ call[r].op = "create" =>
       snap[r] = None /\ \A k \in DOMAIN events : events[k].id # Item(r)
  /\ pc[r] = "loaded" /\ call[r].op = "create" => past[Item(r)] = {}
  /\ pc[r] \in {"checked", "restoring", "written", "refreshed"} /\ call[r].op = "undo" => Chosen(r)
  /\ pc[r] \in {"written", "refreshed"} =>
       rows[Item(r)] = Target(r) /\ (call[r].op \in {"update", "status"} => snap[r] # None)
  /\ pc[r] = "refreshed" => post[r] = rows[Item(r)]

(* No state the item ever had is newer.                                    *)
Topmost(i, s) == \A t \in past[i] : t.version <= s.version

LogTells ==
  \A k \in DOMAIN events :
    /\ events[k].prev # None \/ events[k].new # None
    /\ events[k].action = "removed" => events[k].prev # None /\ events[k].new = None

VersionsTop ==
  /\ \A i \in Items : rows[i] # None => Topmost(i, rows[i])
  /\ \A k \in DOMAIN events :
       /\ events[k].action = "removed" /\ rows[events[k].id] = None
       /\ \A j \in DOMAIN events : j > k => events[j].id # events[k].id
       => Topmost(events[k].id, events[k].prev)

(* A removal that is the newest change of its member is the newest change  *)
(* of all, and the item is gone: nobody else can bring it back.            *)
LaterOf(k) == {j \in DOMAIN LogSeen : j > k /\ LogSeen[j].id = LogSeen[k].id}
Standing(k) == /\ LogSeen[k].action = "removed"
               /\ \A j \in LaterOf(k) : LogSeen[j].user # LogSeen[k].user

RemovedIsLast ==
  \A k \in DOMAIN LogSeen :
    Standing(k) => RowsSeen[LogSeen[k].id] = None /\ LaterOf(k) = {}

SerialInv ==
  /\ TypeInv /\ PastInv /\ OneAtATime
  /\ \A r \in Reqs : SerialAt(r)
  /\ LogTells /\ VersionsTop /\ RemovedIsLast

(* The items and the log as AtomicInventory sees them.                     *)
Entry(e) == [id |-> e.id, user |-> e.user, action |-> e.action, prev |-> e.prev, new |-> e.new]
Entries(es, n) == [k \in 1..n |-> Entry(es[k])]

HalfWritten(r) == pc[r] \in {"written", "refreshed"}
HalfRemoved(r) == pc[r] \in {"announced", "deleting", "removing"}

ViewOf(r) ==
  /\ RowsSeen = IF HalfWritten(r) THEN [rows EXCEPT ![Item(r)] = snap[r]] ELSE rows
  /\ LogSeen = IF HalfRemoved(r) THEN Entries(events, Len(events) - 1) ELSE Entries(events, Len(events))

Viewed == /\ \A r \in InFlight : ViewOf(r)
          /\ InFlight = {} => RowsSeen = rows /\ LogSeen = Entries(events, Len(events))

LEMMA Views == TypeInv /\ OneAtATime /\ (\A r \in Reqs : SerialAt(r)) => Viewed
  <1> SUFFICES ASSUME TypeInv, OneAtATime, \A r \in Reqs : SerialAt(r) PROVE Viewed
    OBVIOUS
  <1>0. /\ DOMAIN rows = Items /\ events \in Seq(Event) /\ DOMAIN events = 1..Len(events) /\ Len(events) \in Nat
        /\ rows = [i \in Items |-> rows[i]]
        /\ \A q \in Reqs : HalfWritten(q) \/ HalfRemoved(q) => q \in InFlight
        /\ \A k \in 1..Len(events) : events[k].req \in Reqs
    <2>1. events \in Seq(Event) /\ rows \in [Items -> State]
      BY DEF TypeInv, TypeOK
    <2>2. \A k \in 1..Len(events) : events[k] \in Event
      BY <2>1
    <2> QED
      BY <2>1, <2>2 DEF InFlight, HalfWritten, HalfRemoved, Event
  <1>1. ASSUME \A q \in Reqs : ~HalfWritten(q) PROVE RowsSeen = rows
    BY <1>0, <1>1, SMTT(30) DEF RowsSeen, Halfway, HalfWritten
  <1>2. ASSUME \A q \in Reqs : ~HalfRemoved(q) PROVE LogSeen = Entries(events, Len(events))
    <2>1. \A k \in DOMAIN events : pc[events[k].req] \notin {"announced", "deleting", "removing"}
      BY <1>0, <1>2 DEF HalfRemoved
    <2> QED
      BY <1>0, <2>1 DEF LogSeen, Entries, Entry
  <1>3. ASSUME NEW r \in InFlight PROVE ViewOf(r)
    <2>1. r \in Reqs /\ \A q \in Reqs : HalfWritten(q) \/ HalfRemoved(q) => q = r
      BY <1>0, <1>3 DEF OneAtATime, InFlight
    <2>2. CASE HalfWritten(r)
      <3>1. /\ \A i \in Items : Halfway(i) = IF i = Item(r) THEN {r} ELSE {}
            /\ Item(r) \in Items
        BY <2>1, <2>2, StartedFields DEF Halfway, HalfWritten, TypeInv
      <3>2. RowsSeen = [rows EXCEPT ![Item(r)] = snap[r]]
        <4>1. (CHOOSE q \in {r} : TRUE) = r
          OBVIOUS
        <4>2. \A i \in Items : RowsSeen[i] = IF i = Item(r) THEN snap[r] ELSE rows[i]
          BY <3>1, <4>1 DEF RowsSeen
        <4> QED
          BY <1>0, <3>1, <4>2, SMTT(30) DEF RowsSeen
      <3>3. ~HalfRemoved(r)
        BY <2>2 DEF HalfWritten, HalfRemoved
      <3>4. LogSeen = Entries(events, Len(events))
        BY <1>2, <2>1, <3>3
      <3> QED
        BY <2>2, <3>2, <3>3, <3>4 DEF ViewOf
    <2>3. CASE HalfRemoved(r)
      <3>1. ~HalfWritten(r)
        BY <2>3 DEF HalfWritten, HalfRemoved
      <3>2. \E k \in DOMAIN events : pc[events[k].req] \in {"announced", "deleting", "removing"}
        <4>1. Len(events) > 0 /\ events[Len(events)] = NewEvent(r, snap[r], None)
          BY <2>1, <2>3 DEF HalfRemoved, SerialAt
        <4>2. Len(events) \in DOMAIN events /\ events[Len(events)].req = r
          BY <1>0, <4>1 DEF NewEvent
        <4> QED
          BY <2>3, <4>2 DEF HalfRemoved
      <3>3. LogSeen = Entries(events, Len(events) - 1)
        BY <3>2 DEF LogSeen, Entries, Entry
      <3> QED
        BY <1>1, <2>1, <2>3, <3>1, <3>3 DEF ViewOf
    <2>4. CASE ~HalfWritten(r) /\ ~HalfRemoved(r)
      BY <1>1, <1>2, <2>1, <2>4 DEF ViewOf
    <2> QED
      BY <2>2, <2>3, <2>4
  <1>4. ASSUME InFlight = {} PROVE RowsSeen = rows /\ LogSeen = Entries(events, Len(events))
    BY <1>0, <1>1, <1>2, <1>4
  <1> QED
    BY <1>3, <1>4 DEF Viewed

(* A step of one request at a time.                                        *)
LEMMA SerialMoves ==
  ASSUME Serial, SerialInv, [Next]_vars
  PROVE  UNCHANGED vars \/ \E r \in Reqs : Handle(r) \/ (InFlight = {} /\ \E c \in Calls : Receive(r, c))
  <1>1. ASSUME NEW r \in Reqs, Fail(r) PROVE FALSE
    <2>1. {q \in Reqs : pc[q] = "failed"} = {}
      BY DEF SerialInv, OneAtATime
    <2> QED
      BY <1>1, <2>1, FS_EmptySet DEF Fail, Serial
  <1>2. ASSUME NEW i \in Items, Reserve(i) \/ Release(i) PROVE FALSE
    BY <1>2 DEF Reserve, Release, Serial, SerialInv, OneAtATime
  <1>3. ASSUME NEW r \in Reqs, NEW c \in Calls, Receive(r, c) PROVE InFlight = {}
    <2> SUFFICES ASSUME InFlight # {} PROVE FALSE
      OBVIOUS
    <2>1. PICK q \in InFlight : TRUE
      OBVIOUS
    <2>2. InFlight = {q}
      BY <2>1 DEF SerialInv, OneAtATime
    <2> QED
      BY <1>3, <2>2, FS_Singleton DEF Receive, Serial
  <1> QED
    BY <1>1, <1>2, <1>3 DEF Next

LEMMA HandleMoves ==
  ASSUME TypeOK, NEW r \in Reqs, Handle(r)
  PROVE  /\ r \in InFlight /\ call' = call /\ reserved' = reserved /\ before' = before
         /\ pc'[r] \notin {"idle", "failed"}
         /\ \A q \in Reqs \ {r} : pc'[q] = pc[q]
  BY DEF Handle, InFlight, TypeOK, tables, Advance, Finish, Calling, Gone, Replay, create_item, check_version,
     not_found, update, refresh, log_event, publish, row_vanished, delete_item, log_removed, find_again, delete,
     already_deleted, nothing_to_undo, undo_nothing, undo_change, undo_removal, restore, respond

LEMMA OneAtATimeStep ==
  Serial /\ SerialInv /\ [Next]_vars => OneAtATime'
  <1> SUFFICES ASSUME Serial, SerialInv, [Next]_vars PROVE OneAtATime'
    OBVIOUS
  <1>1. ASSUME NEW r \in Reqs, Handle(r) PROVE OneAtATime'
    BY <1>1, HandleMoves DEF SerialInv, TypeInv, OneAtATime, InFlight
  <1>2. ASSUME NEW r \in Reqs, NEW c \in Calls, Receive(r, c), InFlight = {} PROVE OneAtATime'
    BY <1>2 DEF SerialInv, TypeInv, TypeOK, OneAtATime, InFlight, Receive, Advance, tables
  <1>3. CASE UNCHANGED vars
    BY <1>3 DEF SerialInv, OneAtATime, InFlight, vars, tables
  <1> QED
    BY <1>1, <1>2, <1>3, SerialMoves

---------------------------------------------------------------------------
(* What the request in flight knows stays true.                            *)
LEMMA LoadedIsRow ==
  ASSUME SerialInv, NEW r \in Reqs, pc[r] = "loaded"
  PROVE  get_by_id(r) = rows[Item(r)] /\ snap[r] = rows[Item(r)]
  BY DEF SerialInv, SerialAt, get_by_id

LEMMA OwnEventsAre ==
  ASSUME SerialInv, NEW r \in Reqs, pc[r] # "idle"
  PROVE  OwnEvents(call[r]) = OwnOf(r)
  <1>1. \A k \in DOMAIN events : Concerns(events[k], Item(r)) <=> events[k].id = Item(r)
    <2>1. Item(r) # None
      BY StartedFields, ConstantsAssumption DEF SerialInv, TypeInv
    <2> QED
      BY <2>1 DEF Concerns, SerialInv, LogTells, PastInv, RealEvent
  <1> QED
    BY <1>1 DEF OwnEvents, OwnOf, Item

LEMMA NewestIs ==
  ASSUME SerialInv, NEW r \in Reqs, pc[r] # "idle", NEW e \in Newest(call[r])
  PROVE  \E k \in OwnOf(r) : e = events[k] /\ \A j \in OwnOf(r) : j <= k
  BY OwnEventsAre DEF Newest

LEMMA MergeEqual ==
  ASSUME NEW s \in Row, NEW n \in Row
  PROVE  Merge(s, s, n) = n
  BY DEF Merge, Row

(* The newest change of the member is a removal only if the item is gone.  *)
LEMMA RemovalFound ==
  ASSUME SerialInv, NEW r \in Reqs, pc[r] \in {"loaded", "restoring"}, NEW k \in OwnOf(r),
         \A j \in OwnOf(r) : j <= k, events[k].action = "removed"
  PROVE  rows[Item(r)] = None /\ \A j \in DOMAIN events : j > k => events[j].id # Item(r)
  <1>1. Viewed /\ r \in InFlight
    BY Views DEF SerialInv, InFlight
  <1>2. RowsSeen = rows /\ LogSeen = Entries(events, Len(events))
    BY <1>1 DEF Viewed, ViewOf, HalfWritten, HalfRemoved
  <1>3. events \in Seq(Event) /\ DOMAIN events = 1..Len(events) /\ k \in 1..Len(events)
    BY DEF SerialInv, TypeInv, TypeOK, OwnOf
  <1>4. DOMAIN LogSeen = DOMAIN events /\ \A j \in DOMAIN events : LogSeen[j] = Entry(events[j])
    BY <1>2, <1>3 DEF Entries
  <1>5. \A j \in DOMAIN events : LogSeen[j].id = events[j].id /\ LogSeen[j].user = events[j].user
                                 /\ LogSeen[j].action = events[j].action
    BY <1>4 DEF Entry
  <1>6. events[k].id = Item(r) /\ events[k].user = call[r].user
    BY DEF OwnOf
  <1>7. \A j \in DOMAIN events : j > k /\ events[j].id = Item(r) => events[j].user # call[r].user
    BY <1>3 DEF OwnOf
  <1>8. RowsSeen[LogSeen[k].id] = None /\ LaterOf(k) = {}
    <2>1. Standing(k)
      BY <1>3, <1>4, <1>5, <1>6, <1>7 DEF Standing, LaterOf
    <2>2. RemovedIsLast /\ k \in DOMAIN LogSeen
      BY <1>3, <1>4 DEF SerialInv
    <2> QED
      BY <2>1, <2>2 DEF RemovedIsLast
  <1> QED
    BY <1>2, <1>3, <1>4, <1>5, <1>6, <1>8 DEF LaterOf

(* Where a request goes on from, and what it keeps.                        *)
LEMMA EndsAt ==
  ASSUME NEW r, pc'[r] \in {"done", "published", "logged", "idle", "failed"}
  PROVE  SerialAt(r)'
  BY DEF SerialAt

LEMMA ChosenStays ==
  ASSUME NEW r, Chosen(r), UNCHANGED <<events, call>>, snap'[r] = snap[r], source'[r] = source[r]
  PROVE  Chosen(r)'
  BY DEF Chosen, OwnOf, Item

LEMMA SerialLoads ==
  ASSUME SerialInv, NEW r \in Reqs, check_version(r) \/ delete_item(r)
  PROVE  SerialAt(r)'
  <1>1. pc[r] = "loaded" /\ call[r].op \in {"update", "status", "delete"} /\ get_by_id(r) # None
        /\ snap'[r] = get_by_id(r) /\ UNCHANGED <<tables, call, past>>
        /\ pc'[r] \in {"checked", "done", "announcing"}
    BY DEF check_version, delete_item, Calling, Load, Advance, Finish, SerialInv, TypeInv, TypeOK
  <1> QED
    BY <1>1, LoadedIsRow DEF SerialAt, tables, Item

LEMMA SerialPicks ==
  ASSUME SerialInv, NEW r \in Reqs, undo_change(r) \/ undo_removal(r)
  PROVE  SerialAt(r)'
  <1>1. pc[r] = "loaded" /\ call[r].op = "undo" /\ UNCHANGED <<tables, call, past>>
    BY DEF undo_change, undo_removal, Calling
  <1>2. PICK e \in Newest(call[r]) :
           /\ e.prev # None /\ source'[r].prev = e.prev /\ source'[r].new = e.new
           /\ \/ e.action # "removed" /\ get_by_id(r) # None /\ snap'[r] = get_by_id(r) /\ pc'[r] = "checked"
              \/ e.action = "removed" /\ snap'[r] = snap[r] /\ pc'[r] = "restoring"
    BY DEF undo_change, undo_removal, Pick, Load, Advance, SerialInv, TypeInv, TypeOK
  <1>3. PICK k \in OwnOf(r) : e = events[k] /\ \A j \in OwnOf(r) : j <= k
    BY <1>1, NewestIs
  <1>4. e.action = "removed" => rows[Item(r)] = None
    BY <1>1, <1>3, RemovalFound
  <1>5. snap'[r] = rows[Item(r)] /\ (e.action = "removed" <=> snap'[r] = None)
    BY <1>1, <1>2, <1>4, LoadedIsRow
  <1>6. Chosen(r)'
    <2>1. OwnOf(r)' = OwnOf(r)
      BY <1>1 DEF OwnOf, Item, tables
    <2> QED
      BY <1>1, <1>2, <1>3, <1>5, <2>1 DEF Chosen, tables
  <1> QED
    BY <1>1, <1>2, <1>5, <1>6 DEF SerialAt, tables, Item

(* The state a request writes is the one it means the item to have.        *)
Writes(r) == /\ rows' = [rows EXCEPT ![Item(r)] = Target(r)]
             /\ past' = [past EXCEPT ![Item(r)] = @ \cup {Target(r)}]
             /\ snap[r] = rows[Item(r)] /\ Target(r) \in Row
             /\ UNCHANGED <<events, call, snap, source>>
             /\ pc'[r] = "written"

LEMMA SerialWrites ==
  ASSUME SerialInv, NEW r \in Reqs, create_item(r) \/ update(r) \/ restore(r)
  PROVE  SerialAt(r)' /\ Writes(r)
  <1>0. /\ TypeOK /\ SerialAt(r) /\ pc[r] \in {"loaded", "checked", "restoring"} /\ Item(r) \in Items
        /\ UNCHANGED <<events, call, snap, source>> /\ snap[r] \in State
        /\ source[r].prev \in State /\ source[r].new \in State
    <2>1. TypeOK /\ SerialAt(r) /\ pc[r] \in {"loaded", "checked", "restoring"}
          /\ UNCHANGED <<events, call, snap, source>>
      BY DEF SerialInv, TypeInv, create_item, update, restore, Calling
    <2> QED
      BY <2>1, StartedFields DEF TypeOK
  <1>1. Target(r) \in Row /\ SetRow(r, Target(r)) /\ pc'[r] = "written"
        /\ snap[r] = rows[Item(r)] /\ (call[r].op \in {"update", "status"} => snap[r] # None)
        /\ (call[r].op = "create" => snap[r] = None /\ \A k \in DOMAIN events : events[k].id # Item(r))
        /\ (call[r].op = "undo" => Chosen(r))
    <2>1. CASE create_item(r)
      <3>1. call[r].arg \in Contents
        BY <1>0, <2>1, StartedFields DEF create_item, Calling
      <3> QED
        BY <1>0, <2>1, <3>1, NewRowType DEF create_item, Calling, Target, SerialAt, Advance, TypeOK
    <2>2. CASE update(r)
      <3>1. pc[r] = "checked" /\ snap[r] = rows[Item(r)] /\ snap[r] # None
            /\ call[r].op \in {"update", "status", "undo"} /\ (call[r].op = "undo" => source[r].prev # None /\ Chosen(r))
        BY <1>0, <2>2 DEF update, SerialAt, SerialInv, TypeInv, StageInv
      <3>2. snap[r] \in Row /\ Edited(r) \in Row
        BY <1>0, <3>1, EditedType DEF State
      <3>3. Target(r) = Edited(r) /\ SetRow(r, Merge(snap[r], snap[r], Edited(r))) /\ pc'[r] = "written"
        BY <1>0, <2>2, <3>1 DEF update, Target, Advance, TypeOK
      <3> QED
        BY <3>1, <3>2, <3>3, MergeEqual
    <2>3. CASE restore(r)
      <3>1. pc[r] = "restoring" /\ snap[r] = rows[Item(r)] /\ snap[r] = None
            /\ call[r].op = "undo" /\ source[r].prev # None /\ Chosen(r)
        BY <1>0, <2>3 DEF restore, SerialAt, SerialInv, TypeInv, StageInv
      <3>2. Target(r) = Restored(source[r]) /\ SetRow(r, Restored(source[r])) /\ pc'[r] = "written"
        BY <1>0, <2>3, <3>1 DEF restore, Target, Advance, TypeOK
      <3>3. Restored(source[r]) \in Row
        BY <1>0, <3>1, RestoredType DEF State
      <3> QED
        BY <3>1, <3>2, <3>3
    <2> QED
      BY <2>1, <2>2, <2>3
  <1>2. Writes(r)
    BY <1>0, <1>1, NoneIsNoRow DEF Writes, SetRow
  <1>3. Target(r)' = Target(r) /\ Item(r)' = Item(r) /\ Chosen(r)' = Chosen(r)
    BY <1>0 DEF Target, Item, Edited, Chosen, OwnOf
  <1>4. rows'[Item(r)] = Target(r)
    BY <1>0, <1>2 DEF Writes, TypeOK
  <1> QED
    BY <1>0, <1>1, <1>2, <1>3, <1>4 DEF SerialAt

LEMMA SerialRefreshes ==
  ASSUME SerialInv, NEW r \in Reqs, refresh(r)
  PROVE  SerialAt(r)'
  <1>1. pc[r] = "written" /\ pc'[r] = "refreshed" /\ post'[r] = rows[Item(r)]
        /\ UNCHANGED <<rows, events, past, call, snap, source>> /\ SerialAt(r)
    BY DEF refresh, Advance, tables, SerialInv, TypeInv, TypeOK
  <1>2. Target(r)' = Target(r) /\ Item(r)' = Item(r) /\ Chosen(r)' = Chosen(r)
    BY <1>1 DEF Target, Item, Edited, Chosen, OwnOf
  <1> QED
    BY <1>1, <1>2 DEF SerialAt

LEMMA SerialAnnounces ==
  ASSUME SerialInv, NEW r \in Reqs, log_removed(r)
  PROVE  SerialAt(r)'
  <1>1. pc[r] = "announcing" /\ pc'[r] = "announced" /\ events' = Append(events, NewEvent(r, snap[r], None))
        /\ UNCHANGED <<rows, past, call, snap, source>> /\ SerialAt(r) /\ events \in Seq(Event)
    BY DEF log_removed, Advance, SerialInv, TypeInv, TypeOK
  <1>2. NewEvent(r, snap[r], None)' = NewEvent(r, snap[r], None) /\ Item(r)' = Item(r)
    BY <1>1 DEF NewEvent, Item
  <1>3. Len(events') > 0 /\ events'[Len(events')] = NewEvent(r, snap[r], None)
    <2> DEFINE e == NewEvent(r, snap[r], None)
    <2>1. events' = Append(events, e)
      BY <1>1
    <2> HIDE DEF e
    <2>2. Len(events) \in Nat /\ Len(events') = Len(events) + 1 /\ events'[Len(events) + 1] = e
      BY <1>1, <2>1
    <2>3. Len(events') > 0 /\ events'[Len(events')] = e
      BY <2>2
    <2> QED
      BY <2>3 DEF e
  <1> QED
    BY <1>1, <1>2, <1>3 DEF SerialAt

LEMMA SerialPublishes ==
  ASSUME SerialInv, NEW r \in Reqs, publish(r) \/ find_again(r)
  PROVE  SerialAt(r)'
  <1>1. <<pc[r], pc'[r]>> \in {<<"logged", "published">>, <<"announced", "deleting">>, <<"deleting", "removing">>}
        /\ UNCHANGED <<rows, events, past, call, snap, source>> /\ SerialAt(r)
    <2>1. CASE publish(r)
      BY <2>1 DEF publish, Advance, SerialInv, TypeInv, TypeOK
    <2>2. CASE find_again(r)
      BY <2>2 DEF find_again, tables, Advance, SerialInv, TypeInv, TypeOK
    <2> QED
      BY <2>1, <2>2
  <1>2. NewEvent(r, snap[r], None)' = NewEvent(r, snap[r], None) /\ Item(r)' = Item(r)
    BY <1>1 DEF NewEvent, Item
  <1> QED
    BY <1>1, <1>2 DEF SerialAt

LEMMA SerialReceives ==
  ASSUME SerialInv, NEW r \in Reqs, NEW c \in Calls, Receive(r, c)
  PROVE  SerialAt(r)'
  <1>1. pc'[r] = "loaded" /\ call'[r] = c /\ snap'[r] = rows[c.item] /\ UNCHANGED <<rows, events, past>>
        /\ (c.op = "create" => past[c.item] = {}) /\ c.item \in Items
    BY CallFields DEF Receive, Advance, Fresh, Known, tables, SerialInv, TypeInv, TypeOK
  <1>2. past[c.item] = {} => rows[c.item] = None /\ \A k \in DOMAIN events : events[k].id # c.item
    BY <1>1 DEF SerialInv, PastInv, RealRows, RealEvent, Real, LogTells
  <1> QED
    BY <1>1, <1>2 DEF SerialAt, Item

LEMMA SerialAtStep ==
  Serial /\ SerialInv /\ [Next]_vars => (\A r \in Reqs : SerialAt(r))'
  <1> SUFFICES ASSUME Serial, SerialInv, [Next]_vars, NEW q \in Reqs PROVE SerialAt(q)'
    OBVIOUS
  <1>1. ASSUME NEW r \in Reqs, Handle(r) PROVE SerialAt(q)'
    <2>1. CASE q = r
      <3>1. CASE \/ Replay(r) \/ not_found(r) \/ row_vanished(r) \/ already_deleted(r) \/ nothing_to_undo(r)
                 \/ undo_nothing(r) \/ log_event(r) \/ delete(r) \/ respond(r)
        <4>1. pc'[r] \in {"done", "published", "logged"}
          BY <3>1 DEF Replay, not_found, row_vanished, already_deleted, nothing_to_undo, undo_nothing, log_event,
             delete, respond, Gone, Finish, Advance, SerialInv, TypeInv, TypeOK
        <4> QED
          BY <2>1, <4>1, EndsAt
      <3> QED
        BY <1>1, <2>1, <3>1, SerialLoads, SerialPicks, SerialWrites, SerialRefreshes, SerialAnnounces,
           SerialPublishes DEF Handle
    <2>2. CASE q # r
      <3>1. r \in InFlight /\ pc'[q] = pc[q]
        BY <1>1, <2>2, HandleMoves DEF SerialInv, TypeInv
      <3>2. q \notin InFlight
        BY <2>2, <3>1 DEF SerialInv, OneAtATime
      <3> QED
        BY <3>1, <3>2, EndsAt DEF InFlight
    <2> QED
      BY <2>1, <2>2
  <1>2. ASSUME NEW r \in Reqs, NEW c \in Calls, Receive(r, c), InFlight = {} PROVE SerialAt(q)'
    <2>1. CASE q # r
      <3>1. pc'[q] = pc[q] /\ q \notin InFlight
        BY <1>2, <2>1 DEF Receive, Advance, SerialInv, TypeInv, TypeOK
      <3> QED
        BY <3>1, EndsAt DEF InFlight
    <2> QED
      BY <1>2, <2>1, SerialReceives
  <1>3. CASE UNCHANGED vars
    <2>1. SerialAt(q)
      BY DEF SerialInv
    <2> QED
      BY <1>3, <2>1 DEF SerialAt, Chosen, OwnOf, Target, Edited, NewEvent, Item, vars, tables
  <1> QED
    BY <1>1, <1>2, <1>3, SerialMoves

LEMMA ViewedStep == Serial /\ SerialInv /\ [Next]_vars => Viewed'
  <1>1. Serial /\ SerialInv /\ [Next]_vars => (TypeInv /\ OneAtATime /\ (\A r \in Reqs : SerialAt(r)))'
    BY TypeStep, OneAtATimeStep, SerialAtStep DEF SerialInv
  <1>2. (TypeInv /\ OneAtATime /\ (\A r \in Reqs : SerialAt(r)) => Viewed)'
    BY Views, PTL
  <1> QED
    BY <1>1, <1>2

(* Before a step of r and after it, its progress says what is to be seen.  *)
LEMMA HandleViews ==
  ASSUME Serial, SerialInv, NEW r \in Reqs, Handle(r)
  PROVE  ViewOf(r) /\ ViewOf(r)'
  <1>1. r \in InFlight /\ \A q \in Reqs \ {r} : pc'[q] = pc[q]
    BY HandleMoves DEF SerialInv, TypeInv
  <1>2. Viewed /\ Viewed'
    <2>1. [Next]_vars
      BY DEF Next
    <2> QED
      BY <2>1, Views, ViewedStep DEF SerialInv
  <1>3. CASE r \in InFlight'
    BY <1>1, <1>2, <1>3 DEF Viewed
  <1>4. CASE r \notin InFlight'
    <2>1. InFlight' = {}
      BY <1>1, <1>4 DEF SerialInv, OneAtATime, InFlight
    <2>2. ~HalfWritten(r)' /\ ~HalfRemoved(r)'
      BY <1>4 DEF InFlight, HalfWritten, HalfRemoved
    <2>3. RowsSeen' = rows' /\ LogSeen' = Entries(events, Len(events))'
      BY <1>2, <2>1 DEF Viewed
    <2> QED
      BY <1>1, <1>2, <2>2, <2>3 DEF ViewOf, Viewed
  <1> QED
    BY <1>3, <1>4

---------------------------------------------------------------------------
(* The log and the versions.                                               *)
LEMMA Appended ==
  ASSUME TypeOK, NEW e, events' = Append(events, e)
  PROVE  /\ Len(events) \in Nat /\ Len(events') = Len(events) + 1
         /\ DOMAIN events = 1..Len(events) /\ DOMAIN events' = DOMAIN events \cup {Len(events) + 1}
         /\ events'[Len(events) + 1] = e
         /\ \A k \in DOMAIN events : events'[k] = events[k] /\ k < Len(events) + 1
  <1>1. events \in Seq(Event)
    BY DEF TypeOK
  <1> QED
    BY <1>1

LEMMA Unlinked ==
  ASSUME TypeOK, NEW i \in Items, events' = Unlink(i)
  PROVE  /\ Len(events) \in Nat /\ Len(events') = Len(events)
         /\ DOMAIN events = 1..Len(events) /\ DOMAIN events' = DOMAIN events
         /\ \A k \in DOMAIN events : Entry(events'[k]) = Entry(events[k])
         /\ \A k \in DOMAIN events : /\ events'[k].id = events[k].id /\ events'[k].action = events[k].action
                                     /\ events'[k].prev = events[k].prev /\ events'[k].new = events[k].new
  <1>1. events \in Seq(Event) /\ events' \in Seq(Event) /\ DOMAIN events' = DOMAIN events
    BY UnlinkType DEF TypeOK
  <1>2. \A k \in DOMAIN events : events[k] \in Event
    BY <1>1
  <1>3. \A k \in DOMAIN events : events'[k] = [events[k] EXCEPT !.item = IF @ = i THEN None ELSE @]
    BY DEF Unlink
  <1>4. \A k \in DOMAIN events : /\ events'[k].id = events[k].id /\ events'[k].action = events[k].action
                                /\ events'[k].prev = events[k].prev /\ events'[k].new = events[k].new
                                /\ events'[k].user = events[k].user
    BY <1>2, <1>3 DEF Event
  <1> QED
    BY <1>1, <1>4 DEF Entry

(* What one step of a request does to items and log.                       *)
Changes(r) ==
  /\ pc[r] = "refreshed" /\ pc'[r] = "logged" /\ call[r].op # "delete"
  /\ post[r] = rows[Item(r)] /\ rows[Item(r)] # None
  /\ events' = Append(events, NewEvent(r, PreviousState(r), post[r]))
  /\ UNCHANGED <<rows, past>>

Announces(r) ==
  /\ pc[r] = "announcing" /\ pc'[r] = "announced"
  /\ events' = Append(events, NewEvent(r, snap[r], None))
  /\ UNCHANGED <<rows, past>>

Deletes(r) ==
  /\ pc[r] = "removing" /\ pc'[r] = "published"
  /\ rows' = [rows EXCEPT ![Item(r)] = None]
  /\ events' = Unlink(Item(r)) /\ past' = past

LEMMA TablesStep ==
  ASSUME SerialInv, NEW r \in Reqs, Handle(r)
  PROVE  \/ /\ UNCHANGED <<rows, events, past>> /\ HalfWritten(r)' = HalfWritten(r) /\ HalfRemoved(r)' = HalfRemoved(r)
            /\ HalfWritten(r) => snap'[r] = snap[r]
         \/ Writes(r) /\ (create_item(r) \/ update(r) \/ restore(r))
         \/ Changes(r)
         \/ Announces(r)
         \/ Deletes(r)
  <1>0. TypeOK /\ SerialAt(r) /\ reserved = {} /\ StageInv
    BY DEF SerialInv, TypeInv, OneAtATime
  <1>1. CASE create_item(r) \/ update(r) \/ restore(r)
    BY <1>1, SerialWrites
  <1>2. CASE log_event(r)
    BY <1>0, <1>2 DEF log_event, Changes, Advance, TypeOK, StageInv, SerialAt
  <1>3. CASE log_removed(r)
    BY <1>0, <1>3 DEF log_removed, Announces, Advance, TypeOK
  <1>4. CASE delete(r)
    <2>0. rows[Item(r)] # None
      BY <1>0, <1>4 DEF delete, SerialAt
    <2>1. past[Item(r)] \cup ({None} \ {None}) = past[Item(r)] /\ past \in [Items -> SUBSET Row]
      BY <1>0 DEF TypeOK
    <2>2. [past EXCEPT ![Item(r)] = @ \cup ({None} \ {None})] = past
      BY <2>1
    <2> QED
      BY <1>0, <1>4, <2>0, <2>2 DEF delete, Deletes, SetRow, Advance, TypeOK
  <1>5. ASSUME row_vanished(r) \/ already_deleted(r) PROVE FALSE
    <2>1. rows[Item(r)] = None /\ pc[r] \in {"checked", "written", "refreshed", "announcing", "deleting"}
      BY <1>5 DEF row_vanished, already_deleted, Gone
    <2>2. CASE pc[r] \in {"written", "refreshed"}
      <3>1. rows[Item(r)] = Target(r) /\ (call[r].op \in {"update", "status"} => snap[r] # None) /\ pc[r] # "idle"
            /\ (call[r].op = "undo" => Chosen(r)) /\ call[r].op # "delete" /\ call[r].op \in AllOps
        BY <1>0, <2>2, StartedFields DEF SerialAt, StageInv
      <3>2. source[r].prev \in State /\ source[r].new \in State /\ snap[r] \in State
        BY <1>0 DEF TypeOK
      <3>3. call[r].op = "undo" => source[r].prev # None
        BY <3>1 DEF Chosen
      <3>4. CASE call[r].op = "create"
        BY <1>0, <2>1, <3>1, <3>4, NewRowType, StartedFields DEF Target
      <3>5. CASE call[r].op # "create" /\ snap[r] = None
        BY <2>1, <3>1, <3>2, <3>3, <3>5, RestoredType, NoneIsNoRow DEF Target, AllOps, State
      <3>6. CASE call[r].op # "create" /\ snap[r] # None
        BY <1>0, <2>1, <3>1, <3>2, <3>3, <3>6, EditedType, NoneIsNoRow DEF Target, AllOps, State
      <3> QED
        BY <3>4, <3>5, <3>6
    <2>3. CASE pc[r] \notin {"written", "refreshed"}
      BY <1>0, <2>1, <2>3 DEF SerialAt, StageInv
    <2> QED
      BY <2>2, <2>3
  <1>6. CASE \/ Replay(r) \/ check_version(r) \/ not_found(r) \/ delete_item(r) \/ nothing_to_undo(r)
             \/ undo_nothing(r) \/ undo_change(r) \/ undo_removal(r) \/ respond(r)
    BY <1>0, <1>6 DEF Replay, check_version, not_found, delete_item, nothing_to_undo, undo_nothing, undo_change,
       undo_removal, respond, Calling, Gone, Advance, Finish, HalfWritten, HalfRemoved, tables, TypeOK
  <1>7. CASE publish(r) \/ refresh(r) \/ find_again(r)
    BY <1>0, <1>7 DEF publish, refresh, find_again, Advance, HalfWritten, HalfRemoved, tables, TypeOK
  <1> QED
    BY <1>1, <1>2, <1>3, <1>4, <1>5, <1>6, <1>7 DEF Handle

(* A request writes a version above all the item ever had.                 *)
LEMMA TargetIsNewer ==
  ASSUME SerialInv, NEW r \in Reqs, create_item(r) \/ update(r) \/ restore(r)
  PROVE  \A t \in past[Item(r)] : t.version < Target(r).version
  <1>0. /\ TypeOK /\ SerialAt(r) /\ Writes(r) /\ Item(r) \in Items /\ past[Item(r)] \subseteq Row
        /\ snap[r] \in State /\ source[r].prev \in State /\ VersionsTop /\ LogTells
    <2>1. TypeOK /\ SerialAt(r) /\ Writes(r) /\ VersionsTop /\ LogTells
      BY SerialWrites DEF SerialInv, TypeInv
    <2>2. pc[r] # "idle"
      BY DEF create_item, update, restore, Calling
    <2> QED
      BY <2>1, <2>2, StartedFields DEF TypeOK
  <1>r. \A t \in Row : t.version \in Nat
    BY DEF Row
  <1>v. \A s \in Row, n \in Nat : [s EXCEPT !.version = n].version = n
    BY DEF Row
  <1>1. CASE create_item(r)
    BY <1>0, <1>1 DEF create_item, Calling, SerialAt
  <1>2. CASE update(r)
    <2>1. pc[r] = "checked" /\ snap[r] = rows[Item(r)] /\ snap[r] # None
          /\ call[r].op \in {"update", "status", "undo"} /\ (call[r].op = "undo" => source[r].prev # None)
      BY <1>0, <1>2 DEF update, SerialAt, SerialInv, TypeInv, StageInv
    <2>2. Topmost(Item(r), snap[r]) /\ snap[r] \in Row
      BY <1>0, <2>1 DEF VersionsTop, State
    <2>3. Target(r).version = snap[r].version + 1
      <3>1. Target(r) = Edited(r)
        BY <2>1 DEF Target
      <3>2. CASE call[r].op = "update"
        BY <2>2, <3>1, <3>2 DEF Edited, Row
      <3>3. CASE call[r].op = "status"
        BY <2>2, <3>1, <3>3 DEF Edited, Row
      <3>4. CASE call[r].op = "undo"
        <4>1. source[r].prev \in Row /\ snap[r].version + 1 \in Nat
          BY <1>0, <1>r, <2>1, <2>2, <3>4 DEF State
        <4> QED
          BY <1>v, <3>1, <3>4, <4>1 DEF Edited
      <3> QED
        BY <2>1, <3>2, <3>3, <3>4
    <2> QED
      BY <1>0, <1>r, <2>2, <2>3 DEF Topmost
  <1>3. CASE restore(r)
    <2>1. pc[r] = "restoring" /\ snap[r] = None /\ call[r].op = "undo" /\ Chosen(r)
      BY <1>0, <1>3 DEF restore, SerialAt, SerialInv, TypeInv, StageInv
    <2>2. PICK k \in OwnOf(r) : /\ \A j \in OwnOf(r) : j <= k
                                /\ source[r].prev = events[k].prev /\ source[r].new = events[k].new
                                /\ events[k].prev # None /\ events[k].action = "removed"
      BY <2>1 DEF Chosen
    <2>3. rows[Item(r)] = None /\ \A j \in DOMAIN events : j > k => events[j].id # Item(r)
      BY <2>1, <2>2, RemovalFound
    <2>4. k \in DOMAIN events /\ events[k].id = Item(r)
      BY DEF OwnOf
    <2>5. Topmost(Item(r), source[r].prev) /\ source[r].new = None
      BY <1>0, <2>2, <2>3, <2>4 DEF VersionsTop, LogTells
    <2>6. source[r].prev \in Row
      BY <1>0, <2>2 DEF State
    <2>7. Target(r).version = source[r].prev.version + 1
      <3>1. Target(r) = Restored(source[r])
        BY <2>1 DEF Target
      <3>2. Restored(source[r]) = [source[r].prev EXCEPT !.version = Larger(source[r].prev.version, 0) + 1]
        BY <2>5 DEF Restored
      <3>3. Larger(source[r].prev.version, 0) = source[r].prev.version
        BY <1>r, <2>6 DEF Larger
      <3> QED
        BY <1>r, <1>v, <2>6, <3>1, <3>2, <3>3
    <2> QED
      BY <1>0, <1>r, <2>5, <2>6, <2>7 DEF Topmost
  <1> QED
    BY <1>1, <1>2, <1>3

LEMMA LogTellsStep == Serial /\ SerialInv /\ [Next]_vars => LogTells'
  <1> SUFFICES ASSUME Serial, SerialInv, [Next]_vars PROVE LogTells'
    OBVIOUS
  <1>0. TypeOK /\ LogTells
    BY DEF SerialInv, TypeInv
  <1>1. CASE UNCHANGED events
    BY <1>0, <1>1 DEF LogTells
  <1>2. ASSUME NEW e, events' = Append(events, e), e.prev # None \/ e.new # None,
               e.action = "removed" => e.prev # None /\ e.new = None
        PROVE  LogTells'
    BY <1>0, <1>2, Appended DEF LogTells
  <1>3. ASSUME NEW r \in Reqs, Handle(r) PROVE LogTells'
    <2>0. /\ pc[r] # "idle" /\ SerialAt(r) /\ StageInv /\ Item(r) \in Items /\ call[r].op \in AllOps
      BY <1>0, <1>3, HandleMoves, StartedFields DEF SerialInv, TypeInv, InFlight
    <2>1. CASE Changes(r)
      <3> DEFINE e == NewEvent(r, PreviousState(r), post[r])
      <3>1. pc[r] = "refreshed" /\ events' = Append(events, e) /\ call[r].op # "delete"
        BY <2>1 DEF Changes
      <3>2. e.new = post[r] /\ post[r] # None /\ e.action # "removed"
        BY <2>0, <2>1 DEF Changes, NewEvent, ActionOf, AllOps
      <3> HIDE DEF e
      <3> QED
        BY <1>2, <3>1, <3>2
    <2>2. CASE Announces(r)
      <3> DEFINE e == NewEvent(r, snap[r], None)
      <3>1. events' = Append(events, e) /\ e.prev = snap[r] /\ e.new = None /\ snap[r] # None
        BY <2>0, <2>2 DEF Announces, SerialAt, NewEvent
      <3> HIDE DEF e
      <3> QED
        BY <1>2, <3>1
    <2>3. CASE Deletes(r)
      BY <1>0, <2>0, <2>3, Unlinked DEF Deletes, LogTells
    <2> QED
      BY <1>1, <1>3, <2>1, <2>2, <2>3, TablesStep DEF Writes
  <1>4. ASSUME NEW r \in Reqs, NEW c \in Calls, Receive(r, c) PROVE UNCHANGED events
    BY <1>4 DEF Receive, tables
  <1> QED
    BY <1>1, <1>3, <1>4, SerialMoves DEF vars, tables

LEMMA VersionsTopStep == Serial /\ SerialInv /\ [Next]_vars => VersionsTop'
  <1> SUFFICES ASSUME Serial, SerialInv, [Next]_vars PROVE VersionsTop'
    OBVIOUS
  <1>0. TypeOK /\ VersionsTop
    BY DEF SerialInv, TypeInv
  <1>1. CASE UNCHANGED <<rows, events, past>>
    BY <1>0, <1>1 DEF VersionsTop, Topmost
  <1>2. ASSUME NEW e, events' = Append(events, e), UNCHANGED <<rows, past>>,
               e.action = "removed" => rows[e.id] # None
        PROVE  VersionsTop'
    <2>1. ASSUME NEW k \in DOMAIN events', events'[k].action = "removed", rows'[events'[k].id] = None,
                 \A j \in DOMAIN events' : j > k => events'[j].id # events'[k].id
          PROVE  Topmost(events'[k].id, events'[k].prev)
      <3>1. k \in DOMAIN events /\ events'[k] = events[k]
        BY <1>0, <1>2, <2>1, Appended
      <3>2. \A j \in DOMAIN events : j > k => events[j].id # events[k].id
        BY <1>0, <1>2, <2>1, <3>1, Appended
      <3> QED
        BY <1>0, <1>2, <2>1, <3>1, <3>2 DEF VersionsTop
    <2> QED
      BY <1>0, <1>2, <2>1 DEF VersionsTop, Topmost
  <1>3. ASSUME NEW r \in Reqs, Handle(r) PROVE VersionsTop'
    <2>0. /\ pc[r] # "idle" /\ SerialAt(r) /\ Item(r) \in Items /\ call[r].op \in AllOps
      BY <1>0, <1>3, HandleMoves, StartedFields DEF SerialInv, TypeInv, InFlight
    <2>1. CASE Changes(r)
      <3> DEFINE e == NewEvent(r, PreviousState(r), post[r])
      <3>1. events' = Append(events, e) /\ UNCHANGED <<rows, past>> /\ e.action # "removed"
        BY <2>0, <2>1 DEF Changes, NewEvent, ActionOf, AllOps
      <3> HIDE DEF e
      <3> QED
        BY <1>2, <3>1
    <2>2. CASE Announces(r)
      <3> DEFINE e == NewEvent(r, snap[r], None)
      <3>1. events' = Append(events, e) /\ UNCHANGED <<rows, past>> /\ rows[e.id] # None
        BY <2>0, <2>2 DEF Announces, NewEvent, SerialAt
      <3> HIDE DEF e
      <3> QED
        BY <1>2, <3>1
    <2>3. CASE Deletes(r)
      <3>1. /\ rows' = [rows EXCEPT ![Item(r)] = None] /\ past' = past /\ DOMAIN rows = Items
            /\ Len(events) > 0 /\ events[Len(events)].id = Item(r) /\ events[Len(events)].prev = rows[Item(r)]
            /\ rows[Item(r)] # None
        BY <1>0, <2>0, <2>3 DEF Deletes, SerialAt, NewEvent, TypeOK
      <3>2. ASSUME NEW k \in DOMAIN events', events'[k].action = "removed", rows'[events'[k].id] = None,
                   \A j \in DOMAIN events' : j > k => events'[j].id # events'[k].id
            PROVE  Topmost(events'[k].id, events'[k].prev)
        <4>1. /\ k \in DOMAIN events /\ k \in 1..Len(events) /\ Len(events) \in Nat
              /\ events'[k].id = events[k].id /\ events[k].action = "removed" /\ events'[k].prev = events[k].prev
              /\ \A j \in DOMAIN events : j > k => events[j].id # events[k].id
          BY <1>0, <2>0, <2>3, <3>2, Unlinked DEF Deletes
        <4>2. CASE events[k].id = Item(r)
          <5>1. k = Len(events)
            BY <1>0, <2>0, <2>3, <3>1, <4>1, <4>2, Unlinked DEF Deletes
          <5> QED
            BY <1>0, <2>0, <3>1, <4>1, <5>1 DEF VersionsTop
        <4>3. CASE events[k].id # Item(r)
          <5>1. rows[events[k].id] = None
            <6>1. events[k] \in Event
              BY <1>0, <4>1 DEF TypeOK
            <6> QED
              BY <3>1, <3>2, <4>1, <4>3, <6>1 DEF Event
          <5> QED
            BY <1>0, <4>1, <5>1 DEF VersionsTop
        <4> QED
          BY <4>2, <4>3
      <3>3. \A i \in Items : rows'[i] # None => Topmost(i, rows'[i])
        BY <1>0, <3>1 DEF VersionsTop
      <3> QED
        BY <3>1, <3>2, <3>3 DEF VersionsTop, Topmost
    <2>4. CASE Writes(r) /\ (create_item(r) \/ update(r) \/ restore(r))
      <3> DEFINE n == Target(r)
      <3>1. /\ rows' = [rows EXCEPT ![Item(r)] = n] /\ past' = [past EXCEPT ![Item(r)] = @ \cup {n}]
            /\ events' = events /\ n \in Row /\ n # None /\ DOMAIN rows = Items
            /\ past \in [Items -> SUBSET Row] /\ \A t \in Row : t.version \in Nat
        BY <1>0, <2>4, NoneIsNoRow DEF Writes, TypeOK, Row
      <3>2. \A t \in past[Item(r)] : t.version < n.version
        BY <2>4, TargetIsNewer
      <3> HIDE DEF n
      <3>3. \A t \in past'[Item(r)] : t.version <= n.version
        BY <2>0, <3>1, <3>2
      <3>4. \A i \in Items : i # Item(r) => rows'[i] = rows[i] /\ past'[i] = past[i]
        BY <2>0, <3>1
      <3>5. rows'[Item(r)] = n
        BY <2>0, <3>1
      <3>6. \A k \in DOMAIN events : events[k].id \in Items
        <4>1. \A k \in DOMAIN events : events[k] \in Event
          BY <1>0 DEF TypeOK
        <4> QED
          BY <4>1 DEF Event
      <3> QED
        BY <1>0, <3>1, <3>3, <3>4, <3>5, <3>6 DEF VersionsTop, Topmost
    <2> QED
      BY <1>1, <1>3, <2>1, <2>2, <2>3, <2>4, TablesStep
  <1>4. ASSUME NEW r \in Reqs, NEW c \in Calls, Receive(r, c) PROVE UNCHANGED <<rows, events, past>>
    BY <1>4 DEF Receive, tables
  <1> QED
    BY <1>1, <1>3, <1>4, SerialMoves DEF vars, tables

---------------------------------------------------------------------------
(* Every step is one of AtomicInventory or leaves what it sees unchanged.  *)
OneLonger(f, n, g, m, x) ==
  n \in Nat /\ m = n + 1 /\ Entry(g[m]) = x /\ \A k \in 1..n : Entry(g[k]) = Entry(f[k])

LEMMA OneMore ==
  ASSUME NEW f, NEW n, NEW g, NEW m, NEW x, OneLonger(f, n, g, m, x)
  PROVE  Entries(g, m) = Append(Entries(f, n), x)
  <1> USE DEF OneLonger
  <1> DEFINE s == Entries(f, n)
             t == Entries(g, m)
             a == Append(s, x)
             S == {Entry(f[k]) : k \in 1..n} \cup {x}
  <1>1. s = [k \in 1..n |-> Entry(f[k])] /\ t = [k \in 1..m |-> Entry(g[k])]
    BY DEF Entries
  <1>2. s \in Seq(S) /\ x \in S /\ Len(s) = n /\ \A k \in 1..n : s[k] = Entry(f[k])
    BY <1>1
  <1>3. \A k \in 1..m : t[k] = IF k = m THEN x ELSE s[k]
    BY <1>1, <1>2
  <1>4. t = [k \in 1..m |-> t[k]]
    BY <1>1
  <1> HIDE DEF s, t, S
  <1>5. a \in Seq(S) /\ Len(a) = m /\ (\A k \in 1..n : a[k] = s[k]) /\ a[m] = x
    BY <1>2, AppendProperties
  <1> HIDE DEF a
  <1>6. a = [k \in 1..m |-> a[k]] /\ \A k \in 1..m : a[k] = IF k = m THEN x ELSE s[k]
    BY <1>5
  <1>7. t = a
    BY <1>3, <1>4, <1>6
  <1> QED
    BY <1>7 DEF s, t, a

LEMMA EntriesGrow ==
  ASSUME NEW es \in Seq(Event), NEW e
  PROVE  /\ Entries(Append(es, e), Len(es)) = Entries(es, Len(es))
         /\ Entries(Append(es, e), Len(Append(es, e))) = Append(Entries(es, Len(es)), Entry(e))
  <1>1. /\ Len(es) \in Nat /\ Len(Append(es, e)) = Len(es) + 1 /\ Append(es, e)[Len(es) + 1] = e
        /\ \A k \in 1..Len(es) : Append(es, e)[k] = es[k]
    OBVIOUS
  <1>2. Entries(Append(es, e), Len(es)) = Entries(es, Len(es))
    BY <1>1 DEF Entries
  <1>3. Entries(Append(es, e), Len(es) + 1) = Append(Entries(es, Len(es)), Entry(e))
    <2> DEFINE n == Len(es)
               m == Len(es) + 1
               g == Append(es, e)
               x == Entry(e)
    <2>1. OneLonger(es, n, g, m, x)
      BY <1>1 DEF OneLonger
    <2> HIDE DEF n, m, g, x
    <2>2. Entries(g, m) = Append(Entries(es, n), x)
      BY <2>1, OneMore
    <2> QED
      BY <2>2 DEF n, m, g, x
  <1> QED
    BY <1>1, <1>2, <1>3

LEMMA RecordedEntry ==
  ASSUME NEW r, NEW prev, NEW new
  PROVE  Entry(NewEvent(r, prev, new)) = [id |-> Item(r), user |-> call[r].user, action |-> ActionOf(call[r].op),
                                          prev |-> prev, new |-> new]
  BY DEF Entry, NewEvent

(* The change of an item takes effect with its event.                      *)
LEMMA ChangeRecords ==
  ASSUME SerialInv, NEW r \in Reqs, Changes(r), ViewOf(r), ViewOf(r)'
  PROVE  /\ Atomic!Record(call[r].user, Item(r), ActionOf(call[r].op), PreviousState(r), Target(r))
         /\ RowsSeen[Item(r)] = snap[r] /\ LogSeen = Entries(events, Len(events)) /\ DOMAIN LogSeen = DOMAIN events
         /\ \A k \in DOMAIN events : LogSeen[k] = Entry(events[k])
  <1>0. /\ TypeOK /\ SerialAt(r) /\ pc[r] # "idle" /\ events \in Seq(Event) /\ DOMAIN rows = Items
        /\ rows[Item(r)] = Target(r) /\ post[r] = Target(r)
    BY DEF SerialInv, TypeInv, TypeOK, Changes, SerialAt
  <1>1. Item(r) \in Items
    BY <1>0, StartedFields
  <1>2. RowsSeen = [rows EXCEPT ![Item(r)] = snap[r]] /\ RowsSeen' = rows'
        /\ LogSeen = Entries(events, Len(events)) /\ LogSeen' = Entries(events', Len(events'))
    BY DEF Changes, ViewOf, HalfWritten, HalfRemoved
  <1>3. RowsSeen' = [RowsSeen EXCEPT ![Item(r)] = Target(r)]
    <2>1. rows = [i \in Items |-> rows[i]] /\ rows' = rows
      BY DEF Changes, SerialInv, TypeInv, TypeOK
    <2>2. [[rows EXCEPT ![Item(r)] = snap[r]] EXCEPT ![Item(r)] = rows[Item(r)]] = rows
      BY <1>1, <2>1
    <2> QED
      BY <1>0, <1>2, <2>1, <2>2
  <1>4. LogSeen' = Append(LogSeen, Entry(NewEvent(r, PreviousState(r), Target(r))))
    BY <1>0, <1>2, EntriesGrow DEF Changes
  <1>5. RowsSeen[Item(r)] = snap[r]
    BY <1>0, <1>1, <1>2
  <1>6. DOMAIN LogSeen = DOMAIN events /\ \A k \in DOMAIN events : LogSeen[k] = Entry(events[k])
    BY <1>0, <1>2 DEF Entries
  <1> QED
    BY <1>2, <1>3, <1>4, <1>5, <1>6, RecordedEntry DEF Atomic!Record

LEMMA ChangeIsAtomic ==
  ASSUME SerialInv, NEW r \in Reqs, Changes(r), ViewOf(r), ViewOf(r)'
  PROVE  Atomic!Next
  <1> DEFINE u == call[r].user
             i == Item(r)
  <1>0. /\ pc[r] = "refreshed" /\ SerialAt(r) /\ u \in Users /\ i \in Items
        /\ call[r].op \in {"create", "update", "status", "undo"} /\ snap[r] \in State
        /\ call[r].op \in {"create", "update"} => call[r].arg \in Contents
        /\ call[r].op = "status" => call[r].arg \in Statuses
    BY StartedFields DEF Changes, SerialInv, TypeInv, TypeOK, AllOps
  <1>1. /\ Atomic!Record(u, i, ActionOf(call[r].op), PreviousState(r), Target(r))
        /\ RowsSeen[i] = snap[r] /\ DOMAIN LogSeen = DOMAIN events
        /\ \A k \in DOMAIN events : LogSeen[k] = Entry(events[k])
    BY ChangeRecords
  <1>2. CASE call[r].op = "create"
    <2>1. snap[r] = None /\ (\A k \in DOMAIN events : events[k].id # i) /\ Target(r) = NewRow(call[r].arg)
          /\ ActionOf(call[r].op) = "added" /\ PreviousState(r) = None
      BY <1>0, <1>2 DEF SerialAt, Target, ActionOf, PreviousState
    <2>2. ~Atomic!Mentioned(i)
      BY <1>1, <2>1 DEF Atomic!Mentioned, Entry
    <2>3. Atomic!Add(u, i)
      BY <1>0, <1>1, <1>2, <2>1, <2>2 DEF Atomic!Add, Atomic!NewRow, NewRow
    <2> QED
      BY <1>0, <2>3 DEF Atomic!Next
  <1>3. CASE call[r].op \in {"update", "status"}
    <2>1. snap[r] # None /\ Target(r) = Edited(r) /\ PreviousState(r) = snap[r]
      BY <1>0, <1>3 DEF SerialAt, Target, PreviousState
    <2>2. CASE call[r].op = "update"
      <3>1. Atomic!Record(u, i, "updated", RowsSeen[i],
                          [RowsSeen[i] EXCEPT !.content = call[r].arg, !.version = @ + 1])
        BY <1>1, <2>1, <2>2 DEF ActionOf, Edited
      <3> QED
        BY <1>0, <1>1, <2>1, <2>2, <3>1 DEF Atomic!Change, Atomic!Next
    <2>3. CASE call[r].op = "status"
      <3>1. Atomic!Record(u, i, "status_updated", RowsSeen[i],
                          [RowsSeen[i] EXCEPT !.status = call[r].arg, !.version = @ + 1])
        BY <1>1, <2>1, <2>3 DEF ActionOf, Edited
      <3> QED
        BY <1>0, <1>1, <2>1, <2>3, <3>1 DEF Atomic!Change, Atomic!Next
    <2> QED
      BY <1>3, <2>2, <2>3
  <1>4. CASE call[r].op = "undo"
    <2>1. PICK k \in OwnOf(r) : /\ \A j \in OwnOf(r) : j <= k
                                /\ source[r].prev = events[k].prev /\ source[r].new = events[k].new
                                /\ events[k].prev # None /\ (events[k].action = "removed" <=> snap[r] = None)
      BY <1>0, <1>4 DEF SerialAt, Chosen
    <2>2. Atomic!Own(u, i) = OwnOf(r)
      BY <1>1 DEF Atomic!Own, OwnOf, Entry
    <2>3. k \in DOMAIN events /\ LogSeen[k] = Entry(events[k])
      BY <1>1 DEF OwnOf
    <2>4. LogSeen[k].prev = source[r].prev /\ LogSeen[k].new = source[r].new /\ LogSeen[k].action = events[k].action
      BY <2>1, <2>3 DEF Entry
    <2> DEFINE now == IF RowsSeen[i] = None THEN LogSeen[k].prev ELSE RowsSeen[i]
    <2>5. Target(r) = [LogSeen[k].prev EXCEPT !.version = now.version + 1]
      <3>1. CASE snap[r] = None
        <4>1. source[r].prev \in Row /\ source[r].new = None
          BY <2>1, <2>3, <3>1 DEF SerialInv, LogTells, TypeInv, TypeOK, State
        <4>2. Larger(source[r].prev.version, 0) = source[r].prev.version
          BY <4>1 DEF Larger, Row
        <4> QED
          BY <1>1, <1>4, <2>4, <3>1, <4>1, <4>2 DEF Target, Restored
      <3>2. CASE snap[r] # None
        BY <1>1, <1>4, <2>4, <3>2 DEF Target, Edited
      <3> QED
        BY <3>1, <3>2
    <2>6. Atomic!Record(u, i, "undone", LogSeen[k].new, [LogSeen[k].prev EXCEPT !.version = now.version + 1])
      BY <1>1, <1>4, <2>4, <2>5 DEF ActionOf, PreviousState
    <2>7. LogSeen[k].prev # None /\ (RowsSeen[i] = None <=> LogSeen[k].action = "removed")
      BY <1>1, <2>1, <2>4
    <2>8. Atomic!Undo(u, i)
      BY <2>1, <2>2, <2>6, <2>7 DEF Atomic!Undo
    <2> QED
      BY <1>0, <2>8 DEF Atomic!Next
  <1> QED
    BY <1>0, <1>2, <1>3, <1>4

(* The removal of an item takes effect when its row goes.                  *)
LEMMA RemovalIsAtomic ==
  ASSUME SerialInv, NEW r \in Reqs, Deletes(r), ViewOf(r), ViewOf(r)'
  PROVE  Atomic!Next
  <1>0. /\ TypeOK /\ SerialAt(r) /\ pc[r] = "removing" /\ DOMAIN rows = Items /\ events \in Seq(Event)
        /\ call[r].op = "delete"
    BY DEF SerialInv, TypeInv, TypeOK, StageInv, Deletes
  <1>1. Item(r) \in Items /\ call[r].user \in Users
    BY <1>0, StartedFields
  <1>2. /\ RowsSeen = rows /\ RowsSeen' = rows' /\ rows' = [rows EXCEPT ![Item(r)] = None]
        /\ LogSeen = Entries(events, Len(events) - 1) /\ LogSeen' = Entries(events', Len(events'))
    BY DEF Deletes, ViewOf, HalfWritten, HalfRemoved
  <1>3. Len(events) > 0 /\ events[Len(events)] = NewEvent(r, rows[Item(r)], None) /\ rows[Item(r)] # None
    BY <1>0 DEF SerialAt
  <1>4. /\ Len(events') = Len(events) /\ Len(events) \in Nat /\ \A k \in 1..Len(events) : Entry(events'[k]) = Entry(events[k])
    BY <1>0, <1>1, Unlinked DEF Deletes
  <1> DEFINE n == Len(events) - 1
             x == Entry(NewEvent(r, rows[Item(r)], None))
  <1>5. n \in Nat /\ n + 1 = Len(events)
    BY <1>3, <1>4
  <1>6. Entry(events'[n + 1]) = x /\ \A k \in 1..n : Entry(events'[k]) = Entry(events[k])
    BY <1>3, <1>4, <1>5
  <1>7. Entries(events', n + 1) = Append(Entries(events, n), x)
    <2> DEFINE g == events'
               m == n + 1
    <2>1. OneLonger(events, n, g, m, x)
      BY <1>5, <1>6 DEF OneLonger
    <2> HIDE DEF n, m, x, g
    <2>2. Entries(g, m) = Append(Entries(events, n), x)
      BY <2>1, OneMore
    <2> QED
      BY <2>2 DEF g, m
  <1>8. LogSeen' = Append(LogSeen, x)
    BY <1>2, <1>4, <1>5, <1>7
  <1>9. Atomic!Record(call[r].user, Item(r), "removed", RowsSeen[Item(r)], None)
    BY <1>0, <1>2, <1>8, RecordedEntry DEF Atomic!Record, ActionOf
  <1> QED
    BY <1>1, <1>2, <1>3, <1>9 DEF Atomic!Remove, Atomic!Next

LEMMA AtomicStep == Serial /\ SerialInv /\ [Next]_vars => [Atomic!Next]_(Atomic!vars)
  <1> SUFFICES ASSUME Serial, SerialInv, [Next]_vars PROVE Atomic!Next \/ UNCHANGED <<RowsSeen, LogSeen>>
    BY DEF Atomic!vars
  <1>1. ASSUME NEW r \in Reqs, Handle(r) PROVE Atomic!Next \/ UNCHANGED <<RowsSeen, LogSeen>>
    <2>0. ViewOf(r) /\ ViewOf(r)' /\ call' = call /\ TypeOK
      BY <1>1, HandleViews, HandleMoves DEF SerialInv, TypeInv
    <2>1. CASE /\ UNCHANGED <<rows, events, past>> /\ HalfWritten(r)' = HalfWritten(r)
               /\ HalfRemoved(r)' = HalfRemoved(r) /\ (HalfWritten(r) => snap'[r] = snap[r])
      <3>1. Item(r)' = Item(r)
        BY <2>0 DEF Item
      <3> QED
        BY <2>0, <2>1, <3>1 DEF ViewOf
    <2>2. CASE Writes(r) /\ (create_item(r) \/ update(r) \/ restore(r))
      <3>1. ~HalfWritten(r) /\ ~HalfRemoved(r) /\ HalfWritten(r)' /\ ~HalfRemoved(r)' /\ Item(r)' = Item(r)
        BY <2>0, <2>2 DEF HalfWritten, HalfRemoved, Writes, create_item, update, restore, Calling, Item
      <3>2. [rows' EXCEPT ![Item(r)] = snap'[r]] = rows
        BY <2>0, <2>2 DEF Writes, TypeOK
      <3> QED
        BY <2>0, <2>2, <3>1, <3>2 DEF ViewOf, Writes
    <2>3. CASE Announces(r)
      <3>1. ~HalfWritten(r) /\ ~HalfRemoved(r) /\ ~HalfWritten(r)' /\ HalfRemoved(r)'
        BY <2>3 DEF HalfWritten, HalfRemoved, Announces
      <3>2. events \in Seq(Event) /\ Len(events') - 1 = Len(events) /\ rows' = rows
        BY <2>0, <2>3, Appended DEF Announces, TypeOK
      <3>3. LogSeen = Entries(events, Len(events)) /\ LogSeen' = Entries(events', Len(events))
            /\ RowsSeen = rows /\ RowsSeen' = rows'
        BY <2>0, <3>1, <3>2 DEF ViewOf
      <3> QED
        BY <2>3, <3>2, <3>3, EntriesGrow DEF Announces
    <2>4. CASE Changes(r)
      BY <2>0, <2>4, ChangeIsAtomic
    <2>5. CASE Deletes(r)
      BY <2>0, <2>5, RemovalIsAtomic
    <2> QED
      BY <1>1, <2>1, <2>2, <2>3, <2>4, <2>5, TablesStep
  <1>2. ASSUME NEW r \in Reqs, NEW c \in Calls, Receive(r, c), InFlight = {} PROVE UNCHANGED <<RowsSeen, LogSeen>>
    <2>1. Viewed /\ Viewed'
      BY Views, ViewedStep DEF SerialInv
    <2>2. UNCHANGED <<rows, events>> /\ pc'[r] = "loaded" /\ r \in InFlight'
      BY <1>2 DEF Receive, Advance, tables, InFlight, SerialInv, TypeInv, TypeOK
    <2>3. ~HalfWritten(r)' /\ ~HalfRemoved(r)'
      BY <2>2 DEF HalfWritten, HalfRemoved
    <2>4. RowsSeen' = rows' /\ LogSeen' = Entries(events', Len(events'))
      BY <2>1, <2>2, <2>3 DEF Viewed, ViewOf
    <2> QED
      BY <1>2, <2>1, <2>2, <2>4 DEF Viewed
  <1>3. CASE UNCHANGED vars
    BY <1>3 DEF vars, tables, RowsSeen, LogSeen, Halfway, Item
  <1> QED
    BY <1>1, <1>2, <1>3, SerialMoves

(* What AtomicInventory keeps of itself.                                   *)
LEMMA SeenTypes ==
  ASSUME TypeInv
  PROVE  DOMAIN RowsSeen = Items /\ \E S : LogSeen \in Seq(S)
  <1>1. events \in Seq(Event) /\ DOMAIN events = 1..Len(events) /\ Len(events) \in Nat
    BY DEF TypeInv, TypeOK
  <1> DEFINE n == IF \E k \in DOMAIN events : pc[events[k].req] \in {"announced", "deleting", "removing"}
                  THEN Len(events) - 1 ELSE Len(events)
  <1>2. n \in Nat
    BY <1>1
  <1>3. LogSeen = [k \in 1..n |-> LogSeen[k]]
    BY DEF LogSeen
  <1> HIDE DEF n
  <1>4. LogSeen \in Seq({LogSeen[k] : k \in 1..n})
    BY <1>2, <1>3
  <1> QED
    BY <1>4 DEF RowsSeen

LEMMA RecordKeeps ==
  ASSUME TypeInv, RemovedIsLast, NEW u, NEW i \in Items, NEW action, NEW prev, NEW new,
         Atomic!Record(u, i, action, prev, new), action = "removed" => new = None,
         \A k \in DOMAIN LogSeen : Standing(k) /\ LogSeen[k].id = i => LogSeen[k].user = u
  PROVE  RemovedIsLast'
  <1> DEFINE e == [id |-> i, user |-> u, action |-> action, prev |-> prev, new |-> new]
             n == Len(LogSeen)
  <1>1. RowsSeen' = [RowsSeen EXCEPT ![i] = new] /\ LogSeen' = Append(LogSeen, e) /\ DOMAIN RowsSeen = Items
    BY SeenTypes DEF Atomic!Record
  <1>e. e.id = i /\ e.user = u /\ e.action = action
    OBVIOUS
  <1> HIDE DEF e
  <1>2. /\ n \in Nat /\ DOMAIN LogSeen = 1..n /\ DOMAIN LogSeen' = 1..(n + 1) /\ LogSeen'[n + 1] = e
        /\ \A k \in 1..n : LogSeen'[k] = LogSeen[k]
    BY <1>1, SeenTypes
  <1> HIDE DEF n
  <1> SUFFICES ASSUME NEW k \in DOMAIN LogSeen', Standing(k)'
               PROVE  RowsSeen'[LogSeen'[k].id] = None /\ LaterOf(k)' = {}
    BY DEF RemovedIsLast
  <1>3. CASE k = n + 1
    BY <1>1, <1>2, <1>3, <1>e DEF Standing, LaterOf
  <1>4. CASE k \in 1..n
    <2>1. LaterOf(k)' = LaterOf(k) \cup (IF LogSeen[k].id = i THEN {n + 1} ELSE {})
      BY <1>2, <1>4, <1>e DEF LaterOf
    <2>2. \A j \in LaterOf(k) : j \in 1..n
      BY <1>2 DEF LaterOf
    <2>3. Standing(k) /\ (LogSeen[k].id = i => LogSeen[k].user # u)
      BY <1>2, <1>4, <1>e, <2>1, <2>2 DEF Standing
    <2>4. LogSeen[k].id # i
      BY <1>2, <1>4, <2>3
    <2>5. RowsSeen[LogSeen[k].id] = None /\ LaterOf(k) = {}
      BY <1>2, <1>4, <2>3 DEF RemovedIsLast
    <2> QED
      BY <1>1, <1>2, <1>4, <2>1, <2>4, <2>5
  <1> QED
    BY <1>2, <1>3, <1>4

LEMMA RemovedIsLastStep ==
  TypeInv /\ RemovedIsLast /\ [Atomic!Next]_(Atomic!vars) => RemovedIsLast'
  <1> SUFFICES ASSUME TypeInv, RemovedIsLast, [Atomic!Next]_(Atomic!vars) PROVE RemovedIsLast'
    OBVIOUS
  <1>1. CASE UNCHANGED Atomic!vars
    BY <1>1 DEF Atomic!vars, RemovedIsLast, Standing, LaterOf
  <1>2. ASSUME NEW u \in Users, NEW i \in Items,
               Atomic!Add(u, i) \/ Atomic!Change(u, i) \/ Atomic!Remove(u, i) \/ Atomic!Undo(u, i)
        PROVE  RemovedIsLast'
    <2>1. CASE Atomic!Add(u, i)
      <3>1. \A k \in DOMAIN LogSeen : LogSeen[k].id # i
        BY <2>1 DEF Atomic!Add, Atomic!Mentioned
      <3>2. \E new : Atomic!Record(u, i, "added", None, new)
        BY <2>1 DEF Atomic!Add
      <3> QED
        BY <3>1, <3>2, RecordKeeps
    <2>2. CASE RowsSeen[i] # None
      <3>1. \A k \in DOMAIN LogSeen : ~(Standing(k) /\ LogSeen[k].id = i)
        BY <2>2 DEF RemovedIsLast
      <3>2. ASSUME NEW action, NEW prev, NEW new, Atomic!Record(u, i, action, prev, new),
                   action = "removed" => new = None
            PROVE  RemovedIsLast'
        BY <3>1, <3>2, RecordKeeps
      <3>3. CASE Atomic!Change(u, i)
        BY <3>2, <3>3 DEF Atomic!Change
      <3>4. CASE Atomic!Remove(u, i)
        BY <3>2, <3>4 DEF Atomic!Remove
      <3>5. CASE Atomic!Undo(u, i)
        <4>1. \E prev, new : Atomic!Record(u, i, "undone", prev, new)
          BY <3>5 DEF Atomic!Undo
        <4> QED
          BY <3>2, <4>1
      <3> QED
        BY <1>2, <2>1, <3>3, <3>4, <3>5
    <2>3. CASE RowsSeen[i] = None /\ Atomic!Undo(u, i)
      <3>1. PICK k \in Atomic!Own(u, i) :
              /\ \A j \in Atomic!Own(u, i) : j <= k
              /\ LogSeen[k].action = "removed"
              /\ \E prev, new : Atomic!Record(u, i, "undone", prev, new)
        BY <2>3 DEF Atomic!Undo
      <3>2. k \in DOMAIN LogSeen /\ LogSeen[k].user = u /\ LogSeen[k].id = i
        BY DEF Atomic!Own
      <3>3. \A j \in DOMAIN LogSeen : j \in Nat
        BY SeenTypes
      <3>4. Standing(k)
        BY <3>1, <3>2, <3>3 DEF Standing, LaterOf, Atomic!Own
      <3>5. ASSUME NEW j \in DOMAIN LogSeen, Standing(j), LogSeen[j].id = i PROVE LogSeen[j].user = u
        <4>1. LaterOf(j) = {} /\ LaterOf(k) = {}
          BY <3>2, <3>4, <3>5 DEF RemovedIsLast
        <4>2. j = k
          BY <3>2, <3>3, <3>5, <4>1 DEF LaterOf
        <4> QED
          BY <3>2, <4>2
      <3> QED
        BY <3>1, <3>5, RecordKeeps
    <2> QED
      BY <1>2, <2>1, <2>2, <2>3 DEF Atomic!Change, Atomic!Remove
  <1> QED
    BY <1>1, <1>2 DEF Atomic!Next

---------------------------------------------------------------------------
(* Theorems about requests that are carried out one by one.                *)
LEMMA SerialInit == Init => SerialInv
  <1> SUFFICES ASSUME Init PROVE SerialInv
    OBVIOUS
  <1>1. TypeInv /\ PastInv
    BY TypeInit, PastInit
  <1>2. OneAtATime /\ \A r \in Reqs : SerialAt(r)
    BY DEF Init, OneAtATime, InFlight, SerialAt
  <1>3. events = <<>> /\ DOMAIN events = {}
    BY DEF Init
  <1>4. LogTells /\ VersionsTop
    <2>1. \A c \in Contents : NewRow(c).version \in Nat
      BY DEF NewRow
    <2> QED
      BY <1>3, <2>1 DEF Init, LogTells, VersionsTop, Topmost
  <1>5. LogSeen = <<>>
    BY <1>3 DEF LogSeen
  <1>6. RemovedIsLast
    BY <1>5 DEF RemovedIsLast
  <1> QED
    BY <1>1, <1>2, <1>4, <1>6 DEF SerialInv

LEMMA SerialInvariant == Serial /\ Spec => [](Serial /\ SerialInv)
  <1>1. Serial /\ SerialInv /\ [Next]_vars => (Serial /\ SerialInv)'
    <2>1. Serial /\ SerialInv /\ [Next]_vars => RemovedIsLast'
      BY AtomicStep, RemovedIsLastStep DEF SerialInv
    <2>2. Serial => Serial'
      BY DEF Serial
    <2> QED
      BY <2>1, <2>2, TypeStep, PastStep, OneAtATimeStep, SerialAtStep, LogTellsStep, VersionsTopStep
         DEF SerialInv
  <1> QED
    BY SerialInit, <1>1, PTL DEF Spec

(* While requests are carried out one by one, the request handlers         *)
(* implement the inventory whose items and activity log change together:   *)
(* the two transactions of a change look like one step to everybody        *)
(* (service.py:33-129, event_service.py:47-149).                           *)
THEOREM ChangesAreAtomic == Serial /\ Spec => ImplementsAtomicInventory
  <1>1. Init => Atomic!Init
    <2> SUFFICES ASSUME Init PROVE Atomic!Init
      OBVIOUS
    <2>1. events = <<>> /\ \A i \in Items : Halfway(i) = {}
      BY DEF Init, Halfway
    <2>2. LogSeen = <<>>
      BY <2>1 DEF LogSeen
    <2>3. RowsSeen = rows
      BY <2>1 DEF RowsSeen, Init
    <2> QED
      BY <2>2, <2>3 DEF Init, Atomic!Init, Atomic!NewRow, NewRow
  <1> QED
    BY <1>1, AtomicStep, SerialInvariant, PTL DEF Spec, ImplementsAtomicInventory, Atomic!Spec

(* While requests are carried out one by one, the version of an item only  *)
(* grows, over its removal and restoration too (service.py:91-129,         *)
(* event_service.py:127-149).                                              *)
THEOREM VersionsAlwaysGrow == Serial /\ Spec => VersionsGrow
  <1>1. Serial /\ SerialInv /\ [Next]_vars =>
          [\A i \in Items : rows'[i] \notin {None, rows[i]} => \A s \in past[i] : s.version < rows'[i].version]_vars
    <2> SUFFICES ASSUME Serial, SerialInv, [Next]_vars, NEW i \in Items, rows'[i] \notin {None, rows[i]}
                 PROVE  \A s \in past[i] : s.version < rows'[i].version
      OBVIOUS
    <2>0. DOMAIN rows = Items
      BY DEF SerialInv, TypeInv, TypeOK
    <2>1. ASSUME NEW r \in Reqs, Handle(r) PROVE \A s \in past[i] : s.version < rows'[i].version
      <3>1. Writes(r) /\ (create_item(r) \/ update(r) \/ restore(r))
        BY <2>0, <2>1, TablesStep DEF Changes, Announces, Deletes
      <3>2. i = Item(r) /\ rows'[i] = Target(r)
        BY <2>0, <3>1 DEF Writes
      <3> QED
        BY <3>1, <3>2, TargetIsNewer
    <2>2. UNCHANGED rows \/ \E r \in Reqs : Handle(r)
      BY SerialMoves DEF Receive, vars, tables
    <2> QED
      BY <2>1, <2>2
  <1> QED
    BY <1>1, SerialInvariant, PTL DEF Spec, VersionsGrow
=============================================================================
